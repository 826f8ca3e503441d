------------------------- MODULE PruneAgentRulesProofs -------------------------
(* What holds of PruneAgentRules for every set of files and rules, however often the agents write *)
(* and the runs fail.                                                                              *)
EXTENDS PruneAgentRules, TLAPS

-------------------------------------------------------------------------------
(* What pruning does to a document *)

\* A document is pruned to one, and what is not a list of strings stays as it is.
LEMMA PruneType == ASSUME NEW doc \in Documents, NEW rules \in SUBSET Rules
                   PROVE  Prune(doc, rules) \in Documents
  <1>1. CASE doc.deny = NoList
    BY <1>1 DEF Prune
  <1>2. CASE doc.deny # NoList
    <2>1. doc.deny \in SUBSET Rules /\ doc.deny \cap rules \in Denies
      BY <1>2 DEF Documents, Denies
    <2> QED
      BY <1>2, <2>1 DEF Prune, Documents
  <1> QED
    BY <1>1, <1>2

LEMMA NotTorn == Torn \notin Documents
  BY ValueAssumption

\* What is prunable has a list of rules, and so does the record of it.
LEMMA PrunableLists == ASSUME TypeOK, NEW f \in Files, Prunable(f)
                       PROVE  file[f] \in Documents /\ keep[f] # NoList /\ file[f].deny # NoList
  BY DEF TypeOK, Prunable, Prune, Keep

-------------------------------------------------------------------------------
(* Type correctness *)

LEMMA InitType == Init => TypeOK
  <1> SUFFICES ASSUME Init PROVE TypeOK
    OBVIOUS
  <1>1. Blank \in Documents
    BY BoundAssumption DEF Blank, Documents, Denies
  <1>2. file \in [Files -> Documents \cup {Torn}]
    BY BoundAssumption DEF Init, Documents
  <1>3. record \in [Files -> Denies] /\ keep \in [Files -> Denies]
    BY DEF Init
  <1>4. backups \in [Files -> SUBSET (Documents \cup {Torn})]
    BY DEF Init
  <1>5. /\ writing \in [Files -> Writings \cup {Nobody}]
        /\ temp \in [Files -> Documents \cup {Torn, Nobody}]
    BY DEF Init
  <1>6. todo \subseteq Files /\ at \in Files /\ mishaps \in 0 .. MaxMishaps
    BY BoundAssumption DEF Init
  <1>7. check \in BOOLEAN
    BY DEF Init
  <1> QED
    BY <1>1, <1>2, <1>3, <1>4, <1>5, <1>6, <1>7 DEF Init, TypeOK

\* What replaces a file is a document.
LEMMA ReplacedType == ASSUME TypeOK, PruneInv, pc = "replace", Replaced
                      PROVE  /\ temp[at] \in Documents
                             /\ file' \in [Files -> Documents \cup {Torn}]
                             /\ temp' \in [Files -> Documents \cup {Torn, Nobody}]
                             /\ writing' \in [Files -> Writings \cup {Nobody}]
  <1>1. temp[at] \in Documents
    <2>1. keep[at] \in SUBSET Rules
      BY DEF TypeOK, Denies, PruneInv, LoadedTrue
    <2> QED
      BY <2>1, PruneType DEF PruneInv, Staged, TypeOK
  <1>2. file' \in [Files -> Documents \cup {Torn}] /\ temp' \in [Files -> Documents \cup {Torn, Nobody}]
    BY <1>1 DEF Replaced, TypeOK
  <1>3. ASSUME writing[at] # Nobody
        PROVE  [writing[at] EXCEPT !.by = "gone"] \in Writings
    BY <1>3 DEF TypeOK, Writings
  <1>4. writing' \in [Files -> Writings \cup {Nobody}]
    BY <1>3 DEF Replaced, TypeOK
  <1> QED
    BY <1>1, <1>2, <1>4

LEMMA CutOffType == ASSUME TypeOK, PruneInv, CutOff
                    PROVE  /\ file' \in [Files -> Documents \cup {Torn}]
                           /\ backups' \in [Files -> SUBSET (Documents \cup {Torn})]
                           /\ temp' \in [Files -> Documents \cup {Torn, Nobody}]
                           /\ writing' \in [Files -> Writings \cup {Nobody}]
  <1>1. CASE UNCHANGED <<file, backups, writing, temp>>
    BY <1>1 DEF TypeOK
  <1>2. ASSUME NEW got \in {Torn, file[at]}, backups' = [backups EXCEPT ![at] = @ \cup {got}],
               UNCHANGED <<file, writing, temp>>
        PROVE  backups' \in [Files -> SUBSET (Documents \cup {Torn})]
    BY <1>2 DEF TypeOK
  <1>3. ASSUME NEW got \in {Nobody, Torn, Prune(loaded, Keep(at))}, temp' = [temp EXCEPT ![at] = got], pc = "stage"
        PROVE  temp' \in [Files -> Documents \cup {Torn, Nobody}]
    <2>1. keep[at] \in SUBSET Rules
      BY <1>3 DEF TypeOK, Denies, PruneInv, LoadedTrue
    <2>2. got \in Documents \cup {Torn, Nobody}
      BY <2>1, PruneType DEF TypeOK, Keep
    <2> QED
      BY <1>3, <2>2 DEF TypeOK
  <1>4. CASE pc = "replace" /\ Replaced /\ UNCHANGED backups
    BY <1>4, ReplacedType DEF TypeOK
  <1> QED
    BY <1>1, <1>2, <1>3, <1>4 DEF CutOff, TypeOK

LEMMA InstallType == ASSUME TypeOK, NEW f \in Files, Install(f)
                     PROVE  file'[f] \in Documents /\ file' \in [Files -> Documents \cup {Torn}]
  <1>1. file[f] \in Documents /\ file[f].deny \in SUBSET Rules
    BY DEF Install, TypeOK, Documents, Denies
  <1>2. PICK rules \in SUBSET Rules :
          file' = [file EXCEPT ![f].deny = (IF record[f] = NoList THEN @ ELSE @ \ record[f]) \cup rules]
    BY DEF Install
  <1>3. file'[f] = [file[f] EXCEPT !.deny =
                       (IF record[f] = NoList THEN file[f].deny ELSE file[f].deny \ record[f]) \cup rules]
    BY <1>2 DEF TypeOK
  <1>4. file'[f] \in Documents
    BY <1>1, <1>3 DEF Documents, Denies
  <1> QED
    BY <1>2, <1>4 DEF TypeOK

LEMMA NextType == TypeOK /\ PruneInv /\ [Next]_vars => TypeOK'
  <1> SUFFICES ASSUME TypeOK, PruneInv, [Next]_vars PROVE TypeOK'
    OBVIOUS
  <1> USE BoundAssumption DEF Goto, Mishap, vars, runVars
  <1>1. CASE Begin
    BY <1>1 DEF Begin, TypeOK
  <1>2. ASSUME NEW f \in Files, Skip(f) PROVE TypeOK'
    BY <1>2 DEF Skip, TypeOK
  <1>3. ASSUME NEW f \in Files, Load(f) PROVE TypeOK'
    BY <1>3, PrunableLists DEF Load, TypeOK
  <1>4. CASE Copy
    BY <1>4 DEF Copy, TypeOK
  <1>5. CASE Stage
    <2>1. keep[at] \in SUBSET Rules
      BY <1>5 DEF Stage, TypeOK, Denies, PruneInv, LoadedTrue
    <2>2. Prune(loaded, keep[at]) \in Documents
      BY <2>1, PruneType DEF TypeOK
    <2> QED
      BY <1>5, <2>2 DEF Stage, TypeOK, Keep
  <1>6. CASE Replace
    BY <1>6, ReplacedType DEF Replace, TypeOK
  <1>7. CASE End
    BY <1>7 DEF End, TypeOK
  <1>8. CASE Denied
    BY <1>8, CutOffType DEF Denied, TypeOK
  <1>9. ASSUME NEW kind, Ended(kind) PROVE TypeOK'
    BY <1>9, CutOffType DEF Ended, TypeOK
  <1>10. ASSUME NEW f \in Files, AgentReads(f) PROVE TypeOK'
    <2>1. PICK rules \in IF file[f].deny = NoList THEN {NoList} ELSE {file[f].deny, file[f].deny \cup Rules} :
            writing' = [writing EXCEPT ![f] = [doc |-> [deny |-> rules, edit |-> file[f].edit + 1], by |-> "mind"]]
      BY <1>10 DEF AgentReads
    <2>2. file[f].deny \in Denies /\ file[f].edit + 1 \in 0 .. MaxEdits
      BY <1>10 DEF AgentReads, TypeOK, Documents
    <2>3. rules \in Denies
      BY <2>1, <2>2 DEF Denies
    <2>4. [deny |-> rules, edit |-> file[f].edit + 1] \in Documents
      BY <2>2, <2>3 DEF Documents
    <2> QED
      BY <1>10, <2>1, <2>4 DEF AgentReads, TypeOK, Writings
  <1>11. ASSUME NEW f \in Files, AgentReplaces(f) PROVE TypeOK'
    BY <1>11 DEF AgentReplaces, Touched, TypeOK, Writings
  <1>12. ASSUME NEW f \in Files, AgentOpens(f) PROVE TypeOK'
    BY <1>12 DEF AgentOpens, Touched, TypeOK, Writings
  <1>13. ASSUME NEW f \in Files, AgentCloses(f) PROVE TypeOK'
    BY <1>13 DEF AgentCloses, Touched, TypeOK, Writings
  <1>14. ASSUME NEW f \in Files, Install(f) PROVE TypeOK'
    <2>1. file' \in [Files -> Documents \cup {Torn}]
      BY <1>14, InstallType
    <2>2. record' \in [Files -> Denies]
      BY <1>14 DEF Install, TypeOK, Denies
    <2> QED
      BY <1>14, <2>1, <2>2 DEF Install, TypeOK
  <1>15. CASE UNCHANGED vars
    BY <1>15 DEF TypeOK
  <1> QED
    BY <1>1, <1>2, <1>3, <1>4, <1>5, <1>6, <1>7, <1>8, <1>9, <1>10, <1>11, <1>12, <1>13, <1>14, <1>15
    DEF Next, Run, Agent

-------------------------------------------------------------------------------
(* What the steps preserve together *)

LEMMA InitInv == Init => PruneInv
  <1> SUFFICES ASSUME Init PROVE PruneInv
    OBVIOUS
  <1>1. ASSUME NEW f \in Files PROVE file[f] # Torn
    <2>1. file[f] \in Documents
      BY BoundAssumption DEF Init, Documents
    <2> QED
      BY <2>1, NotTorn
  <1> QED
    BY <1>1 DEF Init, PruneInv, NeverTorn, RecordRead, LoadedTrue, SetAside, Staged

\* A replacement puts a whole file where there may have been a torn one.
LEMMA ReplacedWhole == ASSUME TypeOK, PruneInv, pc = "replace", Replaced
                       PROVE  NeverTorn'
  <1>1. file' = [file EXCEPT ![at] = temp[at]] /\ temp[at] # Torn
    BY ReplacedType, NotTorn DEF Replaced
  <1>2. ASSUME NEW f \in Files, f # at PROVE writing'[f] = writing[f]
    BY <1>2 DEF Replaced, TypeOK
  <1> QED
    BY <1>1, <1>2 DEF NeverTorn, PruneInv, TypeOK

LEMMA CutOffWhole == ASSUME TypeOK, PruneInv, CutOff
                     PROVE  NeverTorn'
  <1>1. CASE UNCHANGED <<file, writing>>
    BY <1>1 DEF NeverTorn, PruneInv
  <1>2. CASE pc = "replace" /\ Replaced
    BY <1>2, ReplacedWhole
  <1> QED
    BY <1>1, <1>2 DEF CutOff

\* Between two files of the run, and outside of it, nothing is asked of what it has loaded.
LEMMA NothingLoaded == ASSUME pc' \in {"idle", "next"}
                       PROVE  LoadedTrue' /\ SetAside' /\ Staged'
  BY DEF LoadedTrue, SetAside, Staged

\* The agent spoils what a run has seen of the file it is at, and of no other.
LEMMA TouchedSeen ==
  ASSUME TypeOK, PruneInv, NEW f \in Files, NEW doc, file' = [file EXCEPT ![f] = doc], Touched(f),
         UNCHANGED <<record, backups, pc, check, keep, todo, at, loaded, temp, mishaps>>
  PROVE  RecordRead' /\ LoadedTrue' /\ SetAside' /\ Staged'
  <1>1. RecordRead' /\ Staged'
    BY DEF PruneInv, RecordRead, Staged
  <1>2. CASE f = at
    BY <1>1, <1>2 DEF PruneInv, LoadedTrue, SetAside, Touched
  <1>3. CASE f # at
    <2>1. file'[at] = file[at] /\ written' = written
      BY <1>3 DEF TypeOK, Touched
    <2> QED
      BY <1>1, <2>1 DEF PruneInv, LoadedTrue, SetAside
  <1> QED
    BY <1>2, <1>3

LEMMA NextInv == TypeOK /\ PruneInv /\ [Next]_vars => PruneInv'
  <1> SUFFICES ASSUME TypeOK, PruneInv, [Next]_vars PROVE PruneInv'
    OBVIOUS
  <1> USE DEF Goto
  <1>1. CASE Begin
    BY <1>1, NothingLoaded DEF Begin, PruneInv, NeverTorn, RecordRead
  <1>2. ASSUME NEW f \in Files, Skip(f) PROVE PruneInv'
    BY <1>2, NothingLoaded DEF Skip, PruneInv, NeverTorn, RecordRead
  <1>3. ASSUME NEW f \in Files, Load(f) PROVE PruneInv'
    BY <1>3, PrunableLists DEF Load, PruneInv, NeverTorn, RecordRead, LoadedTrue, SetAside, Staged
  <1>4. CASE Copy
    BY <1>4 DEF Copy, TypeOK, PruneInv, NeverTorn, RecordRead, LoadedTrue, SetAside, Staged
  <1>5. CASE Stage
    BY <1>5 DEF Stage, Keep, TypeOK, PruneInv, NeverTorn, RecordRead, LoadedTrue, SetAside, Staged
  <1>6. CASE Replace
    <2>1. NeverTorn'
      BY <1>6, ReplacedWhole DEF Replace
    <2> QED
      BY <1>6, <2>1, NothingLoaded DEF Replace, PruneInv, RecordRead
  <1>7. CASE End
    BY <1>7, NothingLoaded DEF End, PruneInv, NeverTorn, RecordRead
  <1>8. CASE Denied
    <2>1. NeverTorn'
      BY <1>8, CutOffWhole DEF Denied
    <2> QED
      BY <1>8, <2>1, NothingLoaded DEF Denied, PruneInv, RecordRead
  <1>9. ASSUME NEW kind, Ended(kind) PROVE PruneInv'
    <2>1. NeverTorn'
      BY <1>9, CutOffWhole DEF Ended
    <2> QED
      BY <1>9, <2>1, NothingLoaded DEF Ended, PruneInv, RecordRead
  <1>10. ASSUME NEW f \in Files, AgentReads(f) PROVE PruneInv'
    <2>1. NeverTorn'
      BY <1>10 DEF AgentReads, TypeOK, PruneInv, NeverTorn
    <2> QED
      BY <1>10, <2>1 DEF AgentReads, runVars, PruneInv, RecordRead, LoadedTrue, SetAside, Staged
  <1>11. ASSUME NEW f \in Files, AgentReplaces(f) PROVE PruneInv'
    <2>1. writing[f].doc # Torn
      BY <1>11, NotTorn DEF AgentReplaces, TypeOK, Writings
    <2>2. NeverTorn'
      BY <1>11, <2>1 DEF AgentReplaces, TypeOK, Writings, PruneInv, NeverTorn
    <2> QED
      BY <1>11, <2>2, TouchedSeen DEF AgentReplaces, PruneInv
  <1>12. ASSUME NEW f \in Files, AgentOpens(f) PROVE PruneInv'
    <2>1. writing'[f] \in Writings /\ writing'[f].by = "here"
      BY <1>12 DEF AgentOpens, TypeOK, Writings
    <2>2. NeverTorn'
      BY <1>12, <2>1, ValueAssumption DEF AgentOpens, TypeOK, PruneInv, NeverTorn
    <2> QED
      BY <1>12, <2>2, TouchedSeen DEF AgentOpens, PruneInv
  <1>13. ASSUME NEW f \in Files, AgentCloses(f) PROVE PruneInv'
    <2>1. CASE writing[f].by = "here"
      <3>1. writing[f].doc # Torn
        BY <1>13, NotTorn DEF AgentCloses, TypeOK, Writings
      <3>2. NeverTorn'
        BY <1>13, <2>1, <3>1 DEF AgentCloses, TypeOK, Writings, PruneInv, NeverTorn
      <3> QED
        BY <1>13, <2>1, <3>2, TouchedSeen DEF AgentCloses, PruneInv
    <2>2. CASE writing[f].by # "here"
      <3>1. NeverTorn'
        BY <1>13, <2>2 DEF AgentCloses, TypeOK, Writings, PruneInv, NeverTorn
      <3> QED
        BY <1>13, <2>2, <3>1 DEF AgentCloses, PruneInv, RecordRead, LoadedTrue, SetAside, Staged
    <2> QED
      BY <2>1, <2>2
  <1>14. ASSUME NEW f \in Files, Install(f) PROVE PruneInv'
    <2>1. pc = "idle" /\ UNCHANGED <<pc, writing>>
      BY <1>14 DEF Install, runVars
    <2>2. file'[f] # Torn
      BY <1>14, InstallType, NotTorn
    <2>3. \A g \in Files \ {f} : file'[g] = file[g]
      BY <1>14 DEF Install, TypeOK
    <2>4. NeverTorn'
      BY <2>1, <2>2, <2>3 DEF PruneInv, NeverTorn
    <2> QED
      BY <2>1, <2>4, NothingLoaded DEF PruneInv, RecordRead
  <1>15. CASE UNCHANGED vars
    BY <1>15 DEF vars, runVars, PruneInv, NeverTorn, RecordRead, LoadedTrue, SetAside, Staged
  <1> QED
    BY <1>1, <1>2, <1>3, <1>4, <1>5, <1>6, <1>7, <1>8, <1>9, <1>10, <1>11, <1>12, <1>13, <1>14, <1>15
    DEF Next, Run, Agent

LEMMA PruneInvariant == Spec => [](TypeOK /\ PruneInv)
  <1>1. Init => TypeOK /\ PruneInv
    BY InitType, InitInv
  <1>2. TypeOK /\ PruneInv /\ [Next]_vars => TypeOK' /\ PruneInv'
    BY NextType, NextInv
  <1> QED
    BY <1>1, <1>2, PTL DEF Spec

-------------------------------------------------------------------------------
(* What the runs check *)

\* Every variable stays in its type: what replaces a settings file is a document, whatever a run
\* that was cut off left under the temporary name.
THEOREM TypeCorrect == Spec => []TypeOK
  BY PruneInvariant, PTL

\* Wherever a run ends, a settings file is whole unless the agent itself is half way through
\* writing it.
THEOREM NeverTornHolds == Spec => []NeverTorn
  <1>1. PruneInv => NeverTorn
    BY DEF PruneInv
  <1> QED
    BY <1>1, PruneInvariant, PTL

\* Of the steps that change a file and its temporary file, each replaces the file of the run.
LEMMA OnlyReplaced ==
  ASSUME TypeOK, [Next]_vars, NEW f \in Files, file'[f] # file[f], temp'[f] # temp[f]
  PROVE  pc = "replace" /\ Replaced /\ f = at
  <1>1. CASE UNCHANGED file \/ UNCHANGED temp
    BY <1>1
  <1>2. CASE Replace
    BY <1>2 DEF Replace, Replaced, TypeOK
  <1>3. CASE CutOff
    BY <1>1, <1>3 DEF CutOff, Replaced, TypeOK
  <1> QED
    BY <1>1, <1>2, <1>3
    DEF Next, vars, runVars, Run, Agent, Begin, Skip, Load, Copy, Stage, End, Denied, Ended,
        AgentReads, AgentReplaces, AgentOpens, AgentCloses, Install

\* What a run replaces has been set aside as it was when it was replaced, unless the agent wrote it
\* since, and the replacement takes out nothing that the record names.
THEOREM SoundReplacementHolds == Spec => SoundReplacement
  <1>1. ASSUME TypeOK, PruneInv, [Next]_vars, NEW f \in Files, file'[f] # file[f], temp'[f] # temp[f]
        PROVE  /\ file[f] \in backups[f] \/ written = "copied"
               /\ \/ written # "no"
                  \/ /\ record[f] # NoList /\ file[f].deny # NoList
                     /\ file'[f] = [file[f] EXCEPT !.deny = @ \cap record[f]]
    <2>1. pc = "replace" /\ Replaced /\ f = at
      BY <1>1, OnlyReplaced
    <2>2. file[f] \in backups[f] \/ written = "copied"
      BY <1>1, <2>1 DEF PruneInv, SetAside
    <2>3. file'[f] = Prune(loaded, keep[f]) /\ keep = record
      BY <1>1, <2>1 DEF Replaced, PruneInv, Staged, RecordRead, TypeOK
    <2>4. keep[f] # NoList /\ loaded.deny # NoList /\ (written = "no" => file[f] = loaded)
      BY <1>1, <2>1 DEF PruneInv, LoadedTrue
    <2> QED
      BY <2>2, <2>3, <2>4 DEF Prune
  <1>2. TypeOK /\ PruneInv /\ [Next]_vars
          => [\A f \in Files :
                 file'[f] # file[f] /\ temp'[f] # temp[f] => file[f] \in backups[f] \/ written = "copied"]_vars
    BY <1>1
  <1>3. TypeOK /\ PruneInv /\ [Next]_vars
          => [\A f \in Files :
                 file'[f] # file[f] /\ temp'[f] # temp[f] =>
                    \/ written # "no"
                    \/ /\ record[f] # NoList /\ file[f].deny # NoList
                       /\ file'[f] = [file[f] EXCEPT !.deny = @ \cap record[f]]]_vars
    BY <1>1
  <1> QED
    BY <1>2, <1>3, PruneInvariant, PTL DEF Spec, SoundReplacement, ReplacedAside, RecordedStay
===============================================================================
