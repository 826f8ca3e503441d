-------------------------- MODULE SyncSectionsProofs --------------------------
(***************************************************************************)
(* What the configuration sections of a run of syncretroid.py keep, for    *)
(* every set of keys, files, systems and faults, and what its playlists    *)
(* section keeps, for every set of names.                                  *)
(***************************************************************************)
EXTENDS SyncConfig, TLAPS

LEMMA MergeText == \A text \in Texts \cup {Absent} : Lines(text) \in Texts /\ Merge(text) \in Texts
  BY AbsentAssumption DEF Texts, Merge, Lines

LEMMA MergeKeeps == \A text \in Texts \cup {Absent} : UsersLines(text) \subseteq UsersLines(Merge(text))
  <1> SUFFICES ASSUME NEW text \in Texts \cup {Absent}, NEW k \in Kept, Lines(text)[k] = "own"
               PROVE  Lines(Merge(text))[k] = "own"
    BY DEF UsersLines
  <1>1. Merge(text)[k] = "own"
    BY KeysAssumption DEF Merge, Keys
  <1>2. Merge(text) # Absent
    BY MergeText, AbsentAssumption
  <1> QED
    BY <1>1, <1>2 DEF Lines

LEMMA MishapType == ASSUME TypeOK, NEW kind, Mishap(kind) PROVE mishaps' \in 0 .. MaxMishaps
  BY BoundAssumption DEF TypeOK, Mishap

LEMMA BesideType ==
  ASSUME TypeOK, Beside
  PROVE  own' \subseteq Kept /\ beside' \in BOOLEAN /\ mishaps' \in 0 .. MaxMishaps
  <1>1. CASE UNCHANGED <<ghosts, mishaps>>
    BY <1>1 DEF TypeOK, ghosts
  <1>2. CASE Mishap("reopen") /\ beside' = TRUE /\ own' = own \cap rescued
    BY <1>2, MishapType DEF TypeOK
  <1> QED
    BY <1>1, <1>2 DEF Beside

LEMMA SetText ==
  \A text \in Texts, k \in Keys :
    [text EXCEPT ![k] = "own"] \in Texts /\ [text EXCEPT ![k] = "none"] \in Texts
  BY DEF Texts

LEMMA DirType == TypeOK => OverDir \in Places /\ ConfigDir(ra, home) \in Places
  BY DEF TypeOK, Places, OverDir, ConfigDir

LEMMA CutOffType ==
  ASSUME TypeOK, CutOff
  PROVE  /\ cfg' \in [Places -> Texts \cup {Absent}]
         /\ over' \in [Places -> [Files -> {"none", "stub", "theirs"} \cup Headed]]
         /\ gamelist' \in [Systems -> {"none", "ours", "own"}]
  <1> USE DEF TypeOK
  <1>1. CASE UNCHANGED devVars
    BY <1>1 DEF devVars
  <1>2. CASE /\ pc = "cfg"
             /\ \E text \in Texts \cup {Absent} : cfg' = [cfg EXCEPT ![at] = text]
             /\ UNCHANGED <<over, gamelist>>
    BY <1>2
  <1>3. CASE /\ \E some \in SUBSET role : \E f \in role \ some, got \in {"none", "stub", "cut", "ours"} :
                   over' = [over EXCEPT ![OverDir] =
                               [g \in Files |-> IF g \in some THEN "ours" ELSE IF g = f THEN got ELSE @[g]]]
             /\ UNCHANGED <<cfg, gamelist>>
    BY <1>3, DirType DEF Headed
  <1>4. CASE /\ \E f \in doomed : over' = [over EXCEPT ![OverDir][f] = "none"]
             /\ UNCHANGED <<cfg, gamelist>>
    BY <1>4, DirType
  <1>5. CASE /\ \E s \in todo, label \in {"none", "ours"} : gamelist' = [gamelist EXCEPT ![s] = label]
             /\ UNCHANGED <<cfg, over>>
    BY <1>5
  <1> QED
    BY <1>1, <1>2, <1>3, <1>4, <1>5 DEF CutOff

LEMMA TypeStep == TypeOK /\ [Next]_vars => TypeOK'
  <1> SUFFICES ASSUME TypeOK, [Next]_vars PROVE TypeOK'
    OBVIOUS
  <1> USE BoundAssumption, AbsentAssumption, MergeText
      DEF TypeOK, Goto, Places, Headed, OverDir, ConfigDir, UsersLines,
          devVars, appVars, worldVars, runVars, sayVars, ghosts
  <1>1. CASE Begin
    BY <1>1 DEF Begin
  <1>2. CASE Fetch
    BY <1>2 DEF Fetch, Quiet
  <1>3. CASE StopApps
    BY <1>3 DEF StopApps
  <1>4. CASE Pull
    BY <1>4 DEF Pull, Quiet, Discovered
  <1>5. CASE PushCfg
    BY <1>5 DEF PushCfg, Quiet
  <1>6. CASE PushOver
    BY <1>6 DEF PushOver, Quiet
  <1>7. CASE PushRefused
    BY <1>7 DEF PushRefused, KeepStaging, ToGamelists, Quiet
  <1>8. CASE ListStale
    BY <1>8 DEF ListStale, Stale, Quiet
  <1>9. CASE RemoveStale
    BY <1>9 DEF RemoveStale, Quiet
  <1>10. CASE Pruned
    BY <1>10 DEF Pruned, ToGamelists, Quiet
  <1>11. CASE Pin
    BY <1>11 DEF Pin, Quiet
  <1>12. CASE End
    BY <1>12 DEF End, Over, Quiet
  <1>13. CASE DownloadFails
    BY <1>13, MishapType DEF DownloadFails, Over
  <1>14. CASE StopFails
    BY <1>14, MishapType DEF StopFails
  <1>15. CASE ReadFails
    BY <1>15, MishapType DEF ReadFails, Over, ToGamelists
  <1>16. CASE WriteFails
    BY <1>16, MishapType, CutOffType DEF WriteFails, KeepStaging, ToGamelists, Over
  <1>17. CASE Killed
    BY <1>17, MishapType, CutOffType DEF Killed, Over
  <1>18. CASE RetroArchOpens
    <2>1. ra' \in Texts \cup {Closed}
      <3>1. CASE cfg[home] # Absent /\ ra' = cfg[home]
        BY <3>1
      <3>2. CASE ra' \in {[k \in Keys |-> IF k \in Kept \ some THEN "none" ELSE "own"] :
                              some \in SUBSET {DirKey}}
        BY <3>2 DEF Texts
      <3> QED
        BY <1>18, <3>1, <3>2 DEF RetroArchOpens
    <2>2. own' \subseteq Kept /\ beside' \in BOOLEAN /\ mishaps' \in 0 .. MaxMishaps
      BY <1>18, BesideType DEF RetroArchOpens
    <2> QED
      BY <1>18, <2>1, <2>2 DEF RetroArchOpens
  <1>19. CASE RetroArchExits
    <2>1. ra \in Texts
      BY <1>19 DEF RetroArchExits
    <2>2. PICK text \in {[ra EXCEPT ![k] = "own"] : k \in Dropped} \cup {ra} :
             cfg' = [cfg EXCEPT ![home] = text]
      BY <1>19 DEF RetroArchExits
    <2>3. text \in Texts
      <3>1. \A k \in Dropped : [ra EXCEPT ![k] = "own"] \in Texts
        BY <2>1, SetText DEF Keys
      <3> QED
        BY <2>1, <2>2, <3>1
    <2>4. own' \subseteq Kept
      BY <1>19 DEF RetroArchExits
    <2> QED
      BY <1>19, <2>2, <2>3, <2>4 DEF RetroArchExits
  <1>20. CASE EsdeOpens
    BY <1>20, BesideType DEF EsdeOpens
  <1>21. CASE EsdeExits
    BY <1>21 DEF EsdeExits
  <1>22. ASSUME NEW k \in Kept, SetsLine(k) PROVE TypeOK'
    <2>1. ra' \in Texts
      <3>1. k \in Keys /\ ra \in Texts
        BY <1>22 DEF SetsLine, Keys
      <3>2. ra' = [ra EXCEPT ![k] = "own"] \/ ra' = [ra EXCEPT ![k] = "none"]
        BY <1>22 DEF SetsLine
      <3>3. [ra EXCEPT ![k] = "own"] \in Texts /\ [ra EXCEPT ![k] = "none"] \in Texts
        BY <3>1, SetText
      <3> QED
        BY <3>2, <3>3
    <2>2. mishaps' \in 0 .. MaxMishaps
      BY <1>22, MishapType DEF SetsLine
    <2>3. own' \subseteq Kept
      BY <1>22 DEF SetsLine
    <2> QED
      BY <1>22, <2>1, <2>2, <2>3 DEF SetsLine
  <1>23. ASSUME NEW f \in Files, SavesOverride(f) PROVE TypeOK'
    BY <1>23 DEF SavesOverride, Mishap
  <1>24. CASE Granted
    BY <1>24 DEF Granted, Mishap
  <1>25. CASE EditRole
    BY <1>25 DEF EditRole, Mishap
  <1>26. CASE UNCHANGED vars
    BY <1>26 DEF vars
  <1> QED
    BY <1>1, <1>2, <1>3, <1>4, <1>5, <1>6, <1>7, <1>8, <1>9, <1>10, <1>11, <1>12, <1>13, <1>14, <1>15, <1>16, <1>17, <1>18, <1>19, <1>20, <1>21, <1>22, <1>23, <1>24, <1>25, <1>26
    DEF Next, Run

\* Every variable of the sections and of the apps keeps its type.
THEOREM TypeCorrect == Spec => []TypeOK
  <1>1. Init => TypeOK
    <2> SUFFICES ASSUME Init PROVE TypeOK
      OBVIOUS
    <2>1. cfg \in [Places -> Texts \cup {Absent}]
      BY DEF Init, Texts
    <2>2. gamelist \in [Systems -> {"none", "ours", "own"}]
      BY DEF Init
    <2>3. denied \in BOOLEAN
      BY DEF Init
    <2>4. over \in [Places -> [Files -> {"none", "stub", "theirs"} \cup Headed]]
      BY DEF Init
    <2>5. own \subseteq Kept /\ home \in Places /\ at \in Places
      BY DEF Init, UsersLines, Places
    <2>6. mishaps \in 0 .. MaxMishaps
      BY BoundAssumption DEF Init
    <2> QED
      BY <2>1, <2>2, <2>3, <2>4, <2>5, <2>6 DEF Init, TypeOK
  <1> QED
    BY <1>1, TypeStep, PTL DEF Spec
-------------------------------------------------------------------------------

\* What a push is made of is what it replaces...
FreshRead == pc = "cfg" => existing = cfg[at] \/ own \subseteq rescued

\* ...unless RetroArch is up, and then the lines are not promised.
ClosedDuring == pc \notin {"idle", "fetch", "stop"} /\ ra # Closed => own \subseteq rescued

\* An open RetroArch has the lines it will write over.
OpenKnows ==
  ra # Closed => \A k \in own \ rescued : Lines(cfg[home])[k] = "own" => ra[k] = "own"

\* Before the access is granted there is nothing in the other place.
OneHome == home = "app" => cfg["all"] = Absent /\ at = "app"

ConfigInv == FreshRead /\ ClosedDuring /\ OpenKnows /\ OneHome /\ LinesNotLost

LEMMA ConfigStep == TypeOK /\ TypeOK' /\ ConfigInv /\ [Next]_vars => ConfigInv'
  <1> SUFFICES ASSUME TypeOK, TypeOK', ConfigInv, [Next]_vars PROVE ConfigInv'
    OBVIOUS
  <1> USE AbsentAssumption
      DEF TypeOK, ConfigInv, FreshRead, ClosedDuring, OpenKnows, OneHome, LinesNotLost, Goto, Places,
          Lines, devVars, appVars, worldVars, runVars, sayVars, ghosts
  <1>1. CASE Begin
    BY <1>1 DEF Begin
  <1>2. CASE Fetch
    BY <1>2 DEF Fetch, Quiet
  <1>3. CASE StopApps
    BY <1>3 DEF StopApps
  <1>4. CASE Pull
    BY <1>4 DEF Pull, Quiet, Discovered
  <1>5. CASE PushCfg
    <2>1. \A k \in Kept : Lines(existing)[k] = "own" => Lines(Merge(existing))[k] = "own"
      BY MergeKeeps DEF UsersLines
    <2> QED
      BY <1>5, <2>1 DEF PushCfg, Quiet
  <1>6. CASE PushOver
    BY <1>6 DEF PushOver, Quiet
  <1>7. CASE PushRefused
    <2>1. UsersLines(existing) \subseteq rescued'
      BY <1>7, MergeKeeps DEF PushRefused, KeepStaging
    <2> QED
      BY <1>7, <2>1 DEF PushRefused, KeepStaging, ToGamelists, Quiet, UsersLines
  <1>8. CASE ListStale
    BY <1>8 DEF ListStale, Quiet
  <1>9. CASE RemoveStale
    BY <1>9 DEF RemoveStale, Quiet
  <1>10. CASE Pruned
    BY <1>10 DEF Pruned, ToGamelists, Quiet
  <1>11. CASE Pin
    BY <1>11 DEF Pin, Quiet
  <1>12. CASE End
    BY <1>12 DEF End, Over, Quiet
  <1>13. CASE DownloadFails
    BY <1>13 DEF DownloadFails, Mishap, Over
  <1>14. CASE StopFails
    BY <1>14 DEF StopFails, Mishap
  <1>15. CASE ReadFails
    BY <1>15 DEF ReadFails, Mishap, Over, ToGamelists
  <1>16. CASE WriteFails
    <2>1. CASE pc = "cfg"
      <3>1. UsersLines(existing) \subseteq rescued' /\ rescued \subseteq rescued'
        BY <1>16, <2>1, MergeKeeps DEF WriteFails, KeepStaging
      <3>2. \A p \in Places : p # at => cfg'[p] = cfg[p]
        BY <1>16, <2>1 DEF WriteFails, CutOff
      <3>3. cfg["all"] = Absent /\ at = "app" => cfg'["all"] = Absent
        BY <3>2
      <3>4. pc' = "pin" /\ UNCHANGED <<ra, own, home, at>>
        BY <1>16, <2>1 DEF WriteFails, ToGamelists
      <3> QED
        BY <2>1, <3>1, <3>2, <3>3, <3>4 DEF UsersLines
    <2>2. CASE pc # "cfg"
      <3>1. UNCHANGED cfg /\ rescued \subseteq rescued'
        BY <1>16, <2>2 DEF WriteFails, CutOff, Over, KeepStaging
      <3>2. pc' \in {"pin", "idle"} /\ UNCHANGED <<ra, own, home>> /\ at' \in {at, "app"}
        BY <1>16, <2>2 DEF WriteFails, ToGamelists, Over
      <3> QED
        BY <1>16, <2>2, <3>1, <3>2 DEF WriteFails
    <2> QED
      BY <2>1, <2>2
  <1>17. CASE Killed
    <2>1. UNCHANGED <<ra, home, rescued>> /\ pc' = "idle" /\ at' = "app" /\ own' \subseteq own
      BY <1>17 DEF Killed, Over
    <2>2. CASE pc = "cfg"
      <3>1. own' \subseteq rescued
        BY <1>17, <2>2 DEF Killed
      <3>2. home = "app" => cfg'["all"] = Absent
        BY <1>17, <2>2 DEF Killed, CutOff
      <3> QED
        BY <2>1, <3>1, <3>2
    <2>3. CASE pc # "cfg"
      <3>1. UNCHANGED cfg
        BY <1>17, <2>3 DEF Killed, CutOff
      <3> QED
        BY <2>1, <2>3, <3>1
    <2> QED
      BY <2>2, <2>3
  <1>18. CASE RetroArchOpens
    <2>1. UNCHANGED <<cfg, pc, existing, at, home, rescued>> /\ own' \subseteq own
      BY <1>18 DEF RetroArchOpens, Beside
    <2>2. ra' = cfg[home] \/ cfg[home] = Absent
      BY <1>18 DEF RetroArchOpens
    <2>3. pc \notin {"idle", "fetch", "stop"} => own' \subseteq rescued
      BY <1>18 DEF RetroArchOpens, Beside, Undisturbed
    <2>4. cfg[home] = Absent => \A k \in own : Lines(cfg[home])[k] # "own"
      BY DEF Keys
    <2> QED
      BY <2>1, <2>2, <2>3, <2>4
  <1>19. CASE RetroArchExits
    <2>1. ra \in Texts /\ UNCHANGED <<pc, existing, at, home, rescued>> /\ ra' = Closed
      BY <1>19 DEF RetroArchExits
    <2>2. /\ \A p \in Places : p # home => cfg'[p] = cfg[p]
          /\ cfg'[home] # Absent
          /\ \A k \in Kept : cfg'[home][k] = ra[k]
      BY <1>19, <2>1, KeysAssumption, AbsentAssumption, SetText DEF RetroArchExits, Texts, Keys
    <2>3. CASE pc \in {"idle", "fetch", "stop"}
      <3>1. own' = own \cup UsersLines(ra)
        BY <1>19, <2>3 DEF RetroArchExits, Undisturbed
      <3>2. \A k \in UsersLines(ra) : cfg'[home][k] = "own"
        BY <2>1, <2>2, AbsentAssumption DEF UsersLines
      <3>3. \A k \in Kept : ra[k] = "own" => cfg'[home][k] = "own"
        BY <2>2
      <3> QED
        BY <2>1, <2>2, <2>3, <3>1, <3>2, <3>3
    <2>4. CASE pc \notin {"idle", "fetch", "stop"}
      <3>1. own' = own /\ own \subseteq rescued
        BY <1>19, <2>1, <2>4, AbsentAssumption DEF RetroArchExits, Undisturbed
      <3> QED
        BY <2>1, <2>2, <2>4, <3>1
    <2> QED
      BY <2>3, <2>4
  <1>20. CASE EsdeOpens
    BY <1>20 DEF EsdeOpens, Beside
  <1>21. CASE EsdeExits
    BY <1>21 DEF EsdeExits
  <1>22. ASSUME NEW k \in Kept, SetsLine(k) PROVE ConfigInv'
    BY <1>22 DEF SetsLine, Texts, Keys
  <1>23. ASSUME NEW f \in Files, SavesOverride(f) PROVE ConfigInv'
    BY <1>23 DEF SavesOverride
  <1>24. CASE Granted
    BY <1>24 DEF Granted
  <1>25. CASE EditRole
    BY <1>25 DEF EditRole
  <1>26. CASE UNCHANGED vars
    BY <1>26 DEF vars
  <1> QED
    BY <1>1, <1>2, <1>3, <1>4, <1>5, <1>6, <1>7, <1>8, <1>9, <1>10, <1>11, <1>12, <1>13, <1>14, <1>15, <1>16, <1>17, <1>18, <1>19, <1>20, <1>21, <1>22, <1>23, <1>24, <1>25, <1>26
    DEF Next, Run

\* A line of the user's is on the device, or in the run about to push it, or in a staging directory
\* that was kept, however many runs failed and at whichever step.
THEOREM LinesNotLostHolds == Spec => []LinesNotLost
  <1>1. Init => ConfigInv
    BY DEF Init, ConfigInv, FreshRead, ClosedDuring, OpenKnows, OneHome, LinesNotLost, UsersLines, Places
  <1>2. ConfigInv => LinesNotLost
    BY DEF ConfigInv
  <1> QED
    BY <1>1, <1>2, ConfigStep, TypeCorrect, PTL DEF Spec

-------------------------------------------------------------------------------

\* RetroArch saves nothing while its files are pruned, or it was up beside the run; what the
\* listing found begins with the header until it is removed.
PruneInv ==
  /\ pc \notin {"idle", "fetch", "stop"} /\ ra # Closed => beside
  /\ pc = "prune" => beside \/ \A f \in doomed : over[OverDir][f] \in Headed

LEMMA PruneStep == TypeOK /\ PruneInv /\ [Next]_vars => PruneInv'
  <1> SUFFICES ASSUME TypeOK, PruneInv, [Next]_vars PROVE PruneInv'
    OBVIOUS
  <1> USE DirType DEF TypeOK, PruneInv, Goto, OverDir, ConfigDir, Lines,
          devVars, appVars, worldVars, runVars, sayVars, ghosts
  <1>1. CASE Begin
    BY <1>1 DEF Begin
  <1>2. CASE Fetch
    BY <1>2 DEF Fetch, Quiet
  <1>3. CASE StopApps
    BY <1>3 DEF StopApps
  <1>4. CASE Pull
    BY <1>4 DEF Pull, Quiet
  <1>5. CASE PushCfg
    BY <1>5 DEF PushCfg, Quiet
  <1>6. CASE PushOver
    BY <1>6 DEF PushOver, Quiet
  <1>7. CASE PushRefused
    BY <1>7 DEF PushRefused, ToGamelists, Quiet
  <1>8. CASE ListStale
    BY <1>8 DEF ListStale, Stale, Quiet
  <1>9. CASE RemoveStale
    BY <1>9 DEF RemoveStale, Quiet
  <1>10. CASE Pruned
    BY <1>10 DEF Pruned, ToGamelists, Quiet
  <1>11. CASE Pin
    BY <1>11 DEF Pin, Quiet
  <1>12. CASE End
    BY <1>12 DEF End, Over, Quiet
  <1>13. CASE DownloadFails
    BY <1>13 DEF DownloadFails, Over
  <1>14. CASE StopFails
    BY <1>14 DEF StopFails
  <1>15. CASE ReadFails
    BY <1>15 DEF ReadFails, Over, ToGamelists
  <1>16. CASE WriteFails
    BY <1>16 DEF WriteFails, ToGamelists, Over
  <1>17. CASE Killed
    BY <1>17 DEF Killed, Over
  <1>18. CASE RetroArchOpens
    BY <1>18 DEF RetroArchOpens, Beside, Undisturbed
  <1>19. CASE RetroArchExits
    BY <1>19 DEF RetroArchExits
  <1>20. CASE EsdeOpens
    BY <1>20 DEF EsdeOpens, Beside
  <1>21. CASE EsdeExits
    BY <1>21 DEF EsdeExits
  <1>22. ASSUME NEW k \in Kept, SetsLine(k) PROVE PruneInv'
    BY <1>22 DEF SetsLine
  <1>23. ASSUME NEW f \in Files, SavesOverride(f) PROVE PruneInv'
    BY <1>23 DEF SavesOverride
  <1>24. CASE Granted
    BY <1>24 DEF Granted
  <1>25. CASE EditRole
    BY <1>25 DEF EditRole
  <1>26. CASE UNCHANGED vars
    BY <1>26 DEF vars
  <1> QED
    BY <1>1, <1>2, <1>3, <1>4, <1>5, <1>6, <1>7, <1>8, <1>9, <1>10, <1>11, <1>12, <1>13, <1>14, <1>15, <1>16, <1>17, <1>18, <1>19, <1>20, <1>21, <1>22, <1>23, <1>24, <1>25, <1>26
    DEF Next, Run

LEMMA SpareStep ==
  TypeOK /\ PruneInv /\ [Next]_vars
    => [\A p \in Places, f \in Files :
           over[p][f] = "theirs" /\ over'[p][f] # "theirs" => f \in role \/ beside]_vars
  <1> SUFFICES ASSUME TypeOK, PruneInv, Next, NEW p \in Places, NEW f \in Files,
                      over[p][f] = "theirs", over'[p][f] # "theirs"
               PROVE  f \in role \/ beside
    OBVIOUS
  <1> USE DEF TypeOK, devVars, appVars
  <1>1. CASE UNCHANGED over
    BY <1>1
  <1>2. CASE PushOver
    BY <1>2, DirType DEF PushOver
  <1>3. CASE RemoveStale
    BY <1>3, DirType DEF RemoveStale, PruneInv, Headed
  <1>4. CASE CutOff
    <2>1. CASE pc = "over"
      BY <1>4, <2>1, DirType DEF CutOff
    <2>2. CASE pc = "prune"
      BY <1>4, <2>2, DirType DEF CutOff, PruneInv, Headed
    <2> QED
      BY <1>1, <1>4, <2>1, <2>2 DEF CutOff
  <1>5. ASSUME NEW g \in Files, SavesOverride(g) PROVE FALSE
    BY <1>5, DirType DEF SavesOverride
  <1> QED
    BY <1>1, <1>2, <1>3, <1>4, <1>5
       DEF Next, Run, Begin, Fetch, StopApps, Pull, PushCfg, PushRefused, ListStale, Pruned, Pin, End,
           DownloadFails, StopFails, ReadFails, WriteFails, Killed, RetroArchOpens, RetroArchExits,
           EsdeOpens, EsdeExits, SetsLine, Granted, EditRole

\* The prune never removes a file RetroArch saved, as long as no app was up beside the run.
THEOREM HeaderlessSparedHolds == Spec => HeaderlessSpared
  <1>1. Init => PruneInv
    BY DEF Init, PruneInv
  <1> QED
    BY <1>1, PruneStep, SpareStep, TypeCorrect, PTL DEF Spec, HeaderlessSpared

-------------------------------------------------------------------------------
(* Why a run that says "Done" has left what the role asks for *)

\* An undisturbed run is past stopping the apps, and neither has been up since.
Alone == pc \notin {"idle", "fetch", "stop"} /\ ~beside

\* At one of the places, or at the gamelists with nothing having failed on the way.
Past(places) == pc \in places \/ (pc = "pin" /\ ~failed)

Unsaid == pc # "idle" => said = "nothing"

AppsClosed == Alone => ra = Closed /\ es = Closed

\* What is read is what the push replaces, and then what it was merged into is there.
CfgRead == Alone /\ pc = "cfg" => at = Discovered /\ existing = cfg[at]
CfgRight == Alone /\ Past({"over", "list", "prune"}) => at = Discovered /\ cfg[at] = Merge(existing)

OverRight == Alone /\ Past({"list", "prune"}) => \A f \in role : over[OverDir][f] = "ours"

\* The prune has found whatever is to go, and nothing the role stages.
StaleFound ==
  Alone /\ Past({"prune"}) =>
    /\ doomed \cap role = {}
    /\ \A f \in Files \ role : over[OverDir][f] \in Headed => f \in doomed

NothingDoomed == pc = "pin" => doomed = {}

PinRight == Alone /\ pc = "pin" => \A s \in Systems \ todo : gamelist[s] = "ours"

RightInv ==
  Unsaid /\ AppsClosed /\ CfgRead /\ CfgRight /\ OverRight /\ StaleFound /\ NothingDoomed /\ PinRight

\* The settings the role does not touch are what they were, the directory among them.
LEMMA MergeDir ==
  ASSUME NEW text \in Texts \cup {Absent}, NEW place
  PROVE  ConfigDir(Merge(text), place) = ConfigDir(text, place)
  <1>1. Merge(text)[DirKey] = Lines(text)[DirKey]
    BY KeysAssumption DEF Merge, Keys
  <1>2. Lines(Merge(text)) = Merge(text)
    BY MergeText, AbsentAssumption DEF Lines
  <1> QED
    BY <1>1, <1>2 DEF ConfigDir

LEMMA RightStep == TypeOK /\ RightInv /\ [Next]_vars => RightInv'
  <1> SUFFICES ASSUME TypeOK, RightInv, [Next]_vars PROVE RightInv'
    OBVIOUS
  <1> USE AbsentAssumption, MergeText, DirType
      DEF RightInv, Alone, Past, Unsaid, AppsClosed, CfgRead, CfgRight, OverRight, StaleFound, NothingDoomed,
          PinRight, Discovered, OverDir, TypeOK, Goto, Places, devVars, appVars, worldVars, runVars, sayVars, ghosts
  <1>1. CASE Begin
    BY <1>1 DEF Begin
  <1>2. CASE Fetch
    BY <1>2 DEF Fetch, Quiet
  <1>3. CASE StopApps
    BY <1>3 DEF StopApps
  <1>4. CASE Pull
    BY <1>4 DEF Pull, Quiet
  <1>5. CASE PushCfg
    BY <1>5 DEF PushCfg, Quiet
  <1>6. CASE PushOver
    BY <1>6 DEF PushOver, Quiet
  <1>7. CASE PushRefused
    BY <1>7 DEF PushRefused, KeepStaging, ToGamelists, Quiet
  <1>8. CASE ListStale
    BY <1>8 DEF ListStale, Stale, Quiet
  <1>9. CASE RemoveStale
    BY <1>9 DEF RemoveStale, Quiet, Headed
  <1>10. CASE Pruned
    BY <1>10 DEF Pruned, ToGamelists, Quiet
  <1>11. CASE Pin
    BY <1>11 DEF Pin, Quiet
  <1>12. CASE End
    BY <1>12 DEF End, Over, Quiet
  <1>13. CASE DownloadFails
    BY <1>13 DEF DownloadFails, Over
  <1>14. CASE StopFails
    BY <1>14 DEF StopFails
  <1>15. CASE ReadFails
    BY <1>15 DEF ReadFails, ToGamelists, Over
  <1>16. CASE WriteFails
    BY <1>16 DEF WriteFails, KeepStaging, ToGamelists, Over
  <1>17. CASE Killed
    BY <1>17 DEF Killed, Over
  <1>18. CASE RetroArchOpens
    BY <1>18 DEF RetroArchOpens, Beside, Undisturbed
  <1>19. CASE RetroArchExits
    BY <1>19 DEF RetroArchExits
  <1>20. CASE EsdeOpens
    BY <1>20 DEF EsdeOpens, Beside, Undisturbed
  <1>21. CASE EsdeExits
    BY <1>21 DEF EsdeExits
  <1>22. ASSUME NEW k \in Kept, SetsLine(k) PROVE RightInv'
    BY <1>22 DEF SetsLine
  <1>23. ASSUME NEW f \in Files, SavesOverride(f) PROVE RightInv'
    BY <1>23 DEF SavesOverride
  <1>24. CASE Granted
    BY <1>24 DEF Granted
  <1>25. CASE EditRole
    BY <1>25 DEF EditRole
  <1>26. CASE UNCHANGED vars
    BY <1>26 DEF vars
  <1> QED
    BY <1>1, <1>2, <1>3, <1>4, <1>5, <1>6, <1>7, <1>8, <1>9, <1>10, <1>11, <1>12, <1>13, <1>14, <1>15, <1>16, <1>17, <1>18, <1>19, <1>20, <1>21, <1>22, <1>23, <1>24, <1>25, <1>26
    DEF Next, Run

LEMMA RightInvariant == Spec => []RightInv
  <1>1. Init => RightInv
    BY DEF Init, RightInv, Alone, Past, Unsaid, AppsClosed, CfgRead, CfgRight, OverRight, StaleFound, NothingDoomed,
           PinRight
  <1> QED
    BY <1>1, RightStep, TypeCorrect, PTL DEF Spec

\* Only the end of a run in which no section failed says "Done".
LEMMA DoneEnds ==
  ASSUME TypeOK, RightInv, [Next]_vars, pc # "idle", said' = "done"
  PROVE  End /\ ~failed
  BY DEF RightInv, Unsaid, Next, Run, vars, Begin, Fetch, StopApps, Pull, PushCfg, PushOver, PushRefused, ListStale,
         RemoveStale, Pruned, Pin, End, DownloadFails, StopFails, ReadFails, WriteFails, Killed, RetroArchOpens,
         RetroArchExits, EsdeOpens, EsdeExits, SetsLine, SavesOverride, Granted, EditRole, Over, ToGamelists,
         KeepStaging, sayVars

\* A run that says "Done" beside no app has left every setting, every per-core file and every
\* gamelist as the role asks, whatever the runs before it left.
THEOREM DoneRightHolds == Spec => DoneRight
  <1>1. ASSUME TypeOK, RightInv, [Next]_vars, pc # "idle", said' = "done", ~beside
        PROVE  Right' /\ \A k \in Dropped \ Owned : Lines(cfg'[Discovered'])[k] = "none"
    <2>1. End /\ ~failed /\ pc = "pin" /\ todo = {}
      BY <1>1, DoneEnds DEF End
    <2>2. UNCHANGED <<cfg, over, gamelist, role>>
      BY <2>1 DEF End, Quiet, devVars, worldVars
    <2>3. Discovered = at /\ cfg[at] = Merge(existing) /\ existing \in Texts \cup {Absent}
      BY <1>1, <2>1 DEF RightInv, Alone, Past, CfgRight, TypeOK
    <2>4. Lines(cfg[Discovered]) = Merge(existing)
      BY <2>3, MergeText, AbsentAssumption DEF Lines
    <2>5. ConfigDir(Lines(cfg[Discovered]), Discovered) = OverDir
      BY <2>3, <2>4, MergeDir DEF OverDir
    <2>6. /\ \A f \in role : over[OverDir][f] = "ours"
          /\ \A f \in Files \ role : over[OverDir][f] \notin Headed
          /\ \A s \in Systems : gamelist[s] = "ours"
      BY <1>1, <2>1 DEF RightInv, Alone, Past, OverRight, StaleFound, NothingDoomed, PinRight
    <2>7. /\ \A k \in Owned : Merge(existing)[k] = "ours"
          /\ \A k \in Dropped \ Owned : Merge(existing)[k] = "none"
      BY KeysAssumption DEF Merge, Keys
    <2>8. Right /\ \A k \in Dropped \ Owned : Lines(cfg[Discovered])[k] = "none"
      BY <2>4, <2>5, <2>6, <2>7 DEF Right
    <2>9. Discovered' = Discovered /\ Right' = Right
      BY <2>2 DEF Discovered, Right, ConfigDir, Lines
    <2> QED
      BY <2>2, <2>8, <2>9 DEF Lines
  <1>2. TypeOK /\ RightInv /\ [Next]_vars =>
          [pc # "idle" /\ said' = "done" /\ ~beside =>
             Right' /\ \A k \in Dropped \ Owned : Lines(cfg'[Discovered'])[k] = "none"]_vars
    BY <1>1
  <1> QED
    BY <1>2, RightInvariant, TypeCorrect, PTL DEF Spec, DoneRight

-------------------------------------------------------------------------------
(* The playlists section of the same runs, which shares nothing with the configuration sections *)

CONSTANT Names

VARIABLES table, dev, manifest, place, generated, stale, told, slips

P == INSTANCE SyncPlaylists WITH pc <- place, said <- told, mishaps <- slips

LEMMA PlaylistsInitType == P!Init => P!TypeOK
  BY BoundAssumption DEF P!Init, P!TypeOK

LEMMA PlaylistsNextType == P!TypeOK /\ [P!Next]_(P!vars) => P!TypeOK'
  <1> SUFFICES ASSUME P!TypeOK, [P!Next]_(P!vars) PROVE P!TypeOK'
    OBVIOUS
  <1> USE BoundAssumption DEF P!TypeOK, P!Goto, P!Over, P!Mishap, P!Generated, P!vars, P!devVars, P!runVars
  <1>1. CASE P!Begin
    BY <1>1 DEF P!Begin
  <1>2. CASE P!Generate
    BY <1>2 DEF P!Generate
  <1>3. CASE P!PullManifest
    BY <1>3 DEF P!PullManifest, P!StalePlaylists
  <1>4. CASE P!PushPlaylists
    BY <1>4 DEF P!PushPlaylists
  <1>5. CASE P!RemoveStale
    BY <1>5 DEF P!RemoveStale
  <1>6. CASE P!ToList
    BY <1>6 DEF P!ToList, P!Removed
  <1>7. CASE P!PushManifest
    BY <1>7 DEF P!PushManifest
  <1>8. CASE P!WriteFails
    <2>1. dev' \in [Names -> {"none", "theirs"} \cup P!Generated] /\ manifest' \subseteq Names
      BY <1>8 DEF P!WriteFails, P!CutOff
    <2> QED
      BY <1>8, <2>1 DEF P!WriteFails
  <1>9. CASE P!ReadFails
    BY <1>9 DEF P!ReadFails
  <1>10. CASE P!Crash
    <2>1. dev' \in [Names -> {"none", "theirs"} \cup P!Generated] /\ manifest' \subseteq Names
      BY <1>10 DEF P!Crash, P!CutOff
    <2> QED
      BY <1>10, <2>1 DEF P!Crash
  <1>11. CASE P!EditTable
    BY <1>11 DEF P!EditTable
  <1>12. ASSUME NEW n \in Names, P!HandBuild(n) PROVE P!TypeOK'
    BY <1>12 DEF P!HandBuild
  <1>13. CASE UNCHANGED P!vars
    BY <1>13
  <1> QED
    BY <1>1, <1>2, <1>3, <1>4, <1>5, <1>6, <1>7, <1>8, <1>9, <1>10, <1>11, <1>12, <1>13
    DEF P!Next, P!Run

\* Every variable of the playlists section stays in its type, run after run.
THEOREM PlaylistsTypeCorrect == P!Spec => []P!TypeOK
  <1>1. P!Init => P!TypeOK
    BY PlaylistsInitType
  <1>2. P!TypeOK /\ [P!Next]_(P!vars) => P!TypeOK'
    BY PlaylistsNextType
  <1> QED
    BY <1>1, <1>2, PTL DEF P!Spec

-------------------------------------------------------------------------------
(* The inductive invariant *)

\* A run that is over has forgotten what it was at, and so promises nothing.
LEMMA OverKeeps == \A how : P!Over(how) => P!PlaylistsInv'
  BY DEF P!Over, P!Goto, P!PlaylistsInv, P!StaleCovers, P!StaleApart, P!Pushed, P!NothingLeft, P!StaleLater,
         P!Unsaid

LEMMA PlaylistsInitInv == P!Init => P!PlaylistsInv
  BY DEF P!Init, P!PlaylistsInv, P!StaleCovers, P!StaleApart, P!Pushed, P!NothingLeft, P!StaleLater, P!Unsaid

LEMMA PlaylistsNextInv == P!TypeOK /\ P!PlaylistsInv /\ [P!Next]_(P!vars) => P!PlaylistsInv'
  <1> SUFFICES ASSUME P!TypeOK, P!PlaylistsInv, [P!Next]_(P!vars) PROVE P!PlaylistsInv'
    OBVIOUS
  <1> USE DEF P!PlaylistsInv, P!StaleCovers, P!StaleApart, P!Pushed, P!NothingLeft, P!StaleLater, P!Unsaid,
              P!TypeOK, P!Goto, P!Generated,
              P!vars, P!devVars, P!runVars
  <1>1. CASE P!Begin
    BY <1>1 DEF P!Begin
  <1>2. CASE P!Generate
    BY <1>2 DEF P!Generate
  <1>3. CASE P!PullManifest
    BY <1>3 DEF P!PullManifest, P!StalePlaylists
  <1>4. CASE P!PushPlaylists
    BY <1>4 DEF P!PushPlaylists
  <1>5. CASE P!RemoveStale
    BY <1>5 DEF P!RemoveStale
  <1>6. CASE P!ToList
    BY <1>6 DEF P!ToList, P!Removed
  <1>7. CASE P!PushManifest
    BY <1>7, OverKeeps DEF P!PushManifest
  <1>8. CASE P!WriteFails
    BY <1>8, OverKeeps DEF P!WriteFails
  <1>9. CASE P!ReadFails
    BY <1>9, OverKeeps DEF P!ReadFails
  <1>10. CASE P!Crash
    BY <1>10, OverKeeps DEF P!Crash
  <1>11. CASE P!EditTable
    BY <1>11 DEF P!EditTable
  <1>12. ASSUME NEW n \in Names, P!HandBuild(n) PROVE P!PlaylistsInv'
    BY <1>12 DEF P!HandBuild
  <1>13. CASE UNCHANGED P!vars
    BY <1>13
  <1> QED
    BY <1>1, <1>2, <1>3, <1>4, <1>5, <1>6, <1>7, <1>8, <1>9, <1>10, <1>11, <1>12, <1>13
    DEF P!Next, P!Run

\* While a run is at the playlists, what it knows accounts for everything the manifest lists.
THEOREM PlaylistsInvariant == P!Spec => [](P!TypeOK /\ P!PlaylistsInv)
  <1>1. P!Init => P!TypeOK /\ P!PlaylistsInv
    BY PlaylistsInitType, PlaylistsInitInv
  <1>2. P!TypeOK /\ P!PlaylistsInv /\ [P!Next]_(P!vars) => (P!TypeOK /\ P!PlaylistsInv)'
    BY PlaylistsNextType, PlaylistsNextInv
  <1> QED
    BY <1>1, <1>2, PTL DEF P!Spec

-------------------------------------------------------------------------------
(* What follows *)

\* Only a write of the manifest, whole or cut off, takes a name off it.
LEMMA ManifestWritten ==
    ASSUME P!TypeOK, [P!Next]_(P!vars), NEW n \in manifest, n \notin manifest'
    PROVE  place = "list" /\ dev' = dev
  <1> USE DEF P!devVars, P!runVars, P!vars
  <1>1. CASE P!WriteFails
    BY <1>1 DEF P!WriteFails, P!CutOff
  <1>2. CASE P!Crash
    BY <1>2 DEF P!Crash, P!CutOff
  <1>3. CASE P!PushManifest
    BY <1>3 DEF P!PushManifest
  <1> QED
    BY <1>1, <1>2, <1>3 DEF P!Next, P!Run, P!Begin, P!Generate, P!PullManifest, P!PushPlaylists, P!RemoveStale,
       P!ToList, P!ReadFails, P!EditTable, P!HandBuild

\* A name leaves the manifest only once its playlist has left the device, or in a run that has
\* just generated it: a run cut off anywhere leaves the next one what it needs to clean up.
THEOREM ListedUntilGoneHolds == P!Spec => P!ListedUntilGone
  <1>1. P!TypeOK /\ P!PlaylistsInv /\ [P!Next]_(P!vars) =>
          \A n \in manifest \ manifest' : n \in generated \/ dev'[n] \notin P!Generated
    BY ManifestWritten DEF P!PlaylistsInv, P!StaleCovers, P!NothingLeft
  <1> QED
    BY <1>1, PlaylistsInvariant, PTL DEF P!Spec, P!ListedUntilGone

\* A run that says "Done" leaves what it generated whole and listed.
THEOREM DoneListedHolds == P!Spec => P!DoneListed
  <1>1. P!TypeOK /\ P!PlaylistsInv /\ [P!Next]_(P!vars) =>
          (P!Ends => \A n \in generated : dev'[n] = "ours" /\ n \in manifest')
    <2> SUFFICES ASSUME P!TypeOK, P!PlaylistsInv, [P!Next]_(P!vars), P!Ends, NEW n \in generated
                 PROVE  dev'[n] = "ours" /\ n \in manifest'
      OBVIOUS
    <2>1. P!PushManifest
      BY DEF P!PlaylistsInv, P!Unsaid, P!Ends, P!Next, P!Run, P!Begin, P!Generate, P!PullManifest,
             P!PushPlaylists, P!RemoveStale, P!ToList,
             P!WriteFails, P!ReadFails, P!Crash, P!EditTable, P!HandBuild, P!Over, P!Goto, P!vars, P!runVars
    <2> QED
      BY <2>1 DEF P!PushManifest, P!PlaylistsInv, P!Pushed
  <1> QED
    BY <1>1, PlaylistsInvariant, PTL DEF P!Spec, P!DoneListed
===============================================================================
