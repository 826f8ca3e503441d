--------------------------- MODULE SyncMirrorProofs ----------------------------
(* What holds of SyncMirror for all trees, all paths and every selection of faults. *)
EXTENDS SyncMirror, TLAPS

-------------------------------------------------------------------------------
(* Directories and their spellings *)

LEMMA FileParts ==
    ASSUME NEW f \in Files
    PROVE  f[1] \in Dirs /\ f = <<f[1], f[2]>>
  BY PathsAssumption

LEMMA DirsOfFiles ==
    ASSUME NEW fs \in SUBSET Files
    PROVE  DirsOf(fs) \subseteq Dirs
  BY FileParts DEF DirsOf

\* The tree's own directory has no other spelling.
LEMMA RootSpelled ==
    ASSUME NEW ds \in SUBSET Dirs, OneSpelling(ds)
    PROVE  ds \cup {Root} \in SUBSET Dirs /\ OneSpelling(ds \cup {Root})
  BY PathsAssumption DEF OneSpelling

LEMMA FewerSpelled ==
    ASSUME NEW ds, OneSpelling(ds), NEW es \in SUBSET ds
    PROVE  OneSpelling(es)
  BY DEF OneSpelling

\* What mkdir -p adds is spelled one way if what it is asked for is.
LEMMA ParentsSpelled ==
    ASSUME TypeOK, NEW t \in Trees, NEW fs \in SUBSET Files, OneSpelling(DirsOf(fs))
    PROVE  /\ WithParents(t, fs) \in SUBSET Dirs
           /\ OneSpelling(WithParents(t, fs))
           /\ dirs[t] \subseteq WithParents(t, fs)
           /\ \A f \in fs : \E d \in WithParents(t, fs) : Fold[d] = Fold[f[1]]
  <1>1. dirs[t] \in SUBSET Dirs /\ OneSpelling(dirs[t])
    BY DEF TypeOK
  <1>2. DirsOf(fs) \subseteq Dirs
    BY DirsOfFiles
  <1>3. WithParents(t, fs) \in SUBSET Dirs /\ dirs[t] \subseteq WithParents(t, fs)
    BY <1>1, <1>2 DEF WithParents
  <1>4. OneSpelling(WithParents(t, fs))
    BY <1>1 DEF OneSpelling, WithParents
  <1>5. ASSUME NEW f \in fs PROVE \E d \in WithParents(t, fs) : Fold[d] = Fold[f[1]]
    <2>1. f[1] \in DirsOf(fs)
      BY DEF DirsOf
    <2> QED
      BY <2>1 DEF WithParents
  <1> QED
    BY <1>3, <1>4, <1>5

\* A path that has a directory to land in lands in one.
LEMMA LandingHome ==
    ASSUME TypeOK, NEW t \in Trees, NEW f \in Files, \E d \in dirs[t] : Fold[d] = Fold[f[1]]
    PROVE  Landing(t, f) \in Files /\ Landing(t, f)[1] \in dirs[t]
  <1> DEFINE home == {d \in dirs[t] : Fold[d] = Fold[f[1]]}
  <1>1. home # {}
    OBVIOUS
  <1>2. PICK d \in home : Landing(t, f) = <<d, f[2]>>
    BY <1>1 DEF Landing
  <1>3. d \in Dirs /\ Fold[d] = Fold[f[1]]
    BY <1>2 DEF TypeOK
  <1>4. <<d, f[2]>> \in Files
    BY <1>3, PathsAssumption
  <1> QED
    BY <1>2, <1>4

\* What TypeOK says of the device.
Card ==
    /\ dev \in [Trees -> [Files -> (0 .. MaxSize) \cup {Absent}]]
    /\ dirs \in [Trees -> SUBSET Dirs]
    /\ \A t \in Trees : OneSpelling(dirs[t]) /\ DirsOf(Held(dev[t])) \subseteq dirs[t]

\* A file is written where it has a directory, or removed.
LEMMA FileWritten ==
    ASSUME TypeOK, NEW t \in Trees, NEW f \in Files, NEW size \in (0 .. MaxSize) \cup {Absent},
           size # Absent => f[1] \in dirs[t],
           dev' = [dev EXCEPT ![t][f] = size], UNCHANGED dirs
    PROVE  Card'
  <1>1. dev' \in [Trees -> [Files -> (0 .. MaxSize) \cup {Absent}]]
    BY DEF TypeOK
  <1>2. ASSUME NEW u \in Trees, NEW g \in Held(dev'[u]) PROVE g[1] \in dirs[u]
    <2>1. g \in Files /\ (g \in Held(dev[u]) \/ (u = t /\ g = f /\ size # Absent))
      BY <1>2 DEF TypeOK, Held
    <2>2. CASE g \in Held(dev[u])
      BY <2>2 DEF TypeOK, DirsOf
    <2> QED
      BY <2>1, <2>2
  <1>3. ASSUME NEW u \in Trees PROVE DirsOf(Held(dev'[u])) \subseteq dirs[u]
    BY <1>2 DEF DirsOf
  <1> QED
    BY <1>1, <1>3 DEF Card, TypeOK

\* The directories of a tree may change for any that are spelled one way and hold its files.
LEMMA DirsChanged ==
    ASSUME TypeOK, NEW t \in Trees, NEW ds \in SUBSET Dirs, OneSpelling(ds),
           DirsOf(Held(dev[t])) \subseteq ds,
           dirs' = [dirs EXCEPT ![t] = ds], UNCHANGED dev
    PROVE  Card'
  <1>1. dirs' \in [Trees -> SUBSET Dirs]
    BY DEF TypeOK
  <1>2. ASSUME NEW u \in Trees PROVE OneSpelling(dirs'[u]) /\ DirsOf(Held(dev'[u])) \subseteq dirs'[u]
    BY DEF TypeOK
  <1> QED
    BY <1>1, <1>2 DEF Card, TypeOK

\* What is kept of a run that is over, or of a tree the loop is done with, has its type.
LEMMA ForgetType ==
    TypeOK /\ Forget =>
        /\ wanted' \in [Files -> Sizes \cup {Absent}]
        /\ unreadable' \subseteq Files
        /\ have' \in [Files -> (0 .. MaxSize) \cup {Absent}]
        /\ doomed' \subseteq Files
        /\ need' \subseteq Files
        /\ tree' \in Trees
  BY DEF Forget, TypeOK, None

-------------------------------------------------------------------------------
(* Type correctness *)

\* What a listing returns.
LEMMA ListedType ==
    ASSUME TypeOK, NEW t \in Trees
    PROVE  /\ Shown(t) \in [Files -> Sizes \cup {Absent}]
           /\ Listed(t) \in [Files -> Sizes \cup {Absent}]
           /\ Unlisted(t) \subseteq Files
           /\ Held(Listed(t)) \subseteq Held(lib[t])
  <1>1. Shown(t) \in [Files -> Sizes \cup {Absent}]
    BY DEF TypeOK, Shown, None
  <1>2. Listed(t) \in [Files -> Sizes \cup {Absent}]
    BY <1>1 DEF Listed
  <1>3. Unlisted(t) \subseteq Files
    BY DEF Unlisted, Held
  <1>4. Held(Listed(t)) \subseteq Held(lib[t])
    BY DEF Held, Listed, Shown, None
  <1> QED
    BY <1>1, <1>2, <1>3, <1>4

LEMMA InitType == Init => TypeOK /\ SpellingInv
  <1> SUFFICES ASSUME Init PROVE TypeOK /\ SpellingInv
    OBVIOUS
  <1>1. PICK own \in SUBSET {f \in Files : f[1] = Root /\ f[2] \in Preserved} :
          dev = [t \in Trees |-> [f \in Files |-> IF t \in Roms /\ f \in own THEN MaxSize ELSE Absent]]
    BY DEF Init
  <1>2. dev \in [Trees -> [Files -> (0 .. MaxSize) \cup {Absent}]]
    BY <1>1, SizesAssumption
  <1>3. ASSUME NEW t \in Trees PROVE dirs[t] = DirsOf(Held(dev[t])) /\ dirs[t] \subseteq {Root}
    <2>1. dirs[t] = DirsOf(Held(dev[t]))
      BY DEF Init
    <2>2. ASSUME NEW f \in Held(dev[t]) PROVE f[1] = Root
      BY <1>1, <2>2 DEF Held
    <2> QED
      BY <2>1, <2>2 DEF DirsOf
  <1>4. dirs \in [Trees -> SUBSET Dirs]
    <2>1. dirs = [t \in Trees |-> DirsOf(Held(dev[t]))]
      BY DEF Init
    <2>2. \A t \in Trees : DirsOf(Held(dev[t])) \in SUBSET Dirs
      BY <1>3, PathsAssumption
    <2> QED
      BY <2>1, <2>2
  <1>5. \A t \in Trees : OneSpelling(dirs[t]) /\ DirsOf(Held(dev[t])) \subseteq dirs[t]
    BY <1>3 DEF OneSpelling
  <1>6. lib \in [Trees -> [Files -> Sizes \cup {Absent}]] /\ LibSpelled
    BY DEF Init, LibSpelled
  <1>7. WantedSpelled /\ NeedListed /\ NeedLater /\ Homed
    BY DEF Init, WantedSpelled, NeedListed, NeedLater, Homed, Held, None, DirsOf, OneSpelling
  <1>8. TypeOK
    BY <1>2, <1>4, <1>5, <1>6, SizesAssumption DEF Init, TypeOK, Places, None
  <1> QED
    BY <1>6, <1>7, <1>8 DEF SpellingInv

\* A command that is cut off leaves a card like any other.
LEMMA CutOffCard == ASSUME TypeOK, SpellingInv, CutOff PROVE Card'
  <1>0. tree \in Trees
    BY DEF TypeOK
  <1>1. CASE UNCHANGED devVars
    BY <1>1 DEF devVars, Card, TypeOK
  <1>2. CASE dirs' = [dirs EXCEPT ![tree] = @ \cup {Root}] /\ UNCHANGED dev
    BY <1>0, <1>2, RootSpelled, DirsChanged DEF TypeOK
  <1>3. CASE (\E f \in doomed : dev' = [dev EXCEPT ![tree][f] = Absent]) /\ UNCHANGED dirs
    BY <1>0, <1>3, FileWritten DEF TypeOK
  <1>4. CASE (\E some \in SUBSET need : dirs' = [dirs EXCEPT ![tree] = WithParents(tree, some)]) /\ UNCHANGED dev
    <2>1. PICK some \in SUBSET need : dirs' = [dirs EXCEPT ![tree] = WithParents(tree, some)]
      BY <1>4
    <2>2. some \in SUBSET Files /\ OneSpelling(DirsOf(some))
      <3>1. DirsOf(some) \subseteq DirsOf(Held(wanted))
        BY DEF SpellingInv, NeedListed, DirsOf
      <3> QED
        BY <3>1, FewerSpelled DEF SpellingInv, WantedSpelled, TypeOK
    <2>3. DirsOf(Held(dev[tree])) \subseteq WithParents(tree, some)
      BY <1>0, <2>2, ParentsSpelled DEF TypeOK
    <2> QED
      BY <1>0, <1>4, <2>1, <2>2, <2>3, ParentsSpelled, DirsChanged
  <1>5. CASE /\ pc = "push"
             /\ \E f \in need : \E got \in {Absent} \cup (0 .. MaxSize) :
                   /\ got \in Nat => Listed(tree)[f] # Absent /\ got <= Listed(tree)[f]
                   /\ dev' = [dev EXCEPT ![tree][Landing(tree, f)] = got]
             /\ UNCHANGED dirs
    <2>1. PICK f \in need, got \in {Absent} \cup (0 .. MaxSize) :
            dev' = [dev EXCEPT ![tree][Landing(tree, f)] = got]
      BY <1>5
    <2>2. Landing(tree, f) \in Files /\ Landing(tree, f)[1] \in dirs[tree]
      BY <1>0, <1>5, LandingHome DEF TypeOK, SpellingInv, Homed
    <2> QED
      BY <1>0, <1>5, <2>1, <2>2, FileWritten
  <1> QED
    BY <1>1, <1>2, <1>3, <1>4, <1>5 DEF CutOff

\* The end of a tree or of a run leaves nothing to check of it.
LEMMA ForgetSpelling == TypeOK /\ SpellingInv /\ Forget /\ lib' = lib /\ pc' # "push" => SpellingInv'
  BY DEF Forget, SpellingInv, LibSpelled, WantedSpelled, NeedListed, NeedLater, Homed, Held, None, DirsOf, OneSpelling

LEMMA NextType == TypeOK /\ SpellingInv /\ [Next]_vars => TypeOK' /\ SpellingInv'
  <1> SUFFICES ASSUME TypeOK, SpellingInv, [Next]_vars PROVE TypeOK' /\ SpellingInv'
    OBVIOUS
  <1> USE DEF Goto, Mishap, libVars, devVars, treeVars, runVars, vars
  <1>0. tree \in Trees /\ Card
    BY DEF TypeOK, Card
  <1>1. CASE Begin
    BY <1>1 DEF Begin, TypeOK, Places, SpellingInv, LibSpelled, WantedSpelled, NeedListed, NeedLater, Homed
  <1>2. ASSUME NEW t \in Trees, Enter(t) PROVE TypeOK' /\ SpellingInv'
    BY <1>2 DEF Enter, TypeOK, Places, SpellingInv, LibSpelled, WantedSpelled, NeedListed, NeedLater, Homed
  <1>3. CASE MakeRoot
    <2>1. Card'
      BY <1>0, <1>3, RootSpelled, DirsChanged DEF MakeRoot, TypeOK
    <2>2. TypeOK'
      BY <1>3, <2>1 DEF MakeRoot, TypeOK, Card, Places
    <2> QED
      BY <1>3, <2>2 DEF MakeRoot, SpellingInv, LibSpelled, WantedSpelled, NeedListed, NeedLater, Homed
  <1>4. CASE ReadLibrary
    <2>1. CASE shows[tree] \in {"files", "bare"}
      <3>1. TypeOK'
        BY <1>0, <1>4, <2>1, ListedType DEF ReadLibrary, TypeOK, Places
      <3>2. need = {}
        BY <1>4 DEF ReadLibrary, SpellingInv, NeedLater
      <3>3. WantedSpelled'
        <4>1. DirsOf(Held(Listed(tree))) \subseteq DirsOf(Held(lib[tree]))
          BY <1>0, ListedType DEF DirsOf
        <4> QED
          BY <1>0, <1>4, <2>1, <4>1, FewerSpelled DEF ReadLibrary, SpellingInv, LibSpelled, WantedSpelled
      <3> QED
        BY <1>4, <2>1, <3>1, <3>2, <3>3 DEF ReadLibrary, SpellingInv, LibSpelled, NeedListed, NeedLater, Homed
    <2>2. CASE shows[tree] \notin {"files", "bare"}
      BY <1>4, <2>2, ForgetSpelling, ForgetType DEF ReadLibrary, Close, TypeOK, Places
    <2> QED
      BY <2>1, <2>2
  <1>5. CASE ReadDevice
    <2>1. CASE Refuses(tree)
      BY <1>5, <2>1, ForgetSpelling, ForgetType DEF ReadDevice, Close, TypeOK, Places
    <2>2. CASE ~ Refuses(tree)
      <3>1. Doomed(tree) \subseteq Files
        BY DEF Doomed, Held
      <3> QED
        BY <1>0, <1>5, <2>2, <3>1 DEF ReadDevice, TypeOK, Places, SpellingInv, LibSpelled, WantedSpelled, NeedListed, NeedLater, Homed
    <2> QED
      BY <2>1, <2>2
  <1>6. CASE ReadFails
    <2>1. pc' = "next" /\ Forget /\ mishaps' \in 0 .. MaxMishaps /\ UNCHANGED <<lib, broken, shows, dev, dirs, said>>
      BY <1>6, SizesAssumption DEF ReadFails, Close, TypeOK
    <2>2. todo' \subseteq Trees /\ outcome' \in [Trees -> {"none", "skipped", "failed", "mirrored"}]
      BY <1>6 DEF ReadFails, Close, TypeOK
    <2>3. TypeOK'
      BY <2>1, <2>2, ForgetType DEF TypeOK, Places
    <2> QED
      BY <2>1, <2>3, ForgetSpelling
  <1>7. CASE Remove
    <2>1. PICK f \in doomed : dev' = [dev EXCEPT ![tree][f] = Absent] /\ doomed' = doomed \ {f}
      BY <1>7 DEF Remove
    <2>2. Card'
      BY <1>0, <1>7, <2>1, FileWritten DEF Remove, TypeOK
    <2>3. TypeOK'
      BY <1>7, <2>1, <2>2 DEF Remove, TypeOK, Card
    <2> QED
      BY <1>7, <2>3 DEF Remove, SpellingInv, LibSpelled, WantedSpelled, NeedListed, NeedLater, Homed
  <1>8. CASE RemoveEmpty
    <2>1. Card'
      <3>1. CASE dirs' = dirs
        BY <1>0, <1>8, <3>1 DEF RemoveEmpty, Card
      <3>2. CASE dirs' = [dirs EXCEPT ![tree] = Emptied(tree)]
        <4>1. DirsOf(Held(dev[tree])) \subseteq dirs[tree] /\ OneSpelling(dirs[tree]) /\ dirs[tree] \in SUBSET Dirs
          BY <1>0 DEF Card
        <4>2. Emptied(tree) \in SUBSET (dirs[tree] \cup {Root})
          BY DEF Emptied
        <4>3. Emptied(tree) \in SUBSET Dirs /\ OneSpelling(Emptied(tree))
          BY <4>1, <4>2, RootSpelled, FewerSpelled
        <4>4. DirsOf(Held(dev[tree])) \subseteq Emptied(tree)
          BY <4>1 DEF Emptied
        <4> QED
          BY <1>0, <1>8, <3>2, <4>3, <4>4, DirsChanged DEF RemoveEmpty
      <3>3. dirs' = dirs \/ dirs' = [dirs EXCEPT ![tree] = Emptied(tree)]
        BY <1>0, <1>8 DEF RemoveEmpty, TypeOK
      <3> QED
        BY <3>1, <3>2, <3>3
    <2>2. Need \subseteq Held(wanted) /\ Held(wanted) \subseteq Files
      BY DEF Need, Held
    <2>3. TypeOK'
      BY <1>8, <2>1, <2>2, SizesAssumption DEF RemoveEmpty, TypeOK, Card, Places
    <2> QED
      BY <1>8, <2>2, <2>3 DEF RemoveEmpty, SpellingInv, LibSpelled, WantedSpelled, NeedListed, NeedLater, Homed
  <1>9. CASE MakeParents
    <2>1. need \in SUBSET Files /\ OneSpelling(DirsOf(need))
      <3>1. DirsOf(need) \subseteq DirsOf(Held(wanted))
        BY DEF SpellingInv, NeedListed, DirsOf
      <3> QED
        BY <3>1, FewerSpelled DEF SpellingInv, WantedSpelled, TypeOK
    <2>2. DirsOf(Held(dev[tree])) \subseteq WithParents(tree, need)
      BY <1>0, <2>1, ParentsSpelled DEF TypeOK
    <2>3. Card'
      BY <1>0, <1>9, <2>1, <2>2, ParentsSpelled, DirsChanged DEF MakeParents
    <2>4. TypeOK'
      BY <1>9, <2>3 DEF MakeParents, TypeOK, Card, Places
    <2>5. dirs'[tree] = WithParents(tree, need)
      BY <1>0, <1>9 DEF MakeParents, TypeOK
    <2>6. Homed'
      BY <1>0, <1>9, <2>1, <2>5, ParentsSpelled DEF MakeParents, Homed
    <2> QED
      BY <1>9, <2>4, <2>6 DEF MakeParents, SpellingInv, LibSpelled, WantedSpelled, NeedListed, NeedLater
  <1>10. CASE Push
    <2>1. PICK f \in need :
            IF Listed(tree)[f] # Absent
            THEN /\ dev' = [dev EXCEPT ![tree][Landing(tree, f)] = Listed(tree)[f]]
                 /\ need' = need \ {f}
                 /\ UNCHANGED <<tree, wanted, unreadable, have, doomed, pc, outcome, said>>
            ELSE Close("failed") /\ UNCHANGED dev
      BY <1>10 DEF Push
    <2>2. CASE Listed(tree)[f] # Absent
      <3>1. Listed(tree)[f] \in (0 .. MaxSize) \cup {Absent} /\ f \in Files
        BY <1>0, ListedType, SizesAssumption DEF TypeOK, Sizes
      <3>2. Landing(tree, f) \in Files /\ Landing(tree, f)[1] \in dirs[tree]
        BY <1>0, <1>10, <3>1, LandingHome DEF Push, SpellingInv, Homed
      <3>3. Card'
        BY <1>0, <1>10, <2>1, <2>2, <3>1, <3>2, FileWritten DEF Push
      <3>4. TypeOK'
        BY <1>10, <2>1, <2>2, <3>3 DEF Push, TypeOK, Card
      <3> QED
        BY <1>10, <2>1, <2>2, <3>4 DEF Push, SpellingInv, LibSpelled, WantedSpelled, NeedListed, NeedLater, Homed
    <2>3. CASE Listed(tree)[f] = Absent
      <3>1. TypeOK'
        BY <1>10, <2>1, <2>3, ForgetType DEF Push, Close, TypeOK, Places
      <3> QED
        BY <1>10, <2>1, <2>3, <3>1, ForgetSpelling DEF Push, Close
    <2> QED
      BY <2>2, <2>3
  <1>11. CASE Finish
    <2>1. TypeOK'
      BY <1>11, ForgetType DEF Finish, Close, TypeOK, Places
    <2> QED
      BY <1>11, <2>1, ForgetSpelling DEF Finish, Close
  <1>12. CASE End
    BY <1>12 DEF End, TypeOK, Places, SpellingInv, LibSpelled, WantedSpelled, NeedListed, NeedLater, Homed
  <1>13. CASE WriteFails
    <2>1. Card'
      BY <1>13, CutOffCard DEF WriteFails
    <2>2. pc' = "next" /\ Forget /\ mishaps' \in 0 .. MaxMishaps /\ UNCHANGED <<lib, broken, shows, said, todo>>
      BY <1>13, SizesAssumption DEF WriteFails, Close, TypeOK
    <2>3. outcome' \in [Trees -> {"none", "skipped", "failed", "mirrored"}]
      BY <1>13 DEF WriteFails, Close, TypeOK
    <2>4. TypeOK'
      BY <2>1, <2>2, <2>3, ForgetType DEF TypeOK, Card, Places
    <2> QED
      BY <2>2, <2>4, ForgetSpelling
  <1>14. CASE Crash
    <2>1. Card'
      BY <1>14, CutOffCard DEF Crash
    <2>2. pc' = "idle" /\ Forget /\ mishaps' \in 0 .. MaxMishaps /\ UNCHANGED <<lib, broken, shows, said, todo, outcome>>
      BY <1>14, SizesAssumption DEF Crash, TypeOK
    <2>3. TypeOK'
      BY <2>1, <2>2, ForgetType DEF TypeOK, Card, Places
    <2> QED
      BY <2>2, <2>3, ForgetSpelling
  <1>15. ASSUME NEW t \in Trees, Edit(t) PROVE TypeOK' /\ SpellingInv'
    <2>1. lib' \in [Trees -> [Files -> Sizes \cup {Absent}]]
      <3>1. CASE \E f \in Files, size \in Sizes \cup {Absent} : lib' = [lib EXCEPT ![t][f] = size]
        BY <3>1 DEF TypeOK
      <3>2. CASE \E d, e \in Dirs :
                   /\ d # e /\ Fold[d] = Fold[e]
                   /\ lib' = [lib EXCEPT ![t] =
                                [f \in Files |-> IF f[1] = e THEN @[<<d, f[2]>>]
                                                 ELSE IF f[1] = d THEN Absent ELSE @[f]]]
        <4>1. PICK d \in Dirs, e \in Dirs :
                /\ Fold[d] = Fold[e]
                /\ lib' = [lib EXCEPT ![t] =
                             [f \in Files |-> IF f[1] = e THEN @[<<d, f[2]>>]
                                              ELSE IF f[1] = d THEN Absent ELSE @[f]]]
          BY <3>2
        <4>2. \A f \in Files : f[1] = e => <<d, f[2]>> \in Files
          BY <4>1, PathsAssumption
        <4> QED
          BY <4>1, <4>2 DEF TypeOK
      <3> QED
        BY <1>15, <3>1, <3>2 DEF Edit
    <2>2. LibSpelled'
      <3>1. ASSUME NEW u \in Trees PROVE OneSpelling(DirsOf(Held(lib'[u])))
        <4>1. CASE u = t
          BY <1>15, <4>1 DEF Edit
        <4>2. CASE u # t
          <5>1. lib'[u] = lib[u]
            BY <1>15, <4>2 DEF Edit, TypeOK
          <5> QED
            BY <5>1 DEF SpellingInv, LibSpelled
        <4> QED
          BY <4>1, <4>2
      <3> QED
        BY <3>1 DEF LibSpelled
    <2>3. mishaps' \in 0 .. MaxMishaps /\ UNCHANGED <<broken, shows, devVars, treeVars, runVars>>
      BY <1>15, SizesAssumption DEF Edit, TypeOK
    <2>4. TypeOK'
      BY <2>1, <2>3 DEF TypeOK
    <2> QED
      BY <2>2, <2>3, <2>4 DEF SpellingInv, WantedSpelled, NeedListed, NeedLater, Homed
  <1>16. ASSUME NEW t \in Trees, View(t) PROVE TypeOK' /\ SpellingInv'
    <2>1. mishaps' \in 0 .. MaxMishaps /\ UNCHANGED <<lib, devVars, treeVars, runVars>>
      BY <1>16, SizesAssumption DEF View, TypeOK
    <2>2. shows' \in [Trees -> {"files", "bare", "gone", "denied"}] /\ broken' \in [Trees -> SUBSET Files]
      BY <1>16 DEF View, TypeOK, Held
    <2>3. TypeOK'
      BY <2>1, <2>2 DEF TypeOK
    <2> QED
      BY <2>1, <2>3 DEF SpellingInv, LibSpelled, WantedSpelled, NeedListed, NeedLater, Homed
  <1>17. CASE UNCHANGED vars
    BY <1>17 DEF TypeOK, SpellingInv, LibSpelled, WantedSpelled, NeedListed, NeedLater, Homed
  <1> QED
    BY <1>1, <1>2, <1>3, <1>4, <1>5, <1>6, <1>7, <1>8, <1>9, <1>10, <1>11, <1>12, <1>13, <1>14,
       <1>15, <1>16, <1>17
    DEF Next, Run, Trouble

\* Every variable of the mirror stays in its type, and the card has one spelling of a directory
\* and a directory for every file, whatever is cut off.
THEOREM TypeCorrect == Spec => []TypeOK
  <1>1. Init => TypeOK /\ SpellingInv
    BY InitType
  <1>2. TypeOK /\ SpellingInv /\ [Next]_vars => TypeOK' /\ SpellingInv'
    BY NextType
  <1> QED
    BY <1>1, <1>2, PTL DEF Spec

-------------------------------------------------------------------------------
(* What a prune deletes *)

\* Away from the listing and the prune there is nothing to promise.
LEMMA PruneElsewhere == pc' \notin {"device", "prune"} => PruneInv'
  BY DEF PruneInv, ListedWhole, DoomedGone

LEMMA PruneKept ==
    ASSUME PruneInv, UNCHANGED <<lib, pc, tree, wanted, unreadable>>, doomed' \subseteq doomed
    PROVE  PruneInv'
  BY DEF PruneInv, ListedWhole, DoomedGone

\* A listing of a directory that can be listed misses nothing, or finds nothing at all.
LEMMA ListingWhole ==
    ASSUME NEW t \in Trees, TypeOK, shows[t] \in {"files", "bare"}
    PROVE  Held(Listed(t)) = {} \/ Held(lib[t]) \subseteq Held(Listed(t)) \cup Unlisted(t)
  <1>1. CASE shows[t] = "files"
    BY <1>1 DEF Held, Listed, Unlisted, Shown
  <1>2. CASE shows[t] = "bare"
    BY <1>2 DEF Held, Listed, Shown, None
  <1> QED
    BY <1>1, <1>2

\* What is chosen for deletion is gone from the library, or the listing is refused.
LEMMA DoomedSound ==
    ASSUME TypeOK, ListedWhole, pc = "device", ~ Refuses(tree), NEW f \in Doomed(tree)
    PROVE  lib[tree][f] = Absent /\ ~ (tree \in Roms /\ f[2] \in Preserved)
  <1>1. f \in Files /\ f \notin Held(wanted) \cup unreadable /\ ~ (tree \in Roms /\ f[2] \in Preserved)
    BY DEF Doomed, Held
  <1>2. Held(lib[tree]) \subseteq Held(wanted) \cup unreadable
    BY DEF Refuses, ListedWhole
  <1> QED
    BY <1>1, <1>2 DEF Held

LEMMA NextPrune == "editing" \notin Faults /\ TypeOK /\ PruneInv /\ [Next]_vars => PruneInv'
  <1> SUFFICES ASSUME "editing" \notin Faults, TypeOK, PruneInv, [Next]_vars PROVE PruneInv'
    OBVIOUS
  <1> USE DEF Goto, libVars, devVars, treeVars, runVars, vars
  <1>1. CASE ReadLibrary
    <2>1. CASE shows[tree] \in {"files", "bare"}
      <3>1. Held(Listed(tree)) = {} \/ Held(lib[tree]) \subseteq Held(Listed(tree)) \cup Unlisted(tree)
        BY <2>1, ListingWhole DEF TypeOK
      <3> QED
        BY <1>1, <2>1, <3>1 DEF ReadLibrary, PruneInv, ListedWhole, DoomedGone
    <2>2. CASE shows[tree] \notin {"files", "bare"}
      BY <1>1, <2>2, PruneElsewhere DEF ReadLibrary, Close
    <2> QED
      BY <2>1, <2>2
  <1>2. CASE ReadDevice
    <2>1. CASE Refuses(tree)
      BY <1>2, <2>1, PruneElsewhere DEF ReadDevice, Close
    <2>2. CASE ~ Refuses(tree)
      <3>1. ListedWhole' /\ pc' = "prune" /\ doomed' = Doomed(tree) /\ UNCHANGED <<lib, tree>>
        BY <1>2, <2>2 DEF ReadDevice, PruneInv, ListedWhole
      <3>2. \A f \in Doomed(tree) : lib[tree][f] = Absent /\ ~ (tree \in Roms /\ f[2] \in Preserved)
        BY <1>2, <2>2, DoomedSound DEF ReadDevice, PruneInv
      <3> QED
        BY <3>1, <3>2 DEF PruneInv, DoomedGone
    <2> QED
      BY <2>1, <2>2
  <1>3. CASE Remove
    BY <1>3, PruneKept DEF Remove
  <1>4. ASSUME NEW t \in Trees, Edit(t) PROVE PruneInv'
    BY <1>4, PruneElsewhere DEF Edit, Mishap
  <1>5. ASSUME NEW t \in Trees, View(t) PROVE PruneInv'
    BY <1>5, PruneKept DEF View
  <1>6. ASSUME NEW t \in Trees, Enter(t) PROVE PruneInv'
    BY <1>6, PruneElsewhere DEF Enter
  <1>7. CASE Begin \/ MakeRoot \/ RemoveEmpty \/ MakeParents \/ Finish \/ End \/ ReadFails \/ WriteFails \/ Crash
    BY <1>7, PruneElsewhere
    DEF Begin, MakeRoot, RemoveEmpty, MakeParents, Finish, End, ReadFails, WriteFails, Crash, Close
  <1>8. CASE Push
    BY <1>8, PruneElsewhere DEF Push, Close
  <1>9. CASE UNCHANGED vars
    BY <1>9, PruneKept
  <1> QED
    BY <1>1, <1>2, <1>3, <1>4, <1>5, <1>6, <1>7, <1>8, <1>9 DEF Next, Run, Trouble

\* No step of a prune deletes what is not chosen for deletion.
LEMMA OnlyDoomed ==
    ASSUME TypeOK, [Next]_vars, pc = "prune", NEW t \in Trees, NEW f \in Files,
           dev[t][f] # Absent, dev'[t][f] = Absent
    PROVE  t = tree /\ f \in doomed
  <1> USE DEF Goto, devVars, vars
  <1>1. CASE \E g \in doomed : dev' = [dev EXCEPT ![tree][g] = Absent]
    BY <1>1 DEF TypeOK
  <1>2. CASE UNCHANGED dev
    BY <1>2
  <1>3. CASE Remove
    BY <1>1, <1>3 DEF Remove
  <1>4. CASE WriteFails
    BY <1>1, <1>2, <1>4 DEF WriteFails, CutOff
  <1>5. CASE Crash
    BY <1>1, <1>2, <1>5 DEF Crash, CutOff
  <1> QED
    BY <1>2, <1>3, <1>4, <1>5
    DEF Next, Run, Trouble, Begin, Enter, MakeRoot, ReadLibrary, ReadDevice, RemoveEmpty, MakeParents,
        Push, Finish, End, ReadFails, Edit, View

\* As long as nobody edits the library during a run, no prune deletes what the library has, be it
\* unmounted or in part unreadable, nor what the firmware keeps beside the games.
THEOREM PruneSparesLibraryHolds ==
    ASSUME "editing" \notin Faults
    PROVE  Spec => PruneSparesLibrary
  <1>1. Init => TypeOK /\ SpellingInv /\ PruneInv
    BY InitType DEF Init, PruneInv, ListedWhole, DoomedGone
  <1>2. TypeOK /\ SpellingInv /\ PruneInv /\ [Next]_vars => (TypeOK /\ SpellingInv /\ PruneInv)'
    BY NextType, NextPrune
  <1>3. TypeOK /\ PruneInv /\ [Next]_vars =>
          (pc = "prune" => \A t \in Trees : \A f \in Held(dev[t]) :
              dev'[t][f] = Absent => lib[t][f] = Absent /\ ~ (t \in Roms /\ f[2] \in Preserved))
    BY OnlyDoomed DEF PruneInv, DoomedGone, Held
  <1> QED
    BY <1>1, <1>2, <1>3, PTL DEF Spec, PruneSparesLibrary

-------------------------------------------------------------------------------
(* Where a push lands *)

\* A directory that is there under one spelling is the one that is found.
LEMMA HomeFound ==
    ASSUME NEW ds \in SUBSET Dirs, OneSpelling(ds), NEW f \in Files, NEW d \in ds, Fold[d] = Fold[f[1]]
    PROVE  /\ {e \in ds : Fold[e] = Fold[f[1]]} # {}
           /\ (CHOOSE e \in {e \in ds : Fold[e] = Fold[f[1]]} : TRUE) = d
  <1>1. {e \in ds : Fold[e] = Fold[f[1]]} = {d}
    BY DEF OneSpelling
  <1> QED
    BY <1>1

LEMMA LandsAt ==
    ASSUME TypeOK, NEW t \in Trees, NEW f \in Files, NEW d \in dirs[t], Fold[d] = Fold[f[1]]
    PROVE  Landing(t, f) = <<d, f[2]>>
  <1>1. dirs[t] \in SUBSET Dirs /\ OneSpelling(dirs[t])
    BY DEF TypeOK
  <1> QED
    BY <1>1, HomeFound DEF Landing

\* The same after a step, of the directories there are then.
LEMMA LandsAtNext ==
    ASSUME TypeOK', NEW t \in Trees, NEW f \in Files, NEW d \in dirs'[t], Fold[d] = Fold[f[1]]
    PROVE  (Landing(t, f))' = <<d, f[2]>>
  <1>1. dirs'[t] \in SUBSET Dirs /\ OneSpelling(dirs'[t])
    BY DEF TypeOK
  <1> QED
    BY <1>1, HomeFound DEF Landing

\* What is found where a push would land was found in a directory.
LEMMA LandedHome ==
    ASSUME TypeOK, NEW t \in Trees, NEW f \in Files, dev[t][Landing(t, f)] # Absent
    PROVE  \E d \in dirs[t] : Fold[d] = Fold[f[1]]
  <1> SUFFICES ASSUME \A d \in dirs[t] : Fold[d] # Fold[f[1]] PROVE FALSE
    OBVIOUS
  <1>1. Landing(t, f) = f
    BY FileParts DEF Landing
  <1>2. f[1] \in DirsOf(Held(dev[t]))
    BY <1>1 DEF DirsOf, Held
  <1> QED
    BY <1>2 DEF TypeOK

\* Two files that were listed land in two places.
LEMMA LandApart ==
    ASSUME TypeOK, WantedSpelled, NEW t \in Trees, NEW f \in Held(wanted), NEW g \in Held(wanted), f # g,
           \E d \in dirs[t] : Fold[d] = Fold[f[1]], \E d \in dirs[t] : Fold[d] = Fold[g[1]]
    PROVE  Landing(t, f) # Landing(t, g)
  <1> SUFFICES ASSUME Landing(t, f) = Landing(t, g) PROVE FALSE
    OBVIOUS
  <1>0. f \in Files /\ g \in Files
    BY DEF Held
  <1>1. PICK d \in dirs[t] : Fold[d] = Fold[f[1]]
    OBVIOUS
  <1>2. PICK e \in dirs[t] : Fold[e] = Fold[g[1]]
    OBVIOUS
  <1>3. Landing(t, f) = <<d, f[2]>> /\ Landing(t, g) = <<e, g[2]>>
    BY <1>0, <1>1, <1>2, LandsAt
  <1>4. f[2] = g[2] /\ Fold[f[1]] = Fold[g[1]]
    <2> DEFINE x == f[2]
    <2> DEFINE y == g[2]
    <2>1. <<d, x>> = <<e, y>>
      BY <1>3
    <2> HIDE DEF x, y
    <2>2. d = e /\ x = y
      BY <2>1
    <2> QED
      BY <1>1, <1>2, <2>2 DEF x, y
  <1>5. f[1] = g[1]
    BY <1>4 DEF WantedSpelled, OneSpelling, DirsOf
  <1> QED
    BY <1>0, <1>4, <1>5, FileParts

\* What is on the device by a path lands there.
LEMMA LandsOnItself ==
    ASSUME TypeOK, NEW t \in Trees, NEW f \in Files, f[1] \in dirs[t]
    PROVE  Landing(t, f) = f
  BY LandsAt, FileParts

-------------------------------------------------------------------------------
(* What a run that says "Done" has done *)

\* What was listed is what the library shows.
ListedRight ==
    pc \in {"device", "prune", "parents", "push"} => wanted = Listed(tree) /\ unreadable = Unlisted(tree)

\* The prune leaves what was listed as it was found.
FoundKept ==
    pc = "prune" => \A f \in Held(wanted) : f \notin doomed /\ dev[tree][f] = have[f]

\* What need not be pushed, or need no longer be, is where a push of it would land.
PushedRight ==
    pc \in {"parents", "push"} =>
        \A f \in Held(wanted) \ need : dev[tree][Landing(tree, f)] = wanted[f]

\* The tree the run is at is not to be taken again.
TakenOnce == pc \notin {"idle", "next"} => tree \notin todo

\* What is mirrored is done with, and right.
MirroredRight ==
    pc # "idle" => \A t \in Trees : outcome[t] = "mirrored" =>
        /\ t \notin todo /\ (pc # "next" => t # tree)
        /\ \A f \in Held(Shown(t)) : dev[t][Landing(t, f)] = Shown(t)[f]

MirrorInv == ListedRight /\ FoundKept /\ PushedRight /\ TakenOnce /\ MirroredRight

\* A listing that could read everything is all that is shown.
LEMMA ListedAll ==
    ASSUME TypeOK, NEW t \in Trees, Unlisted(t) = {}
    PROVE  Listed(t) = Shown(t)
  <1>1. Shown(t) \in [Files -> Sizes \cup {Absent}]
    BY ListedType
  <1>2. ASSUME NEW f \in Files PROVE Listed(t)[f] = Shown(t)[f]
    BY <1>1 DEF Listed, Unlisted, Held
  <1> QED
    BY <1>1, <1>2, ListedType

\* Trees that are mirrored stay so, as long as they are left alone.
LEMMA MirroredKept ==
    ASSUME MirroredRight, pc # "idle", UNCHANGED libVars, todo' \subseteq todo,
           \A t \in Trees : outcome'[t] = "mirrored" =>
               outcome[t] = "mirrored" /\ dev'[t] = dev[t] /\ dirs'[t] = dirs[t],
           pc' = "next" \/ (pc # "next" /\ tree' = tree)
    PROVE  MirroredRight'
  <1>1. ASSUME NEW t \in Trees, outcome'[t] = "mirrored"
        PROVE  /\ t \notin todo' /\ (pc' # "next" => t # tree')
               /\ \A f \in Held((Shown(t))') : dev'[t][(Landing(t, f))'] = (Shown(t))'[f]
    BY <1>1 DEF MirroredRight, libVars, Shown, Landing
  <1> QED
    BY <1>1 DEF MirroredRight

\* The tree the run is at is not among them yet.
LEMMA NotYetMirrored ==
    ASSUME TypeOK, MirroredRight, pc \notin {"idle", "next"}
    PROVE  tree \in Trees /\ outcome[tree] # "mirrored"
  BY DEF TypeOK, MirroredRight

\* Nor does it become so by a step that fails it or goes on with it.
LEMMA MirroredBusy ==
    ASSUME TypeOK, MirroredRight, pc \notin {"idle", "next"}, UNCHANGED libVars, todo' \subseteq todo,
           \A t \in Trees \ {tree} : dev'[t] = dev[t] /\ dirs'[t] = dirs[t],
           outcome' = outcome \/ outcome' = [outcome EXCEPT ![tree] = "failed"],
           pc' = "next" \/ tree' = tree
    PROVE  MirroredRight'
  <1>1. ASSUME NEW t \in Trees, outcome'[t] = "mirrored"
        PROVE  outcome[t] = "mirrored" /\ dev'[t] = dev[t] /\ dirs'[t] = dirs[t]
    <2>1. outcome[t] = "mirrored"
      BY <1>1 DEF TypeOK
    <2> QED
      BY <2>1, NotYetMirrored
  <1> QED
    BY <1>1, MirroredKept

\* A command that is cut off has touched the tree of the run and no other.
LEMMA CutOffHere ==
    ASSUME TypeOK, CutOff
    PROVE  \A t \in Trees \ {tree} : dev'[t] = dev[t] /\ dirs'[t] = dirs[t]
  BY DEF TypeOK, CutOff, devVars

\* The loop is done with a tree that failed: only what was mirrored before is left to promise.
LEMMA FailedMirror ==
    ASSUME TypeOK, MirroredRight, pc \notin {"idle", "next"}, Close("failed"), UNCHANGED libVars,
           todo' \subseteq todo, \A t \in Trees \ {tree} : dev'[t] = dev[t] /\ dirs'[t] = dirs[t]
    PROVE  MirrorInv'
  <1>1. MirroredRight'
    BY MirroredBusy DEF Close, Goto
  <1> QED
    BY <1>1 DEF Close, Goto, MirrorInv, ListedRight, FoundKept, PushedRight, TakenOnce

LEMMA NextMirror ==
    /\ Faults \cap {"editing", "remount"} = {}
    /\ TypeOK /\ TypeOK' /\ SpellingInv /\ MirrorInv /\ [Next]_vars
    => MirrorInv'
  <1> SUFFICES ASSUME Faults \cap {"editing", "remount"} = {}, TypeOK, TypeOK', SpellingInv, MirrorInv, [Next]_vars
               PROVE  MirrorInv'
    OBVIOUS
  <1> USE DEF Goto, libVars
  <1>0. tree \in Trees /\ MirroredRight
    BY DEF TypeOK, MirrorInv
  <1>1. CASE Begin
    BY <1>1 DEF Begin, MirrorInv, ListedRight, FoundKept, PushedRight, TakenOnce, MirroredRight
  <1>2. ASSUME NEW t \in Trees, Enter(t) PROVE MirrorInv'
    <2>1. MirroredRight'
      <3>1. CASE shows[t] = "gone"
        <4>1. \A u \in Trees : outcome'[u] = "mirrored" => outcome[u] = "mirrored"
          BY <1>2, <3>1 DEF Enter, TypeOK
        <4> QED
          BY <1>0, <1>2, <3>1, <4>1, MirroredKept DEF Enter, devVars
      <3>2. CASE shows[t] # "gone"
        <4>1. \A u \in Trees : outcome[u] = "mirrored" => u # t
          BY <1>0, <1>2 DEF Enter, MirroredRight
        <4> QED
          BY <1>0, <1>2, <3>2, <4>1 DEF Enter, devVars, MirroredRight, Shown, Landing
      <3> QED
        BY <3>1, <3>2
    <2>2. pc' \in {"next", "mkdirs"} /\ (pc' = "mkdirs" => tree' \notin todo')
      BY <1>2 DEF Enter
    <2> QED
      BY <2>1, <2>2 DEF MirrorInv, ListedRight, FoundKept, PushedRight, TakenOnce
  <1>3. CASE MakeRoot
    <2>1. MirroredRight'
      BY <1>0, <1>3, MirroredBusy DEF MakeRoot, treeVars, TypeOK
    <2> QED
      BY <1>3, <2>1 DEF MakeRoot, treeVars, MirrorInv, ListedRight, FoundKept, PushedRight, TakenOnce
  <1>4. CASE ReadLibrary
    <2>1. CASE shows[tree] \in {"files", "bare"}
      <3>1. MirroredRight'
        BY <1>0, <1>4, <2>1, MirroredBusy DEF ReadLibrary, devVars
      <3>2. (Listed(tree))' = Listed(tree) /\ (Unlisted(tree))' = Unlisted(tree)
        BY <1>4, <2>1 DEF ReadLibrary, Listed, Unlisted, Shown
      <3> QED
        BY <1>4, <2>1, <3>1, <3>2
        DEF ReadLibrary, MirrorInv, ListedRight, FoundKept, PushedRight, TakenOnce
    <2>2. CASE shows[tree] \notin {"files", "bare"}
      BY <1>0, <1>4, <2>2, FailedMirror DEF ReadLibrary, devVars
    <2> QED
      BY <2>1, <2>2
  <1>5. CASE ReadDevice
    <2>1. CASE Refuses(tree)
      BY <1>0, <1>5, <2>1, FailedMirror DEF ReadDevice, devVars
    <2>2. CASE ~ Refuses(tree)
      <3>1. MirroredRight'
        BY <1>0, <1>5, <2>2, MirroredBusy DEF ReadDevice, devVars
      <3>2. FoundKept'
        BY <1>5, <2>2 DEF ReadDevice, devVars, FoundKept, Doomed
      <3>3. ListedRight'
        BY <1>5, <2>2 DEF ReadDevice, MirrorInv, ListedRight, Listed, Unlisted, Shown
      <3> QED
        BY <1>5, <2>2, <3>1, <3>2, <3>3 DEF ReadDevice, MirrorInv, PushedRight, TakenOnce
    <2> QED
      BY <2>1, <2>2
  <1>6. CASE ReadFails
    <2>1. todo' \subseteq todo
      BY <1>6 DEF ReadFails
    <2> QED
      BY <1>0, <1>6, <2>1, FailedMirror DEF ReadFails, devVars
  <1>7. CASE Remove
    <2>1. MirroredRight'
      BY <1>0, <1>7, MirroredBusy DEF Remove, runVars, TypeOK
    <2>2. FoundKept'
      BY <1>0, <1>7 DEF Remove, runVars, MirrorInv, FoundKept, TypeOK
    <2>3. ListedRight'
      BY <1>7 DEF Remove, runVars, MirrorInv, ListedRight, Listed, Unlisted, Shown
    <2> QED
      BY <1>7, <2>1, <2>2, <2>3 DEF Remove, runVars, MirrorInv, PushedRight, TakenOnce
  <1>8. CASE RemoveEmpty
    <2>1. MirroredRight'
      BY <1>0, <1>8, MirroredBusy DEF RemoveEmpty, TypeOK
    <2>2. ListedRight'
      BY <1>8 DEF RemoveEmpty, MirrorInv, ListedRight, Listed, Unlisted, Shown
    <2>3. ASSUME NEW f \in Held(wanted), f \notin Need
          PROVE  dev[tree][(Landing(tree, f))'] = wanted[f]
      <3>1. f \in Files /\ wanted[f] # Absent /\ dev[tree][f] = wanted[f]
        BY <1>8, <2>3 DEF RemoveEmpty, MirrorInv, FoundKept, Need, Held
      <3>2. f[1] \in DirsOf(Held(dev'[tree]))
        BY <1>8, <3>1 DEF RemoveEmpty, DirsOf, Held
      <3>3. f[1] \in dirs'[tree]
        BY <1>0, <3>2 DEF TypeOK
      <3>4. (Landing(tree, f))' = f
        BY <1>0, <1>8, <3>1, <3>3, LandsAtNext, FileParts DEF RemoveEmpty
      <3> QED
        BY <3>1, <3>4
    <2>4. PushedRight'
      BY <1>8, <2>3 DEF RemoveEmpty, PushedRight, Landing
    <2> QED
      BY <1>8, <2>1, <2>2, <2>4 DEF RemoveEmpty, MirrorInv, FoundKept, TakenOnce
  <1>9. CASE MakeParents
    <2>1. MirroredRight'
      BY <1>0, <1>9, MirroredBusy DEF MakeParents, treeVars, TypeOK
    <2>2. ListedRight'
      BY <1>9 DEF MakeParents, treeVars, MirrorInv, ListedRight, Listed, Unlisted, Shown
    <2>3. dirs[tree] \subseteq dirs'[tree]
      BY <1>0, <1>9 DEF MakeParents, WithParents, TypeOK
    <2>4. ASSUME NEW f \in Held(wanted), f \notin need
          PROVE  dev[tree][(Landing(tree, f))'] = wanted[f]
      <3>1. f \in Files /\ wanted[f] # Absent /\ dev[tree][Landing(tree, f)] = wanted[f]
        BY <1>9, <2>4 DEF MakeParents, MirrorInv, PushedRight, Held
      <3>2. PICK d \in dirs[tree] : Fold[d] = Fold[f[1]]
        BY <1>0, <3>1, LandedHome
      <3>3. Landing(tree, f) = <<d, f[2]>> /\ (Landing(tree, f))' = <<d, f[2]>>
        BY <1>0, <1>9, <2>3, <3>1, <3>2, LandsAt, LandsAtNext DEF MakeParents, treeVars
      <3> QED
        BY <3>1, <3>3
    <2>5. PushedRight'
      BY <1>9, <2>4 DEF MakeParents, treeVars, PushedRight, Landing
    <2> QED
      BY <1>9, <2>1, <2>2, <2>5 DEF MakeParents, treeVars, MirrorInv, FoundKept, TakenOnce
  <1>10. CASE Push
    <2>1. PICK f \in need :
            IF Listed(tree)[f] # Absent
            THEN /\ dev' = [dev EXCEPT ![tree][Landing(tree, f)] = Listed(tree)[f]]
                 /\ need' = need \ {f}
                 /\ UNCHANGED <<tree, wanted, unreadable, have, doomed, pc, outcome, said>>
            ELSE Close("failed") /\ UNCHANGED dev
      BY <1>10 DEF Push
    <2>2. CASE Listed(tree)[f] # Absent
      <3>1. MirroredRight'
        BY <1>0, <1>10, <2>1, <2>2, MirroredBusy DEF Push, TypeOK
      <3>2. ListedRight'
        BY <1>10, <2>1, <2>2 DEF Push, MirrorInv, ListedRight, Listed, Unlisted, Shown
      <3>3. /\ f \in Files /\ f \in Held(wanted)
            /\ \E d \in dirs[tree] : Fold[d] = Fold[f[1]]
            /\ Listed(tree) = wanted /\ Landing(tree, f) \in Files
        BY <1>0, <1>10, LandingHome DEF Push, SpellingInv, NeedListed, Homed, Held, MirrorInv, ListedRight
      <3>4. ASSUME NEW g \in Held(wanted), g \notin need'
            PROVE  dev'[tree][Landing(tree, g)] = wanted[g]
        <4>1. CASE g = f
          BY <1>0, <2>1, <2>2, <3>3, <4>1 DEF TypeOK
        <4>2. CASE g # f
          <5>1. g \in Files /\ wanted[g] # Absent /\ dev[tree][Landing(tree, g)] = wanted[g]
            BY <1>10, <2>1, <2>2, <3>4, <4>2 DEF Push, MirrorInv, PushedRight, Held
          <5>2. \E d \in dirs[tree] : Fold[d] = Fold[g[1]]
            BY <1>0, <5>1, LandedHome
          <5>3. Landing(tree, g) # Landing(tree, f)
            BY <1>0, <3>3, <4>2, <5>2, LandApart DEF SpellingInv
          <5>4. Landing(tree, g) \in Files
            BY <1>0, <5>1, <5>2, LandingHome
          <5> QED
            BY <1>0, <2>1, <2>2, <5>1, <5>3, <5>4 DEF TypeOK
        <4> QED
          BY <4>1, <4>2
      <3>5. PushedRight'
        BY <1>10, <2>1, <2>2, <3>4 DEF Push, PushedRight, Landing
      <3> QED
        BY <1>10, <2>1, <2>2, <3>1, <3>2, <3>5 DEF Push, MirrorInv, FoundKept, TakenOnce
    <2>3. CASE Listed(tree)[f] = Absent
      BY <1>0, <1>10, <2>1, <2>3, FailedMirror DEF Push
    <2> QED
      BY <2>2, <2>3
  <1>11. CASE Finish
    <2>1. CASE unreadable # {}
      BY <1>0, <1>11, <2>1, FailedMirror DEF Finish, devVars
    <2>2. CASE unreadable = {}
      <3>1. wanted = Shown(tree)
        BY <1>0, <1>11, <2>2, ListedAll DEF Finish, MirrorInv, ListedRight
      <3>2. \A f \in Held(Shown(tree)) : dev[tree][Landing(tree, f)] = Shown(tree)[f]
        BY <1>11, <3>1 DEF Finish, MirrorInv, PushedRight
      <3>3. outcome' = [outcome EXCEPT ![tree] = "mirrored"] /\ pc' = "next" /\ tree \notin todo
        BY <1>11, <2>2 DEF Finish, Close, MirrorInv, TakenOnce
      <3>4. ASSUME NEW t \in Trees, outcome'[t] = "mirrored"
            PROVE  t \notin todo /\ \A f \in Held(Shown(t)) : dev[t][Landing(t, f)] = Shown(t)[f]
        BY <1>0, <1>11, <3>2, <3>3, <3>4 DEF Finish, MirroredRight, TypeOK
      <3>5. MirroredRight'
        BY <1>11, <3>3, <3>4 DEF Finish, devVars, MirroredRight, Shown, Landing
      <3> QED
        BY <3>3, <3>5 DEF MirrorInv, ListedRight, FoundKept, PushedRight, TakenOnce
    <2> QED
      BY <2>1, <2>2
  <1>12. CASE WriteFails
    <2>1. \A t \in Trees \ {tree} : dev'[t] = dev[t] /\ dirs'[t] = dirs[t]
      BY <1>12, CutOffHere DEF WriteFails
    <2> QED
      BY <1>0, <1>12, <2>1, FailedMirror DEF WriteFails
  <1>13. CASE End \/ Crash
    BY <1>13 DEF End, Crash, MirrorInv, ListedRight, FoundKept, PushedRight, TakenOnce, MirroredRight
  <1>14. ASSUME NEW t \in Trees, Edit(t) \/ View(t) PROVE MirrorInv'
    <2>1. pc' = "idle"
      BY <1>14 DEF Edit, View, Mishap, runVars
    <2> QED
      BY <2>1 DEF MirrorInv, ListedRight, FoundKept, PushedRight, TakenOnce, MirroredRight
  <1>15. CASE UNCHANGED vars
    <2>1. UNCHANGED <<libVars, devVars, treeVars, runVars>>
      BY <1>15 DEF vars
    <2>2. (Listed(tree))' = Listed(tree) /\ (Unlisted(tree))' = Unlisted(tree)
      BY <2>1 DEF treeVars, Listed, Unlisted, Shown
    <2>3. (ListedRight /\ FoundKept /\ TakenOnce)'
      BY <2>1, <2>2 DEF devVars, treeVars, runVars, MirrorInv, ListedRight, FoundKept, TakenOnce
    <2>4. PushedRight' /\ MirroredRight'
      BY <2>1 DEF devVars, treeVars, runVars, MirrorInv, PushedRight, MirroredRight, Landing, Shown
    <2> QED
      BY <2>3, <2>4 DEF MirrorInv
  <1> QED
    BY <1>1, <1>2, <1>3, <1>4, <1>5, <1>6, <1>7, <1>8, <1>9, <1>10, <1>11, <1>12, <1>13, <1>14, <1>15
    DEF Next, Run, Trouble

LEMMA MirrorInvariant ==
    ASSUME Faults \cap {"editing", "remount"} = {}
    PROVE  Spec => [](TypeOK /\ SpellingInv /\ MirrorInv)
  <1>1. Init => TypeOK /\ SpellingInv /\ MirrorInv
    BY InitType DEF Init, MirrorInv, ListedRight, FoundKept, PushedRight, TakenOnce, MirroredRight
  <1>2. TypeOK /\ SpellingInv /\ MirrorInv /\ [Next]_vars => (TypeOK /\ SpellingInv /\ MirrorInv)'
    BY NextType, NextMirror
  <1> QED
    BY <1>1, <1>2, PTL DEF Spec

\* As long as the library stays while a run is on, a run that says "Done" has put all that a mirrored
\* tree shows on the device whole, whatever was left half pushed there.
THEOREM DoneMirroredHolds ==
    ASSUME Faults \cap {"editing", "remount"} = {}
    PROVE  Spec => DoneMirrored
  <1>1. MirrorInv /\ [Next]_vars =>
          [Ends => \A t \in Trees : outcome[t] = "mirrored" =>
              \A f \in Held(Shown(t)) : dev[t][Landing(t, f)] = Shown(t)[f]]_vars
    BY DEF MirrorInv, MirroredRight, Ends
  <1> QED
    BY <1>1, MirrorInvariant, PTL DEF Spec, DoneMirrored

-------------------------------------------------------------------------------
(* Why the next run has nothing to do *)

\* The firmware keeps its files in a system's own directory.
PreservedOnTop == \A f \in Files : f[2] \in Preserved => f[1] = Root

Spared(t, f) == t \in Roms /\ f[2] \in Preserved

\* In a tree that is pruned, and all of it readable, nothing is left but what was listed.
StraysDoomed ==
    pc = "prune" /\ tree \in Pruned /\ unreadable = {} =>
        \A f \in Held(dev[tree]) : f \in Held(wanted) \cup doomed \/ Spared(tree, f)

NoStrays ==
    pc \in {"parents", "push"} /\ tree \in Pruned /\ unreadable = {} =>
        \A f \in Held(dev[tree]) : f \in Held(wanted) \/ Spared(tree, f)

\* Nor is any other directory, so that every push lands where it is meant to.
NoStrayDirs ==
    pc \in {"parents", "push"} /\ tree \in Pruned /\ unreadable = {} =>
        dirs[tree] \subseteq {Root} \cup DirsOf(Held(wanted))

\* What the next run will find in a tree that is mirrored.
LeftIdle ==
    pc # "idle" => \A t \in Pruned : outcome[t] = "mirrored" =>
        /\ \A f \in Held(Shown(t)) : dev[t][f] = Shown(t)[f]
        /\ \A f \in Held(dev[t]) : f \in Held(Shown(t)) \/ Spared(t, f)

IdleInv == StraysDoomed /\ NoStrays /\ NoStrayDirs /\ LeftIdle

\* The trees that are mirrored are left alone by whatever the run does elsewhere.
LEMMA IdleBusy ==
    ASSUME TypeOK, MirroredRight, LeftIdle, pc \notin {"idle", "next"}, UNCHANGED libVars,
           \A t \in Trees \ {tree} : dev'[t] = dev[t] /\ dirs'[t] = dirs[t],
           outcome' = outcome \/ outcome' = [outcome EXCEPT ![tree] = "failed"]
    PROVE  LeftIdle'
  <1>1. ASSUME NEW t \in Pruned, outcome'[t] = "mirrored"
        PROVE  outcome[t] = "mirrored" /\ dev'[t] = dev[t] /\ (Shown(t))' = Shown(t)
    <2>1. t \in Trees /\ outcome[t] = "mirrored"
      BY <1>1, TreesAssumption DEF TypeOK
    <2> QED
      BY <2>1, NotYetMirrored DEF libVars, Shown
  <1> QED
    BY <1>1 DEF LeftIdle, Spared

\* The loop is done with a tree that failed.
LEMMA FailedIdle ==
    ASSUME TypeOK, MirroredRight, LeftIdle, pc \notin {"idle", "next"}, Close("failed"), UNCHANGED libVars,
           \A t \in Trees \ {tree} : dev'[t] = dev[t] /\ dirs'[t] = dirs[t]
    PROVE  IdleInv'
  <1>1. LeftIdle'
    BY IdleBusy DEF Close, Goto
  <1> QED
    BY <1>1 DEF Close, Goto, IdleInv, StraysDoomed, NoStrays, NoStrayDirs

\* In a tree without stray directories a push lands where it is meant to.
LEMMA LandsExactly ==
    ASSUME TypeOK, WantedSpelled, NoStrayDirs, pc \in {"parents", "push"}, tree \in Pruned, unreadable = {},
           NEW f \in Held(wanted), \E d \in dirs[tree] : Fold[d] = Fold[f[1]]
    PROVE  Landing(tree, f) = f
  <1>0. f \in Files /\ tree \in Trees /\ f[1] \in DirsOf(Held(wanted))
    BY DEF Held, TypeOK, DirsOf
  <1>1. PICK d \in dirs[tree] : Fold[d] = Fold[f[1]]
    OBVIOUS
  <1>2. CASE d = Root
    <2>1. f[1] \in Dirs /\ Fold[f[1]] = Fold[Root]
      BY <1>0, <1>1, <1>2, FileParts
    <2>2. f[1] = d
      BY <1>2, <2>1, PathsAssumption
    <2> QED
      BY <1>0, <1>1, <2>2, LandsOnItself
  <1>3. CASE d \in DirsOf(Held(wanted))
    <2>1. f[1] = d
      BY <1>0, <1>1, <1>3 DEF WantedSpelled, OneSpelling
    <2> QED
      BY <1>0, <1>1, <2>1, LandsOnItself
  <1> QED
    BY <1>1, <1>2, <1>3 DEF NoStrayDirs

LEMMA NextIdle ==
    /\ Faults \cap {"editing", "remount", "rmdir"} = {} /\ PreservedOnTop
    /\ TypeOK /\ TypeOK' /\ SpellingInv /\ MirrorInv /\ IdleInv /\ [Next]_vars
    => IdleInv'
  <1> SUFFICES ASSUME Faults \cap {"editing", "remount", "rmdir"} = {}, PreservedOnTop,
                      TypeOK, TypeOK', SpellingInv, MirrorInv, IdleInv, [Next]_vars
               PROVE  IdleInv'
    OBVIOUS
  <1> USE DEF Goto, libVars
  <1>0. tree \in Trees /\ MirroredRight /\ LeftIdle /\ Pruned \subseteq Trees
    BY TreesAssumption DEF TypeOK, MirrorInv, IdleInv
  <1>1. CASE Begin
    BY <1>0, <1>1 DEF Begin, IdleInv, StraysDoomed, NoStrays, NoStrayDirs, LeftIdle
  <1>2. ASSUME NEW t \in Trees, Enter(t) PROVE IdleInv'
    <2>1. \A u \in Trees : outcome'[u] = "mirrored" => outcome[u] = "mirrored"
      BY <1>2 DEF Enter, TypeOK
    <2>2. LeftIdle'
      BY <1>0, <1>2, <2>1 DEF Enter, devVars, LeftIdle, Shown
    <2> QED
      BY <1>2, <2>2 DEF Enter, IdleInv, StraysDoomed, NoStrays, NoStrayDirs
  <1>3. CASE MakeRoot
    <2>1. LeftIdle'
      BY <1>0, <1>3, IdleBusy DEF MakeRoot, treeVars
    <2> QED
      BY <1>3, <2>1 DEF MakeRoot, IdleInv, StraysDoomed, NoStrays, NoStrayDirs
  <1>4. CASE ReadLibrary
    <2>1. LeftIdle'
      BY <1>0, <1>4, IdleBusy DEF ReadLibrary, devVars, Close
    <2> QED
      BY <1>4, <2>1 DEF ReadLibrary, Close, IdleInv, StraysDoomed, NoStrays, NoStrayDirs
  <1>5. CASE ReadDevice
    <2>1. CASE Refuses(tree)
      BY <1>0, <1>5, <2>1, FailedIdle DEF ReadDevice, devVars
    <2>2. CASE ~ Refuses(tree)
      <3>1. LeftIdle'
        BY <1>0, <1>5, <2>2, IdleBusy DEF ReadDevice, devVars
      <3>2. StraysDoomed'
        BY <1>5, <2>2 DEF ReadDevice, devVars, StraysDoomed, Doomed, Spared
      <3> QED
        BY <1>5, <2>2, <3>1, <3>2 DEF ReadDevice, IdleInv, NoStrays, NoStrayDirs
    <2> QED
      BY <2>1, <2>2
  <1>6. CASE ReadFails
    BY <1>0, <1>6, FailedIdle DEF ReadFails, devVars
  <1>7. CASE Remove
    <2>1. PICK f \in doomed : dev' = [dev EXCEPT ![tree][f] = Absent] /\ doomed' = doomed \ {f}
      BY <1>7 DEF Remove
    <2>2. LeftIdle'
      BY <1>0, <1>7, <2>1, IdleBusy DEF Remove, runVars, TypeOK
    <2>3. Held(dev'[tree]) = Held(dev[tree]) \ {f}
      BY <1>0, <2>1 DEF Held, TypeOK
    <2>4. StraysDoomed'
      BY <1>7, <2>1, <2>3 DEF Remove, runVars, IdleInv, StraysDoomed, Spared
    <2> QED
      BY <1>7, <2>2, <2>4 DEF Remove, runVars, IdleInv, NoStrays, NoStrayDirs
  <1>8. CASE RemoveEmpty
    <2>1. LeftIdle'
      BY <1>0, <1>8, IdleBusy DEF RemoveEmpty, TypeOK
    <2>2. NoStrays'
      BY <1>8 DEF RemoveEmpty, IdleInv, StraysDoomed, NoStrays, Spared
    <2>3. ASSUME tree \in Pruned, unreadable = {}
          PROVE  dirs'[tree] \subseteq {Root} \cup DirsOf(Held(wanted))
      <3>1. dirs'[tree] = Emptied(tree)
        BY <1>0, <1>8, <2>3 DEF RemoveEmpty, Mishap, TypeOK
      <3>2. ASSUME NEW f \in Held(dev[tree]) PROVE f[1] = Root \/ f \in Held(wanted)
        <4>1. f \in Files /\ (f \in Held(wanted) \/ f[2] \in Preserved)
          BY <1>8, <2>3 DEF RemoveEmpty, IdleInv, StraysDoomed, Spared, Held
        <4> QED
          BY <4>1 DEF PreservedOnTop
      <3> QED
        BY <3>1, <3>2 DEF Emptied, DirsOf
    <2>4. NoStrayDirs'
      BY <1>8, <2>3 DEF RemoveEmpty, NoStrayDirs
    <2> QED
      BY <1>8, <2>1, <2>2, <2>4 DEF RemoveEmpty, IdleInv, StraysDoomed
  <1>9. CASE MakeParents
    <2>1. LeftIdle'
      BY <1>0, <1>9, IdleBusy DEF MakeParents, treeVars, TypeOK
    <2>2. DirsOf(need) \subseteq DirsOf(Held(wanted))
      BY DEF SpellingInv, NeedListed, DirsOf
    <2>3. dirs'[tree] \subseteq dirs[tree] \cup DirsOf(need)
      BY <1>0, <1>9 DEF MakeParents, WithParents, TypeOK
    <2>4. NoStrayDirs'
      BY <1>9, <2>2, <2>3 DEF MakeParents, treeVars, IdleInv, NoStrayDirs
    <2> QED
      BY <1>9, <2>1, <2>4 DEF MakeParents, treeVars, IdleInv, StraysDoomed, NoStrays, Spared
  <1>10. CASE Push
    <2>1. PICK f \in need :
            IF Listed(tree)[f] # Absent
            THEN /\ dev' = [dev EXCEPT ![tree][Landing(tree, f)] = Listed(tree)[f]]
                 /\ need' = need \ {f}
                 /\ UNCHANGED <<tree, wanted, unreadable, have, doomed, pc, outcome, said>>
            ELSE Close("failed") /\ UNCHANGED dev
      BY <1>10 DEF Push
    <2>2. CASE Listed(tree)[f] # Absent
      <3>1. LeftIdle'
        BY <1>0, <1>10, <2>1, <2>2, IdleBusy DEF Push, TypeOK
      <3>2. ASSUME tree \in Pruned, unreadable = {}
            PROVE  Held(dev'[tree]) \subseteq Held(dev[tree]) \cup Held(wanted)
        <4>1. f \in Held(wanted) /\ \E d \in dirs[tree] : Fold[d] = Fold[f[1]]
          BY <1>10 DEF Push, SpellingInv, NeedListed, Homed
        <4>2. Landing(tree, f) = f
          BY <1>10, <3>2, <4>1, LandsExactly DEF Push, SpellingInv, IdleInv
        <4> QED
          BY <1>0, <2>1, <2>2, <4>1, <4>2 DEF Held, TypeOK
      <3>3. NoStrays'
        BY <1>10, <2>1, <2>2, <3>2 DEF Push, IdleInv, NoStrays, Spared
      <3> QED
        BY <1>10, <2>1, <2>2, <3>1, <3>3 DEF Push, IdleInv, StraysDoomed, NoStrayDirs
    <2>3. CASE Listed(tree)[f] = Absent
      BY <1>0, <1>10, <2>1, <2>3, FailedIdle DEF Push
    <2> QED
      BY <2>2, <2>3
  <1>11. CASE Finish
    <2>1. CASE unreadable # {}
      BY <1>0, <1>11, <2>1, FailedIdle DEF Finish, devVars
    <2>2. CASE unreadable = {}
      <3>1. wanted = Shown(tree)
        BY <1>0, <1>11, <2>2, ListedAll DEF Finish, MirrorInv, ListedRight
      <3>2. ASSUME tree \in Pruned, NEW f \in Held(Shown(tree)) PROVE dev[tree][f] = Shown(tree)[f]
        <4>1. f \in Files /\ f \in Held(wanted) /\ wanted[f] # Absent
          BY <3>1, <3>2 DEF Held
        <4>2. dev[tree][Landing(tree, f)] = wanted[f]
          BY <1>11, <4>1 DEF Finish, MirrorInv, PushedRight
        <4>3. \E d \in dirs[tree] : Fold[d] = Fold[f[1]]
          BY <1>0, <4>1, <4>2, LandedHome
        <4>4. Landing(tree, f) = f
          BY <1>11, <2>2, <3>2, <4>1, <4>3, LandsExactly DEF Finish, SpellingInv, IdleInv
        <4> QED
          BY <3>1, <4>2, <4>4
      <3>3. tree \in Pruned => \A f \in Held(dev[tree]) : f \in Held(Shown(tree)) \/ Spared(tree, f)
        BY <1>11, <2>2, <3>1 DEF Finish, IdleInv, NoStrays
      <3>4. outcome' = [outcome EXCEPT ![tree] = "mirrored"] /\ pc' = "next"
        BY <1>11, <2>2 DEF Finish, Close
      <3>5. ASSUME NEW t \in Pruned, outcome'[t] = "mirrored"
            PROVE  /\ \A f \in Held(Shown(t)) : dev[t][f] = Shown(t)[f]
                   /\ \A f \in Held(dev[t]) : f \in Held(Shown(t)) \/ Spared(t, f)
        <4>1. CASE t = tree
          BY <3>2, <3>3, <4>1
        <4>2. CASE t # tree
          <5>1. outcome[t] = "mirrored"
            BY <1>0, <3>4, <3>5, <4>2 DEF TypeOK
          <5> QED
            BY <1>0, <1>11, <5>1 DEF Finish, LeftIdle
        <4> QED
          BY <4>1, <4>2
      <3>6. LeftIdle'
        BY <1>11, <3>5 DEF Finish, devVars, LeftIdle, Shown
      <3> QED
        BY <3>4, <3>6 DEF IdleInv, StraysDoomed, NoStrays, NoStrayDirs
    <2> QED
      BY <2>1, <2>2
  <1>12. CASE WriteFails
    <2>1. \A t \in Trees \ {tree} : dev'[t] = dev[t] /\ dirs'[t] = dirs[t]
      BY <1>12, CutOffHere DEF WriteFails
    <2> QED
      BY <1>0, <1>12, <2>1, FailedIdle DEF WriteFails
  <1>13. CASE End \/ Crash
    BY <1>13 DEF End, Crash, IdleInv, StraysDoomed, NoStrays, NoStrayDirs, LeftIdle
  <1>14. ASSUME NEW t \in Trees, Edit(t) \/ View(t) PROVE IdleInv'
    <2>1. pc' = "idle"
      BY <1>14 DEF Edit, View, Mishap, runVars
    <2> QED
      BY <2>1 DEF IdleInv, StraysDoomed, NoStrays, NoStrayDirs, LeftIdle
  <1>15. CASE UNCHANGED vars
    BY <1>15 DEF vars, devVars, treeVars, runVars, IdleInv, StraysDoomed, NoStrays, NoStrayDirs, LeftIdle,
                 Shown, Spared
  <1> QED
    BY <1>1, <1>2, <1>3, <1>4, <1>5, <1>6, <1>7, <1>8, <1>9, <1>10, <1>11, <1>12, <1>13, <1>14, <1>15
    DEF Next, Run, Trouble

\* As long as the library stays while a run is on, the emptied directories can be removed and the
\* firmware keeps its files on top, a run that says "Done" leaves a pruned tree as the next one wants it.
THEOREM NextRunIdleHolds ==
    ASSUME Faults \cap {"editing", "remount", "rmdir"} = {}, PreservedOnTop
    PROVE  Spec => NextRunIdle
  <1>1. Init => IdleInv
    BY DEF Init, IdleInv, StraysDoomed, NoStrays, NoStrayDirs, LeftIdle
  <1>2. TypeOK /\ TypeOK' /\ SpellingInv /\ MirrorInv /\ IdleInv /\ [Next]_vars => IdleInv'
    BY NextIdle
  <1>3. IdleInv /\ [Next]_vars =>
          [Ends => \A t \in Pruned : outcome[t] = "mirrored" =>
              /\ \A f \in Held(Shown(t)) : dev[t][f] = Shown(t)[f]
              /\ \A f \in Held(dev[t]) : f \in Held(Shown(t)) \/ (t \in Roms /\ f[2] \in Preserved)]_vars
    BY DEF IdleInv, LeftIdle, Spared, Ends
  <1>4. Spec => [](TypeOK /\ SpellingInv /\ MirrorInv)
    BY MirrorInvariant
  <1> QED
    BY <1>1, <1>2, <1>3, <1>4, PTL DEF Spec, NextRunIdle
===============================================================================
