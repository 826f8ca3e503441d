---------------------------- MODULE BackupNasProofs ----------------------------
(* What holds of BackupNas for every number of weeks, every retention and every selection of      *)
(* faults.                                                                                         *)
EXTENDS BackupNas, FiniteSetTheorems, TLAPS

\* There is a weekly.0, whose snapshot there may be or not.
LEMMA ZeroSlot == 0 \in Slots /\ 1 \in Dates /\ Dates \subseteq Nat /\ None \notin Dates /\ Slots \subseteq Nat
  BY CountAssumption DEF Slots, Dates, None

-------------------------------------------------------------------------------
(* Type correctness *)

LEMMA InitType == Init => TypeOK
  <1> SUFFICES ASSUME Init PROVE TypeOK
    OBVIOUS
  <1>1. Gone \in [of : SUBSET Dates, there : BOOLEAN, whole : BOOLEAN]
    BY DEF Gone
  <1>2. copies \in [Dates -> [of : SUBSET Dates, there : BOOLEAN, whole : BOOLEAN]]
    BY <1>1 DEF Init
  <1>3. weekly \in [Slots -> Dates \cup {None}]
    BY ZeroSlot DEF Init
  <1> QED
    <2>1. mishaps \in 0 .. MaxMishaps
      BY CountAssumption DEF Init
    <2>2. slot \in Slots /\ newest \in Dates
      BY ZeroSlot DEF Init
    <2> QED
      BY <1>2, <1>3, <2>1, <2>2 DEF Init, TypeOK

LEMMA CutOffType == TypeOK /\ CutOff =>
    /\ copies' \in [Dates -> [of : SUBSET Dates, there : BOOLEAN, whole : BOOLEAN]]
    /\ device' \in {"locked", "unlocked", "mounted"}
  <1> SUFFICES ASSUME TypeOK, CutOff
               PROVE  /\ copies' \in [Dates -> [of : SUBSET Dates, there : BOOLEAN, whole : BOOLEAN]]
                      /\ device' \in {"locked", "unlocked", "mounted"}
    OBVIOUS
  <1> USE DEF TypeOK, Gone
  <1>1. CASE UNCHANGED <<copies, device>>
    BY <1>1
  <1>2. CASE UNCHANGED copies /\ device' \in {"unlocked", "mounted"}
    BY <1>2
  <1>3. ASSUME NEW d \in old, NEW left \in {Gone, [copies[d] EXCEPT !.whole = FALSE]},
               copies' = [copies EXCEPT ![d] = left], UNCHANGED device
        PROVE  /\ copies' \in [Dates -> [of : SUBSET Dates, there : BOOLEAN, whole : BOOLEAN]]
               /\ device' \in {"locked", "unlocked", "mounted"}
    <2>1. copies[d] \in [of : SUBSET Dates, there : BOOLEAN, whole : BOOLEAN]
      OBVIOUS
    <2>2. CASE left = Gone
      BY <1>3, <2>2
    <2>3. CASE left = [copies[d] EXCEPT !.whole = FALSE]
      BY <1>3, <2>1, <2>3
    <2> QED
      BY <2>2, <2>3
  <1> QED
    BY <1>1, <1>2, <1>3 DEF CutOff

LEMMA OverType == ASSUME NEW how \in {"nothing", "done", "failed"}, Over(how)
                  PROVE  /\ pc' = "idle" /\ said' = how /\ slot' \in Slots /\ date' = None /\ inode' = None
                         /\ old' = {} /\ cleanup' \in BOOLEAN
  BY ZeroSlot DEF Over, Goto

LEMMA NextType == TypeOK /\ NamedNewest /\ [Next]_vars => TypeOK'
  <1> SUFFICES ASSUME TypeOK, NamedNewest, [Next]_vars PROVE TypeOK'
    OBVIOUS
  <1> USE CountAssumption DEF TypeOK, Goto, Mishap, vars, runVars, None
  <1>1. CASE Begin
    BY <1>1 DEF Begin, Taken
  <1>2. CASE Mount
    BY <1>2 DEF Mount
  <1>3. CASE MakeDest
    BY <1>3 DEF MakeDest
  <1>4. CASE Mirror
    BY <1>4 DEF Mirror
  <1>5. CASE Enter
    BY <1>5 DEF Enter, Overwritten
  <1>6. CASE Vanished
    BY <1>6, OverType DEF Vanished
  <1>7. CASE Copy
    <2>1. inode \in Dates
      BY <1>7, ZeroSlot DEF Copy, NamedNewest
    <2>2. [of |-> {inode}, there |-> TRUE, whole |-> TRUE] \in [of : SUBSET Dates, there : BOOLEAN, whole : BOOLEAN]
      BY <2>1
    <2> QED
      BY <1>7, <2>2 DEF Copy
  <1>8. CASE ListOld
    BY <1>8 DEF ListOld, Old, There
  <1>9. CASE Delete
    BY <1>9 DEF Delete, Gone
  <1>10. CASE Deleted
    BY <1>10 DEF Deleted
  <1>11. CASE Unmount
    <2>1. cleanup' \in BOOLEAN
      BY <1>11 DEF Unmount
    <2> QED
      BY <1>11, <2>1 DEF Unmount
  <1>12. CASE Refuse
    BY <1>12, OverType DEF Refuse
  <1>13. CASE BeginOnly
    BY <1>13, ZeroSlot DEF BeginOnly
  <1>14. CASE Ended("fail", "failed")
    BY <1>14, OverType, CutOffType DEF Ended
  <1>15. CASE Ended("kill", "nothing")
    BY <1>15, OverType, CutOffType DEF Ended
  <1>16. CASE Lock
    BY <1>16 DEF Lock
  <1>17. CASE Shift
    BY <1>17 DEF Shift, Slots
  <1>18. CASE Promote
    BY <1>18 DEF Promote
  <1>19. CASE Unlock
    BY <1>19 DEF Unlock
  <1>20. CASE LockDevice
    <2>1. cleanup' \in BOOLEAN
      BY <1>20 DEF LockDevice
    <2> QED
      BY <1>20, <2>1 DEF LockDevice
  <1>21. CASE Exit
    <2>1. (IF cleanup THEN "failed" ELSE "done") \in {"nothing", "done", "failed"}
      OBVIOUS
    <2> QED
      BY <1>21, <2>1, OverType DEF Exit
  <1>22. CASE UNCHANGED vars
    BY <1>22
  <1> QED
    BY <1>1, <1>2, <1>3, <1>4, <1>5, <1>6, <1>7, <1>8, <1>9, <1>10, <1>11, <1>12, <1>13, <1>14, <1>15, <1>16,
       <1>17, <1>18, <1>19, <1>20, <1>21, <1>22 DEF Next, Run

-------------------------------------------------------------------------------
(* The inductive invariant *)

\* Nothing came to the copies: some may have gone, or be whole no longer.
Shrunk ==
  \A d \in Dates :
    /\ copies'[d].of \subseteq copies[d].of
    /\ copies'[d].there => copies[d].there
    /\ copies'[d].whole => copies'[d] = copies[d]

LEMMA CutOffShrinks == TypeOK /\ CutOff => Shrunk
  <1> SUFFICES ASSUME TypeOK, CutOff, NEW e \in Dates
               PROVE  /\ copies'[e].of \subseteq copies[e].of
                      /\ copies'[e].there => copies[e].there
                      /\ copies'[e].whole => copies'[e] = copies[e]
    BY DEF Shrunk
  <1>1. CASE UNCHANGED copies
    BY <1>1
  <1>2. ASSUME NEW d \in old, NEW left \in {Gone, [copies[d] EXCEPT !.whole = FALSE]},
               copies' = [copies EXCEPT ![d] = left]
        PROVE  /\ copies'[e].of \subseteq copies[e].of
               /\ copies'[e].there => copies[e].there
               /\ copies'[e].whole => copies'[e] = copies[e]
    <2>1. CASE d = e /\ left = Gone
      BY <1>2, <2>1 DEF Gone, TypeOK
    <2>2. CASE d = e /\ left = [copies[d] EXCEPT !.whole = FALSE]
      BY <1>2, <2>2 DEF TypeOK
    <2>3. CASE d # e
      BY <1>2, <2>3 DEF TypeOK
    <2> QED
      BY <2>1, <2>2, <2>3
  <1> QED
    BY <1>1, <1>2 DEF CutOff

\* A run that is over promises nothing, and what it leaves behind is less than there was.
LEMMA OverInv == ASSUME TypeOK, BackupInv, Shrunk, pc' = "idle", UNCHANGED <<weekly, newest>>
                 PROVE  BackupInv'
  <1>1. NoneYounger(newest)'
    BY DEF BackupInv, PathIsNewest, NoneYounger, Shrunk
  <1>2. OneSnapshot'
    BY DEF BackupInv, OneSnapshot, Whole, Shrunk
  <1> QED
    BY <1>1, <1>2 DEF BackupInv, NewestFirst, PathIsNewest, NamedNewest, KeptByNow

LEMMA InitInv == Init => BackupInv
  BY ZeroSlot DEF Init, BackupInv, NewestFirst, PathIsNewest, NoneYounger, NamedNewest, OneSnapshot, Whole,
     KeptByNow, Gone, None

\* What has younger ones to be kept beside it is not the youngest.
LEMMA NoneAboveTop ==
  ASSUME NEW top \in Dates, NEW d \in Dates, \A e \in There : e <= top,
         Cardinality({e \in There : e > d}) >= Retention
  PROVE  d < top
  <1>1. {e \in There : e > d} # {}
    BY FS_EmptySet, CountAssumption
  <1>2. PICK e \in There : e > d
    BY <1>1
  <1>3. e \in Nat /\ d \in Nat /\ top \in Nat /\ e <= top
    BY ZeroSlot DEF There
  <1> QED
    BY <1>2, <1>3

LEMMA NextInv == TypeOK /\ TypeOK' /\ BackupInv /\ [Next]_vars => BackupInv'
  <1> SUFFICES ASSUME TypeOK, TypeOK', BackupInv, [Next]_vars PROVE BackupInv'
    OBVIOUS
  <1> USE ZeroSlot DEF Goto, vars, runVars
  <1>1. CASE Begin
    <2>1. slot' \in {0, 1} /\ (weekly[slot'] # None => weekly[slot'] = newest)
      <3>1. slot' \in Slots /\ weekly[slot'] # None /\ \A n \in Slots : weekly[n] # None => slot' <= n
        BY <1>1 DEF Begin, Taken
      <3>2. CASE weekly[0] # None
        <4>1. slot' = 0
          BY <3>1, <3>2 DEF Slots
        <4> QED
          BY <4>1 DEF BackupInv, NewestFirst
      <3>3. CASE weekly[0] = None
        <4>1. slot' # 0 /\ 1 \in Slots
          BY <3>1, <3>3, CountAssumption DEF Slots
        <4>2. weekly[1] = newest /\ weekly[1] # None
          BY <3>3, <4>1 DEF BackupInv, NewestFirst, TypeOK
        <4>3. slot' = 1
          BY <3>1, <4>1, <4>2 DEF Slots
        <4> QED
          BY <4>2, <4>3
      <3> QED
        BY <3>2, <3>3
    <2> QED
      BY <1>1, <2>1 DEF Begin, BackupInv, NewestFirst, PathIsNewest, NoneYounger, NamedNewest, OneSnapshot, Whole,
         KeptByNow
  <1>2. CASE Mount
    BY <1>2 DEF Mount, BackupInv, NewestFirst, PathIsNewest, NoneYounger, NamedNewest, OneSnapshot, Whole, KeptByNow
  <1>3. CASE MakeDest
    <2>1. date' = weekly[slot] /\ date' \in Dates /\ date' <= newest
      BY <1>3 DEF MakeDest, TypeOK, BackupInv, NewestFirst
    <2>2. \A d \in Dates : /\ copies'[d].of = copies[d].of
                           /\ copies'[d].whole = copies[d].whole
                           /\ copies'[d].there => copies[d].there \/ d = date'
      BY <1>3, <2>1 DEF MakeDest, TypeOK
    <2>3. NoneYounger(date)'
      BY <1>3, <2>1, <2>2 DEF MakeDest, BackupInv, PathIsNewest, NoneYounger
    <2>4. NoneYounger(newest)'
      BY <1>3, <2>1, <2>2 DEF MakeDest, BackupInv, PathIsNewest, NoneYounger, TypeOK
    <2>5. OneSnapshot'
      BY <2>2 DEF OneSnapshot, BackupInv, Whole
    <2> QED
      BY <1>3, <2>1, <2>3, <2>4, <2>5 DEF MakeDest, BackupInv, NewestFirst, PathIsNewest, NamedNewest, KeptByNow, TypeOK
  <1>4. CASE Mirror
    BY <1>4 DEF Mirror, BackupInv, NewestFirst, PathIsNewest, NoneYounger, NamedNewest, OneSnapshot, Whole, KeptByNow
  <1>5. CASE Enter
    <2> DEFINE s == weekly[slot]
    <2>1. s \in Dates /\ date \in Dates /\ date <= s /\ s <= newest /\ inode' = s
      BY <1>5 DEF Enter, TypeOK, BackupInv, NamedNewest, NewestFirst
    <2>2. \A d \in Dates : /\ copies'[d].of \subseteq copies[d].of \cup {s}
                           /\ copies'[d].there = copies[d].there
                           /\ copies'[d].whole => copies'[d] = copies[d]
      BY <1>5, <2>1 DEF Enter, TypeOK, Overwritten
    <2>3. NoneYounger(newest)'
      <3>1. newest' = newest
        BY <1>5 DEF Enter
      <3> QED
        BY <2>1, <2>2, <3>1 DEF BackupInv, PathIsNewest, NoneYounger
    <2>4. OneSnapshot'
      BY <2>2 DEF OneSnapshot, BackupInv, Whole
    <2>5. \A d \in Dates : copies'[d].there => d <= date'
      BY <1>5, <2>2 DEF Enter, BackupInv, NamedNewest, NoneYounger
    <2> QED
      BY <1>5, <2>1, <2>3, <2>4, <2>5 DEF Enter, BackupInv, NewestFirst, PathIsNewest, NamedNewest, KeptByNow
  <1>6. CASE Vanished
    BY <1>6, OverInv DEF Vanished, Over, Shrunk
  <1>7. CASE Copy
    <2>1. inode \in Dates /\ date \in Dates /\ date <= inode /\ inode <= newest
      BY <1>7 DEF Copy, TypeOK, BackupInv, NamedNewest
    <2>2. \A d \in Dates : d # date => copies'[d] = copies[d]
      BY <1>7 DEF Copy, TypeOK
    <2>3. copies'[date].of = {inode} /\ copies'[date].there /\ copies'[date].whole
      BY <1>7, <2>1 DEF Copy, TypeOK
    <2>4. NoneYounger(newest)'
      BY <1>7, <2>1, <2>2, <2>3 DEF Copy, BackupInv, PathIsNewest, NoneYounger, TypeOK
    <2>5. OneSnapshot'
      BY <2>1, <2>2, <2>3 DEF OneSnapshot, BackupInv, Whole
    <2>6. \A d \in Dates : copies'[d].there => d <= date
      BY <1>7, <2>1, <2>2 DEF Copy, BackupInv, NamedNewest
    <2> QED
      BY <1>7, <2>1, <2>3, <2>4, <2>5, <2>6 DEF Copy, BackupInv, NewestFirst, PathIsNewest, NamedNewest, KeptByNow
  <1>8. CASE ListOld
    <2>1. KeptByNow'
      BY <1>8 DEF ListOld, Old, There, BackupInv, KeptByNow
    <2> QED
      BY <1>8, <2>1 DEF ListOld, BackupInv, NewestFirst, PathIsNewest, NoneYounger, NamedNewest, OneSnapshot, Whole
  <1>9. CASE Delete
    <2>1. PICK d \in old : /\ \A e \in old : d <= e
                           /\ copies' = [copies EXCEPT ![d] = Gone]
                           /\ old' = old \ {d}
      BY <1>9 DEF Delete
    <2>2. Shrunk
      BY <2>1 DEF Shrunk, TypeOK, Gone
    <2>3. NoneYounger(newest)'
      BY <1>9, <2>2 DEF Delete, BackupInv, PathIsNewest, NoneYounger, Shrunk
    <2>4. OneSnapshot'
      BY <2>2 DEF BackupInv, OneSnapshot, Whole, Shrunk
    <2>5. d < date
      <3>1. date \in Dates /\ d \in Dates
        BY <1>9, <2>1 DEF Delete, BackupInv, KeptByNow, TypeOK
      <3>2. \A e \in There : e <= date
        BY <1>9 DEF Delete, BackupInv, NamedNewest, There
      <3>3. Cardinality({e \in There : e > d}) >= Retention
        BY <1>9, <2>1 DEF Delete, BackupInv, KeptByNow
      <3> QED
        BY <3>1, <3>2, <3>3, NoneAboveTop
    <2>6. copies'[date] = copies[date]
      BY <2>1, <2>5 DEF TypeOK
    <2>7. ASSUME NEW e \in old' PROVE Cardinality({x \in There' : x > e}) >= Retention
      <3>1. {x \in There' : x > e} = {x \in There : x > e}
        BY <2>1, <2>7 DEF There, TypeOK, Gone
      <3> QED
        BY <1>9, <2>1, <2>7, <3>1 DEF Delete, BackupInv, KeptByNow
    <2>8. NewestFirst' /\ PathIsNewest' /\ NamedNewest'
      BY <1>9, <2>2, <2>3 DEF Delete, BackupInv, NewestFirst, PathIsNewest, NamedNewest, Shrunk
    <2>9. KeptByNow'
      BY <1>9, <2>6, <2>7 DEF Delete, BackupInv, KeptByNow
    <2> QED
      BY <2>4, <2>8, <2>9 DEF BackupInv
  <1>10. CASE Deleted
    BY <1>10 DEF Deleted, BackupInv, NewestFirst, PathIsNewest, NoneYounger, NamedNewest, OneSnapshot, Whole, KeptByNow
  <1>11. CASE Unmount
    BY <1>11 DEF Unmount, BackupInv, NewestFirst, PathIsNewest, NoneYounger, NamedNewest, OneSnapshot, Whole, KeptByNow
  <1>12. CASE Refuse
    BY <1>12, OverInv DEF Refuse, Over, Shrunk
  <1>13. CASE BeginOnly
    BY <1>13 DEF BeginOnly, BackupInv, NewestFirst, PathIsNewest, NoneYounger, NamedNewest, OneSnapshot, Whole, KeptByNow
  <1>14. CASE Ended("fail", "failed")
    BY <1>14, OverInv, CutOffShrinks DEF Ended, Over
  <1>15. CASE Ended("kill", "nothing")
    BY <1>15, OverInv, CutOffShrinks DEF Ended, Over
  <1>16. CASE Lock
    BY <1>16 DEF Lock, BackupInv, NewestFirst, PathIsNewest, NoneYounger, NamedNewest, OneSnapshot, Whole, KeptByNow,
       There
  <1>17. CASE Shift
    <2>1. weekly[0] = newest /\ newest # None
      BY <1>17 DEF Shift, BackupInv, NewestFirst
    <2>2. weekly'[0] = None /\ (1 \in Slots => weekly'[1] = newest) /\ newest' = newest
      BY <1>17, <2>1 DEF Shift
    <2>3. ASSUME NEW n \in Slots PROVE weekly'[n] <= newest
      <3>1. n # 0 => n - 1 \in Slots /\ weekly'[n] = weekly[n - 1]
        <4>1. n # 0 => n - 1 \in Slots
          BY CountAssumption DEF Slots
        <4> QED
          BY <1>17, <4>1 DEF Shift
      <3> QED
        BY <2>2, <3>1 DEF BackupInv, NewestFirst, TypeOK, None, Dates
    <2>4. pc # "idle" /\ weekly'[slot] # None => weekly'[slot] = newest
      BY <2>2 DEF BackupInv, PathIsNewest, TypeOK
    <2>5. NewestFirst'
      BY <2>2, <2>3 DEF NewestFirst
    <2>6. PathIsNewest'
      BY <1>17, <2>4 DEF Shift, BackupInv, PathIsNewest, NoneYounger
    <2>7. NamedNewest'
      BY <1>17, <2>4 DEF Shift, BackupInv, NamedNewest, NoneYounger
    <2> QED
      BY <1>17, <2>5, <2>6, <2>7 DEF Shift, BackupInv, OneSnapshot, Whole, KeptByNow, There
  <1>18. CASE Promote
    <2>1. newest < newest' /\ newest' \in Dates /\ weekly'[0] = newest'
      BY <1>18 DEF Promote, TypeOK
    <2>2. \A n \in Slots : n # 0 => weekly'[n] = weekly[n]
      BY <1>18 DEF Promote, TypeOK
    <2>3. NewestFirst'
      <3>1. ASSUME NEW n \in Slots PROVE weekly'[n] <= newest'
        <4>1. weekly[n] \in Nat /\ newest \in Nat /\ newest' \in Nat /\ weekly[n] <= newest
          BY <2>1 DEF BackupInv, NewestFirst, TypeOK, None
        <4> QED
          BY <2>1, <2>2, <4>1
      <3> QED
        BY <2>1, <3>1 DEF NewestFirst
    <2>4. \A s \in Dates : newest <= s /\ NoneYounger(newest) => NoneYounger(s)
      BY DEF NoneYounger, TypeOK
    <2>5. NoneYounger(newest)'
      BY <1>18, <2>1, <2>4 DEF Promote, NoneYounger, BackupInv, PathIsNewest, TypeOK
    <2>6. PathIsNewest'
      BY <1>18, <2>1, <2>2, <2>5 DEF Promote, NoneYounger, BackupInv, PathIsNewest, TypeOK
    <2>7. NamedNewest'
      BY <1>18, <2>1, <2>2 DEF Promote, NoneYounger, BackupInv, NamedNewest, TypeOK
    <2> QED
      BY <1>18, <2>3, <2>6, <2>7 DEF Promote, BackupInv, OneSnapshot, Whole, KeptByNow, There
  <1>19. CASE Unlock
    BY <1>19 DEF Unlock, BackupInv, NewestFirst, PathIsNewest, NoneYounger, NamedNewest, OneSnapshot, Whole, KeptByNow,
       There
  <1>20. CASE LockDevice
    BY <1>20 DEF LockDevice, BackupInv, NewestFirst, PathIsNewest, NoneYounger, NamedNewest, OneSnapshot, Whole, KeptByNow
  <1>21. CASE Exit
    BY <1>21, OverInv DEF Exit, Over, Shrunk
  <1>22. CASE UNCHANGED vars
    BY <1>22 DEF BackupInv, NewestFirst, PathIsNewest, NoneYounger, NamedNewest, OneSnapshot, Whole, KeptByNow, There
  <1> QED
    BY <1>1, <1>2, <1>3, <1>4, <1>5, <1>6, <1>7, <1>8, <1>9, <1>10, <1>11, <1>12, <1>13, <1>14, <1>15, <1>16,
       <1>17, <1>18, <1>19, <1>20, <1>21, <1>22 DEF Next, Run

LEMMA BackupInvariant == Spec => [](TypeOK /\ BackupInv)
  <1>1. Init => TypeOK /\ BackupInv
    BY InitType, InitInv
  <1>2. TypeOK /\ BackupInv /\ [Next]_vars => (TypeOK /\ BackupInv)'
    <2>1. BackupInv => NamedNewest
      BY DEF BackupInv
    <2> QED
      BY <2>1, NextType, NextInv
  <1> QED
    BY <1>1, <1>2, PTL DEF Spec

\* Every variable stays in its type, run after run; that a run that copies is inside a snapshot
\* is part of what makes it so.
THEOREM TypeCorrect == Spec => []TypeOK
  BY BackupInvariant, PTL

\* A whole dated copy is of one snapshot, of its date or a younger one, however rsnapshot rotates
\* between the steps of a run.
THEOREM OneSnapshotHolds == Spec => []OneSnapshot
  <1>1. BackupInv => OneSnapshot
    BY DEF BackupInv
  <1> QED
    BY <1>1, BackupInvariant, PTL

-------------------------------------------------------------------------------
(* What makes a copy whole no longer *)

\* A run enters a snapshot over a whole copy only if that is not of the snapshot: a whole copy under
\* the name it has is of the date it has, the youngest any copy has.
LEMMA EnteredAnother ==
    ASSUME TypeOK, BackupInv, Enter, NEW d \in Whole, d \notin Whole'
    PROVE  inode' \notin {None, date}
  <1> DEFINE s == weekly[slot]
  <1>1. s \in Dates /\ inode' = s
    BY DEF Enter, TypeOK
  <1>2. d = date
    BY DEF Enter, Whole, TypeOK
  <1>3. s # date
    <2> SUFFICES ASSUME s = date PROVE FALSE
      OBVIOUS
    <2>1. PICK t \in Dates : copies[d].of = {t} /\ t >= d
      BY DEF BackupInv, OneSnapshot
    <2>2. t <= date
      BY <1>2, <2>1 DEF Enter, BackupInv, NamedNewest, NoneYounger, Whole
    <2>3. t = s
      <3>1. t \in Nat /\ date \in Nat /\ t >= date /\ t <= date
        BY <1>1, <1>2, <2>1, <2>2, ZeroSlot
      <3> QED
        BY <3>1
    <2> QED
      BY <1>2, <2>1, <2>3 DEF Enter, Overwritten, Whole, TypeOK
  <1> QED
    BY <1>1, <1>3, ZeroSlot

\* The oldest of those that are to go has Retention younger ones beside it, the run's own among them.
LEMMA DeletedOldest ==
    ASSUME TypeOK, BackupInv, pc = "delete", NEW d \in old, \A e \in old : d <= e,
           NEW left, copies' = [copies EXCEPT ![d] = left], left.there \in BOOLEAN
    PROVE  /\ Cardinality({e \in There' : e > d}) >= Retention
           /\ \E e \in Whole' : e > d
  <1>1. date \in Dates /\ d \in Dates /\ date \in Whole
    BY DEF BackupInv, KeptByNow, TypeOK, Whole
  <1>2. Cardinality({e \in There : e > d}) >= Retention
    BY DEF BackupInv, KeptByNow
  <1>3. d < date
    <2>1. \A e \in There : e <= date
      BY DEF BackupInv, NamedNewest, There
    <2> QED
      BY <1>1, <1>2, <2>1, NoneAboveTop
  <1>4. \A e \in Dates : e # d => copies'[e] = copies[e]
    BY DEF TypeOK
  <1>5. {e \in There' : e > d} = {e \in There : e > d}
    BY <1>1, <1>4, ZeroSlot DEF There
  <1> QED
    BY <1>1, <1>2, <1>3, <1>4, <1>5, ZeroSlot DEF Whole

\* "A failed run never leaves fewer backups than it found": a copy stops being whole only when there
\* are as many younger ones as are to be kept, one of them whole, but for one whose name a rotation
\* has given to another snapshot.
THEOREM KeptUntilCopiedHolds == Spec => KeptUntilCopied
  <1>1. TypeOK /\ BackupInv /\ [Next]_vars =>
          \A d \in Whole \ Whole' :
             \/ /\ Cardinality({e \in There' : e > d}) >= Retention
                /\ \E e \in Whole' : e > d
             \/ pc = "enter" /\ inode' \notin {None, date}
    <2> SUFFICES ASSUME TypeOK, BackupInv, [Next]_vars, NEW d \in Whole, d \notin Whole'
                 PROVE  \/ /\ Cardinality({e \in There' : e > d}) >= Retention
                           /\ \E e \in Whole' : e > d
                        \/ pc = "enter" /\ inode' \notin {None, date}
      OBVIOUS
    <2>1. CASE Enter
      BY <2>1, EnteredAnother DEF Enter
    <2>2. CASE Delete
      <3>1. PICK e \in old : /\ \A x \in old : e <= x
                             /\ copies' = [copies EXCEPT ![e] = Gone]
        BY <2>2 DEF Delete
      <3>2. e = d
        BY <3>1 DEF Whole, TypeOK
      <3> QED
        BY <2>2, <3>1, <3>2, DeletedOldest DEF Delete, Gone
    <2>3. ASSUME NEW kind, NEW how, Ended(kind, how)
          PROVE  /\ Cardinality({e \in There' : e > d}) >= Retention
                 /\ \E e \in Whole' : e > d
      <3>1. pc = "delete"
        <4>1. copies' = copies => d \in Whole'
          BY DEF Whole
        <4> QED
          BY <2>3, <4>1 DEF Ended, CutOff
      <3>2. PICK e \in old :
                   /\ \A x \in old : e <= x
                   /\ \E left \in {Gone, [copies[e] EXCEPT !.whole = FALSE]} : copies' = [copies EXCEPT ![e] = left]
        <4>1. copies' # copies
          BY DEF Whole
        <4> QED
          BY <2>3, <3>1, <4>1 DEF Ended, CutOff
      <3>3. PICK left \in {Gone, [copies[e] EXCEPT !.whole = FALSE]} : copies' = [copies EXCEPT ![e] = left]
        BY <3>2
      <3>4. e = d
        BY <3>3 DEF Whole, TypeOK
      <3>5. left.there \in BOOLEAN
        <4>1. e \in Dates /\ copies[e] \in [of : SUBSET Dates, there : BOOLEAN, whole : BOOLEAN]
          BY DEF TypeOK
        <4>2. CASE left = Gone
          BY <4>2 DEF Gone
        <4>3. CASE left = [copies[e] EXCEPT !.whole = FALSE]
          BY <4>1, <4>3
        <4> QED
          BY <4>2, <4>3
      <3> QED
        BY <3>1, <3>2, <3>3, <3>4, <3>5, DeletedOldest
    <2>4. CASE MakeDest \/ Copy
      BY <2>4 DEF MakeDest, Copy, Whole, TypeOK
    <2>5. CASE UNCHANGED copies
      BY <2>5 DEF Whole
    <2> QED
      BY <2>1, <2>2, <2>3, <2>4, <2>5 DEF Next, Run, Begin, Mount, Mirror, Vanished, ListOld, Deleted, Unmount,
         Refuse, BeginOnly, LockDevice, Exit, Lock, Shift, Promote, Unlock, vars
  <1> QED
    BY <1>1, BackupInvariant, PTL DEF Spec, KeptUntilCopied

-------------------------------------------------------------------------------
(* The device *)

LEMMA NextOpen == TypeOK /\ OpenKnown /\ DoneAsAsked /\ [Next]_vars => OpenKnown' /\ DoneAsAsked'
  <1> SUFFICES ASSUME TypeOK, OpenKnown, DoneAsAsked, [Next]_vars PROVE OpenKnown' /\ DoneAsAsked'
    OBVIOUS
  <1> USE DEF OpenKnown, DoneAsAsked, Goto, Over, vars, runVars
  <1>1. CASE Begin \/ BeginOnly
    BY <1>1 DEF Begin, BeginOnly
  <1>2. CASE Refuse \/ Vanished
    BY <1>2 DEF Refuse, Vanished
  <1>3. CASE Mount
    BY <1>3 DEF Mount, TypeOK
  <1>4. CASE MakeDest \/ Mirror \/ Enter \/ Copy \/ ListOld \/ Delete
    BY <1>4 DEF MakeDest, Mirror, Enter, Copy, ListOld, Delete
  <1>5. CASE Deleted
    BY <1>5 DEF Deleted
  <1>6. CASE Unmount
    BY <1>6 DEF Unmount
  <1>7. CASE LockDevice
    BY <1>7 DEF LockDevice
  <1>8. CASE Exit
    BY <1>8 DEF Exit
  <1>9. CASE Ended("fail", "failed") \/ Ended("kill", "nothing")
    BY <1>9 DEF Ended
  <1>10. CASE Lock \/ Shift \/ Promote \/ Unlock
    BY <1>10 DEF Lock, Shift, Promote, Unlock
  <1>11. CASE UNCHANGED vars
    BY <1>11
  <1> QED
    BY <1>1, <1>2, <1>3, <1>4, <1>5, <1>6, <1>7, <1>8, <1>9, <1>10, <1>11 DEF Next, Run

\* A run that ended as a success has left the device as it was asked to: locked, or mounted when that
\* was what it was asked, whatever could not be unmounted or locked in it or before it.
THEOREM DoneAsAskedHolds == Spec => []DoneAsAsked
  <1>1. Init => OpenKnown /\ DoneAsAsked
    BY DEF Init, OpenKnown, DoneAsAsked
  <1>2. TypeOK /\ OpenKnown /\ DoneAsAsked /\ [Next]_vars => OpenKnown' /\ DoneAsAsked'
    BY NextOpen
  <1> QED
    BY <1>1, <1>2, TypeCorrect, PTL DEF Spec
===============================================================================
