------------------------------- MODULE BackupNas -------------------------------
(***************************************************************************)
(* backupnas: the newest weekly snapshot of rsnapshot is copied to a       *)
(* directory of the backup device named for the snapshot's date, after     *)
(* hours of mirroring everything else, and the oldest dated directories    *)
(* are deleted.  rsnapshot renames its snapshots meanwhile: the lock file  *)
(* is looked at once.  A run may fail or be killed at any step, or only    *)
(* open the device or only close it.                                       *)
(* A snapshot is known by its date, and no two have the same.              *)
(***************************************************************************)
EXTENDS Naturals, FiniteSets

CONSTANTS
    Weeks,      \* weekly snapshots rsnapshot keeps
    Retention,  \* dated copies to keep, RETENTION_NUMBER
    LastDate,   \* no snapshot is younger
    Faults,     \* what may go wrong, see FaultKinds
    MaxMishaps  \* how often, all runs together

FaultKinds ==
    {"fail",   \* a command fails, having done a part of its work
     "kill",   \* the run is killed
     "busy",   \* the device cannot be unmounted, or not locked
     "only"}   \* no fault: a run is asked to open the device or to close it, and no more

ASSUME CountAssumption ==
    /\ Weeks \in Nat \ {0} /\ Retention \in Nat \ {0}
    /\ LastDate \in Nat \ {0} /\ MaxMishaps \in Nat

Dates == 1 .. LastDate
Slots == 0 .. Weeks - 1
None == 0   \* no snapshot

VARIABLES
    weekly,   \* the snapshot named weekly.N, for each N
    newest,   \* the youngest there has been
    rotating, \* rsnapshot has its lock file
    copies,   \* the dated directories: the snapshots each has something of, and whether it is whole
    device,   \* locked, unlocked or mounted
    pc,       \* where the run is
    slot,     \* the N of the path it copies from
    date,     \* the date it has named its directory for
    inode,    \* the snapshot it reads
    old,      \* the directories it has yet to delete
    mode,     \* what the run, or the last one, was asked: to back up, --no-unmount (stay), --mount-only, --unmount-only
    cleanup,  \* CLEANUP_FAILED
    said,     \* how the last run ended
    mishaps

runVars == <<pc, slot, date, inode, old, mode, cleanup, said>>
vars == <<weekly, newest, rotating, copies, device, runVars, mishaps>>

TypeOK ==
    /\ weekly \in [Slots -> Dates \cup {None}] /\ newest \in Dates /\ rotating \in BOOLEAN
    /\ copies \in [Dates -> [of : SUBSET Dates, there : BOOLEAN, whole : BOOLEAN]]
    /\ device \in {"locked", "unlocked", "mounted"}
    /\ pc \in {"idle", "mount", "dest", "mirror", "enter", "copy", "list", "delete", "unmount", "lock", "exit"}
    /\ slot \in Slots /\ date \in Dates \cup {None} /\ inode \in Dates \cup {None}
    /\ old \subseteq Dates
    /\ mode \in {"backup", "stay", "mount", "unmount"} /\ cleanup \in BOOLEAN
    /\ said \in {"nothing", "done", "failed"}
    /\ mishaps \in 0 .. MaxMishaps

Gone == [of |-> {}, there |-> FALSE, whole |-> FALSE]

Init ==
    /\ weekly = [n \in Slots |-> IF n = 0 THEN 1 ELSE None] /\ newest = 1 /\ rotating = FALSE
    /\ copies = [d \in Dates |-> Gone]
    /\ device = "locked"
    /\ pc = "idle" /\ slot = 0 /\ date = None /\ inode = None /\ old = {}
    /\ mode = "backup" /\ cleanup = FALSE
    /\ said = "nothing" /\ mishaps = 0

Goto(place) == pc' = place

Mishap(kind) ==
    /\ kind \in Faults
    /\ mishaps < MaxMishaps
    /\ mishaps' = mishaps + 1

There == {d \in Dates : copies[d].there}
Whole == {d \in Dates : copies[d].whole}
Taken == {n \in Slots : weekly[n] # None}

-------------------------------------------------------------------------------

Over(how) ==
    /\ Goto("idle")
    /\ said' = how
    /\ slot' = 0 /\ date' = None /\ inode' = None /\ old' = {} /\ cleanup' = FALSE

\* A backup needs a snapshot and no rotation, --unmount-only a device to close.
Refuse ==
    /\ pc = "idle"
    /\ \/ mode' \in {"backup", "stay"} /\ (rotating \/ Taken = {})
       \/ mode' = "unmount" /\ device = "locked"
    /\ Over("failed")
    /\ UNCHANGED <<weekly, newest, rotating, copies, device, mishaps>>

\* Mutant: the newest snapshot has a fixed number.
BeginFixed ==
    /\ pc = "idle" /\ ~rotating /\ Taken # {}
    /\ slot' = 0
    /\ mode' \in {"backup", "stay"}
    /\ said' = "nothing"
    /\ Goto("mount")
    /\ UNCHANGED <<weekly, newest, rotating, copies, device, date, inode, old, cleanup, mishaps>>

\* The lowest-numbered snapshot is the newest. The lock file is not looked at again.
Begin ==
    /\ pc = "idle" /\ ~rotating /\ Taken # {}
    /\ slot' \in Taken /\ \A n \in Taken : slot' <= n
    /\ mode' \in {"backup", "stay"}
    /\ said' = "nothing"
    /\ Goto("mount")
    /\ UNCHANGED <<weekly, newest, rotating, copies, device, date, inode, old, cleanup, mishaps>>

\* --mount-only and --unmount-only look at no snapshot.
BeginOnly ==
    /\ pc = "idle"
    /\ Mishap("only")
    /\ \/ mode' = "mount" /\ Goto("mount")
       \/ mode' = "unmount" /\ device # "locked" /\ Goto("unmount")
    /\ said' = "nothing" /\ slot' = 0
    /\ UNCHANGED <<weekly, newest, rotating, copies, device, date, inode, old, cleanup>>

\* mountDevice, for a device an earlier run left open as well
Mount ==
    /\ pc = "mount"
    /\ device' = "mounted"
    /\ Goto(IF mode = "mount" THEN "exit" ELSE "dest")
    /\ UNCHANGED <<weekly, newest, rotating, copies, slot, date, inode, old, mode, cleanup, said, mishaps>>

\* The directory is named and made before the hours of backup().
MakeDest ==
    /\ pc = "dest" /\ weekly[slot] # None
    /\ date' = weekly[slot]
    /\ copies' = [copies EXCEPT ![weekly[slot]].there = TRUE]
    /\ Goto("mirror")
    /\ UNCHANGED <<weekly, newest, rotating, device, slot, inode, old, mode, cleanup, said, mishaps>>

\* Mutant: the dated copies, which the source does not have, go with --delete.
MirrorAll ==
    /\ pc = "mirror"
    /\ copies' = [d \in Dates |-> Gone]
    /\ Goto("enter")
    /\ UNCHANGED <<weekly, newest, rotating, device, slot, date, inode, old, mode, cleanup, said, mishaps>>

\* backup: the filter protects the dated copies.
Mirror ==
    /\ pc = "mirror"
    /\ Goto("enter")
    /\ UNCHANGED <<weekly, newest, rotating, copies, device, slot, date, inode, old, mode, cleanup, said, mishaps>>

\* A directory that another snapshot is copied over is whole no longer; the same one changes nothing.
Overwritten(copy, s) ==
    IF copy.whole /\ copy.of = {s} THEN copy ELSE [copy EXCEPT !.of = @ \cup {s}, !.whole = FALSE]

\* Mutant: cd may fail unnoticed.
EnterAnything ==
    /\ pc = "enter"
    /\ inode' = weekly[slot]
    /\ copies' = [copies EXCEPT ![date] = Overwritten(@, weekly[slot])]
    /\ Goto("copy")
    /\ UNCHANGED <<weekly, newest, rotating, device, slot, date, old, mode, cleanup, said, mishaps>>

\* cd: from here on a rename does not matter.
Enter ==
    /\ pc = "enter" /\ weekly[slot] # None
    /\ inode' = weekly[slot]
    /\ copies' = [copies EXCEPT ![date] = Overwritten(@, weekly[slot])]
    /\ Goto("copy")
    /\ UNCHANGED <<weekly, newest, rotating, device, slot, date, old, mode, cleanup, said, mishaps>>

\* The snapshot's path names nothing any more.
Vanished ==
    /\ pc \in {"dest", "enter"} /\ weekly[slot] = None
    /\ Over("failed")
    /\ UNCHANGED <<weekly, newest, rotating, copies, device, mode, mishaps>>

\* Mutant: the snapshot is read by its path.
CopyByPath ==
    /\ pc = "copy"
    /\ copies' = [copies EXCEPT ![date] =
                     [of |-> {inode, weekly[slot]} \ {None}, there |-> TRUE, whole |-> TRUE]]
    /\ Goto("list")
    /\ UNCHANGED <<weekly, newest, rotating, device, slot, date, inode, old, mode, cleanup, said, mishaps>>

\* backupRsnapshot: with --delete nothing of another snapshot is left.
Copy ==
    /\ pc = "copy"
    /\ copies' = [copies EXCEPT ![date] = [of |-> {inode}, there |-> TRUE, whole |-> TRUE]]
    /\ Goto("list")
    /\ UNCHANGED <<weekly, newest, rotating, device, slot, date, inode, old, mode, cleanup, said, mishaps>>

\* All but the Retention newest by name, whole or not.
Old == {d \in There : Cardinality({e \in There : e > d}) >= Retention}

ListOld ==
    /\ pc = "list"
    /\ old' = Old
    /\ Goto("delete")
    /\ UNCHANGED <<weekly, newest, rotating, copies, device, slot, date, inode, mode, cleanup, said, mishaps>>

\* The oldest goes first.
Delete ==
    /\ pc = "delete"
    /\ \E d \in old :
          /\ \A e \in old : d <= e
          /\ copies' = [copies EXCEPT ![d] = Gone]
          /\ old' = old \ {d}
    /\ UNCHANGED <<weekly, newest, rotating, device, pc, slot, date, inode, mode, cleanup, said, mishaps>>

Deleted ==
    /\ pc = "delete" /\ old = {}
    /\ Goto(IF mode = "stay" THEN "exit" ELSE "unmount")
    /\ UNCHANGED <<weekly, newest, rotating, copies, device, slot, date, inode, old, mode, cleanup, said, mishaps>>

\* unmountDevice: every mount point it has is tried, and one that fails a second time.
Unmount ==
    /\ pc = "unmount"
    /\ \/ device' = "unlocked" /\ UNCHANGED <<cleanup, mishaps>>
       \/ device = "mounted" /\ cleanup' = TRUE /\ Mishap("busy") /\ UNCHANGED device
    /\ Goto("lock")
    /\ UNCHANGED <<weekly, newest, rotating, copies, slot, date, inode, old, mode, said>>

\* Mutant: that it could not be locked is a warning and no more.
LockDeviceWarned ==
    /\ pc = "lock"
    /\ \/ cleanup /\ UNCHANGED <<device, mishaps>>
       \/ ~cleanup /\ device' = "locked" /\ UNCHANGED mishaps
       \/ ~cleanup /\ Mishap("busy") /\ UNCHANGED device
    /\ Goto("exit")
    /\ UNCHANGED <<weekly, newest, rotating, copies, slot, date, inode, old, mode, cleanup, said>>

\* One that is still mounted is left alone.
LockDevice ==
    /\ pc = "lock"
    /\ \/ cleanup /\ UNCHANGED <<device, cleanup, mishaps>>
       \/ ~cleanup /\ device' = "locked" /\ UNCHANGED <<cleanup, mishaps>>
       \/ ~cleanup /\ cleanup' = TRUE /\ Mishap("busy") /\ UNCHANGED device
    /\ Goto("exit")
    /\ UNCHANGED <<weekly, newest, rotating, copies, slot, date, inode, old, mode, said>>

Exit ==
    /\ pc = "exit"
    /\ Over(IF cleanup THEN "failed" ELSE "done")
    /\ UNCHANGED <<weekly, newest, rotating, copies, device, mode, mishaps>>

-------------------------------------------------------------------------------

CutOff ==
    \/ UNCHANGED <<copies, device>>
    \/ pc = "mount" /\ device = "locked" /\ device' \in {"unlocked", "mounted"} /\ UNCHANGED copies
    \/ /\ pc = "delete"
       /\ \E d \in old : \E left \in {Gone, [copies[d] EXCEPT !.whole = FALSE]} :
             /\ \A e \in old : d <= e
             /\ copies' = [copies EXCEPT ![d] = left]
       /\ UNCHANGED device

Ended(kind, how) ==
    /\ pc # "idle"
    /\ Mishap(kind)
    /\ CutOff
    /\ Over(how)
    /\ UNCHANGED <<weekly, newest, rotating, mode>>

-------------------------------------------------------------------------------
(* rsnapshot: a rotation renames from the oldest on, and what the highest slot held goes. No run   *)
(* takes as many weeks as there are slots.                                                         *)

Lock ==
    /\ ~rotating
    /\ rotating' = TRUE
    /\ UNCHANGED <<weekly, newest, copies, device, runVars, mishaps>>

Shift ==
    /\ rotating /\ weekly[0] # None /\ newest < LastDate
    /\ inode = None \/ inode # weekly[Weeks - 1]
    /\ weekly' = [n \in Slots |-> IF n = 0 THEN None ELSE weekly[n - 1]]
    /\ UNCHANGED <<newest, rotating, copies, device, runVars, mishaps>>

\* The oldest daily snapshot becomes the newest weekly one, if there is one to take.
Promote ==
    /\ rotating /\ weekly[0] = None
    /\ newest' \in Dates /\ newest' > newest
    /\ weekly' = [weekly EXCEPT ![0] = newest']
    /\ UNCHANGED <<rotating, copies, device, runVars, mishaps>>

Unlock ==
    /\ rotating
    /\ rotating' = FALSE
    /\ UNCHANGED <<weekly, newest, copies, device, runVars, mishaps>>

Run ==
    \/ Mount \/ MakeDest \/ Mirror \/ Enter \/ Vanished \/ Copy
    \/ ListOld \/ Delete \/ Deleted \/ Unmount \/ LockDevice \/ Exit

Next ==
    \/ Begin \/ BeginOnly \/ Refuse \/ Run
    \/ Ended("fail", "failed") \/ Ended("kill", "nothing")
    \/ Lock \/ Shift \/ Promote \/ Unlock

Spec == Init /\ [][Next]_vars

\* A run goes on until it ends, the operator runs it again, and a rotation ends.
FairSpec == Spec /\ WF_vars(Run) /\ SF_vars(Begin) /\ WF_vars(Unlock)

-------------------------------------------------------------------------------

\* "A rotation renaming it mid-copy would otherwise switch the rest of the copy": a whole dated copy
\* is of one snapshot, of that date or of a younger one that had taken its name before it was read.
OneSnapshot ==
    \A d \in Whole : \E s \in Dates : copies[d].of = {s} /\ s >= d

\* "A failed run never leaves fewer backups than it found": a copy stops being whole only when there
\* are as many younger ones as are to be kept, one of them whole, unless a rotation has put another
\* snapshot under the path since the directory was named, and the run enters that.
KeptUntilCopied ==
    [][\A d \in Whole \ Whole' :
          \/ /\ Cardinality({e \in There' : e > d}) >= Retention
             /\ \E e \in Whole' : e > d
          \/ pc = "enter" /\ inode' \notin {None, date}]_vars

\* The newest snapshot is copied in the end, however many runs fail or meet a rotation.
NewestCopied ==
    <>[](newest \in {weekly[n] : n \in Slots} => copies[newest].whole /\ copies[newest].of = {newest})

\* "Set when the device is left mounted or unlocked, so the script exits non-zero": a run that ended
\* as a success has left the device as it was asked to, whatever state earlier runs left it in and
\* wherever the unmounting or the locking failed, and it is so until the next run opens it.
DoneAsAsked ==
    pc = "idle" /\ said = "done" => device = IF mode \in {"stay", "mount"} THEN "mounted" ELSE "locked"

-------------------------------------------------------------------------------
(* Why: what the steps preserve together *)

\* rsnapshot renames, it never brings an older snapshot to a younger one's place: the newest is
\* weekly.0, or weekly.1 while a rotation has yet to fill weekly.0.
NewestFirst ==
    /\ \A n \in Slots : weekly[n] <= newest
    /\ weekly[0] \in {None, newest}
    /\ weekly[0] = None /\ 1 \in Slots => weekly[1] = newest

\* No directory is named for, and none has anything of, a snapshot younger than s.
NoneYounger(s) == \A d \in Dates : (copies[d].there => d <= s) /\ (\A t \in copies[d].of : t <= s)

\* What the path of a run names is no older than any copy, before the run has made one of its own.
PathIsNewest ==
    /\ NoneYounger(newest)
    /\ pc # "idle" => slot \in {0, 1}
    /\ pc \in {"mount", "dest"} /\ weekly[slot] # None => NoneYounger(weekly[slot])

\* The directory of a run has the youngest name there is, and what its path has come to name is
\* no older than that.
NamedNewest ==
    /\ pc \in {"mirror", "enter"} =>
          /\ date # None /\ NoneYounger(date) /\ date <= newest
          /\ weekly[slot] # None => date <= weekly[slot]
    /\ pc = "copy" => date # None /\ date <= inode /\ inode <= newest
    /\ pc \in {"copy", "list", "delete"} =>
          \A d \in Dates : copies[d].there => d <= date

\* When it comes to delete, its own copy is whole, and what is to go has Retention younger ones.
KeptByNow ==
    /\ pc \in {"list", "delete"} => date # None /\ copies[date].whole /\ copies[date].there
    /\ pc = "delete" => \A d \in old : Cardinality({e \in There : e > d}) >= Retention

\* What is known of the device at each place: it is open from the mount on, and what could not be
\* closed is in CLEANUP_FAILED.
OpenKnown ==
    /\ pc \notin {"lock", "exit"} => ~cleanup
    /\ pc = "mount" => mode # "unmount"
    /\ pc \in {"dest", "mirror", "enter", "copy", "list", "delete"} => device = "mounted" /\ mode \in {"backup", "stay"}
    /\ pc \in {"unmount", "lock"} => mode \in {"backup", "unmount"}
    /\ pc = "exit" => cleanup \/ device = IF mode \in {"stay", "mount"} THEN "mounted" ELSE "locked"

BackupInv == NewestFirst /\ PathIsNewest /\ NamedNewest /\ OneSnapshot /\ KeptByNow
===============================================================================
