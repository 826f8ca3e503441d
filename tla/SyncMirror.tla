------------------------------ MODULE SyncMirror -------------------------------
(***************************************************************************)
(* The trees syncretroid.py mirrors onto the sdcard over adb, run after    *)
(* run: mirror_roms() for the systems of the library, sync_tree() for the  *)
(* shaders, the BIOS and the thumbnails. Both list the library, list the   *)
(* device, prune, and push what differs in size. Any adb command may fail  *)
(* for good or be cut off half way, the run may be killed, and the library *)
(* may be edited, unmounted or unreadable.                                 *)
(*                                                                         *)
(* The mirror tells one content from another by its size alone, so the     *)
(* content of a file is its size. A path is the directory below the tree   *)
(* and the name in it; the sdcard takes two spellings of a directory that  *)
(* differ in case for one.                                                 *)
(***************************************************************************)
EXTENDS Naturals, FiniteSets

CONSTANTS
    Trees,      \* what is mirrored, in the order of the sections
    Roms,       \* those that are systems of mirror_roms(), the last section
    Pruned,     \* those that lose what the library no longer has
    Dirs,       \* the directories of a tree, each in its spellings
    Root,       \* the tree's own directory
    Fold,       \* the spelling the sdcard compares a directory by
    Files,      \* the paths <<directory, name>>
    Preserved,  \* PRESERVE_IN_ROMS
    MaxSize,    \* the size of the largest file
    Absent,     \* no file
    Faults,     \* what may go wrong, see FaultKinds
    MaxMishaps  \* how often something goes wrong or changes, all runs together

FaultKinds ==
    {"adb",     \* a write fails for good, done in part or not at all
     "read",    \* a read of the device fails for good
     "rmdir",   \* the removal of empty directories, whose result nobody looks at, does nothing
     "crash",   \* the run is killed
     "view",    \* between runs a tree of the library is unmounted, unreadable or back
     "remount", \* that also happens while a run is on
     "edit",    \* the library is edited between runs
     "editing"} \* that also happens while a run is on

ASSUME TreesAssumption == Roms \subseteq Trees /\ Roms \subseteq Pruned /\ Pruned \subseteq Trees
ASSUME PathsAssumption ==
    /\ Root \in Dirs
    /\ Fold \in [Dirs -> Dirs]
    /\ Files \subseteq Dirs \X {f[2] : f \in Files}
    /\ \A d \in Dirs : Fold[d] = Fold[Root] => d = Root
    /\ \A f \in Files, d \in Dirs : Fold[d] = Fold[f[1]] => <<d, f[2]>> \in Files
ASSUME SizesAssumption == MaxSize \in Nat /\ MaxMishaps \in Nat /\ Absent \notin Nat

VARIABLES
    lib,        \* the files each tree of the library has
    broken,     \* those whose size cannot be read
    shows,      \* what its directory answers: its files, nothing, that it is not there, an error
    dev,        \* the files on the device, by the path the device spells
    dirs,       \* the directories there
    pc,         \* where the run is, idle between runs
    todo,       \* the trees it has yet to take
    tree,       \* the one it is at
    wanted,     \* what local_file_sizes() returned
    unreadable, \* the entries it could not read
    have,       \* what device_file_sizes() returned
    doomed,     \* what is yet to be pruned
    need,       \* what is yet to be pushed
    outcome,    \* what became of each tree in this run
    said,       \* how the last run ended
    mishaps     \* how often something has gone wrong or changed

libVars == <<lib, broken, shows>>
devVars == <<dev, dirs>>
treeVars == <<tree, wanted, unreadable, have, doomed, need>>
runVars == <<pc, todo, outcome, said>>
vars == <<libVars, devVars, treeVars, runVars, mishaps>>

-------------------------------------------------------------------------------
Sizes == 1 .. MaxSize
None == [f \in Files |-> Absent]

\* A directory has one spelling at a time: on the sdcard always, in the library by its keeper.
OneSpelling(ds) == \A d, e \in ds : Fold[d] = Fold[e] => d = e
Held(files) == {f \in Files : files[f] # Absent}
DirsOf(fs) == {f[1] : f \in fs}

Places == {"idle", "next", "mkdirs", "local", "device", "prune", "parents", "push"}

TypeOK ==
    /\ lib \in [Trees -> [Files -> Sizes \cup {Absent}]]
    /\ broken \in [Trees -> SUBSET Files]
    /\ shows \in [Trees -> {"files", "bare", "gone", "denied"}]
    /\ dev \in [Trees -> [Files -> (0 .. MaxSize) \cup {Absent}]]
    /\ dirs \in [Trees -> SUBSET Dirs]
    /\ \A t \in Trees : OneSpelling(dirs[t]) /\ DirsOf(Held(dev[t])) \subseteq dirs[t]
    /\ pc \in Places
    /\ todo \subseteq Trees
    /\ tree \in Trees
    /\ wanted \in [Files -> Sizes \cup {Absent}]
    /\ unreadable \subseteq Files
    /\ have \in [Files -> (0 .. MaxSize) \cup {Absent}]
    /\ doomed \subseteq Files
    /\ need \subseteq Files
    /\ outcome \in [Trees -> {"none", "skipped", "failed", "mirrored"}]
    /\ said \in {"nothing", "done", "failed"}
    /\ mishaps \in 0 .. MaxMishaps

\* A new card, on which the firmware may have left files of its own.
Init ==
    /\ lib \in [Trees -> {l \in [Files -> Sizes \cup {Absent}] : OneSpelling(DirsOf(Held(l)))}]
    /\ broken = [t \in Trees |-> {}]
    /\ shows = [t \in Trees |-> "files"]
    /\ \E own \in SUBSET {f \in Files : f[1] = Root /\ f[2] \in Preserved} :
          dev = [t \in Trees |-> [f \in Files |-> IF t \in Roms /\ f \in own THEN MaxSize ELSE Absent]]
    /\ dirs = [t \in Trees |-> DirsOf(Held(dev[t]))]
    /\ pc = "idle" /\ todo = {} /\ tree \in Trees
    /\ wanted = None /\ unreadable = {} /\ have = None /\ doomed = {} /\ need = {}
    /\ outcome = [t \in Trees |-> "none"]
    /\ said = "nothing"
    /\ mishaps = 0

Goto(place) == pc' = place

Mishap(kind) ==
    /\ kind \in Faults
    /\ mishaps < MaxMishaps
    /\ mishaps' = mishaps + 1

-------------------------------------------------------------------------------
(* What the run decides *)

\* What the library answers to a listing.
Shown(t) == IF shows[t] = "files" THEN lib[t] ELSE None

\* local_file_sizes: the sizes, and the entries that have none to give.
Listed(t) == [f \in Files |-> IF f \in broken[t] THEN Absent ELSE Shown(t)[f]]
Unlisted(t) == broken[t] \cap Held(Shown(t))

\* Mutant: a listing that omits what is in a subdirectory.
DoomedOnTop(t) ==
    {f \in Held(dev[t]) \ (Held(wanted) \cup unreadable) :
        t \in Pruned /\ f[1] = Root /\ ~ (t \in Roms /\ f[2] \in Preserved)}

\* What the device holds, the library does not list, and is the mirror's to delete.
Doomed(t) ==
    {f \in Held(dev[t]) \ (Held(wanted) \cup unreadable) :
        t \in Pruned /\ ~ (t \in Roms /\ f[2] \in Preserved)}

\* Mutant: an empty listing is believed.
NeverRefuses(t) == FALSE

\* empty_source_refusal
Refuses(t) == Held(wanted) = {} /\ Doomed(t) # {}

\* Mutant: what is there at all is taken for pushed.
NeedMissing == {f \in Held(wanted) : have[f] = Absent}

\* What is missing on the device or of another size there.
Need == {f \in Held(wanted) : have[f] # wanted[f]}

\* Mutant: the emptied directories are left.
EmptiedLeft(t) == dirs[t]

\* rmdir_empty: what is left of the directories, the tree's own kept.
Emptied(t) == {Root} \cup (dirs[t] \cap DirsOf(Held(dev[t])))

\* mkdir -p: a directory that is there under another spelling is kept as it is.
WithParents(t, fs) ==
    dirs[t] \cup {d \in DirsOf(fs) : \A e \in dirs[t] : Fold[e] # Fold[d]}

\* The path the device spells for one pushed.
Landing(t, f) ==
    LET home == {d \in dirs[t] : Fold[d] = Fold[f[1]]}
    IN  <<IF home = {} THEN f[1] ELSE CHOOSE d \in home : TRUE, f[2]>>

-------------------------------------------------------------------------------
(* A run *)

Forget ==
    /\ UNCHANGED tree
    /\ wanted' = None /\ unreadable' = {} /\ have' = None /\ doomed' = {} /\ need' = {}

\* The loop is done with the tree it is at.
Close(result) ==
    /\ Goto("next")
    /\ outcome' = [outcome EXCEPT ![tree] = result]
    /\ Forget
    /\ UNCHANGED said

Begin ==
    /\ pc = "idle"
    /\ Goto("next")
    /\ todo' = Trees
    /\ outcome' = [t \in Trees |-> "none"]
    /\ said' = "nothing"
    /\ UNCHANGED <<libVars, devVars, treeVars, mishaps>>

\* The next tree, unless it is no directory.
Enter(t) ==
    /\ pc = "next" /\ t \in todo
    /\ t \in Roms => todo \subseteq Roms
    /\ todo' = todo \ {t}
    /\ IF shows[t] = "gone"
       THEN outcome' = [outcome EXCEPT ![t] = "skipped"] /\ UNCHANGED <<pc, tree>>
       ELSE tree' = t /\ Goto("mkdirs") /\ UNCHANGED outcome
    /\ UNCHANGED <<libVars, devVars, wanted, unreadable, have, doomed, need, said, mishaps>>

MakeRoot ==
    /\ pc = "mkdirs"
    /\ dirs' = [dirs EXCEPT ![tree] = @ \cup {Root}]
    /\ Goto("local")
    /\ UNCHANGED <<libVars, dev, treeVars, todo, outcome, said, mishaps>>

\* A directory that cannot be listed raises rather than reading as empty.
ReadLibrary ==
    /\ pc = "local"
    /\ IF shows[tree] \in {"files", "bare"}
       THEN /\ wanted' = Listed(tree) /\ unreadable' = Unlisted(tree)
            /\ Goto("device")
            /\ UNCHANGED <<tree, have, doomed, need, outcome, said>>
       ELSE Close("failed")
    /\ UNCHANGED <<libVars, devVars, todo, mishaps>>

\* device_file_sizes, and what follows from it for the prune.
ReadDevice ==
    /\ pc = "device"
    /\ IF Refuses(tree)
       THEN Close("failed")
       ELSE /\ have' = dev[tree] /\ doomed' = Doomed(tree)
            /\ Goto("prune")
            /\ UNCHANGED <<tree, wanted, unreadable, need, outcome, said>>
    /\ UNCHANGED <<libVars, devVars, todo, mishaps>>

\* A read that fails exits: mirror_roms() catches no SystemExit, so its other systems go with it.
ReadFails ==
    /\ pc = "device"
    /\ Mishap("read")
    /\ todo' = IF tree \in Roms THEN todo \ Roms ELSE todo
    /\ Close("failed")
    /\ UNCHANGED <<libVars, devVars>>

Remove ==
    /\ pc = "prune"
    /\ \E f \in doomed :
          /\ dev' = [dev EXCEPT ![tree][f] = Absent]
          /\ doomed' = doomed \ {f}
    /\ UNCHANGED <<libVars, dirs, tree, wanted, unreadable, have, need, runVars, mishaps>>

\* The emptied directories go before anything is pushed.
RemoveEmpty ==
    /\ pc = "prune" /\ doomed = {}
    /\ \/ dirs' = [dirs EXCEPT ![tree] = IF tree \in Pruned THEN Emptied(tree) ELSE @] /\ UNCHANGED mishaps
       \/ Mishap("rmdir") /\ tree \in Pruned /\ UNCHANGED dirs
    /\ need' = Need
    /\ Goto("parents")
    /\ UNCHANGED <<libVars, dev, tree, wanted, unreadable, have, doomed, todo, outcome, said>>

MakeParents ==
    /\ pc = "parents"
    /\ dirs' = [dirs EXCEPT ![tree] = WithParents(tree, need)]
    /\ Goto("push")
    /\ UNCHANGED <<libVars, dev, treeVars, todo, outcome, said, mishaps>>

\* adb push reads the library's file as it is by now, and fails if there is none to read.
Push ==
    /\ pc = "push"
    /\ \E f \in need :
          IF Listed(tree)[f] # Absent
          THEN /\ dev' = [dev EXCEPT ![tree][Landing(tree, f)] = Listed(tree)[f]]
               /\ need' = need \ {f}
               /\ UNCHANGED <<tree, wanted, unreadable, have, doomed, pc, outcome, said>>
          ELSE Close("failed") /\ UNCHANGED dev
    /\ UNCHANGED <<libVars, dirs, todo, mishaps>>

\* An unreadable entry is neither pushed nor pruned, and the tree has failed.
Finish ==
    /\ pc = "push" /\ need = {}
    /\ Close(IF unreadable = {} THEN "mirrored" ELSE "failed")
    /\ UNCHANGED <<libVars, devVars, todo, mishaps>>

End ==
    /\ pc = "next" /\ todo = {}
    /\ Goto("idle")
    /\ said' = IF \A t \in Trees : outcome[t] \in {"skipped", "mirrored"} THEN "done" ELSE "failed"
    /\ UNCHANGED <<libVars, devVars, treeVars, todo, outcome, mishaps>>

-------------------------------------------------------------------------------
(* What goes wrong *)

\* What a write that is cut off may have done: all of it, a part, nothing. A file being pushed
\* is unlinked first.
CutOff ==
    \/ UNCHANGED devVars
    \/ pc = "mkdirs" /\ dirs' = [dirs EXCEPT ![tree] = @ \cup {Root}] /\ UNCHANGED dev
    \/ /\ pc = "prune"
       /\ \E f \in doomed : dev' = [dev EXCEPT ![tree][f] = Absent]
       /\ UNCHANGED dirs
    \/ /\ pc = "parents"
       /\ \E some \in SUBSET need : dirs' = [dirs EXCEPT ![tree] = WithParents(tree, some)]
       /\ UNCHANGED dev
    \/ /\ pc = "push"
       /\ \E f \in need : \E got \in {Absent} \cup (0 .. MaxSize) :
             /\ got \in Nat => Listed(tree)[f] # Absent /\ got <= Listed(tree)[f]
             /\ dev' = [dev EXCEPT ![tree][Landing(tree, f)] = got]
       /\ UNCHANGED dirs

\* A write whose attempts are spent: the tree is left for the next run.
WriteFails ==
    /\ pc \in {"mkdirs", "parents"} \/ (pc = "prune" /\ doomed # {}) \/ (pc = "push" /\ need # {})
    /\ Mishap("adb")
    /\ CutOff
    /\ Close("failed")
    /\ UNCHANGED <<libVars, todo>>

Crash ==
    /\ pc # "idle"
    /\ Mishap("crash")
    /\ CutOff
    /\ Goto("idle")
    /\ Forget
    /\ UNCHANGED <<libVars, todo, outcome, said>>

\* The library is edited: one file, or a directory renamed by case alone.
Edit(t) ==
    /\ Mishap(IF pc = "idle" THEN "edit" ELSE "editing")
    /\ \/ \E f \in Files, size \in Sizes \cup {Absent} : lib' = [lib EXCEPT ![t][f] = size]
       \/ \E d, e \in Dirs :
             /\ d # e /\ Fold[d] = Fold[e]
             /\ lib' = [lib EXCEPT ![t] =
                          [f \in Files |-> IF f[1] = e THEN @[<<d, f[2]>>]
                                           ELSE IF f[1] = d THEN Absent ELSE @[f]]]
    /\ OneSpelling(DirsOf(Held(lib'[t])))
    /\ UNCHANGED <<broken, shows, devVars, treeVars, runVars>>

View(t) ==
    /\ Mishap(IF pc = "idle" THEN "view" ELSE "remount")
    /\ \E what \in {"files", "bare", "gone", "denied"} : shows' = [shows EXCEPT ![t] = what]
    /\ \E fs \in SUBSET Held(lib[t]) : broken' = [broken EXCEPT ![t] = fs]
    /\ UNCHANGED <<lib, devVars, treeVars, runVars>>

-------------------------------------------------------------------------------

Run ==
    \/ \E t \in Trees : Enter(t)
    \/ MakeRoot \/ ReadLibrary \/ ReadDevice \/ Remove \/ RemoveEmpty \/ MakeParents \/ Push
    \/ Finish \/ End

Trouble ==
    \/ ReadFails \/ WriteFails \/ Crash
    \/ \E t \in Trees : Edit(t) \/ View(t)

Next == Begin \/ Run \/ Trouble

Spec == Init /\ [][Next]_vars

\* A run goes on until it ends, and the operator runs it again.
FairSpec == Spec /\ WF_vars(Begin) /\ WF_vars(Run)

-------------------------------------------------------------------------------

Ends == pc = "next" /\ pc' = "idle" /\ said' = "done"

\* A run that says "Done" has put every file the library shows on the device, whole, whatever the
\* runs before it left there half pushed.
DoneMirrored ==
    [][Ends => \A t \in Trees : outcome[t] = "mirrored" =>
          \A f \in Held(Shown(t)) : dev[t][Landing(t, f)] = Shown(t)[f]]_vars

\* "A converged re-run pushes nothing": what a run that says "Done" leaves of a pruned tree, the
\* next one would neither push nor prune, as long as the library stays. This is what the removal
\* of the emptied directories before the pushes is for; a tree that is only added to lacks it, and
\* there a directory renamed by case alone is pushed again by every run.
NextRunIdle ==
    [][Ends => \A t \in Pruned : outcome[t] = "mirrored" =>
          /\ \A f \in Held(Shown(t)) : dev[t][f] = Shown(t)[f]
          /\ \A f \in Held(dev[t]) : f \in Held(Shown(t)) \/ (t \in Roms /\ f[2] \in Preserved)]_vars

\* "Pruning against it would delete the whole device tree": no file the library has is pruned,
\* however little of it the mount shows, nor one the firmware keeps beside the games.
PruneSparesLibrary ==
    [][pc = "prune" => \A t \in Trees : \A f \in Held(dev[t]) :
          dev'[t][f] = Absent => lib[t][f] = Absent /\ ~ (t \in Roms /\ f[2] \in Preserved)]_vars

\* What the library shows is what the device has.
InStep(t) ==
    /\ \A f \in Held(Shown(t)) : dev[t][Landing(t, f)] = Shown(t)[f]
    /\ t \in Pruned => \A f \in Held(dev[t]) : f \in Held(Shown(t)) \/ (t \in Roms /\ f[2] \in Preserved)

\* "Re-run to resume": once nothing goes wrong any more, every tree the library shows is mirrored,
\* whatever the others do.
Converges == <>[](\A t \in Trees : broken[t] = {} /\ Held(Shown(t)) # {} => InStep(t))

-------------------------------------------------------------------------------
(* Why a run gets it right: what its steps preserve together *)

\* The library spells a directory one way.
LibSpelled == \A t \in Trees : OneSpelling(DirsOf(Held(lib[t])))

\* So does what was listed of it.
WantedSpelled == OneSpelling(DirsOf(Held(wanted)))

\* Only what was listed is pushed.
NeedListed == need \subseteq Held(wanted)

\* It is decided once the emptied directories are gone.
NeedLater == pc \notin {"parents", "push"} => need = {}

\* What is pushed has a directory to land in.
Homed == pc = "push" => \A f \in need : \E d \in dirs[tree] : Fold[d] = Fold[f[1]]

SpellingInv == LibSpelled /\ WantedSpelled /\ NeedListed /\ NeedLater /\ Homed

\* A listing is of all the library has, or of nothing.
ListedWhole ==
    pc \in {"device", "prune"} =>
        Held(wanted) = {} \/ Held(lib[tree]) \subseteq Held(wanted) \cup unreadable

\* What is about to be pruned is neither in the library nor the firmware's.
DoomedGone ==
    pc = "prune" => \A f \in doomed : lib[tree][f] = Absent /\ ~ (tree \in Roms /\ f[2] \in Preserved)

PruneInv == ListedWhole /\ DoomedGone
===============================================================================
