------------------------------ MODULE SyncConfig -------------------------------
(***************************************************************************)
(* The configuration sections of syncretroid.py's main(), run after run:   *)
(* retroarch.cfg is read, merged and pushed over what was read; the        *)
(* per-core files are pushed and those no longer staged are pruned by      *)
(* their header; each ES-DE gamelist is pinned to an emulator.  RetroArch  *)
(* and ES-DE write the same files when they exit, which is why the run     *)
(* stops them first.  The other sections share nothing with these and are  *)
(* SyncMirror's and SyncPlaylists'.                                        *)
(***************************************************************************)
EXTENDS Naturals, FiniteSets

CONSTANTS
    Owned,      \* keys of retroarch.cfg the role sets
    Dropped,    \* keys it removes
    Kept,       \* keys that are RetroArch's or the user's
    DirKey,     \* rgui_config_directory, one of them
    Files,      \* per-core files, <library_name>/<library_name>.<extension>
    Systems,    \* with a gamelist
    Absent,     \* no such file
    Closed,     \* the app is not running
    Faults,     \* what may go wrong, see FaultKinds
    MaxMishaps  \* how often something goes wrong or changes, all runs together

FaultKinds ==
    {"download", \* the core information or the shader pack cannot be fetched
     "stop",     \* force-stop does not stop an app
     "reopen",   \* the user opens an app during the run
     "read",     \* a read of the device fails for good
     "adb",      \* a write fails for good, done in part or not at all
     "kill",     \* the run is killed
     "role",     \* the role stages other per-core files
     "user",     \* the user changes a setting in RetroArch
     "hand",     \* the user saves a core override in RetroArch
     "grant"}    \* RetroArch is granted all-files access, and its configuration moves

Keys == Owned \cup Dropped \cup Kept
Texts == [Keys -> {"none", "ours", "own"}]
Places == {"app", "all"}   \* Android/data/<package>/files, and RetroArch/ for all-files access

ASSUME BoundAssumption == MaxMishaps \in Nat
ASSUME KeysAssumption ==
    /\ Kept \cap (Owned \cup Dropped) = {}
    /\ DirKey \in Kept
ASSUME AbsentAssumption == Absent \notin Texts /\ Closed \notin Texts

VARIABLES
    cfg,      \* retroarch.cfg at each place
    over,     \* each per-core file under config/ at each place
    gamelist, \* the emulator each system's gamelist names
    ra, es,   \* what RetroArch and ES-DE would write on exit
    home,     \* the place RetroArch reads and writes
    denied,   \* adb may not write the app's own files
    role,     \* the per-core files the role stages
    pc,       \* where the run is
    at,       \* its cfg_path
    existing, \* what retroarch.cfg held there
    doomed,   \* per-core files it has yet to remove
    todo,     \* gamelists it has yet to look at
    failed,   \* a section of it has failed
    said,     \* how the last run ended
    rescued,  \* the lines of the user in the staging directories that were kept
    own,      \* history: the lines of the user that are to survive; Killed takes out those it may cost
    beside,   \* history: an app has been up beside this run
    mishaps

devVars == <<cfg, over, gamelist>>
appVars == <<ra, es>>
worldVars == <<home, denied, role>>
runVars == <<at, existing, doomed, todo>>
sayVars == <<failed, said, rescued>>
ghosts == <<own, beside>>
vars == <<devVars, appVars, worldVars, pc, runVars, sayVars, ghosts, mishaps>>

Headed == {"ours", "cut"}   \* per-core files that begin with the managed header

Lines(text) == IF text = Absent THEN [k \in Keys |-> "none"] ELSE text

UsersLines(text) == {k \in Kept : Lines(text)[k] = "own"}

TypeOK ==
    /\ cfg \in [Places -> Texts \cup {Absent}]
    /\ over \in [Places -> [Files -> {"none", "stub", "theirs"} \cup Headed]]
    /\ gamelist \in [Systems -> {"none", "ours", "own"}]
    /\ ra \in Texts \cup {Closed}
    /\ es \in [Systems -> {"none", "ours", "own"}] \cup {Closed}
    /\ home \in Places /\ denied \in BOOLEAN /\ role \subseteq Files
    /\ pc \in {"idle", "fetch", "stop", "pull", "cfg", "over", "list", "prune", "pin"}
    /\ at \in Places /\ existing \in Texts \cup {Absent}
    /\ doomed \subseteq Files /\ todo \subseteq Systems
    /\ failed \in BOOLEAN /\ said \in {"nothing", "done", "failed"}
    /\ rescued \subseteq Kept /\ own \subseteq Kept /\ beside \in BOOLEAN
    /\ mishaps \in 0 .. MaxMishaps

Init ==
    /\ home \in Places /\ denied \in BOOLEAN /\ role \in SUBSET Files
    /\ \E text \in [Keys -> {"none", "own"}] :
          cfg = [p \in Places |-> IF p = home THEN text ELSE Absent]
    /\ over = [p \in Places |-> [f \in Files |-> "none"]]
    /\ gamelist \in [Systems -> {"none", "own"}]
    /\ ra = Closed /\ es = Closed
    /\ pc = "idle" /\ at = "app" /\ existing = Absent /\ doomed = {} /\ todo = {}
    /\ failed = FALSE /\ said = "nothing" /\ rescued = {}
    /\ own = UsersLines(cfg[home]) /\ beside = FALSE
    /\ mishaps = 0

Goto(place) == pc' = place

Mishap(kind) ==
    /\ kind \in Faults
    /\ mishaps < MaxMishaps
    /\ mishaps' = mishaps + 1

\* What a run in good order leaves alone.
Quiet == UNCHANGED <<appVars, worldVars, ghosts, mishaps>>

-------------------------------------------------------------------------------
(* What the run makes of what it reads *)

\* discover_cfg
Discovered == IF cfg["app"] = Absent /\ cfg["all"] # Absent THEN "all" ELSE "app"

\* override_config_dir: the setting, where it is made, names the directory of all-files access.
ConfigDir(text, place) == IF Lines(text)[DirKey] = "own" THEN "all" ELSE place

OverDir == ConfigDir(existing, at)

\* Mutant: the file is written anew from the role's settings.
MergeAfresh(text) == [k \in Keys |-> IF k \in Owned THEN "ours" ELSE "none"]

\* merge_cfg. What is both set and dropped, as an override of the profile could make it, is deleted and
\* then appended.
Merge(text) ==
    [k \in Keys |-> IF k \in Owned THEN "ours" ELSE IF k \in Dropped THEN "none" ELSE Lines(text)[k]]

\* Mutant: the prune goes by the name alone.
StaleByName == {f \in Files \ role : over[OverDir][f] # "none"}

\* prune_overrides: what is not staged and begins with the header.
Stale == {f \in Files \ role : over[OverDir][f] \in Headed}

\* With a refused cfg_path the per-core directory is either refused too or not reached.
Refused(place) == denied /\ place = "app"

-------------------------------------------------------------------------------
(* A run *)

Over(how) ==
    /\ Goto("idle")
    /\ said' = how /\ failed' = FALSE
    /\ at' = "app" /\ existing' = Absent /\ doomed' = {} /\ todo' = {}
    /\ UNCHANGED rescued

Begin ==
    /\ pc = "idle"
    /\ Goto("fetch")
    /\ said' = "nothing" /\ beside' = FALSE
    /\ UNCHANGED <<devVars, appVars, worldVars, runVars, failed, rescued, own, mishaps>>

\* The downloads come before anything on the device is touched.
Fetch ==
    /\ pc = "fetch"
    /\ Goto("stop")
    /\ Quiet /\ UNCHANGED <<devVars, runVars, sayVars>>

\* Mutant: the apps are left running.
StopNothing ==
    /\ pc = "stop"
    /\ Goto("pull")
    /\ Quiet /\ UNCHANGED <<devVars, runVars, sayVars>>

\* stop_app, twice: a stopped app writes nothing.
StopApps ==
    /\ pc = "stop"
    /\ ra' = Closed /\ es' = Closed
    /\ Goto("pull")
    /\ UNCHANGED <<devVars, worldVars, runVars, sayVars, ghosts, mishaps>>

\* discover_cfg and pull_text. With the apps stopped nobody writes between these reads. What
\* an app that is up may write in the middle is left out, here, in ListStale and in Pin: the properties except
\* such a run, and Converges is about the runs after it.
Pull ==
    /\ pc = "pull"
    /\ at' = Discovered /\ existing' = cfg[Discovered]
    /\ Goto("cfg")
    /\ Quiet /\ UNCHANGED <<devVars, doomed, todo, sayVars>>

PushCfg ==
    /\ pc = "cfg" /\ ~Refused(at)
    /\ cfg' = [cfg EXCEPT ![at] = Merge(existing)]
    /\ Goto("over")
    /\ Quiet /\ UNCHANGED <<over, gamelist, runVars, sayVars>>

PushOver ==
    /\ pc = "over"
    /\ over' = [over EXCEPT ![OverDir] = [f \in Files |-> IF f \in role THEN "ours" ELSE @[f]]]
    /\ Goto("list")
    /\ Quiet /\ UNCHANGED <<cfg, gamelist, runVars, sayVars>>

\* Mutant: the staging directory is removed whatever became of the push.
Unstaged == failed' = TRUE /\ UNCHANGED rescued

\* What could not be pushed is kept where the warning names it.
KeepStaging ==
    /\ failed' = TRUE
    /\ rescued' = rescued \cup UsersLines(Merge(existing))

\* The sections after retroarch.cfg and its overrides run whatever became of these.
ToGamelists ==
    /\ Goto("pin")
    /\ doomed' = {} /\ todo' = Systems

\* The push was denied. Nothing is pruned.
PushRefused ==
    /\ pc = "cfg" /\ Refused(at)
    /\ KeepStaging /\ ToGamelists
    /\ Quiet /\ UNCHANGED <<devVars, at, existing, said>>

\* The listing, then the first lines: only RetroArch could change a file in between.
ListStale ==
    /\ pc = "list"
    /\ doomed' = Stale
    /\ Goto("prune")
    /\ Quiet /\ UNCHANGED <<devVars, at, existing, todo, sayVars>>

RemoveStale ==
    /\ pc = "prune"
    /\ \E f \in doomed :
          /\ over' = [over EXCEPT ![OverDir][f] = "none"]
          /\ doomed' = doomed \ {f}
    /\ Quiet /\ UNCHANGED <<cfg, gamelist, pc, at, existing, todo, sayVars>>

Pruned ==
    /\ pc = "prune" /\ doomed = {}
    /\ ToGamelists
    /\ Quiet /\ UNCHANGED <<devVars, at, existing, sayVars>>

\* Mutant: an emulator chosen before is left.
PinMissing ==
    /\ pc = "pin"
    /\ \E s \in todo :
          /\ gamelist' = [gamelist EXCEPT ![s] = IF @ = "own" THEN @ ELSE "ours"]
          /\ todo' = todo \ {s}
    /\ Quiet /\ UNCHANGED <<cfg, over, pc, at, existing, doomed, sayVars>>

\* A gamelist is read and, unless it names the emulator already, pushed with it put in. The entries
\* of its games are left out.
Pin ==
    /\ pc = "pin"
    /\ \E s \in todo :
          /\ gamelist' = [gamelist EXCEPT ![s] = "ours"]
          /\ todo' = todo \ {s}
    /\ Quiet /\ UNCHANGED <<cfg, over, pc, at, existing, doomed, sayVars>>

End ==
    /\ pc = "pin" /\ todo = {}
    /\ Over(IF failed THEN "failed" ELSE "done")
    /\ Quiet /\ UNCHANGED devVars

-------------------------------------------------------------------------------
(* What goes wrong *)

\* What a write that is cut off may have done. adb removes the file it is to replace.
CutOff ==
    \/ UNCHANGED devVars
    \/ /\ pc = "cfg" /\ ~Refused(at)
       /\ \E text \in Texts \cup {Absent} :
             /\ text # Absent => \A k \in Keys : text[k] \in {"none", Merge(existing)[k]}
             /\ cfg' = [cfg EXCEPT ![at] = text]
       /\ UNCHANGED <<over, gamelist>>
    \/ /\ pc = "over"
       /\ \E some \in SUBSET role : \E f \in role \ some, got \in {"none", "stub", "cut", "ours"} :
             over' = [over EXCEPT ![OverDir] =
                         [g \in Files |-> IF g \in some THEN "ours" ELSE IF g = f THEN got ELSE @[g]]]
       /\ UNCHANGED <<cfg, gamelist>>
    \/ /\ pc = "prune"
       /\ \E f \in doomed : over' = [over EXCEPT ![OverDir][f] = "none"]
       /\ UNCHANGED <<cfg, gamelist>>
    \/ /\ pc = "pin"
       /\ \E s \in todo, label \in {"none", "ours"} : gamelist' = [gamelist EXCEPT ![s] = label]
       /\ UNCHANGED <<cfg, over>>

\* The run ends before the apps are stopped.
DownloadFails ==
    /\ pc = "fetch"
    /\ Mishap("download")
    /\ Over("failed")
    /\ UNCHANGED <<devVars, appVars, worldVars, ghosts>>

\* stop_app does not look at what became of it.
StopFails ==
    /\ pc = "stop"
    /\ Mishap("stop")
    /\ \/ UNCHANGED ra /\ es' \in {es, Closed}
       \/ UNCHANGED es /\ ra' = Closed
    /\ Goto("pull")
    /\ beside' = TRUE /\ own' = own \cap rescued
    /\ UNCHANGED <<devVars, worldVars, runVars, sayVars>>

\* retroarch.cfg is read outside any section, so that the run ends.
ReadFails ==
    /\ pc \in {"pull", "list", "pin"}
    /\ Mishap("read")
    /\ \/ pc = "pull" /\ Over("failed")
       \/ pc = "list" /\ ToGamelists /\ failed' = TRUE /\ UNCHANGED <<at, existing, said, rescued>>
       \/ pc = "pin" /\ Over("failed")
    /\ UNCHANGED <<devVars, appVars, worldVars, ghosts>>

WriteFails ==
    /\ pc \in {"cfg", "over", "prune", "pin"}
    /\ Mishap("adb")
    /\ CutOff
    /\ \/ pc \in {"cfg", "over"} /\ KeepStaging /\ ToGamelists /\ UNCHANGED <<at, existing, said>>
       \/ pc = "prune" /\ ToGamelists /\ failed' = TRUE /\ UNCHANGED <<at, existing, said, rescued>>
       \/ pc = "pin" /\ Over("failed")
    /\ UNCHANGED <<appVars, worldVars, ghosts>>

\* Nothing is kept of what was being pushed.
Killed ==
    /\ pc # "idle"
    /\ Mishap("kill")
    /\ CutOff
    /\ Over("nothing")
    /\ own' = IF pc = "cfg" THEN own \cap rescued ELSE own
    /\ UNCHANGED <<appVars, worldVars, beside>>

-------------------------------------------------------------------------------
(* RetroArch, ES-DE, their user and the role *)

\* The run counts on the apps staying closed once it has stopped them.
Undisturbed == pc \in {"idle", "fetch", "stop"}

\* An app opened during the run.
Beside ==
    \/ Undisturbed /\ UNCHANGED <<ghosts, mishaps>>
    \/ ~Undisturbed /\ Mishap("reopen") /\ beside' = TRUE /\ own' = own \cap rescued

\* Without a file RetroArch starts from its defaults.
RetroArchOpens ==
    /\ ra = Closed
    /\ Beside
    /\ \/ cfg[home] # Absent /\ ra' = cfg[home]
       \/ cfg[home] = Absent /\ ra' \in {[k \in Keys |-> IF k \in Kept \ some THEN "none" ELSE "own"] :
                                            some \in SUBSET {DirKey}}
    /\ UNCHANGED <<devVars, es, worldVars, pc, runVars, sayVars>>

SetsLine(k) ==
    /\ ra # Closed
    /\ Mishap("user")
    /\ \/ ra' = [ra EXCEPT ![k] = "own"] /\ UNCHANGED own
       \/ ra' = [ra EXCEPT ![k] = "none"] /\ own' = own \ {k}
    /\ UNCHANGED <<devVars, es, worldVars, pc, runVars, sayVars, beside>>

\* config_save_on_exit writes every setting RetroArch knows.
RetroArchExits ==
    /\ ra # Closed
    /\ ra' = Closed
    /\ \E text \in {[ra EXCEPT ![k] = "own"] : k \in Dropped} \cup {ra} : cfg' = [cfg EXCEPT ![home] = text]
    /\ own' = IF Undisturbed THEN own \cup UsersLines(ra) ELSE own
    /\ UNCHANGED <<over, gamelist, es, worldVars, pc, runVars, sayVars, beside, mishaps>>

SavesOverride(f) ==
    /\ ra # Closed
    /\ Mishap("hand")
    /\ over' = [over EXCEPT ![ConfigDir(ra, home)][f] = "theirs"]
    /\ UNCHANGED <<cfg, gamelist, appVars, worldVars, pc, runVars, sayVars, ghosts>>

EsdeOpens ==
    /\ es = Closed
    /\ Beside
    /\ es' = gamelist
    /\ UNCHANGED <<devVars, ra, worldVars, pc, runVars, sayVars>>

EsdeExits ==
    /\ es # Closed
    /\ es' = Closed /\ gamelist' = es
    /\ UNCHANGED <<cfg, over, ra, worldVars, pc, runVars, sayVars, ghosts, mishaps>>

Granted ==
    /\ pc = "idle" /\ home = "app" /\ ra = Closed
    /\ Mishap("grant")
    /\ home' = "all"
    /\ cfg' = [cfg EXCEPT !["all"] = cfg["app"], !["app"] = Absent]
    /\ UNCHANGED <<over, gamelist, appVars, denied, role, pc, runVars, sayVars, ghosts>>

\* A run has read the role before it begins.
EditRole ==
    /\ pc = "idle"
    /\ Mishap("role")
    /\ role' \in SUBSET Files
    /\ UNCHANGED <<devVars, appVars, home, denied, pc, runVars, sayVars, ghosts>>

-------------------------------------------------------------------------------

Run ==
    \/ Fetch \/ StopApps \/ Pull
    \/ PushCfg \/ PushOver \/ PushRefused
    \/ ListStale \/ RemoveStale \/ Pruned
    \/ Pin \/ End

Next ==
    \/ Begin \/ Run
    \/ DownloadFails \/ StopFails \/ ReadFails \/ WriteFails \/ Killed
    \/ RetroArchOpens \/ RetroArchExits \/ EsdeOpens \/ EsdeExits
    \/ \E k \in Kept : SetsLine(k)
    \/ \E f \in Files : SavesOverride(f)
    \/ Granted \/ EditRole

Spec == Init /\ [][Next]_vars

\* A run goes on until it ends, and the operator runs it again.
FairSpec == Spec /\ WF_vars(Begin) /\ WF_vars(Run)

-------------------------------------------------------------------------------

\* "Every other line preserved": a line of the user's is on the device, or in the run that is about
\* to push it, or in a staging directory that was kept, however the pushes before it ended.
LinesNotLost ==
    \A k \in own :
        \/ \E p \in Places : Lines(cfg[p])[k] = "own"
        \/ pc = "cfg" /\ Lines(existing)[k] = "own"
        \/ k \in rescued

Right ==
    LET text == Lines(cfg[Discovered])
        found == ConfigDir(text, Discovered) IN
    /\ \A k \in Owned : text[k] = "ours"
    /\ \A f \in Files : IF f \in role THEN over[found][f] = "ours" ELSE over[found][f] \notin Headed
    /\ \A s \in Systems : gamelist[s] = "ours"

\* A run that says "Done", and that no app was up beside, leaves what the role asks for, whichever
\* of the two places the next run will look at.
DoneRight ==
    [][pc # "idle" /\ said' = "done" /\ ~beside =>
          Right' /\ \A k \in Dropped \ Owned : Lines(cfg'[Discovered'])[k] = "none"]_vars

\* The prune spares what RetroArch saved: without the header only a push over it replaces a file.
HeaderlessSpared ==
    [][\A p \in Places, f \in Files :
          over[p][f] = "theirs" /\ over'[p][f] # "theirs" => f \in role \/ beside]_vars

\* "Every section converges": when nothing goes wrong any more, re-running repairs what a cut off
\* push left and what an app that was up beside a run wrote over it, for good.
Converges == ~denied => <>[]Right
===============================================================================
