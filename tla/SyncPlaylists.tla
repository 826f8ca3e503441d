---------------------------- MODULE SyncPlaylists ------------------------------
(***************************************************************************)
(* The playlists section of syncretroid.py's main(), run after run: the    *)
(* playlists of the systems in the table are pushed over what the device   *)
(* has, and those that a run before listed in .syncretroid-playlists and   *)
(* this one no longer generates are removed. A command may fail for good   *)
(* or be cut off, a run may be killed, the table changes between runs, and *)
(* so do the playlists the user builds by hand.                            *)
(***************************************************************************)
EXTENDS Naturals, FiniteSets

CONSTANTS
    Names,      \* of playlists
    Faults,     \* what may go wrong, see FaultKinds
    MaxMishaps  \* how often something goes wrong or changes, all runs together

FaultKinds ==
    {"adb",    \* a write fails for good, done in part or not at all
     "read",   \* a read of the device fails for good
     "crash",  \* the run is killed
     "table",  \* the role's table of systems changes between runs
     "hand"}   \* the user builds a playlist by hand

ASSUME BoundAssumption == MaxMishaps \in Nat

VARIABLES
    table,     \* the playlists the generator makes of the role's table
    dev,       \* each playlist on the device: none, ours, cut (ours, in part), theirs
    manifest,  \* the names .syncretroid-playlists lists, none if it is not there
    pc,        \* where the run is
    generated, \* what this run generated
    stale,     \* what it has yet to remove
    said,      \* how the last run ended
    mishaps

devVars == <<dev, manifest>>
runVars == <<pc, generated, stale, said>>
vars == <<table, devVars, runVars, mishaps>>

Generated == {"ours", "cut"}

TypeOK ==
    /\ table \subseteq Names
    /\ dev \in [Names -> {"none", "theirs"} \cup Generated]
    /\ manifest \subseteq Names
    /\ pc \in {"idle", "generate", "pull", "push", "remove", "list"}
    /\ generated \subseteq Names
    /\ stale \subseteq Names
    /\ said \in {"nothing", "done", "failed"}
    /\ mishaps \in 0 .. MaxMishaps

Init ==
    /\ table \in SUBSET Names
    /\ dev = [n \in Names |-> "none"]
    /\ manifest = {}
    /\ pc = "idle" /\ generated = {} /\ stale = {} /\ said = "nothing"
    /\ mishaps = 0

Goto(place) == pc' = place

Mishap(kind) ==
    /\ kind \in Faults
    /\ mishaps < MaxMishaps
    /\ mishaps' = mishaps + 1

-------------------------------------------------------------------------------

\* Mutant: a manifest that only ever grows, so that nothing listed is stale.
StaleNothing(previous) == {}

\* stale_playlists
StalePlaylists(previous) == previous \ generated

\* The run is over, and what it knew with it.
Over(how) ==
    /\ Goto("idle")
    /\ generated' = {} /\ stale' = {}
    /\ said' = how

Begin ==
    /\ pc = "idle"
    /\ Goto("generate")
    /\ said' = "nothing"
    /\ UNCHANGED <<table, devVars, generated, stale, mishaps>>

\* generate_playlists
Generate ==
    /\ pc = "generate"
    /\ generated' = table
    /\ Goto("pull")
    /\ UNCHANGED <<table, devVars, stale, said, mishaps>>

\* The manifest is read before anything is pushed.
PullManifest ==
    /\ pc = "pull"
    /\ stale' = StalePlaylists(manifest)
    /\ Goto("push")
    /\ UNCHANGED <<table, devVars, generated, said, mishaps>>

PushPlaylists ==
    /\ pc = "push"
    /\ dev' = [n \in Names |-> IF n \in generated THEN "ours" ELSE dev[n]]
    /\ Goto("remove")
    /\ UNCHANGED <<table, manifest, generated, stale, said, mishaps>>

RemoveStale ==
    /\ pc = "remove"
    /\ \E n \in stale :
          /\ dev' = [dev EXCEPT ![n] = "none"]
          /\ stale' = stale \ {n}
    /\ UNCHANGED <<table, manifest, pc, generated, said, mishaps>>

\* Mutant: the new manifest is written while there is still something to remove.
RemovedEarly == pc = "remove"

\* Whatever was stale is gone.
Removed == pc = "remove" /\ stale = {}

ToList ==
    /\ Removed
    /\ Goto("list")
    /\ UNCHANGED <<table, devVars, generated, stale, said, mishaps>>

PushManifest ==
    /\ pc = "list"
    /\ manifest' = generated
    /\ Over("done")
    /\ UNCHANGED <<table, dev, mishaps>>

-------------------------------------------------------------------------------

\* What a write that is cut off may have done: the manifest is short and loses its last lines.
CutOff ==
    \/ UNCHANGED devVars
    \/ /\ pc = "push"
       /\ \E some \in SUBSET generated : \E n \in generated \ some :
             \E got \in {"none", "cut", "ours"} :
                dev' = [m \in Names |-> IF m \in some THEN "ours" ELSE IF m = n THEN got ELSE dev[m]]
       /\ UNCHANGED manifest
    \/ /\ pc = "remove"
       /\ \E n \in stale : dev' = [dev EXCEPT ![n] = "none"]
       /\ UNCHANGED manifest
    \/ pc = "list" /\ (\E some \in SUBSET generated : manifest' = some) /\ UNCHANGED dev

\* The section has failed, and the run goes on without it.
WriteFails ==
    /\ pc = "push" \/ (pc = "remove" /\ stale # {}) \/ pc = "list"
    /\ Mishap("adb")
    /\ CutOff
    /\ Over("failed")
    /\ UNCHANGED table

ReadFails ==
    /\ pc = "pull"
    /\ Mishap("read")
    /\ Over("failed")
    /\ UNCHANGED <<table, devVars>>

Crash ==
    /\ pc # "idle"
    /\ Mishap("crash")
    /\ CutOff
    /\ Over("nothing")
    /\ UNCHANGED table

EditTable ==
    /\ Mishap("table")
    /\ \E names \in SUBSET Names : table' = names
    /\ UNCHANGED <<devVars, runVars>>

\* RetroArch is stopped while a run is on.
HandBuild(n) ==
    /\ pc = "idle"
    /\ Mishap("hand")
    /\ \E what \in {"none", "theirs"} : dev' = [dev EXCEPT ![n] = what]
    /\ UNCHANGED <<table, manifest, runVars>>

-------------------------------------------------------------------------------

Run == Generate \/ PullManifest \/ PushPlaylists \/ RemoveStale \/ ToList \/ PushManifest

Next ==
    \/ Begin \/ Run
    \/ WriteFails \/ ReadFails \/ Crash
    \/ EditTable \/ \E n \in Names : HandBuild(n)

Spec == Init /\ [][Next]_vars

\* A run goes on until it ends, and the operator runs it again.
FairSpec == Spec /\ WF_vars(Begin) /\ WF_vars(Run)

-------------------------------------------------------------------------------

Ends == pc # "idle" /\ said' = "done"

\* A run that says "Done" leaves every playlist it generated whole and listed, whatever the runs
\* before it left half pushed.
DoneListed ==
    [][Ends => \A n \in generated : dev'[n] = "ours" /\ n \in manifest']_vars

\* "A playlist the previous run listed and this one does not generate is removed": a name is taken
\* off the manifest only once its playlist is gone, or by a run that has just pushed it, so that a
\* run cut off half way leaves the next one what it needs.
ListedUntilGone ==
    [][\A n \in manifest \ manifest' : n \in generated \/ dev'[n] \notin Generated]_vars

\* A listed playlist whose system has left the table goes in the end, however many runs fail or
\* are cut off first, unless the system comes back.
StaleGoes ==
    \A n \in Names :
        (n \in manifest \ (table \cup generated) /\ dev[n] \in Generated)
            ~> (dev[n] \notin Generated \/ n \in table)

-------------------------------------------------------------------------------
(* Why a run gets it right: what its steps preserve together *)

\* What the manifest lists beyond what is generated is yet to be removed, or gone.
StaleCovers ==
    pc \in {"push", "remove", "list"} =>
        \A n \in manifest \ generated : n \in stale \/ dev[n] \notin Generated

\* Nothing generated is removed.
StaleApart == stale \cap generated = {}

\* What is generated has been pushed.
Pushed == pc \in {"remove", "list"} => \A n \in generated : dev[n] = "ours"

\* The manifest is not written before everything stale is gone.
NothingLeft == pc = "list" => stale = {}

\* Until the manifest is read nothing is known to be stale.
StaleLater == pc \in {"idle", "generate", "pull"} => stale = {}

\* What the last run said is forgotten once the next has begun.
Unsaid == pc # "idle" => said = "nothing"

PlaylistsInv == StaleCovers /\ StaleApart /\ Pushed /\ NothingLeft /\ StaleLater /\ Unsaid
===============================================================================
