---------------------------- MODULE PruneAgentRules ----------------------------
(***************************************************************************)
(* prune-agent-rules.py: each agent's settings file is loaded, what its    *)
(* deny list holds beyond faramir's record is dropped, the original is     *)
(* copied aside, and a temporary file replaces it.  The agent owns the     *)
(* file and writes it when it likes, in place or by a replacement of its   *)
(* own.  The playbook runs the program once at a time; a run may be        *)
(* killed, and the next finds what it left.                                *)
(***************************************************************************)
EXTENDS Naturals, FiniteSets

CONSTANTS
    Files,      \* settings files the record may name
    Rules,      \* of deny lists
    NoList,     \* in place of a set of rules: no list of strings
    Torn,       \* what a file holds while it is being written in place
    Nobody,     \* the agent is not writing
    Faults,     \* what may go wrong, see FaultKinds
    MaxMishaps, \* how often something goes wrong or changes, all runs together
    MaxEdits    \* how often the agent changes its settings

FaultKinds ==
    {"kill",    \* the run is killed
     "denied",  \* a file turns out not to be the account's to rewrite
     "error",   \* another error, such as a full disk or a backup of that name
     "install"} \* faramir renders other rules and records them

Denies == (SUBSET Rules) \cup {NoList}
Documents == [deny : Denies, edit : 0 .. MaxEdits]
Writings == [doc : Documents, by : {"mind", "here", "gone"}]

ASSUME BoundAssumption == MaxMishaps \in Nat /\ MaxEdits \in Nat
ASSUME ValueAssumption ==
    /\ \A rules \in SUBSET Rules : NoList # rules
    /\ Torn \notin Documents /\ Nobody \notin Writings

VARIABLES
    record,  \* the rules faramir recorded for each file, NoList where the entry is none
    file,    \* what each settings file holds
    backups, \* what has been copied aside of each
    writing, \* what the agent is about to write, and how far it is
    pc,      \* where the run is
    check,   \* it only reports
    keep,    \* the record it has read
    todo,    \* the files it has yet to look at
    at,      \* the file it is at
    loaded,  \* the document it loaded
    temp,    \* the temporary file beside it
    written, \* history: whether the agent has written at since it was loaded, since it was copied
    mishaps

runVars == <<pc, check, keep, todo, at, loaded, written>>
vars == <<record, file, backups, writing, runVars, temp, mishaps>>

TypeOK ==
    /\ record \in [Files -> Denies]
    /\ file \in [Files -> Documents \cup {Torn}]
    /\ backups \in [Files -> SUBSET (Documents \cup {Torn})]
    /\ writing \in [Files -> Writings \cup {Nobody}]
    /\ pc \in {"idle", "next", "copy", "stage", "replace"}
    /\ check \in BOOLEAN /\ keep \in [Files -> Denies]
    /\ todo \subseteq Files /\ at \in Files /\ loaded \in Documents
    /\ temp \in [Files -> Documents \cup {Torn, Nobody}]
    /\ written \in {"no", "loaded", "copied"}
    /\ mishaps \in 0 .. MaxMishaps

Blank == [deny |-> NoList, edit |-> 0]

Init ==
    /\ record \in [Files -> Denies]
    /\ file \in [Files -> [deny : Denies, edit : {0}]]
    /\ backups = [f \in Files |-> {}]
    /\ writing = [f \in Files |-> Nobody]
    /\ pc = "idle" /\ check = FALSE /\ keep = record /\ todo = {} /\ loaded = Blank
    /\ at \in Files /\ written = "no"
    /\ temp = [f \in Files |-> Nobody]
    /\ mishaps = 0

Goto(place) == pc' = place

Mishap(kind) ==
    /\ kind \in Faults
    /\ mishaps < MaxMishaps
    /\ mishaps' = mishaps + 1

-------------------------------------------------------------------------------

Keep(f) == keep[f]

\* Mutant: a list goes with its last entry.
PruneKey(doc, rules) ==
    IF doc.deny = NoList THEN doc
    ELSE IF doc.deny \cap rules = {} THEN [edit |-> doc.edit]
    ELSE [doc EXCEPT !.deny = @ \cap rules]

\* prune_document: a list of anything but strings is left whole.
Prune(doc, rules) ==
    IF doc.deny = NoList THEN doc ELSE [doc EXCEPT !.deny = @ \cap rules]

\* main, prune_file and the early returns of prune_writable_file: a file the record says nothing
\* of, that is not JSON, or that has nothing to remove is left alone.
Prunable(f) ==
    /\ Keep(f) # NoList
    /\ file[f] # Torn
    /\ Prune(file[f], Keep(f)) # file[f]

Begin ==
    /\ pc = "idle"
    /\ Goto("next")
    /\ check' \in BOOLEAN /\ keep' = record /\ todo' = Files
    /\ UNCHANGED <<record, file, backups, writing, at, loaded, temp, written, mishaps>>

Skip(f) ==
    /\ pc = "next" /\ f \in todo
    /\ check \/ ~Prunable(f)
    /\ todo' = todo \ {f}
    /\ UNCHANGED <<record, file, backups, writing, pc, check, keep, at, loaded, temp, written, mishaps>>

Load(f) ==
    /\ pc = "next" /\ f \in todo
    /\ ~check /\ Prunable(f)
    /\ at' = f /\ loaded' = file[f] /\ todo' = todo \ {f}
    /\ written' = "no"
    /\ Goto("copy")
    /\ UNCHANGED <<record, file, backups, writing, check, keep, temp, mishaps>>

\* Mutant: what was loaded is set aside, not what the file holds by now.
CopyLoaded ==
    /\ pc = "copy"
    /\ backups' = [backups EXCEPT ![at] = @ \cup {loaded}]
    /\ Goto("stage")
    /\ UNCHANGED <<record, file, writing, check, keep, todo, at, loaded, temp, written, mishaps>>

\* The file is copied as it is now, under a name of its own.
Copy ==
    /\ pc = "copy"
    /\ backups' = [backups EXCEPT ![at] = @ \cup {file[at]}]
    /\ Goto("stage")
    /\ UNCHANGED <<record, file, writing, check, keep, todo, at, loaded, temp, written, mishaps>>

\* Mutant: the temporary file an earlier run left is kept.
StageOver ==
    /\ pc = "stage"
    /\ temp' = [temp EXCEPT ![at] = IF @ = Nobody THEN Prune(loaded, Keep(at)) ELSE @]
    /\ Goto("replace")
    /\ UNCHANGED <<record, file, backups, writing, check, keep, todo, at, loaded, written, mishaps>>

\* Mutant: a temporary file an earlier run left fails this one.
StageExclusive ==
    /\ pc = "stage"
    /\ IF temp[at] = Nobody
       THEN temp' = [temp EXCEPT ![at] = Prune(loaded, Keep(at))] /\ Goto("replace") /\ UNCHANGED todo
       ELSE Goto("idle") /\ todo' = {} /\ UNCHANGED temp
    /\ UNCHANGED <<record, file, backups, writing, check, keep, at, loaded, written, mishaps>>

\* Whatever a run before left under the temporary name is removed first.
Stage ==
    /\ pc = "stage"
    /\ temp' = [temp EXCEPT ![at] = Prune(loaded, Keep(at))]
    /\ Goto("replace")
    /\ UNCHANGED <<record, file, backups, writing, check, keep, todo, at, loaded, written, mishaps>>

\* A writer of the file that was there goes on writing a file without a name.
Replaced ==
    /\ file' = [file EXCEPT ![at] = temp[at]]
    /\ temp' = [temp EXCEPT ![at] = Nobody]
    /\ writing' = [writing EXCEPT ![at] =
                      IF @ # Nobody /\ @.by = "here" THEN [@ EXCEPT !.by = "gone"] ELSE @]

Replace ==
    /\ pc = "replace"
    /\ Replaced
    /\ Goto("next")
    /\ UNCHANGED <<record, backups, check, keep, todo, at, loaded, written, mishaps>>

End ==
    /\ pc = "next" /\ todo = {}
    /\ Goto("idle")
    /\ UNCHANGED <<record, file, backups, writing, check, keep, todo, at, loaded, temp, written, mishaps>>

-------------------------------------------------------------------------------

\* What a step that ends half way may have done.
CutOff ==
    \/ UNCHANGED <<file, backups, writing, temp>>
    \/ /\ pc = "copy"
       /\ \E got \in {Torn, file[at]} : backups' = [backups EXCEPT ![at] = @ \cup {got}]
       /\ UNCHANGED <<file, writing, temp>>
    \/ /\ pc = "stage"
       /\ \E got \in {Nobody, Torn, Prune(loaded, Keep(at))} : temp' = [temp EXCEPT ![at] = got]
       /\ UNCHANGED <<file, backups, writing>>
    \/ pc = "replace" /\ Replaced /\ UNCHANGED backups

\* PermissionError: the file is skipped.
Denied ==
    /\ pc \in {"copy", "stage", "replace"}
    /\ Mishap("denied")
    /\ CutOff
    /\ Goto("next")
    /\ UNCHANGED <<record, check, keep, todo, at, loaded, written>>

\* Any other error ends the run, the files that follow untouched.
Ended(kind) ==
    /\ pc # "idle"
    /\ Mishap(kind)
    /\ CutOff
    /\ Goto("idle") /\ todo' = {}
    /\ UNCHANGED <<record, check, keep, at, loaded, written>>

-------------------------------------------------------------------------------
(* The agent and faramir *)

Touched(f) ==
    written' = IF f # at THEN written
               ELSE IF pc = "copy" THEN "loaded"
               ELSE IF pc \in {"stage", "replace"} THEN "copied" ELSE written

\* The agent has read its settings and changes one of them, or the user adds a rule by hand.
AgentReads(f) ==
    /\ writing[f] = Nobody /\ file[f] # Torn
    /\ file[f].edit < MaxEdits
    /\ \E rules \in IF file[f].deny = NoList THEN {NoList} ELSE {file[f].deny, file[f].deny \cup Rules} :
          writing' = [writing EXCEPT ![f] =
                         [doc |-> [deny |-> rules, edit |-> file[f].edit + 1], by |-> "mind"]]
    /\ UNCHANGED <<record, file, backups, runVars, temp, mishaps>>

AgentReplaces(f) ==
    /\ writing[f] # Nobody /\ writing[f].by = "mind"
    /\ file' = [file EXCEPT ![f] = writing[f].doc]
    /\ writing' = [writing EXCEPT ![f] = Nobody]
    /\ Touched(f)
    /\ UNCHANGED <<record, backups, pc, check, keep, todo, at, loaded, temp, mishaps>>

AgentOpens(f) ==
    /\ writing[f] # Nobody /\ writing[f].by = "mind"
    /\ file' = [file EXCEPT ![f] = Torn]
    /\ writing' = [writing EXCEPT ![f].by = "here"]
    /\ Touched(f)
    /\ UNCHANGED <<record, backups, pc, check, keep, todo, at, loaded, temp, mishaps>>

AgentCloses(f) ==
    /\ writing[f] # Nobody /\ writing[f].by \in {"here", "gone"}
    /\ IF writing[f].by = "here"
       THEN file' = [file EXCEPT ![f] = writing[f].doc] /\ Touched(f)
       ELSE UNCHANGED <<file, written>>
    /\ writing' = [writing EXCEPT ![f] = Nobody]
    /\ UNCHANGED <<record, backups, pc, check, keep, todo, at, loaded, temp, mishaps>>

\* What it recorded before and renders no longer, faramir takes out.
Install(f) ==
    /\ pc = "idle" /\ file[f] # Torn /\ file[f].deny # NoList
    /\ Mishap("install")
    /\ \E rules \in SUBSET Rules :
          /\ record' = [record EXCEPT ![f] = rules]
          /\ file' = [file EXCEPT ![f].deny =
                         (IF record[f] = NoList THEN @ ELSE @ \ record[f]) \cup rules]
    /\ UNCHANGED <<backups, writing, runVars, temp>>

Run == Copy \/ Stage \/ Replace \/ End \/ \E f \in Files : Skip(f) \/ Load(f)

Agent(f) == AgentReads(f) \/ AgentReplaces(f) \/ AgentOpens(f) \/ AgentCloses(f)

Next ==
    \/ Begin \/ Run
    \/ Denied \/ Ended("kill") \/ Ended("error")
    \/ \E f \in Files : Agent(f) \/ Install(f)

Spec == Init /\ [][Next]_vars

\* A run goes on until it ends, and the playbook is run again, not for ever with --check.
FairSpec ==
    /\ Spec
    /\ WF_vars(Begin) /\ WF_vars(Run)
    /\ SF_vars(Begin /\ check' = FALSE)

-------------------------------------------------------------------------------

\* "A truncating write interrupted partway leaves the agent running with no hook and no deny list":
\* wherever a run ends, the file under the agent's name is whole unless the agent itself is half
\* way through writing it.
NeverTorn ==
    \A f \in Files : file[f] = Torn => writing[f] # Nobody /\ writing[f].by = "here"

\* "The originals are copied aside first": what a run replaces has been copied aside as it was when
\* it was replaced, unless the agent wrote it in the short time since the copy.
ReplacedAside ==
    [][\A f \in Files :
          file'[f] # file[f] /\ temp'[f] # temp[f] => file[f] \in backups[f] \/ written = "copied"]_vars

\* A run takes out nothing that the record names, and touches no file for which the record or the
\* file has no list of strings, unless the agent wrote the file behind its back.
RecordedStay ==
    [][\A f \in Files :
          file'[f] # file[f] /\ temp'[f] # temp[f] =>
             \/ written # "no"
             \/ /\ record[f] # NoList /\ file[f].deny # NoList
                /\ file'[f] = [file[f] EXCEPT !.deny = @ \cap record[f]]]_vars

\* A replacement loses nothing: neither a rule that faramir recorded nor, for good, any other.
SoundReplacement == ReplacedAside /\ RecordedStay

\* "After this, an agent deny list is exactly what faramir renders and nothing else": in the end
\* nothing is left that the record does not name, whatever runs were cut off and whatever the agent
\* wrote back from memory.
Exact ==
    \A f \in Files :
        <>[](file[f] = Torn \/ file[f].deny = NoList \/ record[f] = NoList \/ file[f].deny \subseteq record[f])

-------------------------------------------------------------------------------
(* Why: what the steps preserve together *)

\* faramir records no rules during a run, so what the run has read of the record is true.
RecordRead == pc # "idle" => keep = record

\* What a run loaded is prunable, and what its file holds unless the agent has written it since.
LoadedTrue ==
    pc \in {"copy", "stage", "replace"} =>
        /\ keep[at] # NoList /\ loaded.deny # NoList
        /\ written = "no" => file[at] = loaded

\* From the copy on, what the file holds is set aside unless the agent has written it since.
SetAside == pc \in {"stage", "replace"} /\ written # "copied" => file[at] \in backups[at]

\* What is about to replace the file is what was loaded, pruned, whatever was there under the
\* temporary name.
Staged == pc = "replace" => temp[at] = Prune(loaded, keep[at])

PruneInv == NeverTorn /\ RecordRead /\ LoadedTrue /\ SetAside /\ Staged
===============================================================================
