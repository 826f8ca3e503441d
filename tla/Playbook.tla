-------------------------------- MODULE Playbook -------------------------------
(***************************************************************************)
(* One invocation of bin/playbook.py run: the refusals, the listing, the   *)
(* way to the credentials with its re-entry under sudo, the preflight      *)
(* probe, the become prompt, and the child ansible-playbook with the       *)
(* signals that reach it. Hosts go up and down, and the credential store   *)
(* comes and goes with the operator's home, between any two steps: each    *)
(* look at one of them finds anything.                                     *)
(*                                                                         *)
(* A playbook is what the dispatcher can tell of it. A message is only     *)
(* whether one stopped the run, and why.                                   *)
(***************************************************************************)
EXTENDS Naturals, FiniteSets

CONSTANTS
    Hosts,      \* the inventory
    Controller  \* the host that runs the dispatcher

ASSUME ControllerAssumption == Controller \in Hosts

VARIABLES
    play,      \* the playbook: required, delegates, targets, and the controller group
    typed,     \* the knobs on the operator's command line
    pc,        \* where run() is
    root,      \* is_root()
    knobs,     \* the knobs in this process's environment
    carried,   \* PLAYBOOK_LISTED_HOSTS in it, {} when unset
    hosts,     \* run_hosts
    roles,     \* whether a listed role delegates to localhost
    route,     \* how the credentials are reached
    off,       \* what the probe dropped
    prompt,    \* whether BECOME_PROMPT was passed
    escalated, \* whether sudo was entered
    child,     \* the process run_child() starts
    held,      \* SIGTERM in pending
    term,      \* what became of a SIGTERM: none, held, sent, took
    int,       \* what became of a Ctrl-C: none, lost, child, took
    applied,   \* the hosts the playbook has acted on
    why        \* why the run ended

procVars == <<pc, root, knobs, carried>>
planVars == <<hosts, roles, route, off, prompt, escalated>>
childVars == <<child, held, term, int, applied>>
givenVars == <<play, typed>>
vars == <<procVars, planVars, childVars, why, givenVars>>

Plays == [required : BOOLEAN, delegates : BOOLEAN, targets : SUBSET Hosts, group : SUBSET {Controller}]
Knobs == [secretsNone : BOOLEAN, askPass : BOOLEAN, preflightNone : BOOLEAN]

\* The store is readable, provably missing, or behind a directory that answers nothing.
Views == {"readable", "missing", "unseen"}

\* From "installed" to "waiting" run_child() has its handlers in place.
InChild == {"installed", "forked", "started", "waiting"}
Steps == {"refuse", "hosts", "list", "secrets", "sudo", "probe", "flag"} \cup InChild \cup {"done"}
Reasons ==
    {"none", "refused", "listing", "store", "sudo", "dropped", "interrupted", "terminated", "error", "playbook"}

TypeOK ==
    /\ play \in Plays
    /\ typed \in Knobs
    /\ pc \in Steps
    /\ root \in BOOLEAN
    /\ knobs \in Knobs
    /\ carried \subseteq Hosts
    /\ hosts \subseteq Hosts
    /\ roles \in BOOLEAN
    /\ route \in {"unset", "none", "sops"}
    /\ off \subseteq Hosts
    /\ prompt \in BOOLEAN
    /\ escalated \in BOOLEAN
    /\ child \in {"none", "forked", "running", "exited"}
    /\ held \in BOOLEAN
    /\ term \in {"none", "held", "sent", "took"}
    /\ int \in {"none", "lost", "child", "took"}
    /\ applied \subseteq Hosts
    /\ why \in Reasons

\* Run by the operator or by root, with whatever an operator's shell was left with.
Init ==
    /\ play \in Plays
    /\ typed \in Knobs
    /\ pc = "refuse"
    /\ root \in BOOLEAN
    /\ knobs = typed
    /\ carried \in SUBSET Hosts
    /\ root => carried = {}
    /\ hosts = {} /\ roles = FALSE /\ route = "unset" /\ off = {} /\ prompt = FALSE /\ escalated = FALSE
    /\ child = "none" /\ held = FALSE /\ term = "none" /\ int = "none" /\ applied = {}
    /\ why = "none"

-------------------------------------------------------------------------------
(* Decisions *)

\* carried_hosts
CarriedHosts == IF root THEN carried ELSE {}

\* Mutant: a store root cannot read either is gone without.
SecretsRoutesLenient(view) ==
    IF knobs.secretsNone THEN {"none"}
    ELSE IF view = "readable" THEN {"sops"}
    ELSE IF play.required /\ ~ root /\ view # "missing" THEN {"sudo"} ELSE {"none"}

\* secrets_route, every answer it may give for what is seen of the store, which sops may open
\* or not.
SecretsRoutes(view) ==
    IF knobs.secretsNone THEN {"none"}
    ELSE IF play.required
    THEN IF view = "readable" THEN {"sops"}
         ELSE IF root \/ view = "missing" THEN {"refuse"} ELSE {"sudo"}
    ELSE IF view = "readable" THEN {"sops", "none"} ELSE {"none"}

\* Mutant: sudo resets the environment and nothing names the knobs again.
ForgottenKnobs == [k \in DOMAIN knobs |-> FALSE]

\* sudo_command: what is named again for the environment sudo resets.
CarriedKnobs == knobs

\* become_flag
BecomeFlag ==
    /\ ~ root
    /\ knobs.askPass \/ play.group = {} \/ play.group \cap hosts # {} \/ roles

\* The hosts of the --limit that preflight_outcome appends, all of them without a drop.
Reachable == hosts \ off

\* What the child acts on: what the playbook targets, within the limit.
Limited == IF off = {} THEN play.targets ELSE play.targets \cap Reachable

-------------------------------------------------------------------------------
(* run() *)

Goto(place) == pc' = place

End(reason) == pc' = "done" /\ why' = reason

\* refuse_invocation: stray assignments, or arguments make dropped. A re-entry has neither.
RefuseInvocation ==
    /\ pc = "refuse"
    /\ \/ ~ escalated /\ End("refused")
       \/ Goto("hosts") /\ UNCHANGED why
    /\ UNCHANGED <<root, knobs, carried, planVars, childVars, givenVars>>

\* Mutant: the re-entry lists its hosts again.
ListAgain ==
    /\ pc = "hosts"
    /\ Goto("list")
    /\ UNCHANGED <<root, knobs, carried, planVars, childVars, why, givenVars>>

\* The re-entry takes the hosts it was given, any other run lists its own.
TakeHosts ==
    /\ pc = "hosts"
    /\ IF CarriedHosts # {}
       THEN hosts' = CarriedHosts /\ Goto("secrets")
       ELSE Goto("list") /\ UNCHANGED hosts
    /\ UNCHANGED <<root, knobs, carried, roles, route, off, prompt, escalated, childVars, why, givenVars>>

\* version_refusal, the listing and listing_refusal.
List ==
    /\ pc = "list"
    /\ \/ End("listing") /\ UNCHANGED <<hosts, roles>>
       \/ /\ play.targets # {}
          /\ hosts' = play.targets /\ roles' = play.delegates
          /\ Goto("secrets") /\ UNCHANGED why
    /\ UNCHANGED <<root, knobs, carried, route, off, prompt, escalated, childVars, givenVars>>

Secrets ==
    /\ pc = "secrets"
    /\ \E view \in Views : \E r \in SecretsRoutes(view) :
          \/ r = "refuse" /\ End("store") /\ UNCHANGED route
          \/ r = "sudo" /\ Goto("sudo") /\ UNCHANGED <<route, why>>
          \/ /\ r \in {"none", "sops"} /\ route' = r
             /\ Goto(IF knobs.preflightNone THEN "flag" ELSE "probe") /\ UNCHANGED why
    /\ UNCHANGED <<root, knobs, carried, hosts, roles, off, prompt, escalated, childVars, givenVars>>

\* Mutant: the re-entry runs as the operator again.
SudoAsOperator ==
    /\ pc = "sudo"
    /\ escalated' = TRUE
    /\ \/ End("sudo") /\ UNCHANGED <<root, knobs, carried, hosts, roles>>
       \/ /\ Goto("refuse") /\ UNCHANGED root
          /\ knobs' = CarriedKnobs /\ carried' = hosts
          /\ hosts' = {} /\ roles' = FALSE
          /\ UNCHANGED why
    /\ UNCHANGED <<route, off, prompt, childVars, givenVars>>

\* execvp of sudo, which refuses the operator or runs the dispatcher again as root.
Sudo ==
    /\ pc = "sudo"
    /\ escalated' = TRUE
    /\ \/ End("sudo") /\ UNCHANGED <<root, knobs, carried, hosts, roles>>
       \/ /\ Goto("refuse") /\ root' = TRUE
          /\ knobs' = CarriedKnobs /\ carried' = hosts
          /\ hosts' = {} /\ roles' = FALSE
          /\ UNCHANGED why
    /\ UNCHANGED <<route, off, prompt, childVars, givenVars>>

\* The probe drops what does not answer in time; preflight_outcome stops a run that has nobody
\* left.
Probe ==
    /\ pc = "probe"
    /\ \E dropped \in SUBSET hosts :
          /\ off' = dropped
          /\ IF hosts \subseteq dropped THEN End("dropped") ELSE Goto("flag") /\ UNCHANGED why
    /\ UNCHANGED <<root, knobs, carried, hosts, roles, route, prompt, escalated, childVars, givenVars>>

Flag ==
    /\ pc = "flag"
    /\ prompt' = BecomeFlag
    /\ Goto("installed")
    /\ UNCHANGED <<root, knobs, carried, hosts, roles, route, off, escalated, childVars, why, givenVars>>

-------------------------------------------------------------------------------
(* run_child() *)

\* Popen: the fork, and then the exec, or the error it returns.
Fork ==
    /\ pc = "installed"
    /\ child' = "forked"
    /\ Goto("forked")
    /\ UNCHANGED <<root, knobs, carried, planVars, held, term, int, applied, why, givenVars>>

Exec ==
    /\ pc = "forked"
    /\ \/ child' = "running" /\ Goto("started") /\ UNCHANGED why
       \/ child' = "exited" /\ End("error")
    /\ UNCHANGED <<root, knobs, carried, planVars, held, term, int, applied, givenVars>>

\* Mutant: what arrived before Popen returned is forgotten.
SendNothing ==
    /\ pc = "started"
    /\ held' = FALSE
    /\ Goto("waiting")
    /\ UNCHANGED <<root, knobs, carried, planVars, child, term, int, applied, why, givenVars>>

\* Popen has returned: what is pending is sent on.
SendPending ==
    /\ pc = "started"
    /\ held' = FALSE
    /\ term' = IF held THEN "sent" ELSE term
    /\ Goto("waiting")
    /\ UNCHANGED <<root, knobs, carried, planVars, child, int, applied, why, givenVars>>

Wait ==
    /\ pc = "waiting" /\ child = "exited"
    /\ End("playbook")
    /\ UNCHANGED <<root, knobs, carried, planVars, childVars, givenVars>>

-------------------------------------------------------------------------------
(* Signals *)

\* SIGTERM or SIGHUP, sent to the dispatcher alone. Held while there is no child to name.
Terminate ==
    /\ term = "none" /\ pc # "done"
    /\ \/ /\ pc \notin InChild
          /\ term' = "took" /\ End("terminated") /\ UNCHANGED held
       \/ /\ pc \in {"installed", "forked"}
          /\ term' = "held" /\ held' = TRUE /\ UNCHANGED <<pc, why>>
       \/ /\ pc \in {"started", "waiting"}
          /\ term' = "sent" /\ UNCHANGED <<held, pc, why>>
    /\ UNCHANGED <<root, knobs, carried, planVars, child, int, applied, givenVars>>

\* Mutant: no handler for SIGINT, the wait for the child ends in KeyboardInterrupt.
InterruptWait ==
    /\ int = "none" /\ pc # "done"
    /\ int' = (IF child # "none" THEN "child" ELSE "took")
    /\ End("interrupted")
    /\ UNCHANGED <<root, knobs, carried, planVars, child, held, term, applied, givenVars>>

\* A Ctrl-C reaches the foreground process group. Before run_child() it ends the dispatcher; its
\* handler does nothing, so only a child takes it: one that has yet to exec finds it pending,
\* signals being blocked across the fork.
Interrupt ==
    /\ int = "none" /\ pc # "done"
    /\ IF pc \notin InChild
       THEN int' = "took" /\ End("interrupted")
       ELSE int' = (IF child = "none" THEN "lost" ELSE "child") /\ UNCHANGED <<pc, why>>
    /\ UNCHANGED <<root, knobs, carried, planVars, child, held, term, applied, givenVars>>

-------------------------------------------------------------------------------
(* ansible-playbook *)

\* The playbook acts on a host. Its pre_tasks assert that the credentials it requires arrived;
\* under sops it is not run at all without them.
Apply ==
    /\ child = "running"
    /\ play.required => route = "sops" \/ knobs.secretsNone
    /\ \E h \in Limited \ applied : applied' = applied \cup {h}
    /\ UNCHANGED <<procVars, planVars, child, held, term, int, why, givenVars>>

\* It ends when it is done, or by a signal it took.
ChildExits ==
    /\ child = "running"
    /\ child' = "exited"
    /\ UNCHANGED <<procVars, planVars, held, term, int, applied, why, givenVars>>

-------------------------------------------------------------------------------

Dispatch ==
    \/ RefuseInvocation \/ TakeHosts \/ List \/ Secrets \/ Sudo \/ Probe \/ Flag
    \/ Fork \/ Exec \/ SendPending \/ Wait

Next ==
    \/ Dispatch \/ Terminate \/ Interrupt
    \/ Apply \/ ChildExits

Spec == Init /\ [][Next]_vars

\* The dispatcher goes on by itself; nothing says that the playbook ever ends.
FairSpec == Spec /\ WF_vars(Dispatch)

-------------------------------------------------------------------------------

\* "A credential playbook is refused rather than run without it": the child of one is started
\* under sops, by whichever process of the run, unless the operator typed SECRETS=none.
CredentialedOrRefused ==
    child # "none" /\ play.required => route = "sops" \/ typed.secretsNone

\* What the operator typed holds across the re-entry: a run with PREFLIGHT=none drops no host,
\* and one with SECRETS=none never goes to the store.
KnobsReachTheRun ==
    /\ typed.preflightNone => off = {}
    /\ typed.secretsNone => route # "sops" /\ ~ escalated

\* "A run the listing refuses asks for no password or escalation first."
RefusedBeforeAsking == why = "listing" => ~ escalated /\ ~ prompt

\* "A value left in an operator's shell lists nothing away": the hosts of a run are those its
\* playbook targets, whichever process listed them.
ListsItsOwn == hosts # {} => hosts = play.targets

\* "The one host whose sudo asks": an unprivileged run that may reach the controller's sudo, by
\* its hosts or by a role that delegates to localhost, was started with the prompt.
PromptsForController ==
    child # "none" /\ ~ root /\ (play.group \cap play.targets # {} \/ play.delegates \/ play.group = {})
    => prompt

\* Whatever sudo resets and whoever lists again, the run is the one the operator typed: its knobs
\* and its hosts are the same on both sides of the re-entry.
SameRun == KnobsReachTheRun /\ ListsItsOwn

\* A password is asked for neither too early, for a run that is then refused, nor too late, when a
\* task is the first to need it.
AsksInTime == RefusedBeforeAsking /\ PromptsForController

\* The dispatcher "outlives them rather than leaving the child behind": no run has ended whose
\* child has not.
NoOrphan == pc = "done" => child \in {"none", "exited"}

\* "One arriving before Popen returns is held and sent once it does": a SIGTERM that is held
\* reaches the child or finds it never started.
TermPassedOn == term = "held" ~> term = "sent" \/ pc = "done"

\* A run ends by itself, or gets as far as waiting for its playbook.
RunGetsThere == <>(pc \in {"waiting", "done"})

-------------------------------------------------------------------------------
(* What the proofs strengthen the properties by *)

\* The places past the route to the credentials, from which the child can be reached.
Routed == {"probe", "flag"} \cup InChild

\* run_child() has the child its place says.
ChildInPlace ==
    /\ pc \notin {"forked", "started", "waiting"} => child \in {"none", "exited"}
    /\ pc \notin {"forked", "started", "waiting", "done"} => child = "none"
    /\ pc = "forked" => child = "forked"
    /\ pc \in {"started", "waiting"} => child \in {"running", "exited"}
    /\ child = "none" => applied = {}

\* The knobs and the hosts that sudo is given are those of the run it continues.
ReentryKeeps ==
    /\ knobs = typed
    /\ root => carried \in {{}, play.targets}
    /\ pc \in {"secrets", "sudo"} \cup Routed => hosts # {}
    /\ hosts # {} /\ ~ root => roles = play.delegates

\* sudo is entered once: who comes back is root and has the hosts listed.
ReentryOnce ==
    /\ escalated /\ pc # "done" => root /\ carried # {} /\ pc \notin {"list", "sudo"}
    /\ pc = "sudo" => ~ root /\ ~ knobs.secretsNone
    /\ pc \notin InChild \cup {"done"} => ~ prompt
    /\ why = "none" <=> pc # "done"

\* Nothing is dropped before the probe, nor by a run told to skip it.
DroppedByProbe ==
    /\ off # {} => pc \in {"flag", "done"} \cup InChild
    /\ pc = "probe" => ~ knobs.preflightNone
    /\ why = "dropped" => child = "none"
    /\ applied \subseteq Limited

\* The route is settled before anything is probed or started.
RouteSettled ==
    play.required /\ (pc \in Routed \/ child # "none") => route = "sops" \/ knobs.secretsNone

\* The prompt is settled before run_child().
PromptSettled ==
    pc \in InChild \/ child # "none" => (BecomeFlag => prompt) /\ hosts # {}

PlaybookInv ==
    /\ ChildInPlace
    /\ ReentryKeeps
    /\ ReentryOnce
    /\ DroppedByProbe
    /\ RouteSettled
    /\ PromptSettled
    /\ KnobsReachTheRun
    /\ ListsItsOwn
    /\ RefusedBeforeAsking
===============================================================================
