----------------------------- MODULE LutrisLaunch ------------------------------
(***************************************************************************)
(* The runs of lutris-launch-game.py on one wine prefix: the per-prefix    *)
(* lock, the look at the prefix's session, its teardown, the hand-off to   *)
(* Lutris or to the session's client, the wait for a window, and how each  *)
(* run ends. Lutris, the prefix's processes and the user move on their own *)
(* between any two steps of a run. /proc is what the runs see of them.     *)
(*                                                                         *)
(* A wait with a deadline may end at any time: which of its reasons comes  *)
(* first is left open, the lengths of the waits being data. A notification *)
(* is its kind.                                                            *)
(***************************************************************************)
EXTENDS Naturals, FiniteSets

CONSTANTS
    Launchers,  \* the runs, one per click
    Slug,       \* the game each one launches
    Gamescope,  \* the runs whose game Lutris starts under gamescope
    Handoff,    \* the runs for which entry_launch returns a command
    RuntimeDir, \* whether XDG_RUNTIME_DIR names a directory to lock in
    Xwininfo,   \* whether xwininfo is on PATH
    Faults,     \* what may go wrong, see FaultKinds
    User,       \* the Lutris instance the user opened as a window
    Nobody

FaultKinds ==
    {"crash",     \* a run dies of a signal it does not handle
     "interrupt", \* a run gets SIGINT
     "teardown",  \* a teardown stops at an OSError
     "spawn",     \* flatpak run cannot be started
     "lutris",    \* Lutris fails or is killed
     "blocked",   \* a process outlives its SIGKILL
     "xwininfo",  \* xwininfo fails or times out
     "twice"}     \* a Lutris instance runs two games in the prefix at once

ASSUME RuntimeDirAssumption == RuntimeDir \in BOOLEAN
ASSUME InstancesAssumption ==
    /\ User \notin Launchers
    /\ Nobody \notin Launchers
    /\ User # Nobody

VARIABLES
    pc,        \* where each run is
    lock,      \* who holds the flock, or Nobody
    told,      \* each run's notification: nothing, progress, already, failure
    code,      \* the exit code a run has settled on
    targets,   \* <<m, stage>>: the processes of m that teardown() found, and how far m was
    owners,    \* the Lutris instances teardown() found
    survivors, \* what teardown() returned
    display,   \* whose nested display wait_for_window() watches
    wineSeen,  \* whether wait_for_window() has set wine_since
    shown,     \* what wait_for_window() returned
    child,     \* each run's flatpak run
    bus,       \* the Lutris instance on the session bus, named by whose flatpak run it is
    quitting,  \* whether that instance is shutting itself down
    sess,      \* how far the processes started for each run's request are
    via        \* the instance that took each run's request

runVars == <<pc, lock, told, code>>
teardownVars == <<targets, owners, survivors>>
waitVars == <<display, wineSeen, shown>>
lutrisVars == <<child, bus, quitting>>
sessVars == <<sess, via>>
vars == <<runVars, teardownVars, waitVars, lutrisVars, sessVars>>

-------------------------------------------------------------------------------
(* Types *)

\* The program points of main(). From "decide" to "unlock" the lock is held.
Teardown == {"scan", "warn", "term", "grace", "owners"}
Critical == {"decide", "handoff", "handing", "spawn", "window", "unlock"} \cup Teardown
Waiting == {"acquire", "ask", "waiting"}
Places == {"off", "childwait", "done", "dead"} \cup Waiting \cup Critical

\* asked: Lutris has the request. pre: processes carry the prefix. wine: its wineserver is up.
\* shown: the game or its client has a window. blocked: in /proc, killed and stuck in the kernel.
Stages == {"none", "asked", "pre", "wine", "shown", "blocked"}
InProc == {"pre", "wine", "shown", "blocked"}
Instances == Launchers \cup {User, Nobody}
Children == {"none", "up", "ok", "failed", "killed"}

TypeOK ==
    /\ pc \in [Launchers -> Places]
    /\ lock \in Launchers \cup {Nobody}
    /\ told \in [Launchers -> {"nothing", "progress", "already", "failure"}]
    /\ code \in [Launchers -> {"none", "zero", "nonzero"}]
    /\ targets \in [Launchers -> SUBSET (Launchers \X InProc)]
    /\ owners \in [Launchers -> SUBSET (Launchers \cup {User})]
    /\ survivors \in [Launchers -> SUBSET Launchers]
    /\ display \in [Launchers -> Launchers \cup {Nobody}]
    /\ wineSeen \in [Launchers -> BOOLEAN]
    /\ shown \in [Launchers -> BOOLEAN]
    /\ child \in [Launchers -> Children]
    /\ bus \in Instances
    /\ quitting \in BOOLEAN
    /\ sess \in [Launchers -> Stages]
    /\ via \in [Launchers -> Instances]

Init ==
    /\ pc = [l \in Launchers |-> "off"]
    /\ lock = Nobody
    /\ told = [l \in Launchers |-> "nothing"]
    /\ code = [l \in Launchers |-> "none"]
    /\ targets = [l \in Launchers |-> {}]
    /\ owners = [l \in Launchers |-> {}]
    /\ survivors = [l \in Launchers |-> {}]
    /\ display = [l \in Launchers |-> Nobody]
    /\ wineSeen = [l \in Launchers |-> FALSE]
    /\ shown = [l \in Launchers |-> FALSE]
    /\ child = [l \in Launchers |-> "none"]
    /\ bus = Nobody
    /\ quitting = FALSE
    /\ sess = [l \in Launchers |-> "none"]
    /\ via = [l \in Launchers |-> Nobody]

-------------------------------------------------------------------------------
(* What a run reads of /proc, of the nested display and of its own children *)

\* prefix_pids: the launches that have a process carrying the prefix.
Carriers == {m \in Launchers : sess[m] \in InProc}

\* Those of S with a process named wineserver; one stuck in the kernel keeps its name.
Wineservers(S) == {m \in S : sess[m] \in {"wine", "shown", "blocked"}}

\* Those of S whose processes carry a gamescope display.
Displays(S) == Wineservers(S) \cap Gamescope

\* What xwininfo says of a display; when it fails it says nothing.
Windowed(d) == d # Nobody /\ sess[d] = "shown"
Windowless(d) == ~ Windowed(d) \/ "xwininfo" \in Faults

\* session_state: every answer it may give. The first display met in /proc is the one asked.
\* Without gamescope the images decide, and neither a game in the client's directory nor a
\* client that runs outside it is told apart.
SessionStates(l) ==
    IF Displays(Carriers) # {}
    THEN IF Xwininfo
         THEN {s \in {"running", "stopped"} :
                 \E d \in Displays(Carriers) : IF s = "running" THEN Windowed(d) ELSE Windowless(d)}
         ELSE {"stopped"}
    ELSE IF Wineservers(Carriers) = {}
    THEN {"stopped"}
    ELSE IF l \notin Handoff /\ \E m \in Carriers : sess[m] = "shown"
    THEN {"running"}
    ELSE {"running", "idle"}

\* Whether a Lutris instance still has processes: the bus owner, or a flatpak run still up.
InstanceUp(o) == o # Nobody /\ (o = bus \/ (o \in Launchers /\ child[o] = "up"))

\* Mutant: no walk for the rungame of this slug, the instance of a game that is gone is missed.
RungameInstancesMissed(l) == {}

\* rungame_pids
RungameInstances(l) == {o \in Launchers : InstanceUp(o) /\ Slug[o] = Slug[l]}

\* sandbox_ancestors of the prefix's processes: the Lutris of each, unless its wrapper is gone.
SandboxAncestors(orphaned) == {o \in {via[m] : m \in Carriers \ orphaned} : InstanceUp(o)}

\* Whose run of this launcher is a process that can be signalled.
Running(l) == pc[l] \notin {"off", "done", "dead"}

\* The launches among the targets whose processes are still up.
Targeted(l) == {m \in Carriers : \E s \in InProc : <<m, s>> \in targets[l]}

\* A wineserver forked after teardown() read /proc is in no set it signals.
Joined(l, m) == <<m, "pre">> \in targets[l] /\ sess[m] \in {"wine", "shown"}

-------------------------------------------------------------------------------
(* Steps of a run *)

Goto(l, place) == pc' = [pc EXCEPT ![l] = place]
Tell(l, what) == told' = [told EXCEPT ![l] = what]
Settle(l, c) == code' = [code EXCEPT ![l] = c]

\* What a run keeps in memory while it holds the lock.
Forget(l) ==
    /\ targets' = [targets EXCEPT ![l] = {}]
    /\ owners' = [owners EXCEPT ![l] = {}]
    /\ survivors' = [survivors EXCEPT ![l] = {}]
    /\ display' = [display EXCEPT ![l] = Nobody]
    /\ wineSeen' = [wineSeen EXCEPT ![l] = FALSE]

Click(l) ==
    /\ pc[l] = "off"
    /\ Goto(l, "acquire")
    /\ UNCHANGED <<lock, told, code, teardownVars, waitVars, lutrisVars, sessVars>>

\* acquire(): flock taken, at once or after waiting. Without a runtime directory nothing guards.
Acquire(l) ==
    /\ pc[l] \in {"acquire", "waiting"}
    /\ lock = Nobody
    /\ lock' = IF RuntimeDir THEN l ELSE Nobody
    /\ Goto(l, "decide")
    /\ UNCHANGED <<told, code, teardownVars, waitVars, lutrisVars, sessVars>>

\* acquire(): the lock turns out to be taken.
FindHeld(l) ==
    /\ pc[l] = "acquire"
    /\ lock # Nobody
    /\ Goto(l, "ask")
    /\ UNCHANGED <<lock, told, code, teardownVars, waitVars, lutrisVars, sessVars>>

\* Mutant: a holder without a running session is taken for one that is gone.
AskInUseGoesOn(l) ==
    /\ pc[l] = "ask"
    /\ Goto(l, IF "stopped" \in SessionStates(l) THEN "decide" ELSE "done")
    /\ UNCHANGED <<lock, told, code, teardownVars, waitVars, lutrisVars, sessVars>>

\* in_use(), asked once; main() reports a session as already running.
AskInUse(l) ==
    /\ pc[l] = "ask"
    /\ \/ /\ \E s \in SessionStates(l) : s # "stopped"
          /\ Goto(l, "done") /\ Tell(l, "already") /\ Settle(l, "zero")
       \/ /\ "stopped" \in SessionStates(l)
          /\ Goto(l, "waiting") /\ Tell(l, "progress") /\ UNCHANGED code
    /\ UNCHANGED <<lock, teardownVars, waitVars, lutrisVars, sessVars>>

\* acquire(): LOCK_WAIT_SECONDS are over and the lock is still held.
Busy(l) ==
    /\ pc[l] = "waiting"
    /\ lock # Nobody
    /\ Goto(l, "done") /\ Tell(l, "failure") /\ Settle(l, "nonzero")
    /\ UNCHANGED <<lock, teardownVars, waitVars, lutrisVars, sessVars>>

\* main(): the session decides between the hand-off, leaving it alone and the teardown.
Decide(l) ==
    /\ pc[l] = "decide"
    /\ \E s \in SessionStates(l) :
          \/ /\ s = "idle" /\ l \in Handoff
             /\ Goto(l, "handoff") /\ UNCHANGED <<told, code>>
          \/ /\ s = "running" \/ (s = "idle" /\ l \notin Handoff)
             /\ Goto(l, "unlock") /\ Tell(l, "already") /\ Settle(l, "zero")
          \/ /\ s = "stopped"
             /\ Goto(l, "scan") /\ Tell(l, "progress") /\ UNCHANGED code
    /\ UNCHANGED <<lock, teardownVars, waitVars, lutrisVars, sessVars>>

\* handoff(): the session may have gone since it was found idle.
BeginHandoff(l) ==
    /\ pc[l] = "handoff"
    /\ IF Wineservers(Carriers) = {}
       THEN Goto(l, "unlock") /\ Tell(l, "failure") /\ Settle(l, "nonzero")
       ELSE Goto(l, "handing") /\ Tell(l, "progress") /\ UNCHANGED code
    /\ UNCHANGED <<lock, teardownVars, waitVars, lutrisVars, sessVars>>

\* handoff(): flatpak enter exits, fails to start, or outlives HANDOFF_SECONDS and is left to run.
EndHandoff(l) ==
    /\ pc[l] = "handing"
    /\ Goto(l, "unlock")
    /\ \/ Tell(l, "progress") /\ Settle(l, "zero")
       \/ Tell(l, "failure") /\ Settle(l, "nonzero")
    /\ UNCHANGED <<lock, teardownVars, waitVars, lutrisVars, sessVars>>

\* teardown(): the walks of /proc. A leftover session's wrapper may have gone.
Scan(l) ==
    /\ pc[l] = "scan"
    /\ \E orphaned \in SUBSET {m \in Carriers : sess[m] \in {"wine", "blocked"}} :
          owners' = [owners EXCEPT ![l] = SandboxAncestors(orphaned) \cup RungameInstances(l)]
    /\ targets' = [targets EXCEPT ![l] = {<<m, sess[m]>> : m \in Carriers}]
    /\ Goto(l, "warn")
    /\ UNCHANGED <<lock, told, code, survivors, waitVars, lutrisVars, sessVars>>

\* Mutant: the earlier launchers are not terminated first.
WarnNobody(l) ==
    /\ pc[l] = "warn"
    /\ Goto(l, IF targets[l] = {} THEN "owners" ELSE "term")
    /\ UNCHANGED <<lock, told, code, teardownVars, waitVars, lutrisVars, sessVars>>

\* teardown(): SIGTERM to the runs that started the owners, before their Lutris goes.
WarnLaunchers(l) ==
    /\ pc[l] = "warn"
    /\ pc' = [m \in Launchers |->
                IF m = l THEN IF targets[l] = {} THEN "owners" ELSE "term"
                ELSE IF m \in owners[l] /\ Running(m) THEN "dead" ELSE pc[m]]
    /\ UNCHANGED <<lock, told, code, teardownVars, waitVars, lutrisVars, sessVars>>

\* teardown(): SIGTERM to the processes found. Some of them ignore it.
Terminate(l) ==
    /\ pc[l] = "term"
    /\ \E died \in SUBSET {m \in Targeted(l) : sess[m] # "blocked"} :
          /\ sess' = [m \in Launchers |->
                        IF m \notin died THEN sess[m] ELSE IF Joined(l, m) THEN "wine" ELSE "none"]
          /\ targets' = [targets EXCEPT ![l] = {t \in @ : t[1] \in Targeted(l) \ died}]
    /\ Goto(l, "grace")
    /\ UNCHANGED <<lock, told, code, owners, survivors, waitVars, lutrisVars, via>>

\* teardown(): after the grace period, SIGKILL to what is left, and what is still in /proc after it.
Kill(l) ==
    /\ pc[l] = "grace"
    /\ \E blocked \in SUBSET {m \in Targeted(l) : sess[m] # "pre" /\ ~ Joined(l, m)} :
          /\ blocked = {} \/ "blocked" \in Faults
          /\ sess' = [m \in Launchers |->
                        IF m \in blocked THEN "blocked"
                        ELSE IF m \notin Targeted(l) THEN sess[m]
                        ELSE IF Joined(l, m) THEN "wine" ELSE "none"]
          /\ survivors' = [survivors EXCEPT ![l] = blocked]
    /\ targets' = [targets EXCEPT ![l] = {}]
    /\ Goto(l, "owners")
    /\ UNCHANGED <<lock, told, code, owners, waitVars, lutrisVars, via>>

\* teardown(): the owners have exited, or LUTRIS_EXIT_SECONDS are over and some are left.
AwaitOwners(l) ==
    /\ pc[l] = "owners"
    /\ owners' = [owners EXCEPT ![l] = {o \in @ : InstanceUp(o)}]
    /\ Goto(l, "spawn")
    /\ UNCHANGED <<lock, told, code, targets, survivors, waitVars, lutrisVars, sessVars>>

\* main(): an OSError out of teardown() ends it, survivors unknown, and the launch goes on.
TeardownError(l) ==
    /\ "teardown" \in Faults
    /\ pc[l] \in Teardown
    /\ Goto(l, "spawn")
    /\ targets' = [targets EXCEPT ![l] = {}]
    /\ owners' = [owners EXCEPT ![l] = {}]
    /\ survivors' = [survivors EXCEPT ![l] = {}]
    /\ UNCHANGED <<lock, told, code, waitVars, lutrisVars, sessVars>>

\* main(): flatpak run is started.
Spawn(l) ==
    /\ pc[l] = "spawn"
    /\ child' = [child EXCEPT ![l] = "up"]
    /\ Goto(l, "window")
    /\ UNCHANGED <<lock, told, code, teardownVars, waitVars, bus, quitting, sessVars>>

\* main(): Popen raises, and only the finally clause runs.
SpawnError(l) ==
    /\ "spawn" \in Faults
    /\ pc[l] = "spawn"
    /\ Goto(l, "unlock") /\ Settle(l, "nonzero")
    /\ UNCHANGED <<lock, told, teardownVars, waitVars, lutrisVars, sessVars>>

-------------------------------------------------------------------------------
(* wait_for_window(), one action for each way a poll goes *)

\* Mutant: the wait excludes only the run's own processes.
VisibleWithSurvivors(l) == Carriers

\* What a poll sees of the prefix: the survivors are excluded by pid.
Visible(l) == Carriers \ survivors[l]

\* sandbox_pids is empty.
SandboxEmpty(l) ==
    /\ bus = Nobody
    /\ \A m \in Launchers : child[m] # "up"
    /\ Visible(l) = {}

\* The display the poll watches: the first one found stays.
Watched(l) ==
    IF display[l] # Nobody THEN {display[l]}
    ELSE IF Xwininfo /\ Displays(Visible(l)) # {} THEN Displays(Visible(l))
    ELSE {Nobody}

EndWait(l, result) ==
    /\ pc[l] = "window"
    /\ Goto(l, "unlock")
    /\ shown' = [shown EXCEPT ![l] = result]
    /\ UNCHANGED <<lock, code, teardownVars, display, wineSeen, lutrisVars, sessVars>>

PollChildFailed(l) ==
    /\ child[l] \in {"failed", "killed"}
    /\ EndWait(l, FALSE)
    /\ UNCHANGED told

PollWindow(l) ==
    /\ child[l] \in {"up", "ok"}
    /\ \E d \in Watched(l) : Windowed(d)
    /\ EndWait(l, TRUE)
    /\ Tell(l, "nothing")

PollSandboxEmpty(l) ==
    /\ child[l] = "ok"
    /\ SandboxEmpty(l)
    /\ EndWait(l, FALSE)
    /\ Tell(l, "failure")

\* A wineserver for NO_GAMESCOPE_SECONDS and no display: the window is taken as shown.
PollNoGamescope(l) ==
    /\ child[l] \in {"up", "ok"}
    /\ wineSeen[l]
    /\ Nobody \in Watched(l)
    /\ Wineservers(Visible(l)) # {}
    /\ EndWait(l, TRUE)
    /\ UNCHANGED told

\* A poll that ends nothing but remembers what it found.
PollOn(l) ==
    /\ pc[l] = "window"
    /\ child[l] \in {"up", "ok"}
    /\ \E d \in Watched(l) : Windowless(d) /\ display' = [display EXCEPT ![l] = d]
    /\ wineSeen' = [wineSeen EXCEPT ![l] = @ \/ Wineservers(Visible(l)) # {}]
    /\ <<display, wineSeen>>' # <<display, wineSeen>>
    /\ UNCHANGED <<runVars, teardownVars, shown, lutrisVars, sessVars>>

\* Mutants: the deadline passes in silence; there is no deadline.
WindowDeadlineSilent(l) == EndWait(l, FALSE) /\ UNCHANGED told
WindowNoDeadline(l) == pc[l] = "window" /\ FALSE /\ UNCHANGED vars

\* WINDOW_SECONDS are over.
WindowDeadline(l) ==
    /\ EndWait(l, FALSE)
    /\ Tell(l, "failure")

-------------------------------------------------------------------------------
(* The end of a run *)

\* The finally clause. A run with no exit code yet goes on to wait for its Lutris.
Unlock(l) ==
    /\ pc[l] = "unlock"
    /\ lock' = Nobody
    /\ Goto(l, IF code[l] = "none" THEN "childwait" ELSE "done")
    /\ Forget(l)
    /\ UNCHANGED <<told, code, shown, lutrisVars, sessVars>>

\* main(): child.wait() returns; a Lutris that was terminated is not a failure.
Reap(l) ==
    /\ pc[l] = "childwait"
    /\ Goto(l, "done")
    /\ \/ child[l] = "killed" /\ Settle(l, "zero") /\ UNCHANGED told
       \/ /\ child[l] = "failed" /\ Settle(l, "nonzero")
          /\ IF shown[l] THEN UNCHANGED told ELSE Tell(l, "failure")
       \/ child[l] = "ok" /\ Settle(l, IF shown[l] THEN "zero" ELSE "nonzero") /\ UNCHANGED told
    /\ UNCHANGED <<lock, teardownVars, waitVars, lutrisVars, sessVars>>

\* A signal Python does not handle ends the run; the kernel drops the flock, Lutris goes on.
Crash(l) ==
    /\ "crash" \in Faults
    /\ Running(l)
    /\ Goto(l, "dead")
    /\ lock' = IF lock = l THEN Nobody ELSE lock
    /\ Forget(l)
    /\ UNCHANGED <<told, code, shown, lutrisVars, sessVars>>

\* The instance of o, if it is the one on the bus, leaves it with the requests it has not begun.
LeaveBus(o) ==
    /\ bus' = IF bus = o THEN Nobody ELSE bus
    /\ quitting' = (quitting /\ bus # o)
    /\ sess' = [m \in Launchers |->
                  IF bus = o /\ via[m] = o /\ sess[m] = "asked" THEN "none" ELSE sess[m]]

\* KeyboardInterrupt: in the wait for a window the child is killed, under the lock it is released.
Interrupt(l) ==
    /\ "interrupt" \in Faults
    /\ Running(l) /\ pc[l] # "unlock"
    /\ Goto(l, IF pc[l] \in Critical THEN "unlock" ELSE "done")
    /\ Settle(l, "nonzero")
    /\ IF pc[l] = "window" /\ child[l] = "up"
       THEN child' = [child EXCEPT ![l] = "killed"] /\ LeaveBus(l)
       ELSE UNCHANGED <<lutrisVars, sess>>
    /\ Forget(l)
    /\ UNCHANGED <<lock, told, shown, via>>

-------------------------------------------------------------------------------
(* Lutris and the session, as the launcher relies on them *)

\* Lutris is single-instance: the first flatpak run is the instance on the bus, a later one hands
\* it the request and exits 0. A request handed to an instance that is quitting is lost.
JoinBus(l) ==
    /\ child[l] = "up" /\ bus # l
    /\ LET taker == IF bus = Nobody THEN l ELSE bus
       IN  /\ bus' = taker
           /\ child' = [child EXCEPT ![l] = IF taker = l THEN "up" ELSE "ok"]
           /\ via' = [via EXCEPT ![l] = taker]
           /\ sess' = [sess EXCEPT ![l] = IF quitting THEN "none" ELSE "asked"]
    /\ UNCHANGED <<runVars, teardownVars, waitVars, quitting>>

\* The user opens Lutris as a window.
UserOpens ==
    /\ bus = Nobody
    /\ bus' = User
    /\ UNCHANGED <<runVars, teardownVars, waitVars, child, quitting, sessVars>>

\* A rungame instance quits once its games have stopped, the user's whenever the user likes.
BusQuits ==
    /\ bus # Nobody /\ ~ quitting
    /\ bus # User => \A m \in Launchers : via[m] = bus => sess[m] \in {"none", "wine", "blocked"}
    /\ quitting' = TRUE
    /\ UNCHANGED <<runVars, teardownVars, waitVars, child, bus, sessVars>>

BusExits ==
    /\ quitting
    /\ child' = [m \in Launchers |-> IF m = bus THEN "ok" ELSE child[m]]
    /\ LeaveBus(bus)
    /\ UNCHANGED <<runVars, teardownVars, waitVars, via>>

\* The flatpak run of l fails, or it is killed (by the user, or by flatpak kill).
LutrisFails(l) ==
    /\ "lutris" \in Faults
    /\ child[l] = "up"
    /\ \E how \in {"failed", "killed"} : child' = [child EXCEPT ![l] = how]
    /\ LeaveBus(l)
    /\ UNCHANGED <<runVars, teardownVars, waitVars, via>>

\* Whether the instance that took the request of m is running another game in the prefix.
Occupied(m) ==
    \E n \in Launchers \ {m} : via[n] = via[m] /\ sess[n] \in {"pre", "wine", "shown"}

SessionMoves(m) ==
    /\ \/ /\ sess[m] = "asked" /\ bus = via[m] /\ ~ quitting
          /\ "twice" \in Faults \/ ~ Occupied(m)
          /\ sess' = [sess EXCEPT ![m] = "pre"]
       \/ sess[m] = "pre" /\ sess' = [sess EXCEPT ![m] = "wine"]
       \/ sess[m] = "wine" /\ sess' = [sess EXCEPT ![m] = "shown"]
       \/ sess[m] = "shown" /\ sess' = [sess EXCEPT ![m] = "wine"]
       \/ sess[m] # "none" /\ sess' = [sess EXCEPT ![m] = "none"]
    /\ UNCHANGED <<runVars, teardownVars, waitVars, lutrisVars, via>>

-------------------------------------------------------------------------------

\* What a run does once clicked, its faults apart.
Step(l) ==
    \/ Acquire(l) \/ FindHeld(l) \/ AskInUse(l) \/ Busy(l) \/ Decide(l)
    \/ BeginHandoff(l) \/ EndHandoff(l)
    \/ Scan(l) \/ WarnLaunchers(l) \/ Terminate(l) \/ Kill(l) \/ AwaitOwners(l) \/ Spawn(l)
    \/ PollChildFailed(l) \/ PollWindow(l) \/ PollSandboxEmpty(l) \/ PollNoGamescope(l)
    \/ PollOn(l) \/ WindowDeadline(l)
    \/ Unlock(l) \/ Reap(l)

Fault(l) == TeardownError(l) \/ SpawnError(l) \/ Crash(l) \/ Interrupt(l) \/ LutrisFails(l)

Next ==
    \/ \E l \in Launchers : Click(l) \/ Step(l) \/ Fault(l) \/ JoinBus(l) \/ SessionMoves(l)
    \/ UserOpens \/ BusQuits \/ BusExits

Spec == Init /\ [][Next]_vars

\* A run polls and its clock advances; nothing says that Lutris, a session or the user moves.
FairSpec == Spec /\ \A l \in Launchers : WF_vars(Step(l))

-------------------------------------------------------------------------------
(* What a launcher has to get right *)

\* One launch at a time per prefix, "from the click until the game has a window or the wait for
\* one has ended": no two runs are between taking the lock and releasing it.
OneLaunch ==
    RuntimeDir => \A k, l \in Launchers : pc[k] \in Critical /\ pc[l] \in Critical => k = l

\* teardown() "cannot tell a stale session from one a sibling run started a second ago": what it
\* has picked to signal belongs only to runs whose own launch has ended.
NothingInFlightTargeted ==
    RuntimeDir => \A l, m \in Launchers :
        (\E s \in InProc : <<m, s>> \in targets[l]) => pc[m] \in {"childwait", "done", "dead"}

\* "Before their Lutris goes, so none is left to report the teardown as its failure": once
\* teardown() goes on to signal a session, no run is left waiting on a Lutris found to own it.
LaunchersWarnedFirst ==
    \A l \in Launchers : pc[l] \in {"term", "grace", "owners", "spawn"} =>
        \A o \in owners[l] \cap Launchers : ~ Running(o)

\* A process stuck in the kernel "must not pass for the new session's wineserver": the wait never
\* watches the display of one its teardown left behind, and takes no launch as shown without a
\* wineserver that is not among them.
SurvivorsIgnored ==
    [][\A l \in Launchers : pc[l] = "window" =>
          /\ display'[l] \notin survivors[l]
          /\ shown'[l] # shown[l] => Wineservers(Carriers) \cap {m \in Launchers : sess[m] # "blocked"} # {}
      ]_vars

\* "A request handed to it is lost": the only instance of the same game a request can still be
\* handed to is one that teardown() found and waited for until its deadline.
NoUnwaitedInstance ==
    \A l \in Launchers :
        (pc[l] \in {"spawn", "window"} /\ bus \in Launchers \ {l} /\ Slug[bus] = Slug[l] /\ child[l] \in {"none", "up"})
        => bus \in owners[l]

\* "It reports a launch that did not happen with a twenty-second banner": a run that ends
\* unsuccessfully, its window never seen, has left the failure on screen.
FailureReported ==
    \A l \in Launchers :
        pc[l] = "done" /\ code[l] = "nonzero" /\ ~ shown[l] => told[l] = "failure"

\* "A launch the wait already reported as failed is one, whatever Lutris returned": a run that
\* told the user of a failure does not exit 0.
ReportedIsFailed ==
    \A l \in Launchers : pc[l] = "done" /\ told[l] = "failure" => code[l] = "nonzero"

\* What a run told the user and what it returned agree.
ReportsAgree == FailureReported /\ ReportedIsFailed

\* Every click is answered and gives the prefix back: it ends, or is left waiting for its Lutris
\* with the lock released.
ClickSettles ==
    \A l \in Launchers : pc[l] = "acquire" ~> pc[l] \in {"childwait", "done", "dead"} /\ lock # l

-------------------------------------------------------------------------------
(* Why they get it right: what the steps preserve together *)

\* Whoever is between taking the lock and releasing it is the one the kernel has as its holder.
HolderOnly == RuntimeDir => \A l \in Launchers : pc[l] \in Critical => lock = l

\* Before flatpak run is started nothing of the run's own launch exists.
NotStarted(l) == pc[l] \in {"off", "decide", "handoff", "handing", "spawn"} \cup Waiting \cup Teardown
FreshUntilSpawned ==
    \A l \in Launchers : NotStarted(l) => sess[l] = "none" /\ child[l] = "none" /\ bus # l

\* Only a teardown under way has processes to signal.
TargetsInTeardown ==
    RuntimeDir => \A l \in Launchers : targets[l] # {} => pc[l] \in {"warn", "term", "grace"}

\* An instance a teardown found is that of a run which has started its flatpak run.
OwnersStarted == \A l \in Launchers : \A o \in owners[l] \cap Launchers : ~ NotStarted(o)

LaunchInv ==
    /\ TypeOK
    /\ HolderOnly
    /\ FreshUntilSpawned
    /\ TargetsInTeardown
    /\ NothingInFlightTargeted
    /\ OwnersStarted
    /\ LaunchersWarnedFirst

\* From the walk for it on, an instance of the game with processes is one teardown() found: no other
\* run starts one before this one is over.
InstancesFound ==
    \A l \in Launchers : pc[l] \in {"warn", "term", "grace", "owners", "spawn", "window"} =>
        \A o \in Launchers \ {l} : InstanceUp(o) /\ Slug[o] = Slug[l] => o \in owners[l]

\* What is stuck in the kernel is among what teardown() signals, and then among what it returns.
BlockedKnown ==
    \A l, m \in Launchers : sess[m] = "blocked" =>
        /\ pc[l] \in {"warn", "term", "grace"} => \E s \in InProc : <<m, s>> \in targets[l]
        /\ pc[l] \in {"owners", "spawn", "window"} => m \in survivors[l]

\* No display is watched before the wait, and then not that of a survivor.
DisplayLater ==
    \A l \in Launchers :
        /\ pc[l] \notin {"window", "unlock"} => display[l] = Nobody
        /\ pc[l] = "window" => display[l] \notin survivors[l]

TeardownInv == InstancesFound /\ BlockedKnown /\ DisplayLater

\* Neither the exit code nor the window is settled while there is something to wait for.
Unsettled ==
    \A l \in Launchers :
        /\ code[l] # "none" => pc[l] \in {"unlock", "done", "dead"}
        /\ shown[l] => pc[l] \in {"unlock", "childwait", "done", "dead"}

\* The instance on the bus is that of a run whose Lutris is up.
BusRuns == bus \in Launchers => child[bus] = "up"

\* An unsuccessful end that is certain has been told; one that is not is left to the exit of Lutris.
FailureDue ==
    \A l \in Launchers :
        /\ pc[l] = "unlock" /\ code[l] = "nonzero" => told[l] = "failure"
        /\ pc[l] \in {"unlock", "childwait"} /\ code[l] = "none" /\ ~ shown[l] =>
              told[l] = "failure" \/ child[l] \in {"failed", "killed"}

\* A failure that is told has been settled, or will be: the window has not been seen.
ToldFails ==
    \A l \in Launchers : told[l] = "failure" =>
        \/ pc[l] = "dead"
        \/ pc[l] \in {"unlock", "done"} /\ code[l] = "nonzero"
        \/ pc[l] \in {"unlock", "childwait"} /\ code[l] = "none" /\ ~ shown[l]

\* Only the interrupt of a run kills its Lutris.
KilledInterrupted ==
    \A l \in Launchers : child[l] # "failed" /\ (child[l] = "killed" => code[l] = "nonzero")

-------------------------------------------------------------------------------
(* The guard the runs implement, where there is a directory to lock in *)

phaseBar ==
    [l \in Launchers |-> IF pc[l] \in {"off"} \cup Waiting THEN "out"
                         ELSE IF pc[l] \in Critical THEN "in" ELSE "over"]

victimsBar == {m \in Launchers : \E l \in Launchers : \E s \in InProc : <<m, s>> \in targets[l]}

Guard == INSTANCE LaunchGuard WITH phase <- phaseBar, victims <- victimsBar

GuardSpec == Guard!Spec
===============================================================================
