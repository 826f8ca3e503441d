----------------------------- MODULE BedrockLaunch -----------------------------
(***************************************************************************)
(* minecraft-bedrock-launch.sh: the clicks on the Minecraft icon, the lock *)
(* they share, the look for a running BedrockOnLinux instance, the marker  *)
(* of a GPU session, and the wait for the window.                          *)
(*                                                                         *)
(* A session is one run of BedrockOnLinux: the `play` of a click, or the   *)
(* launcher the user opens, which may start a game of its own.  It is      *)
(* started before flatpak lists it, writes the marker when it starts a     *)
(* game, refuses to while there is one, and removes it when the game ends  *)
(* by itself.  XDG_RUNTIME_DIR is taken to be set.                         *)
(***************************************************************************)
EXTENDS Naturals

CONSTANTS
    Launchers, \* one run of the script per click
    Gui,       \* the session of the launcher
    Nobody,
    Faults,
    MaxMishaps

FaultKinds ==
    { "kill",  \* a run of the script is killed
      "slay",  \* a session is killed
      "fail",  \* a session ends without a game
      "left" } \* processes that carry the app ID and a display outlive a game, at any time and not counted

ASSUME BedrockAssumption ==
    /\ Gui \notin Launchers
    /\ Nobody \notin Launchers \cup {Gui}
    /\ Faults \subseteq FaultKinds
    /\ MaxMishaps \in Nat

VARIABLES
    pc,        \* where each run is
    holder,    \* who has the lock
    told,      \* what the user has been told by each run
    outcome,   \* how each run's wait for the window ended: shown, exited_early, neither
    session,   \* what each session is doing
    marker,    \* the session that wrote .gpu-launch-in-progress.json
    disturbed, \* the runs that were killed, or that an unguarded session appeared over
    mishaps

vars == <<pc, holder, told, outcome, session, marker, disturbed, mishaps>>
scriptVars == <<pc, holder, told, outcome, disturbed>>

Sessions == Launchers \cup {Gui}
Places == {"out", "held", "queue", "look", "await", "again", "clear", "play", "window", "reap", "done"}

\* From the lock to the window.
Guarded == {"look", "await", "again", "clear", "play", "window"}

Ended == {"exited", "failed", "slain"}

\* What flatpak ps lists: a launcher without a game, and a session from its start to its end.
Listed == {s \in Sessions : session[s] \in {"idle", "listed", "marked", "shown", "lingers"}}

Alive(s) == session[s] \notin Ended \cup {"none"}

\* game_window: there is a window; it is missed when another display is found first, which is that of
\* another session or of processes that a game has left behind.
Seen == \E s \in Sessions : session[s] = "shown"
Unseen == "left" \in Faults \/ \A s \in Listed : session[s] = "shown" => Listed # {s}

TypeOK ==
    /\ pc \in [Launchers -> Places]
    /\ holder \in Launchers \cup {Nobody}
    /\ \A l \in Launchers : holder = l <=> pc[l] \in Guarded
    /\ told \in [Launchers -> {"nothing", "running", "failure"}]
    /\ outcome \in [Launchers -> {"none", "shown", "early", "late"}]
    /\ session \in [Sessions -> {"none", "spawned", "idle", "listed", "marked", "shown", "lingers"} \cup Ended]
    /\ marker \in Sessions \cup {Nobody}
    /\ disturbed \subseteq Launchers
    /\ mishaps \in 0 .. MaxMishaps

Init ==
    /\ pc = [l \in Launchers |-> "out"]
    /\ holder = Nobody
    /\ told = [l \in Launchers |-> "nothing"]
    /\ outcome = [l \in Launchers |-> "none"]
    /\ session = [s \in Sessions |-> "none"]
    /\ marker \in {Nobody, Gui} \* one may be left from before
    /\ disturbed = {}
    /\ mishaps = 0

-------------------------------------------------------------------------------
(* A run of the script. *)

Goto(l, place) == pc' = [pc EXCEPT ![l] = place]
Tell(l, notice) == told' = [told EXCEPT ![l] = notice]

\* Released by release_lock, or by the kernel when the run exits: its child has closed the descriptor.
Release(l) == holder' = IF holder = l THEN Nobody ELSE holder

\* Mutant: the lock is taken over from its holder.
LockOver(l) ==
    /\ holder' = l
    /\ Goto(l, "look")
    /\ UNCHANGED <<told, outcome, disturbed, session, marker, mishaps>>

Lock(l) ==
    /\ holder = Nobody
    /\ holder' = l
    /\ Goto(l, "look")
    /\ UNCHANGED <<told, outcome, disturbed, session, marker, mishaps>>

Click(l) ==
    /\ pc[l] = "out"
    /\ \/ Lock(l)
       \/ /\ holder # Nobody
          /\ Goto(l, "held")
          /\ UNCHANGED <<holder, told, outcome, disturbed, session, marker, mishaps>>

\* The lock is held: by a launch whose game has a window, or by one to wait for.
Held(l) ==
    /\ pc[l] = "held"
    /\ \/ /\ Seen
          /\ Tell(l, "running")
          /\ Goto(l, "done")
       \/ /\ Unseen
          /\ Goto(l, "queue")
          /\ UNCHANGED told
    /\ UNCHANGED <<holder, outcome, disturbed, session, marker, mishaps>>

Queue(l) == pc[l] = "queue" /\ Lock(l)

\* LOCK_WAIT_SECONDS have gone by.
GiveUp(l) ==
    /\ pc[l] = "queue"
    /\ holder # Nobody
    /\ Tell(l, "failure")
    /\ Goto(l, "done")
    /\ UNCHANGED <<holder, outcome, disturbed, session, marker, mishaps>>

\* Mutant: what has no window is taken for not running.
LookForWindow(l) ==
    /\ pc[l] = "look"
    /\ Goto(l, IF Unseen THEN "clear" ELSE "await")
    /\ UNCHANGED <<holder, told, outcome, disturbed, session, marker, mishaps>>

\* running_instance.
Look(l) ==
    /\ pc[l] = "look"
    /\ Goto(l, IF Listed = {} THEN "clear" ELSE "await")
    /\ UNCHANGED <<holder, told, outcome, disturbed, session, marker, mishaps>>

AlreadyRunning(l) ==
    /\ pc[l] = "await"
    /\ Seen
    /\ Tell(l, "running")
    /\ Goto(l, "done")
    /\ Release(l)
    /\ UNCHANGED <<outcome, disturbed, session, marker, mishaps>>

\* No window: the instance ended, or it was polled for as often as it is.
StopWaiting(l) ==
    /\ pc[l] = "await"
    /\ Unseen
    /\ Goto(l, "again")
    /\ UNCHANGED <<holder, told, outcome, disturbed, session, marker, mishaps>>

\* Mutant: the wait is taken for the end of the instance.
LookNoMore(l) ==
    /\ pc[l] = "again"
    /\ Goto(l, "clear")
    /\ UNCHANGED <<holder, told, outcome, disturbed, session, marker, mishaps>>

LookAgain(l) ==
    /\ pc[l] = "again"
    /\ IF Listed = {}
       THEN /\ Goto(l, "clear")
            /\ UNCHANGED <<holder, told>>
       ELSE /\ Tell(l, "failure")
            /\ Goto(l, "done")
            /\ Release(l)
    /\ UNCHANGED <<outcome, disturbed, session, marker, mishaps>>

\* "The check above proved nothing is running, so it is stale."
Clear(l) ==
    /\ pc[l] = "clear"
    /\ marker' = Nobody
    /\ Goto(l, "play")
    /\ UNCHANGED <<holder, told, outcome, disturbed, session, mishaps>>

Play(l) ==
    /\ pc[l] = "play"
    /\ session' = [session EXCEPT ![l] = "spawned"]
    /\ Goto(l, "window")
    /\ UNCHANGED <<holder, told, outcome, disturbed, marker, mishaps>>

Settle(l, how) ==
    /\ outcome' = [outcome EXCEPT ![l] = how]
    /\ Goto(l, "reap")
    /\ Release(l)
    /\ UNCHANGED <<disturbed, session, marker, mishaps>>

ExitedEarly(l) ==
    /\ pc[l] = "window"
    /\ session[l] \in Ended
    /\ Settle(l, "early")
    /\ UNCHANGED told

HasWindow(l) ==
    /\ pc[l] = "window"
    /\ session[l] \notin Ended
    /\ Seen
    /\ Settle(l, "shown")
    /\ UNCHANGED told

\* WINDOW_SECONDS have gone by; flatpak lists what it started within them.  What ended
\* since the last look is not a play that runs without a window, and not an early exit.
Deadline(l) ==
    /\ pc[l] = "window"
    /\ session[l] # "spawned"
    /\ IF session[l] \in Ended THEN UNCHANGED told ELSE Tell(l, "failure")
    /\ Settle(l, "late")

\* Mutant: only an exit code other than 0 is a failure.
ReapByCode(l) ==
    /\ pc[l] = "reap"
    /\ session[l] \in Ended
    /\ IF session[l] = "failed" THEN Tell(l, "failure") ELSE UNCHANGED told
    /\ Goto(l, "done")
    /\ UNCHANGED <<holder, outcome, disturbed, session, marker, mishaps>>

Reap(l) ==
    /\ pc[l] = "reap"
    /\ session[l] \in Ended
    /\ IF session[l] = "failed" \/ (session[l] = "exited" /\ outcome[l] = "early")
       THEN Tell(l, "failure")
       ELSE UNCHANGED told
    /\ Goto(l, "done")
    /\ UNCHANGED <<holder, outcome, disturbed, session, marker, mishaps>>

Step(l) ==
    \/ Held(l) \/ Queue(l) \/ GiveUp(l)
    \/ Look(l) \/ AlreadyRunning(l) \/ StopWaiting(l) \/ LookAgain(l)
    \/ Clear(l) \/ Play(l)
    \/ ExitedEarly(l) \/ HasWindow(l) \/ Deadline(l) \/ Reap(l)

-------------------------------------------------------------------------------
(* BedrockOnLinux and its user. *)

Mishap(kind) ==
    /\ kind \in Faults
    /\ mishaps < MaxMishaps
    /\ mishaps' = mishaps + 1

\* Mutant: play inherits the descriptor, and the lock outlives the run with it.
KilledHolding(l) ==
    /\ pc[l] \notin {"out", "done"}
    /\ Mishap("kill")
    /\ Goto(l, "done")
    /\ disturbed' = disturbed \cup {l}
    /\ IF session[l] = "none" \/ session[l] \in Ended THEN Release(l) ELSE UNCHANGED holder
    /\ UNCHANGED <<told, outcome, session, marker>>

\* The lock is let go of by the kernel; what the run started lives on.
Killed(l) ==
    /\ pc[l] \notin {"out", "done"}
    /\ Mishap("kill")
    /\ Goto(l, "done")
    /\ disturbed' = disturbed \cup {l}
    /\ Release(l)
    /\ UNCHANGED <<told, outcome, session, marker>>

Becomes(s, state) == session' = [session EXCEPT ![s] = state]

\* A session that is not guarded, or no longer, appears over the run that has the lock.
Unguarded(s) == s = Gui \/ s \in disturbed
Appears(s, state) ==
    /\ Becomes(s, state)
    /\ disturbed' = disturbed \cup (IF Unguarded(s) THEN {holder} \ {Nobody} ELSE {})
    /\ UNCHANGED <<pc, holder, told, outcome, marker, mishaps>>

Lists(l) == session[l] = "spawned" /\ Appears(l, "listed")

Opens == session[Gui] = "none" /\ Appears(Gui, "idle")

StartsGame(s) ==
    /\ session[s] \in {"listed", "idle"}
    /\ marker = Nobody
    /\ Becomes(s, "marked")
    /\ marker' = s
    /\ UNCHANGED <<scriptVars, mishaps>>

\* There is a marker: no game.  `play` exits 0 all the same.
Refuses(l) ==
    /\ session[l] = "listed"
    /\ marker # Nobody
    /\ Becomes(l, "exited")
    /\ UNCHANGED <<scriptVars, marker, mishaps>>

Shows(s) ==
    /\ session[s] = "marked"
    /\ Becomes(s, "shown")
    /\ UNCHANGED <<scriptVars, marker, mishaps>>

\* The window goes first and its session some seconds later.
GameEnds(s) ==
    /\ session[s] = "shown"
    /\ Becomes(s, IF s = Gui THEN "idle" ELSE "lingers")
    /\ marker' = Nobody
    /\ UNCHANGED <<scriptVars, mishaps>>

Exits(s) ==
    /\ session[s] \in {"lingers", "idle"}
    /\ Becomes(s, IF s = Gui THEN "none" ELSE "exited")
    /\ UNCHANGED <<scriptVars, marker, mishaps>>

\* It ends without a game, whether its exit code says so or not.
Fails(l) ==
    /\ session[l] \in {"spawned", "listed", "marked"}
    /\ Mishap("fail")
    /\ \E how \in {"exited", "failed"} : Becomes(l, how)
    /\ marker' = IF session[l] = "marked" THEN Nobody ELSE marker
    /\ UNCHANGED scriptVars

Slain(s) ==
    /\ Alive(s)
    /\ Mishap("slay")
    /\ Becomes(s, IF s = Gui THEN "none" ELSE "slain")
    /\ UNCHANGED <<scriptVars, marker>>

Environment ==
    \/ Opens
    \/ \E l \in Launchers : Killed(l) \/ Lists(l) \/ Refuses(l) \/ Fails(l)
    \/ \E s \in Sessions : StartsGame(s) \/ Shows(s) \/ GameEnds(s) \/ Exits(s) \/ Slain(s)

Next == Environment \/ \E l \in Launchers : Click(l) \/ Step(l)

Spec == Init /\ [][Next]_vars

\* A run goes on: it polls, and its deadlines pass.  flatpak lists what it started.  No
\* game is assumed to show a window or to end.
FairSpec == Spec /\ \A l \in Launchers : WF_vars(Step(l)) /\ WF_vars(Lists(l))

-------------------------------------------------------------------------------
(* Properties. *)

\* The games of two clicks never run at once, as long as neither run is killed and no
\* launcher, and no game of a killed run, appears over it: every click that finds no instance
\* has waited for the one before to show a window or to give up on it, and by then flatpak
\* lists it.
OneGame == \A k, l \in Launchers \ disturbed : Alive(k) /\ Alive(l) => k = l

\* "The check above proved nothing is running, so it is stale": the marker that is cleared is
\* not that of a session a click started and that still runs.  Sessions of the launcher, and of
\* runs that were disturbed, start unguarded and may write theirs after the check.
LiveMarkerSpared ==
    [][\A l \in Launchers : Clear(l) /\ marker \in Launchers \ disturbed => ~Alive(marker)]_vars

\* A force-killed session does not keep Minecraft from starting: what a click starts is
\* refused only over the marker of a session that was not guarded.
StaleNeverRefuses ==
    [][\A l \in Launchers \ disturbed : Refuses(l) => marker \in disturbed \cup {Gui}]_vars

\* A marker is judged rightly either way: the one of a session that runs stays, and a stale one is
\* gone before the next launch can trip over it.
MarkerJudged == LiveMarkerSpared /\ StaleNeverRefuses

\* `play` exits 0 whatever became of the game.  All the same a click that ends in silence has
\* seen a window, or its play was killed, or it ended in the very interval in which the wait
\* for it ran out.
SilenceMeansShown ==
    [][\A l \in Launchers :
          /\ pc[l] # "done"
          /\ pc'[l] = "done"
          /\ told'[l] = "nothing"
          /\ ~Killed(l)
          => \/ outcome[l] = "shown"
             \/ session[l] = "slain"
             \/ outcome[l] = "late"]_vars

\* Every click comes to an end or to the waiting for its game's, and lets go of the lock,
\* whatever becomes of the game: the next click is not kept waiting by a game that hangs, nor
\* by one that outlives a killed run.
ClickSettles ==
    \A l \in Launchers :
        /\ pc[l] # "out" ~> pc[l] \in {"reap", "done"}
        /\ holder = l ~> holder # l

-------------------------------------------------------------------------------
(* The guard the launchers share. *)

phaseBar ==
    [l \in Launchers |->
        IF holder = l THEN "in" ELSE IF pc[l] \in {"reap", "done"} THEN "over" ELSE "out"]

\* The launch whose session's marker is about to be cleared, were it still running.
victimsBar ==
    {k \in Launchers : marker = k /\ Alive(k) /\ \E l \in Launchers : holder = l /\ pc[l] = "clear"}

Guard == INSTANCE LaunchGuard WITH phase <- phaseBar, victims <- victimsBar

\* The clicks implement the guard: one at a time is between the lock and its window, and what
\* it clears away is not the marker of another that is.
GuardSpec == Guard!Spec
===============================================================================
