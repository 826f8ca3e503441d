-------------------------- MODULE BedrockLaunchProofs --------------------------
(* What the clicks on the Minecraft icon keep, for any number of them. *)
EXTENDS BedrockLaunch, TLAPS

SessionStates == {"none", "spawned", "idle", "listed", "marked", "shown", "lingers"} \cup Ended

LEMMA TypeStep == TypeOK /\ [Next]_vars => TypeOK'
  <1> USE BedrockAssumption DEF TypeOK, Places, Guarded, Sessions, Ended, Goto, Tell, Release
  <1> SUFFICES ASSUME TypeOK, [Next]_vars PROVE TypeOK'
    OBVIOUS
  <1>1. ASSUME NEW l \in Launchers, Click(l) PROVE TypeOK'
      BY <1>1 DEF Click, Lock
  <1>2. ASSUME NEW l \in Launchers, Held(l) PROVE TypeOK'
      BY <1>2 DEF Held
  <1>3. ASSUME NEW l \in Launchers, Queue(l) PROVE TypeOK'
      BY <1>3 DEF Queue, Lock
  <1>4. ASSUME NEW l \in Launchers, GiveUp(l) PROVE TypeOK'
      BY <1>4 DEF GiveUp
  <1>5. ASSUME NEW l \in Launchers, Look(l) PROVE TypeOK'
      BY <1>5 DEF Look
  <1>6. ASSUME NEW l \in Launchers, AlreadyRunning(l) PROVE TypeOK'
      BY <1>6 DEF AlreadyRunning
  <1>7. ASSUME NEW l \in Launchers, StopWaiting(l) PROVE TypeOK'
      BY <1>7 DEF StopWaiting
  <1>8. ASSUME NEW l \in Launchers, LookAgain(l) PROVE TypeOK'
      BY <1>8 DEF LookAgain
  <1>9. ASSUME NEW l \in Launchers, Clear(l) PROVE TypeOK'
      BY <1>9 DEF Clear
  <1>10. ASSUME NEW l \in Launchers, Play(l) PROVE TypeOK'
      BY <1>10 DEF Play
  <1>11. ASSUME NEW l \in Launchers, ExitedEarly(l) PROVE TypeOK'
      BY <1>11 DEF ExitedEarly, Settle
  <1>12. ASSUME NEW l \in Launchers, HasWindow(l) PROVE TypeOK'
      BY <1>12 DEF HasWindow, Settle
  <1>13. ASSUME NEW l \in Launchers, Deadline(l) PROVE TypeOK'
      BY <1>13 DEF Deadline, Settle
  <1>14. ASSUME NEW l \in Launchers, Reap(l) PROVE TypeOK'
      BY <1>14 DEF Reap
  <1>15. ASSUME NEW l \in Launchers, Killed(l) PROVE TypeOK'
      BY <1>15 DEF Killed, Mishap
  <1>16. ASSUME NEW l \in Launchers, Lists(l) PROVE TypeOK'
      BY <1>16 DEF Lists, Appears, Becomes, Unguarded
  <1>17. ASSUME NEW l \in Launchers, Refuses(l) PROVE TypeOK'
      BY <1>17 DEF Refuses, Becomes, scriptVars
  <1>18. ASSUME NEW l \in Launchers, Fails(l) PROVE TypeOK'
      BY <1>18 DEF Fails, Becomes, Mishap, scriptVars
  <1>19. ASSUME NEW s \in Sessions, StartsGame(s) PROVE TypeOK'
      BY <1>19 DEF StartsGame, Becomes, scriptVars
  <1>20. ASSUME NEW s \in Sessions, Shows(s) PROVE TypeOK'
      BY <1>20 DEF Shows, Becomes, scriptVars
  <1>21. ASSUME NEW s \in Sessions, GameEnds(s) PROVE TypeOK'
      BY <1>21 DEF GameEnds, Becomes, scriptVars
  <1>22. ASSUME NEW s \in Sessions, Exits(s) PROVE TypeOK'
      BY <1>22 DEF Exits, Becomes, scriptVars
  <1>23. ASSUME NEW s \in Sessions, Slain(s) PROVE TypeOK'
      BY <1>23 DEF Slain, Becomes, Mishap, scriptVars
  <1>24. CASE Opens
      BY <1>24 DEF Opens, Appears, Becomes, Unguarded
  <1>25. CASE UNCHANGED vars
      BY <1>25 DEF vars
  <1> QED
      BY <1>1, <1>2, <1>3, <1>4, <1>5, <1>6, <1>7, <1>8, <1>9, <1>10, <1>11, <1>12, <1>13, <1>14, <1>15, <1>16, <1>17, <1>18, <1>19, <1>20, <1>21, <1>22, <1>23, <1>24, <1>25 DEF Next, Environment, Step

\* Every variable of the clicks and of the sessions keeps its type, and the lock is held exactly
\* from the taking of it to the window, by whoever is there.
THEOREM TypeCorrect == Spec => []TypeOK
  <1>1. Init => TypeOK
    BY BedrockAssumption DEF Init, TypeOK, Places, Guarded, Sessions, Ended
  <1> QED
    BY <1>1, TypeStep, PTL DEF Spec

-------------------------------------------------------------------------------

Undisturbed == Launchers \ disturbed

\* A run that has not started play has no session.
Unstarted == \A l \in Launchers : pc[l] \notin {"window", "reap", "done"} => session[l] = "none"

\* What flatpak does not list yet is still guarded by the lock.
SpawnedHeld == \A l \in Undisturbed : session[l] = "spawned" => holder = l

\* Past the look, no session of a guarded run is listed but one's own...
AloneGuarded ==
  \A l \in Launchers :
    pc[l] \in {"clear", "play", "window"} => Listed \cap Undisturbed \subseteq {l}

\* ...and over an undisturbed run none at all.
AloneListed ==
  \A l \in Undisturbed : pc[l] \in {"clear", "play", "window"} => Listed \subseteq {l}

\* Once it is cleared, no marker of a guarded run is written before the session to come.
MarkerAway ==
  /\ \A l \in Launchers : pc[l] = "play" => marker \notin Undisturbed
  /\ \A l \in Undisturbed : session[l] \in {"spawned", "listed"} => marker \notin Undisturbed

BedrockInv ==
  /\ TypeOK
  /\ Unstarted
  /\ SpawnedHeld
  /\ AloneGuarded
  /\ AloneListed
  /\ MarkerAway
  /\ OneGame

LEMMA BedrockStep == BedrockInv /\ [Next]_vars => BedrockInv'
  <1> SUFFICES ASSUME BedrockInv, [Next]_vars PROVE BedrockInv'
    OBVIOUS
  <1>0. TypeOK'
    BY TypeStep DEF BedrockInv
  <1> USE BedrockAssumption DEF BedrockInv, TypeOK, Undisturbed, Unstarted, SpawnedHeld, AloneGuarded,
        AloneListed, MarkerAway, OneGame, Listed, Alive, Sessions, Ended, Guarded, Seen,
        Goto, Tell, Release
  <1>1. ASSUME NEW l \in Launchers, Click(l) PROVE BedrockInv'
      BY <1>1, <1>0 DEF Click, Lock
  <1>2. ASSUME NEW l \in Launchers, Held(l) PROVE BedrockInv'
      BY <1>2, <1>0 DEF Held
  <1>3. ASSUME NEW l \in Launchers, Queue(l) PROVE BedrockInv'
      BY <1>3, <1>0 DEF Queue, Lock
  <1>4. ASSUME NEW l \in Launchers, GiveUp(l) PROVE BedrockInv'
      BY <1>4, <1>0 DEF GiveUp
  <1>5. ASSUME NEW l \in Launchers, Look(l) PROVE BedrockInv'
      BY <1>5, <1>0 DEF Look
  <1>6. ASSUME NEW l \in Launchers, AlreadyRunning(l) PROVE BedrockInv'
      BY <1>6, <1>0 DEF AlreadyRunning
  <1>7. ASSUME NEW l \in Launchers, StopWaiting(l) PROVE BedrockInv'
      BY <1>7, <1>0 DEF StopWaiting
  <1>8. ASSUME NEW l \in Launchers, LookAgain(l) PROVE BedrockInv'
      BY <1>8, <1>0 DEF LookAgain
  <1>9. ASSUME NEW l \in Launchers, Clear(l) PROVE BedrockInv'
      BY <1>9, <1>0 DEF Clear
  <1>10. ASSUME NEW l \in Launchers, Play(l) PROVE BedrockInv'
      BY <1>10, <1>0 DEF Play
  <1>11. ASSUME NEW l \in Launchers, ExitedEarly(l) PROVE BedrockInv'
      BY <1>11, <1>0 DEF ExitedEarly, Settle
  <1>12. ASSUME NEW l \in Launchers, HasWindow(l) PROVE BedrockInv'
      BY <1>12, <1>0 DEF HasWindow, Settle
  <1>13. ASSUME NEW l \in Launchers, Deadline(l) PROVE BedrockInv'
      BY <1>13, <1>0 DEF Deadline, Settle
  <1>14. ASSUME NEW l \in Launchers, Reap(l) PROVE BedrockInv'
      BY <1>14, <1>0 DEF Reap
  <1>15. ASSUME NEW l \in Launchers, Killed(l) PROVE BedrockInv'
      BY <1>15, <1>0 DEF Killed, Mishap
  <1>16. ASSUME NEW l \in Launchers, Lists(l) PROVE BedrockInv'
      BY <1>16, <1>0 DEF Lists, Appears, Becomes, Unguarded
  <1>17. ASSUME NEW l \in Launchers, Refuses(l) PROVE BedrockInv'
      BY <1>17, <1>0 DEF Refuses, Becomes, scriptVars
  <1>18. ASSUME NEW l \in Launchers, Fails(l) PROVE BedrockInv'
      BY <1>18, <1>0 DEF Fails, Becomes, Mishap, scriptVars
  <1>19. ASSUME NEW s \in Sessions, StartsGame(s) PROVE BedrockInv'
      BY <1>19, <1>0 DEF StartsGame, Becomes, scriptVars
  <1>20. ASSUME NEW s \in Sessions, Shows(s) PROVE BedrockInv'
      BY <1>20, <1>0 DEF Shows, Becomes, scriptVars
  <1>21. ASSUME NEW s \in Sessions, GameEnds(s) PROVE BedrockInv'
      BY <1>21, <1>0 DEF GameEnds, Becomes, scriptVars
  <1>22. ASSUME NEW s \in Sessions, Exits(s) PROVE BedrockInv'
      BY <1>22, <1>0 DEF Exits, Becomes, scriptVars
  <1>23. ASSUME NEW s \in Sessions, Slain(s) PROVE BedrockInv'
      BY <1>23, <1>0 DEF Slain, Becomes, Mishap, scriptVars
  <1>24. CASE Opens
      BY <1>24, <1>0 DEF Opens, Appears, Becomes, Unguarded
  <1>25. CASE UNCHANGED vars
      BY <1>25, <1>0 DEF vars
  <1> QED
      BY <1>1, <1>2, <1>3, <1>4, <1>5, <1>6, <1>7, <1>8, <1>9, <1>10, <1>11, <1>12, <1>13, <1>14, <1>15, <1>16, <1>17, <1>18, <1>19, <1>20, <1>21, <1>22, <1>23, <1>24, <1>25 DEF Next, Environment, Step

LEMMA BedrockInvariant == Spec => []BedrockInv
  <1>1. Init => BedrockInv
    BY BedrockAssumption DEF Init, BedrockInv, TypeOK, Undisturbed, Unstarted, SpawnedHeld,
       AloneGuarded, AloneListed, MarkerAway, OneGame, Listed, Alive, Sessions, Ended, Places, Guarded
  <1> QED
    BY <1>1, BedrockStep, PTL DEF Spec

\* Two clicks that nobody disturbs never run two games at once.
THEOREM OneGameHolds == Spec => []OneGame
  <1>1. BedrockInv => OneGame
    BY DEF BedrockInv
  <1> QED
    BY <1>1, BedrockInvariant, PTL

\* The marker that is cleared is never that of a guarded session that runs.
THEOREM LiveMarkerSparedHolds == Spec => LiveMarkerSpared
  <1>1. BedrockInv /\ [Next]_vars
          => [\A l \in Launchers : Clear(l) /\ marker \in Launchers \ disturbed => ~Alive(marker)]_vars
    BY DEF BedrockInv, TypeOK, Clear, Undisturbed, Unstarted, SpawnedHeld, AloneGuarded, Listed, Alive,
       Sessions, Guarded, Ended
  <1> QED
    BY <1>1, BedrockInvariant, PTL DEF Spec, LiveMarkerSpared

\* What a guarded click starts is never refused over the marker of another guarded one.
THEOREM StaleNeverRefusesHolds == Spec => StaleNeverRefuses
  <1>1. BedrockInv /\ [Next]_vars
          => [\A l \in Launchers \ disturbed : Refuses(l) => marker \in disturbed \cup {Gui}]_vars
    BY DEF BedrockInv, TypeOK, Refuses, MarkerAway, Undisturbed, Sessions
  <1> QED
    BY <1>1, BedrockInvariant, PTL DEF Spec, StaleNeverRefuses

\* No marker of a guarded session that runs is cleared, and no stale one refuses a guarded launch.
THEOREM MarkerJudgedHolds == Spec => MarkerJudged
  BY LiveMarkerSparedHolds, StaleNeverRefusesHolds DEF MarkerJudged

-------------------------------------------------------------------------------

\* A run that waits for play to end has stopped waiting for its window.
Waited == \A l \in Launchers : pc[l] = "reap" => outcome[l] # "none"

LEMMA WaitedStep == TypeOK /\ Waited /\ [Next]_vars => Waited'
  <1> SUFFICES ASSUME TypeOK, Waited, [Next]_vars, NEW k \in Launchers, pc'[k] = "reap"
               PROVE  outcome'[k] # "none"
    BY DEF Waited
  <1>1. ASSUME NEW l \in Launchers, Click(l) \/ Held(l) \/ Queue(l) \/ GiveUp(l) PROVE outcome'[k] # "none"
    BY <1>1 DEF Click, Lock, Held, Queue, GiveUp, Goto, TypeOK, Waited
  <1>2. ASSUME NEW l \in Launchers, Look(l) \/ AlreadyRunning(l) \/ StopWaiting(l) \/ LookAgain(l)
        PROVE  outcome'[k] # "none"
    BY <1>2 DEF Look, AlreadyRunning, StopWaiting, LookAgain, Goto, TypeOK, Waited
  <1>3. ASSUME NEW l \in Launchers, Clear(l) \/ Play(l) \/ Reap(l) PROVE outcome'[k] # "none"
    BY <1>3 DEF Clear, Play, Reap, Goto, TypeOK, Waited
  <1>4. ASSUME NEW l \in Launchers, ExitedEarly(l) \/ HasWindow(l) \/ Deadline(l) PROVE outcome'[k] # "none"
    BY <1>4 DEF ExitedEarly, HasWindow, Deadline, Settle, Goto, TypeOK, Waited
  <1>5. CASE Environment
    <2>1. UNCHANGED <<pc, outcome>> \/ \E l \in Launchers : Killed(l)
      BY <1>5 DEF Environment, Opens, Appears, Lists, Refuses, Fails, StartsGame, Shows, GameEnds, Exits,
         Slain, scriptVars
    <2> QED
      BY <2>1 DEF Killed, Goto, TypeOK, Waited
  <1>6. CASE UNCHANGED vars
    BY <1>6 DEF vars, Waited
  <1> QED
    BY <1>1, <1>2, <1>3, <1>4, <1>5, <1>6 DEF Next, Step

\* A click that ends in silence has seen a window, or its play was killed, or it ended just as the
\* wait for the window ran out.
THEOREM SilenceMeansShownHolds == Spec => SilenceMeansShown
  <1>1. TypeOK /\ Waited /\ [Next]_vars
          => [\A l \in Launchers :
                 /\ pc[l] # "done"
                 /\ pc'[l] = "done"
                 /\ told'[l] = "nothing"
                 /\ ~Killed(l)
                 => \/ outcome[l] = "shown"
                    \/ session[l] = "slain"
                    \/ outcome[l] = "late"]_vars
    <2> SUFFICES ASSUME TypeOK, Waited, Next, NEW k \in Launchers,
                        pc[k] # "done", pc'[k] = "done", told'[k] = "nothing", ~Killed(k)
                 PROVE  outcome[k] = "shown" \/ session[k] = "slain" \/ outcome[k] = "late"
      OBVIOUS
    <2>1. ASSUME NEW l \in Launchers, Click(l) \/ Held(l) \/ Queue(l) \/ GiveUp(l) PROVE FALSE
      BY <2>1 DEF Click, Lock, Held, Queue, GiveUp, Goto, Tell, TypeOK
    <2>2. ASSUME NEW l \in Launchers, Look(l) \/ AlreadyRunning(l) \/ StopWaiting(l) \/ LookAgain(l)
          PROVE  FALSE
      BY <2>2 DEF Look, AlreadyRunning, StopWaiting, LookAgain, Goto, Tell, TypeOK
    <2>3. ASSUME NEW l \in Launchers, Clear(l) \/ Play(l) PROVE FALSE
      BY <2>3 DEF Clear, Play, Goto, TypeOK
    <2>4. ASSUME NEW l \in Launchers, ExitedEarly(l) \/ HasWindow(l) \/ Deadline(l) PROVE FALSE
      BY <2>4 DEF ExitedEarly, HasWindow, Deadline, Settle, Goto, TypeOK
    <2>5. ASSUME NEW l \in Launchers, Reap(l)
          PROVE  outcome[k] = "shown" \/ session[k] = "slain" \/ outcome[k] = "late"
      <3>1. l = k
        BY <2>5 DEF Reap, Goto, TypeOK
      <3>2. session[k] # "failed" /\ ~(session[k] = "exited" /\ outcome[k] = "early")
        BY <2>5, <3>1 DEF Reap, Tell, TypeOK
      <3> QED
        BY <2>5, <3>1, <3>2 DEF Reap, Waited, TypeOK, Ended
    <2>6. Environment => UNCHANGED pc \/ \E l \in Launchers : Killed(l)
      BY DEF Environment, Opens, Appears, Lists, Refuses, Fails, StartsGame, Shows, GameEnds, Exits, Slain,
         scriptVars
    <2>7. ~Environment
      BY <2>6 DEF Killed, Goto, TypeOK
    <2> QED
      BY <2>1, <2>2, <2>3, <2>4, <2>5, <2>7 DEF Next, Step
  <1>2. Init => Waited
    BY DEF Init, Waited
  <1> QED
    BY <1>1, <1>2, WaitedStep, TypeCorrect, PTL DEF Spec, SilenceMeansShown

-------------------------------------------------------------------------------

LEMMA InFlightIsHolder == BedrockInv => Guard!InFlight = {l \in Launchers : holder = l}
  BY DEF Guard!InFlight, phaseBar

LEMMA NoVictim == BedrockInv => \A l \in Launchers : holder = l => l \notin victimsBar
  BY DEF BedrockInv, TypeOK, victimsBar, Unstarted, Alive, Guarded

\* Taking the lock enters.
LEMMA Entered ==
  ASSUME BedrockInv, NEW l \in Launchers, pc[l] \in {"out", "queue"}, Lock(l)
  PROVE  Guard!Enter(l)
  <1>1. phaseBar[l] = "out" /\ phaseBar' = [phaseBar EXCEPT ![l] = "in"]
    BY BedrockAssumption DEF Lock, Goto, phaseBar, BedrockInv, TypeOK
  <1>2. Guard!InFlight = {}
    BY BedrockAssumption, InFlightIsHolder DEF Lock
  <1>3. victimsBar = {} /\ victimsBar' = {}
    BY BedrockAssumption DEF Lock, Goto, victimsBar, BedrockInv, TypeOK
  <1> QED
    BY <1>1, <1>2, <1>3 DEF Guard!Enter

\* Letting go of it leaves...
LEMMA Left ==
  ASSUME BedrockInv, NEW l \in Launchers, pc[l] \in Guarded, NEW place \in {"reap", "done"},
         Goto(l, place), Release(l)
  PROVE  Guard!Leave(l)
  <1>1. holder = l /\ holder' = Nobody
    BY DEF Release, BedrockInv, TypeOK
  <1>2. phaseBar[l] = "in" /\ phaseBar' = [phaseBar EXCEPT ![l] = "over"]
    BY <1>1, BedrockAssumption DEF Goto, phaseBar, BedrockInv, TypeOK
  <1>3. victimsBar' = {}
    BY <1>1, BedrockAssumption DEF victimsBar
  <1> QED
    BY <1>2, <1>3 DEF Guard!Leave

\* ...and so does ending without it.
LEMMA LeftUnguarded ==
  ASSUME BedrockInv, NEW l \in Launchers, pc[l] \in {"held", "queue"}, Goto(l, "done"),
         UNCHANGED <<holder, session, marker>>
  PROVE  Guard!Leave(l)
  <1>1. holder # l
    BY DEF BedrockInv, TypeOK, Guarded
  <1>2. phaseBar[l] = "out" /\ phaseBar' = [phaseBar EXCEPT ![l] = "over"]
    BY <1>1 DEF Goto, phaseBar, BedrockInv, TypeOK
  <1>3. victimsBar' = victimsBar
    BY DEF Goto, victimsBar, Alive, BedrockInv, TypeOK
  <1> QED
    BY <1>2, <1>3 DEF Guard!Leave

\* Whatever else happens is the aiming of the run that has the lock, or nothing.
LEMMA Aimed ==
  ASSUME BedrockInv, BedrockInv', UNCHANGED phaseBar
  PROVE  [Guard!Next]_(Guard!vars)
  <1>1. CASE holder \in Launchers
    <2>1. phaseBar[holder] = "in" /\ holder' = holder
      BY <1>1 DEF phaseBar
    <2>2. Guard!InFlight = {holder}
      BY <1>1, InFlightIsHolder
    <2>3. holder \notin victimsBar'
      BY <1>1, <2>1 DEF BedrockInv, TypeOK, victimsBar, Unstarted, Alive, Guarded
    <2>4. victimsBar' \subseteq Launchers
      BY DEF victimsBar
    <2>5. Guard!Aim(holder)
      BY <2>1, <2>2, <2>3, <2>4 DEF Guard!Aim
    <2> QED
      BY <1>1, <2>5 DEF Guard!Next
  <1>2. CASE holder = Nobody
    <2>1. holder' \notin Launchers
      <3>1. \A l \in Launchers : phaseBar[l] # "in"
        BY <1>2, BedrockAssumption DEF phaseBar
      <3>2. \A l \in Launchers : holder' = l => phaseBar'[l] = "in"
        BY DEF phaseBar
      <3> QED
        BY <3>1, <3>2
    <2>2. victimsBar = {} /\ victimsBar' = {}
      BY <1>2, <2>1, BedrockAssumption DEF victimsBar
    <2> QED
      BY <2>2 DEF Guard!vars
  <1> QED
    BY <1>1, <1>2 DEF BedrockInv, TypeOK

LEMMA GuardStep == BedrockInv /\ BedrockInv' /\ [Next]_vars => [Guard!Next]_(Guard!vars)
  <1> SUFFICES ASSUME BedrockInv, BedrockInv', [Next]_vars PROVE [Guard!Next]_(Guard!vars)
    OBVIOUS
  <1>1. ASSUME NEW l \in Launchers, Lock(l), pc[l] \in {"out", "queue"} PROVE [Guard!Next]_(Guard!vars)
    BY <1>1, Entered DEF Guard!Next
  <1>2. ASSUME NEW l \in Launchers, pc[l] \in {"out", "held"}, UNCHANGED holder,
               Goto(l, "held") \/ Goto(l, "queue")
        PROVE  [Guard!Next]_(Guard!vars)
    <2>1. UNCHANGED phaseBar
      BY <1>2 DEF Goto, phaseBar, BedrockInv, TypeOK
    <2> QED
      BY <2>1, Aimed
  <1>3. ASSUME NEW l \in Launchers, Click(l) \/ Queue(l) PROVE [Guard!Next]_(Guard!vars)
    BY <1>1, <1>2, <1>3 DEF Click, Queue
  <1>4. ASSUME NEW l \in Launchers, Held(l) \/ GiveUp(l) PROVE [Guard!Next]_(Guard!vars)
    BY <1>2, <1>4, LeftUnguarded DEF Held, GiveUp, Guard!Next
  <1>5. ASSUME NEW l \in Launchers, pc[l] \in Guarded, UNCHANGED holder, NEW place \in Guarded,
               Goto(l, place)
        PROVE  [Guard!Next]_(Guard!vars)
    <2>1. UNCHANGED phaseBar
      BY <1>5 DEF Goto, phaseBar, Guarded, BedrockInv, TypeOK
    <2> QED
      BY <2>1, Aimed
  <1>6. ASSUME NEW l \in Launchers, pc[l] \in Guarded, Release(l), Goto(l, "reap") \/ Goto(l, "done")
        PROVE  [Guard!Next]_(Guard!vars)
    BY <1>6, Left DEF Guard!Next
  <1>7. ASSUME NEW l \in Launchers, Look(l) \/ StopWaiting(l) \/ Clear(l) \/ Play(l)
        PROVE  [Guard!Next]_(Guard!vars)
    BY <1>5, <1>7 DEF Look, StopWaiting, Clear, Play, Guarded
  <1>8. ASSUME NEW l \in Launchers, LookAgain(l) PROVE [Guard!Next]_(Guard!vars)
    BY <1>5, <1>6, <1>8 DEF LookAgain, Guarded
  <1>9. ASSUME NEW l \in Launchers, AlreadyRunning(l) \/ ExitedEarly(l) \/ HasWindow(l) \/ Deadline(l)
        PROVE  [Guard!Next]_(Guard!vars)
    BY <1>6, <1>9 DEF AlreadyRunning, ExitedEarly, HasWindow, Deadline, Settle, Guarded
  <1>10. ASSUME NEW l \in Launchers, pc[l] = "reap", Release(l), Goto(l, "done")
         PROVE  [Guard!Next]_(Guard!vars)
    <2>1. UNCHANGED phaseBar
      BY <1>10 DEF Goto, Release, phaseBar, Guarded, BedrockInv, TypeOK
    <2> QED
      BY <2>1, Aimed
  <1>11. ASSUME NEW l \in Launchers, Reap(l) PROVE [Guard!Next]_(Guard!vars)
    <2>1. Release(l)
      BY <1>11 DEF Reap, Release, Guarded, BedrockInv, TypeOK
    <2> QED
      BY <1>10, <1>11, <2>1 DEF Reap
  <1>12. ASSUME NEW l \in Launchers, Killed(l) PROVE [Guard!Next]_(Guard!vars)
    <2>1. CASE pc[l] \in {"held", "queue"}
      <3>1. UNCHANGED <<holder, session, marker>>
        BY <1>12, <2>1 DEF Killed, Release, BedrockInv, TypeOK, Guarded
      <3> QED
        BY <1>12, <2>1, <3>1, LeftUnguarded DEF Killed, Guard!Next
    <2>2. CASE pc[l] \in Guarded \cup {"reap"}
      BY <1>6, <1>10, <1>12, <2>2 DEF Killed
    <2> QED
      BY <1>12, <2>1, <2>2 DEF Killed, Guarded, Places, BedrockInv, TypeOK
  <1>13. CASE UNCHANGED <<pc, holder>>
    <2>1. UNCHANGED phaseBar
      BY <1>13 DEF phaseBar
    <2> QED
      BY <2>1, Aimed
  <1>14. Environment => UNCHANGED <<pc, holder>> \/ \E l \in Launchers : Killed(l)
    BY DEF Environment, Opens, Appears, Lists, Refuses, Fails, StartsGame, Shows, GameEnds, Exits,
       Slain, scriptVars
  <1> QED
    BY <1>3, <1>4, <1>7, <1>8, <1>9, <1>11, <1>12, <1>13, <1>14 DEF Next, Step, vars

\* The clicks implement LaunchGuard: one launch at a time between the lock and its window, and
\* none of what it clears away is such a launch.
THEOREM ImplementsGuard == Spec => GuardSpec
  <1>1. Init => Guard!Init
    BY BedrockAssumption DEF Init, Guard!Init, phaseBar, victimsBar
  <1> QED
    BY <1>1, GuardStep, BedrockInvariant, PTL DEF Spec, GuardSpec, Guard!Spec
===============================================================================
