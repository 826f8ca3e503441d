---------------------------- MODULE PlaybookProofs -----------------------------
(* What holds of Playbook for every inventory and every controller in it. *)
EXTENDS Playbook, TLAPS

-------------------------------------------------------------------------------
(* Type correctness *)

LEMMA InitType == Init => TypeOK
  BY ControllerAssumption DEF Init, TypeOK, Plays, Knobs, Steps, Reasons

LEMMA NextType == TypeOK /\ [Next]_vars => TypeOK'
  <1> SUFFICES ASSUME TypeOK, [Next]_vars PROVE TypeOK'
    OBVIOUS
  <1> USE DEF TypeOK, Steps, InChild, Reasons, Goto, End, vars, procVars, planVars, childVars, givenVars
  <1>1. CASE RefuseInvocation
    BY <1>1 DEF RefuseInvocation
  <1>2. CASE TakeHosts
    BY <1>2 DEF TakeHosts, CarriedHosts
  <1>3. CASE List
    BY <1>3 DEF List, Plays
  <1>4. CASE Secrets
    BY <1>4 DEF Secrets, SecretsRoutes, Views
  <1>5. CASE Sudo
    BY <1>5 DEF Sudo, CarriedKnobs
  <1>6. CASE Probe
    BY <1>6 DEF Probe
  <1>7. CASE Flag
    BY <1>7 DEF Flag, BecomeFlag
  <1>8. CASE Fork
    BY <1>8 DEF Fork
  <1>9. CASE Exec
    BY <1>9 DEF Exec
  <1>10. CASE SendPending
    <2>1. term' \in {"none", "held", "sent", "took"}
      <3>1. CASE held
        BY <1>10, <3>1 DEF SendPending
      <3>2. CASE ~ held
        BY <1>10, <3>2 DEF SendPending
      <3> QED
        BY <3>1, <3>2
    <2>2. held' \in BOOLEAN
      BY <1>10, Zenon DEF SendPending
    <2> QED
      BY <1>10, <2>1, <2>2 DEF SendPending
  <1>11. CASE Wait
    BY <1>11 DEF Wait
  <1>12. CASE Terminate
    <2>1. held' \in BOOLEAN
      BY <1>12, Zenon DEF Terminate
    <2> QED
      BY <1>12, <2>1 DEF Terminate
  <1>13. CASE Interrupt
    BY <1>13 DEF Interrupt
  <1>14. CASE Apply
    BY <1>14 DEF Apply, Limited, Reachable, Plays
  <1>15. CASE ChildExits
    BY <1>15 DEF ChildExits
  <1>16. CASE UNCHANGED vars
    BY <1>16
  <1> QED
    BY <1>1, <1>2, <1>3, <1>4, <1>5, <1>6, <1>7, <1>8, <1>9, <1>10, <1>11, <1>12, <1>13, <1>14, <1>15, <1>16 DEF Next, Dispatch

\* Every variable stays in its type (TypeOK).
THEOREM TypeCorrect == Spec => []TypeOK
  <1> QED
    BY InitType, NextType, PTL DEF Spec

-------------------------------------------------------------------------------
(* The inductive invariant *)

LEMMA InitInv == Init => PlaybookInv
  BY DEF Init, PlaybookInv, ChildInPlace, ReentryKeeps, ReentryOnce, DroppedByProbe, RouteSettled, PromptSettled, KnobsReachTheRun, ListsItsOwn, RefusedBeforeAsking, Routed, InChild, Limited, Reachable, BecomeFlag

LEMMA NextInv == TypeOK /\ PlaybookInv /\ [Next]_vars => PlaybookInv'
  <1> SUFFICES ASSUME TypeOK, PlaybookInv, [Next]_vars PROVE PlaybookInv'
    OBVIOUS
  <1> USE DEF PlaybookInv, Routed, InChild, Goto, End, vars, procVars, planVars, childVars, givenVars
  <1>1. CASE RefuseInvocation
    <2>1. ChildInPlace'
      BY <1>1 DEF RefuseInvocation, ChildInPlace
    <2>2. ReentryKeeps'
      BY <1>1 DEF RefuseInvocation, ReentryKeeps
    <2>3. ReentryOnce'
      BY <1>1 DEF RefuseInvocation, ReentryOnce
    <2>4. DroppedByProbe'
      BY <1>1 DEF RefuseInvocation, DroppedByProbe, Limited, Reachable, ChildInPlace
    <2>5. RouteSettled'
      BY <1>1 DEF RefuseInvocation, RouteSettled
    <2>6. PromptSettled'
      BY <1>1 DEF RefuseInvocation, PromptSettled, BecomeFlag
    <2>7. KnobsReachTheRun'
      BY <1>1 DEF RefuseInvocation, KnobsReachTheRun
    <2>8. ListsItsOwn'
      BY <1>1 DEF RefuseInvocation, ListsItsOwn
    <2>9. RefusedBeforeAsking'
      BY <1>1 DEF RefuseInvocation, RefusedBeforeAsking
    <2> QED
      BY <2>1, <2>2, <2>3, <2>4, <2>5, <2>6, <2>7, <2>8, <2>9
  <1>2. CASE TakeHosts
    <2>1. ChildInPlace'
      BY <1>2 DEF TakeHosts, ChildInPlace
    <2>2. ReentryKeeps'
      BY <1>2 DEF TakeHosts, CarriedHosts, ReentryKeeps
    <2>3. ReentryOnce'
      BY <1>2 DEF TakeHosts, CarriedHosts, ReentryOnce
    <2>4. DroppedByProbe'
      BY <1>2 DEF TakeHosts, CarriedHosts, DroppedByProbe, Limited, Reachable, ChildInPlace
    <2>5. RouteSettled'
      BY <1>2 DEF TakeHosts, RouteSettled
    <2>6. PromptSettled'
      BY <1>2 DEF TakeHosts, CarriedHosts, PromptSettled, BecomeFlag
    <2>7. KnobsReachTheRun'
      BY <1>2 DEF TakeHosts, KnobsReachTheRun
    <2>8. ListsItsOwn'
      BY <1>2 DEF TakeHosts, CarriedHosts, ListsItsOwn, ReentryKeeps
    <2>9. RefusedBeforeAsking'
      BY <1>2 DEF TakeHosts, RefusedBeforeAsking
    <2> QED
      BY <2>1, <2>2, <2>3, <2>4, <2>5, <2>6, <2>7, <2>8, <2>9
  <1>3. CASE List
    <2>1. ChildInPlace'
      BY <1>3 DEF List, ChildInPlace
    <2>2. ReentryKeeps'
      BY <1>3 DEF List, ReentryKeeps
    <2>3. ReentryOnce'
      BY <1>3 DEF List, ReentryOnce
    <2>4. DroppedByProbe'
      BY <1>3 DEF List, DroppedByProbe, Limited, Reachable, ChildInPlace
    <2>5. RouteSettled'
      BY <1>3 DEF List, RouteSettled
    <2>6. PromptSettled'
      BY <1>3 DEF List, PromptSettled, ChildInPlace
    <2>7. KnobsReachTheRun'
      BY <1>3 DEF List, KnobsReachTheRun
    <2>8. ListsItsOwn'
      BY <1>3 DEF List, ListsItsOwn
    <2>9. RefusedBeforeAsking'
      BY <1>3 DEF List, RefusedBeforeAsking, ReentryOnce
    <2> QED
      BY <2>1, <2>2, <2>3, <2>4, <2>5, <2>6, <2>7, <2>8, <2>9
  <1>4. CASE Secrets
    <2>1. ChildInPlace'
      BY <1>4 DEF Secrets, ChildInPlace
    <2>2. ReentryKeeps'
      BY <1>4 DEF Secrets, ReentryKeeps
    <2>3. ReentryOnce'
      BY <1>4 DEF Secrets, SecretsRoutes, Views, ReentryOnce
    <2>4. DroppedByProbe'
      BY <1>4 DEF Secrets, SecretsRoutes, Views, DroppedByProbe, Limited, Reachable, ChildInPlace
    <2>5. RouteSettled'
      BY <1>4 DEF Secrets, SecretsRoutes, Views, RouteSettled
    <2>6. PromptSettled'
      BY <1>4 DEF Secrets, SecretsRoutes, Views, PromptSettled, BecomeFlag
    <2>7. KnobsReachTheRun'
      BY <1>4 DEF Secrets, SecretsRoutes, KnobsReachTheRun, ReentryKeeps, ReentryOnce
    <2>8. ListsItsOwn'
      BY <1>4 DEF Secrets, ListsItsOwn
    <2>9. RefusedBeforeAsking'
      BY <1>4 DEF Secrets, RefusedBeforeAsking
    <2> QED
      BY <2>1, <2>2, <2>3, <2>4, <2>5, <2>6, <2>7, <2>8, <2>9
  <1>5. CASE Sudo
    <2>1. ChildInPlace'
      BY <1>5 DEF Sudo, ChildInPlace
    <2>2. ReentryKeeps'
      BY <1>5 DEF Sudo, CarriedKnobs, ReentryKeeps, ReentryOnce, ListsItsOwn
    <2>3. ReentryOnce'
      BY <1>5 DEF Sudo, ReentryOnce, ReentryKeeps
    <2>4. DroppedByProbe'
      BY <1>5 DEF Sudo, CarriedKnobs, DroppedByProbe, Limited, Reachable, ChildInPlace
    <2>5. RouteSettled'
      BY <1>5 DEF Sudo, CarriedKnobs, RouteSettled
    <2>6. PromptSettled'
      BY <1>5 DEF Sudo, PromptSettled, ChildInPlace
    <2>7. KnobsReachTheRun'
      BY <1>5 DEF Sudo, KnobsReachTheRun, ReentryOnce, ReentryKeeps
    <2>8. ListsItsOwn'
      BY <1>5 DEF Sudo, ListsItsOwn
    <2>9. RefusedBeforeAsking'
      BY <1>5 DEF Sudo, RefusedBeforeAsking, ReentryOnce
    <2> QED
      BY <2>1, <2>2, <2>3, <2>4, <2>5, <2>6, <2>7, <2>8, <2>9
  <1>6. CASE Probe
    <2>1. ChildInPlace'
      BY <1>6 DEF Probe, ChildInPlace
    <2>2. ReentryKeeps'
      BY <1>6 DEF Probe, ReentryKeeps
    <2>3. ReentryOnce'
      BY <1>6 DEF Probe, ReentryOnce
    <2>4. DroppedByProbe'
      BY <1>6 DEF Probe, DroppedByProbe, Limited, Reachable, ChildInPlace
    <2>5. RouteSettled'
      BY <1>6 DEF Probe, RouteSettled
    <2>6. PromptSettled'
      BY <1>6 DEF Probe, PromptSettled, BecomeFlag
    <2>7. KnobsReachTheRun'
      BY <1>6 DEF Probe, KnobsReachTheRun, ReentryKeeps, DroppedByProbe
    <2>8. ListsItsOwn'
      BY <1>6 DEF Probe, ListsItsOwn
    <2>9. RefusedBeforeAsking'
      BY <1>6 DEF Probe, RefusedBeforeAsking
    <2> QED
      BY <2>1, <2>2, <2>3, <2>4, <2>5, <2>6, <2>7, <2>8, <2>9
  <1>7. CASE Flag
    <2>1. ChildInPlace'
      BY <1>7 DEF Flag, ChildInPlace
    <2>2. ReentryKeeps'
      BY <1>7 DEF Flag, ReentryKeeps
    <2>3. ReentryOnce'
      BY <1>7 DEF Flag, ReentryOnce
    <2>4. DroppedByProbe'
      BY <1>7 DEF Flag, BecomeFlag, DroppedByProbe, Limited, Reachable, ChildInPlace
    <2>5. RouteSettled'
      BY <1>7 DEF Flag, RouteSettled
    <2>6. PromptSettled'
      BY <1>7 DEF Flag, BecomeFlag, PromptSettled, ReentryKeeps, ChildInPlace
    <2>7. KnobsReachTheRun'
      BY <1>7 DEF Flag, KnobsReachTheRun
    <2>8. ListsItsOwn'
      BY <1>7 DEF Flag, ListsItsOwn
    <2>9. RefusedBeforeAsking'
      BY <1>7 DEF Flag, RefusedBeforeAsking, ReentryOnce
    <2> QED
      BY <2>1, <2>2, <2>3, <2>4, <2>5, <2>6, <2>7, <2>8, <2>9
  <1>8. CASE Fork
    <2>1. ChildInPlace'
      BY <1>8 DEF Fork, ChildInPlace
    <2>2. ReentryKeeps'
      BY <1>8 DEF Fork, ReentryKeeps
    <2>3. ReentryOnce'
      BY <1>8 DEF Fork, ReentryOnce
    <2>4. DroppedByProbe'
      BY <1>8 DEF Fork, DroppedByProbe, Limited, Reachable, ReentryOnce
    <2>5. RouteSettled'
      BY <1>8 DEF Fork, RouteSettled
    <2>6. PromptSettled'
      BY <1>8 DEF Fork, PromptSettled, BecomeFlag
    <2>7. KnobsReachTheRun'
      BY <1>8 DEF Fork, KnobsReachTheRun
    <2>8. ListsItsOwn'
      BY <1>8 DEF Fork, ListsItsOwn
    <2>9. RefusedBeforeAsking'
      BY <1>8 DEF Fork, RefusedBeforeAsking
    <2> QED
      BY <2>1, <2>2, <2>3, <2>4, <2>5, <2>6, <2>7, <2>8, <2>9
  <1>9. CASE Exec
    <2>1. ChildInPlace'
      BY <1>9 DEF Exec, ChildInPlace
    <2>2. ReentryKeeps'
      BY <1>9 DEF Exec, ReentryKeeps
    <2>3. ReentryOnce'
      BY <1>9 DEF Exec, ReentryOnce
    <2>4. DroppedByProbe'
      BY <1>9 DEF Exec, DroppedByProbe, Limited, Reachable, ChildInPlace
    <2>5. RouteSettled'
      BY <1>9 DEF Exec, RouteSettled
    <2>6. PromptSettled'
      BY <1>9 DEF Exec, PromptSettled, BecomeFlag
    <2>7. KnobsReachTheRun'
      BY <1>9 DEF Exec, KnobsReachTheRun
    <2>8. ListsItsOwn'
      BY <1>9 DEF Exec, ListsItsOwn
    <2>9. RefusedBeforeAsking'
      BY <1>9 DEF Exec, RefusedBeforeAsking
    <2> QED
      BY <2>1, <2>2, <2>3, <2>4, <2>5, <2>6, <2>7, <2>8, <2>9
  <1>10. CASE SendPending
    <2>1. ChildInPlace'
      BY <1>10 DEF SendPending, ChildInPlace
    <2>2. ReentryKeeps'
      BY <1>10 DEF SendPending, ReentryKeeps
    <2>3. ReentryOnce'
      BY <1>10 DEF SendPending, ReentryOnce
    <2>4. DroppedByProbe'
      BY <1>10 DEF SendPending, DroppedByProbe, Limited, Reachable, ChildInPlace
    <2>5. RouteSettled'
      BY <1>10 DEF SendPending, RouteSettled
    <2>6. PromptSettled'
      BY <1>10 DEF SendPending, PromptSettled, BecomeFlag
    <2>7. KnobsReachTheRun'
      BY <1>10 DEF SendPending, KnobsReachTheRun
    <2>8. ListsItsOwn'
      BY <1>10 DEF SendPending, ListsItsOwn
    <2>9. RefusedBeforeAsking'
      BY <1>10 DEF SendPending, RefusedBeforeAsking
    <2> QED
      BY <2>1, <2>2, <2>3, <2>4, <2>5, <2>6, <2>7, <2>8, <2>9
  <1>11. CASE Wait
    <2>1. ChildInPlace'
      BY <1>11 DEF Wait, ChildInPlace
    <2>2. ReentryKeeps'
      BY <1>11 DEF Wait, ReentryKeeps
    <2>3. ReentryOnce'
      BY <1>11 DEF Wait, ReentryOnce
    <2>4. DroppedByProbe'
      BY <1>11 DEF Wait, DroppedByProbe, Limited, Reachable, ChildInPlace
    <2>5. RouteSettled'
      BY <1>11 DEF Wait, RouteSettled
    <2>6. PromptSettled'
      BY <1>11 DEF Wait, PromptSettled, BecomeFlag
    <2>7. KnobsReachTheRun'
      BY <1>11 DEF Wait, KnobsReachTheRun
    <2>8. ListsItsOwn'
      BY <1>11 DEF Wait, ListsItsOwn
    <2>9. RefusedBeforeAsking'
      BY <1>11 DEF Wait, RefusedBeforeAsking
    <2> QED
      BY <2>1, <2>2, <2>3, <2>4, <2>5, <2>6, <2>7, <2>8, <2>9
  <1>12. CASE Terminate
    <2>1. ChildInPlace'
      BY <1>12 DEF Terminate, ChildInPlace
    <2>2. ReentryKeeps'
      BY <1>12 DEF Terminate, ReentryKeeps
    <2>3. ReentryOnce'
      BY <1>12 DEF Terminate, ReentryOnce
    <2>4. DroppedByProbe'
      BY <1>12 DEF Terminate, DroppedByProbe, Limited, Reachable, ChildInPlace
    <2>5. RouteSettled'
      BY <1>12 DEF Terminate, RouteSettled
    <2>6. PromptSettled'
      BY <1>12 DEF Terminate, PromptSettled, BecomeFlag
    <2>7. KnobsReachTheRun'
      BY <1>12 DEF Terminate, KnobsReachTheRun
    <2>8. ListsItsOwn'
      BY <1>12 DEF Terminate, ListsItsOwn
    <2>9. RefusedBeforeAsking'
      BY <1>12 DEF Terminate, RefusedBeforeAsking
    <2> QED
      BY <2>1, <2>2, <2>3, <2>4, <2>5, <2>6, <2>7, <2>8, <2>9
  <1>13. CASE Interrupt
    <2>1. ChildInPlace'
      BY <1>13 DEF Interrupt, ChildInPlace
    <2>2. ReentryKeeps'
      BY <1>13 DEF Interrupt, ReentryKeeps
    <2>3. ReentryOnce'
      BY <1>13 DEF Interrupt, ReentryOnce
    <2>4. DroppedByProbe'
      BY <1>13 DEF Interrupt, DroppedByProbe, Limited, Reachable, ChildInPlace
    <2>5. RouteSettled'
      BY <1>13 DEF Interrupt, RouteSettled
    <2>6. PromptSettled'
      BY <1>13 DEF Interrupt, PromptSettled, BecomeFlag
    <2>7. KnobsReachTheRun'
      BY <1>13 DEF Interrupt, KnobsReachTheRun
    <2>8. ListsItsOwn'
      BY <1>13 DEF Interrupt, ListsItsOwn
    <2>9. RefusedBeforeAsking'
      BY <1>13 DEF Interrupt, RefusedBeforeAsking
    <2> QED
      BY <2>1, <2>2, <2>3, <2>4, <2>5, <2>6, <2>7, <2>8, <2>9
  <1>14. CASE Apply
    <2>1. ChildInPlace'
      BY <1>14 DEF Apply, ChildInPlace
    <2>2. ReentryKeeps'
      BY <1>14 DEF Apply, ReentryKeeps
    <2>3. ReentryOnce'
      BY <1>14 DEF Apply, ReentryOnce
    <2>4. DroppedByProbe'
      BY <1>14 DEF Apply, Limited, Reachable, DroppedByProbe, ChildInPlace
    <2>5. RouteSettled'
      BY <1>14 DEF Apply, RouteSettled
    <2>6. PromptSettled'
      BY <1>14 DEF Apply, Limited, Reachable, PromptSettled, BecomeFlag
    <2>7. KnobsReachTheRun'
      BY <1>14 DEF Apply, KnobsReachTheRun
    <2>8. ListsItsOwn'
      BY <1>14 DEF Apply, ListsItsOwn
    <2>9. RefusedBeforeAsking'
      BY <1>14 DEF Apply, RefusedBeforeAsking
    <2> QED
      BY <2>1, <2>2, <2>3, <2>4, <2>5, <2>6, <2>7, <2>8, <2>9
  <1>15. CASE ChildExits
    <2>1. ChildInPlace'
      BY <1>15 DEF ChildExits, ChildInPlace
    <2>2. ReentryKeeps'
      BY <1>15 DEF ChildExits, ReentryKeeps
    <2>3. ReentryOnce'
      BY <1>15 DEF ChildExits, ReentryOnce
    <2>4. DroppedByProbe'
      BY <1>15 DEF ChildExits, DroppedByProbe, Limited, Reachable, ChildInPlace
    <2>5. RouteSettled'
      BY <1>15 DEF ChildExits, RouteSettled
    <2>6. PromptSettled'
      BY <1>15 DEF ChildExits, PromptSettled, BecomeFlag
    <2>7. KnobsReachTheRun'
      BY <1>15 DEF ChildExits, KnobsReachTheRun
    <2>8. ListsItsOwn'
      BY <1>15 DEF ChildExits, ListsItsOwn
    <2>9. RefusedBeforeAsking'
      BY <1>15 DEF ChildExits, RefusedBeforeAsking
    <2> QED
      BY <2>1, <2>2, <2>3, <2>4, <2>5, <2>6, <2>7, <2>8, <2>9
  <1>16. CASE UNCHANGED vars
    BY <1>16 DEF ChildInPlace, ReentryKeeps, ReentryOnce, DroppedByProbe, RouteSettled, PromptSettled, KnobsReachTheRun, ListsItsOwn, RefusedBeforeAsking, Limited, Reachable, BecomeFlag
  <1> QED
    BY <1>1, <1>2, <1>3, <1>4, <1>5, <1>6, <1>7, <1>8, <1>9, <1>10, <1>11, <1>12, <1>13, <1>14, <1>15, <1>16 DEF Next, Dispatch

\* The inductive invariant holds (PlaybookInv).
THEOREM PlaybookInvariant == Spec => [](TypeOK /\ PlaybookInv)
  <1> QED
    BY InitType, NextType, InitInv, NextInv, PTL DEF Spec

-------------------------------------------------------------------------------
(* The properties *)

\* The child of a credential playbook is started under sops, by whichever process of the run,
\* unless the operator typed SECRETS=none.
THEOREM CredentialedOrRefusedHolds == Spec => []CredentialedOrRefused
  <1>1. PlaybookInv => CredentialedOrRefused
    BY DEF PlaybookInv, CredentialedOrRefused, RouteSettled, ReentryKeeps
  <1> QED
    BY <1>1, PlaybookInvariant, PTL

\* The knobs the operator typed reach the process that probes and starts the child.
THEOREM KnobsReachTheRunHolds == Spec => []KnobsReachTheRun
  <1>1. PlaybookInv => KnobsReachTheRun
    BY DEF PlaybookInv
  <1> QED
    BY <1>1, PlaybookInvariant, PTL

\* A run the listing refuses has asked for neither an escalation nor a password.
THEOREM RefusedBeforeAskingHolds == Spec => []RefusedBeforeAsking
  <1>1. PlaybookInv => RefusedBeforeAsking
    BY DEF PlaybookInv
  <1> QED
    BY <1>1, PlaybookInvariant, PTL

\* The hosts of a run are those its playbook targets, whichever process listed them.
THEOREM ListsItsOwnHolds == Spec => []ListsItsOwn
  <1>1. PlaybookInv => ListsItsOwn
    BY DEF PlaybookInv
  <1> QED
    BY <1>1, PlaybookInvariant, PTL

\* An unprivileged run that may reach the controller's sudo was started with the prompt.
THEOREM PromptsForControllerHolds == Spec => []PromptsForController
  <1>1. PlaybookInv => PromptsForController
    BY DEF PlaybookInv, PromptsForController, PromptSettled, BecomeFlag, ListsItsOwn, ReentryKeeps
  <1> QED
    BY <1>1, PlaybookInvariant, PTL

\* The run is the one the operator typed, on both sides of the re-entry.
THEOREM SameRunHolds == Spec => []SameRun
  BY KnobsReachTheRunHolds, ListsItsOwnHolds, PTL DEF SameRun

\* A password is asked for neither too early nor too late.
THEOREM AsksInTimeHolds == Spec => []AsksInTime
  BY RefusedBeforeAskingHolds, PromptsForControllerHolds, PTL DEF AsksInTime

\* No run has ended whose child has not, whatever signals reached the dispatcher.
THEOREM NoOrphanHolds == Spec => []NoOrphan
  <1>1. PlaybookInv => NoOrphan
    BY DEF PlaybookInv, NoOrphan, ChildInPlace
  <1> QED
    BY <1>1, PlaybookInvariant, PTL
===============================================================================
