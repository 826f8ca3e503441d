-------------------------- MODULE LutrisLaunchProofs ---------------------------
(* What holds of LutrisLaunch for every set of runs, every slug and every fault. *)
EXTENDS LutrisLaunch, TLAPS

-------------------------------------------------------------------------------
(* Type correctness *)

LEMMA InitType == Init => TypeOK
  <1> SUFFICES ASSUME Init PROVE TypeOK
    OBVIOUS
  <1>1. /\ targets \in [Launchers -> SUBSET (Launchers \X InProc)]
        /\ owners \in [Launchers -> SUBSET (Launchers \cup {User})]
        /\ survivors \in [Launchers -> SUBSET Launchers]
        /\ wineSeen \in [Launchers -> BOOLEAN]
        /\ shown \in [Launchers -> BOOLEAN]
    BY Zenon DEF Init
  <1> QED
    BY <1>1 DEF Init, TypeOK, Places, Instances, Children, Stages

\* A step of a run leaves every variable in its type.
LEMMA StepType ==
  ASSUME TypeOK, NEW l \in Launchers, Step(l)
  PROVE  TypeOK'
  <1> USE DEF TypeOK, Goto, Tell, Settle
  <1>1. CASE Acquire(l)
    BY <1>1 DEF Acquire, Places, Critical, teardownVars, waitVars, lutrisVars, sessVars
  <1>2. CASE FindHeld(l)
    BY <1>2 DEF FindHeld, Places, Waiting, teardownVars, waitVars, lutrisVars, sessVars
  <1>3. CASE AskInUse(l)
    BY <1>3 DEF AskInUse, Places, Waiting, teardownVars, waitVars, lutrisVars, sessVars
  <1>4. CASE Busy(l)
    BY <1>4 DEF Busy, Places, teardownVars, waitVars, lutrisVars, sessVars
  <1>5. CASE Decide(l)
    BY <1>5 DEF Decide, Places, Critical, Teardown, teardownVars, waitVars, lutrisVars, sessVars
  <1>6. CASE BeginHandoff(l)
    BY <1>6 DEF BeginHandoff, Places, Critical, teardownVars, waitVars, lutrisVars, sessVars
  <1>7. CASE EndHandoff(l)
    BY <1>7 DEF EndHandoff, Places, Critical, teardownVars, waitVars, lutrisVars, sessVars
  <1>8. CASE Scan(l)
    <2>1. PICK orphaned \in SUBSET {m \in Carriers : sess[m] \in {"wine", "blocked"}} :
            owners' = [owners EXCEPT ![l] = SandboxAncestors(orphaned) \cup RungameInstances(l)]
      BY <1>8 DEF Scan
    <2>2. SandboxAncestors(orphaned) \cup RungameInstances(l) \subseteq Launchers \cup {User}
      BY DEF SandboxAncestors, RungameInstances, InstanceUp, Carriers, Instances
    <2>3. owners' \in [Launchers -> SUBSET (Launchers \cup {User})]
      BY <2>1, <2>2
    <2>4. {<<m, sess[m]>> : m \in Carriers} \in SUBSET (Launchers \X InProc)
      BY DEF Carriers
    <2>5. targets' \in [Launchers -> SUBSET (Launchers \X InProc)]
      BY <1>8, <2>4 DEF Scan
    <2> QED
      BY <1>8, <2>3, <2>5 DEF Scan, Places, Critical, Teardown, waitVars, lutrisVars, sessVars
  <1>9. CASE WarnLaunchers(l)
    BY <1>9 DEF WarnLaunchers, Places, Critical, Teardown, teardownVars, waitVars, lutrisVars, sessVars
  <1>10. CASE Terminate(l)
    <2>1. PICK died \in SUBSET {m \in Targeted(l) : sess[m] # "blocked"} :
            /\ sess' = [m \in Launchers |->
                          IF m \notin died THEN sess[m] ELSE IF Joined(l, m) THEN "wine" ELSE "none"]
            /\ targets' = [targets EXCEPT ![l] = {t \in @ : t[1] \in Targeted(l) \ died}]
      BY <1>10 DEF Terminate
    <2>2. sess' \in [Launchers -> Stages]
      BY <2>1 DEF Stages
    <2>3. targets' \in [Launchers -> SUBSET (Launchers \X InProc)]
      BY <2>1
    <2> QED
      BY <1>10, <2>2, <2>3 DEF Terminate, Places, Critical, Teardown, waitVars, lutrisVars
  <1>11. CASE Kill(l)
    <2>1. PICK blocked \in SUBSET {m \in Targeted(l) : sess[m] # "pre" /\ ~ Joined(l, m)} :
            /\ sess' = [m \in Launchers |->
                          IF m \in blocked THEN "blocked"
                          ELSE IF m \notin Targeted(l) THEN sess[m]
                          ELSE IF Joined(l, m) THEN "wine" ELSE "none"]
            /\ survivors' = [survivors EXCEPT ![l] = blocked]
      BY <1>11 DEF Kill
    <2>2. sess' \in [Launchers -> Stages]
      BY <2>1 DEF Stages
    <2>3. survivors' \in [Launchers -> SUBSET Launchers]
      BY <2>1 DEF Targeted, Carriers
    <2>4. targets' \in [Launchers -> SUBSET (Launchers \X InProc)]
      BY <1>11 DEF Kill
    <2> QED
      BY <1>11, <2>2, <2>3, <2>4 DEF Kill, Places, Critical, Teardown, waitVars, lutrisVars
  <1>12. CASE AwaitOwners(l)
    BY <1>12 DEF AwaitOwners, Places, Critical, waitVars, lutrisVars, sessVars
  <1>13. CASE Spawn(l)
    BY <1>13 DEF Spawn, Places, Critical, Children, teardownVars, waitVars, sessVars
  <1>14. CASE PollChildFailed(l)
    BY <1>14 DEF PollChildFailed, EndWait, Places, Critical, teardownVars, lutrisVars, sessVars
  <1>15. CASE PollWindow(l)
    BY <1>15 DEF PollWindow, EndWait, Places, Critical, teardownVars, lutrisVars, sessVars
  <1>16. CASE PollSandboxEmpty(l)
    BY <1>16 DEF PollSandboxEmpty, EndWait, Places, Critical, teardownVars, lutrisVars, sessVars
  <1>17. CASE PollNoGamescope(l)
    BY <1>17 DEF PollNoGamescope, EndWait, Places, Critical, teardownVars, lutrisVars, sessVars
  <1>18. CASE PollOn(l)
    <2>1. Watched(l) \subseteq Launchers \cup {Nobody}
      BY DEF Watched, Displays, Wineservers, Visible, Carriers
    <2>2. display' \in [Launchers -> Launchers \cup {Nobody}]
      BY <1>18, <2>1 DEF PollOn
    <2>3. wineSeen' \in [Launchers -> BOOLEAN]
      BY <1>18 DEF PollOn
    <2> QED
      BY <1>18, <2>2, <2>3 DEF PollOn, runVars, teardownVars, lutrisVars, sessVars
  <1>19. CASE WindowDeadline(l)
    BY <1>19 DEF WindowDeadline, EndWait, Places, Critical, teardownVars, lutrisVars, sessVars
  <1>20. CASE Unlock(l)
    BY <1>20 DEF Unlock, Forget, Places, lutrisVars, sessVars
  <1>21. CASE Reap(l)
    BY <1>21 DEF Reap, Places, teardownVars, waitVars, lutrisVars, sessVars
  <1> QED
    BY <1>1, <1>2, <1>3, <1>4, <1>5, <1>6, <1>7, <1>8, <1>9, <1>10, <1>11, <1>12, <1>13, <1>14,
       <1>15, <1>16, <1>17, <1>18, <1>19, <1>20, <1>21 DEF Step

\* A fault leaves every variable in its type.
LEMMA FaultType ==
  ASSUME TypeOK, NEW l \in Launchers, Fault(l)
  PROVE  TypeOK'
  <1> USE DEF TypeOK, Goto, Settle
  <1>1. CASE TeardownError(l)
    BY <1>1 DEF TeardownError, Places, Critical, waitVars, lutrisVars, sessVars
  <1>2. CASE SpawnError(l)
    BY <1>2 DEF SpawnError, Places, Critical, teardownVars, waitVars, lutrisVars, sessVars
  <1>3. CASE Crash(l)
    BY <1>3 DEF Crash, Forget, Places, lutrisVars, sessVars
  <1>4. CASE Interrupt(l)
    <2>1. pc' \in [Launchers -> Places] /\ code' \in [Launchers -> {"none", "zero", "nonzero"}]
      BY <1>4 DEF Interrupt, Places, Critical
    <2>2. /\ child' \in [Launchers -> Children]
          /\ bus' \in Instances
          /\ quitting' \in BOOLEAN
          /\ sess' \in [Launchers -> Stages]
      <3>1. CASE pc[l] = "window" /\ child[l] = "up"
        BY <1>4, <3>1 DEF Interrupt, LeaveBus, Children, Instances, Stages
      <3>2. CASE ~ (pc[l] = "window" /\ child[l] = "up")
        BY <1>4, <3>2 DEF Interrupt, lutrisVars
      <3> QED
        BY <3>1, <3>2
    <2> QED
      BY <1>4, <2>1, <2>2 DEF Interrupt, Forget
  <1>5. CASE LutrisFails(l)
    BY <1>5 DEF LutrisFails, LeaveBus, Children, Instances, Stages, runVars, teardownVars, waitVars
  <1> QED
    BY <1>1, <1>2, <1>3, <1>4, <1>5 DEF Fault

\* A click, a request and a session that moves leave every variable in its type.
LEMMA WorldType ==
  ASSUME TypeOK, NEW l \in Launchers, Click(l) \/ JoinBus(l) \/ SessionMoves(l)
  PROVE  TypeOK'
  <1> USE DEF TypeOK
  <1>1. CASE Click(l)
    BY <1>1 DEF Click, Goto, Places, Waiting, teardownVars, waitVars, lutrisVars, sessVars
  <1>2. CASE JoinBus(l)
    BY <1>2 DEF JoinBus, Children, Instances, Stages, runVars, teardownVars, waitVars
  <1>3. CASE SessionMoves(l)
    BY <1>3 DEF SessionMoves, Stages, runVars, teardownVars, waitVars, lutrisVars
  <1> QED
    BY <1>1, <1>2, <1>3

LEMMA StutterType ==
  ASSUME TypeOK, UNCHANGED vars
  PROVE  TypeOK'
  BY DEF TypeOK, vars, runVars, teardownVars, waitVars, lutrisVars, sessVars

LEMMA NextType ==
  ASSUME TypeOK, [Next]_vars
  PROVE  TypeOK'
  <1>1. CASE UNCHANGED vars
    BY <1>1, StutterType
  <1>2. CASE \E l \in Launchers : Click(l) \/ Step(l) \/ Fault(l) \/ JoinBus(l) \/ SessionMoves(l)
    BY <1>2, StepType, FaultType, WorldType
  <1>3. CASE UserOpens \/ BusQuits \/ BusExits
    <2>1. CASE UserOpens
      BY <2>1 DEF UserOpens, TypeOK, Instances, runVars, teardownVars, waitVars, sessVars
    <2>2. CASE BusQuits
      BY <2>2 DEF BusQuits, TypeOK, runVars, teardownVars, waitVars, sessVars
    <2>3. CASE BusExits
      BY <2>3 DEF BusExits, LeaveBus, TypeOK, Children, Instances, Stages, runVars, teardownVars, waitVars
    <2> QED
      BY <1>3, <2>1, <2>2, <2>3
  <1> QED
    BY <1>1, <1>2, <1>3 DEF Next

\* Every variable of the runs, of Lutris and of the sessions keeps its type, whatever fails.
THEOREM TypeCorrect == Spec => []TypeOK
  BY InitType, NextType, PTL DEF Spec
-------------------------------------------------------------------------------
(* One launch at a time, and no teardown of one in flight *)

\* What a run has found to signal started earlier, and has nothing to do with the run itself.
LEMMA CarriersStarted ==
  ASSUME LaunchInv, NEW m \in Carriers
  PROVE  m \in Launchers /\ ~ NotStarted(m)
  BY DEF LaunchInv, FreshUntilSpawned, Carriers, InProc

\* With a lock, whoever carries the prefix while another run is in flight has ended its launch.
LEMMA CarriersEnded ==
  ASSUME LaunchInv, RuntimeDir, NEW l \in Launchers, pc[l] \in Teardown, NEW m \in Carriers
  PROVE  pc[m] \in {"childwait", "done", "dead"}
  <1>1. m \in Launchers /\ ~ NotStarted(m)
    BY CarriersStarted
  <1>2. m # l
    BY <1>1 DEF NotStarted
  <1>3. pc[m] \notin Critical
    BY <1>1, <1>2 DEF LaunchInv, HolderOnly, Critical
  <1> QED
    BY <1>1, <1>3 DEF LaunchInv, TypeOK, NotStarted, Places, Critical, Waiting

\* Only the holder of the lock is past taking it.
LEMMA StepHolder ==
  ASSUME TypeOK, HolderOnly, NEW l \in Launchers, Step(l)
  PROVE  HolderOnly'
  <1> pc \in [Launchers -> Places]
    BY DEF TypeOK
  <1> USE DEF HolderOnly, Critical, Teardown, Goto
  <1>1. CASE Acquire(l)
    BY <1>1, InstancesAssumption DEF Acquire
  <1>2. CASE FindHeld(l)
    BY <1>2 DEF FindHeld
  <1>3. CASE AskInUse(l)
    BY <1>3 DEF AskInUse
  <1>4. CASE Busy(l)
    BY <1>4 DEF Busy
  <1>5. CASE Decide(l)
    BY <1>5 DEF Decide
  <1>6. CASE BeginHandoff(l)
    BY <1>6 DEF BeginHandoff
  <1>7. CASE EndHandoff(l)
    BY <1>7 DEF EndHandoff
  <1>8. CASE Scan(l)
    BY <1>8 DEF Scan
  <1>9. CASE WarnLaunchers(l)
    BY <1>9 DEF WarnLaunchers
  <1>10. CASE Terminate(l)
    BY <1>10 DEF Terminate
  <1>11. CASE Kill(l)
    BY <1>11 DEF Kill
  <1>12. CASE AwaitOwners(l)
    BY <1>12 DEF AwaitOwners
  <1>13. CASE Spawn(l)
    BY <1>13 DEF Spawn
  <1>14. CASE PollChildFailed(l)
    BY <1>14 DEF PollChildFailed, EndWait
  <1>15. CASE PollWindow(l)
    BY <1>15 DEF PollWindow, EndWait
  <1>16. CASE PollSandboxEmpty(l)
    BY <1>16 DEF PollSandboxEmpty, EndWait
  <1>17. CASE PollNoGamescope(l)
    BY <1>17 DEF PollNoGamescope, EndWait
  <1>18. CASE PollOn(l)
    BY <1>18 DEF PollOn, runVars
  <1>19. CASE WindowDeadline(l)
    BY <1>19 DEF WindowDeadline, EndWait
  <1>20. CASE Unlock(l)
    BY <1>20 DEF Unlock, Forget
  <1>21. CASE Reap(l)
    BY <1>21 DEF Reap
  <1> QED
    BY <1>1, <1>2, <1>3, <1>4, <1>5, <1>6, <1>7, <1>8, <1>9, <1>10, <1>11, <1>12, <1>13, <1>14, <1>15, <1>16, <1>17, <1>18, <1>19, <1>20, <1>21 DEF Step

\* Nothing of a launch exists before its Popen.
LEMMA StepFresh ==
  ASSUME TypeOK, FreshUntilSpawned, NEW l \in Launchers, Step(l)
  PROVE  FreshUntilSpawned'
  <1> pc \in [Launchers -> Places]
    BY DEF TypeOK
  <1> /\ sess \in [Launchers -> Stages]
      /\ child \in [Launchers -> Children]
    BY DEF TypeOK
  <1> USE DEF FreshUntilSpawned, NotStarted, Waiting, Teardown, Goto, lutrisVars, sessVars
  <1>1. CASE Acquire(l)
    BY <1>1 DEF Acquire
  <1>2. CASE FindHeld(l)
    BY <1>2 DEF FindHeld
  <1>3. CASE AskInUse(l)
    BY <1>3 DEF AskInUse
  <1>4. CASE Busy(l)
    BY <1>4 DEF Busy
  <1>5. CASE Decide(l)
    BY <1>5 DEF Decide
  <1>6. CASE BeginHandoff(l)
    BY <1>6 DEF BeginHandoff
  <1>7. CASE EndHandoff(l)
    BY <1>7 DEF EndHandoff
  <1>8. CASE Scan(l)
    BY <1>8 DEF Scan
  <1>9. CASE WarnLaunchers(l)
    BY <1>9 DEF WarnLaunchers
  <1>10. CASE Terminate(l)
    BY <1>10 DEF Terminate, Targeted, Carriers, InProc
  <1>11. CASE Kill(l)
    BY <1>11 DEF Kill, Targeted, Carriers, InProc
  <1>12. CASE AwaitOwners(l)
    BY <1>12 DEF AwaitOwners
  <1>13. CASE Spawn(l)
    BY <1>13 DEF Spawn
  <1>14. CASE PollChildFailed(l)
    BY <1>14 DEF PollChildFailed, EndWait
  <1>15. CASE PollWindow(l)
    BY <1>15 DEF PollWindow, EndWait
  <1>16. CASE PollSandboxEmpty(l)
    BY <1>16 DEF PollSandboxEmpty, EndWait
  <1>17. CASE PollNoGamescope(l)
    BY <1>17 DEF PollNoGamescope, EndWait
  <1>18. CASE PollOn(l)
    BY <1>18 DEF PollOn, runVars
  <1>19. CASE WindowDeadline(l)
    BY <1>19 DEF WindowDeadline, EndWait
  <1>20. CASE Unlock(l)
    BY <1>20 DEF Unlock, Forget
  <1>21. CASE Reap(l)
    BY <1>21 DEF Reap
  <1> QED
    BY <1>1, <1>2, <1>3, <1>4, <1>5, <1>6, <1>7, <1>8, <1>9, <1>10, <1>11, <1>12, <1>13, <1>14, <1>15, <1>16, <1>17, <1>18, <1>19, <1>20, <1>21 DEF Step

\* Targets are picked by a teardown and gone with it.
LEMMA StepTargets ==
  ASSUME TypeOK, HolderOnly, TargetsInTeardown, NEW l \in Launchers, Step(l)
  PROVE  TargetsInTeardown'
  <1> pc \in [Launchers -> Places]
    BY DEF TypeOK
  <1> targets \in [Launchers -> SUBSET (Launchers \X InProc)]
    BY DEF TypeOK
  <1> USE DEF TargetsInTeardown, Goto, teardownVars
  <1>1. CASE Acquire(l)
    BY <1>1 DEF Acquire
  <1>2. CASE FindHeld(l)
    BY <1>2 DEF FindHeld
  <1>3. CASE AskInUse(l)
    BY <1>3 DEF AskInUse
  <1>4. CASE Busy(l)
    BY <1>4 DEF Busy
  <1>5. CASE Decide(l)
    BY <1>5 DEF Decide
  <1>6. CASE BeginHandoff(l)
    BY <1>6 DEF BeginHandoff
  <1>7. CASE EndHandoff(l)
    BY <1>7 DEF EndHandoff
  <1>8. CASE Scan(l)
    BY <1>8 DEF Scan
  <1>9. CASE WarnLaunchers(l)
    BY <1>9 DEF WarnLaunchers, HolderOnly, Critical, Teardown
  <1>10. CASE Terminate(l)
    BY <1>10 DEF Terminate
  <1>11. CASE Kill(l)
    BY <1>11 DEF Kill
  <1>12. CASE AwaitOwners(l)
    BY <1>12 DEF AwaitOwners
  <1>13. CASE Spawn(l)
    BY <1>13 DEF Spawn
  <1>14. CASE PollChildFailed(l)
    BY <1>14 DEF PollChildFailed, EndWait
  <1>15. CASE PollWindow(l)
    BY <1>15 DEF PollWindow, EndWait
  <1>16. CASE PollSandboxEmpty(l)
    BY <1>16 DEF PollSandboxEmpty, EndWait
  <1>17. CASE PollNoGamescope(l)
    BY <1>17 DEF PollNoGamescope, EndWait
  <1>18. CASE PollOn(l)
    BY <1>18 DEF PollOn, runVars
  <1>19. CASE WindowDeadline(l)
    BY <1>19 DEF WindowDeadline, EndWait
  <1>20. CASE Unlock(l)
    BY <1>20 DEF Unlock, Forget
  <1>21. CASE Reap(l)
    BY <1>21 DEF Reap
  <1> QED
    BY <1>1, <1>2, <1>3, <1>4, <1>5, <1>6, <1>7, <1>8, <1>9, <1>10, <1>11, <1>12, <1>13, <1>14, <1>15, <1>16, <1>17, <1>18, <1>19, <1>20, <1>21 DEF Step

\* No step of a run aims at a launch in flight, and no launch aimed at comes back.
LEMMA StepAim ==
  ASSUME LaunchInv, NEW l \in Launchers, Step(l)
  PROVE  NothingInFlightTargeted'
  <1> SUFFICES ASSUME RuntimeDir, NEW k \in Launchers, NEW m \in Launchers, NEW s \in InProc,
                      <<m, s>> \in targets'[k]
               PROVE  pc'[m] \in {"childwait", "done", "dead"}
    BY DEF NothingInFlightTargeted
  <1> /\ pc \in [Launchers -> Places]
      /\ targets \in [Launchers -> SUBSET (Launchers \X InProc)]
      /\ sess \in [Launchers -> Stages]
    BY DEF LaunchInv, TypeOK
  <1>1. <<m, s>> \in targets[k] \/ (k = l /\ pc[l] = "scan" /\ m \in Carriers)
    <2>1. CASE Scan(l)
      BY <2>1 DEF Scan
    <2>2. CASE ~ Scan(l)
      BY <2>2 DEF Step, Acquire, FindHeld, AskInUse, Busy, Decide, BeginHandoff, EndHandoff,
           WarnLaunchers, Terminate, Kill, AwaitOwners, Spawn, PollChildFailed, PollWindow,
           PollSandboxEmpty, PollNoGamescope, PollOn, WindowDeadline, EndWait, Unlock, Forget,
           Reap, teardownVars
    <2> QED
      BY <2>1, <2>2
  <1>2. pc[m] \in {"childwait", "done", "dead"}
    BY <1>1, CarriersEnded DEF LaunchInv, NothingInFlightTargeted, Teardown
  <1>3. pc'[m] = pc[m] \/ pc'[m] \in {"done", "dead"}
    BY <1>2 DEF Step, Acquire, FindHeld, AskInUse, Busy, Decide, BeginHandoff, EndHandoff, Scan,
         WarnLaunchers, Terminate, Kill, AwaitOwners, Spawn, PollChildFailed, PollWindow,
         PollSandboxEmpty, PollNoGamescope, PollOn, WindowDeadline, EndWait, Unlock, Reap,
         Goto, runVars
  <1> QED
    BY <1>2, <1>3
\* A fault keeps the invariant.
LEMMA FaultInv ==
  ASSUME LaunchInv, NEW l \in Launchers, Fault(l)
  PROVE  HolderOnly' /\ FreshUntilSpawned' /\ TargetsInTeardown' /\ NothingInFlightTargeted'
  <1> /\ TypeOK /\ HolderOnly /\ FreshUntilSpawned /\ TargetsInTeardown /\ NothingInFlightTargeted
      /\ pc \in [Launchers -> Places]
      /\ targets \in [Launchers -> SUBSET (Launchers \X InProc)]
      /\ sess \in [Launchers -> Stages]
      /\ child \in [Launchers -> Children]
    BY DEF LaunchInv, TypeOK
  <1>1. HolderOnly'
    BY DEF HolderOnly, Fault, TeardownError, SpawnError, Crash, Interrupt, LutrisFails,
           Critical, Teardown, Goto, runVars
  <1>2. FreshUntilSpawned'
    <2> USE DEF FreshUntilSpawned, NotStarted, Waiting, Teardown, Goto
    <2>1. CASE TeardownError(l)
      BY <2>1 DEF TeardownError, lutrisVars, sessVars
    <2>2. CASE SpawnError(l)
      BY <2>2 DEF SpawnError, lutrisVars, sessVars
    <2>3. CASE Crash(l)
      BY <2>3 DEF Crash, lutrisVars, sessVars
    <2>4. CASE Interrupt(l)
      <3>1. \A m \in Launchers : NotStarted(m)' => NotStarted(m)
        BY <2>4 DEF Interrupt
      <3>2. \A m \in Launchers : NotStarted(m) => sess'[m] = "none" /\ child'[m] = "none" /\ bus' # m
        BY <2>4, InstancesAssumption DEF Interrupt, LeaveBus, lutrisVars
      <3> QED
        BY <3>1, <3>2
    <2>5. CASE LutrisFails(l)
      BY <2>5, InstancesAssumption DEF LutrisFails, LeaveBus, runVars
    <2> QED
      BY <2>1, <2>2, <2>3, <2>4, <2>5 DEF Fault
  <1>3. TargetsInTeardown'
    BY DEF TargetsInTeardown, Fault, TeardownError, SpawnError, Crash, Interrupt, LutrisFails,
           Forget, Goto, runVars, teardownVars
  <1>4. NothingInFlightTargeted'
    <2> SUFFICES ASSUME RuntimeDir, NEW k \in Launchers, NEW m \in Launchers, NEW s \in InProc,
                        <<m, s>> \in targets'[k]
                 PROVE  pc'[m] \in {"childwait", "done", "dead"}
      BY DEF NothingInFlightTargeted
    <2>1. <<m, s>> \in targets[k]
      BY DEF Fault, TeardownError, SpawnError, Crash, Interrupt, LutrisFails, Forget, teardownVars
    <2>2. pc[m] \in {"childwait", "done", "dead"}
      BY <2>1 DEF NothingInFlightTargeted
    <2> QED
      BY <2>2 DEF Fault, TeardownError, SpawnError, Crash, Interrupt, LutrisFails, Goto,
           Critical, Teardown, runVars
  <1> QED
    BY <1>1, <1>2, <1>3, <1>4

\* A click and whatever Lutris, a session or the user does keep the invariant.
LEMMA WorldInv ==
  ASSUME LaunchInv,
         \/ \E l \in Launchers : Click(l) \/ JoinBus(l) \/ SessionMoves(l)
         \/ UserOpens \/ BusQuits \/ BusExits \/ UNCHANGED vars
  PROVE  HolderOnly' /\ FreshUntilSpawned' /\ TargetsInTeardown' /\ NothingInFlightTargeted'
  <1> /\ TypeOK /\ HolderOnly /\ FreshUntilSpawned /\ TargetsInTeardown /\ NothingInFlightTargeted
      /\ pc \in [Launchers -> Places]
      /\ sess \in [Launchers -> Stages]
      /\ child \in [Launchers -> Children]
    BY DEF LaunchInv, TypeOK
  <1>1. /\ lock' = lock
        /\ targets' = targets
        /\ pc' = pc \/ \E l \in Launchers : pc[l] = "off" /\ pc' = [pc EXCEPT ![l] = "acquire"]
    BY DEF Click, Goto, JoinBus, SessionMoves, UserOpens, BusQuits, BusExits, vars, runVars, teardownVars
  <1>2. HolderOnly'
    BY <1>1 DEF HolderOnly, Critical, Teardown
  <1>3. FreshUntilSpawned'
    <2>1. \A m \in Launchers : NotStarted(m)' => NotStarted(m)
      BY <1>1 DEF NotStarted, Waiting
    <2>2. ASSUME NEW m \in Launchers, NotStarted(m)
          PROVE  sess'[m] = "none" /\ child'[m] = "none" /\ bus' # m
      <3>1. sess[m] = "none" /\ child[m] = "none" /\ bus # m
        BY <2>2 DEF FreshUntilSpawned
      <3> QED
        BY <3>1, InstancesAssumption DEF Click, JoinBus, SessionMoves, UserOpens, BusQuits, BusExits,
             LeaveBus, vars, lutrisVars, sessVars
    <2> QED
      BY <2>1, <2>2 DEF FreshUntilSpawned
  <1>4. TargetsInTeardown'
    BY <1>1 DEF TargetsInTeardown
  <1>5. NothingInFlightTargeted'
    BY <1>1 DEF NothingInFlightTargeted
  <1> QED
    BY <1>2, <1>3, <1>4, <1>5

\* The ways the place of a run changes: its own step, or the SIGTERM of another run's teardown.
LEMMA StartedStays ==
  ASSUME TypeOK, [Next]_vars, NEW m \in Launchers, ~ NotStarted(m)
  PROVE  ~ NotStarted(m)' /\ (~ Running(m) => ~ Running(m)')
  <1> pc \in [Launchers -> Places]
    BY DEF TypeOK
  <1> USE DEF NotStarted, Running, Waiting, Teardown, Goto
  <1>1. CASE \E l \in Launchers : Step(l)
    BY <1>1 DEF Step, Acquire, FindHeld, AskInUse, Busy, Decide, BeginHandoff, EndHandoff, Scan,
         WarnLaunchers, Terminate, Kill, AwaitOwners, Spawn, PollChildFailed, PollWindow,
         PollSandboxEmpty, PollNoGamescope, PollOn, WindowDeadline, EndWait, Unlock, Reap, Forget, Critical, runVars
  <1>2. CASE \E l \in Launchers : Fault(l)
    BY <1>2 DEF Fault, TeardownError, SpawnError, Crash, Interrupt, LutrisFails, Critical, runVars
  <1>3. CASE \/ \E l \in Launchers : Click(l) \/ JoinBus(l) \/ SessionMoves(l)
             \/ UserOpens \/ BusQuits \/ BusExits \/ UNCHANGED vars
    BY <1>3 DEF Click, JoinBus, SessionMoves, UserOpens, BusQuits, BusExits, vars, runVars
  <1> QED
    BY <1>1, <1>2, <1>3 DEF Next

\* How what a run takes for the owners changes.
LEMMA OwnersKept ==
  ASSUME TypeOK, [Next]_vars, NEW k \in Launchers
  PROVE  \/ /\ owners'[k] \subseteq owners[k]
            /\ pc'[k] \in {"term", "grace", "owners", "spawn"} => pc[k] \in {"term", "grace", "owners", "spawn"}
         \/ owners'[k] = {}
         \/ WarnLaunchers(k) /\ owners' = owners
         \/ Scan(k) /\ pc'[k] = "warn"
  <1> owners \in [Launchers -> SUBSET (Launchers \cup {User})] /\ pc \in [Launchers -> Places]
    BY DEF TypeOK
  <1> USE DEF Goto, teardownVars
  <1>1. ASSUME NEW l \in Launchers, Step(l)
        PROVE  \/ /\ owners'[k] \subseteq owners[k]
                  /\ pc'[k] \in {"term", "grace", "owners", "spawn"} => pc[k] \in {"term", "grace", "owners", "spawn"}
               \/ owners'[k] = {}
               \/ WarnLaunchers(k) /\ owners' = owners
               \/ Scan(k) /\ pc'[k] = "warn"
    <2>1. CASE Scan(l)
      BY <2>1 DEF Scan
    <2>2. CASE WarnLaunchers(l)
      BY <2>2 DEF WarnLaunchers
    <2>3. CASE Unlock(l)
      BY <2>3 DEF Unlock, Forget
    <2>4. CASE ~ (Scan(l) \/ WarnLaunchers(l) \/ Unlock(l))
      BY <1>1, <2>4 DEF Step, Acquire, FindHeld, AskInUse, Busy, Decide, BeginHandoff, EndHandoff,
           Terminate, Kill, AwaitOwners, Spawn, PollChildFailed, PollWindow, PollSandboxEmpty,
           PollNoGamescope, PollOn, WindowDeadline, EndWait, Reap, runVars
    <2> QED
      BY <2>1, <2>2, <2>3, <2>4
  <1>2. CASE \E l \in Launchers : Fault(l)
    BY <1>2 DEF Fault, TeardownError, SpawnError, Crash, Interrupt, LutrisFails, Forget, runVars
  <1>3. CASE \/ \E l \in Launchers : Click(l) \/ JoinBus(l) \/ SessionMoves(l)
             \/ UserOpens \/ BusQuits \/ BusExits \/ UNCHANGED vars
    BY <1>3 DEF Click, JoinBus, SessionMoves, UserOpens, BusQuits, BusExits, vars, runVars
  <1> QED
    BY <1>1, <1>2, <1>3 DEF Next

\* The owners a teardown found have started, and are gone once they have been signalled.
LEMMA OwnersInv ==
  ASSUME LaunchInv, [Next]_vars
  PROVE  OwnersStarted' /\ LaunchersWarnedFirst'
  <1> /\ TypeOK /\ FreshUntilSpawned /\ OwnersStarted /\ LaunchersWarnedFirst
    BY DEF LaunchInv
  <1>1. ASSUME NEW k \in Launchers, NEW o \in owners'[k] \cap Launchers
        PROVE  ~ NotStarted(o)
    <2>1. CASE o \in owners[k]
      BY <2>1 DEF OwnersStarted
    <2>2. CASE o \notin owners[k]
      <3>1. Scan(k)
        BY <2>2, OwnersKept
      <3>2. InstanceUp(o)
        BY <3>1 DEF Scan, SandboxAncestors, RungameInstances, TypeOK
      <3> QED
        BY <3>2 DEF InstanceUp, FreshUntilSpawned
    <2> QED
      BY <2>1, <2>2
  <1>2. OwnersStarted'
    BY <1>1, StartedStays DEF OwnersStarted
  <1>3. LaunchersWarnedFirst'
    <2> SUFFICES ASSUME NEW k \in Launchers, pc'[k] \in {"term", "grace", "owners", "spawn"},
                        NEW o \in owners'[k] \cap Launchers
                 PROVE  ~ Running(o)'
      BY DEF LaunchersWarnedFirst
    <2>1. CASE WarnLaunchers(k) /\ owners' = owners
      <3>1. o # k
        BY <1>1, <2>1 DEF WarnLaunchers, NotStarted, Teardown
      <3> QED
        BY <2>1, <3>1 DEF WarnLaunchers, Running
    <2>2. CASE /\ owners'[k] \subseteq owners[k]
               /\ pc[k] \in {"term", "grace", "owners", "spawn"}
      BY <2>2, <1>1, StartedStays DEF LaunchersWarnedFirst
    <2> QED
      BY <2>1, <2>2, OwnersKept
  <1> QED
    BY <1>2, <1>3

\* With or without a fault, the runs keep apart and a teardown reaches nothing in flight.
THEOREM LaunchInvariant == Spec => []LaunchInv
  <1>1. Init => LaunchInv
    BY InitType, InstancesAssumption DEF Init, LaunchInv, HolderOnly, FreshUntilSpawned, TargetsInTeardown,
       NothingInFlightTargeted, OwnersStarted, LaunchersWarnedFirst, Critical, Teardown
  <1>2. LaunchInv /\ [Next]_vars => LaunchInv'
    <2> SUFFICES ASSUME LaunchInv, [Next]_vars PROVE LaunchInv'
      OBVIOUS
    <2>1. TypeOK' /\ OwnersStarted' /\ LaunchersWarnedFirst'
      BY NextType, OwnersInv DEF LaunchInv
    <2>2. CASE \E l \in Launchers : Step(l)
      <3> PICK l \in Launchers : Step(l)
        BY <2>2
      <3> QED
        BY <2>1, StepHolder, StepFresh, StepTargets, StepAim DEF LaunchInv
    <2>3. CASE \E l \in Launchers : Fault(l)
      BY <2>1, <2>3, FaultInv DEF LaunchInv
    <2>4. CASE \/ \E l \in Launchers : Click(l) \/ JoinBus(l) \/ SessionMoves(l)
               \/ UserOpens \/ BusQuits \/ BusExits \/ UNCHANGED vars
      BY <2>1, <2>4, WorldInv DEF LaunchInv
    <2> QED
      BY <2>2, <2>3, <2>4 DEF Next
  <1> QED
    BY <1>1, <1>2, PTL DEF Spec

\* Two runs are never between taking the lock and releasing it together.
THEOREM OneLaunchHolds == Spec => []OneLaunch
  <1>1. LaunchInv => OneLaunch
    BY DEF LaunchInv, HolderOnly, OneLaunch
  <1> QED
    BY <1>1, LaunchInvariant, PTL

\* What a teardown signals is never a launch in flight.
THEOREM NothingInFlightTargetedHolds == Spec => []NothingInFlightTargeted
  <1>1. LaunchInv => NothingInFlightTargeted
    BY DEF LaunchInv
  <1> QED
    BY <1>1, LaunchInvariant, PTL
\* Nobody is left waiting on a Lutris whose session a teardown is about to signal.
THEOREM LaunchersWarnedFirstHolds == Spec => []LaunchersWarnedFirst
  <1>1. LaunchInv => LaunchersWarnedFirst
    BY DEF LaunchInv
  <1> QED
    BY <1>1, LaunchInvariant, PTL

-------------------------------------------------------------------------------
(* What a teardown has to know *)

\* With a lock, a run in flight is alone in it.
LEMMA AloneInFlight ==
  ASSUME LaunchInv, RuntimeDir, NEW k \in Launchers, NEW l \in Launchers,
         pc[k] \in Critical, pc[l] \in Critical
  PROVE  k = l
  BY DEF LaunchInv, HolderOnly

\* A run is past the walk of its teardown by way of it, short of an error there.
LEMMA PastTheWalk ==
  ASSUME TypeOK, "teardown" \notin Faults, [Next]_vars, NEW l \in Launchers,
         pc'[l] \in {"warn", "term", "grace", "owners", "spawn", "window"}
  PROVE  \/ Scan(l)
         \/ WarnLaunchers(l) /\ pc'[l] = IF targets[l] = {} THEN "owners" ELSE "term"
         \/ Terminate(l) \/ Kill(l) \/ AwaitOwners(l) \/ Spawn(l) \/ PollOn(l)
         \/ /\ pc'[l] = pc[l]
            /\ UNCHANGED <<targets[l], owners[l], survivors[l], display[l]>>
  <1> /\ pc \in [Launchers -> Places]
      /\ targets \in [Launchers -> SUBSET (Launchers \X InProc)]
      /\ owners \in [Launchers -> SUBSET (Launchers \cup {User})]
      /\ survivors \in [Launchers -> SUBSET Launchers]
      /\ display \in [Launchers -> Launchers \cup {Nobody}]
    BY DEF TypeOK
  <1> USE DEF Goto, teardownVars
  <1>1. ASSUME NEW k \in Launchers, Step(k), k # l
        PROVE  /\ pc'[l] = pc[l]
               /\ UNCHANGED <<targets[l], owners[l], survivors[l], display[l]>>
    <2>1. CASE WarnLaunchers(k)
      BY <1>1, <2>1 DEF WarnLaunchers, waitVars
    <2>2. CASE ~ WarnLaunchers(k)
      BY <1>1, <2>2 DEF Step, Acquire, FindHeld, AskInUse, Busy, Decide, BeginHandoff, EndHandoff, Scan,
           Terminate, Kill, AwaitOwners, Spawn, PollChildFailed, PollWindow,
           PollSandboxEmpty, PollNoGamescope, PollOn, WindowDeadline, EndWait, Unlock, Forget, Reap,
           runVars, waitVars
    <2> QED
      BY <2>1, <2>2
  <1>2. CASE Step(l)
    <2>1. CASE WarnLaunchers(l)
      BY <2>1 DEF WarnLaunchers
    <2>2. CASE ~ (Scan(l) \/ WarnLaunchers(l) \/ Terminate(l) \/ Kill(l) \/ AwaitOwners(l) \/ Spawn(l) \/ PollOn(l))
      BY <1>2, <2>2 DEF Step, Acquire, FindHeld, AskInUse, Busy, Decide, BeginHandoff, EndHandoff,
           PollChildFailed, PollWindow, PollSandboxEmpty, PollNoGamescope, WindowDeadline, EndWait, Unlock, Reap
    <2> QED
      BY <2>1, <2>2
  <1>3. CASE \E k \in Launchers : Fault(k)
    BY <1>3 DEF Fault, TeardownError, SpawnError, Crash, Interrupt, LutrisFails, Forget, runVars, waitVars, Critical
  <1>4. CASE \/ \E k \in Launchers : Click(k) \/ JoinBus(k) \/ SessionMoves(k)
             \/ UserOpens \/ BusQuits \/ BusExits \/ UNCHANGED vars
    BY <1>4 DEF Click, JoinBus, SessionMoves, UserOpens, BusQuits, BusExits, vars, runVars, waitVars
  <1> QED
    BY <1>1, <1>2, <1>3, <1>4 DEF Next

\* Only the Popen of a run brings about an instance of its game.
LEMMA InstanceSpawned ==
  ASSUME TypeOK, [Next]_vars, NEW o \in Launchers, InstanceUp(o)', ~ InstanceUp(o)
  PROVE  Spawn(o)
  <1> child \in [Launchers -> Children]
    BY DEF TypeOK
  <1> USE InstancesAssumption DEF InstanceUp
  <1>1. ASSUME NEW l \in Launchers, Step(l), ~ Spawn(l) PROVE child' = child /\ bus' = bus
    BY <1>1 DEF Step, Acquire, FindHeld, AskInUse, Busy, Decide, BeginHandoff, EndHandoff, Scan,
         WarnLaunchers, Terminate, Kill, AwaitOwners, PollChildFailed, PollWindow,
         PollSandboxEmpty, PollNoGamescope, PollOn, WindowDeadline, EndWait, Unlock, Reap, lutrisVars
  <1>2. ASSUME NEW l \in Launchers, Spawn(l) PROVE o = l
    BY <1>2 DEF Spawn
  <1>3. ASSUME NEW l \in Launchers, Fault(l) PROVE FALSE
    BY <1>3 DEF Fault, TeardownError, SpawnError, Crash, Interrupt, LutrisFails, LeaveBus, lutrisVars
  <1>4. ASSUME NEW l \in Launchers, JoinBus(l) PROVE FALSE
    BY <1>4 DEF JoinBus
  <1>5. CASE \/ \E l \in Launchers : Click(l) \/ SessionMoves(l)
             \/ UserOpens \/ BusQuits \/ BusExits \/ UNCHANGED vars
    BY <1>5 DEF Click, SessionMoves, UserOpens, BusQuits, BusExits, LeaveBus, vars, lutrisVars
  <1> QED
    BY <1>1, <1>2, <1>3, <1>4, <1>5 DEF Next

\* No run starts an instance beside one that is looking for them.
LEMMA NextFound ==
  ASSUME LaunchInv, RuntimeDir, "teardown" \notin Faults, InstancesFound, [Next]_vars
  PROVE  InstancesFound'
  <1> SUFFICES ASSUME NEW l \in Launchers, pc'[l] \in {"warn", "term", "grace", "owners", "spawn", "window"},
                      NEW o \in Launchers \ {l}, InstanceUp(o)', Slug[o] = Slug[l]
               PROVE  o \in owners'[l]
    BY DEF InstancesFound
  <1> TypeOK /\ owners \in [Launchers -> SUBSET (Launchers \cup {User})]
    BY DEF LaunchInv, TypeOK
  <1>1. pc[l] \in Critical
    BY PastTheWalk DEF Scan, WarnLaunchers, Terminate, Kill, AwaitOwners, Spawn, PollOn, Critical, Teardown
  <1>2. InstanceUp(o)
    BY <1>1, InstanceSpawned, AloneInFlight DEF Spawn, Critical
  <1>3. CASE Scan(l)
    BY <1>2, <1>3 DEF Scan, RungameInstances
  <1>4. CASE ~ Scan(l)
    <2>1. pc[l] \in {"warn", "term", "grace", "owners", "spawn", "window"}
      BY <1>4, PastTheWalk DEF WarnLaunchers, Terminate, Kill, AwaitOwners, Spawn, PollOn
    <2>2. o \in owners[l]
      BY <1>2, <2>1 DEF InstancesFound
    <2> QED
      BY <1>2, <1>4, <2>2, PastTheWalk
      DEF WarnLaunchers, Terminate, Kill, AwaitOwners, Spawn, PollOn, teardownVars
  <1> QED
    BY <1>3, <1>4

\* Only a teardown leaves anything stuck in the kernel.
LEMMA BlockedBefore ==
  ASSUME TypeOK, [Next]_vars, NEW m \in Launchers, sess'[m] = "blocked"
  PROVE  \/ sess[m] = "blocked"
         \/ \E k \in Launchers : Kill(k) /\ m \in survivors'[k]
  <1> /\ sess \in [Launchers -> Stages]
      /\ survivors \in [Launchers -> SUBSET Launchers]
    BY DEF TypeOK
  <1>1. ASSUME NEW k \in Launchers, Kill(k) PROVE sess[m] = "blocked" \/ m \in survivors'[k]
    BY <1>1 DEF Kill
  <1>2. ASSUME NEW k \in Launchers, Terminate(k) PROVE sess[m] = "blocked"
    BY <1>2 DEF Terminate
  <1>3. ASSUME NEW k \in Launchers, Step(k), ~ Kill(k), ~ Terminate(k) PROVE sess' = sess
    BY <1>3 DEF Step, Acquire, FindHeld, AskInUse, Busy, Decide, BeginHandoff, EndHandoff, Scan,
         WarnLaunchers, AwaitOwners, Spawn, PollChildFailed, PollWindow,
         PollSandboxEmpty, PollNoGamescope, PollOn, WindowDeadline, EndWait, Unlock, Reap, sessVars
  <1>4. CASE \E k \in Launchers : Fault(k)
    BY <1>4 DEF Fault, TeardownError, SpawnError, Crash, Interrupt, LutrisFails, LeaveBus, sessVars
  <1>5. CASE \/ \E k \in Launchers : Click(k) \/ JoinBus(k) \/ SessionMoves(k)
             \/ UserOpens \/ BusQuits \/ BusExits \/ UNCHANGED vars
    BY <1>5 DEF Click, JoinBus, SessionMoves, UserOpens, BusQuits, BusExits, LeaveBus, vars, sessVars
  <1> QED
    BY <1>1, <1>2, <1>3, <1>4, <1>5 DEF Next

\* A teardown loses sight of nothing that its SIGKILL does not end.
LEMMA NextBlocked ==
  ASSUME LaunchInv, RuntimeDir, "teardown" \notin Faults, BlockedKnown, [Next]_vars
  PROVE  BlockedKnown'
  <1> SUFFICES ASSUME NEW l \in Launchers, NEW m \in Launchers, sess'[m] = "blocked",
                      pc'[l] \in {"warn", "term", "grace", "owners", "spawn", "window"}
               PROVE  /\ pc'[l] \in {"warn", "term", "grace"} => \E s \in InProc : <<m, s>> \in targets'[l]
                      /\ pc'[l] \in {"owners", "spawn", "window"} => m \in survivors'[l]
    BY DEF BlockedKnown
  <1> /\ TypeOK
      /\ pc \in [Launchers -> Places]
      /\ targets \in [Launchers -> SUBSET (Launchers \X InProc)]
      /\ survivors \in [Launchers -> SUBSET Launchers]
      /\ sess \in [Launchers -> Stages]
    BY DEF LaunchInv, TypeOK
  <1>1. pc[l] \in Critical
    BY PastTheWalk DEF Scan, WarnLaunchers, Terminate, Kill, AwaitOwners, Spawn, PollOn, Critical, Teardown
  <1>2. CASE sess[m] # "blocked"
    <2>1. PICK k \in Launchers : Kill(k) /\ m \in survivors'[k]
      BY <1>2, BlockedBefore
    <2>2. k = l
      BY <1>1, <2>1, AloneInFlight DEF Kill, Critical, Teardown
    <2> QED
      BY <2>1, <2>2 DEF Kill, Goto
  <1>3. CASE sess[m] = "blocked"
    <2>1. m \in Carriers
      BY <1>3 DEF Carriers, InProc
    <2>2. CASE Scan(l)
      BY <1>3, <2>1, <2>2 DEF Scan, Goto, InProc
    <2>3. CASE WarnLaunchers(l) /\ pc'[l] = IF targets[l] = {} THEN "owners" ELSE "term"
      BY <1>3, <2>3 DEF WarnLaunchers, BlockedKnown, teardownVars
    <2>4. CASE Terminate(l)
      <3>1. PICK s \in InProc : <<m, s>> \in targets[l]
        BY <1>3, <2>4 DEF Terminate, BlockedKnown
      <3>2. m \in Targeted(l)
        BY <2>1, <3>1 DEF Targeted
      <3>3. <<m, s>> \in targets'[l]
        BY <1>3, <2>4, <3>1, <3>2 DEF Terminate
      <3> QED
        BY <2>4, <3>3 DEF Terminate, Goto
    <2>5. CASE Kill(l)
      <3>1. m \in Targeted(l)
        BY <1>3, <2>1, <2>5 DEF Kill, BlockedKnown, Targeted
      <3>2. m \in survivors'[l]
        BY <2>5, <3>1 DEF Kill
      <3> QED
        BY <2>5, <3>2 DEF Kill, Goto
    <2>6. CASE AwaitOwners(l) \/ Spawn(l) \/ PollOn(l)
      BY <1>3, <2>6 DEF AwaitOwners, Spawn, PollOn, BlockedKnown, Goto, teardownVars, runVars
    <2>7. CASE pc'[l] = pc[l] /\ UNCHANGED <<targets[l], survivors[l]>>
      BY <1>3, <2>7 DEF BlockedKnown
    <2> QED
      BY <2>2, <2>3, <2>4, <2>5, <2>6, <2>7, PastTheWalk
  <1> QED
    BY <1>2, <1>3

\* A display is watched in the wait alone, and a survivor has none to watch.
LEMMA NextDisplay ==
  ASSUME LaunchInv, RuntimeDir, "teardown" \notin Faults, DisplayLater, [Next]_vars
  PROVE  DisplayLater'
  <1> /\ TypeOK
      /\ pc \in [Launchers -> Places]
      /\ survivors \in [Launchers -> SUBSET Launchers]
      /\ display \in [Launchers -> Launchers \cup {Nobody}]
    BY DEF LaunchInv, TypeOK
  <1> USE DEF Goto
  <1>1. ASSUME NEW l \in Launchers, pc'[l] \notin {"window", "unlock"}
        PROVE  display'[l] = Nobody
    <2>1. CASE pc[l] \notin {"window", "unlock"}
      <3>1. display[l] = Nobody
        BY <2>1 DEF DisplayLater
      <3> QED
        BY <2>1, <3>1 DEF Next, Step, Fault, Click, Acquire, FindHeld, AskInUse, Busy, Decide, BeginHandoff,
             EndHandoff, Scan, WarnLaunchers, Terminate, Kill, AwaitOwners, Spawn, PollChildFailed, PollWindow,
             PollSandboxEmpty, PollNoGamescope, PollOn, WindowDeadline, EndWait, Unlock, Forget, Reap,
             TeardownError, SpawnError, Crash, Interrupt, LutrisFails, JoinBus, SessionMoves, UserOpens,
             BusQuits, BusExits, vars, waitVars
    <2>2. CASE pc[l] \in {"window", "unlock"}
      <3>1. ASSUME NEW k \in Launchers, WarnLaunchers(k) PROVE FALSE
        <4>1. k = l
          BY <2>2, <3>1, AloneInFlight DEF WarnLaunchers, Critical, Teardown
        <4> QED
          BY <2>2, <3>1, <4>1 DEF WarnLaunchers
      <3>2. ASSUME NEW k \in Launchers, Step(k) PROVE Unlock(l)
        BY <1>1, <2>2, <3>1, <3>2 DEF Step, Acquire, FindHeld, AskInUse, Busy, Decide, BeginHandoff,
             EndHandoff, Scan, Terminate, Kill, AwaitOwners, Spawn, PollChildFailed, PollWindow,
             PollSandboxEmpty, PollNoGamescope, PollOn, WindowDeadline, EndWait, Unlock, Reap, runVars
      <3>3. ASSUME NEW k \in Launchers, Fault(k) PROVE k = l /\ (Crash(l) \/ Interrupt(l))
        BY <1>1, <2>2, <3>3 DEF Fault, TeardownError, SpawnError, Crash, Interrupt, LutrisFails, runVars
      <3>4. CASE \/ \E k \in Launchers : Click(k) \/ JoinBus(k) \/ SessionMoves(k)
                 \/ UserOpens \/ BusQuits \/ BusExits \/ UNCHANGED vars
        BY <1>1, <2>2, <3>4 DEF Click, JoinBus, SessionMoves, UserOpens, BusQuits, BusExits, vars, runVars
      <3> QED
        BY <3>2, <3>3, <3>4 DEF Next, Unlock, Crash, Interrupt, Forget
    <2> QED
      BY <2>1, <2>2
  <1>2. ASSUME NEW l \in Launchers, pc'[l] = "window"
        PROVE  display'[l] \notin survivors'[l]
    <2>1. CASE Spawn(l)
      BY <2>1, InstancesAssumption DEF Spawn, DisplayLater, teardownVars, waitVars
    <2>2. CASE PollOn(l)
      <3>1. PICK d \in Watched(l) : display' = [display EXCEPT ![l] = d]
        BY <2>2 DEF PollOn
      <3>2. d \notin survivors[l]
        BY <2>2, <3>1, InstancesAssumption DEF Watched, Displays, Wineservers, Visible, PollOn, DisplayLater
      <3> QED
        BY <2>2, <3>1, <3>2 DEF PollOn, teardownVars
    <2>3. CASE pc'[l] = pc[l] /\ UNCHANGED <<survivors[l], display[l]>>
      BY <1>2, <2>3 DEF DisplayLater
    <2> QED
      BY <1>2, <2>1, <2>2, <2>3, PastTheWalk DEF Scan, WarnLaunchers, Terminate, Kill, AwaitOwners
  <1> QED
    BY <1>1, <1>2 DEF DisplayLater

\* What settles a run, its code or its window, is the last thing it waits for.
LEMMA UnsettledInvariant == Spec => []Unsettled
  <1>1. Init => Unsettled
    BY DEF Init, Unsettled
  <1>2. TypeOK /\ Unsettled /\ [Next]_vars => Unsettled'
    <2> SUFFICES ASSUME TypeOK, Unsettled, [Next]_vars PROVE Unsettled'
      OBVIOUS
    <2> /\ pc \in [Launchers -> Places]
        /\ code \in [Launchers -> {"none", "zero", "nonzero"}]
        /\ shown \in [Launchers -> BOOLEAN]
      BY DEF TypeOK
    <2> USE DEF Unsettled, Goto, Settle
    <2>1. ASSUME NEW l \in Launchers, Step(l) PROVE Unsettled'
      BY <2>1 DEF Step, Acquire, FindHeld, AskInUse, Busy, Decide, BeginHandoff, EndHandoff, Scan,
         WarnLaunchers, Running, Terminate, Kill, AwaitOwners, Spawn, PollChildFailed, PollWindow,
         PollSandboxEmpty, PollNoGamescope, PollOn, WindowDeadline, EndWait, Unlock, Reap,
         runVars, waitVars
    <2>2. ASSUME NEW l \in Launchers, Fault(l) PROVE Unsettled'
      <3>1. CASE Interrupt(l)
        BY <3>1 DEF Interrupt, Critical, Teardown
      <3>2. CASE TeardownError(l)
        BY <3>2 DEF TeardownError, Teardown, waitVars
      <3>3. CASE ~ (Interrupt(l) \/ TeardownError(l))
        BY <2>2, <3>3 DEF Fault, SpawnError, Crash, LutrisFails, runVars, waitVars
      <3> QED
        BY <3>1, <3>2, <3>3
    <2>3. CASE \/ \E l \in Launchers : Click(l) \/ JoinBus(l) \/ SessionMoves(l)
               \/ UserOpens \/ BusQuits \/ BusExits \/ UNCHANGED vars
      BY <2>3 DEF Click, JoinBus, SessionMoves, UserOpens, BusQuits, BusExits, vars, runVars, waitVars
    <2> QED
      BY <2>1, <2>2, <2>3 DEF Next
  <1> QED
    BY <1>1, <1>2, TypeCorrect, PTL DEF Spec

\* With a lock, and teardowns that do not stop half way, a run knows all it may meet.
LEMMA TeardownInvariant ==
  ASSUME RuntimeDir, "teardown" \notin Faults
  PROVE  Spec => []TeardownInv
  <1>1. Init => TeardownInv
    BY InstancesAssumption DEF Init, TeardownInv, InstancesFound, BlockedKnown, DisplayLater
  <1>2. LaunchInv /\ TeardownInv /\ [Next]_vars => TeardownInv'
    BY NextFound, NextBlocked, NextDisplay DEF TeardownInv
  <1> QED
    BY <1>1, <1>2, LaunchInvariant, PTL DEF Spec

\* A request of a run is handed to no instance of the same game that its teardown did not find and
\* wait for, however many runs there are.
THEOREM NoUnwaitedInstanceHolds ==
  ASSUME RuntimeDir, "teardown" \notin Faults
  PROVE  Spec => []NoUnwaitedInstance
  <1>1. TeardownInv => NoUnwaitedInstance
    BY InstancesAssumption DEF TeardownInv, InstancesFound, NoUnwaitedInstance, InstanceUp
  <1> QED
    BY <1>1, TeardownInvariant, PTL

\* What a teardown could not kill is never taken for the new session.
THEOREM SurvivorsIgnoredHolds ==
  ASSUME RuntimeDir, "teardown" \notin Faults
  PROVE  Spec => SurvivorsIgnored
  <1>1. ASSUME LaunchInv, TeardownInv, Unsettled, [Next]_vars, NEW l \in Launchers, pc[l] = "window"
        PROVE  /\ display'[l] \notin survivors[l]
               /\ shown'[l] # shown[l] =>
                     Wineservers(Carriers) \cap {m \in Launchers : sess[m] # "blocked"} # {}
    <2> /\ TypeOK
        /\ pc \in [Launchers -> Places]
        /\ survivors \in [Launchers -> SUBSET Launchers]
        /\ display \in [Launchers -> Launchers \cup {Nobody}]
        /\ shown \in [Launchers -> BOOLEAN]
        /\ sess \in [Launchers -> Stages]
      BY <1>1 DEF LaunchInv, TypeOK
    <2>1. display[l] \notin survivors[l]
      BY <1>1 DEF TeardownInv, DisplayLater
    <2>2. display'[l] \notin survivors[l]
      <3>1. CASE PollOn(l)
        <4>1. PICK d \in Watched(l) : display' = [display EXCEPT ![l] = d]
          BY <3>1 DEF PollOn
        <4>2. d \notin survivors[l]
          BY <2>1, <4>1, InstancesAssumption DEF Watched, Displays, Wineservers, Visible
        <4> QED
          BY <4>1, <4>2
      <3>2. CASE ~ PollOn(l)
        <4>1. display'[l] = display[l] \/ display'[l] = Nobody
          BY <1>1, <3>2 DEF Next, Step, Fault, Click, Acquire, FindHeld, AskInUse, Busy, Decide, BeginHandoff,
             EndHandoff, Scan, WarnLaunchers, Terminate, Kill, AwaitOwners, Spawn, PollChildFailed, PollWindow,
             PollSandboxEmpty, PollNoGamescope, PollOn, WindowDeadline, EndWait, Unlock, Forget, Reap,
             TeardownError, SpawnError, Crash, Interrupt, LutrisFails, JoinBus, SessionMoves, UserOpens,
             BusQuits, BusExits, vars, waitVars
        <4> QED
          BY <2>1, <4>1, InstancesAssumption
      <3> QED
        BY <3>1, <3>2
    <2>3. ASSUME shown'[l] # shown[l]
          PROVE  Wineservers(Carriers) \cap {m \in Launchers : sess[m] # "blocked"} # {}
      <3>1. PollWindow(l) \/ PollNoGamescope(l) \/ shown'[l] = FALSE
        BY <1>1, <2>3 DEF Next, Step, Fault, Click, Acquire, FindHeld, AskInUse, Busy, Decide, BeginHandoff,
             EndHandoff, Scan, WarnLaunchers, Terminate, Kill, AwaitOwners, Spawn, PollChildFailed, PollWindow,
             PollSandboxEmpty, PollNoGamescope, PollOn, WindowDeadline, EndWait, Unlock, Reap,
             TeardownError, SpawnError, Crash, Interrupt, LutrisFails, JoinBus, SessionMoves, UserOpens,
             BusQuits, BusExits, vars, waitVars
      <3>2. shown[l] = FALSE
        BY <1>1 DEF Unsettled
      <3>3. ASSUME PollWindow(l)
            PROVE  \E m \in Launchers : m \in Wineservers(Carriers) /\ sess[m] # "blocked"
        <4>1. PICK d \in Watched(l) : Windowed(d)
          BY <3>3 DEF PollWindow
        <4>2. d \in Launchers /\ sess[d] = "shown"
          BY <4>1 DEF Windowed, Watched, Displays, Wineservers, Visible, Carriers
        <4> QED
          BY <4>2 DEF Wineservers, Carriers, InProc
      <3>4. ASSUME PollNoGamescope(l)
            PROVE  \E m \in Launchers : m \in Wineservers(Carriers) /\ sess[m] # "blocked"
        <4>1. PICK m \in Wineservers(Visible(l)) : TRUE
          BY <3>4 DEF PollNoGamescope
        <4>2. m \in Launchers /\ m \in Wineservers(Carriers) /\ m \notin survivors[l]
          BY <4>1 DEF Wineservers, Visible, Carriers
        <4>3. sess[m] # "blocked"
          BY <1>1, <4>2 DEF TeardownInv, BlockedKnown
        <4> QED
          BY <4>2, <4>3
      <3> QED
        BY <2>3, <3>1, <3>2, <3>3, <3>4
    <2> QED
      BY <2>2, <2>3
  <1>2. LaunchInv /\ TeardownInv /\ Unsettled /\ [Next]_vars =>
          [\A l \in Launchers : pc[l] = "window" =>
              /\ display'[l] \notin survivors[l]
              /\ shown'[l] # shown[l] => Wineservers(Carriers) \cap {m \in Launchers : sess[m] # "blocked"} # {}
          ]_vars
    BY <1>1
  <1> QED
    BY <1>2, LaunchInvariant, TeardownInvariant, UnsettledInvariant, PTL DEF Spec, SurvivorsIgnored

-------------------------------------------------------------------------------
(* What a run tells the user and what it returns *)

\* The Lutris on the bus cannot have ended.
LEMMA BusInvariant == Spec => []BusRuns
  <1>1. Init => BusRuns
    BY InstancesAssumption DEF Init, BusRuns
  <1>2. TypeOK /\ BusRuns /\ [Next]_vars => BusRuns'
    <2> SUFFICES ASSUME TypeOK, BusRuns, [Next]_vars PROVE BusRuns'
      OBVIOUS
    <2> child \in [Launchers -> Children]
      BY DEF TypeOK
    <2> USE InstancesAssumption DEF BusRuns
    <2>1. ASSUME NEW l \in Launchers, Step(l) PROVE BusRuns'
      BY <2>1 DEF Step, Acquire, FindHeld, AskInUse, Busy, Decide, BeginHandoff, EndHandoff, Scan,
         WarnLaunchers, Terminate, Kill, AwaitOwners, Spawn, PollChildFailed, PollWindow,
         PollSandboxEmpty, PollNoGamescope, PollOn, WindowDeadline, EndWait, Unlock, Reap, lutrisVars
    <2>2. ASSUME NEW l \in Launchers, Fault(l) PROVE BusRuns'
      BY <2>2 DEF Fault, TeardownError, SpawnError, Crash, Interrupt, LutrisFails, LeaveBus, lutrisVars
    <2>3. ASSUME NEW l \in Launchers, JoinBus(l) PROVE BusRuns'
      BY <2>3 DEF JoinBus
    <2>4. CASE \/ \E l \in Launchers : Click(l) \/ SessionMoves(l)
               \/ UserOpens \/ BusQuits \/ BusExits \/ UNCHANGED vars
      BY <2>4 DEF Click, SessionMoves, UserOpens, BusQuits, BusExits, LeaveBus, vars, lutrisVars
    <2> QED
      BY <2>1, <2>2, <2>3, <2>4 DEF Next
  <1> QED
    BY <1>1, <1>2, TypeCorrect, PTL DEF Spec

\* A failure that is certain is told before the run ends.
LEMMA NextDue ==
  ASSUME TypeOK, BusRuns, Unsettled, FailureDue, FailureReported, "spawn" \notin Faults, "interrupt" \notin Faults, [Next]_vars
  PROVE  FailureDue' /\ FailureReported'
  <1> /\ pc \in [Launchers -> Places]
      /\ told \in [Launchers -> {"nothing", "progress", "already", "failure"}]
      /\ code \in [Launchers -> {"none", "zero", "nonzero"}]
      /\ shown \in [Launchers -> BOOLEAN]
      /\ child \in [Launchers -> Children]
    BY DEF TypeOK
  <1> USE DEF Unsettled, FailureDue, FailureReported, Goto, Tell, Settle
  <1>1. ASSUME NEW l \in Launchers, Step(l) PROVE FailureDue' /\ FailureReported'
    <2>1. CASE AskInUse(l) \/ Busy(l) \/ Decide(l) \/ BeginHandoff(l) \/ EndHandoff(l)
      BY <2>1 DEF AskInUse, Busy, Decide, BeginHandoff, EndHandoff, waitVars, lutrisVars
    <2>2. CASE PollChildFailed(l)
      BY <2>2 DEF PollChildFailed, EndWait, lutrisVars
    <2>3. CASE PollWindow(l) \/ PollNoGamescope(l)
      BY <2>3 DEF PollWindow, PollNoGamescope, EndWait, lutrisVars
    <2>4. CASE PollSandboxEmpty(l) \/ WindowDeadline(l)
      BY <2>4 DEF PollSandboxEmpty, WindowDeadline, EndWait, lutrisVars
    <2>5. CASE Unlock(l)
      BY <2>5 DEF Unlock, lutrisVars
    <2>6. CASE Reap(l)
      BY <2>6 DEF Reap, waitVars, lutrisVars
    <2>7. CASE WarnLaunchers(l)
      BY <2>7 DEF WarnLaunchers, waitVars, lutrisVars
    <2>8. CASE Spawn(l)
      BY <2>8 DEF Spawn, waitVars
    <2>9. CASE Acquire(l) \/ FindHeld(l) \/ Scan(l) \/ Terminate(l) \/ Kill(l) \/ AwaitOwners(l) \/ PollOn(l)
      BY <2>9 DEF Acquire, FindHeld, Scan, Terminate, Kill, AwaitOwners, PollOn, runVars, waitVars, lutrisVars
    <2> QED
      BY <1>1, <2>1, <2>2, <2>3, <2>4, <2>5, <2>6, <2>7, <2>8, <2>9 DEF Step
  <1>2. ASSUME NEW l \in Launchers, Fault(l) PROVE FailureDue' /\ FailureReported'
    BY <1>2 DEF Fault, TeardownError, SpawnError, Crash, Interrupt, LutrisFails, runVars, waitVars, lutrisVars
  <1>3. CASE BusExits
    BY <1>3 DEF BusExits, BusRuns, runVars, waitVars
  <1>4. CASE \/ \E l \in Launchers : Click(l) \/ JoinBus(l) \/ SessionMoves(l)
             \/ UserOpens \/ BusQuits \/ UNCHANGED vars
    BY <1>4 DEF Click, JoinBus, SessionMoves, UserOpens, BusQuits, vars, runVars, waitVars, lutrisVars
  <1> QED
    BY <1>1, <1>2, <1>3, <1>4 DEF Next

\* Whatever becomes of Lutris and of the session, a run that ends unsuccessfully without its window
\* has told the user, unless Popen raised or the run was interrupted.
THEOREM FailureReportedHolds ==
  ASSUME "spawn" \notin Faults, "interrupt" \notin Faults
  PROVE  Spec => []FailureReported
  <1>1. Init => FailureDue /\ FailureReported
    BY DEF Init, FailureDue, FailureReported
  <1>2. TypeOK /\ BusRuns /\ Unsettled /\ FailureDue /\ FailureReported /\ [Next]_vars => FailureDue' /\ FailureReported'
    BY NextDue
  <1> QED
    BY <1>1, <1>2, TypeCorrect, BusInvariant, UnsettledInvariant, PTL DEF Spec

\* A failure that is told is not taken back.
LEMMA NextTold ==
  ASSUME TypeOK, Unsettled, ToldFails, KilledInterrupted, "lutris" \notin Faults, [Next]_vars
  PROVE  ToldFails' /\ KilledInterrupted'
  <1> /\ pc \in [Launchers -> Places]
      /\ told \in [Launchers -> {"nothing", "progress", "already", "failure"}]
      /\ code \in [Launchers -> {"none", "zero", "nonzero"}]
      /\ shown \in [Launchers -> BOOLEAN]
      /\ child \in [Launchers -> Children]
    BY DEF TypeOK
  <1> USE DEF Unsettled, ToldFails, KilledInterrupted, Goto, Tell, Settle
  <1>1. ASSUME NEW l \in Launchers, Step(l) PROVE ToldFails' /\ KilledInterrupted'
    <2>1. CASE AskInUse(l) \/ Busy(l) \/ Decide(l) \/ BeginHandoff(l) \/ EndHandoff(l)
      BY <2>1 DEF AskInUse, Busy, Decide, BeginHandoff, EndHandoff, waitVars, lutrisVars
    <2>2. CASE PollChildFailed(l) \/ PollWindow(l) \/ PollNoGamescope(l)
      BY <2>2 DEF PollChildFailed, PollWindow, PollNoGamescope, EndWait, lutrisVars
    <2>3. CASE PollSandboxEmpty(l) \/ WindowDeadline(l)
      BY <2>3 DEF PollSandboxEmpty, WindowDeadline, EndWait, lutrisVars
    <2>4. CASE Unlock(l)
      BY <2>4 DEF Unlock, lutrisVars
    <2>5. CASE Reap(l)
      BY <2>5 DEF Reap, waitVars, lutrisVars
    <2>6. CASE WarnLaunchers(l)
      BY <2>6 DEF WarnLaunchers, Running, waitVars, lutrisVars
    <2>7. CASE Spawn(l)
      BY <2>7 DEF Spawn, waitVars
    <2>8. CASE Acquire(l) \/ FindHeld(l) \/ Scan(l) \/ Terminate(l) \/ Kill(l) \/ AwaitOwners(l) \/ PollOn(l)
      BY <2>8 DEF Acquire, FindHeld, Scan, Terminate, Kill, AwaitOwners, PollOn, runVars, waitVars, lutrisVars
    <2> QED
      BY <1>1, <2>1, <2>2, <2>3, <2>4, <2>5, <2>6, <2>7, <2>8 DEF Step
  <1>2. ASSUME NEW l \in Launchers, Fault(l) PROVE ToldFails' /\ KilledInterrupted'
    <2>1. CASE Interrupt(l)
      BY <2>1 DEF Interrupt, Critical, Teardown, Running, lutrisVars
    <2>2. CASE TeardownError(l) \/ SpawnError(l) \/ Crash(l)
      BY <2>2 DEF TeardownError, SpawnError, Crash, Teardown, waitVars, lutrisVars
    <2> QED
      BY <1>2, <2>1, <2>2 DEF Fault, LutrisFails
  <1>3. CASE \/ \E l \in Launchers : Click(l) \/ JoinBus(l) \/ SessionMoves(l)
             \/ UserOpens \/ BusQuits \/ BusExits \/ UNCHANGED vars
    BY <1>3 DEF Click, JoinBus, SessionMoves, UserOpens, BusQuits, BusExits, vars, runVars, waitVars, lutrisVars
  <1> QED
    BY <1>1, <1>2, <1>3 DEF Next

\* While nobody kills a Lutris behind its run's back, a run that told the user of a failure does
\* not exit 0, a run that was interrupted among them.
THEOREM ReportedIsFailedHolds ==
  ASSUME "lutris" \notin Faults
  PROVE  Spec => []ReportedIsFailed
  <1>1. Init => ToldFails /\ KilledInterrupted
    BY DEF Init, ToldFails, KilledInterrupted
  <1>2. TypeOK /\ Unsettled /\ ToldFails /\ KilledInterrupted /\ [Next]_vars => ToldFails' /\ KilledInterrupted'
    BY NextTold
  <1>3. ToldFails => ReportedIsFailed
    BY DEF ToldFails, ReportedIsFailed
  <1> QED
    BY <1>1, <1>2, <1>3, TypeCorrect, UnsettledInvariant, PTL DEF Spec

\* Where none of the three goes wrong, what a run told the user and what it returned agree, with
\* crashes, failing teardowns and stuck processes all allowed.
THEOREM ReportsAgreeHolds ==
  ASSUME "spawn" \notin Faults, "interrupt" \notin Faults, "lutris" \notin Faults
  PROVE  Spec => []ReportsAgree
  <1>1. FailureReported /\ ReportedIsFailed => ReportsAgree
    BY DEF ReportsAgree
  <1> QED
    BY <1>1, FailureReportedHolds, ReportedIsFailedHolds, PTL

-------------------------------------------------------------------------------
(* The runs implement LaunchGuard *)

\* The place a run moves to decides what becomes of its phase.
LEMMA PhaseMoves ==
  ASSUME TypeOK, NEW l \in Launchers, NEW x \in Places, pc' = [pc EXCEPT ![l] = x]
  PROVE  phaseBar' = [phaseBar EXCEPT ![l] = IF x \in {"off"} \cup Waiting THEN "out"
                                             ELSE IF x \in Critical THEN "in" ELSE "over"]
  <1> pc \in [Launchers -> Places]
    BY DEF TypeOK
  <1> QED
    BY DEF phaseBar

\* A step within a phase leaves every phase as it is.
LEMMA SamePhase ==
  ASSUME TypeOK, NEW l \in Launchers, NEW x \in Places, pc' = [pc EXCEPT ![l] = x],
         \/ pc[l] \in {"off"} \cup Waiting /\ x \in {"off"} \cup Waiting
         \/ pc[l] \in Critical /\ x \in Critical
         \/ pc[l] \in {"childwait", "done", "dead"} /\ x \in {"childwait", "done", "dead"}
  PROVE  phaseBar' = phaseBar
  <1> pc \in [Launchers -> Places]
    BY DEF TypeOK
  <1> QED
    BY DEF phaseBar, Waiting, Critical, Teardown

\* What becomes of the phases and of the lock in a step of a run.
LEMMA StepPhase ==
  ASSUME LaunchInv, RuntimeDir, NEW l \in Launchers, Step(l)
  PROVE  \/ phaseBar' = phaseBar
         \/ /\ phaseBar[l] = "out" /\ lock = Nobody
            /\ phaseBar' = [phaseBar EXCEPT ![l] = "in"] /\ targets' = targets
         \/ /\ phaseBar[l] = "out" /\ phaseBar' = [phaseBar EXCEPT ![l] = "over"]
            /\ targets' = targets
         \/ /\ phaseBar[l] = "in" /\ phaseBar' = [phaseBar EXCEPT ![l] = "over"]
            /\ lock' = Nobody
  <1> TypeOK /\ pc \in [Launchers -> Places]
    BY DEF LaunchInv, TypeOK
  <1> USE DEF Goto
  <1>1. CASE Acquire(l)
    <2>1. pc' = [pc EXCEPT ![l] = "decide"] /\ phaseBar[l] = "out"
      BY <1>1 DEF Acquire, phaseBar, Waiting
    <2>2. phaseBar' = [phaseBar EXCEPT ![l] = "in"]
      BY <2>1, PhaseMoves DEF Places, Critical, Waiting
    <2> QED
      BY <1>1, <2>1, <2>2 DEF Acquire, teardownVars
  <1>2. CASE AskInUse(l) \/ Busy(l)
    <2>1. CASE pc' = [pc EXCEPT ![l] = "done"]
      <3>1. PICK x \in {"done"} : pc' = [pc EXCEPT ![l] = x]
        BY <2>1
      <3>2. phaseBar' = [phaseBar EXCEPT ![l] = "over"]
        BY <3>1, PhaseMoves DEF Places, Critical, Teardown, Waiting
      <3> QED
        BY <1>2, <3>2 DEF AskInUse, Busy, phaseBar, Waiting, teardownVars
    <2>2. CASE pc[l] = "ask" /\ pc' = [pc EXCEPT ![l] = "waiting"]
      BY <2>2, SamePhase DEF Places, Waiting
    <2> QED
      BY <1>2, <2>1, <2>2 DEF AskInUse, Busy
  <1>3. CASE Unlock(l)
    <2>1. PICK x \in {"childwait", "done"} : pc' = [pc EXCEPT ![l] = x]
      BY <1>3 DEF Unlock
    <2>2. phaseBar' = [phaseBar EXCEPT ![l] = "over"]
      BY <2>1, PhaseMoves DEF Places, Critical, Teardown, Waiting
    <2> QED
      BY <1>3, <2>2 DEF Unlock, phaseBar, Waiting, Critical
  <1>4. CASE WarnLaunchers(l)
    <2>1. ASSUME NEW m \in Launchers, m # l, m \in owners[l], Running(m)
          PROVE  pc[m] = "childwait"
      <3>1. ~ NotStarted(m)
        BY <2>1 DEF LaunchInv, OwnersStarted
      <3>2. pc[m] \notin Critical
        BY <1>4, <2>1 DEF WarnLaunchers, LaunchInv, HolderOnly, Critical, Teardown
      <3> QED
        BY <2>1, <3>1, <3>2 DEF NotStarted, Running, Places, Waiting, Critical
    <2> QED
      BY <1>4, <2>1 DEF WarnLaunchers, phaseBar, Waiting, Critical, Teardown
  <1>5. CASE Reap(l)
    BY <1>5, SamePhase DEF Reap, Places
  <1>6. CASE FindHeld(l)
    BY <1>6, SamePhase DEF FindHeld, Places, Waiting
  <1>7. CASE PollOn(l)
    BY <1>7 DEF PollOn, runVars, phaseBar
  <1>8. CASE Decide(l) \/ BeginHandoff(l) \/ EndHandoff(l) \/ Scan(l) \/ Terminate(l) \/ Kill(l)
             \/ AwaitOwners(l) \/ Spawn(l) \/ PollChildFailed(l) \/ PollWindow(l)
             \/ PollSandboxEmpty(l) \/ PollNoGamescope(l) \/ WindowDeadline(l)
    <2>1. pc[l] \in Critical /\ \E x \in Critical : pc' = [pc EXCEPT ![l] = x]
      BY <1>8 DEF Decide, BeginHandoff, EndHandoff, Scan, Terminate, Kill, AwaitOwners, Spawn,
           PollChildFailed, PollWindow, PollSandboxEmpty, PollNoGamescope, WindowDeadline, EndWait,
           Critical, Teardown
    <2> QED
      BY <2>1, SamePhase DEF Places
  <1> QED
    BY <1>1, <1>2, <1>3, <1>4, <1>5, <1>6, <1>7, <1>8 DEF Step

\* What becomes of them in a fault.
LEMMA FaultPhase ==
  ASSUME LaunchInv, RuntimeDir, NEW l \in Launchers, Fault(l)
  PROVE  \/ phaseBar' = phaseBar
         \/ /\ phaseBar[l] = "out" /\ phaseBar' = [phaseBar EXCEPT ![l] = "over"]
            /\ targets' = targets
         \/ /\ phaseBar[l] = "in" /\ phaseBar' = [phaseBar EXCEPT ![l] = "over"]
            /\ lock' = Nobody
  <1> TypeOK /\ pc \in [Launchers -> Places] /\ targets \in [Launchers -> SUBSET (Launchers \X InProc)]
    BY DEF LaunchInv, TypeOK
  <1> USE DEF Goto
  <1>1. CASE TeardownError(l) \/ SpawnError(l)
    <2>1. pc[l] \in Critical /\ \E x \in Critical : pc' = [pc EXCEPT ![l] = x]
      BY <1>1 DEF TeardownError, SpawnError, Critical, Teardown
    <2> QED
      BY <2>1, SamePhase DEF Places
  <1>2. CASE LutrisFails(l)
    BY <1>2 DEF LutrisFails, runVars, phaseBar
  <1>3. CASE Interrupt(l) /\ pc[l] \in Critical
    <2>1. pc' = [pc EXCEPT ![l] = "unlock"]
      BY <1>3 DEF Interrupt
    <2> QED
      BY <1>3, <2>1, SamePhase DEF Places, Critical
  <1>4. CASE Crash(l) \/ (Interrupt(l) /\ pc[l] \notin Critical)
    <2>1. PICK x \in {"done", "dead"} : pc' = [pc EXCEPT ![l] = x]
      BY <1>4 DEF Crash, Interrupt
    <2>2. phaseBar' = [phaseBar EXCEPT ![l] = "over"]
      BY <2>1, PhaseMoves DEF Places, Critical, Teardown, Waiting
    <2>3. CASE pc[l] \in Critical
      BY <1>4, <2>2, <2>3 DEF Crash, LaunchInv, HolderOnly, phaseBar, Waiting, Critical, Teardown
    <2>4. CASE pc[l] \in Waiting
      <3>1. targets[l] = {}
        BY <2>4 DEF LaunchInv, TargetsInTeardown, Waiting
      <3>2. targets' = targets
        BY <1>4, <3>1 DEF Crash, Interrupt, Forget
      <3> QED
        BY <2>2, <2>4, <3>2 DEF phaseBar
    <2>5. CASE pc[l] \in {"childwait", "done", "dead"}
      BY <2>1, <2>5, SamePhase DEF Places
    <2> QED
      BY <1>4, <2>3, <2>4, <2>5 DEF Crash, Interrupt, Running, Places
  <1> QED
    BY <1>1, <1>2, <1>3, <1>4 DEF Fault

\* Whoever has something to signal is in flight, and what it signals is not.
VictimsEnded ==
  RuntimeDir => \A m \in victimsBar : phaseBar[m] = "over" /\ \E k \in Launchers : phaseBar[k] = "in"

LEMMA InvVictimsEnded == LaunchInv => VictimsEnded
  <1> SUFFICES ASSUME LaunchInv, RuntimeDir, NEW m \in victimsBar
               PROVE  phaseBar[m] = "over" /\ \E k \in Launchers : phaseBar[k] = "in"
    BY DEF VictimsEnded
  <1>1. PICK k \in Launchers : \E s \in InProc : <<m, s>> \in targets[k]
    BY DEF victimsBar
  <1>2. pc[k] \in Critical
    BY <1>1 DEF LaunchInv, TargetsInTeardown, Critical, Teardown
  <1>3. m \in Launchers /\ pc[m] \in {"childwait", "done", "dead"}
    BY <1>1 DEF victimsBar, LaunchInv, NothingInFlightTargeted
  <1> QED
    BY <1>2, <1>3 DEF phaseBar, Waiting, Critical, Teardown

\* A free lock leaves nobody in flight and nothing to signal.
FreeIsIdle ==
  RuntimeDir /\ lock = Nobody => victimsBar = {} /\ \A k \in Launchers : phaseBar[k] # "in"

LEMMA InvFreeIsIdle == LaunchInv => FreeIsIdle
  <1> SUFFICES ASSUME LaunchInv, RuntimeDir, lock = Nobody
               PROVE  victimsBar = {} /\ \A k \in Launchers : phaseBar[k] # "in"
    BY DEF FreeIsIdle
  <1>1. \A k \in Launchers : phaseBar[k] # "in"
    BY InstancesAssumption DEF LaunchInv, HolderOnly, phaseBar
  <1> QED
    BY <1>1, InvVictimsEnded DEF VictimsEnded

\* Every step of the system is one of the guard's, or none.
LEMMA GuardStep ==
  ASSUME LaunchInv, RuntimeDir, [Next]_vars,
         VictimsEnded, VictimsEnded', FreeIsIdle, FreeIsIdle'
  PROVE  [Guard!Next]_(Guard!vars)
  <1> USE DEF Guard!Next, Guard!vars, Guard!InFlight
  <1>1. CASE phaseBar' = phaseBar
    <2>1. CASE victimsBar' = victimsBar
      BY <1>1, <2>1
    <2>2. CASE victimsBar' # victimsBar
      <3>1. PICK k \in Launchers : phaseBar[k] = "in"
        BY <1>1, <2>2 DEF VictimsEnded
      <3>2. victimsBar' \in SUBSET (Launchers \ Guard!InFlight)
        BY <1>1 DEF VictimsEnded, victimsBar
      <3> QED
        BY <1>1, <3>1, <3>2 DEF Guard!Aim
    <2> QED
      BY <2>1, <2>2
  <1>2. ASSUME NEW l \in Launchers, phaseBar[l] = "out", lock = Nobody,
               phaseBar' = [phaseBar EXCEPT ![l] = "in"], targets' = targets
        PROVE  Guard!Enter(l)
    BY <1>2 DEF Guard!Enter, FreeIsIdle, victimsBar
  <1>3. ASSUME NEW l \in Launchers, phaseBar[l] = "out",
               phaseBar' = [phaseBar EXCEPT ![l] = "over"], targets' = targets
        PROVE  Guard!Leave(l)
    BY <1>3 DEF Guard!Leave, victimsBar
  <1>4. ASSUME NEW l \in Launchers, phaseBar[l] = "in",
               phaseBar' = [phaseBar EXCEPT ![l] = "over"], lock' = Nobody
        PROVE  Guard!Leave(l)
    BY <1>4 DEF Guard!Leave, FreeIsIdle
  <1>5. CASE \E l \in Launchers : Step(l)
    BY <1>1, <1>2, <1>3, <1>4, <1>5, StepPhase
  <1>6. CASE \E l \in Launchers : Fault(l)
    BY <1>1, <1>3, <1>4, <1>6, FaultPhase
  <1>7. CASE \E l \in Launchers : Click(l)
    <2>1. PICK l \in Launchers : pc[l] = "off" /\ pc' = [pc EXCEPT ![l] = "acquire"]
      BY <1>7 DEF Click, Goto
    <2> QED
      BY <1>1, <2>1, SamePhase DEF LaunchInv, Places, Waiting
  <1>8. CASE \/ \E l \in Launchers : JoinBus(l) \/ SessionMoves(l)
             \/ UserOpens \/ BusQuits \/ BusExits \/ UNCHANGED vars
    <2>1. pc' = pc
      BY <1>8 DEF JoinBus, SessionMoves, UserOpens, BusQuits, BusExits, vars, runVars
    <2> QED
      BY <1>1, <2>1 DEF phaseBar
  <1> QED
    BY <1>5, <1>6, <1>7, <1>8 DEF Next

\* Where there is a directory to lock in, the runs keep the guard's promise.
THEOREM ImplementsGuard ==
  ASSUME RuntimeDir
  PROVE  Spec => GuardSpec
  <1>1. Init => Guard!Init
    BY DEF Init, Guard!Init, phaseBar, victimsBar
  <1>2. LaunchInv /\ VictimsEnded /\ VictimsEnded' /\ FreeIsIdle /\ FreeIsIdle' /\ [Next]_vars
          => [Guard!Next]_(Guard!vars)
    BY GuardStep
  <1> QED
    BY <1>1, <1>2, LaunchInvariant, InvVictimsEnded, InvFreeIsIdle, PTL DEF Spec, GuardSpec, Guard!Spec

\* Victims are let go of with the launch that picked them.
GuardInv ==
  /\ Guard!TypeOK
  /\ Guard!OneInFlight
  /\ Guard!NoVictimInFlight
  /\ Guard!InFlight = {} => victimsBar = {}

\* What the guard promises for every set of launchers, and what is proved of it without a look at
\* the runs: one launch in flight, and none of what it clears away.
THEOREM GuardPromise == Guard!Spec => [](Guard!OneInFlight /\ Guard!NoVictimInFlight)
  <1>1. Guard!Init => GuardInv
    BY DEF Guard!Init, GuardInv, Guard!TypeOK, Guard!OneInFlight, Guard!NoVictimInFlight, Guard!InFlight
  <1>2. GuardInv /\ [Guard!Next]_(Guard!vars) => GuardInv'
    <2> SUFFICES ASSUME GuardInv, [Guard!Next]_(Guard!vars) PROVE GuardInv'
      OBVIOUS
    <2> USE DEF GuardInv, Guard!TypeOK, Guard!OneInFlight, Guard!NoVictimInFlight, Guard!InFlight
    <2>1. ASSUME NEW l \in Launchers, Guard!Enter(l) PROVE GuardInv'
      BY <2>1 DEF Guard!Enter
    <2>2. ASSUME NEW l \in Launchers, Guard!Aim(l) PROVE GuardInv'
      BY <2>2 DEF Guard!Aim
    <2>3. ASSUME NEW l \in Launchers, Guard!Leave(l) PROVE GuardInv'
      BY <2>3 DEF Guard!Leave
    <2>4. CASE UNCHANGED Guard!vars
      BY <2>4 DEF Guard!vars
    <2> QED
      BY <2>1, <2>2, <2>3, <2>4 DEF Guard!Next
  <1>3. GuardInv => Guard!OneInFlight /\ Guard!NoVictimInFlight
    BY DEF GuardInv
  <1> QED
    BY <1>1, <1>2, <1>3, PTL DEF Guard!Spec

\* Where there is a directory to lock in, two runs are never between the lock and their window
\* together, and none there is signalled by the teardown of another.
THEOREM RunsKeepPromise ==
  ASSUME RuntimeDir
  PROVE  Spec => [](Guard!OneInFlight /\ Guard!NoVictimInFlight)
  BY ImplementsGuard, GuardPromise, PTL DEF GuardSpec
===============================================================================
