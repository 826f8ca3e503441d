-------------------------- MODULE IdleBackstopProofs ---------------------------
(* What holds of IdleBackstop for all panels, thresholds, bounds and every selection of faults. *)
EXTENDS IdleBackstop, TLAPS

-------------------------------------------------------------------------------
(* Type correctness *)

LEMMA OlderType ==
    ASSUME NEW most \in Nat, NEW n \in 0 .. most
    PROVE  Older(n, most) \in 0 .. most /\ (n < most => Older(n, most) = n + 1)
  BY DEF Older

LEMMA WritesType ==
    ASSUME TypeOK, NEW w \in Writes
    PROVE  /\ w.took \subseteq Panels
           /\ PoweredOn(w.took) \subseteq Panels
           /\ "detect" \notin Faults => w.listed = Panels
  <1>1. w.took \subseteq Panels /\ ("detect" \notin Faults => w.listed = Panels)
    BY DEF Writes
  <1> QED
    BY <1>1 DEF TypeOK, PoweredOn

LEMMA CutOffType == TypeOK /\ CutOff => lit' \subseteq Panels
  BY DEF TypeOK, CutOff, PoweredOn

LEMMA InitType == Init => TypeOK /\ Bounded
  <1> SUFFICES ASSUME Init PROVE TypeOK /\ Bounded
    OBVIOUS
  <1>1. plugged \in BOOLEAN /\ due \in BOOLEAN /\ dark \in BOOLEAN /\ lost \in BOOLEAN /\ ~ dark
        /\ ticked \in BOOLEAN
    BY DEF Init
  <1>2. /\ since \in 0 .. Threshold
        /\ back \in 0 .. Stale + 1
        /\ quiet \in 0 .. Threshold
        /\ stamp \in 0 .. Threshold
        /\ beat \in 0 .. Stale + 1
        /\ failures \in 0 .. MaxReadFailures
        /\ attempts \in 0 .. MaxWakeAttempts
        /\ mishaps \in 0 .. MaxMishaps
    BY TimesAssumption, CountsAssumption DEF Init
  <1>3. reader \in {"up", "down", "hung", "behind"} /\ mechanism \in Mechanisms /\ lit \subseteq Panels
        /\ spared \subseteq Panels
    BY DEF Init
  <1>4. Bounded /\ pc \in {"down", "read", "off", "mark", "on", "finish"}
    BY <1>1 DEF Init, Bounded
  <1> QED
    BY <1>1, <1>2, <1>3, <1>4 DEF TypeOK

LEMMA NextType == TypeOK /\ Bounded /\ [Next]_vars => TypeOK' /\ Bounded'
  <1> SUFFICES ASSUME TypeOK, Bounded, [Next]_vars PROVE TypeOK' /\ Bounded'
    OBVIOUS
  <1> USE TimesAssumption, CountsAssumption
      DEF Bounded, Goto, Mishap, Gone, personVars, readerVars, stampVars, placeVars, shellVars, panelVars, vars
  <1>1. ASSUME NEW input \in BOOLEAN, Tick(input) PROVE TypeOK' /\ Bounded'
    <2>1. /\ since' \in 0 .. Threshold
          /\ back' \in 0 .. Stale + 1
          /\ quiet' \in 0 .. Threshold
          /\ beat' \in 0 .. Stale + 1
      BY <1>1, OlderType DEF Tick, TypeOK
    <2>2. lit' \subseteq Panels /\ due' \in BOOLEAN /\ reader' \in {"up", "down", "hung", "behind"}
      BY <1>1 DEF Tick, TypeOK
    <2>3. ticked' \in BOOLEAN
      BY <1>1 DEF Tick, Awaited, TypeOK
    <2> QED
      BY <1>1, <2>1, <2>2, <2>3 DEF Tick, TypeOK
  <1>2. CASE Publish
    <2>1. due' \in BOOLEAN
      BY <1>2 DEF Publish
    <2>2. stamp' \in 0 .. Threshold /\ beat' \in 0 .. Stale + 1
      BY <1>2 DEF Publish, TypeOK
    <2> QED
      BY <1>2, <2>1, <2>2 DEF Publish, TypeOK
  <1>3. CASE ReaderDies \/ ReaderStarts \/ ReaderHangs \/ ReaderResumes
    <2>1. due' \in BOOLEAN
      BY <1>3 DEF ReaderDies, ReaderStarts, ReaderHangs, ReaderResumes
    <2>2. quiet' \in 0 .. Threshold /\ beat' \in 0 .. Stale + 1
      BY <1>3 DEF ReaderDies, ReaderStarts, ReaderHangs, ReaderResumes, TypeOK
    <2>3. mishaps' \in 0 .. MaxMishaps /\ reader' \in {"up", "down", "hung", "behind"}
      BY <1>3 DEF ReaderDies, ReaderStarts, ReaderHangs, ReaderResumes, TypeOK
    <2> QED
      BY <1>3, <2>1, <2>2, <2>3 DEF ReaderDies, ReaderStarts, ReaderHangs, ReaderResumes, TypeOK
  <1>4. CASE Unplug \/ Plug \/ ClockJumps
    <2>1. plugged' \in BOOLEAN
      BY <1>4 DEF Unplug, Plug, ClockJumps, TypeOK
    <2>2. beat' \in 0 .. Stale + 1 /\ mishaps' \in 0 .. MaxMishaps
      BY <1>4 DEF Unplug, Plug, ClockJumps, TypeOK
    <2> QED
      BY <1>4, <2>1, <2>2 DEF Unplug, Plug, ClockJumps, TypeOK
  <1>5. CASE ReadFailed
    <2>1. ticked' \in BOOLEAN
      BY <1>5 DEF ReadFailed
    <2> QED
      BY <1>5, <2>1 DEF ReadFailed, TypeOK
  <1>6. CASE ReadIdle \/ ReadActive
    <2>1. ticked' \in BOOLEAN
      BY <1>6 DEF ReadIdle, ReadActive
    <2> QED
      BY <1>6, <2>1 DEF ReadIdle, ReadActive, TypeOK
  <1>7. CASE PowerOff
    <2>1. ticked' \in BOOLEAN
      BY <1>7 DEF PowerOff
    <2>2. lit' \subseteq Panels /\ spared' \subseteq Panels
      BY <1>7, WritesType DEF PowerOff, TypeOK
    <2> QED
      BY <1>7, <2>1, <2>2 DEF PowerOff, TypeOK
  <1>8. CASE Mark
    <2>1. dark' \in BOOLEAN /\ lost' \in BOOLEAN /\ ticked' \in BOOLEAN
      BY <1>8 DEF Mark
    <2> QED
      BY <1>8, <2>1 DEF Mark, TypeOK
  <1>9. CASE PowerOn
    <2>1. PICK w \in Writes :
            /\ lit' = PoweredOn(w.took)
            /\ dark' = (~ OnAnswer(w) /\ attempts < MaxWakeAttempts)
            /\ lost' = (~ OnAnswer(w) /\ attempts >= MaxWakeAttempts)
            /\ spared' = IF dark' THEN spared \cup w.took ELSE {}
      BY <1>9 DEF PowerOn
    <2>2. lit' \subseteq Panels /\ spared' \subseteq Panels
      BY <2>1, WritesType DEF TypeOK
    <2>3. dark' \in BOOLEAN /\ lost' \in BOOLEAN /\ (dark' => attempts < MaxWakeAttempts)
      BY <2>1
    <2>4. ticked' \in BOOLEAN
      BY <1>9 DEF PowerOn
    <2> QED
      BY <1>9, <2>2, <2>3, <2>4 DEF PowerOn, TypeOK
  <1>10. CASE Finish
    <2>1. lit' \subseteq Panels /\ lost' \in BOOLEAN
      BY <1>10, WritesType DEF Finish, TypeOK
    <2>2. dark' \in BOOLEAN /\ ~ dark' /\ ticked' \in BOOLEAN
      BY <1>10 DEF Finish
    <2> QED
      BY <1>10, <2>1, <2>2 DEF Finish, TypeOK
  <1>11. CASE Start
    <2>1. ticked' \in BOOLEAN
      BY <1>11 DEF Start
    <2> QED
      BY <1>11, <2>1 DEF Start, TypeOK
  <1>12. CASE Terminate
    <2>1. lit' \subseteq Panels /\ mishaps' \in 0 .. MaxMishaps
      BY <1>12, CutOffType DEF Terminate, TypeOK
    <2>2. ticked' \in BOOLEAN
      BY <1>12 DEF Terminate
    <2> QED
      BY <1>12, <2>1, <2>2 DEF Terminate, TypeOK
  <1>13. CASE Killed
    <2>1. lit' \subseteq Panels /\ mishaps' \in 0 .. MaxMishaps
      BY <1>13, CutOffType DEF Killed, TypeOK
    <2>2. dark' \in BOOLEAN /\ ~ dark' /\ lost' \in BOOLEAN /\ ticked' \in BOOLEAN
      BY <1>13 DEF Killed, TypeOK
    <2> QED
      BY <1>13, <2>1, <2>2 DEF Killed, TypeOK
  <1>14. CASE UNCHANGED vars
    BY <1>14 DEF TypeOK
  <1> QED
    BY <1>1, <1>2, <1>3, <1>4, <1>5, <1>6, <1>7, <1>8, <1>9, <1>10, <1>11, <1>12, <1>13, <1>14
    DEF Next, Step

\* Every variable of the reader and the backstop stays in its type; above all the counters of failed
\* reads and of attempts never pass their bounds.
THEOREM TypeCorrect == Spec => []TypeOK
  <1>1. Init => TypeOK /\ Bounded
    BY InitType
  <1>2. TypeOK /\ Bounded /\ [Next]_vars => TypeOK' /\ Bounded'
    BY NextType
  <1> QED
    BY <1>1, <1>2, PTL DEF Spec

-------------------------------------------------------------------------------
(* The stamp *)

Honest == HonestReader /\ HonestStamp

LEMMA NextHonest == TypeOK /\ Honest /\ [Next]_vars => Honest'
  <1> SUFFICES ASSUME TypeOK, Honest, [Next]_vars PROVE Honest'
    OBVIOUS
  <1> USE TimesAssumption
      DEF Honest, HonestReader, HonestStamp, Believed, TypeOK, personVars, readerVars, stampVars, placeVars, vars
  <1>1. ASSUME NEW input \in BOOLEAN, Tick(input) PROVE Honest'
    <2>1. CASE input
      <3>1. reader # "behind" => reader' = "behind" \/ quiet' = 0
        BY <1>1, <2>1 DEF Tick
      <3>2. since' = 0 /\ (reader = "behind" => reader' = "behind")
        BY <1>1, <2>1 DEF Tick
      <3> QED
        BY <1>1, <2>1, <3>1, <3>2 DEF Tick, Older
    <2>2. CASE ~ input
      BY <1>1, <2>2 DEF Tick, Older
    <2> QED
      BY <2>1, <2>2
  <1>2. CASE Publish
    BY <1>2 DEF Publish
  <1>3. CASE ReaderDies \/ ClockJumps
    BY <1>3 DEF ReaderDies, ClockJumps
  <1>4. CASE ReaderStarts \/ ReaderHangs \/ ReaderResumes
    BY <1>4 DEF ReaderStarts, ReaderHangs, ReaderResumes
  <1>5. CASE UNCHANGED <<since, back, reader, quiet, stamp, beat>>
    BY <1>5
  <1> QED
    BY <1>1, <1>2, <1>3, <1>4, <1>5
    DEF Next, Step, Unplug, Plug, ReadFailed, ReadIdle, ReadActive, PowerOff, Mark, PowerOn, Finish,
        Start, Terminate, Killed

\* The panels are powered down only if nobody has used the input devices for the threshold, or
\* came back less than a stamp's life ago, whatever becomes of the reader and the clock.
THEOREM FrozenNotBelievedHolds == Spec => FrozenNotBelieved
  <1>1. Init => TypeOK /\ Bounded /\ Honest
    BY InitType, TimesAssumption DEF Init, Honest, HonestReader, HonestStamp, Believed
  <1>2. TypeOK /\ Bounded /\ Honest /\ [Next]_vars => (TypeOK /\ Bounded /\ Honest)'
    BY NextType, NextHonest
  <1>3. TypeOK /\ Honest /\ [Next]_vars =>
          (pc = "read" /\ pc' = "off" => since = Threshold \/ back <= Stale)
    <2> SUFFICES ASSUME TypeOK, Honest, [Next]_vars, pc = "read", pc' = "off"
                 PROVE  since = Threshold \/ back <= Stale
      OBVIOUS
    <2>1. ReadIdle
      BY DEF Next, Step, Tick, Publish, ReaderDies, ReaderStarts, ReaderHangs, ReaderResumes, Unplug, Plug,
             ClockJumps, ReadFailed, ReadActive, PowerOff, Mark, PowerOn, Finish, Start, Terminate, Killed,
             Gone, Goto, placeVars, vars
    <2> QED
      BY <2>1, TimesAssumption DEF ReadIdle, Honest, HonestStamp, Believed, TypeOK
  <1> QED
    BY <1>1, <1>2, <1>3, PTL DEF Spec, FrozenNotBelieved

-------------------------------------------------------------------------------
(* The panels *)

LEMMA AnsweredLit ==
    ASSUME NEW w, OnAnswer(w), mechanism # "xset", w.listed = Panels, lit \subseteq Panels
    PROVE  PoweredOn(w.took) = Panels
  BY DEF OnAnswer, Answered, PoweredOn

LEMMA CutOffLights ==
    ASSUME TypeOK, CutOff, pc \in {"read", "on"}
    PROVE  lit = Panels => lit' = Panels
  BY DEF TypeOK, CutOff, PoweredOn

LEMMA NextForgotten ==
    ASSUME "stop_off" \notin Faults, "detect" \notin Faults
    PROVE  TypeOK /\ NoPanelForgotten /\ [Next]_vars => NoPanelForgotten'
  <1> SUFFICES ASSUME TypeOK, NoPanelForgotten, [Next]_vars PROVE NoPanelForgotten'
    OBVIOUS
  <1> USE DEF NoPanelForgotten, Goto, Gone, panelVars, placeVars, shellVars, vars
  <1>1. ASSUME NEW input \in BOOLEAN, Tick(input) PROVE NoPanelForgotten'
    BY <1>1 DEF Tick
  <1>2. CASE PowerOn
    <2>1. PICK w \in Writes :
            /\ lit' = PoweredOn(w.took)
            /\ dark' = (~ OnAnswer(w) /\ attempts < MaxWakeAttempts)
            /\ lost' = (~ OnAnswer(w) /\ attempts >= MaxWakeAttempts)
            /\ spared' = IF dark' THEN spared \cup w.took ELSE {}
      BY <1>2 DEF PowerOn
    <2>2. CASE OnAnswer(w)
      BY <1>2, <2>1, <2>2, WritesType, AnsweredLit DEF PowerOn, TypeOK
    <2>3. CASE ~ OnAnswer(w)
      <3>1. attempts < MaxWakeAttempts \/ attempts >= MaxWakeAttempts
        BY CountsAssumption DEF TypeOK
      <3> QED
        BY <2>1, <2>3, <3>1
    <2> QED
      BY <2>2, <2>3
  <1>3. CASE Finish
    <2>1. CASE dark
      <3>1. PICK w \in Writes : lit' = PoweredOn(w.took) /\ lost' = ~ OnAnswer(w)
        BY <1>3, <2>1 DEF Finish
      <3> QED
        BY <1>3, <3>1, WritesType, AnsweredLit DEF Finish, TypeOK
    <2>2. CASE ~ dark
      BY <1>3, <2>2 DEF Finish
    <2> QED
      BY <2>1, <2>2
  <1>4. CASE Terminate
    <2>1. pc \in {"read", "on"}
      BY <1>4 DEF Terminate, Mishap
    <2> QED
      BY <1>4, <2>1, CutOffLights DEF Terminate
  <1>5. CASE Killed
    BY <1>5 DEF Killed
  <1>6. CASE PowerOff \/ Mark
    BY <1>6 DEF PowerOff, Mark
  <1>7. CASE ReadIdle \/ ReadActive \/ ReadFailed \/ Start
    BY <1>7 DEF ReadIdle, ReadActive, ReadFailed, Start
  <1>8. CASE UNCHANGED <<lit, dark, pc, lost, mechanism>>
    BY <1>8
  <1> QED
    BY <1>1, <1>2, <1>3, <1>4, <1>5, <1>6, <1>7, <1>8
    DEF Next, Step, Publish, ReaderDies, ReaderStarts, ReaderHangs, ReaderResumes, Unplug, Plug, ClockJumps

\* As long as the bus lists every panel and no stop comes while they are being powered down, none is
\* left dark by a backstop that could have powered it up.
THEOREM NoPanelForgottenHolds ==
    ASSUME "stop_off" \notin Faults, "detect" \notin Faults
    PROVE  Spec => []NoPanelForgotten
  <1>1. Init => TypeOK /\ Bounded /\ NoPanelForgotten
    BY InitType DEF Init, NoPanelForgotten
  <1>2. TypeOK /\ Bounded /\ NoPanelForgotten /\ [Next]_vars => (TypeOK /\ Bounded /\ NoPanelForgotten)'
    BY NextType, NextForgotten
  <1> QED
    BY <1>1, <1>2, PTL DEF Spec
===============================================================================
