----------------------------- MODULE IdleBackstop ------------------------------
(***************************************************************************)
(* The idle backstop of the desktop role: desktop-idle-input.py publishes  *)
(* how long it is since the last input, desktop-idle-backstop reads that   *)
(* stamp, powers the panels down past a threshold and up on input, and     *)
(* systemd starts either again when it ends. The two share the stamp and   *)
(* nothing else; each may die, be stopped or hang at any point, and a      *)
(* write to a panel may fail.                                              *)
(*                                                                         *)
(* A tick of time is as long as the reader takes to find new devices and   *)
(* to publish. The backstop polls at any pace while the panels are lit, a  *)
(* write takes any time, and while they are dark it polls at least once in *)
(* a tick.                                                                 *)
(***************************************************************************)
EXTENDS Naturals

CONSTANTS
    Panels,          \* what the session shows on
    Mechanisms,      \* those of DESKTOP_IDLE_BACKSTOP_MECHANISM: ddc, xset, niri
    Threshold,       \* THRESHOLD_MS, in ticks
    Stale,           \* desktop_idle_input_stale_seconds, in ticks
    MaxReadFailures, \* MAX_READ_FAILURES
    MaxWakeAttempts, \* MAX_WAKE_ATTEMPTS
    Faults,          \* what may go wrong, see FaultKinds
    MaxMishaps       \* how often anything but a write does

FaultKinds ==
    {"write",    \* a write to a panel fails, every time if need be
     "detect",   \* the bus does not list a panel that is there
     "reader",   \* the reader dies
     "hang",     \* the reader hangs for a while
     "unplug",   \* the input devices are unplugged
     "clock",    \* the wall clock steps, or the host is suspended
     "kill",     \* the backstop is killed
     "stop",     \* the backstop is stopped while it polls or powers up
     "stop_off"} \* or while it powers down or up for the last time

ASSUME TimesAssumption == Threshold \in Nat \ {0} /\ Stale \in Nat
ASSUME CountsAssumption == MaxReadFailures \in Nat \ {0} /\ MaxWakeAttempts \in Nat \ {0} /\ MaxMishaps \in Nat
ASSUME MechanismsAssumption == Mechanisms \subseteq {"ddc", "xset", "niri"}

VARIABLES
    since,     \* the ticks since the last input, as far as Threshold
    back,      \* the ticks since the last input that ended a threshold's worth of none, past Stale at most
    plugged,   \* whether there is an input device
    reader,    \* the reader: up, down, hung, or hung with input waiting (behind)
    quiet,     \* the ticks since last_input, as far as Threshold
    due,       \* whether it has yet to publish in this tick
    stamp,     \* the idle time it published last
    beat,      \* the age of that, past Stale when it is not believed or not there
    mechanism,
    lit,       \* the panels that are lit
    pc,        \* where the backstop is
    ticked,    \* whether a tick has passed in which it has yet to poll, see Awaited
    dark,      \* what it takes the panels for
    failures,  \* read_failures
    attempts,  \* wake_attempts
    lost,      \* panels were left dark by one that gave up, was killed, or could not power them up on exit
    spared,    \* history: panels it takes for dark that did not take its last write to power down, or
               \* took one to power up since that another panel did not
    mishaps

personVars == <<since, back, plugged>>
readerVars == <<reader, quiet, due>>
stampVars == <<stamp, beat>>
shellVars == <<dark, failures, attempts>>
panelVars == <<mechanism, lit, lost, spared>>
placeVars == <<pc, ticked>>
vars == <<personVars, readerVars, stampVars, placeVars, shellVars, panelVars, mishaps>>

TypeOK ==
    /\ since \in 0 .. Threshold
    /\ back \in 0 .. Stale + 1
    /\ plugged \in BOOLEAN
    /\ reader \in {"up", "down", "hung", "behind"}
    /\ quiet \in 0 .. Threshold
    /\ due \in BOOLEAN
    /\ stamp \in 0 .. Threshold
    /\ beat \in 0 .. Stale + 1
    /\ mechanism \in Mechanisms
    /\ lit \subseteq Panels
    /\ pc \in {"down", "read", "off", "mark", "on", "finish"}
    /\ ticked \in BOOLEAN
    /\ dark \in BOOLEAN
    /\ failures \in 0 .. MaxReadFailures
    /\ attempts \in 0 .. MaxWakeAttempts
    /\ lost \in BOOLEAN
    /\ spared \subseteq Panels
    /\ mishaps \in 0 .. MaxMishaps

Init ==
    /\ since = 0 /\ back = Stale + 1 /\ plugged = TRUE
    /\ reader = "down" /\ quiet = 0 /\ due = FALSE
    /\ stamp = 0 /\ beat = Stale + 1
    /\ mechanism \in Mechanisms
    /\ lit = Panels /\ lost = FALSE /\ spared = {}
    /\ pc = "down" /\ ticked = FALSE /\ dark = FALSE /\ failures = 0 /\ attempts = 0
    /\ mishaps = 0

Goto(place) == pc' = place /\ ticked' = FALSE

Mishap(kind) ==
    /\ kind \in Faults
    /\ mishaps < MaxMishaps
    /\ mishaps' = mishaps + 1

Older(n, most) == IF n < most THEN n + 1 ELSE n

-------------------------------------------------------------------------------
(* The person and the reader *)

\* Panels that are dark are looked after every POLL_DARK_SECONDS, from the write that darkened them on.
Awaited == pc = "mark" \/ (pc = "read" /\ dark)

\* A tick passes, with input or without. The X server lights the panels on input by itself.
Tick(input) ==
    /\ ~ due /\ ~ ticked
    /\ ticked' = Awaited
    /\ input => plugged
    /\ since' = IF input THEN 0 ELSE Older(since, Threshold)
    /\ back' = IF input /\ since = Threshold THEN 0 ELSE Older(back, Stale + 1)
    /\ lit' = IF input /\ mechanism = "xset" THEN Panels ELSE lit
    /\ reader' = IF input /\ reader = "hung" THEN "behind" ELSE reader
    /\ quiet' = IF reader = "down" \/ (input /\ reader = "up") THEN 0 ELSE Older(quiet, Threshold)
    /\ due' = (reader = "up")
    /\ beat' = Older(beat, Stale + 1)
    /\ UNCHANGED <<plugged, stamp, pc, shellVars, mechanism, lost, spared, mishaps>>

\* One that has no device to watch publishes nothing.
Publish ==
    /\ reader = "up" /\ due
    /\ due' = FALSE
    /\ IF plugged THEN stamp' = quiet /\ beat' = 0 ELSE UNCHANGED stampVars
    /\ UNCHANGED <<personVars, reader, quiet, placeVars, shellVars, panelVars, mishaps>>

\* RuntimeDirectory= takes the stamp away with the service.
ReaderDies ==
    /\ reader # "down"
    /\ Mishap("reader")
    /\ reader' = "down" /\ quiet' = 0 /\ due' = FALSE
    /\ beat' = Stale + 1
    /\ UNCHANGED <<personVars, stamp, placeVars, shellVars, panelVars>>

\* last_input begins as now.
ReaderStarts ==
    /\ reader = "down"
    /\ reader' = "up" /\ quiet' = 0 /\ due' = TRUE
    /\ UNCHANGED <<personVars, stampVars, placeVars, shellVars, panelVars, mishaps>>

ReaderHangs ==
    /\ reader = "up"
    /\ Mishap("hang")
    /\ reader' = "hung" /\ due' = FALSE
    /\ UNCHANGED <<personVars, quiet, stampVars, placeVars, shellVars, panelVars>>

\* The kernel has kept the events, and last_input is when they are drained.
ReaderResumes ==
    /\ reader \in {"hung", "behind"}
    /\ reader' = "up" /\ due' = TRUE
    /\ quiet' = IF reader = "behind" THEN 0 ELSE quiet
    /\ UNCHANGED <<personVars, stampVars, placeVars, shellVars, panelVars, mishaps>>

\* The devices do not change under a reader that hangs.
Unplug ==
    /\ plugged /\ reader \in {"up", "down"}
    /\ Mishap("unplug")
    /\ plugged' = FALSE
    /\ UNCHANGED <<since, back, readerVars, stampVars, placeVars, shellVars, panelVars>>

Plug ==
    /\ ~ plugged /\ reader \in {"up", "down"}
    /\ plugged' = TRUE
    /\ UNCHANGED <<since, back, readerVars, stampVars, placeVars, shellVars, panelVars, mishaps>>

\* Either way by more than Stale, and back by more than the reader hangs for.
ClockJumps ==
    /\ Mishap("clock")
    /\ beat' = Stale + 1
    /\ UNCHANGED <<personVars, readerVars, stamp, placeVars, shellVars, panelVars>>

-------------------------------------------------------------------------------
(* The backstop *)

\* Mutant: any stamp that can be read is believed.
BelievedAnyway == TRUE

\* idle_ms: the heartbeat beside the idle time is fresh.
Believed == beat <= Stale

\* What a write comes to: the panels the bus lists, and those of them that take it. Over DDC each is
\* written to by itself.
Writes ==
    LET lists == IF mechanism = "ddc" /\ "detect" \in Faults THEN SUBSET Panels ELSE {Panels}
        Taken(listed) ==
            IF "write" \notin Faults THEN {listed}
            ELSE IF mechanism = "ddc" THEN SUBSET listed ELSE {{}, listed}
    IN  UNION {[listed : {listed}, took : Taken(listed)] : listed \in lists}

\* Mutant: the answer is that of the last panel.
AnsweredByOne(w) == w.took # {}

\* ddc_setvcp: every panel that is listed took the write, and there was one.
Answered(w) == w.took = w.listed /\ w.listed # {}

\* power_on leaves it to the X server, and answers that it is done.
PoweredOn(took) == IF mechanism = "xset" THEN lit ELSE lit \cup took
OnAnswer(w) == mechanism = "xset" \/ Answered(w)

ReadFailed ==
    /\ pc = "read" /\ ~ Believed
    /\ failures' = failures + 1
    /\ IF failures' >= MaxReadFailures THEN Goto("finish") ELSE Goto("read")
    /\ UNCHANGED <<personVars, readerVars, stampVars, dark, attempts, panelVars, mishaps>>

ReadIdle ==
    /\ pc = "read" /\ Believed /\ stamp >= Threshold
    /\ failures' = 0
    /\ Goto(IF dark THEN "read" ELSE "off")
    /\ UNCHANGED <<personVars, readerVars, stampVars, dark, attempts, panelVars, mishaps>>

ReadActive ==
    /\ pc = "read" /\ Believed /\ stamp < Threshold
    /\ failures' = 0
    /\ IF dark
       THEN attempts' = attempts + 1 /\ Goto("on")
       ELSE UNCHANGED attempts /\ Goto("read")
    /\ UNCHANGED <<personVars, readerVars, stampVars, dark, panelVars, mishaps>>

\* Mutant: without a selector the first display alone is written to.
PowerOffFirst ==
    /\ pc = "off"
    /\ \E w \in Writes, first \in Panels :
          /\ lit' = lit \ (w.took \cap {first})
          /\ spared' = Panels \ w.took
    /\ Goto("mark")
    /\ UNCHANGED <<personVars, readerVars, stampVars, shellVars, mechanism, lost, mishaps>>

\* Whether it landed is logged and no more.
PowerOff ==
    /\ pc = "off"
    /\ \E w \in Writes : lit' = lit \ w.took /\ spared' = Panels \ w.took
    /\ Goto("mark")
    /\ UNCHANGED <<personVars, readerVars, stampVars, shellVars, mechanism, lost, mishaps>>

Mark ==
    /\ pc = "mark"
    /\ Goto("read")
    /\ dark' = TRUE /\ attempts' = 0 /\ lost' = FALSE
    /\ UNCHANGED <<personVars, readerVars, stampVars, failures, mechanism, lit, spared, mishaps>>

\* dark is held until the panels are back, or the attempts are spent.
PowerOn ==
    /\ pc = "on"
    /\ \E w \in Writes :
          /\ lit' = PoweredOn(w.took)
          /\ dark' = (~ OnAnswer(w) /\ attempts < MaxWakeAttempts)
          /\ lost' = (~ OnAnswer(w) /\ attempts >= MaxWakeAttempts)
          /\ spared' = IF dark' THEN spared \cup w.took ELSE {}
    /\ Goto("read")
    /\ UNCHANGED <<personVars, readerVars, stampVars, failures, attempts, mechanism, mishaps>>

\* The process has gone, and what it knew with it.
Gone == Goto("down") /\ dark' = FALSE /\ failures' = 0 /\ attempts' = 0 /\ spared' = {}

\* Mutant: the traps are reset and no more.
FinishPlain ==
    /\ pc = "finish"
    /\ Gone
    /\ UNCHANGED <<personVars, readerVars, stampVars, mechanism, lit, lost, mishaps>>

\* finish: the panels are powered up once more.
Finish ==
    /\ pc = "finish"
    /\ IF dark
       THEN \E w \in Writes : lit' = PoweredOn(w.took) /\ lost' = ~ OnAnswer(w)
       ELSE UNCHANGED <<lit, lost>>
    /\ Gone
    /\ UNCHANGED <<personVars, readerVars, stampVars, mechanism, mishaps>>

\* Restart=always, and the session starts it anew.
Start ==
    /\ pc = "down"
    /\ Goto("read")
    /\ UNCHANGED <<personVars, readerVars, stampVars, shellVars, panelVars, mishaps>>

\* A command that is killed along with the script has reached any of the panels it would have.
CutOff ==
    \/ UNCHANGED lit
    \/ pc = "off" /\ \E took \in SUBSET Panels : lit' = lit \ took
    \/ (pc = "on" \/ (pc = "finish" /\ dark)) /\ \E took \in SUBSET Panels : lit' = PoweredOn(took)

\* SIGTERM goes to the script and the command it runs; the trap is taken once that has ended.
Terminate ==
    /\ pc \in {"read", "on", "off", "mark"}
    /\ Mishap(IF pc \in {"read", "on"} THEN "stop" ELSE "stop_off")
    /\ CutOff
    /\ Goto("finish")
    /\ UNCHANGED <<personVars, readerVars, stampVars, shellVars, mechanism, lost, spared>>

\* Killed, or stopped by a signal once finish has reset the traps.
Killed ==
    /\ pc # "down"
    /\ IF pc = "finish" /\ "stop_off" \in Faults THEN Mishap("stop_off") ELSE Mishap("kill")
    /\ CutOff
    /\ lost' = (lost \/ lit' # Panels)
    /\ Gone
    /\ UNCHANGED <<personVars, readerVars, stampVars, mechanism>>

-------------------------------------------------------------------------------

Step == ReadFailed \/ ReadIdle \/ ReadActive \/ PowerOff \/ Mark \/ PowerOn \/ Finish \/ Start

Next ==
    \/ Step
    \/ \E input \in BOOLEAN : Tick(input)
    \/ Publish \/ ReaderStarts \/ ReaderResumes \/ Plug
    \/ ReaderDies \/ ReaderHangs \/ Unplug \/ ClockJumps \/ Terminate \/ Killed

Spec == Init /\ [][Next]_vars

\* Time passes, a reader that is up publishes, and the backstop polls and is started again. Nothing
\* is assumed of the person, nor that a reader that is gone comes back.
FairSpec ==
    /\ Spec
    /\ WF_vars(\E input \in BOOLEAN : Tick(input))
    /\ WF_vars(Publish)
    /\ WF_vars(Step)

-------------------------------------------------------------------------------

\* "A frozen number reads as a session going idle and would blank a panel someone is sitting in
\* front of": the panels are powered down only if there has been no input for the threshold, or
\* the first since then came less than a stamp's life ago, whatever became of the reader.
FrozenNotBelieved ==
    [][pc = "read" /\ pc' = "off" => since = Threshold \/ back <= Stale]_vars

\* "dark is held until the panel is confirmed back": a panel that is off is one the backstop still
\* has to power up, or has let go of in a way it must: its attempts were spent, it was killed, or
\* the write on exit failed. Under xset the X server does it.
NoPanelForgotten ==
    lit # Panels => dark \/ pc \in {"off", "mark"} \/ lost \/ mechanism = "xset"

Publishing == reader = "up" /\ plugged

\* "The floor under the session's blanking policy": once there is no input for good and a reader to
\* say so, every panel is powered down and stays so, but for those the write did not reach: that is
\* not tried again, nor is a panel powered down again that a wake reached and another it did not.
QuietGoesDark == <>[](Publishing /\ since = Threshold) => <>[](dark /\ lit \subseteq spared)

\* Someone who is typing gets the panels back, unless they cannot be written to.
TypistGetsLight == <>[](Publishing /\ since < Threshold) => <>[](~ dark /\ (lit = Panels \/ lost))

\* With a reader to say so, the panels follow the person, whatever restarted before: off when there is
\* nobody, but for those a write failed for, and lit for whoever types, unless the writes fail to the
\* last attempt.
FollowsPerson == QuietGoesDark /\ TypistGetsLight

\* "Gone or stale, there is no idle time to act on": a reader that is gone for good leaves nobody in
\* the dark.
BlindLetsGo == <>[](~ Publishing) => <>[](lit = Panels \/ lost \/ mechanism = "xset")

-------------------------------------------------------------------------------
(* Why: what the steps preserve together *)

\* A reader that is not behind has missed no input since last_input.
HonestReader == reader # "behind" => quiet <= since

\* A stamp that is believed and says idle was true when it was published, which is no longer ago
\* than its age.
HonestStamp == Believed /\ stamp = Threshold => since = Threshold \/ back <= beat

\* The counters are below their bounds while there is another poll to come.
Bounded ==
    /\ pc = "read" => failures < MaxReadFailures
    /\ pc \in {"down", "off", "mark", "on"} => failures = 0
    /\ pc = "read" /\ dark => attempts < MaxWakeAttempts
    /\ pc = "down" => ~ dark
===============================================================================
