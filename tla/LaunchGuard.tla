------------------------------ MODULE LaunchGuard ------------------------------
(***************************************************************************)
(* What a wine-prefix launcher promises the prefix it starts a game in,    *)
(* whatever takes the lock and whatever a teardown is made of: one launch  *)
(* at a time is in flight, and what a launch clears away never includes a  *)
(* launch that is in flight.                                               *)
(***************************************************************************)
CONSTANT Launchers \* one run of the launcher per click on the desktop entry

VARIABLES
    phase,  \* "out" before its turn, "in" in flight, "over" afterwards
    victims \* the launches whose processes the launch in flight is clearing away

vars == <<phase, victims>>

InFlight == {l \in Launchers : phase[l] = "in"}

TypeOK ==
    /\ phase \in [Launchers -> {"out", "in", "over"}]
    /\ victims \subseteq Launchers

Init ==
    /\ phase = [l \in Launchers |-> "out"]
    /\ victims = {}

Enter(l) ==
    /\ phase[l] = "out"
    /\ InFlight = {}
    /\ phase' = [phase EXCEPT ![l] = "in"]
    /\ UNCHANGED victims

\* The launch in flight picks what it clears away.
Aim(l) ==
    /\ phase[l] = "in"
    /\ victims' \in SUBSET (Launchers \ InFlight)
    /\ UNCHANGED phase

\* In flight or not, a run ends; what it was clearing away is let go of.
Leave(l) ==
    /\ phase[l] # "over"
    /\ phase' = [phase EXCEPT ![l] = "over"]
    /\ victims' = IF phase[l] = "in" THEN {} ELSE victims

Next == \E l \in Launchers : Enter(l) \/ Aim(l) \/ Leave(l)

Spec == Init /\ [][Next]_vars

-------------------------------------------------------------------------------
\* Two launches are never in flight together.
OneInFlight == \A k, l \in InFlight : k = l

\* Nothing in flight is being cleared away.
NoVictimInFlight == victims \cap InFlight = {}
===============================================================================
