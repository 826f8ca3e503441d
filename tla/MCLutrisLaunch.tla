---------------------------- MODULE MCLutrisLaunch -----------------------------
(* Small instances of LutrisLaunch for TLC. *)
EXTENDS LutrisLaunch, TLC

CONSTANTS l1, l2, l3, battle, diablo

OneGame == [l \in Launchers |-> battle]
TwoGames == [l \in Launchers |-> IF l = l2 THEN diablo ELSE battle]

Alike == Permutations(Launchers)
===============================================================================
