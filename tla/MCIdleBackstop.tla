---------------------------- MODULE MCIdleBackstop -----------------------------
(* Small instances of IdleBackstop for TLC. *)
EXTENDS IdleBackstop

CONSTANTS p1, p2
===============================================================================
