------------------------------ MODULE MCPlaybook -------------------------------
(* Small instances of Playbook for TLC. *)
EXTENDS Playbook

CONSTANTS c, h
===============================================================================
