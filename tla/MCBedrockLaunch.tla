---------------------------- MODULE MCBedrockLaunch ----------------------------
(* Small instances of BedrockLaunch for TLC. *)
EXTENDS BedrockLaunch

CONSTANTS l1, l2, l3
===============================================================================
