--------------------------- MODULE MCPruneAgentRules ---------------------------
(* Small instances of PruneAgentRules for TLC. *)
EXTENDS PruneAgentRules

CONSTANTS claude, kilo, env, keys
===============================================================================
