---------------------------- MODULE MCMcpTools ----------------------------
(* McpTools on small instances. *)
EXTENDS McpTools, TLC

InterchangeableCalls == Permutations(Calls)
=============================================================================
