---------------------------- MODULE MCPaneVerbs ----------------------------
(* PaneVerbs on small instances. *)
EXTENDS PaneVerbs, TLC

InterchangeablePids == Permutations(Pids \ {Shell})
=============================================================================
