---------------------------- MODULE MCTermStream ----------------------------
(* TermStream on small instances. *)
EXTENDS TermStream, TLC

InterchangeableSockets == Permutations(Sockets)
=============================================================================
