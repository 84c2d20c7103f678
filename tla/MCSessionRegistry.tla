------------------------- MODULE MCSessionRegistry -------------------------
(* Names, slugs and symmetry for model-checking SessionRegistry. *)
EXTENDS SessionRegistry, Sequences, TLC

\* The names of the runs are slugs already.
MCSlugOf(name) == name
MCAutoId(n) == "t0" \o ToString(n)
MCSuffixed(slug, n) == slug \o "-" \o ToString(n)

Interchangeable == Permutations(Requests)
============================================================================
