----------------------------- MODULE MCNodeCache -----------------------------
(***************************************************************************)
(* NodeCache for TLC: threads, and the nodes of the container, are alike.  *)
(***************************************************************************)
EXTENDS NodeCache, TLC

Symmetry == Permutations(Threads) \cup Permutations(Files)
=============================================================================
