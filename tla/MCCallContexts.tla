--------------------------- MODULE MCCallContexts ---------------------------
(***************************************************************************)
(* Instances of CallContexts for TLC.                                      *)
(***************************************************************************)
EXTENDS CallContexts, TLC

Symmetry == Permutations(Threads) \cup Permutations(Sites)
=============================================================================
