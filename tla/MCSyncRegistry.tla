--------------------------- MODULE MCSyncRegistry ---------------------------
(***************************************************************************)
(* Instances of SyncRegistry for TLC.                                      *)
(***************************************************************************)
EXTENDS SyncRegistry, TLC

\* Mutexes are interchangeable; threads are not (they are row numbers).
Symmetry == Permutations(Mutexes)
=============================================================================
