--------------------------- MODULE MCPthreadMutex ---------------------------
(***************************************************************************)
(* Instances of PthreadMutex for TLC.                                      *)
(***************************************************************************)
EXTENDS PthreadMutex, TLC

\* Threads are interchangeable; used by the safety runs only.
Symmetry == Permutations(Threads)
=============================================================================
