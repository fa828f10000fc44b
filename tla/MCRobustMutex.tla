---------------------------- MODULE MCRobustMutex ---------------------------
(***************************************************************************)
(* An instance of RobustMutex for TLC.                                     *)
(***************************************************************************)
EXTENDS RobustMutex, TLC

MCKinds == [robust : {TRUE}, pi : {FALSE}, type : {"recursive", "errorcheck"}]
           \cup [robust : {FALSE}, pi : {TRUE}, type : {"recursive", "normal"}]
           \cup [robust : {TRUE}, pi : {TRUE}, type : {"normal"}]

\* Nothing is promised once an error of the kernel was taken for the lock: the
\* states after that are not followed further.
Promised == ~misled

Symmetry == Permutations(Threads) \cup Permutations(Mutexes)
=============================================================================
