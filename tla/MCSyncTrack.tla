----------------------------- MODULE MCSyncTrack ----------------------------
(***************************************************************************)
(* An instance of SyncTrack for TLC: instructions that change an odd and   *)
(* an even address, one with a second read, one that accesses the stack    *)
(* and a jump through memory.                                              *)
(***************************************************************************)
EXTENDS SyncTrack

Inst(w, r, r2) == [w |-> w, r |-> r, r2 |-> r2, stack |-> FALSE, falls |-> TRUE]

MCInsts == {Inst(3, 3, 0), Inst(2, 2, 3),
            [Inst(2, 0, 0) EXCEPT !.stack = TRUE], [Inst(0, 3, 0) EXCEPT !.falls = FALSE]}
=============================================================================
