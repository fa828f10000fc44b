--------------------------- MODULE MCLowLevelLock ---------------------------
(***************************************************************************)
(* Instances of LowLevelLock for TLC.                                      *)
(***************************************************************************)
EXTENDS LowLevelLock, TLC
=============================================================================
