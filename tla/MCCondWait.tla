----------------------------- MODULE MCCondWait -----------------------------
(***************************************************************************)
(* Instances of CondWait for TLC.                                          *)
(***************************************************************************)
EXTENDS CondWait, TLC
=============================================================================
