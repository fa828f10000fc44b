------------------------------ MODULE MCXThread -----------------------------
(***************************************************************************)
(* Instances of XThread for TLC.                                           *)
(***************************************************************************)
EXTENDS XThread, TLC
=============================================================================
