------------------------- MODULE MCPriorityProtect --------------------------
(***************************************************************************)
(* An instance of PriorityProtect for TLC: two mutexes with the same       *)
(* ceiling, a higher one, and one whose attribute sets no ceiling; threads *)
(* below, at and without a real-time priority.                             *)
(***************************************************************************)
EXTENDS PriorityProtect, TLC

CONSTANTS m1, m2, m3, m0, t1, t2

MCKind == (m1 :> "normal") @@ (m2 :> "recursive") @@ (m3 :> "errorcheck") @@ (m0 :> "normal")
MCCeiling == (m1 :> 2) @@ (m2 :> 2) @@ (m3 :> 3) @@ (m0 :> 0)
MCBase == (t1 :> 1) @@ (t2 :> 0)
=============================================================================
