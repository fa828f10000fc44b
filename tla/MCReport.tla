------------------------------ MODULE MCReport ------------------------------
(***************************************************************************)
(* An instance of Report for TLC.                                          *)
(***************************************************************************)
EXTENDS Report

\* Addresses 1 to 4.  The threads use the first lock from different places and
\* the second from one; address 3 is in a stripped library, so that the stack
\* of the second lock looks like one of the first.
MCStacksOf == [t \in 0 .. 1 |-> [r \in 0 .. 1 |->
                  IF r = 1 THEN {<<2, 3, 4>>} ELSE {<<t + 1, 4>>}]]
MCLineOf == [a \in 1 .. 4 |-> IF a = 3 THEN "?" ELSE <<"a.c:1", "b.c:2", "", "main.c:4">>[a]]
MCThreads == 0 .. 1
MCRecords == 0 .. 1
=============================================================================
