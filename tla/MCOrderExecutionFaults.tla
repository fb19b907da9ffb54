----------------------- MODULE MCOrderExecutionFaults -----------------------
(* Instances of OrderExecutionFaults for TLC. *)
EXTENDS OrderExecutionFaults, TLC

CONSTANTS e1, e2, o1

SameOrder == (e1 :> o1) @@ (e2 :> o1)
Versions == (e1 :> 1) @@ (e2 :> 1)
NoMalformed == {}
=============================================================================
