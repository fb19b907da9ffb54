-------------------------- MODULE MCOrderExecution --------------------------
(* Instances of OrderExecution for TLC: e1 and e2 are two events of order o1, *)
(* e2 its later version; e3 is an event of order o2 that does not parse.      *)
EXTENDS OrderExecution, TLC

CONSTANTS e1, e2, e3, o1, o2

Orders == [e \in Events |-> IF e = e3 THEN o2 ELSE o1]
Versions == [e \in Events |-> IF e = e2 THEN 2 ELSE 1]
NoMalformed == {}
ThirdMalformed == {e3}

Received == {e \in Events : row[e].status # "absent"}

\* Beside the event of the other order: one more event, one worker at a time.
Alongside ==
  e3 \in Received =>
    /\ Received # Events
    /\ \E w \in Workers : pc[w] = "idle"

Symmetry == Permutations(Workers) \cup Permutations(NativeIds)
=============================================================================
