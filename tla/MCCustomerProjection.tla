------------------------ MODULE MCCustomerProjection ------------------------
(* Instances of CustomerProjection for TLC: events of one customer, e1 its    *)
(* first version, e2 and e3 both its second, of which only e2 repeats the     *)
(* content of the first.                                                      *)
EXTENDS CustomerProjection, TLC

CONSTANTS e1, e2, e3, k1, plain, renamed

OneCustomer == [e \in Events |-> k1]
Versions == [e \in Events |-> IF e = e1 THEN 1 ELSE 2]
Renaming == [e \in Events |-> IF e = e3 THEN renamed ELSE plain]
NoMalformed == {}

Received == {e \in Events : row[e].status # "absent"}

\* The first version and the renaming with both workers; beside the event that
\* repeats the content, one worker at a time and the first version settled.
Alongside ==
  e2 \in Received =>
    /\ \E w \in Workers : pc[w] = "idle"
    /\ e1 \in Received => row[e1].status \in Settled

Symmetry == Permutations(Workers) \cup Permutations(NativeIds)
=============================================================================
