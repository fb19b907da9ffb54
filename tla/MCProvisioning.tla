--------------------------- MODULE MCProvisioning ---------------------------
(* Instances of Provisioning for TLC.                                        *)
EXTENDS Provisioning, TLC

CONSTANTS o1, o2

\* An entity with one market and one warehouse.  Localisation runs a process as
\* accounting does, and is left out.
OneWarehouse == <<"client", "accounting", "warehouse", "mapping">>
Replanned == {o1}
Zoneless == {o2}
Two == {o1, o2}

\* o1 meets every failure; o2 runs alongside in its first pass, neither ageing
\* nor losing an answer.
Alongside ==
  /\ operation[o2].attempts <= 1
  /\ o2 \notin aged
  /\ \A i \in Steps : <<o2, i>> \notin inFlight

Symmetry == Permutations(Workers)
=============================================================================
