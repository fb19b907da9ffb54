------------------------ MODULE MCProvisioningIntake ------------------------
(* An instance of ProvisioningIntake for TLC.                                *)
EXTENDS ProvisioningIntake, TLC

CONSTANTS k1, k2, s1, s2, s3

Two == 1..2
OnlyKE == {"KE"}

\* Two entities and two plans.  The later plan adds a second market for entity 2,
\* for which this deployment has nothing but a placeholder.
Assignment(markets) ==
  [activities |-> [c \in markets |-> {"selling", "warehousing"}], verification |-> "VERIFIED",
   registrations |-> 1, capabilities |-> SupportedCapabilities,
   isolation |-> "schema_per_tenant"]
Assignments ==
  [x \in Two \X Two |-> Assignment(IF x = <<2, 2>> THEN {"KE", "UG"} ELSE OnlyKE)]
Entries ==
  [c \in {"KE", "UG"} |->
     [profile |-> "local", warehouses |-> {"W1"},
      zones |-> [x \in {"W1"} |-> IF c = "KE" THEN "Africa/Nairobi" ELSE Required]]]
Clients == <<"one", "two">>
Currencies == <<<<"KES", "UGX">>, <<"KES", "KES">>>>

Ask(key, plan, countries, currencies, refs) ==
  [key |-> key, plan |-> plan, context |-> plan, countries |-> countries,
   currencies |-> currencies, refs |-> refs]

\* A request for both entities; another under its key; a part of it under
\* another key; the later plan with a later baseline; the same for the entity
\* that cannot be provisioned; no countries; a context of the other purpose.
First == Ask(k1, 1, OnlyKE, {"KES"}, <<1, 1>>)
Reused == Ask(k1, 1, OnlyKE, {"KES", "UGX"}, <<2, 1>>)
Part == Ask(k2, 1, OnlyKE, {"KES"}, [e \in {2} |-> 1])
Later == Ask(k2, 2, OnlyKE, {"UGX"}, <<2>>)
Unready == Ask(k2, 2, {"KE", "UG"}, {"KES"}, [e \in {2} |-> 1])
Bad == Ask(k1, 1, {}, {"KES"}, <<1, 1>>)
Other == [First EXCEPT !.context = Runtime]
RequestSet == {First, Reused, Part, Later, Unready, Bad, Other}
OneMalformed == {Bad}

\* At most three changes of what Finance and Control Plane hold.
FewChanges ==
  Len(baseline[1]) + Len(baseline[2]) + Cardinality(withdrawn) + approved <= 6
Symmetry == Permutations(Servers)
=============================================================================
