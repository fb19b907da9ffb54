----------------------- MODULE ProvisioningLifecycle -----------------------
(***************************************************************************)
(* What a provisioning command promises whoever reads it or listens to it: *)
(* it only moves forward, it ends active or failed, and each state it was  *)
(* ever in is one revision, announced once and in order.                   *)
(***************************************************************************)
EXTENDS Naturals, Sequences

VARIABLES
  state,      \* the state GET /provisioning-operations/{id} answers
  announced   \* the states announced so far: the n-th is that of revision n

vars == <<state, announced>>

Forward == <<"accepted", "provisioning", "reconciling", "active">>
Position(s) == CHOOSE n \in DOMAIN Forward : Forward[n] = s

Init ==
  /\ state = "accepted"
  /\ announced = <<"accepted">>

Become(s) ==
  /\ state' = s
  /\ announced' = Append(announced, s)

Advance(s) ==
  /\ state \notin {"active", "failed"}
  /\ Position(s) > Position(state)
  /\ Become(s)

Fail ==
  /\ state \notin {"active", "failed"}
  /\ Become("failed")

Next == Fail \/ \E n \in DOMAIN Forward : Advance(Forward[n])

Spec == Init /\ [][Next]_vars
=============================================================================
