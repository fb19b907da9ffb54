--------------------------- MODULE GovernanceGate ---------------------------
(***************************************************************************)
(* What a native financial operation has to pass before it may change the  *)
(* engine: order_to_cash/native_action_gate.py and governed_service.py,    *)
(* both on legal_actor_gate.perform_governed_financial_action, and at the  *)
(* egress integration/native_finance_guard.py.                             *)
(*                                                                         *)
(* Protected runtimes only (any not marked development or test).  Control  *)
(* Plane's answers say what held when it was asked; an answer that is      *)
(* malformed, stale, about something else or missing counts as a denial.   *)
(* Wrong company, table, process or payload are denials of the egress      *)
(* guard.  "Variant" marks plausible mistakes.                             *)
(***************************************************************************)
EXTENDS Naturals

CONSTANTS
  Servers,       \* operations that may run at once
  MandateBound   \* bound: mandates Control Plane grants one after the other

ASSUME GateAssumption == MandateBound \in Nat \ {0}

VARIABLES
  mandate,   \* the legal actor's mandate in force; each grant has a new number
  blocked,   \* Control Plane's documentary restriction: "no" or "yes"
  gate       \* per operation: where its checks are, the mandate first seen,
             \* what it did to the engine, and whether it was overruled

gateVars == <<mandate, blocked, gate>>

Checks == {"assess", "documentary", "readiness", "again", "reassess"}
Places == Checks \cup {"closed", "permit", "spent", "unauthorised"}

Gate(at, seen, changes, overruled) ==
  [at |-> at, mandate |-> seen, changes |-> changes, overruled |-> overruled]

Closed == Gate("closed", 0, 0, "no")
Opened == Gate("assess", 0, 0, "no")

GateInit == mandate = 1 /\ blocked = "no" /\ gate = [s \in Servers |-> Closed]

-----------------------------------------------------------------------------
(* Control Plane. *)

\* The operations whose last look at something is still to come.
Overrule(places) ==
  gate' = [s \in Servers |->
             IF gate[s].at \in places
             THEN Gate(gate[s].at, gate[s].mandate, gate[s].changes, "yes")
             ELSE gate[s]]

\* The mandate is revoked and another one granted: this concerns operations that
\* saw the old one and have not been told that it still holds.
Revoke ==
  /\ mandate < MandateBound
  /\ mandate' = mandate + 1
  /\ Overrule(Checks \ {"assess"})
  /\ UNCHANGED blocked

\* A documentary restriction is imposed.
RestrictScope ==
  /\ blocked = "no"
  /\ blocked' = "yes"
  /\ Overrule(Checks \ {"reassess"})
  /\ UNCHANGED mandate

-----------------------------------------------------------------------------
(* The checks of one operation. *)

Pass(s, from, to) ==
  /\ gate[s].at = from
  /\ gate' = [gate EXCEPT ![s] = Gate(to, @.mandate, @.changes, @.overruled)]
  /\ UNCHANGED <<mandate, blocked>>

\* assessor.assess and assert_current_decision.
Assess(s) ==
  /\ gate[s].at = "assess"
  /\ gate' = [gate EXCEPT ![s] = Gate("documentary", mandate, @.changes, @.overruled)]
  /\ UNCHANGED <<mandate, blocked>>

\* require_documentary_scope_unblocked, before and after the provider.
Documentary(s) == blocked = "no" /\ Pass(s, "documentary", "readiness")
DocumentaryAgain(s) == blocked = "no" /\ Pass(s, "again", "reassess")

\* provider.ensure_legal_actor_usable: the native readiness checks.
Readiness(s) == Pass(s, "readiness", "again")

\* Variant: the mandate is not compared with the one first seen.
ReassessAny(s) == Pass(s, "reassess", "permit")

\* The final assessment must name the same mandate.
Reassess(s) == mandate = gate[s].mandate /\ Pass(s, "reassess", "permit")

\* LegalActorNotAuthorised, or an authority that cannot be reached.
Denied(s) == gate[s].at \in Checks

\* Variant: the guard only looks at the permit.
SpendMany(s, to) ==
  /\ gate[s].at \in {"permit", "unauthorised"}
  /\ gate' = [gate EXCEPT ![s] = Gate(to, @.mandate, @.changes + 1, @.overruled)]
  /\ UNCHANGED <<mandate, blocked>>

\* _require_exact_request with consume: one request per permit reaches the engine.
Spend(s, to) ==
  /\ gate[s].at = "permit"
  /\ gate' = [gate EXCEPT ![s] = Gate(to, @.mandate, @.changes + 1, @.overruled)]
  /\ UNCHANGED <<mandate, blocked>>

Open(s) == gate' = [gate EXCEPT ![s] = Opened] /\ UNCHANGED <<mandate, blocked>>
Shut(s) == gate' = [gate EXCEPT ![s] = Closed] /\ UNCHANGED <<mandate, blocked>>

GateStep(s) ==
  Assess(s) \/ Documentary(s) \/ Readiness(s) \/ DocumentaryAgain(s) \/ Reassess(s)

ControlPlane == Revoke \/ RestrictScope

-----------------------------------------------------------------------------
GateType ==
  [at : Places, mandate : 0..MandateBound, changes : Nat, overruled : {"no", "yes"}]

GateTypeOK ==
  /\ mandate \in 1..MandateBound /\ blocked \in {"no", "yes"}
  /\ gate \in [Servers -> GateType]

\* An operation whose mandate was revoked, or whose scope was restricted, while
\* its checks were under way is refused, and no operation changes the engine
\* twice, not even when the engine answers 401 and the client logs in again
\* (perform_governed_financial_action: "a mandate may be revoked or reassigned
\* during iDempiere/provider checks"; native_finance_guard: "never automatically
\* retry irreversible writes with the same permit").
GovernedOnce ==
  \A s \in Servers :
    /\ gate[s].overruled = "yes" => gate[s].changes = 0
    /\ gate[s].changes <= 1
=============================================================================
