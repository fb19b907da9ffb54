------------------------ MODULE ProvisioningRequest ------------------------
(***************************************************************************)
(* What ERP can provision: the request it builds for a legal entity from   *)
(* Control Plane's assignment and from its own deployment configuration    *)
(* (provisioning/authoritative_service.py, cp_contract.py, validation.py,  *)
(* market_configuration.py, legal_entity_policy.py).  None of it comes     *)
(* from the caller, and nothing missing is defaulted.                      *)
(*                                                                         *)
(* No state: the deployment configuration is read once, at start-up, and   *)
(* a malformed one fails the start.  Of an assignment the model keeps what *)
(* a check reads; names, currencies and time zones are left out.           *)
(***************************************************************************)
EXTENDS Naturals, FiniteSets

CONSTANTS
  Entities,       \* legal entities, numbers in the order of their identifiers
  Plans,          \* plan versions Control Plane may approve, 1..n
  Assigned,       \* Control Plane's assignment of <<entity, plan>>, if there is one
  MarketEntries,  \* deployment configuration: what is written for a country
  Placements,     \* deployment configuration: the native client key of an entity
  Required,       \* a REQUIRED_* placeholder
  Environment     \* deployment configuration: the target environment

Vocabulary == {"legal_presence", "sourcing", "procurement", "selling", "importing", "exporting",
               "warehousing", "distribution", "fulfilment", "processing", "transit"}
SupportedCapabilities == {"finance.order-consequence.process"}
IsolationRequirements == {"schema_per_tenant", "row_level_security"}

\* An assignment that can be read at all: its members, and nothing else.
ReadableAssignment(a) ==
  /\ DOMAIN a = {"activities", "verification", "registrations", "capabilities", "isolation"}
  /\ a.registrations \in Nat

\* _placeholder: the entry of a country that is not configured yet.
Placeholder(entry) ==
  \/ entry.profile = Required \/ Required \in entry.warehouses
  \/ \E w \in DOMAIN entry.zones : entry.zones[w] = Required

\* check_warehouse_timezones: warehouses, with exactly one time zone each.
ReadableEntry(entry) == entry.warehouses # {} /\ DOMAIN entry.zones = entry.warehouses

ASSUME DeploymentAssumption ==
  /\ Entities \subseteq Nat
  /\ DOMAIN Assigned \subseteq Entities \X Plans
  /\ \A x \in DOMAIN Assigned : ReadableAssignment(Assigned[x])
  /\ \A c \in DOMAIN MarketEntries :
       Placeholder(MarketEntries[c]) \/ ReadableEntry(MarketEntries[c])
  /\ DOMAIN Placements \subseteq Entities

-----------------------------------------------------------------------------
(* Deployment configuration. *)

\* parse_market_configuration: an entry with a placeholder in it is left out.
ConfiguredMarkets == {c \in DOMAIN MarketEntries : ~Placeholder(MarketEntries[c])}

\* parse_deployment_configuration: so is a placement with a placeholder.
PlacedEntities == {e \in DOMAIN Placements : Placements[e] # Required}

\* native_boundary: where the entity lands.  A placement asks for a dedicated
\* client, the one mode there is an adapter for.
NativelyPlaced(e) == e \in PlacedEntities

-----------------------------------------------------------------------------
(* Assignments. *)

\* Control Plane has an approved, executable plan for the entity.
Established(e, p) == <<e, p>> \in DOMAIN Assigned

MarketsOf(e, p) == DOMAIN Assigned[<<e, p>>].activities

\* CpErpAssignment.validate, but for its expiry.
Sound(a) ==
  /\ a.verification = "VERIFIED"
  /\ DOMAIN a.activities # {}
  /\ a.capabilities # {}

\* registration_identifier: none, or several, is not resolved by guessing.
OneRegistration(a) == a.registrations = 1

\* materialize_request: every market of the assignment is configured here.
Materialises(a) == Sound(a) /\ DOMAIN a.activities \subseteq ConfiguredMarkets /\ OneRegistration(a)

\* require_valid_request, for what Finance's own checks do not ensure already.
ValidRequest(a) ==
  /\ Environment = "production"
  /\ a.capabilities \subseteq SupportedCapabilities
  /\ a.isolation \in IsolationRequirements
  /\ \A c \in DOMAIN a.activities : a.activities[c] \subseteq Vocabulary

\* The factory's build, then build_plan.
Provisionable(e, p) ==
  /\ NativelyPlaced(e)
  /\ Materialises(Assigned[<<e, p>>])
  /\ ValidRequest(Assigned[<<e, p>>])
=============================================================================
