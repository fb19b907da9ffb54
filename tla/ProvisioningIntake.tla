------------------------- MODULE ProvisioningIntake -------------------------
(***************************************************************************)
(* POST /provisioning-operations: how a request becomes an accepted        *)
(* command (application/provisioning_operations.py) while other servers    *)
(* handle its retries, Finance records and withdraws baselines             *)
(* (provisioning/finance_baseline_store.py) and Control Plane replans.     *)
(*                                                                         *)
(* A request is handled in one READ COMMITTED transaction: each read sees  *)
(* what is committed at that moment, and nothing it reads is locked.  Only *)
(* the idempotency scope is, until the transaction ends.                   *)
(*                                                                         *)
(* One tenant and one day, Today.  A request is a record of a constant     *)
(* set: its key, the plan it names and the plan its context is bound to,   *)
(* the countries and currencies it asks for, and the baseline version it   *)
(* refers to for each of its entities; two different requests have two     *)
(* fingerprints.  "Variant" marks plausible mistakes that no specification *)
(* uses.                                                                   *)
(***************************************************************************)
EXTENDS ProvisioningRequest, Sequences

CONSTANTS
  Requests,      \* bodies: [key, plan, context, countries, currencies, refs]
  Malformed,     \* requests that parse_command refuses
  Keys,          \* idempotency keys of the tenant
  Runtime,       \* the purpose of a context that is not a provisioning one
  CurrencyOf,    \* the functional currency of the n-th baseline of an entity
  Servers,       \* transactions that may run at once
  NoRequest, NoKey,
  Today,         \* the date on the servers' clock
  VersionBound   \* bound: baseline versions of one entity

ASSUME IntakeAssumption ==
  /\ \A r \in Requests : /\ r.key \in Keys /\ r.plan \in Plans
                         /\ r.context \in Plans \cup {Runtime}
                         /\ DOMAIN r.refs \subseteq Entities /\ DOMAIN r.refs # {}
  /\ NoRequest \notin Requests /\ NoKey \notin Keys /\ Runtime \notin Plans
  /\ Malformed \subseteq Requests
  /\ 1 \in Plans
  /\ Today \in Nat /\ VersionBound \in Nat \ {0}

VARIABLES
  baseline,   \* financial_configuration_baseline: versions of an entity
  withdrawn,  \* .._withdrawal: <<entity, version>> pairs
  approved,   \* the plan Control Plane's assignment names
  command,    \* erp_provisioning_command by idempotency key
  owner,      \* erp_provisioning_operation: the command that owns a record
  announced,  \* revision 1 of these commands is in the outbox
  server,     \* what a server holds while it handles a request
  answers     \* what requests were told about the command of their key

authorities == <<baseline, withdrawn, approved>>
stored == <<command, owner, announced>>
vars == <<authorities, stored, server, answers>>

Records == Entities \X Plans
EntitiesOf(r) == DOMAIN r.refs
RecordsOf(r) == EntitiesOf(r) \X {r.plan}

\* What a server holds: where it is, its request, the baseline versions the request
\* is built from, the entities whose version was found in force, and what had been
\* withdrawn when the request was looked at.
Handling(place, r, exact, usable, gone) ==
  [at |-> place, request |-> r, exact |-> exact, usable |-> usable, gone |-> gone]

Idle == Handling("idle", NoRequest, <<>>, {}, {})

-----------------------------------------------------------------------------
(* Finance baselines. *)

Versions(e) == DOMAIN baseline[e]

Candidates(e) ==
  {v \in Versions(e) : baseline[e][v] <= Today /\ <<e, v>> \notin withdrawn}

\* effective: the latest effective_from, then the highest version, of those not
\* withdrawn; none if there is none.
InForce(e) ==
  {v \in Candidates(e) :
     \A u \in Candidates(e) :
       \/ baseline[e][u] < baseline[e][v]
       \/ baseline[e][u] = baseline[e][v] /\ u <= v}

\* Variant: the standing forgets withdrawals.
StandingUnwithdrawn(e, v) ==
  IF baseline[e][v] > Today THEN "NOT_YET_EFFECTIVE" ELSE "EFFECTIVE"

\* status: the standing of one version on that date.
Standing(e, v) ==
  IF <<e, v>> \in withdrawn THEN "WITHDRAWN"
  ELSE IF baseline[e][v] > Today THEN "NOT_YET_EFFECTIVE"
  ELSE IF v \in InForce(e) THEN "EFFECTIVE" ELSE "SUPERSEDED"

\* record: Finance approves the next version, in force from some day on.
Record(e, from) ==
  /\ Len(baseline[e]) < VersionBound
  /\ baseline' = [baseline EXCEPT ![e] = Append(baseline[e], from)]
  /\ UNCHANGED <<withdrawn, approved, stored, server, answers>>

\* withdraw: Finance takes one approval back, from today on.
Withdraw(e, v) ==
  /\ v \in Versions(e) /\ <<e, v>> \notin withdrawn
  /\ withdrawn' = withdrawn \cup {<<e, v>>}
  /\ UNCHANGED <<baseline, approved, stored, server, answers>>

\* Control Plane approves a later plan.
Replan ==
  /\ approved + 1 \in Plans
  /\ approved' = approved + 1
  /\ UNCHANGED <<baseline, withdrawn, stored, server, answers>>

-----------------------------------------------------------------------------
(* Handling a request. *)

At(s, place) == server[s].at = place

Told == {"accepted", "reused", "taken"}

Answer(s, what) ==
  /\ answers' = answers \cup ({<<server[s].request, what>>} \cap (Requests \X Told))
  /\ server' = [server EXCEPT ![s] = Idle]

Step(s, place, exact, usable, gone) ==
  /\ server' = [server EXCEPT ![s] =
                  Handling(place, server[s].request, exact, usable, gone)]
  /\ UNCHANGED answers

Goto(s, place) == Step(s, place, server[s].exact, server[s].usable, server[s].gone)

\* A request without a proper key, body or tenant gets no further.
Refuse(s, r) ==
  /\ At(s, "idle") /\ r \in Malformed
  /\ UNCHANGED vars

\* validated_context: Control Plane vouches for a provisioning context only while
\* the plan it is bound to is the approved one.
ContextCurrent(r) == r.context # Runtime /\ r.context = approved

\* The context is authority for exactly the plan it is bound to.
Admitted(r) == ContextCurrent(r) /\ r.context = r.plan

\* A request without such a context is refused; all refusals look alike.
RejectContext(s, r) ==
  /\ At(s, "idle") /\ ~Admitted(r)
  /\ UNCHANGED vars

\* Control Plane cannot be asked, or says something that is not about the caller:
\* the context is neither accepted nor rejected, and the caller may try again.
ContextUnavailable(s) ==
  /\ At(s, "idle")
  /\ UNCHANGED vars

\* A well-formed request of such a context waits for its idempotency scope.
Arrive(s, r) ==
  /\ At(s, "idle") /\ Admitted(r) /\ r \notin Malformed
  /\ server' = [server EXCEPT ![s] = Handling("arrived", r, <<>>, {}, {})]
  /\ UNCHANGED <<authorities, stored, answers>>

\* The servers whose transaction holds the scope of a key.
Holders(k) ==
  {s \in Servers : ~At(s, "idle") /\ ~At(s, "arrived") /\ server[s].request.key = k}

\* What find tells, once the scope is held.
Find(s) ==
  LET r == server[s].request
      found == command[r.key].request
  IN  \/ found = NoRequest /\ Step(s, "plan", <<>>, {}, withdrawn)
      \/ found = r /\ Answer(s, "accepted")
      \/ found \notin {NoRequest, r} /\ Answer(s, "reused")

\* Variant: no lock on the scope.
EnterUnlocked(s) ==
  /\ At(s, "arrived")
  /\ Find(s)
  /\ UNCHANGED <<authorities, stored>>

\* lock_scope and find: a request of the same key and fingerprint gets the same
\* answer, one of the same key only is refused.
Enter(s) ==
  /\ At(s, "arrived")
  /\ Holders(server[s].request.key) = {}
  /\ Find(s)
  /\ UNCHANGED <<authorities, stored>>

\* The approved plan of each entity is exactly the one the request names, and the
\* countries asked for are exactly the markets they authorise together.
PlanAgrees(r) ==
  /\ r.plan = approved
  /\ \A e \in EntitiesOf(r) : Established(e, r.plan)
  /\ r.countries = UNION {MarketsOf(e, r.plan) : e \in EntitiesOf(r)}

ReadPlan(s) ==
  /\ At(s, "plan")
  /\ IF PlanAgrees(server[s].request) THEN Goto(s, "resolve") ELSE Answer(s, "mismatch")
  /\ UNCHANGED <<authorities, stored>>

\* Control Plane cannot be read now.
PlanUnavailable(s) ==
  /\ At(s, "plan")
  /\ Answer(s, "unavailable")
  /\ UNCHANGED <<authorities, stored>>

\* Each reference is re-resolved: the version must exist as it was referred to.
ResolveBaselines(s) ==
  LET r == server[s].request
  IN  /\ At(s, "resolve")
      /\ IF \A e \in EntitiesOf(r) : r.refs[e] \in Versions(e)
         THEN Step(s, "standing", r.refs, {}, server[s].gone)
         ELSE Answer(s, "mismatch")
      /\ UNCHANGED <<authorities, stored>>

\* Then each must be in force, one entity read after the other.
CheckStanding(s, e) ==
  LET r == server[s].request
      left == EntitiesOf(r) \ server[s].usable
  IN  /\ At(s, "standing") /\ e \in left /\ \A f \in left : e <= f
      /\ IF Standing(e, server[s].exact[e]) = "EFFECTIVE"
         THEN Step(s, "standing", server[s].exact, server[s].usable \cup {e}, server[s].gone)
         ELSE Answer(s, "unusable")
      /\ UNCHANGED <<authorities, stored>>

\* Variant: the request is built from whatever is in force by now.
BuildCurrent(s) ==
  LET r == server[s].request
  IN  /\ At(s, "standing") /\ server[s].usable = EntitiesOf(r)
      /\ Step(s, "accept",
              [e \in EntitiesOf(r) |->
                 IF InForce(e) = {} THEN server[s].exact[e]
                 ELSE CHOOSE v \in InForce(e) : TRUE],
              server[s].usable, server[s].gone)
      /\ UNCHANGED <<authorities, stored>>

\* The currencies asked for are those of the baselines the entities are built from.
CurrenciesAgree(r, exact) == r.currencies = {CurrencyOf[e][exact[e]] : e \in EntitiesOf(r)}

\* The requests of all entities are built from the verified versions, or none.
Build(s) ==
  LET r == server[s].request
  IN  /\ At(s, "standing") /\ server[s].usable = EntitiesOf(r)
      /\ IF \E e \in EntitiesOf(r) : ~Provisionable(e, r.plan)
         THEN Answer(s, "unready")
         ELSE IF CurrenciesAgree(r, server[s].exact) THEN Goto(s, "accept")
         ELSE Answer(s, "mismatch")
      /\ UNCHANGED <<authorities, stored>>

\* An assignment has expired since it was read.
Expired(s) ==
  /\ At(s, "standing") /\ server[s].usable = EntitiesOf(server[s].request)
  /\ Answer(s, "unready")
  /\ UNCHANGED <<authorities, stored>>

\* Variant: ON CONFLICT DO UPDATE on the operation's idempotency key.
TakenByKey(r) == command[r.key].request # NoRequest

\* The unique indexes of the command's key and of its entities' operations.
Taken(r) ==
  \/ command[r.key].request # NoRequest
  \/ \E x \in RecordsOf(r) : owner[x] # NoKey

\* accept and commit: the command, every operation and revision 1.
Accept(s) ==
  LET r == server[s].request
  IN  /\ At(s, "accept") /\ ~Taken(r)
      /\ command' = [command EXCEPT ![r.key] =
           [request |-> r, built |-> server[s].exact]]
      /\ owner' = [x \in Records |-> IF x \in RecordsOf(r) THEN r.key ELSE owner[x]]
      /\ announced' = announced \cup {r.key}
      /\ Answer(s, "accepted")
      /\ UNCHANGED authorities

\* Variant: the answer is given, the failed transaction stays open.
RollBackForgotten(s) ==
  LET r == server[s].request
  IN  /\ At(s, "accept") /\ Taken(r)
      /\ answers' = answers \cup {<<r, "taken">>}
      /\ server' = [server EXCEPT ![s] =
                      Handling("idle", r, server[s].exact, server[s].usable, server[s].gone)]
      /\ UNCHANGED <<authorities, stored>>

\* A unique index is violated: all of it is rolled back.
RollBack(s) ==
  LET r == server[s].request
  IN  /\ At(s, "accept") /\ Taken(r)
      /\ Answer(s, "taken")
      /\ UNCHANGED <<authorities, stored>>

\* The server dies before the commit: the scope is free, nothing was written.
\* (After the commit only the answer is lost, which changes nothing here.)
Crash(s) ==
  /\ ~At(s, "idle")
  /\ server' = [server EXCEPT ![s] = Idle]
  /\ UNCHANGED <<authorities, stored, answers>>

-----------------------------------------------------------------------------
NoCommand == [request |-> NoRequest, built |-> <<>>]

Init ==
  /\ baseline = [e \in Entities |-> <<Today>>]
  /\ withdrawn = {}
  /\ approved = 1
  /\ command = [k \in Keys |-> NoCommand]
  /\ owner = [x \in Records |-> NoKey]
  /\ announced = {}
  /\ server = [s \in Servers |-> Idle]
  /\ answers = {}

Handle(s) ==
  \/ \E r \in Requests : Refuse(s, r) \/ RejectContext(s, r) \/ Arrive(s, r)
  \/ ContextUnavailable(s)
  \/ Enter(s) \/ ReadPlan(s) \/ PlanUnavailable(s) \/ ResolveBaselines(s)
  \/ \E e \in Entities : CheckStanding(s, e)
  \/ Build(s) \/ Expired(s) \/ Accept(s) \/ RollBack(s)

Next ==
  \/ \E s \in Servers : Handle(s) \/ Crash(s)
  \/ \E e \in Entities : \/ \E from \in {Today, Today + 1} : Record(e, from)
                         \/ \E v \in Versions(e) : Withdraw(e, v)
  \/ Replan

Spec == Init /\ [][Next]_vars

-----------------------------------------------------------------------------
(* Properties. *)

Places == {"idle", "arrived", "plan", "resolve", "standing", "accept"}
BuiltFrom == {<<>>} \cup {r.refs : r \in Requests}
CommandType == [request : Requests \cup {NoRequest}, built : BuiltFrom]
ServerType ==
  [at : Places, request : Requests \cup {NoRequest}, exact : BuiltFrom,
   usable : SUBSET Entities, gone : SUBSET (Entities \X (1..VersionBound))]

\* The tables and the servers hold what they may hold, and a server that answered
\* or died left nothing of its transaction behind (the rollback of a violation).
TypeOK ==
  /\ approved \in Plans
  /\ baseline \in [Entities -> Seq(Nat)]
  /\ \A e \in Entities : Len(baseline[e]) <= VersionBound
  /\ withdrawn \subseteq Entities \X (1..VersionBound)
  /\ command \in [Keys -> CommandType]
  /\ owner \in [Records -> Keys \cup {NoKey}]
  /\ announced \subseteq Keys
  /\ answers \subseteq Requests \X Told
  /\ server \in [Servers -> ServerType]
  /\ \A s \in Servers : At(s, "idle") => server[s] = Idle

\* An idempotency key stands for one request: whoever was told "accepted" has
\* the command of exactly that request, and a retry of an accepted request is
\* never told that another command owns its entities, even if both were handled
\* at once: one transaction at a time holds the key (request_provisioning,
\* lock_scope).
KeyBindsRequest ==
  \A r \in Requests :
    /\ <<r, "accepted">> \in answers => command[r.key].request = r
    /\ <<r, "taken">> \in answers => command[r.key].request # r

\* A command is accepted as a whole or not at all: it owns the records of all its
\* entities, owns no other, and its first revision is announced
\* (command_store.accept; the unique index of idempotency_key).
WhollyAccepted ==
  /\ \A k \in Keys :
       {x \in Records : owner[x] = k} =
         IF command[k].request = NoRequest THEN {} ELSE RecordsOf(command[k].request)
  /\ announced = {k \in Keys : command[k].request # NoRequest}

\* What was accepted is built from exactly the baseline versions the request
\* referred to, and in the currencies it named, whatever Finance recorded while
\* it was handled: "ERP re-resolves each against its own store and never
\* substitutes whatever it holds now" (request_provisioning, _ExactBaselines).
BuiltFromReferences ==
  \A k \in Keys : command[k].request # NoRequest =>
    /\ command[k].built = command[k].request.refs
    /\ CurrenciesAgree(command[k].request, command[k].built)

\* What is about to be provisioned from was in force: no version that had been
\* withdrawn when the request was looked at, or that is not in force yet, gets
\* past the check (finance_baseline_store.status, effective).
AcceptedWasUsable ==
  \A s \in Servers : At(s, "accept") =>
    \A e \in EntitiesOf(server[s].request) :
      /\ <<e, server[s].exact[e]>> \notin server[s].gone
      /\ baseline[e][server[s].exact[e]] <= Today
=============================================================================
