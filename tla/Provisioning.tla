---------------------------- MODULE Provisioning ----------------------------
(***************************************************************************)
(* Execution of one accepted provisioning command: the workers that claim  *)
(* the operations of its legal entities, drive each through its plan       *)
(* against the engine, and project every change of an operation's status   *)
(* onto the command (modules/provisioning, application/provisioning_worker *)
(* .py).  Commands share nothing but the workers, so one is enough.        *)
(*                                                                         *)
(* An action is what lies between two commits or two engine calls.  The    *)
(* engine is not in the transaction: what a call did stays done when the   *)
(* worker dies, and a call whose answer was lost may still land later.     *)
(*                                                                         *)
(* Native ids are abstracted to the order in which the engine made the     *)
(* records of one step: the n-th record that carries a step's marker has   *)
(* the id n.  Definitions marked "Variant" are plausible mistakes that no  *)
(* specification uses.                                                     *)
(***************************************************************************)
EXTENDS Naturals, Sequences, FiniteSets

CONSTANTS
  Operations,    \* the operations of the command, one per legal entity
  Workers,       \* provisioning worker processes
  NoWorker,      \* the command's row is not locked
  NoOperation,   \* a worker that has claimed none
  Plan,          \* the kinds of the steps of an operation, in plan order
  Remapped,      \* operations whose entity may already be mapped (a replan)
  Untimed,       \* operations whose request declares no time zones
  MaxAttempts,   \* execution.MAX_ATTEMPTS
  AttemptBound,  \* bound: passes of one operation in all
  CrashBound,    \* bound: a pass numbered higher than this does not crash
  LateBound      \* bound: engine calls whose answer is lost

ASSUME ProvisioningAssumption ==
  /\ NoWorker \notin Workers
  /\ NoOperation \notin Operations
  /\ Operations # {}
  /\ Plan \in Seq({"client", "accounting", "localisation", "warehouse", "mapping"})
  /\ Len(Plan) > 1
  /\ \A i \in DOMAIN Plan :
       (Plan[i] = "client" <=> i = 1) /\ (Plan[i] = "mapping" <=> i = Len(Plan))
  /\ Remapped \subseteq Operations /\ Untimed \subseteq Operations
  /\ MaxAttempts \in Nat \ {0} /\ AttemptBound \in Nat
  /\ CrashBound \in Nat /\ LateBound \in Nat

VARIABLES
  operation,    \* erp_provisioning_operation: status and attempts
  aged,         \* operations older than BLOCKED_HORIZON
  done,         \* erp_provisioning_step: the completed steps
  native,       \* erp_provisioning_native_mapping: the id recorded for a step
  primary,      \* the same table's AD_Client:primary alias
  mapping,      \* tenant_mapping: the active AD_Client of the legal entity
  warehouse,    \* erp_warehouse: the bound native id, and its announcements
  command,      \* erp_provisioning_command: state and revision
  announced,    \* the provisioning.changed events in the outbox
  commandLock,  \* the transaction that holds the command's row
  engine,       \* how often the engine did the work of a step
  inFlight,     \* calls whose answer was lost and that may still land
  landed,       \* such calls that landed
  worker        \* what a worker process holds in memory

tables == <<operation, aged, done, native, primary, mapping, warehouse>>
projection == <<command, announced, commandLock>>
outside == <<engine, inFlight, landed>>
vars == <<tables, projection, outside, worker>>

Open == {"planned", "applying", "reconciling"}
Statuses == Open \cup {"ready", "failed"}
Steps == DOMAIN Plan
Created(kind) == kind \in {"client", "warehouse"}
Configured(kind) == kind \in {"accounting", "localisation"}
Warehouses == {i \in Steps : Plan[i] = "warehouse"}
Foreign == 9    \* the AD_Client of an earlier provisioning of the same entity

\* A row of erp_provisioning_operation.
Progress(status, attempts) == [status |-> status, attempts |-> attempts]

\* What a worker holds: where it is in which operation, the status that was loaded,
\* the native id a call returned, the status or outcome to record, and the state
\* of the command derived from it.
Pass(place, o, loaded, found, target, derived) ==
  [at |-> place, op |-> o, loaded |-> loaded, found |-> found, target |-> target,
   derived |-> derived]

Idle == Pass("idle", NoOperation, "", 0, "", "")

-----------------------------------------------------------------------------
(* The state of the command, and the budgets of an operation. *)

\* The contract-level state of a command whose operations have these statuses.
Derive(statuses) ==
  IF "failed" \in statuses THEN "failed"
  ELSE IF statuses = {"ready"} THEN "active"
  ELSE IF "applying" \in statuses THEN "provisioning"
  ELSE IF statuses = {"planned"} THEN "accepted"
  ELSE IF statuses \subseteq {"ready", "reconciling"} THEN "reconciling"
  ELSE "provisioning"

\* A retry past MAX_ATTEMPTS and a block past its horizon become failures.
Budgeted(o, outcome) ==
  IF \/ outcome = "retry" /\ operation[o].attempts >= MaxAttempts
     \/ outcome = "blocked" /\ o \in aged
  THEN "failed" ELSE outcome

-----------------------------------------------------------------------------
(* Claiming and resolving. *)

At(w, place) == worker[w].at = place

Carry(w, place, found, target, derived) ==
  worker' = [worker EXCEPT ![w] =
               Pass(place, worker[w].op, worker[w].loaded, found, target, derived)]

Goto(w, place) == Carry(w, place, worker[w].found, worker[w].target, worker[w].derived)

\* The pass is over; how it ended is recorded next.
End(w, outcome) == Carry(w, "settle", worker[w].found, outcome, worker[w].derived)

\* set_status: the operation's new status is written but not yet committed.
SetStatus(w, status) == Carry(w, "written", worker[w].found, status, worker[w].derived)

\* Variant: begin trusts what due has listed earlier.
NeedsWorkListed(o) == TRUE

\* The guard of begin, which repeats that of due under the lock.
NeedsWork(o) == operation[o].status \in Open /\ command.state # "failed"

\* try_lock, then begin: the pass is counted and the operation loaded.  The
\* claim is a session advisory lock, here: no other worker holds the operation.
Begin(w, o) ==
  /\ At(w, "idle")
  /\ \A v \in Workers : worker[v].op # o
  /\ NeedsWork(o)
  /\ operation[o].attempts < AttemptBound
  /\ operation' = [operation EXCEPT ![o] =
                     Progress(operation[o].status, operation[o].attempts + 1)]
  /\ worker' = [worker EXCEPT ![w] = Pass("resolve", o, operation[o].status, 0, "", "")]
  /\ UNCHANGED <<aged, done, native, primary, mapping, warehouse, projection, outside>>

\* No engine session or no process id: nothing is touched.
Unconfigured(w) ==
  /\ At(w, "resolve")
  /\ End(w, "blocked")
  /\ UNCHANGED <<tables, projection, outside>>

\* verified_request: the stored state or plan is not what this release would
\* accept and plan, so nothing is provisioned from it.
Drifted(w) ==
  /\ At(w, "resolve")
  /\ End(w, "failed")
  /\ UNCHANGED <<tables, projection, outside>>

Pending(o) == Steps \ done[o]

\* The first status of a pass depends on the status it was loaded with.
Resolve(w) ==
  LET o == worker[w].op
  IN  /\ At(w, "resolve")
      /\ IF Pending(o) # {} /\ worker[w].loaded # "applying"
         THEN SetStatus(w, "applying") ELSE Goto(w, "apply")
      /\ UNCHANGED <<tables, projection, outside>>

-----------------------------------------------------------------------------
(* A status and its projection commit together. *)

\* The state derived from the statuses w sees: its own uncommitted one, and those
\* that are committed.
Derived(w) ==
  Derive({IF p = worker[w].op THEN worker[w].target ELSE operation[p].status : p \in Operations})

\* Variant: the command's row is read without FOR UPDATE.
ProjectUnlocked(w) ==
  /\ At(w, "written")
  /\ Carry(w, "projected", worker[w].found, worker[w].target, Derived(w))
  /\ UNCHANGED <<tables, projection, outside>>

\* project: the command's row is locked, then the statuses are read.
Project(w) ==
  /\ At(w, "written")
  /\ commandLock = NoWorker
  /\ commandLock' = w
  /\ Carry(w, "projected", worker[w].found, worker[w].target, Derived(w))
  /\ UNCHANGED <<tables, command, announced, outside>>

\* advance: a changed state is the next revision, and is announced.
Advance(state) ==
  IF state = command.state THEN UNCHANGED <<command, announced>>
  ELSE /\ command' = [state |-> state, revision |-> command.revision + 1]
       /\ announced' = Append(announced, state)

\* Where the worker goes on once a status is committed.
After(status) ==
  IF status = "applying" THEN "apply"
  ELSE IF status = "reconciling" THEN "check"
  ELSE IF status = "ready" THEN "settle" ELSE "release"

\* The commit of set_status.
Commit(w) ==
  LET o == worker[w].op
      status == worker[w].target
  IN  /\ At(w, "projected")
      /\ operation' = [operation EXCEPT ![o] = Progress(status, operation[o].attempts)]
      /\ Advance(worker[w].derived)
      /\ commandLock' = NoWorker
      /\ Carry(w, After(status), worker[w].found, IF status = "ready" THEN "ready" ELSE "", "")
      /\ UNCHANGED <<aged, done, native, primary, mapping, warehouse, outside>>

-----------------------------------------------------------------------------
(* One step of the plan. *)

\* The pass is at the first pending step i of its operation.
AtStep(w, i) ==
  LET o == worker[w].op
  IN  At(w, "apply") /\ i \in Pending(o) /\ \A j \in Pending(o) : i <= j

Worked(o, i) ==
  engine' = [engine EXCEPT ![o][i] = IF engine[o][i] < 2 THEN engine[o][i] + 1 ELSE engine[o][i]]

Found(w, id) == Carry(w, "found", id, worker[w].target, worker[w].derived)

\* Variant: the alias is put only when the record is new.
ReuseUnaliased(w, i) ==
  LET o == worker[w].op
  IN  /\ AtStep(w, i) /\ Created(Plan[i])
      /\ native[o][i] # 0
      /\ Goto(w, "mark")
      /\ UNCHANGED <<tables, projection, outside>>

\* _create_once: an id recorded earlier is confirmed with the engine.
Reuse(w, i) ==
  LET o == worker[w].op
  IN  /\ AtStep(w, i) /\ Created(Plan[i])
      /\ native[o][i] # 0
      /\ Goto(w, IF Plan[i] = "client" THEN "alias" ELSE "mark")
      /\ UNCHANGED <<tables, projection, outside>>

\* The one record that carries the step's marker was made by an earlier pass.
Adopt(w, i) ==
  LET o == worker[w].op
  IN  /\ AtStep(w, i) /\ Created(Plan[i])
      /\ native[o][i] = 0 /\ engine[o][i] = 1
      /\ Found(w, 1)
      /\ UNCHANGED <<tables, projection, outside>>

\* Several records carry the marker: an operator decides.
Duplicates(w, i) ==
  LET o == worker[w].op
  IN  /\ AtStep(w, i) /\ Created(Plan[i])
      /\ native[o][i] = 0 /\ engine[o][i] > 1
      /\ End(w, "failed")
      /\ UNCHANGED <<tables, projection, outside>>

\* Variant: no search for the marker.
CreateUnasked(w, i) ==
  LET o == worker[w].op
  IN  /\ AtStep(w, i) /\ Created(Plan[i])
      /\ native[o][i] = 0
      /\ Worked(o, i)
      /\ Found(w, IF engine[o][i] = 0 THEN 1 ELSE 2)
      /\ UNCHANGED <<tables, projection, inFlight, landed>>

\* No record carries the marker: one is created.
Create(w, i) ==
  LET o == worker[w].op
  IN  /\ AtStep(w, i) /\ Created(Plan[i])
      /\ native[o][i] = 0 /\ engine[o][i] = 0
      /\ Worked(o, i)
      /\ Found(w, 1)
      /\ UNCHANGED <<tables, projection, inFlight, landed>>

\* Accounting or localisation: the process runs, whatever is recorded.
Execute(w, i) ==
  LET o == worker[w].op
  IN  /\ AtStep(w, i) /\ Configured(Plan[i])
      /\ Worked(o, i)
      /\ Found(w, 1)
      /\ UNCHANGED <<tables, projection, inFlight, landed>>

\* The engine refuses, is unavailable or does not know the session.
EngineFails(w, i) ==
  /\ AtStep(w, i) /\ Plan[i] # "mapping"
  /\ \E outcome \in {"retry", "blocked", "failed"} : End(w, outcome)
  /\ UNCHANGED <<tables, projection, outside>>

\* The call that creates or configures is sent and its answer lost.
CallLost(w, i) ==
  LET o == worker[w].op
  IN  /\ AtStep(w, i) /\ Plan[i] # "mapping"
      /\ Created(Plan[i]) => native[o][i] = 0 /\ engine[o][i] = 0
      /\ Cardinality(inFlight \cup landed) < LateBound
      /\ inFlight' = inFlight \cup {<<o, i>>}
      /\ End(w, "retry")
      /\ UNCHANGED <<tables, projection, engine, landed>>

\* put_native_id commits by itself.
RecordId(w, i) ==
  LET o == worker[w].op
  IN  /\ At(w, "found") /\ i \in Pending(o) /\ \A j \in Pending(o) : i <= j
      /\ native' = [native EXCEPT ![o][i] = worker[w].found]
      /\ Goto(w, IF Plan[i] = "client" THEN "alias" ELSE "mark")
      /\ UNCHANGED <<operation, aged, done, primary, mapping, warehouse, projection, outside>>

\* The alias under which the mapping step finds the AD_Client.
PutAlias(w) ==
  LET o == worker[w].op
  IN  /\ At(w, "alias")
      /\ primary' = [primary EXCEPT ![o] = native[o][1]]
      /\ Goto(w, "mark")
      /\ UNCHANGED <<operation, aged, done, native, mapping, warehouse, projection, outside>>

\* mark_step: the step is recorded as completed.
MarkStep(w, i) ==
  LET o == worker[w].op
  IN  /\ At(w, "mark") /\ i \in Pending(o) /\ \A j \in Pending(o) : i <= j
      /\ done' = [done EXCEPT ![o] = done[o] \cup {i}]
      /\ Goto(w, "apply")
      /\ UNCHANGED <<operation, aged, native, primary, mapping, warehouse, projection, outside>>

\* Variant: the tenant mapping commits with the marker, before the step is done.
MarkMappingEager(w, i) ==
  LET o == worker[w].op
  IN  /\ AtStep(w, i) /\ Plan[i] = "mapping"
      /\ native' = [native EXCEPT ![o][i] = 1]
      /\ mapping' = [mapping EXCEPT ![o] = IF mapping[o] = 0 THEN primary[o] ELSE mapping[o]]
      /\ Goto(w, "confirm")
      /\ UNCHANGED <<operation, aged, done, primary, warehouse, projection, outside>>

\* The mapping step first commits its own marker.
MarkMapping(w, i) ==
  LET o == worker[w].op
  IN  /\ AtStep(w, i) /\ Plan[i] = "mapping"
      /\ native' = [native EXCEPT ![o][i] = 1]
      /\ Goto(w, "confirm")
      /\ UNCHANGED <<operation, aged, done, primary, mapping, warehouse, projection, outside>>

\* Then the tenant mapping, new or confirmed, commits with the completed step.
ConfirmMapping(w) ==
  LET o == worker[w].op
  IN  /\ At(w, "confirm")
      /\ mapping[o] \in {0, primary[o]}
      /\ mapping' = [mapping EXCEPT ![o] = primary[o]]
      /\ done' = [done EXCEPT ![o] = done[o] \cup {Len(Plan)}]
      /\ Goto(w, "apply")
      /\ UNCHANGED <<operation, aged, native, primary, warehouse, projection, outside>>

\* The entity is mapped to another AD_Client already.
MappingConflict(w) ==
  LET o == worker[w].op
  IN  /\ At(w, "confirm")
      /\ mapping[o] \notin {0, primary[o]}
      /\ End(w, "failed")
      /\ UNCHANGED <<tables, projection, outside>>

-----------------------------------------------------------------------------
(* Registration, readiness and the end of a pass. *)

\* Variant: each registration is announced.
IdentityAnnounced(o, i) ==
  [id |-> native[o][i], announced |-> IF warehouse[o][i].announced < 2
                                      THEN warehouse[o][i].announced + 1 ELSE 2]

\* warehouse_changed_event: a warehouse without a time zone is not announced.
Announcements(o, sofar) == IF o \in Untimed THEN sofar ELSE sofar + 1

\* PostgresWarehouseIdentityStore.record: minted and announced the first time,
\* confirmed and silent after that.
Identity(o, i) ==
  LET known == warehouse[o][i]
  IN  [id |-> native[o][i],
       announced |-> IF known.id = 0 THEN Announcements(o, known.announced) ELSE known.announced]

Register(w) ==
  LET o == worker[w].op
  IN  /\ At(w, "apply") /\ Pending(o) = {}
      /\ warehouse' = [warehouse EXCEPT ![o] = [i \in Warehouses |-> Identity(o, i)]]
      /\ IF worker[w].loaded = "reconciling"
         THEN Goto(w, "check") ELSE SetStatus(w, "reconciling")
      /\ UNCHANGED <<operation, aged, done, native, primary, mapping, projection, outside>>

\* Everything that was recorded is there.
CheckPasses(w) ==
  LET o == worker[w].op
  IN  /\ At(w, "check")
      /\ \A i \in Steps : native[o][i] # 0
      /\ SetStatus(w, "ready")
      /\ UNCHANGED <<tables, projection, outside>>

\* Some record could not be read or is not active.
NotReady(w) ==
  /\ At(w, "check")
  /\ End(w, "retry")
  /\ UNCHANGED <<tables, projection, outside>>

\* Variant: a refund gives two attempts back.
RefundedTwice(attempts, outcome) == IF outcome = "blocked" THEN attempts - 2 ELSE attempts

\* A blocked pass gives its attempt back.
Refunded(attempts, outcome) == IF outcome = "blocked" THEN attempts - 1 ELSE attempts

\* settle: a failure is a status of its own, the rest is a later pass or none.
Settle(w) ==
  LET o == worker[w].op
      outcome == Budgeted(o, worker[w].target)
  IN  /\ At(w, "settle")
      /\ IF outcome = "failed"
         THEN SetStatus(w, "failed") /\ UNCHANGED operation
         ELSE /\ worker' = [worker EXCEPT ![w] = Idle]
              /\ operation' = [operation EXCEPT ![o] =
                   Progress(operation[o].status, Refunded(operation[o].attempts, outcome))]
      /\ UNCHANGED <<aged, done, native, primary, mapping, warehouse, projection, outside>>

\* The failure is recorded; the lock is released.
Release(w) ==
  /\ At(w, "release")
  /\ worker' = [worker EXCEPT ![w] = Idle]
  /\ UNCHANGED <<tables, projection, outside>>

\* A worker dies: its lock and its open transaction go with its connection.
Crash(w) ==
  /\ ~At(w, "idle")
  /\ operation[worker[w].op].attempts <= CrashBound
  /\ worker' = [worker EXCEPT ![w] = Idle]
  /\ commandLock' = IF commandLock = w THEN NoWorker ELSE commandLock
  /\ UNCHANGED <<tables, command, announced, outside>>

\* A call whose answer was lost reaches the engine after all.
Land(o, i) ==
  /\ <<o, i>> \in inFlight
  /\ inFlight' = inFlight \ {<<o, i>>}
  /\ landed' = landed \cup {<<o, i>>}
  /\ Worked(o, i)
  /\ UNCHANGED <<tables, projection, worker>>

\* 72 hours have passed since the operation was accepted.
Horizon(o) ==
  /\ o \notin aged
  /\ aged' = aged \cup {o}
  /\ UNCHANGED <<operation, done, native, primary, mapping, warehouse, projection, outside, worker>>

-----------------------------------------------------------------------------
\* The command has just been accepted; an entity of Remapped may have been
\* provisioned under an earlier plan.
Init ==
  /\ operation = [o \in Operations |-> Progress("planned", 0)]
  /\ aged = {}
  /\ done = [o \in Operations |-> {}]
  /\ native = [o \in Operations |-> [i \in Steps |-> 0]]
  /\ primary = [o \in Operations |-> 0]
  /\ mapping \in {m \in [Operations -> {0, Foreign}] : \A o \in Operations \ Remapped : m[o] = 0}
  /\ warehouse = [o \in Operations |-> [i \in Warehouses |-> [id |-> 0, announced |-> 0]]]
  /\ command = [state |-> "accepted", revision |-> 1]
  /\ announced = <<"accepted">>
  /\ commandLock = NoWorker
  /\ engine = [o \in Operations |-> [i \in Steps |-> 0]]
  /\ inFlight = {} /\ landed = {}
  /\ worker = [w \in Workers |-> Idle]

Step(w, i) ==
  \/ Reuse(w, i) \/ Adopt(w, i) \/ Duplicates(w, i) \/ Create(w, i)
  \/ Execute(w, i) \/ RecordId(w, i) \/ MarkStep(w, i) \/ MarkMapping(w, i)

\* What a worker does that is not a failure of the engine or its own death.
Works(w) ==
  \/ Resolve(w) \/ Project(w) \/ Commit(w)
  \/ \E i \in Steps : Step(w, i)
  \/ PutAlias(w) \/ ConfirmMapping(w) \/ MappingConflict(w)
  \/ Register(w) \/ CheckPasses(w) \/ NotReady(w) \/ Settle(w) \/ Release(w)

Begins(w) == \E o \in Operations : Begin(w, o)

Fails(w) ==
  \/ Drifted(w) \/ Unconfigured(w)
  \/ \E i \in Steps : EngineFails(w, i) \/ CallLost(w, i)

Next ==
  \/ \E w \in Workers : Begins(w) \/ Works(w) \/ Fails(w) \/ Crash(w)
  \/ \E o \in Operations, i \in Steps : Land(o, i)
  \/ \E o \in Operations : Horizon(o)

Spec == Init /\ [][Next]_vars
-----------------------------------------------------------------------------
(* Properties. *)

Places == {"idle", "resolve", "written", "projected", "apply", "found", "alias", "mark",
           "confirm", "check", "settle", "release"}
Ids == {0, 1, 2}
States == {"accepted", "provisioning", "reconciling", "active", "failed"}
Targets == Statuses \cup {"", "retry", "blocked"}
PassType ==
  [at : Places, op : Operations \cup {NoOperation}, loaded : Statuses \cup {""}, found : Ids,
   target : Targets, derived : States \cup {""}]

\* Every table, every worker and the outbox hold what their columns allow; the
\* attempts of an operation stay within the budget plus the passes that crashed.
TypeOK ==
  /\ operation \in [Operations -> [status : Statuses, attempts : 0..AttemptBound]]
  /\ aged \subseteq Operations
  /\ done \in [Operations -> SUBSET Steps]
  /\ native \in [Operations -> [Steps -> Ids]]
  /\ primary \in [Operations -> Ids]
  /\ mapping \in [Operations -> Ids \cup {Foreign}]
  /\ warehouse \in [Operations -> [Warehouses -> [id : Ids, announced : 0..2]]]
  /\ command \in [state : States, revision : 1..4]
  /\ announced \in Seq(States)
  /\ commandLock \in Workers \cup {NoWorker}
  /\ engine \in [Operations -> [Steps -> Ids]]
  /\ inFlight \cup landed \subseteq Operations \X Steps
  /\ worker \in [Workers -> PassType]

\* The state of a command can never disagree with the statuses of its
\* operations, however their workers interleave (command_state, command_store.
\* project).
CommandFollowsStatuses ==
  command.state = Derive({operation[o].status : o \in Operations})

\* An operation is ready only if the engine did the work of each step at least
\* once, each step is recorded, the tenant resolves to the very AD_Client that
\* was recorded, and each warehouse identity is bound to the recorded record
\* (execution._run, idempiere_adapter, ConfirmingTenantMappings).
ReadyMeansProvisioned ==
  \A o \in Operations : operation[o].status = "ready" =>
    /\ done[o] = Steps
    /\ \A i \in Steps : Plan[i] # "mapping" => engine[o][i] > 0
    /\ mapping[o] = native[o][1] /\ mapping[o] # 0
    /\ \A i \in Warehouses : warehouse[o][i].id = native[o][i] /\ native[o][i] # 0

\* The context of an entity resolves to a new AD_Client only once every step
\* before the mapping is done, in this pass or in one that died (planner.
\* build_plan, idempiere_adapter._persist_mapping).
ResolvableMeansConfigured ==
  \A o \in Operations : mapping[o] \in {1, 2} => Steps \ done[o] = {}

\* A pass never repeats a native record that an earlier one created: whatever
\* crash or failure lies between, a second record carries a step's marker only
\* if a call whose answer was lost landed late (idempiere_adapter._create_once).
OnlyLateCallsDuplicate ==
  \A o \in Operations, i \in Steps :
    Created(Plan[i]) /\ engine[o][i] > 1 => <<o, i>> \in landed

\* A warehouse becomes publishable once: its identity is announced when it is
\* minted, if it has a time zone, and no later pass announces it again
\* (warehouse_identity_store, warehouse_events).
WarehouseAnnouncedOnce ==
  \A o \in Operations, i \in Warehouses :
    warehouse[o][i].announced = IF warehouse[o][i].id = 0 \/ o \in Untimed THEN 0 ELSE 1

Lifecycle == INSTANCE ProvisioningLifecycle WITH state <- command.state

\* The command moves forward only, ends active or failed, and each of its states
\* is one revision, announced once and in order (command_store.advance).
ImplementsLifecycle == Lifecycle!Spec
=============================================================================
