# Verification of the Baobab ERP service

TLA+ models of the Baobab ERP service (`src/modules`, Python, PostgreSQL), the
TLC instances that check them, and TLAPS proofs of every safety property the
passing runs check, for every value of the constants. The service
stands between Baobab Trade, the Control Plane and the iDempiere engine: it
takes Trade events into a durable inbox, executes them in the engine, keeps the
links and read models that result, announces its own changes through a
transactional outbox, and provisions engine tenants on command.

What makes it hard is that three things fail separately: worker processes
(killed at any point, or slower than their lease), PostgreSQL transactions
(rolled back, or refused at commit) and the engine (no transaction in common
with PostgreSQL, answers that get lost). The code's answer is always the same
trio: a *claim with a lease and a fence*, a *session advisory lock per business
key*, and *adoption* of what an earlier attempt left in the engine. The models
are about whether that trio does what it is meant to do.

## 1. The system's parts

The state is PostgreSQL's unless said otherwise. "Hard" is what tests hardly
reach; "correct" what the properties of the part must say.

| Part (code) | State | Operations | Interacts with | Hard | Correct when |
|---|---|---|---|---|---|
| **Inbox** (`inbox/service.py`, `postgres_store.py`, `postgres_queue.py`, `execution_support.py`) | `event_inbox`: status, claimed_by, lease, attempts, next_attempt_at, outcome; the worker's `Claim` in memory | `receive`, `claim`, `processed`, `release`, `settle`; the operator's UPDATE | ingress HTTP; both executors | leases that expire under a live worker; duplicate delivery; budgets | one outcome per row, only from its holder; settled rows stay settled; every row settles |
| **Order execution** (`order_to_cash/inbox_execution.py`, `execution_policy.py`, `placed_order.py`) | `order_consequence`, `order_execution`, advisory lock per order, the engine's `C_Order` | `_execute`: parse, place, lock, check, resolve, find or create, commit | inbox, engine, governance, outbox | crash or lost answer after the engine's commit; two events of one order | one engine order per Trade order; link, consequence, announcement and inbox outcome agree |
| **Outbox and dispatch** (`outbox/*`, `application/dispatch_worker.py`, `integration/signed_delivery.py`, `delivery_transport.py`) | `event_outbox`: status, attempts, next_attempt_at | `record_event`, `pending`, `dispatch_pending`, `mark_*` | every business transaction; Control Plane ingress; webhook | crash between delivery and mark; overlapping runs; two retry policies | nothing lost, nothing marked delivered that was not, nothing given up early |
| **Customer projection** (`customers/projection_execution.py`) | `erp_master_data_mapping`, `document_outcome`, lock per customer, the engine's `C_BPartner` | `_execute`: compare version and digest, update, adopt or create, map, announce | inbox, engine, outbox; order execution resolves customers through its mapping | versions out of order; crash after the engine took a version | one partner per customer; mapping only moves forward and never claims what the engine lacks |
| **Order-to-cash commands** (`order_to_cash/service.py`, `governed_service.py`) | `mapping`, engine documents | create and complete order, shipment, invoice, payment, allocation | HTTP, engine, governance, consequence store | engine write before the mapping insert; what the engine has done no rollback takes back | a document keeps its engine record, and nobody works on a record without a mapping; outcomes are what the engine reports, facts what it was made to run |
| **Consequence and document outcomes** (`consequence.py`, `consequence_store.py`, `outcome_store.py`, `accounting_outcomes.py`) | `order_consequence` facts and revision, `document_outcome` | open, record facts, advance | orders, customers, outbox | late and repeated reports | revisions strictly grow, statuses never fall back, each change announced once |
| **Governance gates** (`legal_actor_gate.py`, `documentary_restriction.py`, `native_action_gate.py`, `integration/native_finance_guard.py`) | one-shot permits in memory, decisions of a remote authority | evaluate, perform a governed native action, consume a permit | every financial command and order execution | a decision that is stale when the engine is called; retry after 401 with a used permit | no financial request without a live decision; a permit serves one request |
| **Provisioning** (`application/provisioning_*`, `provisioning/command_*.py`, `execution*.py`, `idempiere_adapter.py`, `planner.py`) | command, operations, steps, tenant mapping, session lock per operation, engine tenants | accept a command, plan, claim, run and adopt steps, check, retry, project the state | Control Plane, engine, outbox | resume after any step; several workers projecting one command | steps applied once in order; terminal states final; READY only when reconciled |
| **Finance baseline, warehouses** (`provisioning/finance_baseline*.py`, `warehouse*.py`) | baseline versions, public warehouse identities | record, withdraw, what is in force; register a warehouse | provisioning | a baseline that changes while a request is handled; re-registration | a request is built from the versions it names; a warehouse is announced once |
| **Mapping** (`mapping/*`) | `mapping` rows with unique keys | insert, resolve | order-to-cash | unique key decides races | canonical and native id one to one |
| **Engine client** (`integration/idempiere_client.py`) | token in memory | query, create, update, process | the engine | time-outs, 401 retries, partial reads | a failure says nothing about what the engine did |
| **Validation and configuration** (`provisioning/validation.py`, `config.py`, `market_configuration.py`, ...) | none | pure checks | provisioning | none over time | rejects what the contract rejects |
| **HTTP, security, context, reads** (`application/server.py`, `security/*`, `context/*`, `inventory/*`, `integration/trade_projection*`) | none of their own | routing, signature checks, projections | all | none over time | - |
| **Engine extensions** (`idempiere/extensions`, `db/native-migrations`; Java, SQL) | native command attribution, commit fence | triggers and plug-ins inside the engine | governance, order-to-cash | fence at the engine's commit | no financial document without attribution |

## 2. The modules

| Module | What it is |
|---|---|
| `InboxQueue` | the inbox as a work queue: receipt, claims, fenced settling, budgets |
| `InboxExecution` | EXTENDS `InboxQueue`: what the executors share - workers, the lock per business key, the lookup before a create, settling, crashes |
| `OrderExecution` | EXTENDS `InboxExecution`: workers executing `trade.order.placed` rows, the engine, the business records |
| `OrderAcceptance` | the abstract promise `OrderExecution` implements: an order is placed once, then accepted once, for good |
| `OrderExecutionFaults` | EXTENDS `OrderExecution`: engine requests that outlive their client |
| `InboxExecution_proofs` | EXTENDS `InboxExecution`: lemmas on the actions the executors share; no theorem of its own |
| `OrderExecution_proofs` | the inductive invariant of `OrderExecution` and the theorems that follow from it |
| `CustomerProjection` | EXTENDS `InboxExecution`: workers executing `trade.customer.projected` rows, the business partners, the mapping |
| `PartnerRegister` | the abstract promise `CustomerProjection` implements: a register per customer that only moves to later versions |
| `CustomerProjection_proofs` | EXTENDS `InboxExecution_proofs` too: the same for `CustomerProjection` |
| `Outbox` | the outbox table, both destinations with their policies, one or several dispatch processes |
| `Outbox_proofs` | its safety, for any number of processes at once; that final states are final if there is one |
| `ProvisioningRequest` | no state: the deployment configuration, Control Plane's assignments and what can be provisioned from both |
| `ProvisioningIntake` | EXTENDS `ProvisioningRequest`: `POST /provisioning-operations` on several servers, Finance's baselines, Control Plane's plan |
| `ProvisioningIntake_proofs` | its safety, and that an accepted command stays as it was accepted |
| `Provisioning` | the workers that drive the operations of one accepted command through the engine |
| `ProvisioningLifecycle` | the abstract promise `Provisioning` implements: a command's announced states only move forward to an end |
| `Provisioning_proofs` | the safety of `Provisioning` and that it implements the life cycle |
| `GovernanceGate` | what stands before a native financial operation: the checks, the mandate compared twice, the one-shot permit |
| `OrderToCash` | EXTENDS `GovernanceGate`: the sell-side commands, the engine's documents, consequence, outcomes and their events |
| `OrderToCash_proofs` | what the governance gate promises and what the records of `OrderToCash` say, proved |
| `MC...` | the instance of each that TLC checks |

### InboxQueue, InboxExecution and OrderExecution

`row[e]` is the inbox row of event `e` (absent before receipt), `claim[w]` the
`Claim` object worker `w` holds in memory. The two disagree once the lease of
`w` has run out and another worker has taken the row: this is what the fence of
`_settle` (`Holds`) is for, and the model lets it happen to any live worker at
any step.

A worker's `pc` follows `_execute` and `settle`. One action is one database
transaction, one lock call or one engine request, the points at which another
process can come in between:

| `pc` | Code | Actions in `InboxExecution` | in `OrderExecution` |
|---|---|---|---|
| `idle` | `run_once`, `PostgresInboxQueue.claim` | `BeginDue`, `BeginExpired` | |
| `prepare` | parse, placement, `AdvisoryLock` | `RefusePayload`, `BlockUnplaced`, `TakeLock`, `Contend` | |
| `check` | what ERP knows of the key already | | `RecogniseKnown`, `BlockUnmapped`, `ResolveOrder` |
| `find` | query by reference | `FindFails`, `FindNone` | `Adopt` |
| `create` | reads before it, `create_record` | `CreateFails` | `Create`, `CreateUnanswered` |
| `update` | `update_record` (customers only) | | |
| `commit` | the one transaction | | `CommitRecords`, `CommitRefused` |
| `unlock` | `AdvisoryLock.__exit__` | `Unlock` | |
| `settle` | `settle`, `failure_outcome`, `release` or `processed` | `Settle`, `SettleRaises` | |
| any but `idle` | the process dies, or exits on a refused statement | `Crash` | |

`native[k]` are the engine records that carry the reference of key `k` (an
order's `POReference`, the marker in a partner's `Description`), `found[w]` the
record an attempt works on and the code it will settle with.

What the environment decides is a choice where the code meets it: `FindFails`
may end as a governance block, an engine refusal or a transient failure,
because the code may see any of these there. Codes the code treats alike share
one name (`PRECONDITION`, `REFUSED`, `TRANSIENT`; the comments list their
members). Payloads are reduced to what decides the control flow: the order, its
version, whether the payload parses.

Time is not a number. `BeginDue` may happen at any moment after a row is put
back and `BeginExpired` at any moment during an attempt; the 72 hour horizon of
blocked rows is the set `aged`. `received_at` is kept by the operator's
statement, so `aged` is too.

### CustomerProjection

A customer event is executed on the same machinery with other steps between
lock and unlock. At `check` the mapping decides: `RecogniseKnown` for a version
it has reached, `ResolveMapped` (the partner is updated in place) or
`ResolveUnmapped` (it is looked for by its marker). `Adopt` leads to `update`
too, because an adopted partner is brought to the event's version. `bears[n]`
is the event whose fields the engine's partner `n` bears: `Update`,
`UpdateUnanswered`, `Create` and `CreateUnanswered` set it before ERP commits
anything, so partner, mapping and inbox can disagree at every step. The mapping
is written with an upsert that looks at nothing; the announcement
(`document_outcome`) counts a revision per change.

A customer's content is its display name and status, and the digest stands for
it; a mapping the bootstrapper left with a version that is not a number is not
modelled.

### Outbox

`batch`, `seen`, `target` and `result` are the local state of one run of
`dispatch_pending`: the batch it has read with the attempt counts it saw, the
destination, and the delivery under way. `Read` is the SELECT of `pending` (no
lock is kept), `Deliver` one HTTP exchange, `Mark...` one committed UPDATE.
A delivery the destination took may fail for the worker (`Unanswered`), and a
mark may be refused inside the `try` block (`MarkRaises`) or outside it (then
the process exits: `Crash`). `drained` gives the order of destinations in one
process, signed before webhook.

### ProvisioningRequest and ProvisioningIntake

A request is handled in one READ COMMITTED transaction. Each action of
`ProvisioningIntake` is one read, one lock or the commit: `Arrive` (the context
admits it), `Enter` (`lock_scope`, then `find`), `ReadPlan`, `ResolveBaselines`,
`CheckStanding` per entity in the order of their identifiers, `Build`, then
`Accept` or, if a unique index objects, `RollBack`. Between any two of them
Finance may `Record` or `Withdraw` a baseline and Control Plane may `Replan`;
`server[s]` is what the transaction has read so far, and nothing but the
idempotency scope is locked. `Refuse`, `RejectContext` and `ContextUnavailable`
leave everything as it was: a refused request must not be noticed later.

Which requests can be built at all is decided in `ProvisioningRequest`, which
follows the factory from assignment and deployment configuration to
`require_valid_request`: an entry with a `REQUIRED_` placeholder is not
configured, a malformed one fails the start (an assumption on the constants),
and nothing missing is defaulted. `Build` uses it as one operator.

### Provisioning

`operation[o]` is the row of one legal entity's operation, `done`, `native`,
`primary`, `mapping` and `warehouse` the tables its steps write, `engine[o][i]`
how often the engine did the work of step `i`. The worker's session lock is the
guard of `Begin` (no other worker holds the operation), so it goes with the
worker in `Crash`. The places of `worker[w].at` follow `ProvisioningExecutor`:

| `at` | Code | Actions |
|---|---|---|
| `idle` | `run_once`, `try_lock`, `begin` | `Begin` |
| `resolve` | `verified_request`, engine session, process ids, first status | `Drifted`, `Unconfigured`, `Resolve` |
| `written`, `projected` | `set_status`: row written, command locked and projected, commit | `Project`, `Commit` |
| `apply` | the first pending step, in plan order | `Reuse`, `Adopt`, `Duplicates`, `Create`, `Execute`, `MarkMapping`, `EngineFails`, `CallLost`; then `Register` |
| `found`, `alias`, `mark` | `put_native_id`, the alias, `mark_step`, each its own commit | `RecordId`, `PutAlias`, `MarkStep` |
| `confirm` | `ConfirmingTenantMappings` | `ConfirmMapping`, `MappingConflict` |
| `check` | `adapter.check` | `CheckPasses`, `NotReady` |
| `settle`, `release` | `settle`: refund, retry or failure | `Settle`, `Release` |

A call whose answer was lost stays `inFlight` and may `Land` at any later
moment, also after the next pass looked for its record. Native ids are the
order in which the engine made the records of a step.

### GovernanceGate and OrderToCash

`gate[s]` walks through the checks of `perform_governed_financial_action`:
assess, documentary, native readiness, documentary again, reassess. `Revoke` and
`RestrictScope` are Control Plane changing its mind at any moment; an operation that
still has to look at what changed is marked `overruled`. `Spend` is the permit
reaching the engine.

A command of `OrderToCash` is one transaction around one change of the engine.
`Call` is the change and its answer, `CallLost` the change without one (or the
server's death), `CallUnauthorised` a 401 after it, `CallFails` and `Fail` no
change. Then `Note` takes the order's row `FOR UPDATE` and adds the fact, `Read`
asks the engine for a document's state *before* `Advance` locks the outcome's
row, and `CommitCreated` or `CommitDone` make everything visible at once with
its events. `server[s].holds` are the rows locked until then. `outbox[d]` keeps
the last event of a record, which is enough to compare it with the record and
to see a gap.

What a completion process does to its document is a choice (`Completions`): it
may answer and leave the document a draft. The code does not look at the answer
(`execute_process` returns the body, nobody reads it), so `Note` records the fact
all the same; it does look at the document before it announces an outcome, which
is `StatusOf`. A document's `done` therefore has three values: `no`, `tried` (its
completion ran and it is still a draft) and `yes`. The insert of a mapping is
guarded by its unique key (`Unmapped`); the engine record of the command that
loses stays behind (`MappingConflict`).

## 3. What the runs check

| Run | Instance | Shows |
|---|---|---|
| `order` | 2 workers, 3 events: versions 1 and 2 of one order, and an unreadable event of another; 2 engine ids, crashes and expired leases anywhere, operator resets | the safety of order execution, and that it implements `OrderAcceptance` |
| `order_liveness` | 2 events, with fairness, one engine id | every received event is eventually processed or dead-lettered |
| `customer` | 2 workers, 3 events of one customer: version 1, and version 2 twice with different content; 2 engine ids, crashes and expired leases anywhere, operator resets | the safety of customer projection, and that it implements `PartnerRegister` |
| `outbox` | 4 events (2 signed, 1 webhook, 1 legacy), batches of 2, one process at a time | the safety of dispatch |
| `outbox_liveness` | 3 events, batches of 1 | every event ends, and none is starved by older ones that keep failing |
| `intake` | 3 servers, 7 requests (a repetition, a key used twice, a part of another request, a later plan, one that cannot be provisioned, a malformed one, a wrong context), 2 keys, 2 entities, 2 plans, 2 baseline versions | one command per key, whole or not at all, built from what the request names |
| `provisioning` | 2 workers, 2 operations of a client, accounting, warehouse and mapping step; crashes, refusals, blocks, one late call, the horizon | steps resume without a second record, nothing is ready or resolvable too early, and `ProvisioningLifecycle` is implemented |
| `order_to_cash` | 2 servers; an order, a shipment, an invoice and a payment; lost answers, completions that leave a draft, 401s, crashes, a Control Plane that changes its mind | one engine change per permit, events that agree with the records, outcomes that follow the engine and never fall back, orphans that nobody works on |
| `order_contention`, `order_late`, `customer_regress`, `outbox_overlap` | see section 5 | a documented statement the code does not keep |

The properties:

* `EngineExclusive` - at most one worker between lock and unlock of a key.
* `OneSalesOrder`, for customers `OneNativeRecord` - at most one
  engine record per Trade order or customer, through lost answers, crashes, replays and several events.
* `LinkNamesEngineOrder` - link, consequence and announcement exist together,
  and the link names an engine order of that Trade order.
* `RowAgreesWithLink` - a row says EXECUTED (or ADOPTED) exactly when the link
  names it: a worker that lost its lease leaves neither half behind.
* `ProcessedMeansCarried` - no event is passed off as processed while its
  version of the order is not on record, although the outcome is settled after
  the order's lock is gone.
* `NothingFabricated` - the engine has orders of well-formed, received events only.
* `SettledStays` - an action property: processed is final, dead letters are
  reopened by the operator only.
* `ImplementsAcceptance` - refinement of `OrderAcceptance`, the identity on the
  four business variables.
* `EventuallySettled` - liveness under `TimelySpec`.
* `MappingCarriedByEngine` - the mapping names a partner of that very customer
  which bears the mapped version or a later one, and the mapped content if it
  bears the mapped version.
* `ProcessedMeansProjected` - no customer event is passed off as processed
  while the mapping is behind it, or is at its version with other content.
* `ImplementsRegister` - refinement of `PartnerRegister`: the mapped version
  only grows, and each change of content is one revision.
* `DeliveredMeansAccepted`, `DeadLetterWasTried`, `BudgetIsSpent`,
  `OutageRiddenOut`, `FinalStays`, `EventuallyFinal` - an event is marked
  delivered only if its destination took it, is tried before it is given up, is
  given up by its own destination's policy only, never comes back, and comes to
  an end. (That it is sent nowhere else, `SentWhereCarried`, is proved, not run.)
* `KeyBindsRequest` - whoever is told "accepted" has the command of exactly that
  request, also when its copies are handled at once.
* `WhollyAccepted` - a command owns the records of all its entities and no
  other, and its first revision is announced, or there is no command.
* `BuiltFromReferences`, `AcceptedWasUsable` - a command is built from the
  baseline versions and currencies the request names, none of them withdrawn
  before the request was looked at, or of a later day.
* `CommandFollowsStatuses` - the command's state is always the one its
  operations' statuses derive, however their workers interleave.
* `ReadyMeansProvisioned`, `ResolvableMeansConfigured` - an operation is ready,
  and the tenant resolves to its AD_Client, only when the steps before were
  done and recorded.
* `OnlyLateCallsDuplicate` - no crash makes a step create its record twice; only
  a call that outlived its client can.
* `WarehouseAnnouncedOnce`, `ImplementsLifecycle` - one announcement per
  warehouse, one per state of the command, in order.
* `GovernedOnce` - no change of the engine after a mandate was revoked or a
  scope restricted under an operation's checks, and at most one per operation.
* `EventsAgreeWithRecords`, `OutcomesMoveForward` - the last event of a record
  says what the record says, and neither goes back although the engine is read
  before the row is locked.
* `OnlyObservedFacts` - an outcome is on record only of a document which the
  engine reports completed, and paid or allocated if the outcome says so
  (`OutcomesWereRead`); a fact of the order only of a linked document whose
  completion process the engine has run (`FactsWereRun`). That is all the code
  keeps of a fact, see section 5.
* `OrphansStayDrafts` - an engine record that no mapping names, because the
  commit was lost or another server mapped the document first, is never
  completed, paid or allocated.

The operators marked *Variant* in the modules are plausible mistakes (a missing
fence, an ON CONFLICT DO UPDATE, a lost announcement, an off-by-one budget).
Every property fails when its variant replaces the definition, which is how we
know the instances are large enough to notice.

### Bounds

* `MaxAttempts = 2` instead of 24 (orders, customers and provisioning) and of 8
  (webhook): one attempt that may be repeated and one that may not. Both sides of the budget occur.
* `HorizonAttempts`, `AttemptBound`: a row is offered `HorizonAttempts` times
  before its horizon and `AttemptBound` times in all. The code has no such
  limit for blocked rows or crashes; the proofs hold for every value.
* Two workers or servers: every race in this code is between two holders of one
  row, one key or one document. The intake has a third server, so that one may
  wait for a scope while two others hold different ones.
* Two engine ids: enough to see a second record.
* Constraints (in the MC modules, named `Alongside`, `OneChecked`, `FewChanges`)
  keep the instances small where two things do not touch one another: beside
  the event of the other order, or the customer event that repeats the content,
  one worker runs at a time; the second operation of `provisioning` is in its
  first pass and meets no loss; one server at a time is in the gate's checks; the
  shipment and the order of `order_to_cash` are not worked on beside the payment,
  which comes last, and an outcome has at most two revisions; one document at a
  time is left a draft by its completion - the order before it has documents,
  another while the order is a draft and outcomes are at their first revision -
  and Control Plane, which changes its mind only before there are outcomes, keeps
  still meanwhile;
  Finance and Control Plane make at most three changes. A constraint only drops states beyond it: what is
  found below it holds of the code without it.
* `AttemptBound = 2` in `customer`, 3 in the other inbox runs and in
  `provisioning`: a second attempt meets what the first left behind, and a third
  is after the budget.
* `CrashBound = 2`, `LateBound = 1`: both passes within the budget may crash,
  one call may land late. `VersionBound = 2`, `MandateBound = 2`,
  `RecordBound = 2`: something and its successor.
* Localisation is left out of the plan of the `provisioning` instance: it runs a
  process as accounting does.
* `TriesBound = 3` deliveries per event: one more than the budget, so a crash
  may repeat one and the budget can still be spent.
* Deadlock is not checked: the systems stop when every event is settled and
  nothing new arrives, and at the bounds above.
* Worker and engine ids are symmetric in the safety runs; no symmetry is used
  with fairness.

### Fairness

`TimelySpec` of `OrderExecution`: workers go on once they have started and the
scheduler restarts them (`scripts/inbox_worker_loop.sh`, or cron, per
`docs/operations.md`): weak fairness of each worker's steps. A due row is
claimed: strong fairness per row, justified by `ORDER BY next_attempt_at, id` in
`claim` (a row that is put back gets a later `next_attempt_at`, so the others
move up and none of a finite queue is passed over for ever) and needed because a row
is not claimable while it is processed. Three assumptions that the code does
not enforce are in `TimelyNext`: the lease is longer than an attempt (documented
for `BAOBAB_INBOX_LEASE_SECONDS`), workers do not crash on one row for ever,
and no operator resets dead letters meanwhile. Without the second one the
property is false in the code: a row that kills its worker is re-claimed
without end, because the attempt limit is applied by the worker that settles
the row, not by the claim.

Claims, budgets, settling and the schedule are the same for customer events, so
the liveness of the inbox is checked on orders only; `EventFlow` (section 7) will
check it with both executors on one inbox.

Provisioning, the intake and the commands have no liveness run. A command is
driven by its caller's repetitions, which nothing promises; an operation of
`provisioning` ends by the same budgets and schedule as an inbox row, but under
crashes it has no bound either, for the same reason.

`TimelySpec` of `Outbox`: the dispatch loop runs again and again
(`scripts/dispatch_worker_loop.sh`), backoffs and the horizon elapse, and a
process does not crash on every attempt of an event.

## 4. What is proved

Every invariant and action property of the passing runs, and the three
refinements, are theorems checked by TLAPS: for every number of workers,
servers, processes, events, keys and documents, and for every value of the
budgets and bounds that the named assumptions allow. TLC evaluates those
assumptions on every run of the module. The assumptions on constants ask that
the sets are disjoint where the code has different types, that placeholders
(`NoWorker`, `NoDoc`, ...) are no members, and:

| Assumption | What it asks beyond that | Because |
|---|---|---|
| `QueueAssumption` | `0 < MaxAttempts <= HorizonAttempts <= AttemptBound` | the attempt budget ends long before the 72 hour horizon does; `AttemptBound` cuts off the model, not the code |
| `ExecutionAssumption`, `ContentAssumption` | an event has one key, a version from 1, and content | the payload parsers |
| `OutboxAssumption` | finitely many events, numbered in the order they occurred; legacy events are not signed | `ORDER BY occurred_at`, the routing of `record_event` |
| `IntakeAssumption`, `DeploymentAssumption` | a request names at least one entity; what the deployment configures can be parsed | a malformed document is refused before, a malformed configuration fails the start |
| `ProvisioningAssumption` | a plan starts with its client step and ends with its mapping step | `planner.py` |
| `DocumentAssumption`, `GateAssumption` | the kinds of documents are distinct; there is a mandate | |

### The theorems

| Module | Theorems | State |
|---|---|---|
| `OrderExecution_proofs` | `TypeCorrect`, `Exclusion`, `NoSecondOrder`, `LinkSound`, `RowsAgree`, `NothingSkipped`, `NothingMadeUp` | the invariants of run `order` |
| | `Finality`, `Implementation` | `SettledStays`; `OrderAcceptance` is implemented |
| `CustomerProjection_proofs` | `TypeCorrect`, `Exclusion`, `NoSecondPartner`, `MappingSound`, `NothingSkipped`, `NothingMadeUp` | the invariants of run `customer`, and two that only run `order` checks |
| | `Finality`, `Implementation` | `SettledStays` for customers; `PartnerRegister` is implemented |
| `Outbox_proofs` | `TypeCorrect`, `Delivered`, `Routed`, `Tried`, `BudgetSpent`, `Outage` | the safety of run `outbox`, with processes that overlap; `Routed`, that no event goes where it does not belong, has no run |
| | `FinalWithoutOverlap` | `FinalStays`, if there is one process |
| `ProvisioningIntake_proofs` | `TypeCorrect`, `OneRequestPerKey`, `AcceptedWhole`, `NothingSubstituted`, `UsableBaselines` | the invariants of run `intake` |
| | `CommandsStay` | an accepted command, its records and its announcement never change |
| `Provisioning_proofs` | `TypeCorrect`, `CommandAgrees`, `Ready`, `Resolvable`, `OnlyLate`, `AnnouncedOnce` | the invariants of run `provisioning` |
| | `Implementation` | `ProvisioningLifecycle` is implemented |
| `OrderToCash_proofs` | `Governed`, `TypeCorrect`, `Agreement`, `Observation`, `Orphans`, `Progression` | the properties of run `order_to_cash` |

`Invariance` (`GateInvariance` for the gate) is in each module the theorem
`Spec => []IInv` the others follow from. `FinalWithoutOverlap` has a hypothesis,
one dispatch process; that it is needed is what the disagreement
`outbox_overlap` shows. The other theorems have none.

### The inductive invariants

None of the safety properties is inductive alone: they speak of what is on
record, and the steps rely on what a worker, a server or a transaction knows.
So `IInv` says in each module what an actor at each place may still rely on.

**Executors of inbox rows.** `OneSalesOrder` says nothing about a worker that has
just been told "no such order" and is about to create one; `RowAgreesWithLink`
nothing about a worker with a stale claim. `IInv` adds, per worker:

* `ClaimInv`: a busy worker has a claim on an event, taken by a claim that
  counted it (attempts above zero);
* `LockInv`: a worker in the section holds the lock of its key - hence
  exclusion;
* what the worker learnt is still true while it holds the lock. Orders
  (`EngineInv`): at `create` the engine has no order for it, at `commit` exactly
  the one it found. Customers (`LearntInv`, `AheadInv`): from `find` on the
  customer is unmapped, at `create` it has no partner, at `update` and `commit`
  the mapping is behind the event, and at `commit` the partner bears it;
* an outcome of *processed* that waits to be settled is justified by what is on
  record, which never goes back (`OutcomeInv`, `JustifiedInv`).

What the two executors share is proved once, in `InboxExecution_proofs`: what
the common actions do to claims, locks and rows. The work that is left is in the
steps at which engine and records move: `EngineCommits` or `EngineEffect`
(uniqueness from what was learnt under the lock), `CommitRecords` (fence and
primary key together) and `Settle` (the outcome of an earlier moment applied to
the row of now). For customers `CarriesStep` shows that a mapping which carries
an event carries it for good, which is what `NothingSkipped` rests on. Both
refinements are the identity on the business variables: `Create` and
`CreateUnanswered` are `Place`, `CommitRecords` is `Accept` or the register's
move, everything else stutters; they need `IInv` for the guards.

**Outbox.** A mark is an UPDATE without a fence, so nothing can be said of the
row between a read and its mark. What can be said is about the process:
`BatchInv` (it holds events its destination carries), `ResultInv` (an
acknowledgement means the destination has it) and `CountInv`, which makes the
budget survive overlaps: no count, not the table's, not the one read with the
batch, is ahead of the deliveries that were tried. A retry count can be taken
*back* by a stale mark; it is never too high, so nothing is given up early.
`Oldest` needs the events to be finitely many, by well-founded induction.

**ProvisioningIntake.** `LockInv`: one transaction holds the scope of a key.
`ReadInv`: what it has read is still so - the key has no command, the versions
it names exist, those it found usable were not withdrawn when it began. The last
is stable because baselines and withdrawals only grow (`AuthoritiesGrow`);
nothing of the kind is claimed of the plan, which is read without a lock and
replaced at will. `AnswerInv` ties the answers to the records.

**Provisioning.** `PassInv` says for each place of a pass what the status is and
what the pass has done about its step: at `found` the engine has done it, at
`mark` its id is on record, at `confirm` only the mapping step is left.
`RecordInv` says what each status means for the tables. `LockInv` is the argument
for the command's state: from the moment a worker derives it until it commits
(`projected`) that worker holds the command's row, and every other writer of a
status needs that row to derive its own, so the state still fits the statuses at
the commit. `DeriveMoves` shows that a status that moves forward never derives a
state that moves back, and `RevisionInv` bounds the revision by the state; both
give the refinement.

**OrderToCash.** The gate and the records are proved apart. `GovernedOnce` says
nothing about an operation that is overruled and not yet refused; `GateInv` adds
that such an operation has a check ahead of it that it cannot pass: it has seen
a mandate older than the one in force and `Reassess` is still to come, or its
scope is blocked, which stays so, and one of the two documentary checks is still
to come. `StepMovesGate` reduces each step of the commands to a move of the gate.

For the records, `Sound(s)` says what a transaction will find at its commit:
the record it will map is there (`MadeThere`), the engine has run the completion
it is about to note (`WorksOn`, `Ran`), the order's row is what `record_fact`
makes of the row as it is now (`OrderLocked`), and an outcome it decided still follows the stored one and is
one that the engine shows (`RowsLocked`, `Follows`). This holds through the steps
of others for three reasons, which are `Grows` and `Keeps`: the engine takes
nothing back, a mapping is made once, and rows that are locked are written by no
other transaction. The engine is read *before* the outcome's row is locked, and
`SeenThere` is the reason why that does no harm: what was seen then is late, but
still so; whether it is news is decided under the lock.

Each inductive invariant was also checked with TLC, on the instance of its
module.

### What is only model-checked

* Both liveness properties, `EventuallySettled` and `EventuallyFinal`: they need
  fairness, which is out of the prover's reach.
* The four disagreements below: counterexamples, which need no proof.
* The theorems about order execution and customer projection assume what their
  models do: a request to the engine has taken effect, or never will, before its
  client goes on (`order_late` drops that), and a session lives as long as its
  worker.

## 5. Where the code and its documents disagree

1. **Contention can dead-letter a row** (`order_contention`).
   `failure_outcome` turns a retry at the attempt limit into a dead letter even
   if it is the refunded ORDER_CONTENDED, which `inbox_execution.py:92` and
   `docs/events.md:134` describe as neither a failure nor an attempt.
2. **A create request that outlives its client** (`order_late`). The attempt
   ends, the next one finds no order and creates one, then the first request
   commits. "One sales order per (tenant, Trade order)"
   (`inbox_execution.py:6`) rests on the engine having finished before the
   lookup, which nothing ensures. The safety results of section 4 assume it.
3. **A customer can go back a version in the engine** (`customer_regress`). The
   event's version is compared with the mapping, which is written after the
   engine. When version 2 reached the partner but its answer, or the commit of
   the mapping, was lost, version 1 executed before the retry of version 2
   finds no later version on record and overwrites the partner.
   `projection_execution.py:14` says "Versions only move forward". The mapping
   itself does (`ImplementsRegister`), and it never claims what the partner
   lacks (`MappingCarriedByEngine`); the retry of version 2, if it succeeds
   within its budget, repairs the partner.
4. **Marks are not fenced** (`outbox_overlap`). Two overlapping dispatch runs can
   put a delivered event back to retry. Section 3's `outbox` run has one process
   at a time.

Three more were met and have no run of their own:

* A fact is recorded and announced on an answer nobody has read. After the
  process of an order, a shipment or an invoice has answered, `service.py` calls
  `record_fact` at once (lines 426-439, 497-512, 582-598), without a look at the
  body (`idempiere_client.py:196-201`) or at the document. If the process left
  the document a draft, the order says completed, shipped or invoiced all the
  same, whereas `consequence.py:3-12` speaks of processes "executed successfully"
  and of a shipment that "was completed", and `docs/events.md` of an "observed
  fact". The same command does look before it announces an invoice's or
  payment's outcome. `FactsWereRun` says what the code keeps, `OutcomesWereRead`
  the stronger thing it keeps of outcomes.
* The advisory lock of an order is a session lock and is not checked again
  before the engine is touched. A connection lost meanwhile lets a second worker
  in; the models assume that a session lives as long as its worker.
* `accounting_outcomes.py` says that a retried request announces nothing twice.
  `complete_payment` repeated after an allocation does: its outcome has no
  invoice, so it differs from the stored one and is a new revision.
  `OutcomesMoveForward` therefore compares status *and* invoice.

## 6. What is not modelled

* Engine plug-ins and native triggers (`idempiere/extensions`,
  `db/native-migrations`): Java and SQL inside the engine, planned in section 7.
* Signatures, tokens, parsing of documents, HTTP routing, read-only projections,
  inventory availability: nothing in them happens over time. Where they decide
  the control flow of a modelled part they are a choice there.
* Runtimes marked development or test: the commands are governed in all others,
  and the handlers that call the ungoverned functions are refused there.
* The legacy envelope events of the commands, amounts and lines, reversals,
  engine users, a warehouse record that another entity holds already.
* `Trade` commands and inbox execution of the same order are two models; their
  composition is planned. An engine record that lost its mapping to another
  (`MappingConflict`) stays behind as an orphan in the model as in the code; what
  holds of it is that it stays a draft (`OrphansStayDrafts`).
* Whether a process that runs again after a crash (`Execute`) changes anything:
  the engine's business. Whether a plan or baseline read before `Accept` still
  holds at the commit: the code locks nothing there and promises nothing.
* The order of delivery between events: the outbox promises none.
* Clock arithmetic of leases and backoffs: they are nondeterministic, which
  includes every schedule.
* The acceptance drivers and evidence scripts (`idempiere/acceptance`,
  `scripts`): they test the system and are no part of it.

## 7. Plan

In place: the modules of section 2 and proofs of the safety of all of them.
Next, in this order:

1. `OrderExecutionFaults` with proofs: what is left of the theorems when requests
   outlive their client - at most one order more than there were late requests,
   and a link that still names an order of the right Trade order.
2. `OrderIntake`: `create_sales_order` beside `OrderExecution`, with the unique
   keys of `mapping`.
3. `EventFlow`: both executors with one inbox and one outbox, from receipt to
   delivery, with the liveness of the whole.
4. `NativeFinance`: the engine's own commit fence.
