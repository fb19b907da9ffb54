--------------------------- MODULE OrderExecution ---------------------------
(***************************************************************************)
(* The execution of trade.order.placed inbox rows: under the lock of the   *)
(* order a worker looks it up or creates it in the engine, and records the *)
(* consequence, the order link, the announcing event and the inbox outcome *)
(* in one fenced transaction (modules/order_to_cash/inbox_execution.py).   *)
(* A key is a (tenant, Trade order) pair, its reference the POReference.   *)
(*                                                                         *)
(* Here an engine request never outlives the worker that waits for it and  *)
(* a worker's database session lives as long as the worker;                *)
(* OrderExecutionFaults drops both assumptions.                            *)
(***************************************************************************)
EXTENDS InboxExecution

VARIABLES
  consequence, \* baobab.order_consequence: the order_version, 0 for no row
  execution,   \* baobab.order_execution: source event and native id
  announced    \* orders whose revision 1 event is in the outbox

recordVars == <<consequence, execution, announced>>
vars == <<executionVars, recordVars>>

NoExecution == [source |-> NoEvent, native |-> NoNative]

-----------------------------------------------------------------------------
(* Actions of a worker. *)

\* Variant: a later version counts as seen.
KnownOutcomeAnyVersion(version, known) ==
  Outcome("processed", IF version = known THEN "ALREADY_EXECUTED" ELSE "STALE_VERSION")

\* What an already recorded order means for an event about it.
KnownOutcome(version, known) ==
  IF version = known THEN Outcome("processed", "ALREADY_EXECUTED")
  ELSE IF version < known THEN Outcome("processed", "STALE_VERSION")
  ELSE Outcome("dead_letter", "AMENDMENT_UNSUPPORTED")

RecogniseKnown(w) ==
  /\ pc[w] = "check"
  /\ consequence[KeyAt(w)] # 0
  /\ End(w, KnownOutcome(VersionOf[claim[w].event], consequence[KeyAt(w)]))
  /\ UNCHANGED <<queueVars, found, lock, native, recordVars>>

\* A product, the engine credentials, the customer or the legal actor is missing.
BlockUnmapped(w) ==
  /\ pc[w] = "check"
  /\ consequence[KeyAt(w)] = 0
  /\ End(w, Blocked)
  /\ UNCHANGED <<queueVars, found, lock, native, recordVars>>

ResolveOrder(w) ==
  /\ pc[w] = "check"
  /\ consequence[KeyAt(w)] = 0
  /\ Goto(w, "find")
  /\ UNCHANGED <<queueVars, outcome, found, lock, native, recordVars>>

\* One engine order carries the reference: an earlier attempt created it.
Adopt(w) ==
  /\ pc[w] = "find"
  /\ \E n \in native[KeyAt(w)] :
       /\ native[KeyAt(w)] = {n}
       /\ found' = [found EXCEPT ![w] = [native |-> n, code |-> "ADOPTED_NATIVE_ORDER"]]
  /\ Goto(w, "commit")
  /\ UNCHANGED <<queueVars, outcome, lock, native, recordVars>>

Create(w) ==
  /\ pc[w] = "create"
  /\ \E n \in NativeIds :
       /\ EngineCommits(KeyAt(w), n)
       /\ found' = [found EXCEPT ![w] = [native |-> n, code |-> "EXECUTED"]]
  /\ Goto(w, "commit")
  /\ UNCHANGED <<queueVars, outcome, lock, recordVars>>

\* The engine committed the order but the worker does not learn of it.
CreateUnanswered(w) ==
  /\ pc[w] = "create"
  /\ \E n \in NativeIds : EngineCommits(KeyAt(w), n)
  /\ End(w, Transient)
  /\ UNCHANGED <<queueVars, found, lock, recordVars>>

\* Variant: the announcing event is not part of the transaction.
CommitRecordsSilently(w) ==
  /\ pc[w] = "commit"
  /\ consequence[KeyAt(w)] = 0
  /\ Holds(w)
  /\ consequence' = [consequence EXCEPT ![KeyAt(w)] = VersionOf[claim[w].event]]
  /\ execution' = [execution EXCEPT ![KeyAt(w)] =
                     [source |-> claim[w].event, native |-> found[w].native]]
  /\ row' = [row EXCEPT ![claim[w].event] =
               SettledRow(claim[w].event, Outcome("processed", found[w].code))]
  /\ End(w, Closed(found[w].code))
  /\ UNCHANGED <<aged, claim, found, lock, native, announced>>

\* The consequence record, the order link, the announcing event and the inbox
\* outcome, in one transaction.
CommitRecords(w) ==
  /\ pc[w] = "commit"
  /\ consequence[KeyAt(w)] = 0
  /\ Holds(w)
  /\ consequence' = [consequence EXCEPT ![KeyAt(w)] = VersionOf[claim[w].event]]
  /\ execution' = [execution EXCEPT ![KeyAt(w)] =
                     [source |-> claim[w].event, native |-> found[w].native]]
  /\ announced' = announced \cup {KeyAt(w)}
  /\ row' = [row EXCEPT ![claim[w].event] =
               SettledRow(claim[w].event, Outcome("processed", found[w].code))]
  /\ End(w, Closed(found[w].code))
  /\ UNCHANGED <<aged, claim, found, lock, native>>

\* The primary key or the lease fence refuses it and everything is rolled back.
CommitRefused(w) ==
  /\ pc[w] = "commit"
  /\ ~(consequence[KeyAt(w)] = 0 /\ Holds(w))
  /\ End(w, IF consequence[KeyAt(w)] # 0 THEN Transient ELSE Closed("LEASE_LOST"))
  /\ UNCHANGED <<queueVars, found, lock, native, recordVars>>

-----------------------------------------------------------------------------
Init ==
  /\ ExecutionInit
  /\ consequence = [k \in Keys |-> 0]
  /\ execution = [k \in Keys |-> NoExecution]
  /\ announced = {}

\* Steps in which the worker waits for the engine.
EngineStep(w) ==
  \/ CommonEngineStep(w) /\ UNCHANGED recordVars
  \/ Adopt(w) \/ Create(w) \/ CreateUnanswered(w)

\* Steps in which the worker uses its database session.
SessionStep(w) ==
  \/ CommonSessionStep(w) /\ UNCHANGED recordVars
  \/ RecogniseKnown(w) \/ BlockUnmapped(w) \/ ResolveOrder(w)
  \/ CommitRecords(w) \/ CommitRefused(w)

Next ==
  \/ /\ \/ \E e \in Events : Ingress(e) \/ Operator(e) \/ Clock(e)
        \/ \E w \in Workers, e \in Events : BeginDue(w, e) \/ BeginExpired(w, e)
        \/ \E w \in Workers : Crash(w)
     /\ UNCHANGED recordVars
  \/ \E w \in Workers : EngineStep(w) \/ SessionStep(w)

Spec == Init /\ [][Next]_vars

-----------------------------------------------------------------------------
(* Properties; EngineExclusive, OneNativeRecord, NothingFabricated and         *)
(* EventuallySettled are stated in InboxExecution.                             *)

ExecutedCodes == {"EXECUTED", "ADOPTED_NATIVE_ORDER"}
Codes == CommonCodes \cup ExecutedCodes \cup
           {"ALREADY_EXECUTED", "STALE_VERSION", "AMENDMENT_UNSUPPORTED"}
FoundCodes == {""} \cup ExecutedCodes
ExecutionType == [source : Events \cup {NoEvent}, native : NativeIds \cup {NoNative}]

\* Every variable keeps its type; in particular a refunded claim never takes
\* the attempts of a row below zero.
TypeOK ==
  /\ ExecutionTypeOK(Codes, FoundCodes)
  /\ consequence \in [Keys -> Nat]
  /\ execution \in [Keys -> ExecutionType]
  /\ announced \subseteq Keys

\* inbox_execution: one sales order per (tenant, Trade order).
OneSalesOrder == OneNativeRecord

\* The link ERP keeps names an engine order of that very Trade order, and the
\* version it keeps is the linked event's.
LinkNamesEngineOrder ==
  \A k \in Keys :
    \/ execution[k] = NoExecution /\ consequence[k] = 0 /\ k \notin announced
    \/ /\ execution[k].native \in native[k]
       /\ execution[k].source \in Events
       /\ KeyOf[execution[k].source] = k
       /\ consequence[k] = VersionOf[execution[k].source]
       /\ k \in announced

\* A row says it executed its order exactly when the order's link names that
\* row: a worker that lost its lease leaves neither half behind.
RowAgreesWithLink ==
  \A e \in Events :
    row[e].status = "processed" /\ row[e].code \in ExecutedCodes
      <=> execution[KeyOf[e]].source = e

\* An event is only ever marked processed when its order is on record in the
\* event's version or a later one.
ProcessedMeansCarried ==
  \A e \in Events :
    row[e].status = "processed" => consequence[KeyOf[e]] >= VersionOf[e]

\* Processed rows are final and dead letters the operator's.
SettledStays == [][SettledStep]_vars

\* The detailed execution implements the acceptance of orders it stands for.
Acceptance == INSTANCE OrderAcceptance WITH Orders <- Keys, OrderOf <- KeyOf
ImplementsAcceptance == Acceptance!Spec

\* A contended attempt is "neither a failure nor an attempt": contention alone
\* never turns a row into a dead letter.
ContentionIsNoFailure ==
  \A e \in Events :
    row[e].status = "dead_letter" => row[e].last_error # "CONTENDED"

-----------------------------------------------------------------------------
(* The schedule under which a received event is brought to an outcome. *)

\* The lease exceeds the longest attempt (the documented condition on
\* BAOBAB_INBOX_LEASE_SECONDS), so it only runs out on a row nobody works on,
\* workers do not crash on one row for ever, and no operator puts the dead
\* letters of one order back while another event of it waits for the lock.
TimelyNext ==
  \/ /\ \/ \E e \in Events : Ingress(e) \/ Clock(e)
        \/ \E w \in Workers, e \in Events : BeginDue(w, e) \/ Reclaim(w, e)
        \/ \E w \in Workers : CrashEarly(w)
     /\ UNCHANGED recordVars
  \/ \E w \in Workers : EngineStep(w) \/ SessionStep(w)

\* The scheduler restarts workers for ever, a running worker goes on, and rows
\* are claimed oldest first, so no due row is passed over for ever.
Fairness ==
  /\ \A w \in Workers : WF_vars(EngineStep(w) \/ SessionStep(w))
  /\ \A e \in Events :
       /\ SF_vars((\E w \in Workers : BeginDue(w, e) \/ Reclaim(w, e)) /\ UNCHANGED recordVars)
       /\ WF_vars(Clock(e) /\ UNCHANGED recordVars)

TimelySpec == Init /\ [][TimelyNext]_vars /\ Fairness
=============================================================================
