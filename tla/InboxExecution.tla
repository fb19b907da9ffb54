--------------------------- MODULE InboxExecution ---------------------------
(***************************************************************************)
(* What the executors of inbox rows have in common: worker processes claim *)
(* a row, hold a session advisory lock on its business key while they work *)
(* in the engine (iDempiere), look for the record an earlier attempt left  *)
(* there before they create one, and settle the row when they are done     *)
(* (modules/inbox/execution_support.py, application/inbox_worker.py).      *)
(* OrderExecution and CustomerProjection extend it.                        *)
(*                                                                         *)
(* A step is one database transaction, one lock call or one engine request *)
(* of one worker, so workers interleave between any two of them.  What the *)
(* environment decides (missing placement or mapping, a governance denial, *)
(* an engine failure) is a nondeterministic choice at the point the code   *)
(* meets it.                                                               *)
(***************************************************************************)
EXTENDS InboxQueue

CONSTANTS
  Keys,       \* what rows are about: (tenant, Trade order) or customer
  KeyOf,      \* KeyOf[e]: the key an event is about
  VersionOf,  \* VersionOf[e]: the version of it that the event carries
  Malformed,  \* events whose payload does not parse or that carry no tenant
  NativeIds,  \* record ids the engine may assign
  NoNative    \* no engine record

ASSUME ExecutionAssumption ==
  /\ KeyOf \in [Events -> Keys]
  /\ VersionOf \in [Events -> Nat \ {0}]
  /\ Malformed \subseteq Events
  /\ NoNative \notin NativeIds

VARIABLES
  pc,       \* pc[w]: the next step of a worker
  outcome,  \* outcome[w]: how the attempt ended, until it is settled
  found,    \* found[w]: the engine record the attempt works on, and its code
  lock,     \* lock[k]: the session that holds the advisory lock of a key
  native    \* native[k]: engine records that carry the reference of a key

workerVars == <<pc, outcome, found>>
executionVars == <<queueVars, workerVars, lock, native>>

\* The steps between taking the lock and giving it back.
Section == {"check", "find", "create", "update", "commit", "unlock"}
Steps == Section \cup {"idle", "prepare", "settle"}

NoOutcome == Outcome("none", "")
\* The attempt's transaction has settled the row, or its lease is lost:
\* nothing remains to be settled.
Closed(code) == Outcome("closed", code)

NoFound == [native |-> NoNative, code |-> ""]

KeyAt(w) == KeyOf[claim[w].event]

UsedIds == UNION {native[k] : k \in Keys}

Goto(w, step) == pc' = [pc EXCEPT ![w] = step]

\* The attempt ends with out; from inside the section the lock goes first.
End(w, out) ==
  /\ outcome' = [outcome EXCEPT ![w] = out]
  /\ Goto(w, IF pc[w] \in Section THEN "unlock" ELSE "settle")

-----------------------------------------------------------------------------
(* Outcomes of an attempt, one per class of codes the code treats alike. *)

\* A precondition is missing: placement (TENANT_UNMAPPED), a product, customer,
\* group or credentials (PRODUCT_UNMAPPED, CUSTOMER_UNMAPPED,
\* BP_GROUP_UNAVAILABLE, ENGINE_ORG_MISMATCH, ENGINE_UNCONFIGURED) or the legal
\* actor's authority (LEGAL_ACTOR_PENDING, LEGAL_ACTOR_DENIED).
Blocked == Outcome("blocked", "PRECONDITION")

\* The event can never be executed: PAYLOAD_INVALID, TENANT_MISSING,
\* UNIT_MISMATCH, DUPLICATE_NATIVE_ORDERS, DUPLICATE_NATIVE_PARTNERS,
\* NATIVE_PARTNER_MISSING, or ENGINE_REJECTED for an answer of 400 or 422.
Refused == Outcome("dead_letter", "REFUSED")

\* ENGINE_UNAVAILABLE, or UNEXPECTED_ERROR for any other exception (a time-out
\* while the engine's answer is read, a violated unique key).
Transient == Outcome("retry", "TRANSIENT")

-----------------------------------------------------------------------------
(* Before the lock. *)

\* The worker loop takes a row and starts the attempt.
Start(w) ==
  /\ Goto(w, "prepare")
  /\ UNCHANGED <<outcome, found, lock, native>>

BeginDue(w, e) == pc[w] = "idle" /\ ClaimDue(w, e) /\ Start(w)

BeginExpired(w, e) == pc[w] = "idle" /\ ClaimExpired(w, e) /\ Start(w)

\* The payload does not parse, or the event names no tenant.
RefusePayload(w) ==
  /\ pc[w] = "prepare"
  /\ claim[w].event \in Malformed
  /\ End(w, Refused)
  /\ UNCHANGED <<queueVars, found, lock, native>>

\* The tenant and legal entity have no active engine placement.
BlockUnplaced(w) ==
  /\ pc[w] = "prepare"
  /\ claim[w].event \notin Malformed
  /\ End(w, Blocked)
  /\ UNCHANGED <<queueVars, found, lock, native>>

\* Variant: the answer of pg_try_advisory_lock is not looked at.
TakeLockUnchecked(w) ==
  /\ pc[w] = "prepare"
  /\ claim[w].event \notin Malformed
  /\ lock' = [lock EXCEPT ![KeyAt(w)] = w]
  /\ Goto(w, "check")
  /\ UNCHANGED <<queueVars, outcome, found, native>>

\* Variant: the payload is not parsed before its key is worked on.
TakeLockUnparsed(w) ==
  /\ pc[w] = "prepare"
  /\ lock[KeyAt(w)] = NoWorker
  /\ lock' = [lock EXCEPT ![KeyAt(w)] = w]
  /\ Goto(w, "check")
  /\ UNCHANGED <<queueVars, outcome, found, native>>

\* pg_try_advisory_lock succeeds.
TakeLock(w) ==
  /\ pc[w] = "prepare"
  /\ claim[w].event \notin Malformed
  /\ lock[KeyAt(w)] = NoWorker
  /\ lock' = [lock EXCEPT ![KeyAt(w)] = w]
  /\ Goto(w, "check")
  /\ UNCHANGED <<queueVars, outcome, found, native>>

\* pg_try_advisory_lock fails: another worker is on this very key
\* (ORDER_CONTENDED, CUSTOMER_CONTENDED).
Contend(w) ==
  /\ pc[w] = "prepare"
  /\ claim[w].event \notin Malformed
  /\ lock[KeyAt(w)] # NoWorker
  /\ End(w, Contended("CONTENDED"))
  /\ UNCHANGED <<queueVars, found, lock, native>>

-----------------------------------------------------------------------------
(* In the engine. *)

\* The query by reference failed, what has to be asked around it refused, or it
\* found more than one record: then no other step is enabled.
FindFails(w) ==
  /\ pc[w] = "find"
  /\ \E out \in {Blocked, Refused, Transient} : End(w, out)
  /\ UNCHANGED <<queueVars, found, lock, native>>

\* Variant: the engine is not asked for an earlier attempt's record.
FindNoneUnasked(w) ==
  /\ pc[w] = "find"
  /\ Goto(w, "create")
  /\ UNCHANGED <<queueVars, outcome, found, lock, native>>

\* No engine record carries the reference.
FindNone(w) ==
  /\ pc[w] = "find"
  /\ native[KeyAt(w)] = {}
  /\ Goto(w, "create")
  /\ UNCHANGED <<queueVars, outcome, found, lock, native>>

\* What has to be read before the create failed, or the engine did not take it.
CreateFails(w) ==
  /\ pc[w] = "create"
  /\ \E out \in {Blocked, Refused, Transient} : End(w, out)
  /\ UNCHANGED <<queueVars, found, lock, native>>

\* The engine commits a new record for k.
EngineCommits(k, n) ==
  /\ n \in NativeIds \ UsedIds
  /\ native' = [native EXCEPT ![k] = @ \cup {n}]

-----------------------------------------------------------------------------
(* After the attempt. *)

\* The worker is done with its claim.
Forget(w) ==
  /\ claim' = [claim EXCEPT ![w] = NoClaim]
  /\ outcome' = [outcome EXCEPT ![w] = NoOutcome]
  /\ found' = [found EXCEPT ![w] = NoFound]
  /\ Goto(w, "idle")

\* Leaving the lock's context; what is left to settle is settled afterwards.
Unlock(w) ==
  /\ pc[w] = "unlock"
  /\ lock' = [lock EXCEPT ![KeyAt(w)] = NoWorker]
  /\ IF outcome[w].status = "closed"
     THEN Forget(w)
     ELSE Goto(w, "settle") /\ UNCHANGED <<claim, outcome, found>>
  /\ UNCHANGED <<row, aged, native>>

\* Budgets are applied and the row is released or marked processed; a worker
\* that no longer holds the row changes nothing.
Settle(w) ==
  LET e == claim[w].event
  IN  /\ pc[w] = "settle"
      /\ row' = IF Holds(w)
                THEN [row EXCEPT ![e] =
                        SettledRow(e, FailureOutcome(e, outcome[w], claim[w].attempts))]
                ELSE row
      /\ Forget(w)
      /\ UNCHANGED <<aged, lock, native>>

\* The settling transaction fails: the row is released as UNEXPECTED_ERROR
\* instead, with no refund, whatever the attempt came to.
SettleRaises(w) ==
  /\ pc[w] = "settle"
  /\ outcome[w] # Transient
  /\ outcome' = [outcome EXCEPT ![w] = Transient]
  /\ UNCHANGED <<queueVars, pc, found, lock, native>>

\* The process dies, or the database refuses that release as well: the claim is
\* forgotten and the session's locks are released.
Crash(w) ==
  /\ pc[w] # "idle"
  /\ lock' = [k \in Keys |-> IF lock[k] = w THEN NoWorker ELSE lock[k]]
  /\ Forget(w)
  /\ UNCHANGED <<row, aged, native>>

-----------------------------------------------------------------------------
ExecutionInit ==
  /\ QueueInit
  /\ pc = [w \in Workers |-> "idle"]
  /\ outcome = [w \in Workers |-> NoOutcome]
  /\ found = [w \in Workers |-> NoFound]
  /\ lock = [k \in Keys |-> NoWorker]
  /\ native = [k \in Keys |-> {}]

\* The queue's own steps.
QueueOnly == UNCHANGED <<workerVars, lock, native>>

Ingress(e) == Receive(e) /\ QueueOnly
Operator(e) == OperatorRetry(e) /\ QueueOnly
Clock(e) == Horizon(e) /\ QueueOnly

\* Steps common to the executors in which the worker waits for the engine, and
\* in which it uses its database session.
CommonEngineStep(w) == FindFails(w) \/ FindNone(w) \/ CreateFails(w)

CommonSessionStep(w) ==
  \/ RefusePayload(w) \/ BlockUnplaced(w) \/ TakeLock(w) \/ Contend(w)
  \/ Unlock(w) \/ Settle(w) \/ SettleRaises(w)

\* An expired lease is taken over only from a worker that is no longer at work.
Reclaim(w, e) == ~HeldByLiveWorker(e) /\ BeginExpired(w, e)

\* Workers do not crash on one row for ever.
CrashEarly(w) == claim[w].attempts < MaxAttempts /\ Crash(w)

-----------------------------------------------------------------------------
(* Types; an executor adds codes of its own. *)

CommonCodes == QueueCodes \cup {"PRECONDITION", "REFUSED", "TRANSIENT", "CONTENDED", "LEASE_LOST"}

OutcomeTypeOf(codes) ==
  [status : Statuses \cup {"none", "closed"}, code : codes, last_error : codes, refund : {0, 1}]
FoundTypeOf(codes) == [native : NativeIds \cup {NoNative}, code : codes]

ExecutionTypeOK(codes, foundCodes) ==
  /\ QueueTypeOK(codes)
  /\ pc \in [Workers -> Steps]
  /\ outcome \in [Workers -> OutcomeTypeOf(codes)]
  /\ found \in [Workers -> FoundTypeOf(foundCodes)]
  /\ lock \in [Keys -> Workers \cup {NoWorker}]
  /\ native \in [Keys -> SUBSET NativeIds]

\* No two workers are between lock and unlock of the same key, whatever rows
\* brought them there, even when a lease ran out under one of them.
EngineExclusive ==
  \A v, w \in Workers :
    v # w /\ pc[v] \in Section /\ pc[w] \in Section => KeyAt(v) # KeyAt(w)

\* One engine record per business key, through replays, several events of one
\* key, crashes, lost answers and lost leases.
OneNativeRecord ==
  \A k \in Keys : \A m, n \in native[k] : m = n

\* A processed row is final: no stale worker, replay or expired lease reopens
\* it; and a dead letter is only reopened by the operator's statement.
SettledStep ==
  \A e \in Events :
    row[e].status \in Settled =>
      \/ row'[e] = row[e]
      \/ row[e].status = "dead_letter" /\ row'[e].status = "received"

\* "Nothing is fabricated": the engine holds a record only for a key of which a
\* well-formed event was received.
NothingFabricated ==
  \A k \in Keys :
    native[k] # {} =>
      \E e \in Events \ Malformed : KeyOf[e] = k /\ row[e].status # "absent"

\* Every received event is eventually processed or dead-lettered.
EventuallySettled ==
  \A e \in Events :
    row[e].status = "received" ~> row[e].status \in Settled
=============================================================================
