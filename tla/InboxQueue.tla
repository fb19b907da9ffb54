----------------------------- MODULE InboxQueue -----------------------------
(***************************************************************************)
(* The durable event inbox as a work queue: receipt of a Trade event, the  *)
(* claim of a due row under a lease, and the fenced settling of a claimed  *)
(* row (modules/inbox, modules/order_to_cash/execution_policy.py).         *)
(*                                                                         *)
(* Time is abstracted.  A row whose next_attempt_at lies in the future is  *)
(* due at some later moment, and a lease runs out at some later moment, so *)
(* neither clock is a guard; the 72 hour horizon of a blocked row is the   *)
(* set aged, which a row enters once, at its Horizon step.                 *)
(*                                                                         *)
(* Definitions marked "Variant" are what a plausible mistake would make of *)
(* the definition that follows them.  No specification uses them: they are *)
(* there to show that the properties notice.                               *)
(***************************************************************************)
EXTENDS Integers

CONSTANTS
  Events,           \* Trade events, identified by (ce_source, event_id)
  Workers,          \* inbox worker processes
  NoWorker,         \* claimed_by IS NULL
  NoEvent,          \* the claim of a worker that holds none
  MaxAttempts,      \* execution_policy.MAX_ATTEMPTS
  HorizonAttempts,  \* bound: claims of one row that fit into BLOCKED_HORIZON
  AttemptBound      \* bound: claims of one row in all

ASSUME QueueAssumption ==
  /\ NoWorker \notin Workers
  /\ NoEvent \notin Events
  /\ MaxAttempts \in Nat \ {0}
  /\ HorizonAttempts \in Nat
  /\ AttemptBound \in Nat
  /\ MaxAttempts <= HorizonAttempts
  /\ HorizonAttempts <= AttemptBound

VARIABLES
  row,    \* baobab.event_inbox: one row per event
  aged,   \* rows received longer than BLOCKED_HORIZON ago
  claim   \* claim[w]: the Claim a worker process holds in memory

queueVars == <<row, aged, claim>>

Waiting == {"received", "retry", "blocked"}
Settled == {"processed", "dead_letter"}
Statuses == Waiting \cup Settled \cup {"absent", "processing"}

\* A row nobody has worked on.
FreshRow(status) == [status |-> status, claimed_by |-> NoWorker, attempts |-> 0,
                     code |-> "", last_error |-> ""]
AbsentRow == FreshRow("absent")

NoClaim == [event |-> NoEvent, attempts |-> 0]

-----------------------------------------------------------------------------
(* Outcomes of an attempt and the budgets applied to them. *)

Detailed(status, code, detail, refund) ==
  [status |-> status, code |-> code, last_error |-> detail, refund |-> refund]

Outcome(status, code) == Detailed(status, code, "", 0)

\* The per-key lock is held by another worker.
Contended(code) == Detailed("retry", code, "", 1)

\* Variant: no budget on retries.
FailureOutcomeNoCap(e, out, attempts) ==
  IF out.status = "blocked" /\ e \in aged
  THEN Detailed("dead_letter", "BLOCKED_HORIZON_EXCEEDED", out.code, 0)
  ELSE out

\* A retry past MAX_ATTEMPTS and a block past its horizon become dead letters;
\* the fresh Outcome carries the original code as its detail and no refund.
FailureOutcome(e, out, attempts) ==
  IF out.status = "retry" /\ attempts >= MaxAttempts
  THEN Detailed("dead_letter", "ATTEMPTS_EXHAUSTED", out.code, 0)
  ELSE IF out.status = "blocked" /\ e \in aged
  THEN Detailed("dead_letter", "BLOCKED_HORIZON_EXCEEDED", out.code, 0)
  ELSE out

-----------------------------------------------------------------------------
(* Receipt. *)

\* Variant: ON CONFLICT DO UPDATE.
ReceiveAgain(e) ==
  /\ row' = [row EXCEPT ![e] = FreshRow("received")]
  /\ UNCHANGED <<aged, claim>>

\* INSERT ... ON CONFLICT DO NOTHING: a delivery of an event that is already
\* stored changes nothing, so only the first one is a step.
Receive(e) ==
  /\ row[e].status = "absent"
  /\ row' = [row EXCEPT ![e] = FreshRow("received")]
  /\ UNCHANGED <<aged, claim>>

\* The documented operator statement that puts a dead letter back to work.
OperatorRetry(e) ==
  /\ row[e].status = "dead_letter"
  /\ row' = [row EXCEPT ![e] = FreshRow("received")]
  /\ UNCHANGED <<aged, claim>>

\* 72 hours have passed since the row was received.
Horizon(e) ==
  /\ row[e].status # "absent"
  /\ e \notin aged
  /\ aged' = aged \cup {e}
  /\ UNCHANGED <<row, claim>>

-----------------------------------------------------------------------------
(* Claiming. *)

\* Bounds the model.  A blocked row is offered a finite number of times before
\* its horizon, so only an aged row passes HorizonAttempts.
WithinBound(e) ==
  row[e].attempts < IF e \in aged THEN AttemptBound ELSE HorizonAttempts

\* The row a claiming UPDATE leaves behind.
TakenRow(w, r) ==
  [status |-> "processing", claimed_by |-> w, attempts |-> r.attempts + 1,
   code |-> r.code, last_error |-> r.last_error]

\* The claiming UPDATE, committed at once (FOR UPDATE SKIP LOCKED: the row is
\* taken by exactly one worker).
TakeRow(w, e) ==
  /\ WithinBound(e)
  /\ row' = [row EXCEPT ![e] = TakenRow(w, @)]
  /\ claim' = [claim EXCEPT ![w] = [event |-> e, attempts |-> row[e].attempts + 1]]
  /\ UNCHANGED aged

\* A received, retried or blocked row that has become due.
ClaimDue(w, e) ==
  /\ row[e].status \in Waiting
  /\ TakeRow(w, e)

\* A row left in processing whose lease has run out.
ClaimExpired(w, e) ==
  /\ row[e].status = "processing"
  /\ TakeRow(w, e)

-----------------------------------------------------------------------------
(* Settling. *)

\* Variant: the settling UPDATE names the row only.
HoldsUnfenced(w) == claim[w].event \in Events

\* The fence of _settle: the row is still this worker's very attempt.
Holds(w) ==
  LET e == claim[w].event
  IN  /\ e \in Events
      /\ row[e].status = "processing"
      /\ row[e].claimed_by = w
      /\ row[e].attempts = claim[w].attempts

\* Variant: a refund gives two attempts back.
SettledRowDoubleRefund(e, out) ==
  [status |-> out.status, claimed_by |-> NoWorker,
   attempts |-> row[e].attempts - 2 * out.refund,
   code |-> out.code, last_error |-> out.last_error]

\* The row a settling UPDATE leaves behind.
SettledRow(e, out) ==
  [status |-> out.status, claimed_by |-> NoWorker,
   attempts |-> row[e].attempts - out.refund,
   code |-> out.code, last_error |-> out.last_error]

\* Whether some worker process is still running the attempt the row records.
HeldByLiveWorker(e) == \E w \in Workers : claim[w].event = e /\ Holds(w)

-----------------------------------------------------------------------------
QueueInit ==
  /\ row = [e \in Events |-> AbsentRow]
  /\ aged = {}
  /\ claim = [w \in Workers |-> NoClaim]

\* The codes the queue itself gives; an executor adds its own.
QueueCodes == {"", "ATTEMPTS_EXHAUSTED", "BLOCKED_HORIZON_EXCEEDED"}

RowType(codes) == [status : Statuses, claimed_by : Workers \cup {NoWorker},
                   attempts : Nat, code : codes, last_error : codes]
ClaimType == [event : Events \cup {NoEvent}, attempts : Nat]

QueueTypeOK(codes) ==
  /\ row \in [Events -> RowType(codes)]
  /\ aged \subseteq Events
  /\ claim \in [Workers -> ClaimType]
=============================================================================
