------------------------------- MODULE Outbox -------------------------------
(***************************************************************************)
(* The transactional outbox and the dispatch worker that drains it         *)
(* (modules/outbox, modules/application/dispatch_worker.py).  Business     *)
(* transactions record events; each run of a dispatch process drains the   *)
(* configured destinations one after the other: it reads a batch of due    *)
(* events, then delivers and marks them one at a time, oldest first.       *)
(*                                                                         *)
(* provisioning.changed goes to the Control Plane ingress ("signed"),      *)
(* retried until a horizon of 72 hours; every other canonical event goes   *)
(* to the webhook, retried MaxAttempts times.  Legacy events are held.     *)
(* Marks are not fenced: they name the event only.                         *)
(*                                                                         *)
(* Events are numbered by their business time.  Time is abstracted: a      *)
(* backoff elapses (due) and an event passes its horizon (aged) at some    *)
(* later moment.  An event that is not in the table has status "absent".   *)
(***************************************************************************)
EXTENDS Integers, FiniteSets

CONSTANTS
  Events,       \* events by business time, oldest first
  SignedEvents, \* those of type provisioning.changed
  LegacyEvents, \* those in the legacy envelope
  Dispatchers,  \* dispatch processes; one, unless runs overlap
  Configured,   \* the configured destinations
  MaxAttempts,  \* outbox.service.MAX_ATTEMPTS
  Limit,        \* events read per batch
  TriesBound    \* bound: deliveries tried per event (a crash repeats one)

ASSUME OutboxAssumption ==
  /\ Events \subseteq Nat
  /\ IsFiniteSet(Events)
  /\ SignedEvents \subseteq Events
  /\ LegacyEvents \subseteq Events \ SignedEvents
  /\ Configured \subseteq {"signed", "webhook"}
  /\ MaxAttempts \in Nat \ {0}
  /\ Limit \in Nat \ {0}
  /\ TriesBound \in Nat

VARIABLES
  status,    \* baobab.event_outbox.status
  attempts,  \* baobab.event_outbox.attempts
  due,       \* retried events whose next_attempt_at has passed
  aged,      \* events recorded longer than the horizon ago
  drained,   \* drained[d]: destinations the process has drained in this run
  batch,     \* batch[d]: the events read and not yet dealt with
  seen,      \* seen[d][e]: the attempts read with the batch
  target,    \* target[d]: the destination being drained
  result,    \* result[d]: how the delivery under way ended
  accepted,  \* accepted[dst]: events the destination has taken
  tries      \* tries[e]: deliveries of the event tried so far

tableVars == <<status, attempts, due>>
runVars == <<drained, batch, seen, target, result>>
worldVars == <<accepted, tries>>
vars == <<tableVars, aged, runVars, worldVars>>

Destinations == {"signed", "webhook"}
Final == {"delivered", "dead_letter"}

\* SIGNED_TYPES and its complement; held events are of neither.
Carried(dst) ==
  IF dst = "signed" THEN SignedEvents ELSE Events \ (SignedEvents \cup LegacyEvents)

DestinationOf(e) == IF e \in SignedEvents THEN "signed" ELSE "webhook"

Oldest(S) == CHOOSE e \in S : \A f \in S : e <= f

\* ORDER BY occurred_at LIMIT Limit
FirstOf(S) == {e \in S : Cardinality({f \in S : f < e}) < Limit}

-----------------------------------------------------------------------------
(* Recording, in the transaction of the business change. *)

Record(e) ==
  /\ status[e] = "absent"
  /\ status' = [status EXCEPT ![e] = IF e \in LegacyEvents THEN "held" ELSE "pending"]
  /\ UNCHANGED <<attempts, due, aged, runVars, worldVars>>

BackoffElapses(e) ==
  /\ status[e] = "retry"
  /\ e \notin due
  /\ due' = due \cup {e}
  /\ UNCHANGED <<status, attempts, aged, runVars, worldVars>>

\* Only SIGNED_POLICY has a horizon.
HorizonPasses(e) ==
  /\ e \in SignedEvents
  /\ status[e] # "absent"
  /\ e \notin aged
  /\ aged' = aged \cup {e}
  /\ UNCHANGED <<tableVars, runVars, worldVars>>

-----------------------------------------------------------------------------
(* A run of the dispatch worker. *)

Idle(d) == batch[d] = {}

\* Variant: only the date of the next attempt is looked at, not the status.
DueForAnyStatus(dst) ==
  {e \in Carried(dst) : status[e] \in {"pending"} \cup Final \/ e \in due}

\* Events due for a destination: never attempted, or retried and due again.
DueFor(dst) ==
  {e \in Carried(dst) : status[e] = "pending" \/ (status[e] = "retry" /\ e \in due)}

\* The destination a run turns to next: the signed one first.
Turn(d, dst) ==
  /\ dst \in Configured \ drained[d]
  /\ dst = "webhook" => "signed" \notin Configured \ drained[d]

\* pending(limit): the oldest due events with the attempts they had.
Read(d, dst) ==
  /\ Idle(d)
  /\ Turn(d, dst)
  /\ batch' = [batch EXCEPT ![d] = FirstOf(DueFor(dst))]
  /\ seen' = [seen EXCEPT ![d] =
                [e \in Events |-> IF e \in FirstOf(DueFor(dst)) THEN attempts[e] ELSE 0]]
  /\ target' = [target EXCEPT ![d] = dst]
  /\ drained' = [drained EXCEPT ![d] = @ \cup {dst}]
  /\ UNCHANGED <<tableVars, aged, result, worldVars>>

\* The process reports and exits; the scheduler starts another one later.
Exit(d) ==
  /\ Idle(d)
  /\ drained[d] = Configured
  /\ drained' = [drained EXCEPT ![d] = {}]
  /\ UNCHANGED <<tableVars, aged, batch, seen, target, result, worldVars>>

\* The process dies, or the database refuses a mark: the batch is forgotten.
Crash(d) ==
  /\ ~Idle(d)
  /\ batch' = [batch EXCEPT ![d] = {}]
  /\ seen' = [seen EXCEPT ![d] = [e \in Events |-> 0]]
  /\ result' = [result EXCEPT ![d] = "none"]
  /\ drained' = [drained EXCEPT ![d] = {}]
  /\ UNCHANGED <<tableVars, aged, target, worldVars>>

\* The loop goes on to the next event of the batch.
DoneWith(d) ==
  /\ batch' = [batch EXCEPT ![d] = @ \ {Oldest(@)}]
  /\ seen' = [seen EXCEPT ![d][Oldest(batch[d])] = 0]
  /\ result' = [result EXCEPT ![d] = "none"]
  /\ UNCHANGED <<aged, drained, target, worldVars>>

\* The unfenced UPDATEs of the store.
Mark(e, to, tried) ==
  /\ status' = [status EXCEPT ![e] = to]
  /\ attempts' = [attempts EXCEPT ![e] = tried]
  /\ due' = due \ {e}

\* Variant: an event past the horizon is not even tried once.
TooLateUntried(d) == target[d] = "signed" /\ Oldest(batch[d]) \in aged

\* A retry that came due after the horizon; a first attempt is always made.
TooLate(d) ==
  LET e == Oldest(batch[d])
  IN  target[d] = "signed" /\ seen[d][e] > 0 /\ e \in aged

\* Variant: given up under a status nothing else knows.
GiveUpAsExpired(d) ==
  LET e == Oldest(batch[d])
  IN  /\ ~Idle(d)
      /\ result[d] = "none"
      /\ TooLate(d)
      /\ Mark(e, "expired", seen[d][e])
      /\ DoneWith(d)

GiveUp(d) ==
  LET e == Oldest(batch[d])
  IN  /\ ~Idle(d)
      /\ result[d] = "none"
      /\ TooLate(d)
      /\ Mark(e, "dead_letter", seen[d][e])
      /\ DoneWith(d)

\* One delivery ends in out; took says whether the destination has the event.
Deliver(d, out, took) ==
  LET e == Oldest(batch[d])
  IN  /\ ~Idle(d)
      /\ result[d] = "none"
      /\ ~TooLate(d)
      /\ tries[e] < TriesBound
      /\ tries' = [tries EXCEPT ![e] = @ + 1]
      /\ accepted' = IF took THEN [accepted EXCEPT ![target[d]] = @ \cup {e}] ELSE accepted
      /\ result' = [result EXCEPT ![d] = out]
      /\ UNCHANGED <<tableVars, aged, drained, batch, seen, target>>

\* Variant: any answer counts as a receipt.
AcceptedUnchecked(d) == \E took \in BOOLEAN : Deliver(d, "ok", took)

\* A receipt for this very event (202 or 200), or a 2xx of the webhook.
Accepted(d) == Deliver(d, "ok", TRUE)

\* The destination took the event but its answer was lost or not a receipt.
Unanswered(d) == Deliver(d, "failed", TRUE)

\* The destination or the network failed.
Failed(d) == Deliver(d, "failed", FALSE)

\* HTTP 400, 409, 413 or 422 of the ingress, or a body above the limit: no retry
\* can help.
RefusedForGood(d) == target[d] = "signed" /\ Deliver(d, "refused", FALSE)

MarkDelivered(d) ==
  LET e == Oldest(batch[d])
  IN  /\ result[d] = "ok"
      /\ Mark(e, "delivered", attempts[e])
      /\ DoneWith(d)

\* The commit of the mark is refused inside the try: the delivery is handled as
\* one that failed.
MarkRaises(d) ==
  /\ result[d] = "ok"
  /\ result' = [result EXCEPT ![d] = "failed"]
  /\ UNCHANGED <<tableVars, aged, drained, batch, seen, target, worldVars>>

MarkRefused(d) ==
  LET e == Oldest(batch[d])
  IN  /\ result[d] = "refused"
      /\ Mark(e, "dead_letter", seen[d][e] + 1)
      /\ DoneWith(d)

\* Variant: one policy for both destinations.
ExhaustedByCount(dst, e, tried) == tried >= MaxAttempts

\* Variant: the attempt under way is counted twice.
ExhaustedEarly(dst, e, tried) ==
  IF dst = "signed" THEN e \in aged ELSE tried + 1 >= MaxAttempts

\* Variant: no end to the retries.
ExhaustedNever(dst, e, tried) == FALSE

\* SIGNED_POLICY is bound by time, the webhook's RetryPolicy() by tries.
Exhausted(dst, e, tried) ==
  IF dst = "signed" THEN e \in aged ELSE tried >= MaxAttempts

MarkFailed(d) ==
  LET e == Oldest(batch[d])
      tried == seen[d][e] + 1
  IN  /\ result[d] = "failed"
      /\ Mark(e, IF Exhausted(target[d], e, tried) THEN "dead_letter" ELSE "retry", tried)
      /\ DoneWith(d)

-----------------------------------------------------------------------------
Init ==
  /\ status = [e \in Events |-> "absent"]
  /\ attempts = [e \in Events |-> 0]
  /\ due = {}
  /\ aged = {}
  /\ drained = [d \in Dispatchers |-> {}]
  /\ batch = [d \in Dispatchers |-> {}]
  /\ seen = [d \in Dispatchers |-> [e \in Events |-> 0]]
  /\ target = [d \in Dispatchers |-> "signed"]
  /\ result = [d \in Dispatchers |-> "none"]
  /\ accepted = [dst \in Destinations |-> {}]
  /\ tries = [e \in Events |-> 0]

Step(d) ==
  \/ \E dst \in Destinations : Read(d, dst)
  \/ Exit(d) \/ GiveUp(d)
  \/ Accepted(d) \/ Unanswered(d) \/ Failed(d) \/ RefusedForGood(d)
  \/ MarkDelivered(d) \/ MarkRaises(d) \/ MarkRefused(d) \/ MarkFailed(d)

Environment == \E e \in Events : Record(e) \/ BackoffElapses(e) \/ HorizonPasses(e)

Next == Environment \/ \E d \in Dispatchers : Step(d) \/ Crash(d)

Spec == Init /\ [][Next]_vars

-----------------------------------------------------------------------------
(* Properties. *)

TypeOK ==
  /\ status \in [Events -> {"absent", "held", "pending", "retry"} \cup Final]
  /\ attempts \in [Events -> Nat]
  /\ due \subseteq Events
  /\ aged \subseteq Events
  /\ drained \in [Dispatchers -> SUBSET Configured]
  /\ batch \in [Dispatchers -> SUBSET Events]
  /\ seen \in [Dispatchers -> [Events -> Nat]]
  /\ target \in [Dispatchers -> Destinations]
  /\ result \in [Dispatchers -> {"none", "ok", "failed", "refused"}]
  /\ accepted \in [Destinations -> SUBSET Events]
  /\ tries \in [Events -> Nat]

\* An event marked delivered was durably accepted by the destination it is
\* for, through crashes, lost answers and, if runs overlap, stale marks.
DeliveredMeansAccepted ==
  \A e \in Events : status[e] = "delivered" => e \in accepted[DestinationOf(e)]

\* provisioning.changed is never sent to the webhook, a held event never sent
\* at all, and nothing goes to a destination that is not configured.
SentWhereCarried ==
  \A dst \in Destinations :
    accepted[dst] \subseteq IF dst \in Configured THEN
                              {e \in Events \ LegacyEvents : DestinationOf(e) = dst}
                            ELSE {}

\* An event that was never attempted always gets its first attempt, however
\* late: none becomes a dead letter untried.
DeadLetterWasTried ==
  \A e \in Events : status[e] = "dead_letter" => tries[e] > 0

\* Unless the ingress refused it, a signed event is given up only past its
\* horizon ("an outage of any length under the horizon is ridden out").
OutageRiddenOut ==
  [][\A e \in SignedEvents :
       status[e] # "dead_letter" /\ status'[e] = "dead_letter" =>
         \/ e \in aged
         \/ \E d \in Dispatchers :
              ~Idle(d) /\ e = Oldest(batch[d]) /\ result[d] = "refused"]_vars

\* A webhook event is given up only after MaxAttempts real tries: crashes and
\* stale counts never use up its budget.
BudgetIsSpent ==
  \A e \in Carried("webhook") : status[e] = "dead_letter" => tries[e] >= MaxAttempts

\* Delivered and dead-lettered events stay so: "Stop trying; the event is for
\* an operator".
FinalStays ==
  [][\A e \in Events : status[e] \in Final => status'[e] = status[e]]_vars

-----------------------------------------------------------------------------
(* The schedule under which every event comes to an end. *)

\* A process that does die, with a delivery made and not marked, but not on every
\* attempt of an event.
CrashSometimes(d) ==
  Crash(d) /\ result[d] # "none" /\ tries[Oldest(batch[d])] < MaxAttempts

\* The scheduler starts run after run, a running process goes on, and backoffs
\* and the horizon elapse.
TimelySpec ==
  /\ Init
  /\ [][Environment \/ \E d \in Dispatchers : Step(d) \/ CrashSometimes(d)]_vars
  /\ \A d \in Dispatchers : WF_vars(Step(d))
  /\ \A e \in Events : WF_vars(BackoffElapses(e)) /\ WF_vars(HorizonPasses(e))

\* Every event recorded for a configured destination is eventually delivered or
\* dead-lettered; older events never keep it waiting for ever.
EventuallyFinal ==
  \A e \in Events \ LegacyEvents :
    DestinationOf(e) \in Configured =>
      (status[e] = "pending" ~> status[e] \in Final)
=============================================================================
