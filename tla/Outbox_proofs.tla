---------------------------- MODULE Outbox_proofs ----------------------------
(***************************************************************************)
(* The safety of the outbox, for any number of events and of dispatch      *)
(* processes: their runs may overlap, die at any point and mark what       *)
(* another one has marked already.  Only FinalStays needs that runs do not *)
(* overlap.                                                                *)
(***************************************************************************)
EXTENDS Outbox, WellFoundedInduction, TLAPS

\* A process only holds events that its destination carries, and only drains a
\* destination that is configured.
BatchInv ==
  \A d \in Dispatchers : batch[d] # {} =>
    target[d] \in Configured /\ batch[d] \subseteq Carried(target[d])

\* A delivery under way is that of an event in hand; if it was acknowledged, its
\* destination has the event, and only the ingress refuses for good.
ResultInv ==
  \A d \in Dispatchers :
    /\ result[d] # "none" => batch[d] # {}
    /\ result[d] = "ok" => Oldest(batch[d]) \in accepted[target[d]]
    /\ result[d] = "refused" => target[d] = "signed"

\* No count is ahead of the deliveries tried: not the table's, not the one read
\* with the batch, and not that one plus the delivery under way.
CountInv ==
  /\ \A e \in Events : attempts[e] <= tries[e]
  /\ \A d \in Dispatchers : \A e \in Events : seen[d][e] <= tries[e]
  /\ \A d \in Dispatchers :
       result[d] # "none" => seen[d][Oldest(batch[d])] + 1 <= tries[Oldest(batch[d])]

IInv ==
  /\ TypeOK
  /\ BatchInv
  /\ ResultInv
  /\ CountInv
  /\ DeliveredMeansAccepted
  /\ SentWhereCarried
  /\ DeadLetterWasTried
  /\ BudgetIsSpent

-----------------------------------------------------------------------------
(* The oldest event of a batch. *)

Less == {pair \in Nat \X Nat : pair[1] < pair[2]}

\* Every set of events has an oldest one, be it finite or not.
LEMMA OldestExists ==
  ASSUME NEW S, S \subseteq Events, S # {}
  PROVE  /\ Oldest(S) \in S
         /\ \A f \in S : Oldest(S) <= f
<1>1. IsWellFoundedOn(Less, Nat)
  BY NatLessThanWellFounded DEF OpToRel, Less
<1>2. S \subseteq Nat
  BY OutboxAssumption
<1>3. PICK e \in S : \A f \in S : ~(<<f, e>> \in Less)
  BY <1>1, <1>2, WFMin
<1>4. \A f \in S : e \in Int /\ f \in Int
  BY <1>2
<1>5. \A f \in S : <<f, e>> \in Less <=> f < e
  BY <1>2 DEF Less
<1>6. \A f \in S : ~(f < e)
  BY <1>3, <1>5
<1>7. \A f \in S : e <= f
  BY <1>4, <1>6
<1> QED
  BY <1>7 DEF Oldest

\* The event a process deals with is one of the events it may carry.
LEMMA OldestInHand ==
  ASSUME TypeOK, BatchInv, NEW d \in Dispatchers, batch[d] # {}
  PROVE  /\ Oldest(batch[d]) \in batch[d]
         /\ Oldest(batch[d]) \in Events
         /\ Oldest(batch[d]) \in Carried(target[d])
         /\ target[d] \in Configured
  BY OldestExists DEF TypeOK, BatchInv

-----------------------------------------------------------------------------
(* The initial state, and one lemma per part of the invariant. *)

\* The invariant holds before anything is recorded.
LEMMA InitIInv == Init => IInv
  BY OutboxAssumption
  DEF Init, IInv, TypeOK, BatchInv, ResultInv, CountInv, DeliveredMeansAccepted,
      SentWhereCarried, DeadLetterWasTried, BudgetIsSpent, Carried, Destinations, Final

-----------------------------------------------------------------------------
(* The steps of a process. *)

\* A mark that is justified by what the destination and the counts say.
Justified(d, to, tried) ==
  LET e == Oldest(batch[d])
  IN  /\ to \in {"delivered", "dead_letter", "retry"}
      /\ tried \in Nat /\ tried <= tries[e]
      /\ to = "delivered" => e \in accepted[DestinationOf(e)]
      /\ to = "dead_letter" => /\ tries[e] > 0
                               /\ e \in Carried("webhook") => tries[e] >= MaxAttempts

\* The process marks the oldest event of its batch and goes on.
MarksAs(d, to, tried) ==
  /\ batch[d] # {}
  /\ Justified(d, to, tried)
  /\ Mark(Oldest(batch[d]), to, tried)
  /\ DoneWith(d)

\* Every UPDATE of a dispatch process is justified, whoever wrote the row last
\* (service.dispatch_pending).
LEMMA MarksAreJustified ==
  ASSUME IInv, NEW d \in Dispatchers,
         GiveUp(d) \/ MarkDelivered(d) \/ MarkRefused(d) \/ MarkFailed(d)
  PROVE  \E to, tried : MarksAs(d, to, tried)
<1> DEFINE e == Oldest(batch[d])
<1>1. batch[d] # {}
  BY DEF IInv, ResultInv, GiveUp, Idle, MarkDelivered, MarkRefused, MarkFailed
<1>2. /\ e \in Events /\ e \in Carried(target[d])
      /\ target[d] \in Destinations
      /\ seen[d][e] \in Nat /\ tries[e] \in Nat /\ attempts[e] \in Nat
  BY <1>1, OldestInHand DEF IInv, TypeOK
<1>3. /\ target[d] = DestinationOf(e)
      /\ target[d] = "signed" => e \notin Carried("webhook")
  BY <1>2, OutboxAssumption DEF Carried, DestinationOf, Destinations
<1>4. CASE GiveUp(d)
  <2>1. Justified(d, "dead_letter", seen[d][e])
    BY <1>2, <1>3, <1>4 DEF GiveUp, TooLate, Justified, IInv, CountInv
  <2> QED
    BY <1>1, <1>4, <2>1 DEF GiveUp, MarksAs
<1>5. CASE MarkDelivered(d)
  <2>1. Justified(d, "delivered", attempts[e])
    BY <1>2, <1>3, <1>5 DEF MarkDelivered, Justified, IInv, CountInv, ResultInv
  <2> QED
    BY <1>1, <1>5, <2>1 DEF MarkDelivered, MarksAs
<1>6. CASE MarkRefused(d)
  <2>1. Justified(d, "dead_letter", seen[d][e] + 1)
    BY <1>2, <1>3, <1>6 DEF MarkRefused, Justified, IInv, CountInv, ResultInv
  <2> QED
    BY <1>1, <1>6, <2>1 DEF MarkRefused, MarksAs
<1>7. CASE MarkFailed(d)
  <2> DEFINE tried == seen[d][e] + 1
             to == IF Exhausted(target[d], e, tried) THEN "dead_letter" ELSE "retry"
  <2>1. tried \in Nat /\ tried > 0 /\ tried <= tries[e]
    BY <1>2, <1>7 DEF MarkFailed, IInv, CountInv
  <2>2. to = "dead_letter" /\ e \in Carried("webhook") => tries[e] >= MaxAttempts
    BY <1>2, <1>3, <2>1, OutboxAssumption DEF Exhausted
  <2>3. Justified(d, to, tried)
    BY <1>2, <2>1, <2>2 DEF Justified
  <2> QED
    BY <1>1, <1>7, <2>3 DEF MarkFailed, MarksAs
<1> QED
  BY <1>4, <1>5, <1>6, <1>7

\* A justified mark leaves the invariant as it is.
LEMMA MarkPreserves ==
  ASSUME IInv, NEW d \in Dispatchers, NEW to, NEW tried, MarksAs(d, to, tried)
  PROVE  IInv'
<1> DEFINE e == Oldest(batch[d])
<1>1. e \in Events /\ e \in batch[d]
  BY OldestInHand DEF IInv, MarksAs
<1> USE <1>1 DEF IInv, MarksAs, Justified, Mark, DoneWith, worldVars
<1>2. TypeOK'
  BY DEF TypeOK, Final
<1>3. BatchInv'
  BY DEF TypeOK, BatchInv, Carried
<1>4. ResultInv'
  BY DEF TypeOK, ResultInv
<1>5. CountInv'
  BY DEF TypeOK, CountInv
<1>6. DeliveredMeansAccepted'
  BY DEF TypeOK, DeliveredMeansAccepted
<1>7. SentWhereCarried'
  BY DEF TypeOK, SentWhereCarried
<1>8. DeadLetterWasTried' /\ BudgetIsSpent'
  BY DEF TypeOK, DeadLetterWasTried, BudgetIsSpent, Carried
<1> QED
  BY <1>2, <1>3, <1>4, <1>5, <1>6, <1>7, <1>8

\* Every delivery under the policies of the two destinations: an acknowledged one
\* was taken, and only the ingress refuses for good.
DeliversAs(d, out, took) ==
  /\ Deliver(d, out, took)
  /\ out \in {"ok", "failed", "refused"}
  /\ out = "ok" => took
  /\ out = "refused" => target[d] = "signed"

\* A delivery of the oldest event in hand keeps the invariant, whatever came of it.
LEMMA DeliverPreserves ==
  ASSUME IInv, NEW d \in Dispatchers, NEW out, NEW took \in BOOLEAN,
         DeliversAs(d, out, took)
  PROVE  IInv'
<1> DEFINE e == Oldest(batch[d])
<1>1. /\ e \in Events /\ e \in batch[d]
      /\ e \in Carried(target[d]) /\ target[d] \in Configured
  BY OldestInHand DEF IInv, DeliversAs, Deliver, Idle
<1>2. /\ \A x \in Events : tries'[x] \in Nat /\ tries'[x] >= tries[x]
      /\ tries'[e] = tries[e] + 1
      /\ tries' \in [Events -> Nat]
  BY <1>1 DEF IInv, TypeOK, DeliversAs, Deliver
<1>3. \A dst \in Destinations :
        accepted[dst] \subseteq accepted'[dst] /\ accepted'[dst] \subseteq Events
  BY <1>1 DEF IInv, TypeOK, DeliversAs, Deliver
<1> USE DEF IInv, DeliversAs, Deliver, tableVars
<1>4. TypeOK'
  BY <1>1, <1>2, <1>3 DEF TypeOK
<1>5. BatchInv'
  BY DEF TypeOK, BatchInv, Carried
<1>6. ResultInv'
  BY <1>1, <1>3 DEF TypeOK, ResultInv, Idle
<1>7. CountInv'
  BY <1>1, <1>2 DEF TypeOK, CountInv
<1>8. DeliveredMeansAccepted'
  BY <1>3 DEF TypeOK, DeliveredMeansAccepted, DestinationOf, Destinations
<1>9. SentWhereCarried'
  <2>1. target[d] \in Configured /\ e \in Events \ LegacyEvents /\ DestinationOf(e) = target[d]
    BY <1>1, OutboxAssumption DEF TypeOK, Carried, DestinationOf, Destinations
  <2>2. \A dst \in Destinations : accepted'[dst] \subseteq
          accepted[dst] \cup {x \in {e} : dst = target[d]}
    BY <1>1 DEF TypeOK
  <2> QED
    BY <2>1, <2>2 DEF SentWhereCarried, DestinationOf
<1>10. DeadLetterWasTried' /\ BudgetIsSpent'
  BY <1>2, OutboxAssumption DEF TypeOK, DeadLetterWasTried, BudgetIsSpent, Carried
<1> QED
  BY <1>4, <1>5, <1>6, <1>7, <1>8, <1>9, <1>10

\* The steps that read a batch, forget one, or end a run, and those of the business
\* transactions and of time.
LEMMA OthersPreserve ==
  ASSUME IInv,
         \/ \E d \in Dispatchers :
              Exit(d) \/ Crash(d) \/ MarkRaises(d) \/ \E dst \in Destinations : Read(d, dst)
         \/ Environment
  PROVE  IInv'
<1> USE OutboxAssumption DEF IInv
<1>1. ASSUME NEW d \in Dispatchers, NEW dst \in Destinations, Read(d, dst)
      PROVE  IInv'
  <2>1. /\ FirstOf(DueFor(dst)) \subseteq Carried(dst)
        /\ Carried(dst) \subseteq Events
        /\ dst \in Configured
    BY <1>1 DEF Read, Turn, FirstOf, DueFor, Carried
  <2> HIDE DEF FirstOf, DueFor
  <2>2. TypeOK'
    BY <1>1, <2>1 DEF Read, TypeOK, tableVars, worldVars
  <2>3. BatchInv'
    BY <1>1, <2>1 DEF Read, TypeOK, BatchInv, Carried
  <2>4. ResultInv'
    BY <1>1 DEF Read, TypeOK, ResultInv, Idle, worldVars
  <2>5. CountInv'
    BY <1>1, <2>4 DEF Read, TypeOK, CountInv, ResultInv, Idle, tableVars, worldVars
  <2> QED
    BY <1>1, <2>2, <2>3, <2>4, <2>5
    DEF Read, tableVars, worldVars, DeliveredMeansAccepted, SentWhereCarried,
        DeadLetterWasTried, BudgetIsSpent, Carried
<1>2. ASSUME NEW d \in Dispatchers, Exit(d) \/ Crash(d) \/ MarkRaises(d)
      PROVE  IInv'
  <2> USE DEF tableVars, worldVars, TypeOK
  <2>1. TypeOK'
    <3>1. CASE Exit(d)
      BY <3>1 DEF Exit
    <3>2. CASE Crash(d)
      BY <3>2 DEF Crash
    <3>3. CASE MarkRaises(d)
      BY <3>3 DEF MarkRaises
    <3> QED
      BY <1>2, <3>1, <3>2, <3>3
  <2>2. BatchInv'
    BY <1>2 DEF Exit, Crash, MarkRaises, BatchInv, Carried
  <2>3. ResultInv'
    BY <1>2 DEF Exit, Crash, MarkRaises, ResultInv, Idle
  <2>4. CountInv'
    <3>1. CASE Exit(d)
      BY <3>1 DEF Exit, CountInv
    <3>2. CASE Crash(d)
      BY <3>2 DEF Crash, CountInv
    <3>3. CASE MarkRaises(d)
      BY <3>3 DEF MarkRaises, CountInv
    <3> QED
      BY <1>2, <3>1, <3>2, <3>3
  <2> QED
    BY <1>2, <2>1, <2>2, <2>3, <2>4
    DEF Exit, Crash, MarkRaises, DeliveredMeansAccepted, SentWhereCarried,
        DeadLetterWasTried, BudgetIsSpent, Carried
<1>3. ASSUME NEW e \in Events, Record(e) \/ BackoffElapses(e) \/ HorizonPasses(e)
      PROVE  IInv'
  <2> USE <1>3 DEF Record, BackoffElapses, HorizonPasses, tableVars, runVars, worldVars
  <2>1. TypeOK'
    BY DEF TypeOK
  <2>2. BatchInv' /\ ResultInv' /\ CountInv'
    BY DEF TypeOK, BatchInv, ResultInv, CountInv, Carried
  <2> QED
    BY <2>1, <2>2
    DEF TypeOK, DeliveredMeansAccepted, SentWhereCarried, DeadLetterWasTried, BudgetIsSpent,
        Carried
<1> QED
  BY <1>1, <1>2, <1>3 DEF Environment

\* Each delivery of Step is one of DeliversAs.
LEMMA DeliveriesPreserve ==
  ASSUME IInv, NEW d \in Dispatchers,
         Accepted(d) \/ Unanswered(d) \/ Failed(d) \/ RefusedForGood(d)
  PROVE  IInv'
<1>1. \E out, took : took \in BOOLEAN /\ DeliversAs(d, out, took)
  <2>1. ASSUME Accepted(d) PROVE DeliversAs(d, "ok", TRUE)
    BY <2>1 DEF Accepted, DeliversAs
  <2>2. ASSUME Unanswered(d) PROVE DeliversAs(d, "failed", TRUE)
    BY <2>2 DEF Unanswered, DeliversAs
  <2>3. ASSUME Failed(d) PROVE DeliversAs(d, "failed", FALSE)
    BY <2>3 DEF Failed, DeliversAs
  <2>4. ASSUME RefusedForGood(d) PROVE DeliversAs(d, "refused", FALSE)
    BY <2>4 DEF RefusedForGood, DeliversAs
  <2> QED
    BY <2>1, <2>2, <2>3, <2>4
<1> QED
  BY <1>1, DeliverPreserves

\* Every step of a dispatch process, and of its environment, keeps the invariant.
LEMMA StepIInv ==
  ASSUME IInv, [Next]_vars
  PROVE  IInv'
<1>1. CASE UNCHANGED vars
  BY <1>1 DEF vars, tableVars, runVars, worldVars, IInv, TypeOK, BatchInv, ResultInv, CountInv,
              DeliveredMeansAccepted, SentWhereCarried, DeadLetterWasTried, BudgetIsSpent,
              Carried
<1>2. ASSUME NEW d \in Dispatchers,
             GiveUp(d) \/ MarkDelivered(d) \/ MarkRefused(d) \/ MarkFailed(d)
      PROVE  IInv'
  BY <1>2, MarksAreJustified, MarkPreserves
<1> QED
  BY <1>1, <1>2, DeliveriesPreserve, OthersPreserve DEF Next, Step

-----------------------------------------------------------------------------
(* The theorems. *)

\* The inductive invariant holds in every run of any number of processes.
THEOREM Invariance == Spec => []IInv
BY InitIInv, StepIInv, PTL DEF Spec

\* Every variable keeps its type; no status is one nothing else knows.
THEOREM TypeCorrect == Spec => []TypeOK
BY Invariance, PTL DEF IInv

\* An event marked delivered was accepted by its destination (MarkDelivered), even
\* if another process has marked it differently in between.
THEOREM Delivered == Spec => []DeliveredMeansAccepted
BY Invariance, PTL DEF IInv

\* Nothing reaches a destination that is not configured or not the event's own.
THEOREM Routed == Spec => []SentWhereCarried
BY Invariance, PTL DEF IInv

\* No event is given up untried (TooLate's first attempt).
THEOREM Tried == Spec => []DeadLetterWasTried
BY Invariance, PTL DEF IInv

\* A webhook event is given up only after MaxAttempts deliveries, also if overlapping
\* processes or crashes leave stale counts behind.
THEOREM BudgetSpent == Spec => []BudgetIsSpent
BY Invariance, PTL DEF IInv

-----------------------------------------------------------------------------
(* What a step never does to the status of an event. *)

OutageStep ==
  \A e \in SignedEvents :
    status[e] # "dead_letter" /\ status'[e] = "dead_letter" =>
      \/ e \in aged
      \/ \E d \in Dispatchers :
           ~Idle(d) /\ e = Oldest(batch[d]) /\ result[d] = "refused"

FinalStep == \A e \in Events : status[e] \in Final => status'[e] = status[e]

\* Of all steps only those of business transactions and the four marks write a
\* status; Record writes that of an absent event.
LEMMA StatusFrame ==
  ASSUME TypeOK, Next
  PROVE  \/ UNCHANGED status
         \/ \E e \in Events : Record(e)
         \/ \E d \in Dispatchers :
              GiveUp(d) \/ MarkDelivered(d) \/ MarkRefused(d) \/ MarkFailed(d)
<1>1. ASSUME NEW d \in Dispatchers,
             Accepted(d) \/ Unanswered(d) \/ Failed(d) \/ RefusedForGood(d)
      PROVE  UNCHANGED status
  BY <1>1 DEF Accepted, Unanswered, Failed, RefusedForGood, Deliver, tableVars
<1>2. ASSUME NEW d \in Dispatchers,
             \/ Exit(d) \/ Crash(d) \/ MarkRaises(d)
             \/ \E dst \in Destinations : Read(d, dst)
      PROVE  UNCHANGED status
  BY <1>2 DEF Exit, Crash, MarkRaises, Read, tableVars
<1>3. ASSUME NEW e \in Events, BackoffElapses(e) \/ HorizonPasses(e)
      PROVE  UNCHANGED status
  BY <1>3 DEF BackoffElapses, HorizonPasses, tableVars
<1> QED
  BY <1>1, <1>2, <1>3 DEF Next, Step, Environment

\* Unless the ingress refused it, a signed event is given up only past its horizon
\* (SIGNED_POLICY), whatever other processes have written in the meantime.
THEOREM Outage == Spec => OutageRiddenOut
<1>1. ASSUME IInv, Next PROVE OutageStep
  <2> SUFFICES ASSUME NEW e \in SignedEvents,
                      status[e] # "dead_letter", status'[e] = "dead_letter"
               PROVE  \/ e \in aged
                      \/ \E d \in Dispatchers :
                           ~Idle(d) /\ e = Oldest(batch[d]) /\ result[d] = "refused"
    BY DEF OutageStep
  <2>1. e \in Events
    BY OutboxAssumption
  <2>2. ~\E f \in Events : Record(f)
    BY <1>1, <2>1 DEF Record, IInv, TypeOK
  <2>3. PICK d \in Dispatchers :
          GiveUp(d) \/ MarkDelivered(d) \/ MarkRefused(d) \/ MarkFailed(d)
    BY <1>1, <2>2, StatusFrame DEF IInv
  <2>4. ~Idle(d) /\ Oldest(batch[d]) \in Carried(target[d])
    BY <1>1, <2>3, OldestInHand
    DEF IInv, ResultInv, GiveUp, MarkDelivered, MarkRefused, MarkFailed, Idle
  <2>5. e = Oldest(batch[d])
    BY <1>1, <2>1, <2>3 DEF GiveUp, MarkDelivered, MarkRefused, MarkFailed, Mark, IInv, TypeOK
  <2>6. target[d] = "signed"
    BY <2>4, <2>5 DEF Carried
  <2>7. CASE GiveUp(d)
    BY <2>5, <2>7 DEF GiveUp, TooLate
  <2>8. CASE MarkDelivered(d)
    BY <1>1, <2>1, <2>5, <2>8 DEF MarkDelivered, Mark, IInv, TypeOK
  <2>9. CASE MarkRefused(d)
    BY <2>4, <2>5, <2>9 DEF MarkRefused
  <2>10. CASE MarkFailed(d)
    BY <1>1, <2>1, <2>5, <2>6, <2>10 DEF MarkFailed, Mark, Exhausted, IInv, TypeOK
  <2> QED
    BY <2>3, <2>7, <2>8, <2>9, <2>10
<1>2. IInv /\ [Next]_vars => [OutageStep]_vars
  BY <1>1
<1> QED
  BY <1>2, Invariance, PTL DEF Spec, OutageRiddenOut, OutageStep

\* One process at a time: the events in its hand are as open as when it read them.
OpenInv ==
  \A d \in Dispatchers : \A e \in batch[d] : status[e] \in {"pending", "retry"}

\* No other process takes them out of that state.
LEMMA OneProcessKeepsOpen ==
  ASSUME \A c, d \in Dispatchers : c = d,
         IInv, OpenInv, [Next]_vars
  PROVE  OpenInv'
<1> USE DEF OpenInv, IInv, TypeOK
<1>1. CASE UNCHANGED vars
  BY <1>1 DEF vars, tableVars, runVars
<1>2. ASSUME NEW e \in Events, Record(e) \/ BackoffElapses(e) \/ HorizonPasses(e)
      PROVE  OpenInv'
  BY <1>2 DEF Record, BackoffElapses, HorizonPasses, tableVars, runVars
<1>3. ASSUME NEW d \in Dispatchers, NEW dst \in Destinations, Read(d, dst)
      PROVE  OpenInv'
  BY <1>3 DEF Read, FirstOf, DueFor, tableVars
<1>4. ASSUME NEW d \in Dispatchers, Exit(d) \/ Crash(d) \/ MarkRaises(d)
      PROVE  OpenInv'
  BY <1>4 DEF Exit, Crash, MarkRaises, tableVars
<1>5. ASSUME NEW d \in Dispatchers,
             Accepted(d) \/ Unanswered(d) \/ Failed(d) \/ RefusedForGood(d)
      PROVE  OpenInv'
  BY <1>5 DEF Accepted, Unanswered, Failed, RefusedForGood, Deliver, tableVars
<1>6. ASSUME NEW d \in Dispatchers,
             GiveUp(d) \/ MarkDelivered(d) \/ MarkRefused(d) \/ MarkFailed(d)
      PROVE  OpenInv'
  <2>1. PICK to, tried : MarksAs(d, to, tried)
    BY <1>6, MarksAreJustified
  <2>2. \A c \in Dispatchers : c = d /\ batch'[c] = batch[d] \ {Oldest(batch[d])}
    BY <2>1 DEF MarksAs, DoneWith
  <2>3. \A e \in Events : e # Oldest(batch[d]) => status'[e] = status[e]
    BY <2>1 DEF MarksAs, Mark
  <2> QED
    BY <2>2, <2>3
<1> QED
  BY <1>1, <1>2, <1>3, <1>4, <1>5, <1>6 DEF Next, Step, Environment

\* If runs do not overlap, a delivered or dead-lettered event stays so.  (With two
\* processes at once it does not: Mark has no fence.)
THEOREM FinalWithoutOverlap ==
  ASSUME \A c, d \in Dispatchers : c = d
  PROVE  Spec => FinalStays
<1>1. Init => OpenInv
  BY DEF Init, OpenInv
<1>2. IInv /\ OpenInv /\ [Next]_vars => OpenInv'
  BY OneProcessKeepsOpen
<1>3. ASSUME IInv, OpenInv, Next PROVE FinalStep
  <2>1. ASSUME NEW e \in Events, Record(e) PROVE FinalStep
    BY <1>3, <2>1 DEF Record, FinalStep, Final, IInv, TypeOK
  <2>2. ASSUME NEW d \in Dispatchers,
               GiveUp(d) \/ MarkDelivered(d) \/ MarkRefused(d) \/ MarkFailed(d)
        PROVE  FinalStep
    <3>1. PICK to, tried : MarksAs(d, to, tried)
      BY <1>3, <2>2, MarksAreJustified
    <3>2. Oldest(batch[d]) \in batch[d]
      BY <1>3, <3>1, OldestInHand DEF IInv, MarksAs
    <3> QED
      BY <1>3, <3>1, <3>2 DEF MarksAs, Mark, FinalStep, Final, OpenInv, IInv, TypeOK
  <2>3. ASSUME UNCHANGED status PROVE FinalStep
    BY <2>3 DEF FinalStep
  <2> QED
    BY <1>3, <2>1, <2>2, <2>3, StatusFrame DEF IInv
<1>4. IInv /\ OpenInv /\ [Next]_vars => [FinalStep]_vars
  BY <1>3
<1> QED
  BY <1>1, <1>2, <1>4, Invariance, PTL DEF Spec, FinalStays, FinalStep
=============================================================================
