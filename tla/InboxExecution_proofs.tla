------------------------ MODULE InboxExecution_proofs ------------------------
(***************************************************************************)
(* What the proofs about the executors of inbox rows share: the invariant  *)
(* of a worker's claim, lock and outcome, and what the steps the executors *)
(* have in common do to it and to the rows.  An executor's codes are       *)
(* parameters: they include those of InboxExecution.                       *)
(***************************************************************************)
EXTENDS InboxExecution, TLAPS

OpenStatuses == {"processed", "retry", "blocked", "dead_letter"}

\* A busy worker has a claim, and counts itself among the row's attempts.
ClaimInv ==
  \A w \in Workers : pc[w] # "idle" => claim[w].event \in Events /\ claim[w].attempts > 0

\* A worker inside the section is the one the key's lock names.
LockInv ==
  \A w \in Workers : pc[w] \in Section => lock[KeyAt(w)] = w

\* An outcome that may stand at a step: only leaving the section may find the
\* row settled already.
EndsOpen(step, status) ==
  status \in OpenStatuses \/ (step \in Section /\ status = "closed")

\* An attempt waiting to be settled has an outcome.
EndedInv ==
  \A w \in Workers : pc[w] \in {"unlock", "settle"} => EndsOpen(pc[w], outcome[w].status)

AttemptInv == ClaimInv /\ LockInv /\ EndedInv

QueueStep(e) == Ingress(e) \/ Operator(e) \/ Clock(e)

Begin(w, e) == BeginDue(w, e) \/ BeginExpired(w, e)

\* The common steps that only end an attempt.
CommonEnding(w) ==
  RefusePayload(w) \/ BlockUnplaced(w) \/ Contend(w) \/ FindFails(w) \/ CreateFails(w)

CommonStep(w) == CommonEngineStep(w) \/ CommonSessionStep(w) \/ Crash(w)

-----------------------------------------------------------------------------
(* The records the actions build have their types. *)

CommonOutcomes == {Blocked, Refused, Transient, Contended("CONTENDED")}

\* The outcomes the executors share leave a row open: retried, blocked or dead.
LEMMA CommonOutcomeTypes ==
  ASSUME NEW codes, CommonCodes \subseteq codes
  PROVE  /\ \A out \in CommonOutcomes :
              /\ out \in OutcomeTypeOf(codes)
              /\ out.status \in OpenStatuses \ {"processed"}
         /\ NoOutcome \in OutcomeTypeOf(codes)
<1> USE DEF Detailed, Outcome, OutcomeTypeOf, QueueCodes, CommonCodes, OpenStatuses, Statuses,
            Waiting, Settled
<1>1. Blocked \in OutcomeTypeOf(codes) /\ Blocked.status = "blocked"
  BY DEF Blocked
<1>2. Refused \in OutcomeTypeOf(codes) /\ Refused.status = "dead_letter"
  BY DEF Refused
<1>3. Transient \in OutcomeTypeOf(codes) /\ Transient.status = "retry"
  BY DEF Transient
<1>4. /\ Contended("CONTENDED") \in OutcomeTypeOf(codes)
      /\ Contended("CONTENDED").status = "retry"
  BY DEF Contended
<1>5. NoOutcome \in OutcomeTypeOf(codes)
  BY DEF NoOutcome
<1> QED
  BY <1>1, <1>2, <1>3, <1>4, <1>5 DEF CommonOutcomes

\* So do the outcomes of a worker that committed, or found its lease lost.
LEMMA ClosedType ==
  ASSUME NEW codes, NEW code \in codes, "" \in codes
  PROVE  Closed(code) \in OutcomeTypeOf(codes) /\ Closed(code).status = "closed"
BY DEF Closed, Detailed, Outcome, OutcomeTypeOf

\* And the outcome an executor settles a row with when it is done.
LEMMA ProcessedType ==
  ASSUME NEW codes, NEW code \in codes, "" \in codes
  PROVE  /\ Outcome("processed", code) \in OutcomeTypeOf(codes)
         /\ Outcome("processed", code).status = "processed"
         /\ Outcome("processed", code).code = code
BY DEF Detailed, Outcome, OutcomeTypeOf, Statuses, Settled

\* The rows and claims of the queue, and a worker without one, have their types.
LEMMA RecordTypes ==
  ASSUME NEW codes, CommonCodes \subseteq codes, NEW foundCodes, "" \in foundCodes
  PROVE  /\ NoClaim \in ClaimType
         /\ NoFound \in FoundTypeOf(foundCodes)
         /\ AbsentRow \in RowType(codes)
         /\ FreshRow("received") \in RowType(codes)
<1>1. NoClaim \in ClaimType
  BY DEF NoClaim, ClaimType
<1>2. NoFound \in FoundTypeOf(foundCodes)
  BY DEF NoFound, FoundTypeOf
<1>3. AbsentRow \in RowType(codes) /\ FreshRow("received") \in RowType(codes)
  BY DEF AbsentRow, FreshRow, RowType, Statuses, Waiting, Settled, CommonCodes, QueueCodes
<1> QED
  BY <1>1, <1>2, <1>3

\* A row that is taken stays a row.
LEMMA TakenType ==
  ASSUME NEW codes, NEW r \in RowType(codes), NEW w \in Workers
  PROVE  TakenRow(w, r) \in RowType(codes)
BY DEF TakenRow, RowType, Statuses

\* The budgets turn an open outcome into an open outcome, and neither make nor
\* unmake a processed one.
LEMMA FailureType ==
  ASSUME NEW codes, CommonCodes \subseteq codes,
         NEW out \in OutcomeTypeOf(codes), out.status \in OpenStatuses,
         NEW e, NEW n \in Nat
  PROVE  /\ FailureOutcome(e, out, n) \in OutcomeTypeOf(codes)
         /\ FailureOutcome(e, out, n).status \in OpenStatuses
         /\ out.status = "processed" => FailureOutcome(e, out, n) = out
         /\ FailureOutcome(e, out, n).status = "processed" => FailureOutcome(e, out, n) = out
<1>1. FailureOutcome(e, out, n) \in OutcomeTypeOf(codes)
  BY QueueAssumption DEF Detailed, OpenStatuses, OutcomeTypeOf, CommonCodes, QueueCodes,
                         FailureOutcome, Statuses, Waiting, Settled
<1>2. out.status = "processed" => FailureOutcome(e, out, n) = out
  BY DEF FailureOutcome
<1>3. out.status # "processed" =>
        FailureOutcome(e, out, n).status \in OpenStatuses \ {"processed"}
  BY DEF FailureOutcome, Detailed, OpenStatuses
<1> QED
  BY <1>1, <1>2, <1>3 DEF OpenStatuses

\* Settling a row that was claimed leaves a row, its attempts not below zero even
\* with a refund (PostgresInboxQueue._settle).
LEMMA SettledType ==
  ASSUME NEW codes, NEW e \in Events, row \in [Events -> RowType(codes)],
         row[e].attempts > 0, NEW out \in OutcomeTypeOf(codes), out.status \in OpenStatuses
  PROVE  /\ SettledRow(e, out) \in RowType(codes)
         /\ SettledRow(e, out).status = out.status
         /\ SettledRow(e, out).code = out.code
<1>1. row[e].attempts \in Nat
  BY DEF RowType
<1>2. out.refund \in {0, 1} /\ out.code \in codes /\ out.last_error \in codes
  BY DEF OutcomeTypeOf
<1>3. row[e].attempts - out.refund \in Nat
  BY <1>1, <1>2
<1>4. out.status \in Statuses
  BY DEF OpenStatuses, Statuses, Waiting, Settled
<1> QED
  BY <1>2, <1>3, <1>4 DEF SettledRow, RowType
-----------------------------------------------------------------------------
(* Steps of an executor's own: they end the attempt or take it further. *)

\* A worker that ends its attempt keeps its claim, and leaves through unlocking if
\* it is inside the section.
LEMMA EndKeeps ==
  ASSUME NEW codes, NEW foundCodes, ExecutionTypeOK(codes, foundCodes), AttemptInv,
         NEW w \in Workers, pc[w] # "idle",
         NEW out \in OutcomeTypeOf(codes), EndsOpen(pc[w], out.status),
         End(w, out), UNCHANGED <<claim, lock>>
  PROVE  /\ pc' \in [Workers -> Steps]
         /\ outcome' \in [Workers -> OutcomeTypeOf(codes)]
         /\ AttemptInv'
<1> USE DEF ExecutionTypeOK, End, Goto
<1>1. pc' \in [Workers -> Steps]
  BY DEF Steps, Section
<1>2. outcome' \in [Workers -> OutcomeTypeOf(codes)]
  OBVIOUS
<1>3. ClaimInv' /\ LockInv'
  BY DEF AttemptInv, ClaimInv, LockInv, KeyAt, Section
<1>4. EndedInv'
  BY DEF AttemptInv, EndedInv, EndsOpen, Section
<1> QED
  BY <1>1, <1>2, <1>3, <1>4 DEF AttemptInv

\* So does one that goes on inside the section.
LEMMA GotoKeeps ==
  ASSUME NEW codes, NEW foundCodes, ExecutionTypeOK(codes, foundCodes), AttemptInv,
         NEW w \in Workers, pc[w] \in Section, NEW step \in Section \ {"unlock"},
         Goto(w, step), UNCHANGED <<claim, outcome, lock>>
  PROVE  pc' \in [Workers -> Steps] /\ AttemptInv'
<1> USE DEF ExecutionTypeOK, Goto, Section
<1>1. pc' \in [Workers -> Steps]
  BY DEF Steps
<1>2. AttemptInv'
  BY DEF AttemptInv, ClaimInv, LockInv, EndedInv, EndsOpen, KeyAt
<1> QED
  BY <1>1, <1>2

\* A record the engine commits is one of the ids it may assign.
LEMMA EngineType ==
  ASSUME NEW codes, NEW foundCodes, ExecutionTypeOK(codes, foundCodes),
         NEW k \in Keys, NEW n \in NativeIds, EngineCommits(k, n)
  PROVE  native' \in [Keys -> SUBSET NativeIds]
BY DEF ExecutionTypeOK, EngineCommits

-----------------------------------------------------------------------------
(* The steps the executors share. *)

\* They end with one of the shared outcomes, and touch nothing but the worker.
LEMMA CommonEndingFrame ==
  ASSUME NEW w \in Workers, CommonEnding(w)
  PROVE  /\ pc[w] \in {"prepare", "find", "create"}
         /\ UNCHANGED <<row, aged, claim, found, lock, native>>
         /\ \E out \in CommonOutcomes : End(w, out)
<1>1. /\ pc[w] \in {"prepare", "find", "create"}
      /\ UNCHANGED <<row, aged, claim, found, lock, native>>
  BY DEF CommonEnding, RefusePayload, BlockUnplaced, Contend, FindFails, CreateFails, queueVars
<1>2. \E out \in CommonOutcomes : End(w, out)
  BY DEF CommonEnding, RefusePayload, BlockUnplaced, Contend, FindFails, CreateFails,
         CommonOutcomes
<1> QED
  BY <1>1, <1>2

\* Receipt, the operator and the clock leave the workers alone.
LEMMA QueueStepKeeps ==
  ASSUME NEW codes, NEW foundCodes, CommonCodes \subseteq codes, "" \in foundCodes,
         ExecutionTypeOK(codes, foundCodes), AttemptInv, NEW e \in Events, QueueStep(e)
  PROVE  ExecutionTypeOK(codes, foundCodes)' /\ AttemptInv'
<1> USE DEF ExecutionTypeOK, QueueTypeOK, QueueStep, Ingress, Receive, Operator, OperatorRetry,
            Clock, Horizon, QueueOnly, workerVars
<1>1. ExecutionTypeOK(codes, foundCodes)'
  BY RecordTypes
<1>2. AttemptInv'
  BY DEF AttemptInv, ClaimInv, LockInv, EndedInv, KeyAt
<1> QED
  BY <1>1, <1>2

\* The claiming UPDATE gives an idle worker a claim that counts it.
LEMMA BeginKeeps ==
  ASSUME NEW codes, NEW foundCodes, ExecutionTypeOK(codes, foundCodes), AttemptInv,
         NEW w \in Workers, NEW e \in Events, Begin(w, e)
  PROVE  ExecutionTypeOK(codes, foundCodes)' /\ AttemptInv'
<1>1. TakeRow(w, e) /\ Start(w)
  BY DEF Begin, BeginDue, BeginExpired, ClaimDue, ClaimExpired
<1>2. row[e].attempts + 1 \in Nat /\ row[e].attempts + 1 > 0
  BY DEF ExecutionTypeOK, QueueTypeOK, RowType
<1>3. [event |-> e, attempts |-> row[e].attempts + 1] \in ClaimType
  BY <1>2 DEF ClaimType
<1>4. row' \in [Events -> RowType(codes)]
  BY <1>1, TakenType DEF ExecutionTypeOK, QueueTypeOK, TakeRow
<1>5. pc' \in [Workers -> Steps]
  BY <1>1 DEF ExecutionTypeOK, Start, Goto, Steps
<1>6. ExecutionTypeOK(codes, foundCodes)'
  BY <1>1, <1>3, <1>4, <1>5 DEF ExecutionTypeOK, QueueTypeOK, TakeRow, Start
<1>7. AttemptInv'
  BY <1>1, <1>2 DEF ExecutionTypeOK, QueueTypeOK, TakeRow, Start, Goto, AttemptInv, ClaimInv,
                    LockInv, EndedInv, KeyAt, Section
<1> QED
  BY <1>6, <1>7

\* A worker that is done with its claim keeps the types of what it forgets.
LEMMA ForgetType ==
  ASSUME NEW codes, NEW foundCodes, CommonCodes \subseteq codes, "" \in foundCodes,
         ExecutionTypeOK(codes, foundCodes), NEW w \in Workers, Forget(w)
  PROVE  /\ pc' \in [Workers -> Steps]
         /\ outcome' \in [Workers -> OutcomeTypeOf(codes)]
         /\ found' \in [Workers -> FoundTypeOf(foundCodes)]
         /\ claim' \in [Workers -> ClaimType]
BY RecordTypes, CommonOutcomeTypes DEF ExecutionTypeOK, QueueTypeOK, Forget, Goto, Steps

\* Settling leaves a row in the state its budgeted outcome names; nobody but the
\* worker whose attempt the row records settles it.
LEMMA SettleRow ==
  ASSUME NEW codes, NEW foundCodes, CommonCodes \subseteq codes,
         ExecutionTypeOK(codes, foundCodes), AttemptInv, NEW w \in Workers, Settle(w)
  PROVE  LET e == claim[w].event
         IN  /\ e \in Events
             /\ row' \in [Events -> RowType(codes)]
             /\ \A f \in Events \ {e} : row'[f] = row[f]
             /\ \/ row'[e] = row[e]
                \/ row[e].status = "processing" /\ row'[e].status \in OpenStatuses
             /\ row'[e].status = "processed" =>
                  \/ row'[e] = row[e]
                  \/ outcome[w].status = "processed" /\ row'[e].code = outcome[w].code
<1> DEFINE e == claim[w].event
           out == FailureOutcome(e, outcome[w], claim[w].attempts)
<1>1. e \in Events /\ claim[w].attempts \in Nat /\ claim[w].attempts > 0
  BY DEF AttemptInv, ClaimInv, Settle, ExecutionTypeOK, QueueTypeOK, ClaimType
<1>2. outcome[w] \in OutcomeTypeOf(codes) /\ outcome[w].status \in OpenStatuses
  BY DEF AttemptInv, EndedInv, EndsOpen, Settle, ExecutionTypeOK, Section
<1>3. /\ out \in OutcomeTypeOf(codes)
      /\ out.status \in OpenStatuses
      /\ out.status = "processed" => out = outcome[w]
  BY <1>1, <1>2, FailureType
<1>4. row \in [Events -> RowType(codes)]
  BY DEF ExecutionTypeOK, QueueTypeOK
<1>5. CASE ~Holds(w)
  BY <1>1, <1>4, <1>5 DEF Settle
<1>6. CASE Holds(w)
  <2>1. row[e].attempts > 0 /\ row[e].status = "processing"
    BY <1>1, <1>6 DEF Holds
  <2>2. /\ SettledRow(e, out) \in RowType(codes)
        /\ SettledRow(e, out).status = out.status
        /\ SettledRow(e, out).code = out.code
    BY <1>1, <1>3, <1>4, <2>1, SettledType
  <2>3. row' = [row EXCEPT ![e] = SettledRow(e, out)]
    BY <1>6 DEF Settle
  <2> HIDE DEF e, out
  <2>4. row'[e] = SettledRow(e, out) /\ \A f \in Events \ {e} : row'[f] = row[f]
    BY <1>1, <1>4, <2>3
  <2>5. row' \in [Events -> RowType(codes)]
    BY <1>4, <2>2, <2>3
  <2> QED
    BY <1>1, <1>3, <2>1, <2>2, <2>4, <2>5 DEF e
<1> QED
  BY <1>5, <1>6

\* Every common step of a worker keeps the types and what holds of the attempts.
LEMMA CommonKeeps ==
  ASSUME NEW codes, NEW foundCodes, CommonCodes \subseteq codes, "" \in foundCodes,
         ExecutionTypeOK(codes, foundCodes), AttemptInv, NEW w \in Workers, CommonStep(w)
  PROVE  ExecutionTypeOK(codes, foundCodes)' /\ AttemptInv'
<1> DEFINE Kept == ExecutionTypeOK(codes, foundCodes)' /\ AttemptInv'
<1>0. ASSUME pc[w] # "idle" PROVE claim[w].event \in Events /\ KeyAt(w) \in Keys
  BY <1>0, ExecutionAssumption DEF AttemptInv, ClaimInv, KeyAt
<1>1. ASSUME CommonEnding(w) PROVE Kept
  <2>1. /\ pc[w] # "idle"
        /\ UNCHANGED <<row, aged, claim, found, lock, native>>
    BY <1>1, CommonEndingFrame
  <2>2. PICK out \in CommonOutcomes : End(w, out)
    BY <1>1, CommonEndingFrame
  <2>3. out \in OutcomeTypeOf(codes) /\ EndsOpen(pc[w], out.status)
    BY CommonOutcomeTypes DEF EndsOpen
  <2>4. /\ pc' \in [Workers -> Steps]
        /\ outcome' \in [Workers -> OutcomeTypeOf(codes)]
        /\ AttemptInv'
    BY <2>1, <2>2, <2>3, EndKeeps
  <2> QED
    BY <2>1, <2>4 DEF ExecutionTypeOK, QueueTypeOK
<1>2. ASSUME TakeLock(w) PROVE Kept
  <2> USE <1>2 DEF TakeLock, Goto, ExecutionTypeOK, queueVars
  <2>1. ExecutionTypeOK(codes, foundCodes)'
    BY DEF QueueTypeOK, Steps, Section
  <2>2. ClaimInv' /\ EndedInv'
    BY DEF AttemptInv, ClaimInv, EndedInv, EndsOpen, Section
  <2>3. ASSUME NEW v \in Workers, pc'[v] \in Section PROVE lock'[KeyAt(v)'] = v
    <3>1. CASE v = w
      BY <1>0, <3>1 DEF KeyAt
    <3>2. CASE v # w
      <4>1. pc[v] \in Section /\ lock[KeyAt(v)] = v /\ KeyAt(v) # KeyAt(w)
        BY <1>0, <2>3, <3>2, QueueAssumption DEF AttemptInv, LockInv
      <4>2. KeyAt(v)' = KeyAt(v) /\ KeyAt(v) \in Keys
        BY <4>1, ExecutionAssumption DEF AttemptInv, ClaimInv, KeyAt, Section
      <4> QED
        BY <1>0, <3>2, <4>1, <4>2
    <3> QED
      BY <3>1, <3>2
  <2> QED
    BY <2>1, <2>2, <2>3 DEF AttemptInv, LockInv
<1>3. ASSUME FindNone(w) PROVE Kept
  <2>1. /\ pc[w] \in Section /\ "create" \in Section \ {"unlock"}
        /\ Goto(w, "create") /\ UNCHANGED <<row, aged, claim, outcome, found, lock, native>>
    BY <1>3 DEF FindNone, Section, queueVars
  <2>2. pc' \in [Workers -> Steps] /\ AttemptInv'
    BY <2>1, GotoKeeps
  <2> QED
    BY <2>1, <2>2 DEF ExecutionTypeOK, QueueTypeOK
<1>4. ASSUME Unlock(w) PROVE Kept
  <2>1. /\ pc'[w] \notin Section
        /\ \A v \in Workers \ {w} : pc'[v] = pc[v] /\ claim'[v] = claim[v]
    BY <1>4 DEF Unlock, Forget, Goto, Section, ExecutionTypeOK, QueueTypeOK
  <2>2. ASSUME NEW v \in Workers \ {w}, pc[v] \in Section PROVE lock'[KeyAt(v)] = v
    <3>1. lock[KeyAt(v)] = v /\ lock[KeyAt(w)] = w /\ KeyAt(v) # KeyAt(w)
      BY <1>4, <2>2 DEF AttemptInv, LockInv, Unlock, Section
    <3>2. KeyAt(v) \in Keys
      BY <2>2, ExecutionAssumption DEF AttemptInv, ClaimInv, KeyAt, Section
    <3> QED
      BY <1>4, <3>1, <3>2 DEF Unlock, ExecutionTypeOK
  <2>3. LockInv'
    BY <2>1, <2>2 DEF LockInv, KeyAt
  <2>4. CASE outcome[w].status = "closed"
    <3>1. Forget(w) /\ UNCHANGED <<row, aged, native>>
      BY <1>4, <2>4 DEF Unlock
    <3>2. ExecutionTypeOK(codes, foundCodes)'
      BY <1>4, <3>1, ForgetType DEF Unlock, ExecutionTypeOK, QueueTypeOK
    <3>3. ClaimInv' /\ EndedInv'
      BY <3>1
      DEF Forget, Goto, ExecutionTypeOK, QueueTypeOK, AttemptInv, ClaimInv, EndedInv, EndsOpen,
          Section
    <3> QED
      BY <2>3, <3>2, <3>3 DEF AttemptInv
  <2>5. CASE outcome[w].status # "closed"
    <3> USE <1>4, <2>5 DEF Unlock, Goto, ExecutionTypeOK
    <3>1. ExecutionTypeOK(codes, foundCodes)'
      BY DEF QueueTypeOK, Steps
    <3>2. ClaimInv' /\ EndedInv'
      BY DEF AttemptInv, ClaimInv, EndedInv, EndsOpen, Section
    <3> QED
      BY <2>3, <3>1, <3>2 DEF AttemptInv
  <2> QED
    BY <2>4, <2>5
<1>5. ASSUME Settle(w) PROVE Kept
  <2>1. row' \in [Events -> RowType(codes)]
    BY <1>5, SettleRow
  <2>2. Forget(w) /\ UNCHANGED <<aged, lock, native>>
    BY <1>5 DEF Settle
  <2>3. ExecutionTypeOK(codes, foundCodes)'
    BY <2>1, <2>2, ForgetType DEF ExecutionTypeOK, QueueTypeOK
  <2>4. AttemptInv'
    BY <2>2
    DEF Forget, Goto, ExecutionTypeOK, QueueTypeOK, AttemptInv, ClaimInv, LockInv, EndedInv,
        EndsOpen, KeyAt, Section
  <2> QED
    BY <2>3, <2>4
<1>6. ASSUME SettleRaises(w) PROVE Kept
  <2>1. /\ pc[w] = "settle"
        /\ outcome' = [outcome EXCEPT ![w] = Transient]
        /\ UNCHANGED <<row, aged, claim, pc, found, lock, native>>
    BY <1>6 DEF SettleRaises, queueVars
  <2>2. Transient \in OutcomeTypeOf(codes) /\ Transient.status \in OpenStatuses
    BY CommonOutcomeTypes DEF CommonOutcomes
  <2>3. ExecutionTypeOK(codes, foundCodes)'
    BY <2>1, <2>2 DEF ExecutionTypeOK, QueueTypeOK
  <2>4. AttemptInv'
    BY <2>1, <2>2 DEF ExecutionTypeOK, AttemptInv, ClaimInv, LockInv, EndedInv, EndsOpen, KeyAt
  <2> QED
    BY <2>3, <2>4
<1>7. ASSUME Crash(w) PROVE Kept
  <2>1. /\ Forget(w)
        /\ lock' = [k \in Keys |-> IF lock[k] = w THEN NoWorker ELSE lock[k]]
        /\ UNCHANGED <<row, aged, native>>
    BY <1>7 DEF Crash
  <2>2. ExecutionTypeOK(codes, foundCodes)'
    BY <2>1, ForgetType DEF ExecutionTypeOK, QueueTypeOK
  <2>3. AttemptInv'
    BY <2>1, ExecutionAssumption
    DEF Forget, Goto, ExecutionTypeOK, QueueTypeOK, AttemptInv, ClaimInv, LockInv, EndedInv,
        EndsOpen, KeyAt, Section
  <2> QED
    BY <2>2, <2>3
<1> QED
  BY <1>1, <1>2, <1>3, <1>4, <1>5, <1>6, <1>7
  DEF CommonStep, CommonEngineStep, CommonSessionStep, CommonEnding
-----------------------------------------------------------------------------
(* What the shared steps leave alone, for the invariants of an executor. *)

\* Receipt, the operator and the clock touch nothing but rows, and process none.
LEMMA QueueFrame ==
  ASSUME NEW codes, NEW foundCodes, ExecutionTypeOK(codes, foundCodes),
         NEW e \in Events, QueueStep(e)
  PROVE  /\ UNCHANGED <<claim, pc, outcome, found, lock, native>>
         /\ \A f \in Events : row'[f].status = "processed" => row'[f] = row[f]
         /\ SettledStep
<1> USE DEF QueueStep, ExecutionTypeOK, QueueTypeOK
<1>1. UNCHANGED <<claim, pc, outcome, found, lock, native>>
  BY DEF Ingress, Receive, Operator, OperatorRetry, Clock, Horizon, QueueOnly, workerVars
<1>2. CASE Ingress(e)
  BY <1>1, <1>2 DEF Ingress, Receive, FreshRow, SettledStep, Settled
<1>3. CASE Operator(e)
  BY <1>1, <1>3 DEF Operator, OperatorRetry, FreshRow, SettledStep, Settled
<1>4. CASE Clock(e)
  BY <1>1, <1>4 DEF Clock, Horizon, SettledStep
<1> QED
  BY <1>2, <1>3, <1>4

\* Claiming touches the claimed row and the idle worker, and no settled row.
LEMMA BeginFrame ==
  ASSUME NEW codes, NEW foundCodes, ExecutionTypeOK(codes, foundCodes),
         NEW w \in Workers, NEW e \in Events, Begin(w, e)
  PROVE  /\ UNCHANGED <<outcome, found, lock, native>>
         /\ pc'[w] = "prepare"
         /\ \A v \in Workers \ {w} : pc'[v] = pc[v] /\ claim'[v] = claim[v]
         /\ \A f \in Events : row'[f].status = "processed" => row'[f] = row[f]
         /\ SettledStep
<1> USE DEF Begin, BeginDue, BeginExpired, ClaimDue, ClaimExpired, TakeRow, Start, Goto,
            ExecutionTypeOK, QueueTypeOK
<1>1. /\ UNCHANGED <<outcome, found, lock, native>>
      /\ pc'[w] = "prepare"
      /\ \A v \in Workers \ {w} : pc'[v] = pc[v] /\ claim'[v] = claim[v]
  OBVIOUS
<1>2. /\ row'[e].status = "processing" /\ row[e].status \notin Settled
      /\ \A f \in Events \ {e} : row'[f] = row[f]
  BY DEF TakenRow, Waiting, Settled
<1>3. \A f \in Events : row'[f].status = "processed" => row'[f] = row[f]
  BY <1>2
<1>4. SettledStep
  BY <1>2 DEF SettledStep
<1> QED
  BY <1>1, <1>3, <1>4

\* A common step of a worker touches neither the engine nor another worker; it
\* goes on only to work in the engine it knows to hold no record; and what it
\* processes it was already to process.
LEMMA CommonFrame ==
  ASSUME NEW codes, NEW foundCodes, CommonCodes \subseteq codes,
         ExecutionTypeOK(codes, foundCodes), AttemptInv, NEW w \in Workers, CommonStep(w)
  PROVE  /\ native' = native
         /\ \A v \in Workers \ {w} :
              /\ pc'[v] = pc[v] /\ claim'[v] = claim[v]
              /\ outcome'[v] = outcome[v] /\ found'[v] = found[v]
         /\ \/ pc'[w] \in {"idle", "check"}
            \/ /\ pc[w] = "find" /\ pc'[w] = "create" /\ native[KeyAt(w)] = {}
               /\ claim'[w] = claim[w]
            \/ /\ pc'[w] \in {"unlock", "settle"} /\ claim'[w] = claim[w]
               /\ outcome'[w].status = "processed" =>
                    pc[w] \in {"unlock", "settle"} /\ outcome'[w] = outcome[w]
         /\ \A e \in Events :
              row'[e].status = "processed" =>
                \/ row'[e] = row[e]
                \/ /\ pc[w] = "settle" /\ claim[w].event = e
                   /\ outcome[w].status = "processed" /\ row'[e].code = outcome[w].code
         /\ SettledStep
<1> DEFINE Others == \A v \in Workers \ {w} :
                       /\ pc'[v] = pc[v] /\ claim'[v] = claim[v]
                       /\ outcome'[v] = outcome[v] /\ found'[v] = found[v]
           Onward == \/ pc'[w] \in {"idle", "check"}
                     \/ /\ pc[w] = "find" /\ pc'[w] = "create" /\ native[KeyAt(w)] = {}
                        /\ claim'[w] = claim[w]
                     \/ /\ pc'[w] \in {"unlock", "settle"} /\ claim'[w] = claim[w]
                        /\ outcome'[w].status = "processed" =>
                             pc[w] \in {"unlock", "settle"} /\ outcome'[w] = outcome[w]
<1>0. /\ pc \in [Workers -> Steps] /\ outcome \in [Workers -> OutcomeTypeOf(codes)]
      /\ found \in [Workers -> FoundTypeOf(foundCodes)] /\ claim \in [Workers -> ClaimType]
  BY DEF ExecutionTypeOK, QueueTypeOK
<1>1. native' = native
  BY DEF CommonStep, CommonEngineStep, CommonSessionStep, RefusePayload, BlockUnplaced, Contend,
         FindFails, CreateFails, TakeLock, FindNone, Unlock, Settle, SettleRaises, Crash
<1>2. ASSUME CommonEnding(w) PROVE Others /\ Onward /\ row' = row
  <2>1. UNCHANGED <<row, aged, claim, found, lock, native>>
    BY <1>2, CommonEndingFrame
  <2>2. PICK out \in CommonOutcomes : End(w, out)
    BY <1>2, CommonEndingFrame
  <2>3. out.status # "processed"
    BY CommonOutcomeTypes
  <2>4. Others
    BY <1>0, <2>1, <2>2 DEF End, Goto
  <2>5. Onward
    BY <1>0, <2>1, <2>2, <2>3 DEF End, Goto
  <2> QED
    BY <2>1, <2>4, <2>5
<1>3. ASSUME TakeLock(w) \/ FindNone(w) PROVE Others /\ Onward /\ row' = row
  BY <1>0, <1>3 DEF TakeLock, FindNone, Goto, queueVars
<1>4. ASSUME Unlock(w) PROVE Others /\ Onward /\ row' = row
  BY <1>0, <1>4 DEF Unlock, Forget, Goto
<1>5. ASSUME Settle(w) PROVE Others /\ Onward
  BY <1>0, <1>5 DEF Settle, Forget, Goto
<1>6. ASSUME SettleRaises(w) PROVE Others /\ Onward /\ row' = row
  <2>1. /\ pc[w] = "settle" /\ outcome' = [outcome EXCEPT ![w] = Transient]
        /\ UNCHANGED <<row, pc, claim, found>>
    BY <1>6 DEF SettleRaises, queueVars
  <2>2. Transient.status # "processed"
    BY CommonOutcomeTypes DEF CommonOutcomes
  <2>3. outcome'[w] = Transient
    BY <1>0, <2>1
  <2>4. Others
    BY <1>0, <2>1
  <2>5. Onward
    BY <2>1, <2>2, <2>3
  <2> QED
    BY <2>1, <2>4, <2>5
<1>7. ASSUME Crash(w) PROVE Others /\ Onward /\ row' = row
  BY <1>0, <1>7 DEF Crash, Forget, Goto
<1>8. Others /\ Onward /\ (row' = row \/ Settle(w))
  BY <1>2, <1>3, <1>4, <1>5, <1>6, <1>7
  DEF CommonStep, CommonEngineStep, CommonSessionStep, CommonEnding
<1>9. ASSUME row' = row PROVE SettledStep
  BY <1>9 DEF SettledStep
<1>10. ASSUME Settle(w) PROVE SettledStep
  BY <1>10, SettleRow DEF SettledStep, Settled
<1>11. ASSUME Settle(w), NEW e \in Events, row'[e].status = "processed"
       PROVE  \/ row'[e] = row[e]
              \/ /\ pc[w] = "settle" /\ claim[w].event = e
                 /\ outcome[w].status = "processed" /\ row'[e].code = outcome[w].code
  <2>1. pc[w] = "settle"
    BY <1>11 DEF Settle
  <2> QED
    BY <1>11, <2>1, SettleRow
<1> QED
  BY <1>1, <1>8, <1>9, <1>10, <1>11

-----------------------------------------------------------------------------
(* Nothing is fabricated. *)

\* A worker at work was handed a received event; in the engine it only works on
\* one that parses; and so does every record there go back to such an event.
GenuineInv ==
  /\ \A w \in Workers :
       /\ pc[w] # "idle" => row[claim[w].event].status # "absent"
       /\ pc[w] \in Section => claim[w].event \notin Malformed
  /\ NothingFabricated

\* It is kept by steps that take no row back, take no worker into the section, and
\* write the engine only for a worker inside the section.
LEMMA GenuineKept ==
  ASSUME AttemptInv, GenuineInv,
         \A e \in Events : row'[e].status = "absent" => row[e].status = "absent",
         \A w \in Workers :
           /\ pc'[w] # "idle" => pc[w] # "idle" /\ claim'[w] = claim[w]
           /\ pc'[w] \in Section => pc[w] \in Section,
         \A k \in Keys :
           native'[k] # {} =>
             native[k] # {} \/ \E w \in Workers : pc[w] \in Section /\ KeyAt(w) = k
  PROVE  GenuineInv'
<1>1. ASSUME NEW w \in Workers, pc'[w] # "idle"
      PROVE  /\ row'[claim'[w].event].status # "absent"
             /\ pc'[w] \in Section => claim'[w].event \notin Malformed
  BY <1>1 DEF AttemptInv, ClaimInv, GenuineInv
<1>2. ASSUME NEW k \in Keys, native'[k] # {}
      PROVE  \E e \in Events \ Malformed : KeyOf[e] = k /\ row'[e].status # "absent"
  <2>1. CASE native[k] # {}
    BY <2>1 DEF GenuineInv, NothingFabricated
  <2>2. CASE \E w \in Workers : pc[w] \in Section /\ KeyAt(w) = k
    <3>1. PICK w \in Workers : pc[w] \in Section /\ KeyAt(w) = k
      BY <2>2
    <3>2. /\ claim[w].event \in Events \ Malformed
          /\ row[claim[w].event].status # "absent"
          /\ KeyOf[claim[w].event] = k
      BY <3>1 DEF AttemptInv, ClaimInv, GenuineInv, KeyAt, Section
    <3> QED
      BY <3>2
  <2> QED
    BY <1>2, <2>1, <2>2
<1> QED
  BY <1>1, <1>2 DEF GenuineInv, NothingFabricated, Section

\* The shared steps keep it.
LEMMA SharedGenuine ==
  ASSUME NEW codes, NEW foundCodes, CommonCodes \subseteq codes, "" \in foundCodes,
         ExecutionTypeOK(codes, foundCodes), AttemptInv, GenuineInv,
         \/ \E e \in Events : QueueStep(e)
         \/ \E w \in Workers, e \in Events : Begin(w, e)
         \/ \E w \in Workers : CommonStep(w)
  PROVE  GenuineInv'
<1>1. ASSUME NEW e \in Events, QueueStep(e) PROVE GenuineInv'
  <2>1. UNCHANGED <<claim, pc, native>>
    BY <1>1, QueueFrame
  <2>2. \A f \in Events : row'[f].status = "absent" => row[f].status = "absent"
    <3>1. CASE Ingress(e) \/ Operator(e)
      <4>1. row' = [row EXCEPT ![e] = FreshRow("received")]
        BY <3>1 DEF Ingress, Receive, Operator, OperatorRetry
      <4>2. FreshRow("received").status # "absent"
        BY DEF FreshRow
      <4> QED
        BY <4>1, <4>2 DEF ExecutionTypeOK, QueueTypeOK
    <3>2. CASE Clock(e)
      BY <3>2 DEF Clock, Horizon
    <3> QED
      BY <1>1, <3>1, <3>2 DEF QueueStep
  <2> QED
    BY <2>1, <2>2, GenuineKept
<1>2. ASSUME NEW w \in Workers, NEW e \in Events, Begin(w, e) PROVE GenuineInv'
  <2>1. /\ native' = native /\ pc'[w] = "prepare"
        /\ \A v \in Workers \ {w} : pc'[v] = pc[v] /\ claim'[v] = claim[v]
    BY <1>2, BeginFrame
  <2>2. /\ claim'[w].event = e /\ row'[e].status = "processing"
        /\ \A f \in Events \ {e} : row'[f] = row[f]
    <3>1. /\ row' = [row EXCEPT ![e] = TakenRow(w, @)]
          /\ claim' = [claim EXCEPT ![w] = [event |-> e, attempts |-> row[e].attempts + 1]]
      BY <1>2 DEF Begin, BeginDue, BeginExpired, ClaimDue, ClaimExpired, TakeRow
    <3>2. TakenRow(w, row[e]).status = "processing"
      BY DEF TakenRow
    <3>3. claim'[w].event = e
      BY <3>1 DEF ExecutionTypeOK, QueueTypeOK
    <3> QED
      BY <3>1, <3>2, <3>3 DEF ExecutionTypeOK, QueueTypeOK
  <2>3. \A v \in Workers : pc[v] # "idle" => claim[v].event \in Events
    BY DEF AttemptInv, ClaimInv
  <2>4. NothingFabricated'
    <3>1. \A f \in Events : row[f].status # "absent" => row'[f].status # "absent"
      BY <2>2
    <3> QED
      BY <2>1, <3>1 DEF GenuineInv, NothingFabricated
  <2>5. ASSUME NEW v \in Workers
        PROVE  /\ pc'[v] # "idle" => row'[claim'[v].event].status # "absent"
               /\ pc'[v] \in Section => claim'[v].event \notin Malformed
    <3>1. CASE v = w
      BY <2>1, <2>2, <3>1 DEF Section
    <3>2. CASE v # w
      BY <2>1, <2>2, <2>3, <3>2 DEF GenuineInv
    <3> QED
      BY <3>1, <3>2
  <2> QED
    BY <2>4, <2>5 DEF GenuineInv
<1>3. ASSUME NEW w \in Workers, CommonStep(w) PROVE GenuineInv'
  <2>1. native' = native
    BY <1>3, CommonFrame
  <2>2. \A f \in Events : row'[f].status = "absent" => row[f].status = "absent"
    <3>1. CASE Settle(w)
      BY <3>1, SettleRow DEF OpenStatuses
    <3>2. CASE ~Settle(w)
      <4>1. row' = row
        BY <1>3, <3>2 DEF CommonStep, CommonEngineStep, CommonSessionStep, RefusePayload,
                          BlockUnplaced, Contend, FindFails, CreateFails, TakeLock, FindNone,
                          Unlock, SettleRaises, Crash, queueVars
      <4> QED
        BY <4>1
    <3> QED
      BY <3>1, <3>2
  <2>3. CASE TakeLock(w)
    <3>1. /\ claim' = claim /\ pc[w] = "prepare" /\ claim[w].event \notin Malformed
          /\ pc' = [pc EXCEPT ![w] = "check"] /\ row' = row
      BY <2>3 DEF TakeLock, Goto, queueVars
    <3> QED
      BY <2>1, <3>1 DEF GenuineInv, NothingFabricated, ExecutionTypeOK, Section
  <2>4. CASE ~TakeLock(w)
    <3>1. \A v \in Workers \ {w} : pc'[v] = pc[v] /\ claim'[v] = claim[v]
      BY <1>3, CommonFrame
    <3>2. /\ pc'[w] # "idle" => pc[w] # "idle" /\ claim'[w] = claim[w]
          /\ pc'[w] \in Section => pc[w] \in Section
      <4>1. CASE CommonEnding(w)
        <5>1. claim' = claim /\ pc[w] # "idle"
          BY <4>1, CommonEndingFrame
        <5>2. PICK out \in CommonOutcomes : End(w, out)
          BY <4>1, CommonEndingFrame
        <5> QED
          BY <5>1, <5>2 DEF End, Goto, ExecutionTypeOK, Section
      <4>2. CASE FindNone(w) \/ SettleRaises(w)
        BY <4>2 DEF FindNone, SettleRaises, Goto, ExecutionTypeOK, Section, queueVars
      <4>3. CASE Unlock(w) \/ Settle(w) \/ Crash(w)
        BY <4>3 DEF Unlock, Settle, Crash, Forget, Goto, ExecutionTypeOK, Section
      <4> QED
        BY <1>3, <2>4, <4>1, <4>2, <4>3
        DEF CommonStep, CommonEngineStep, CommonSessionStep, CommonEnding
    <3> QED
      BY <2>1, <2>2, <3>1, <3>2, GenuineKept
  <2> QED
    BY <2>3, <2>4
<1> QED
  BY <1>1, <1>2, <1>3

-----------------------------------------------------------------------------
(* States. *)

\* The locks keep workers apart: inside the section, two workers are on two keys.
LEMMA ExclusiveByLock ==
  ASSUME AttemptInv
  PROVE  EngineExclusive
BY DEF AttemptInv, LockInv, EngineExclusive

\* Nobody holds a claim, a lock or an outcome at first.
LEMMA ExecutionInitKeeps ==
  ASSUME NEW codes, NEW foundCodes, CommonCodes \subseteq codes, "" \in foundCodes,
         ExecutionInit
  PROVE  ExecutionTypeOK(codes, foundCodes) /\ AttemptInv
<1>1. ExecutionTypeOK(codes, foundCodes)
  BY RecordTypes, CommonOutcomeTypes
  DEF ExecutionInit, QueueInit, ExecutionTypeOK, QueueTypeOK, Steps
<1>2. AttemptInv
  BY DEF ExecutionInit, QueueInit, AttemptInv, ClaimInv, LockInv, EndedInv, Section
<1> QED
  BY <1>1, <1>2

\* A step that changes no variable of the execution keeps all of this.
LEMMA StutterKeeps ==
  ASSUME NEW codes, NEW foundCodes, ExecutionTypeOK(codes, foundCodes), AttemptInv,
         UNCHANGED executionVars
  PROVE  ExecutionTypeOK(codes, foundCodes)' /\ AttemptInv'
BY DEF executionVars, queueVars, workerVars, ExecutionTypeOK, QueueTypeOK, AttemptInv, ClaimInv,
       LockInv, EndedInv, KeyAt
=============================================================================
