------------------------ MODULE OrderExecution_proofs ------------------------
(***************************************************************************)
(* The safety properties of OrderExecution hold for any number of workers, *)
(* events and orders and any budgets, and it implements the acceptance of  *)
(* OrderAcceptance.  One inductive invariant carries them all: what a      *)
(* worker's next step says about the lock, the engine and the records,     *)
(* together with the properties themselves.                                *)
(***************************************************************************)
EXTENDS OrderExecution, InboxExecution_proofs

\* What a worker has learnt from the engine is still so.
EngineInv ==
  \A w \in Workers :
    /\ pc[w] = "create" => native[KeyAt(w)] = {}
    /\ pc[w] = "commit" => /\ found[w].native \in native[KeyAt(w)]
                           /\ found[w].code \in ExecutedCodes

\* An attempt that is to mark its row processed speaks of an order already on
\* record.
OutcomeInv ==
  \A w \in Workers :
    pc[w] \in {"unlock", "settle"} /\ outcome[w].status = "processed" =>
      /\ outcome[w].code \notin ExecutedCodes
      /\ consequence[KeyAt(w)] >= VersionOf[claim[w].event]

IInv ==
  /\ TypeOK
  /\ AttemptInv
  /\ GenuineInv
  /\ EngineInv
  /\ OutcomeInv
  /\ OneSalesOrder
  /\ LinkNamesEngineOrder
  /\ RowAgreesWithLink
  /\ ProcessedMeansCarried

-----------------------------------------------------------------------------
(* Steps that only end an attempt, and steps that only take it further. *)

OwnEnding(w) == RecogniseKnown(w) \/ BlockUnmapped(w) \/ CommitRefused(w)

OwnMoving(w) == ResolveOrder(w) \/ Adopt(w)

OwnStep(w) ==
  OwnEnding(w) \/ OwnMoving(w) \/ Create(w) \/ CreateUnanswered(w) \/ CommitRecords(w)

\* Next, by what its steps have in common.
LEMMA NextCases ==
  ASSUME Next
  PROVE  \/ \E e \in Events : QueueStep(e) /\ UNCHANGED recordVars
         \/ \E w \in Workers, e \in Events : Begin(w, e) /\ UNCHANGED recordVars
         \/ \E w \in Workers : CommonStep(w) /\ UNCHANGED recordVars
         \/ \E w \in Workers : OwnStep(w)
BY DEF Next, EngineStep, SessionStep, QueueStep, Begin, CommonStep, OwnStep, OwnEnding, OwnMoving

\* The execution's codes include those the executors share.
LEMMA CodeFacts ==
  /\ CommonCodes \subseteq Codes /\ "" \in Codes /\ "" \in FoundCodes
  /\ ExecutedCodes \subseteq Codes /\ FoundCodes \subseteq Codes
  /\ {"LEASE_LOST", "ALREADY_EXECUTED", "STALE_VERSION", "AMENDMENT_UNSUPPORTED"} \subseteq Codes
BY DEF Codes, CommonCodes, QueueCodes, FoundCodes, ExecutedCodes

\* A busy worker works on an order, in an event's version.
LEMMA BusyFacts ==
  ASSUME TypeOK, AttemptInv, NEW w \in Workers, pc[w] # "idle"
  PROVE  /\ claim[w].event \in Events
         /\ KeyAt(w) \in Keys
         /\ KeyAt(w) = KeyOf[claim[w].event]
         /\ VersionOf[claim[w].event] \in Nat \ {0}
         /\ consequence[KeyAt(w)] \in Nat
BY ExecutionAssumption DEF AttemptInv, ClaimInv, KeyAt, TypeOK

\* What the code makes of a recorded order settles the row, and only an event of
\* the recorded version or an earlier one as processed.
LEMMA KnownStatus ==
  ASSUME NEW version \in Nat, NEW known \in Nat
  PROVE  /\ KnownOutcome(version, known) \in OutcomeTypeOf(Codes)
         /\ KnownOutcome(version, known).status \in OpenStatuses
         /\ KnownOutcome(version, known).status = "processed" =>
              /\ KnownOutcome(version, known).code \notin ExecutedCodes
              /\ known >= version
<1> DEFINE out == KnownOutcome(version, known)
<1>1. \A status \in {"processed", "dead_letter"}, code \in Codes :
        /\ Outcome(status, code) \in OutcomeTypeOf(Codes)
        /\ Outcome(status, code).status = status
        /\ Outcome(status, code).code = code
  BY CodeFacts DEF Outcome, Detailed, OutcomeTypeOf, Statuses, Settled
<1>2. CASE version = known
  <2>1. out = Outcome("processed", "ALREADY_EXECUTED")
    BY <1>2 DEF KnownOutcome
  <2>2. out \in OutcomeTypeOf(Codes) /\ out.status = "processed" /\ out.code = "ALREADY_EXECUTED"
    BY <1>1, <2>1, CodeFacts
  <2>3. out.code \notin ExecutedCodes
    BY <2>2 DEF ExecutedCodes
  <2> QED
    BY <1>2, <2>2, <2>3 DEF OpenStatuses
<1>3. CASE version < known
  <2>1. out = Outcome("processed", "STALE_VERSION")
    BY <1>3 DEF KnownOutcome
  <2>2. out \in OutcomeTypeOf(Codes) /\ out.status = "processed" /\ out.code = "STALE_VERSION"
    BY <1>1, <2>1, CodeFacts
  <2>3. out.code \notin ExecutedCodes
    BY <2>2 DEF ExecutedCodes
  <2> QED
    BY <1>3, <2>2, <2>3 DEF OpenStatuses
<1>4. CASE version > known
  <2>1. out = Outcome("dead_letter", "AMENDMENT_UNSUPPORTED")
    BY <1>4 DEF KnownOutcome
  <2>2. out \in OutcomeTypeOf(Codes) /\ out.status = "dead_letter"
    BY <1>1, <2>1, CodeFacts
  <2> QED
    BY <2>2 DEF OpenStatuses
<1> QED
  BY <1>2, <1>3, <1>4

\* Ending an attempt of one's own touches nothing but the worker, and leaves an
\* outcome that may be settled as it stands.
LEMMA OwnEndingFrame ==
  ASSUME TypeOK, AttemptInv, NEW w \in Workers, OwnEnding(w)
  PROVE  /\ pc[w] \in {"check", "commit"}
         /\ UNCHANGED <<row, aged, claim, found, lock, native, recordVars>>
         /\ \E out \in OutcomeTypeOf(Codes) :
              /\ End(w, out)
              /\ EndsOpen(pc[w], out.status)
              /\ out.status = "processed" =>
                   /\ out.code \notin ExecutedCodes
                   /\ consequence[KeyAt(w)] >= VersionOf[claim[w].event]
<1> DEFINE Ends == \E out \in OutcomeTypeOf(Codes) :
                     /\ End(w, out)
                     /\ EndsOpen(pc[w], out.status)
                     /\ out.status = "processed" =>
                          /\ out.code \notin ExecutedCodes
                          /\ consequence[KeyAt(w)] >= VersionOf[claim[w].event]
<1>1. /\ pc[w] \in {"check", "commit"}
      /\ UNCHANGED <<row, aged, claim, found, lock, native, recordVars>>
  BY DEF OwnEnding, RecogniseKnown, BlockUnmapped, CommitRefused, queueVars
<1>2. ASSUME NEW out \in OutcomeTypeOf(Codes), End(w, out), EndsOpen(pc[w], out.status),
             out.status = "processed" =>
               /\ out.code \notin ExecutedCodes
               /\ consequence[KeyAt(w)] >= VersionOf[claim[w].event]
      PROVE  Ends
  BY <1>2
<1>3. ASSUME NEW out \in CommonOutcomes, End(w, out) PROVE Ends
  <2>1. /\ out \in OutcomeTypeOf(Codes)
        /\ out.status \in OpenStatuses
        /\ out.status # "processed"
    BY CommonOutcomeTypes, CodeFacts
  <2>2. EndsOpen(pc[w], out.status)
    BY <2>1 DEF EndsOpen
  <2> QED
    BY <1>2, <1>3, <2>1, <2>2
<1>4. ASSUME RecogniseKnown(w) PROVE Ends
  <2> DEFINE version == VersionOf[claim[w].event]
             known == consequence[KeyAt(w)]
             out == KnownOutcome(version, known)
  <2>1. version \in Nat /\ known \in Nat
    BY <1>1, BusyFacts
  <2>2. End(w, out)
    BY <1>4 DEF RecogniseKnown
  <2>3. /\ out \in OutcomeTypeOf(Codes)
        /\ out.status \in OpenStatuses
        /\ out.status = "processed" => out.code \notin ExecutedCodes /\ known >= version
    BY <2>1, KnownStatus
  <2> HIDE DEF out
  <2>4. EndsOpen(pc[w], out.status)
    BY <2>3 DEF EndsOpen
  <2> QED
    BY <1>2, <2>2, <2>3, <2>4
<1>5. ASSUME BlockUnmapped(w) PROVE Ends
  BY <1>3, <1>5 DEF BlockUnmapped, CommonOutcomes
<1>6. ASSUME CommitRefused(w) PROVE Ends
  <2>1. /\ Closed("LEASE_LOST") \in OutcomeTypeOf(Codes)
        /\ Closed("LEASE_LOST").status = "closed"
    BY ClosedType, CodeFacts
  <2>2. pc[w] \in Section
    BY <1>6 DEF CommitRefused, Section
  <2>3. EndsOpen(pc[w], Closed("LEASE_LOST").status)
    BY <2>1, <2>2 DEF EndsOpen
  <2>4. Closed("LEASE_LOST").status # "processed"
    BY <2>1
  <2>5. CASE consequence[KeyAt(w)] # 0
    BY <1>3, <1>6, <2>5 DEF CommitRefused, CommonOutcomes
  <2>6. CASE consequence[KeyAt(w)] = 0
    BY <1>2, <1>6, <2>1, <2>3, <2>4, <2>6 DEF CommitRefused
  <2> QED
    BY <2>5, <2>6
<1> QED
  BY <1>1, <1>4, <1>5, <1>6 DEF OwnEnding

-----------------------------------------------------------------------------
(* Types and attempts. *)

\* The steps of the execution's own keep the types and what holds of attempts.
LEMMA OwnKeeps ==
  ASSUME TypeOK, AttemptInv, NEW w \in Workers, OwnStep(w)
  PROVE  TypeOK' /\ AttemptInv'
<1> DEFINE Kept == TypeOK' /\ AttemptInv'
<1>0. /\ ExecutionTypeOK(Codes, FoundCodes)
      /\ consequence \in [Keys -> Nat]
      /\ execution \in [Keys -> ExecutionType]
      /\ announced \subseteq Keys
  BY DEF TypeOK
<1>1. ASSUME OwnEnding(w) PROVE Kept
  <2>1. /\ pc[w] # "idle"
        /\ UNCHANGED <<row, aged, claim, found, lock, native, recordVars>>
    BY <1>1, OwnEndingFrame
  <2>2. PICK out \in OutcomeTypeOf(Codes) : End(w, out) /\ EndsOpen(pc[w], out.status)
    BY <1>1, OwnEndingFrame
  <2>3. /\ pc' \in [Workers -> Steps]
        /\ outcome' \in [Workers -> OutcomeTypeOf(Codes)]
        /\ AttemptInv'
    BY <1>0, <2>1, <2>2, EndKeeps
  <2> QED
    BY <1>0, <2>1, <2>3 DEF TypeOK, ExecutionTypeOK, QueueTypeOK, recordVars
<1>2. ASSUME NEW step \in Section \ {"unlock"}, pc[w] \in Section, Goto(w, step),
             UNCHANGED <<claim, outcome, lock, row, aged>>,
             found' \in [Workers -> FoundTypeOf(FoundCodes)],
             native' \in [Keys -> SUBSET NativeIds],
             UNCHANGED recordVars
      PROVE  Kept
  <2>1. pc' \in [Workers -> Steps] /\ AttemptInv'
    BY <1>0, <1>2, GotoKeeps
  <2> QED
    BY <1>0, <1>2, <2>1 DEF TypeOK, ExecutionTypeOK, QueueTypeOK, recordVars
<1>3. /\ {"check", "find", "create", "commit"} \subseteq Section
      /\ {"find", "create", "commit"} \subseteq Section \ {"unlock"}
  BY DEF Section
<1>4. ASSUME ResolveOrder(w) PROVE Kept
  BY <1>0, <1>2, <1>3, <1>4 DEF ResolveOrder, queueVars, ExecutionTypeOK
<1>5. ASSUME Adopt(w) PROVE Kept
  <2>1. PICK n \in native[KeyAt(w)] :
          found' = [found EXCEPT ![w] = [native |-> n, code |-> "ADOPTED_NATIVE_ORDER"]]
    BY <1>5 DEF Adopt
  <2>2. n \in NativeIds
    BY <1>0, <1>5, BusyFacts DEF Adopt, ExecutionTypeOK
  <2>3. [native |-> n, code |-> "ADOPTED_NATIVE_ORDER"] \in FoundTypeOf(FoundCodes)
    BY <2>2 DEF FoundTypeOf, FoundCodes, ExecutedCodes
  <2>4. found' \in [Workers -> FoundTypeOf(FoundCodes)]
    BY <1>0, <2>1, <2>3 DEF ExecutionTypeOK
  <2> QED
    BY <1>0, <1>2, <1>3, <1>5, <2>4 DEF Adopt, queueVars, ExecutionTypeOK
<1>6. ASSUME Create(w) PROVE Kept
  <2>1. PICK n \in NativeIds :
          /\ EngineCommits(KeyAt(w), n)
          /\ found' = [found EXCEPT ![w] = [native |-> n, code |-> "EXECUTED"]]
    BY <1>6 DEF Create
  <2>2. native' \in [Keys -> SUBSET NativeIds]
    BY <1>0, <1>6, <2>1, BusyFacts, EngineType DEF Create
  <2>3. [native |-> n, code |-> "EXECUTED"] \in FoundTypeOf(FoundCodes)
    BY DEF FoundTypeOf, FoundCodes, ExecutedCodes
  <2>4. found' \in [Workers -> FoundTypeOf(FoundCodes)]
    BY <1>0, <2>1, <2>3 DEF ExecutionTypeOK
  <2> QED
    BY <1>2, <1>3, <1>6, <2>2, <2>4 DEF Create, queueVars
<1>7. ASSUME CreateUnanswered(w) PROVE Kept
  <2>1. PICK n \in NativeIds : EngineCommits(KeyAt(w), n)
    BY <1>7 DEF CreateUnanswered
  <2>2. native' \in [Keys -> SUBSET NativeIds]
    BY <1>0, <1>7, <2>1, BusyFacts, EngineType DEF CreateUnanswered
  <2>3. Transient \in OutcomeTypeOf(Codes) /\ Transient.status \in OpenStatuses
    BY CommonOutcomeTypes, CodeFacts DEF CommonOutcomes
  <2>4. /\ pc[w] # "idle" /\ End(w, Transient)
        /\ UNCHANGED <<row, aged, claim, found, lock, recordVars>>
    BY <1>7 DEF CreateUnanswered, queueVars
  <2>5. /\ pc' \in [Workers -> Steps]
        /\ outcome' \in [Workers -> OutcomeTypeOf(Codes)]
        /\ AttemptInv'
    BY <1>0, <2>3, <2>4, EndKeeps DEF EndsOpen
  <2> QED
    BY <1>0, <2>2, <2>4, <2>5 DEF TypeOK, ExecutionTypeOK, QueueTypeOK, recordVars
<1>8. ASSUME CommitRecords(w) PROVE Kept
  <2> DEFINE e == claim[w].event
             k == KeyAt(w)
             done == Outcome("processed", found[w].code)
  <2>1. e \in Events /\ k \in Keys /\ VersionOf[e] \in Nat /\ pc[w] # "idle"
    BY <1>8, BusyFacts DEF CommitRecords
  <2>2. found[w].code \in Codes /\ found[w].native \in NativeIds \cup {NoNative}
    BY <1>0, CodeFacts DEF ExecutionTypeOK, FoundTypeOf
  <2>3. /\ done \in OutcomeTypeOf(Codes) /\ done.status = "processed"
        /\ Closed(found[w].code) \in OutcomeTypeOf(Codes)
        /\ Closed(found[w].code).status = "closed"
    BY <2>2, CodeFacts, ProcessedType, ClosedType
  <2>4. row \in [Events -> RowType(Codes)]
    BY <1>0 DEF ExecutionTypeOK, QueueTypeOK
  <2>5. row[e].attempts > 0
    BY <1>8, <2>1 DEF CommitRecords, Holds, AttemptInv, ClaimInv
  <2>6. SettledRow(e, done) \in RowType(Codes)
    BY <2>1, <2>3, <2>4, <2>5, SettledType DEF OpenStatuses
  <2>7. row' = [row EXCEPT ![e] = SettledRow(e, done)]
    BY <1>8 DEF CommitRecords
  <2>8. row' \in [Events -> RowType(Codes)]
    BY <2>4, <2>6, <2>7
  <2>9. [source |-> e, native |-> found[w].native] \in ExecutionType
    BY <2>1, <2>2 DEF ExecutionType
  <2>10. execution' \in [Keys -> ExecutionType]
    BY <1>0, <1>8, <2>9 DEF CommitRecords
  <2>11. consequence' \in [Keys -> Nat] /\ announced' \subseteq Keys
    BY <1>0, <1>8, <2>1 DEF CommitRecords
  <2>12. /\ End(w, Closed(found[w].code)) /\ pc[w] \in Section
         /\ UNCHANGED <<aged, claim, found, lock, native>>
    BY <1>8 DEF CommitRecords, Section
  <2>13. /\ pc' \in [Workers -> Steps]
         /\ outcome' \in [Workers -> OutcomeTypeOf(Codes)]
         /\ AttemptInv'
    BY <1>0, <2>1, <2>3, <2>12, EndKeeps DEF EndsOpen
  <2> QED
    BY <1>0, <2>8, <2>10, <2>11, <2>12, <2>13 DEF TypeOK, ExecutionTypeOK, QueueTypeOK
<1> QED
  BY <1>1, <1>4, <1>5, <1>6, <1>7, <1>8 DEF OwnStep, OwnMoving

-----------------------------------------------------------------------------
(* What the steps of the execution's own change. *)

\* They work inside the section, on the worker's own attempt.
LEMMA OwnFrame ==
  ASSUME TypeOK, AttemptInv, NEW w \in Workers, OwnStep(w)
  PROVE  /\ pc[w] \in Section \ {"unlock"}
         /\ claim' = claim
         /\ \A v \in Workers \ {w} :
              pc'[v] = pc[v] /\ outcome'[v] = outcome[v] /\ found'[v] = found[v]
<1> USE DEF TypeOK, ExecutionTypeOK, queueVars, Section
<1>1. CASE OwnEnding(w)
  <2>1. pc[w] \in {"check", "commit"} /\ claim' = claim /\ found' = found
    BY <1>1, OwnEndingFrame
  <2>2. PICK out \in OutcomeTypeOf(Codes) : End(w, out)
    BY <1>1, OwnEndingFrame
  <2> QED
    BY <2>1, <2>2 DEF End, Goto
<1>2. CASE OwnMoving(w)
  BY <1>2 DEF OwnMoving, ResolveOrder, Adopt, Goto
<1>3. CASE Create(w) \/ CreateUnanswered(w)
  BY <1>3 DEF Create, CreateUnanswered, End, Goto
<1>4. CASE CommitRecords(w)
  BY <1>4 DEF CommitRecords, End, Goto
<1> QED
  BY <1>1, <1>2, <1>3, <1>4 DEF OwnStep

\* The engine is only written by creates, and there only where it held nothing.
LEMMA EngineEffect ==
  ASSUME TypeOK, AttemptInv, EngineInv, NEW w \in Workers, OwnStep(w)
  PROVE  \/ native' = native
         \/ /\ pc[w] = "create" /\ native[KeyAt(w)] = {}
            /\ UNCHANGED recordVars
            /\ \E n \in NativeIds : n \notin UsedIds /\ native' = [native EXCEPT ![KeyAt(w)] = {n}]
<1>1. CASE OwnEnding(w)
  BY <1>1, OwnEndingFrame
<1>2. CASE OwnMoving(w) \/ CommitRecords(w)
  BY <1>2 DEF OwnMoving, ResolveOrder, Adopt, CommitRecords
<1>3. CASE Create(w) \/ CreateUnanswered(w)
  <2>1. pc[w] = "create" /\ native[KeyAt(w)] = {} /\ UNCHANGED recordVars
    BY <1>3 DEF Create, CreateUnanswered, EngineInv
  <2>2. PICK n \in NativeIds : EngineCommits(KeyAt(w), n)
    BY <1>3 DEF Create, CreateUnanswered
  <2>3. KeyAt(w) \in Keys
    BY <2>1, BusyFacts
  <2>4. n \notin UsedIds /\ native' = [native EXCEPT ![KeyAt(w)] = {n}]
    BY <2>1, <2>2, <2>3 DEF EngineCommits, TypeOK, ExecutionTypeOK
  <2> QED
    BY <2>1, <2>4
<1> QED
  BY <1>1, <1>2, <1>3 DEF OwnStep

\* Orders that had an engine order keep what they had.
LEMMA EngineGrows ==
  ASSUME TypeOK, AttemptInv, EngineInv, NEW w \in Workers, OwnStep(w)
  PROVE  /\ \A k \in Keys : native[k] \subseteq native'[k]
         /\ \A k \in Keys \ {KeyAt(w)} : native'[k] = native[k]
<1>1. CASE native' = native
  BY <1>1
<1>2. CASE /\ native[KeyAt(w)] = {}
           /\ \E n \in NativeIds : native' = [native EXCEPT ![KeyAt(w)] = {n}]
  BY <1>2 DEF TypeOK, ExecutionTypeOK
<1> QED
  BY <1>1, <1>2, EngineEffect

\* The records and the rows are only written by the commit.
LEMMA RecordChange ==
  ASSUME TypeOK, AttemptInv, NEW w \in Workers, OwnStep(w), ~CommitRecords(w)
  PROVE  UNCHANGED <<row, consequence, execution, announced>>
BY OwnEndingFrame DEF OwnStep, OwnMoving, ResolveOrder, Adopt, Create, CreateUnanswered,
   queueVars, recordVars

\* The commit writes all the records of an order that had none, in its event's
\* name, and settles that event's row.
LEMMA CommitEffect ==
  ASSUME TypeOK, AttemptInv, EngineInv, NEW w \in Workers, CommitRecords(w)
  PROVE  LET e == claim[w].event
         IN  /\ e \in Events /\ KeyAt(w) = KeyOf[e] /\ KeyOf[e] \in Keys
             /\ consequence[KeyOf[e]] = 0
             /\ \A k \in Keys \ {KeyOf[e]} :
                  consequence'[k] = consequence[k] /\ execution'[k] = execution[k]
             /\ consequence'[KeyOf[e]] = VersionOf[e]
             /\ execution'[KeyOf[e]].source = e
             /\ execution'[KeyOf[e]].native = found[w].native
             /\ announced' = announced \cup {KeyOf[e]}
             /\ found[w].native \in native[KeyOf[e]] /\ found[w].native \in NativeIds
             /\ found[w].code \in ExecutedCodes
             /\ native' = native
             /\ row[e].status = "processing"
             /\ row'[e].status = "processed" /\ row'[e].code = found[w].code
             /\ \A f \in Events \ {e} : row'[f] = row[f]
<1> DEFINE e == claim[w].event
<1>1. e \in Events /\ KeyAt(w) = KeyOf[e] /\ KeyOf[e] \in Keys /\ pc[w] = "commit"
  BY BusyFacts DEF CommitRecords
<1>2. /\ consequence \in [Keys -> Nat] /\ execution \in [Keys -> ExecutionType]
      /\ native \in [Keys -> SUBSET NativeIds]
      /\ row \in [Events -> RowType(Codes)]
  BY DEF TypeOK, ExecutionTypeOK, QueueTypeOK
<1>3. /\ consequence' = [consequence EXCEPT ![KeyOf[e]] = VersionOf[e]]
      /\ execution' = [execution EXCEPT ![KeyOf[e]] =
                         [source |-> e, native |-> found[w].native]]
      /\ announced' = announced \cup {KeyOf[e]}
      /\ consequence[KeyOf[e]] = 0 /\ native' = native /\ row[e].status = "processing"
  BY <1>1 DEF CommitRecords, Holds
<1>4. row' = [row EXCEPT ![e] = SettledRow(e, Outcome("processed", found[w].code))]
  BY DEF CommitRecords
<1>5. /\ found[w].native \in native[KeyOf[e]] /\ found[w].code \in ExecutedCodes
  BY <1>1 DEF EngineInv
<1>6. found[w].native \in NativeIds
  BY <1>1, <1>2, <1>5
<1>7. \A f \in Events \ {e} : row'[f] = row[f]
  BY <1>2, <1>4
<1>8. row'[e].status = "processed" /\ row'[e].code = found[w].code
  <2>1. /\ Outcome("processed", found[w].code).status = "processed"
        /\ Outcome("processed", found[w].code).code = found[w].code
    BY DEF Outcome, Detailed
  <2>2. /\ row'[e].status = Outcome("processed", found[w].code).status
        /\ row'[e].code = Outcome("processed", found[w].code).code
    BY <1>1, <1>2, <1>4 DEF SettledRow
  <2> QED
    BY <2>1, <2>2
<1>9. /\ \A k \in Keys \ {KeyOf[e]} :
           consequence'[k] = consequence[k] /\ execution'[k] = execution[k]
      /\ consequence'[KeyOf[e]] = VersionOf[e]
      /\ execution'[KeyOf[e]].source = e
      /\ execution'[KeyOf[e]].native = found[w].native
  BY <1>1, <1>2, <1>3
<1> QED
  BY <1>1, <1>3, <1>5, <1>6, <1>7, <1>8, <1>9

-----------------------------------------------------------------------------
(* The invariants, step by step. *)

\* The lock keeps other workers from changing what one has learnt.
LEMMA EngineInvStep ==
  ASSUME TypeOK, AttemptInv, EngineInv, NEW w \in Workers, OwnStep(w)
  PROVE  EngineInv'
<1> DEFINE Learnt(v) == /\ pc'[v] = "create" => native'[KeyAt(v)] = {}
                        /\ pc'[v] = "commit" => /\ found'[v].native \in native'[KeyAt(v)]
                                               /\ found'[v].code \in ExecutedCodes
<1>0. /\ KeyAt(w) \in Keys /\ claim' = claim
      /\ pc \in [Workers -> Steps] /\ found \in [Workers -> FoundTypeOf(FoundCodes)]
      /\ native \in [Keys -> SUBSET NativeIds]
  BY OwnFrame, BusyFacts DEF Section, TypeOK, ExecutionTypeOK
<1>1. ASSUME NEW v \in Workers \ {w}, pc'[v] \in {"create", "commit"} PROVE Learnt(v)
  <2>1. pc[v] = pc'[v] /\ found'[v] = found[v]
    BY <1>1, OwnFrame
  <2>2. KeyAt(v) # KeyAt(w) /\ KeyAt(v) \in Keys
    <3>1. pc[w] \in Section /\ pc[v] \in Section /\ pc[v] # "idle"
      BY <1>1, <2>1, OwnFrame DEF Section
    <3> QED
      BY <3>1, BusyFacts DEF AttemptInv, LockInv
  <2>3. native'[KeyAt(v)] = native[KeyAt(v)]
    BY <2>2, EngineGrows
  <2> QED
    BY <2>1, <2>3 DEF EngineInv
<1>2. ASSUME pc'[w] \in {"create", "commit"} PROVE Learnt(w)
  <2>1. ASSUME OwnEnding(w) PROVE FALSE
    <3>1. PICK out \in OutcomeTypeOf(Codes) : End(w, out)
      BY <2>1, OwnEndingFrame
    <3> QED
      BY <1>0, <1>2, <3>1 DEF End, Goto
  <2>2. ~CommitRecords(w) /\ ~CreateUnanswered(w) /\ ~ResolveOrder(w)
    BY <1>0, <1>2 DEF CommitRecords, CreateUnanswered, ResolveOrder, End, Goto
  <2>3. CASE Adopt(w)
    <3>1. PICK n \in native[KeyAt(w)] :
            found' = [found EXCEPT ![w] = [native |-> n, code |-> "ADOPTED_NATIVE_ORDER"]]
      BY <2>3 DEF Adopt
    <3>2. found'[w].native = n /\ found'[w].code = "ADOPTED_NATIVE_ORDER"
      BY <1>0, <3>1
    <3>3. native' = native /\ pc'[w] = "commit"
      BY <1>0, <2>3 DEF Adopt, Goto
    <3> QED
      BY <3>2, <3>3 DEF ExecutedCodes
  <2>4. CASE Create(w)
    <3>1. PICK n \in NativeIds :
            /\ EngineCommits(KeyAt(w), n)
            /\ found' = [found EXCEPT ![w] = [native |-> n, code |-> "EXECUTED"]]
      BY <2>4 DEF Create
    <3>2. n \in native'[KeyAt(w)]
      BY <1>0, <3>1 DEF EngineCommits
    <3>3. found'[w].native = n /\ found'[w].code = "EXECUTED" /\ pc'[w] = "commit"
      BY <1>0, <2>4, <3>1 DEF Create, Goto
    <3> QED
      BY <3>2, <3>3 DEF ExecutedCodes
  <2> QED
    BY <2>1, <2>2, <2>3, <2>4 DEF OwnStep, OwnMoving
<1>3. \A v \in Workers : KeyAt(v)' = KeyAt(v)
  BY <1>0 DEF KeyAt
<1> QED
  BY <1>1, <1>2, <1>3 DEF EngineInv

\* An order on record stays so in its version.
LEMMA RecordedStays ==
  ASSUME TypeOK, AttemptInv, EngineInv, NEW w \in Workers, OwnStep(w), NEW e \in Events,
         consequence[KeyOf[e]] >= VersionOf[e]
  PROVE  consequence'[KeyOf[e]] >= VersionOf[e]
<1>0. KeyOf[e] \in Keys /\ VersionOf[e] \in Nat \ {0}
  BY ExecutionAssumption
<1>1. CASE ~CommitRecords(w)
  BY <1>1, RecordChange
<1>2. CASE CommitRecords(w)
  <2>1. KeyOf[e] # KeyOf[claim[w].event]
    BY <1>0, <1>2, CommitEffect
  <2> QED
    BY <1>0, <1>2, <2>1, CommitEffect
<1> QED
  BY <1>1, <1>2

\* An attempt ends with an outcome the records bear out.
LEMMA OutcomeStep ==
  ASSUME TypeOK, AttemptInv, EngineInv, OutcomeInv, NEW w \in Workers, OwnStep(w)
  PROVE  OutcomeInv'
<1>0. /\ claim' = claim /\ pc[w] \notin {"unlock", "settle"}
      /\ pc \in [Workers -> Steps] /\ outcome \in [Workers -> OutcomeTypeOf(Codes)]
  BY OwnFrame DEF Section, TypeOK, ExecutionTypeOK
<1>1. ASSUME NEW v \in Workers, pc'[v] \in {"unlock", "settle"}, outcome'[v].status = "processed"
      PROVE  /\ outcome'[v].code \notin ExecutedCodes
             /\ consequence[KeyAt(v)] >= VersionOf[claim[v].event]
  <2>1. CASE v # w
    <3>1. pc'[v] = pc[v] /\ outcome'[v] = outcome[v]
      BY <2>1, OwnFrame
    <3> QED
      BY <1>1, <3>1 DEF OutcomeInv
  <2>2. CASE v = w
    <3>1. ~CreateUnanswered(w) /\ ~CommitRecords(w)
      <4>1. Transient.status # "processed"
        BY CommonOutcomeTypes, CodeFacts DEF CommonOutcomes
      <4>2. found[w].code \in Codes
        BY CodeFacts DEF TypeOK, ExecutionTypeOK, FoundTypeOf
      <4>3. Closed(found[w].code).status # "processed"
        BY <4>2, CodeFacts, ClosedType
      <4> QED
        BY <1>0, <1>1, <2>2, <4>1, <4>3 DEF CreateUnanswered, CommitRecords, End
    <3>2. ~OwnMoving(w) /\ ~Create(w)
      BY <1>0, <1>1, <2>2 DEF OwnMoving, ResolveOrder, Adopt, Create, Goto
    <3>3. OwnEnding(w)
      BY <3>1, <3>2 DEF OwnStep
    <3>4. PICK out \in OutcomeTypeOf(Codes) :
            /\ End(w, out)
            /\ out.status = "processed" =>
                 /\ out.code \notin ExecutedCodes
                 /\ consequence[KeyAt(w)] >= VersionOf[claim[w].event]
      BY <3>3, OwnEndingFrame
    <3>5. outcome'[w] = out
      BY <1>0, <3>4 DEF End
    <3> QED
      BY <1>1, <2>2, <3>4, <3>5
  <2> QED
    BY <2>1, <2>2
<1>2. ASSUME NEW v \in Workers, pc'[v] \in {"unlock", "settle"}, outcome'[v].status = "processed"
      PROVE  /\ outcome'[v].code \notin ExecutedCodes
             /\ consequence'[KeyAt(v)] >= VersionOf[claim[v].event]
  <2>1. claim[v].event \in Events /\ KeyAt(v) = KeyOf[claim[v].event]
    <3>1. pc[v] # "idle"
      BY <1>2, OwnFrame DEF Section
    <3> QED
      BY <3>1, BusyFacts
  <2> QED
    BY <1>1, <1>2, <2>1, RecordedStays
<1> QED
  BY <1>0, <1>2 DEF OutcomeInv, KeyAt

\* Only an order without an engine order is given one.
LEMMA OneOrderStep ==
  ASSUME TypeOK, AttemptInv, EngineInv, OneSalesOrder, NEW w \in Workers, OwnStep(w)
  PROVE  OneSalesOrder'
<1>1. CASE native' = native
  BY <1>1 DEF OneSalesOrder, OneNativeRecord
<1>2. CASE \E n \in NativeIds : native' = [native EXCEPT ![KeyAt(w)] = {n}]
  BY <1>2 DEF OneSalesOrder, OneNativeRecord, TypeOK, ExecutionTypeOK
<1> QED
  BY <1>1, <1>2, EngineEffect

\* The records of an order appear together, and about the order itself.
LEMMA LinkStep ==
  ASSUME TypeOK, AttemptInv, EngineInv, LinkNamesEngineOrder, NEW w \in Workers, OwnStep(w)
  PROVE  LinkNamesEngineOrder'
<1>1. CASE ~CommitRecords(w)
  <2>1. UNCHANGED <<consequence, execution, announced>>
    BY <1>1, RecordChange
  <2>2. \A k \in Keys : native[k] \subseteq native'[k]
    BY EngineGrows
  <2> QED
    BY <2>1, <2>2 DEF LinkNamesEngineOrder
<1>2. CASE CommitRecords(w)
  <2> DEFINE e == claim[w].event
  <2>1. /\ e \in Events /\ KeyOf[e] \in Keys
        /\ \A k \in Keys \ {KeyOf[e]} :
             consequence'[k] = consequence[k] /\ execution'[k] = execution[k]
        /\ consequence'[KeyOf[e]] = VersionOf[e]
        /\ execution'[KeyOf[e]].source = e
        /\ execution'[KeyOf[e]].native = found[w].native
        /\ announced' = announced \cup {KeyOf[e]}
        /\ found[w].native \in native[KeyOf[e]]
        /\ native' = native
    BY <1>2, CommitEffect
  <2> QED
    BY <2>1 DEF LinkNamesEngineOrder
<1> QED
  BY <1>1, <1>2

\* Only the recording transaction links a row, and it settles that row.
LEMMA RowStep ==
  ASSUME TypeOK, AttemptInv, EngineInv, LinkNamesEngineOrder, RowAgreesWithLink,
         NEW w \in Workers, OwnStep(w)
  PROVE  RowAgreesWithLink'
<1>1. CASE ~CommitRecords(w)
  BY <1>1, RecordChange DEF RowAgreesWithLink
<1>2. CASE CommitRecords(w)
  <2> DEFINE d == claim[w].event
  <2>1. /\ d \in Events /\ KeyOf[d] \in Keys
        /\ consequence[KeyOf[d]] = 0
        /\ \A k \in Keys \ {KeyOf[d]} : execution'[k] = execution[k]
        /\ execution'[KeyOf[d]].source = d
        /\ found[w].code \in ExecutedCodes
        /\ row'[d].status = "processed" /\ row'[d].code = found[w].code
        /\ \A f \in Events \ {d} : row'[f] = row[f]
    BY <1>2, CommitEffect
  <2>2. execution[KeyOf[d]].source = NoEvent
    BY <2>1, ExecutionAssumption DEF LinkNamesEngineOrder, NoExecution
  <2>3. ASSUME NEW f \in Events \ {d}
        PROVE  /\ row'[f] = row[f]
               /\ execution'[KeyOf[f]].source = f <=> execution[KeyOf[f]].source = f
    <3>1. KeyOf[f] \in Keys /\ f # NoEvent
      BY ExecutionAssumption, QueueAssumption
    <3> QED
      BY <2>1, <2>2, <3>1
  <2> QED
    BY <2>1, <2>3 DEF RowAgreesWithLink
<1> QED
  BY <1>1, <1>2

\* A row is marked processed only when its order is on record.
LEMMA CarriedStep ==
  ASSUME TypeOK, AttemptInv, EngineInv, ProcessedMeansCarried, NEW w \in Workers, OwnStep(w)
  PROVE  ProcessedMeansCarried'
<1>1. ASSUME NEW e \in Events, row'[e].status = "processed"
      PROVE  consequence'[KeyOf[e]] >= VersionOf[e]
  <2>1. CASE row'[e] = row[e]
    BY <1>1, <2>1, RecordedStays DEF ProcessedMeansCarried
  <2>2. CASE row'[e] # row[e]
    <3>1. CommitRecords(w)
      BY <2>2, RecordChange
    <3>2. e = claim[w].event
      BY <2>2, <3>1, CommitEffect
    <3>3. consequence'[KeyOf[e]] = VersionOf[e]
      BY <3>1, <3>2, CommitEffect
    <3>4. VersionOf[e] \in Nat
      BY ExecutionAssumption
    <3> QED
      BY <3>3, <3>4
  <2> QED
    BY <2>1, <2>2
<1> QED
  BY <1>1 DEF ProcessedMeansCarried

\* The execution's own steps work in the engine for received events that parse.
LEMMA GenuineStep ==
  ASSUME TypeOK, AttemptInv, EngineInv, GenuineInv, NEW w \in Workers, OwnStep(w)
  PROVE  GenuineInv'
<1>1. \A e \in Events : row'[e].status = "absent" => row[e].status = "absent"
  <2>1. CASE CommitRecords(w)
    BY <2>1, CommitEffect
  <2>2. CASE ~CommitRecords(w)
    BY <2>2, RecordChange
  <2> QED
    BY <2>1, <2>2
<1>2. /\ pc[w] \in Section \ {"unlock"} /\ claim' = claim
      /\ \A v \in Workers \ {w} : pc'[v] = pc[v]
  BY OwnFrame
<1>3. \A k \in Keys : native'[k] # {} => native[k] # {} \/ KeyAt(w) = k
  BY EngineGrows
<1> QED
  BY <1>1, <1>2, <1>3, GenuineKept DEF Section

-----------------------------------------------------------------------------
(* The inductive invariant. *)

\* It holds before anything was received.
LEMMA InitIInv == Init => IInv
<1> SUFFICES ASSUME Init PROVE IInv
  OBVIOUS
<1> USE DEF Init
<1>1. /\ ExecutionTypeOK(Codes, FoundCodes) /\ AttemptInv
      /\ pc = [w \in Workers |-> "idle"] /\ native = [k \in Keys |-> {}]
      /\ row = [e \in Events |-> AbsentRow]
  BY CodeFacts, ExecutionInitKeeps DEF ExecutionInit, QueueInit
<1>2. execution \in [Keys -> ExecutionType]
  BY DEF NoExecution, ExecutionType
<1>3. TypeOK
  BY <1>1, <1>2 DEF TypeOK
<1>4. EngineInv /\ OutcomeInv /\ OneSalesOrder /\ GenuineInv
  BY <1>1 DEF EngineInv, OutcomeInv, OneSalesOrder, OneNativeRecord, GenuineInv,
              NothingFabricated, Section
<1>5. LinkNamesEngineOrder
  BY DEF LinkNamesEngineOrder
<1>6. RowAgreesWithLink /\ ProcessedMeansCarried
  <2>1. \A e \in Events : row[e].status # "processed"
    BY <1>1 DEF AbsentRow, FreshRow
  <2>2. \A e \in Events : execution[KeyOf[e]].source # e
    BY ExecutionAssumption, QueueAssumption DEF NoExecution
  <2> QED
    BY <2>1, <2>2 DEF RowAgreesWithLink, ProcessedMeansCarried
<1> QED
  BY <1>1, <1>3, <1>4, <1>5, <1>6 DEF IInv

\* Steps that leave the records alone keep it.
LEMMA SharedStep ==
  ASSUME IInv, UNCHANGED recordVars,
         \/ \E e \in Events : QueueStep(e)
         \/ \E w \in Workers, e \in Events : Begin(w, e)
         \/ \E w \in Workers : CommonStep(w)
  PROVE  IInv'
<1> USE DEF IInv
<1>0. ExecutionTypeOK(Codes, FoundCodes) /\ UNCHANGED <<consequence, execution, announced>>
  BY DEF TypeOK, recordVars
<1>1. ASSUME ExecutionTypeOK(Codes, FoundCodes)', AttemptInv', native' = native,
             \A w \in Workers :
               /\ pc'[w] = "commit" =>
                    pc[w] = "commit" /\ claim'[w] = claim[w] /\ found'[w] = found[w]
               /\ pc'[w] = "create" => native[KeyAt(w)] = {} /\ claim'[w] = claim[w]
               /\ pc'[w] \in {"unlock", "settle"} /\ outcome'[w].status = "processed" =>
                    /\ pc[w] \in {"unlock", "settle"} /\ claim'[w] = claim[w]
                    /\ outcome'[w] = outcome[w],
             \A e \in Events :
               /\ row'[e].status = "processed" =>
                    \/ row'[e] = row[e]
                    \/ \E w \in Workers :
                         /\ pc[w] = "settle" /\ claim[w].event = e
                         /\ outcome[w].status = "processed" /\ row'[e].code = outcome[w].code
               /\ row[e].status = "processed" => row'[e] = row[e]
      PROVE  IInv'
  <2>1. TypeOK'
    BY <1>0, <1>1 DEF TypeOK
  <2>2. OneSalesOrder' /\ LinkNamesEngineOrder'
    BY <1>0, <1>1 DEF OneSalesOrder, OneNativeRecord, LinkNamesEngineOrder
  <2>3. EngineInv'
    BY <1>1 DEF EngineInv, KeyAt
  <2>4. OutcomeInv'
    BY <1>0, <1>1 DEF OutcomeInv, KeyAt
  <2>5. RowAgreesWithLink'
    BY <1>0, <1>1 DEF RowAgreesWithLink, OutcomeInv
  <2>6. ProcessedMeansCarried'
    BY <1>0, <1>1 DEF ProcessedMeansCarried, OutcomeInv, KeyAt
  <2>7. GenuineInv'
    BY <1>0, CodeFacts, SharedGenuine
  <2> QED
    BY <1>1, <2>1, <2>2, <2>3, <2>4, <2>5, <2>6, <2>7
<1>2. ASSUME SettledStep, NEW e \in Events, row[e].status = "processed"
      PROVE  row'[e] = row[e]
  BY <1>2 DEF SettledStep, Settled
<1>3. ASSUME NEW e \in Events, QueueStep(e) PROVE IInv'
  <2>1. ExecutionTypeOK(Codes, FoundCodes)' /\ AttemptInv'
    BY <1>0, <1>3, CodeFacts, QueueStepKeeps
  <2>2. /\ UNCHANGED <<claim, pc, outcome, found, lock, native>>
        /\ \A f \in Events : row'[f].status = "processed" => row'[f] = row[f]
        /\ SettledStep
    BY <1>0, <1>3, QueueFrame
  <2> QED
    BY <1>1, <1>2, <2>1, <2>2 DEF EngineInv
<1>4. ASSUME NEW w \in Workers, NEW e \in Events, Begin(w, e) PROVE IInv'
  <2>1. ExecutionTypeOK(Codes, FoundCodes)' /\ AttemptInv'
    BY <1>0, <1>4, BeginKeeps
  <2>2. /\ UNCHANGED <<outcome, found, lock, native>>
        /\ pc'[w] = "prepare"
        /\ \A v \in Workers \ {w} : pc'[v] = pc[v] /\ claim'[v] = claim[v]
        /\ \A f \in Events : row'[f].status = "processed" => row'[f] = row[f]
        /\ SettledStep
    BY <1>0, <1>4, BeginFrame
  <2> QED
    BY <1>1, <1>2, <2>1, <2>2 DEF EngineInv
<1>5. ASSUME NEW w \in Workers, CommonStep(w) PROVE IInv'
  <2>1. ExecutionTypeOK(Codes, FoundCodes)' /\ AttemptInv'
    BY <1>0, <1>5, CodeFacts, CommonKeeps
  <2>2. /\ native' = native
        /\ \A v \in Workers \ {w} :
             /\ pc'[v] = pc[v] /\ claim'[v] = claim[v]
             /\ outcome'[v] = outcome[v] /\ found'[v] = found[v]
        /\ SettledStep
    BY <1>0, <1>5, CodeFacts, CommonFrame
  <2>3. \/ pc'[w] \in {"idle", "check"}
        \/ /\ pc[w] = "find" /\ pc'[w] = "create" /\ native[KeyAt(w)] = {}
           /\ claim'[w] = claim[w]
        \/ /\ pc'[w] \in {"unlock", "settle"} /\ claim'[w] = claim[w]
           /\ outcome'[w].status = "processed" =>
                pc[w] \in {"unlock", "settle"} /\ outcome'[w] = outcome[w]
    BY <1>0, <1>5, CodeFacts, CommonFrame
  <2>4. \A e \in Events :
          row'[e].status = "processed" =>
            \/ row'[e] = row[e]
            \/ /\ pc[w] = "settle" /\ claim[w].event = e
               /\ outcome[w].status = "processed" /\ row'[e].code = outcome[w].code
    BY <1>0, <1>5, CodeFacts, CommonFrame
  <2> QED
    BY <1>1, <1>2, <2>1, <2>2, <2>3, <2>4 DEF EngineInv
<1> QED
  BY <1>3, <1>4, <1>5

\* Every step preserves it.
LEMMA StepIInv == IInv /\ [Next]_vars => IInv'
<1> SUFFICES ASSUME IInv, [Next]_vars PROVE IInv'
  OBVIOUS
<1> USE DEF IInv
<1>1. ASSUME NEW w \in Workers, OwnStep(w) PROVE IInv'
  BY <1>1, OwnKeeps, EngineInvStep, OutcomeStep, OneOrderStep, LinkStep, RowStep, CarriedStep,
     GenuineStep
<1>2. CASE UNCHANGED vars
  <2>1. TypeOK' /\ AttemptInv'
    BY <1>2, StutterKeeps DEF TypeOK, vars, recordVars
  <2>2. /\ EngineInv' /\ OutcomeInv' /\ GenuineInv' /\ OneSalesOrder' /\ LinkNamesEngineOrder'
        /\ RowAgreesWithLink' /\ ProcessedMeansCarried'
    BY <1>2 DEF vars, executionVars, queueVars, workerVars, recordVars, EngineInv, OutcomeInv,
                GenuineInv, NothingFabricated, OneSalesOrder, OneNativeRecord,
                LinkNamesEngineOrder, RowAgreesWithLink, ProcessedMeansCarried, KeyAt
  <2> QED
    BY <2>1, <2>2
<1> QED
  BY <1>1, <1>2, NextCases, SharedStep

\* Every reachable state satisfies the inductive invariant: what each worker's next
\* step relies on, together with the safety properties of order execution.
THEOREM Invariance == Spec => []IInv
BY InitIInv, StepIInv, PTL DEF Spec

\* Every variable keeps its type; refunds never take a row's attempts below zero.
THEOREM TypeCorrect == Spec => []TypeOK
BY Invariance, PTL DEF IInv

\* Two workers are never between lock and unlock of one order.
THEOREM Exclusion == Spec => []EngineExclusive
<1>1. IInv => EngineExclusive
  BY ExclusiveByLock DEF IInv
<1> QED
  BY <1>1, Invariance, PTL

\* The engine never holds two sales orders of one Trade order.
THEOREM NoSecondOrder == Spec => []OneSalesOrder
BY Invariance, PTL DEF IInv

\* The order link names an engine order of the very order, in the version and
\* with the announcement its source event calls for.
THEOREM LinkSound == Spec => []LinkNamesEngineOrder
BY Invariance, PTL DEF IInv

\* The inbox outcome and the order link are never one without the other.
THEOREM RowsAgree == Spec => []RowAgreesWithLink
BY Invariance, PTL DEF IInv

\* A processed event's order is on record in its version or a later one.
THEOREM NothingSkipped == Spec => []ProcessedMeansCarried
BY Invariance, PTL DEF IInv

\* The engine only holds a sales order of a Trade order that some received event,
\* one that parses, speaks of.
THEOREM NothingMadeUp == Spec => []NothingFabricated
<1>1. IInv => NothingFabricated
  BY DEF IInv, GenuineInv
<1> QED
  BY <1>1, Invariance, PTL

-----------------------------------------------------------------------------
\* A processed row is final, and only the operator reopens a dead letter.
THEOREM Finality == Spec => SettledStays
<1>1. ASSUME IInv, Next PROVE SettledStep
  <2> USE <1>1 DEF IInv
  <2>0. ExecutionTypeOK(Codes, FoundCodes)
    BY DEF TypeOK
  <2>1. ASSUME NEW w \in Workers, OwnStep(w) PROVE SettledStep
    <3>1. CASE CommitRecords(w)
      <4> DEFINE e == claim[w].event
      <4>1. row[e].status \notin Settled /\ \A f \in Events \ {e} : row'[f] = row[f]
        BY <3>1, CommitEffect DEF Settled
      <4> QED
        BY <4>1 DEF SettledStep
    <3>2. CASE ~CommitRecords(w)
      BY <2>1, <3>2, RecordChange DEF SettledStep
    <3> QED
      BY <3>1, <3>2
  <2> QED
    BY <2>0, <2>1, CodeFacts, NextCases, QueueFrame, BeginFrame, CommonFrame
<1>2. IInv /\ [Next]_vars => [SettledStep]_vars
  BY <1>1
<1> QED
  BY <1>2, Invariance, PTL DEF Spec, SettledStays

-----------------------------------------------------------------------------
(* The execution implements the acceptance of orders. *)

\* The commit accepts its event: its order is placed and not yet announced.
LEMMA AcceptStep ==
  ASSUME IInv, NEW w \in Workers, CommitRecords(w)
  PROVE  Acceptance!Next
<1>0. PICK d \in Events : d = claim[w].event
  BY CommitEffect DEF IInv
<1>1. PICK n \in NativeIds : n = found[w].native
  BY CommitEffect DEF IInv
<1>2. KeyOf[d] \in Keys /\ KeyAt(w) = KeyOf[d]
  BY <1>0, CommitEffect DEF IInv
<1>3. native[KeyOf[d]] = {n} /\ native' = native
  BY <1>0, <1>1, <1>2, CommitEffect DEF IInv, OneSalesOrder, OneNativeRecord
<1>4. KeyOf[d] \notin announced
  BY <1>0, <1>2, CommitEffect, ExecutionAssumption DEF IInv, LinkNamesEngineOrder
<1>5. /\ consequence' = [consequence EXCEPT ![KeyOf[d]] = VersionOf[d]]
      /\ execution' = [execution EXCEPT ![KeyOf[d]] = [source |-> d, native |-> n]]
      /\ announced' = announced \cup {KeyOf[d]}
  BY <1>0, <1>1, <1>2 DEF CommitRecords
<1>6. Acceptance!Accept(d, n)
  BY <1>3, <1>4, <1>5 DEF Acceptance!Accept
<1> QED
  BY <1>6 DEF Acceptance!Next

\* A create that reaches the engine places its order, whether the worker learns of
\* it or not.
LEMMA PlaceStep ==
  ASSUME IInv, NEW w \in Workers, OwnStep(w), native' # native
  PROVE  Acceptance!Next
<1>1. PICK n \in NativeIds : n \notin UsedIds /\ native' = [native EXCEPT ![KeyAt(w)] = {n}]
  BY EngineEffect DEF IInv
<1>2. native[KeyAt(w)] = {} /\ UNCHANGED recordVars /\ pc[w] = "create"
  BY EngineEffect DEF IInv
<1>3. PICK k \in Keys : k = KeyAt(w)
  BY <1>2, BusyFacts DEF IInv
<1>4. \A j \in Keys : n \notin native[j]
  BY <1>1 DEF UsedIds
<1>5. Acceptance!Place(k, n)
  BY <1>1, <1>2, <1>3, <1>4 DEF Acceptance!Place, recordVars
<1> QED
  BY <1>5 DEF Acceptance!Next

\* Every step of the execution is a step of the acceptance, or none of it.
LEMMA AcceptanceStep ==
  ASSUME IInv, Next
  PROVE  [Acceptance!Next]_(Acceptance!vars)
<1> USE DEF IInv
<1>0. ExecutionTypeOK(Codes, FoundCodes)
  BY DEF TypeOK
<1>1. ASSUME UNCHANGED recordVars,
             \/ \E e \in Events : QueueStep(e)
             \/ \E w \in Workers, e \in Events : Begin(w, e)
             \/ \E w \in Workers : CommonStep(w)
      PROVE  UNCHANGED Acceptance!vars
  <2>1. native' = native
    BY <1>0, <1>1, CodeFacts, QueueFrame, BeginFrame, CommonFrame
  <2> QED
    BY <1>1, <2>1 DEF Acceptance!vars, recordVars
<1>2. ASSUME NEW w \in Workers, OwnStep(w), native' = native, ~CommitRecords(w)
      PROVE  UNCHANGED Acceptance!vars
  BY <1>2, RecordChange DEF Acceptance!vars
<1> QED
  BY <1>1, <1>2, NextCases, AcceptStep, PlaceStep

\* The execution of inbox rows, with its claims, locks, crashes and repeated
\* deliveries, places each order once and accepts it once.
THEOREM Implementation == Spec => ImplementsAcceptance
<1>1. Init => Acceptance!Init
  BY DEF Init, ExecutionInit, Acceptance!Init, NoExecution
<1>2. IInv /\ [Next]_vars => [Acceptance!Next]_(Acceptance!vars)
  <2>1. CASE UNCHANGED vars
    BY <2>1 DEF vars, executionVars, recordVars, Acceptance!vars
  <2> QED
    BY <2>1, AcceptanceStep
<1> QED
  BY <1>1, <1>2, Invariance, PTL DEF Spec, ImplementsAcceptance, Acceptance!Spec
=============================================================================
