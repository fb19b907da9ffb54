---------------------- MODULE CustomerProjection_proofs ----------------------
(***************************************************************************)
(* The safety properties of CustomerProjection hold for any number of      *)
(* workers, events and customers and any budgets, and it implements the    *)
(* register of PartnerRegister.  The inductive invariant says what a       *)
(* worker has learnt under the lock and may still rely on.                 *)
(***************************************************************************)
EXTENDS CustomerProjection, InboxExecution_proofs

FoundCodes == SettlingCodes \cup {""}

\* A customer that is not mapped has no version, and what was announced of a
\* customer is what its mapping says.
RecordInv ==
  \A k \in Keys :
    /\ mapping[k].native = NoNative => mapping[k].version = 0
    /\ partner[k].content = mapping[k].content

\* A partner in the engine bears fields of its own customer; so no partner
\* belongs to two customers.
BearsInv ==
  \A k \in Keys : \A n \in native[k] : bears[n] \in Events /\ KeyOf[bears[n]] = k

\* The partner a worker updates or maps, and that its event is still ahead of the
\* mapping.
AheadInv ==
  \A w \in Workers :
    pc[w] \in {"update", "commit"} =>
      /\ found[w].native \in native[KeyAt(w)]
      /\ found[w].code \in SettlingCodes
      /\ MappedAt(w) => VersionOf[claim[w].event] > mapping[KeyAt(w)].version

\* What a worker has learnt under the lock is still so.
LearntInv ==
  \A w \in Workers :
    /\ pc[w] \in {"find", "create"} => ~MappedAt(w)
    /\ pc[w] = "create" => native[KeyAt(w)] = {}
    /\ pc[w] = "commit" => bears[found[w].native] = claim[w].event

\* The mapping carries an event: it is of its version and content, or beyond it.
Carries(m, e) ==
  /\ m.version >= VersionOf[e]
  /\ m.version = VersionOf[e] => m.content = ContentOf[e]

\* An attempt that is to mark its row processed speaks of a customer mapped in the
\* event's version or a later one.
JustifiedInv ==
  \A w \in Workers :
    pc[w] \in {"unlock", "settle"} /\ outcome[w].status = "processed" =>
      Carries(mapping[KeyAt(w)], claim[w].event)

IInv ==
  /\ TypeOK
  /\ AttemptInv
  /\ RecordInv
  /\ BearsInv
  /\ AheadInv
  /\ LearntInv
  /\ JustifiedInv
  /\ OneNativeRecord
  /\ MappingCarriedByEngine
  /\ ProcessedMeansProjected
-----------------------------------------------------------------------------
(* Steps that only end an attempt, and steps that only take it further. *)

OwnEnding(w) == RecogniseKnown(w) \/ BlockUnconfigured(w) \/ UpdateFails(w) \/ CommitRefused(w)

OwnMoving(w) == ResolveMapped(w) \/ ResolveUnmapped(w) \/ Adopt(w)

\* The projection's codes include those the executors share.
LEMMA CodeFacts ==
  /\ CommonCodes \subseteq Codes /\ "" \in Codes /\ "" \in FoundCodes
  /\ SettlingCodes \subseteq Codes /\ FoundCodes \subseteq Codes
  /\ "LEASE_LOST" \in Codes
BY DEF Codes, CommonCodes, QueueCodes, FoundCodes, SettlingCodes

\* A busy worker works on a customer, in an event's version.
LEMMA BusyFacts ==
  ASSUME TypeOK, AttemptInv, NEW w \in Workers, pc[w] # "idle"
  PROVE  /\ claim[w].event \in Events
         /\ KeyAt(w) \in Keys
         /\ KeyAt(w) = KeyOf[claim[w].event]
         /\ VersionOf[claim[w].event] \in Nat \ {0}
         /\ ContentOf[claim[w].event] \in Contents
         /\ mapping[KeyAt(w)].version \in Nat
BY ExecutionAssumption DEF AttemptInv, ClaimInv, KeyAt, Contents, TypeOK

\* Workers inside the section are on customers of their own.
LEMMA OthersElsewhere ==
  ASSUME AttemptInv, NEW w \in Workers, NEW v \in Workers \ {w},
         pc[w] \in Section, pc[v] \in Section
  PROVE  KeyAt(v) # KeyAt(w)
BY DEF AttemptInv, LockInv

\* What the code makes of a version that is mapped already settles the row, as
\* processed only if the mapping carries the event.
LEMMA KnownStatus ==
  ASSUME NEW e \in Events, NEW known, known.version \in Nat, VersionOf[e] <= known.version
  PROVE  /\ KnownOutcome(e, known) \in OutcomeTypeOf(Codes)
         /\ KnownOutcome(e, known).status \in {"processed", "dead_letter"}
         /\ KnownOutcome(e, known).status = "processed" => Carries(known, e)
<1>0. VersionOf[e] \in Nat
  BY ExecutionAssumption
<1>1. \A status \in {"processed", "dead_letter"}, code \in Codes :
        /\ Outcome(status, code) \in OutcomeTypeOf(Codes)
        /\ Outcome(status, code).status = status
  BY CodeFacts DEF Outcome, Detailed, OutcomeTypeOf, Statuses, Settled
<1>2. {"STALE_VERSION", "ALREADY_PROJECTED", "VERSION_CONFLICT"} \subseteq Codes
  BY DEF Codes
<1>3. CASE VersionOf[e] < known.version
  <2>1. KnownOutcome(e, known) = Outcome("processed", "STALE_VERSION")
    BY <1>3 DEF KnownOutcome
  <2>2. Carries(known, e)
    BY <1>0, <1>3 DEF Carries
  <2> QED
    BY <1>1, <1>2, <2>1, <2>2
<1>4. CASE VersionOf[e] = known.version
  <2>1. CASE ContentOf[e] = known.content
    <3>1. KnownOutcome(e, known) = Outcome("processed", "ALREADY_PROJECTED")
      BY <1>0, <1>4, <2>1 DEF KnownOutcome
    <3>2. Carries(known, e)
      BY <1>0, <1>4, <2>1 DEF Carries
    <3> QED
      BY <1>1, <1>2, <3>1, <3>2
  <2>2. CASE ContentOf[e] # known.content
    <3>1. KnownOutcome(e, known) = Outcome("dead_letter", "VERSION_CONFLICT")
      BY <1>0, <1>4, <2>2 DEF KnownOutcome
    <3>2. KnownOutcome(e, known).status = "dead_letter"
      BY <1>1, <1>2, <3>1
    <3> QED
      BY <1>1, <1>2, <3>1, <3>2
  <2> QED
    BY <2>1, <2>2
<1> QED
  BY <1>0, <1>3, <1>4

\* Ending an attempt of one's own touches nothing but the worker, and leaves an
\* outcome that may be settled as it stands.
LEMMA OwnEndingFrame ==
  ASSUME TypeOK, AttemptInv, NEW w \in Workers, OwnEnding(w)
  PROVE  /\ pc[w] \in {"check", "update", "commit"}
         /\ UNCHANGED <<row, aged, claim, found, lock, native, bears, mapping, partner>>
         /\ \E out \in OutcomeTypeOf(Codes) :
              /\ End(w, out)
              /\ EndsOpen(pc[w], out.status)
              /\ out.status = "processed" => Carries(mapping[KeyAt(w)], claim[w].event)
<1> DEFINE Ends == \E out \in OutcomeTypeOf(Codes) :
                     /\ End(w, out)
                     /\ EndsOpen(pc[w], out.status)
                     /\ out.status = "processed" => Carries(mapping[KeyAt(w)], claim[w].event)
<1>1. /\ pc[w] \in {"check", "update", "commit"}
      /\ UNCHANGED <<row, aged, claim, found, lock, native, bears, mapping, partner>>
  BY DEF OwnEnding, RecogniseKnown, BlockUnconfigured, UpdateFails, CommitRefused, queueVars,
         recordVars
<1>2. ASSUME NEW out \in OutcomeTypeOf(Codes), End(w, out), EndsOpen(pc[w], out.status),
             out.status = "processed" => Carries(mapping[KeyAt(w)], claim[w].event)
      PROVE  Ends
  BY <1>2
<1>3. ASSUME NEW out \in CommonOutcomes, End(w, out) PROVE Ends
  <2>1. /\ out \in OutcomeTypeOf(Codes)
        /\ out.status \in OpenStatuses
        /\ out.status # "processed"
    BY CommonOutcomeTypes, CodeFacts
  <2>2. EndsOpen(pc[w], out.status)
    BY <2>1 DEF EndsOpen
  <2> QED
    BY <1>3, <1>2, <2>1, <2>2
<1>4. ASSUME RecogniseKnown(w) PROVE Ends
  <2> DEFINE known == mapping[KeyAt(w)]
             out == KnownOutcome(claim[w].event, known)
  <2>1. claim[w].event \in Events /\ known.version \in Nat
    BY <1>1, BusyFacts
  <2>2. VersionOf[claim[w].event] <= known.version /\ End(w, out)
    BY <1>4 DEF RecogniseKnown, Seen
  <2>3. /\ out \in OutcomeTypeOf(Codes)
        /\ out.status \in {"processed", "dead_letter"}
        /\ out.status = "processed" => Carries(known, claim[w].event)
    BY <2>1, <2>2, KnownStatus
  <2> HIDE DEF out
  <2>4. EndsOpen(pc[w], out.status)
    BY <2>3 DEF EndsOpen, OpenStatuses
  <2> QED
    BY <1>2, <2>2, <2>3, <2>4
<1>5. ASSUME BlockUnconfigured(w) \/ UpdateFails(w) PROVE Ends
  <2>1. PICK out \in CommonOutcomes : End(w, out)
    BY <1>5 DEF BlockUnconfigured, UpdateFails, CommonOutcomes
  <2> QED
    BY <1>3, <2>1
<1>6. ASSUME CommitRefused(w) PROVE Ends
  <2>1. /\ Closed("LEASE_LOST") \in OutcomeTypeOf(Codes)
        /\ Closed("LEASE_LOST").status = "closed"
    BY ClosedType, CodeFacts
  <2>2. End(w, Closed("LEASE_LOST")) /\ pc[w] \in Section
    BY <1>6 DEF CommitRefused, Section
  <2>3. EndsOpen(pc[w], Closed("LEASE_LOST").status)
    BY <2>1, <2>2 DEF EndsOpen
  <2>4. Closed("LEASE_LOST").status # "processed"
    BY <2>1
  <2> QED
    BY <1>2, <2>1, <2>2, <2>3, <2>4
<1> QED
  BY <1>1, <1>4, <1>5, <1>6 DEF OwnEnding

-----------------------------------------------------------------------------
(* Types and attempts. *)

OwnStep(w) ==
  \/ OwnEnding(w) \/ OwnMoving(w)
  \/ Update(w) \/ UpdateUnanswered(w) \/ Create(w) \/ CreateUnanswered(w)
  \/ CommitRecords(w)

\* Next, by what its steps have in common.
LEMMA NextCases ==
  ASSUME Next
  PROVE  \/ \E e \in Events : QueueStep(e) /\ UNCHANGED <<bears, mapping, partner>>
         \/ \E w \in Workers, e \in Events : Begin(w, e) /\ UNCHANGED <<bears, mapping, partner>>
         \/ \E w \in Workers : CommonStep(w) /\ UNCHANGED <<bears, mapping, partner>>
         \/ \E w \in Workers : OwnStep(w)
BY DEF Next, EngineStep, SessionStep, QueueStep, Begin, CommonStep, OwnStep, OwnEnding, OwnMoving,
       recordVars

\* The record the commit leaves in the mapping has its type, and so has what it
\* announces (PostgresDocumentOutcomeStore.advance).
LEMMA RegisterTypes ==
  ASSUME TypeOK, NEW k \in Keys, NEW n \in NativeIds \cup {NoNative}, NEW v \in Nat,
         NEW c \in Contents
  PROVE  /\ [native |-> n, version |-> v, content |-> c]
              \in [native : NativeIds \cup {NoNative}, version : Nat, content : Contents]
         /\ Advanced(partner[k], c) \in [revision : Nat, content : Contents]
         /\ Advanced(partner[k], c).content = c
<1>1. partner[k] \in [revision : Nat, content : Contents]
  BY DEF TypeOK
<1>2. Advanced(partner[k], c) \in [revision : Nat, content : Contents]
  BY <1>1 DEF Advanced
<1> QED
  BY <1>1, <1>2 DEF Advanced

\* The steps of the projection's own keep the types and what holds of attempts.
LEMMA OwnKeeps ==
  ASSUME TypeOK, AttemptInv, NEW w \in Workers, OwnStep(w)
  PROVE  TypeOK' /\ AttemptInv'
<1> DEFINE Kept == TypeOK' /\ AttemptInv'
<1>0. /\ ExecutionTypeOK(Codes, FoundCodes)
      /\ bears \in [NativeIds -> Events \cup {NoEvent}]
      /\ mapping \in [Keys -> [native : NativeIds \cup {NoNative}, version : Nat,
                               content : Contents]]
      /\ partner \in [Keys -> [revision : Nat, content : Contents]]
  BY DEF TypeOK, FoundCodes
<1>1. ASSUME OwnEnding(w) PROVE Kept
  <2>1. /\ pc[w] # "idle"
        /\ UNCHANGED <<row, aged, claim, found, lock, native, bears, mapping, partner>>
    BY <1>1, OwnEndingFrame
  <2>2. PICK out \in OutcomeTypeOf(Codes) : End(w, out) /\ EndsOpen(pc[w], out.status)
    BY <1>1, OwnEndingFrame
  <2>3. /\ pc' \in [Workers -> Steps]
        /\ outcome' \in [Workers -> OutcomeTypeOf(Codes)]
        /\ AttemptInv'
    BY <1>0, <2>1, <2>2, EndKeeps
  <2> QED
    BY <1>0, <2>1, <2>3 DEF TypeOK, ExecutionTypeOK, QueueTypeOK
<1>2. ASSUME NEW step \in Section \ {"unlock"}, pc[w] \in Section, Goto(w, step),
             UNCHANGED <<claim, outcome, lock, row, aged>>,
             found' \in [Workers -> FoundTypeOf(FoundCodes)],
             native' \in [Keys -> SUBSET NativeIds],
             bears' \in [NativeIds -> Events \cup {NoEvent}],
             UNCHANGED <<mapping, partner>>
      PROVE  Kept
  <2>1. pc' \in [Workers -> Steps] /\ AttemptInv'
    BY <1>0, <1>2, GotoKeeps
  <2> QED
    BY <1>0, <1>2, <2>1 DEF TypeOK, ExecutionTypeOK, QueueTypeOK, FoundCodes
<1>3. ASSUME pc[w] \in Section, End(w, Transient),
             UNCHANGED <<claim, lock, row, aged, found>>,
             native' \in [Keys -> SUBSET NativeIds],
             bears' \in [NativeIds -> Events \cup {NoEvent}],
             UNCHANGED <<mapping, partner>>
      PROVE  Kept
  <2>1. Transient \in OutcomeTypeOf(Codes) /\ Transient.status \in OpenStatuses
    BY CommonOutcomeTypes, CodeFacts DEF CommonOutcomes
  <2>2. /\ pc' \in [Workers -> Steps]
        /\ outcome' \in [Workers -> OutcomeTypeOf(Codes)]
        /\ AttemptInv'
    BY <1>0, <1>3, <2>1, EndKeeps DEF EndsOpen, Section
  <2> QED
    BY <1>0, <1>3, <2>2 DEF TypeOK, ExecutionTypeOK, QueueTypeOK
<1>4. /\ {"check", "find", "create", "update", "commit"} \subseteq Section
      /\ {"find", "create", "update", "commit"} \subseteq Section \ {"unlock"}
  BY DEF Section
<1>5. ASSUME ResolveUnmapped(w) PROVE Kept
  BY <1>0, <1>2, <1>4, <1>5 DEF ResolveUnmapped, queueVars, recordVars, ExecutionTypeOK
<1>6. ASSUME ResolveMapped(w) PROVE Kept
  <2>1. mapping[KeyAt(w)].native \in NativeIds \cup {NoNative}
    BY <1>0, <1>6, BusyFacts DEF ResolveMapped
  <2>2. [native |-> mapping[KeyAt(w)].native, code |-> "UPDATED"] \in FoundTypeOf(FoundCodes)
    BY <2>1 DEF FoundTypeOf, FoundCodes, SettlingCodes
  <2>3. found' \in [Workers -> FoundTypeOf(FoundCodes)]
    BY <1>0, <1>6, <2>2 DEF ResolveMapped, ExecutionTypeOK
  <2> QED
    BY <1>0, <1>2, <1>4, <1>6, <2>3 DEF ResolveMapped, queueVars, recordVars, ExecutionTypeOK
<1>7. ASSUME Adopt(w) PROVE Kept
  <2>1. PICK n \in native[KeyAt(w)] :
          found' = [found EXCEPT ![w] = [native |-> n, code |-> "ADOPTED_NATIVE_PARTNER"]]
    BY <1>7 DEF Adopt
  <2>2. n \in NativeIds
    BY <1>0, <1>7, BusyFacts DEF Adopt, ExecutionTypeOK
  <2>3. [native |-> n, code |-> "ADOPTED_NATIVE_PARTNER"] \in FoundTypeOf(FoundCodes)
    BY <2>2 DEF FoundTypeOf, FoundCodes, SettlingCodes
  <2>4. found' \in [Workers -> FoundTypeOf(FoundCodes)]
    BY <1>0, <2>1, <2>3 DEF ExecutionTypeOK
  <2> QED
    BY <1>0, <1>2, <1>4, <1>7, <2>4 DEF Adopt, queueVars, recordVars, ExecutionTypeOK
<1>8. ASSUME NEW n, EngineWrites(w, n), pc[w] # "idle"
      PROVE  bears' \in [NativeIds -> Events \cup {NoEvent}]
  BY <1>0, <1>8, BusyFacts DEF EngineWrites
<1>9. ASSUME Update(w) PROVE Kept
  BY <1>0, <1>2, <1>4, <1>8, <1>9 DEF Update, queueVars, recordVars, ExecutionTypeOK
<1>10. ASSUME UpdateUnanswered(w) PROVE Kept
  BY <1>0, <1>3, <1>4, <1>8, <1>10 DEF UpdateUnanswered, queueVars, recordVars, ExecutionTypeOK
<1>11. ASSUME Create(w) PROVE Kept
  <2>1. PICK n \in NativeIds :
          /\ EngineCommits(KeyAt(w), n)
          /\ EngineWrites(w, n)
          /\ found' = [found EXCEPT ![w] = [native |-> n, code |-> "CREATED"]]
    BY <1>11 DEF Create
  <2>2. native' \in [Keys -> SUBSET NativeIds]
    BY <1>0, <1>11, <2>1, BusyFacts, EngineType DEF Create
  <2>3. [native |-> n, code |-> "CREATED"] \in FoundTypeOf(FoundCodes)
    BY DEF FoundTypeOf, FoundCodes, SettlingCodes
  <2>4. found' \in [Workers -> FoundTypeOf(FoundCodes)]
    BY <1>0, <2>1, <2>3 DEF ExecutionTypeOK
  <2>5. bears' \in [NativeIds -> Events \cup {NoEvent}]
    BY <1>8, <1>11, <2>1 DEF Create
  <2> QED
    BY <1>2, <1>4, <1>11, <2>2, <2>4, <2>5 DEF Create, queueVars, recordVars
<1>12. ASSUME CreateUnanswered(w) PROVE Kept
  <2>1. PICK n \in NativeIds : EngineCommits(KeyAt(w), n) /\ EngineWrites(w, n)
    BY <1>12 DEF CreateUnanswered
  <2>2. native' \in [Keys -> SUBSET NativeIds]
    BY <1>0, <1>12, <2>1, BusyFacts, EngineType DEF CreateUnanswered
  <2>3. bears' \in [NativeIds -> Events \cup {NoEvent}]
    BY <1>8, <1>12, <2>1 DEF CreateUnanswered
  <2> QED
    BY <1>3, <1>4, <1>12, <2>2, <2>3 DEF CreateUnanswered, queueVars, recordVars
<1>13. ASSUME CommitRecords(w) PROVE Kept
  <2> DEFINE e == claim[w].event
             k == KeyAt(w)
             done == Outcome("processed", found[w].code)
  <2>1. /\ e \in Events /\ k \in Keys /\ VersionOf[e] \in Nat /\ ContentOf[e] \in Contents
        /\ pc[w] # "idle"
    BY <1>13, BusyFacts DEF CommitRecords
  <2>2. found[w].code \in Codes /\ found[w].native \in NativeIds \cup {NoNative}
    BY <1>0, CodeFacts DEF ExecutionTypeOK, FoundTypeOf
  <2>3. /\ done \in OutcomeTypeOf(Codes) /\ done.status = "processed"
        /\ Closed(found[w].code) \in OutcomeTypeOf(Codes)
        /\ Closed(found[w].code).status = "closed"
    BY <2>2, CodeFacts, ProcessedType, ClosedType
  <2>4. row \in [Events -> RowType(Codes)]
    BY <1>0 DEF ExecutionTypeOK, QueueTypeOK
  <2>5. row[e].attempts > 0
    BY <1>13, <2>1 DEF CommitRecords, Holds, AttemptInv, ClaimInv
  <2>6. SettledRow(e, done) \in RowType(Codes)
    BY <2>1, <2>3, <2>4, <2>5, SettledType DEF OpenStatuses
  <2>7. row' = [row EXCEPT ![e] = SettledRow(e, done)]
    BY <1>13 DEF CommitRecords
  <2>8. row' \in [Events -> RowType(Codes)]
    BY <2>4, <2>6, <2>7
  <2>9. mapping' \in [Keys -> [native : NativeIds \cup {NoNative}, version : Nat,
                               content : Contents]]
    <3>1. mapping' = [mapping EXCEPT ![k] = [native |-> found[w].native, version |-> VersionOf[e],
                                             content |-> ContentOf[e]]]
      BY <1>13 DEF CommitRecords
    <3> QED
      BY <1>0, <2>1, <2>2, <3>1, RegisterTypes
  <2>10. partner' \in [Keys -> [revision : Nat, content : Contents]]
    <3>1. partner' = [partner EXCEPT ![k] = Advanced(partner[k], ContentOf[e])]
      BY <1>0, <1>13, <2>1 DEF CommitRecords
    <3>2. Advanced(partner[k], ContentOf[e]) \in [revision : Nat, content : Contents]
      BY <2>1, <2>2, RegisterTypes
    <3> QED
      BY <1>0, <3>1, <3>2
  <2>11. /\ End(w, Closed(found[w].code)) /\ pc[w] \in Section
         /\ UNCHANGED <<aged, claim, found, lock, native, bears>>
    BY <1>13 DEF CommitRecords, Section
  <2>12. /\ pc' \in [Workers -> Steps]
         /\ outcome' \in [Workers -> OutcomeTypeOf(Codes)]
         /\ AttemptInv'
    BY <1>0, <2>1, <2>3, <2>11, EndKeeps DEF EndsOpen
  <2> QED
    BY <1>0, <2>8, <2>9, <2>10, <2>11, <2>12 DEF TypeOK, ExecutionTypeOK, QueueTypeOK
<1> QED
  BY <1>1, <1>5, <1>6, <1>7, <1>9, <1>10, <1>11, <1>12, <1>13 DEF OwnStep, OwnMoving

-----------------------------------------------------------------------------
(* What the steps of the projection's own change. *)

\* They work inside the section, on the worker's own attempt.
LEMMA OwnFrame ==
  ASSUME TypeOK, AttemptInv, NEW w \in Workers, OwnStep(w)
  PROVE  /\ pc[w] \in Section \ {"unlock"}
         /\ claim' = claim
         /\ \A v \in Workers \ {w} :
              pc'[v] = pc[v] /\ outcome'[v] = outcome[v] /\ found'[v] = found[v]
<1> USE DEF TypeOK, ExecutionTypeOK, queueVars, Section
<1>1. CASE OwnEnding(w)
  <2>1. pc[w] \in {"check", "update", "commit"} /\ claim' = claim /\ found' = found
    BY <1>1, OwnEndingFrame
  <2>2. PICK out \in OutcomeTypeOf(Codes) : End(w, out)
    BY <1>1, OwnEndingFrame
  <2> QED
    BY <2>1, <2>2 DEF End, Goto
<1>2. CASE OwnMoving(w)
  BY <1>2 DEF OwnMoving, ResolveMapped, ResolveUnmapped, Adopt, Goto
<1>3. CASE Update(w) \/ UpdateUnanswered(w)
  BY <1>3 DEF Update, UpdateUnanswered, End, Goto
<1>4. CASE Create(w) \/ CreateUnanswered(w)
  BY <1>4 DEF Create, CreateUnanswered, End, Goto
<1>5. CASE CommitRecords(w)
  BY <1>5 DEF CommitRecords, End, Goto
<1> QED
  BY <1>1, <1>2, <1>3, <1>4, <1>5 DEF OwnStep

\* The engine is only written by updates and creates.
LEMMA EngineChange ==
  ASSUME TypeOK, AttemptInv, NEW w \in Workers, OwnStep(w)
  PROVE  \/ native' = native /\ bears' = bears
         \/ pc[w] = "update" /\ native' = native /\ EngineWrites(w, found[w].native)
         \/ /\ pc[w] = "create"
            /\ \E n \in NativeIds : EngineCommits(KeyAt(w), n) /\ EngineWrites(w, n)
<1>1. CASE OwnEnding(w)
  BY <1>1, OwnEndingFrame
<1>2. CASE OwnMoving(w) \/ CommitRecords(w)
  BY <1>2 DEF OwnMoving, ResolveMapped, ResolveUnmapped, Adopt, CommitRecords
<1>3. CASE Update(w) \/ UpdateUnanswered(w)
  BY <1>3 DEF Update, UpdateUnanswered
<1>4. CASE Create(w) \/ CreateUnanswered(w)
  BY <1>4 DEF Create, CreateUnanswered
<1> QED
  BY <1>1, <1>2, <1>3, <1>4 DEF OwnStep

\* The records and the rows are only written by the commit.
LEMMA RecordChange ==
  ASSUME TypeOK, AttemptInv, NEW w \in Workers, OwnStep(w), ~CommitRecords(w)
  PROVE  UNCHANGED <<row, mapping, partner>>
BY OwnEndingFrame DEF OwnStep, OwnMoving, ResolveMapped, ResolveUnmapped, Adopt, Update,
   UpdateUnanswered, Create, CreateUnanswered, queueVars, recordVars

\* A worker's step in the engine is about its own customer: a partner appears
\* only where there was none, and only the partner found is written.
LEMMA EngineEffect ==
  ASSUME TypeOK, AttemptInv, BearsInv, AheadInv, LearntInv, NEW w \in Workers, OwnStep(w)
  PROVE  /\ BearsInv'
         /\ \A k \in Keys \ {KeyAt(w)} :
              native'[k] = native[k] /\ \A n \in native[k] : bears'[n] = bears[n]
         /\ \/ native' = native
            \/ /\ pc[w] = "create" /\ native[KeyAt(w)] = {}
               /\ \E n \in NativeIds : native'[KeyAt(w)] = {n}
         /\ \A n \in native[KeyAt(w)] :
              \/ bears'[n] = bears[n]
              \/ pc[w] = "update" /\ n = found[w].native /\ bears'[n] = claim[w].event
<1>0. /\ native \in [Keys -> SUBSET NativeIds]
      /\ bears \in [NativeIds -> Events \cup {NoEvent}]
      /\ claim[w].event \in Events /\ KeyAt(w) \in Keys
      /\ KeyAt(w) = KeyOf[claim[w].event]
  BY OwnFrame, BusyFacts DEF TypeOK, ExecutionTypeOK, Section
<1>1. CASE native' = native /\ bears' = bears
  BY <1>1 DEF BearsInv
<1>2. CASE pc[w] = "update" /\ native' = native /\ EngineWrites(w, found[w].native)
  <2> DEFINE n == found[w].native
  <2>1. n \in native[KeyAt(w)] /\ n \in NativeIds
    BY <1>0, <1>2 DEF AheadInv
  <2>2. bears' = [bears EXCEPT ![n] = claim[w].event]
    BY <1>2 DEF EngineWrites
  <2>3. \A k \in Keys \ {KeyAt(w)} : n \notin native[k]
    BY <1>0, <2>1 DEF BearsInv
  <2> HIDE DEF n
  <2>4. BearsInv'
    BY <1>0, <1>2, <2>1, <2>2, <2>3 DEF BearsInv
  <2> QED
    BY <1>0, <1>2, <2>1, <2>2, <2>3, <2>4 DEF n
<1>3. CASE /\ pc[w] = "create"
           /\ \E n \in NativeIds : EngineCommits(KeyAt(w), n) /\ EngineWrites(w, n)
  <2>1. PICK n \in NativeIds : EngineCommits(KeyAt(w), n) /\ EngineWrites(w, n)
    BY <1>3
  <2>2. native[KeyAt(w)] = {}
    BY <1>3 DEF LearntInv
  <2>3. /\ native' = [native EXCEPT ![KeyAt(w)] = {n}]
        /\ bears' = [bears EXCEPT ![n] = claim[w].event]
    BY <1>0, <2>1, <2>2 DEF EngineCommits, EngineWrites
  <2>4. \A k \in Keys : n \notin native[k]
    BY <2>1 DEF EngineCommits, UsedIds
  <2>5. BearsInv'
    BY <1>0, <2>1, <2>3, <2>4 DEF BearsInv
  <2> QED
    BY <1>0, <1>3, <2>2, <2>3, <2>4, <2>5
<1> QED
  BY <1>1, <1>2, <1>3, EngineChange

\* The commit maps the partner found, in the event's version and content.
LEMMA CommitEffect ==
  ASSUME TypeOK, AttemptInv, AheadInv, LearntInv, NEW w \in Workers, CommitRecords(w)
  PROVE  LET e == claim[w].event
         IN  /\ e \in Events /\ KeyAt(w) = KeyOf[e] /\ KeyOf[e] \in Keys
             /\ \A k \in Keys \ {KeyOf[e]} : mapping'[k] = mapping[k] /\ partner'[k] = partner[k]
             /\ mapping'[KeyOf[e]].native = found[w].native
             /\ mapping'[KeyOf[e]].version = VersionOf[e]
             /\ mapping'[KeyOf[e]].content = ContentOf[e]
             /\ partner'[KeyOf[e]] = Advanced(partner[KeyOf[e]], ContentOf[e])
             /\ found[w].native \in native[KeyOf[e]] /\ found[w].native \in NativeIds
             /\ bears[found[w].native] = e
             /\ mapping[KeyOf[e]].native # NoNative =>
                  VersionOf[e] > mapping[KeyOf[e]].version
             /\ native' = native /\ bears' = bears
             /\ row[e].status = "processing" /\ row'[e].status = "processed"
             /\ \A f \in Events \ {e} : row'[f] = row[f]
<1> DEFINE e == claim[w].event
<1>1. e \in Events /\ KeyAt(w) = KeyOf[e] /\ KeyOf[e] \in Keys /\ pc[w] = "commit"
  BY BusyFacts DEF CommitRecords
<1>2. /\ mapping \in [Keys -> [native : NativeIds \cup {NoNative}, version : Nat,
                               content : Contents]]
      /\ partner \in [Keys -> [revision : Nat, content : Contents]]
      /\ native \in [Keys -> SUBSET NativeIds]
      /\ row \in [Events -> RowType(Codes)]
  BY DEF TypeOK, ExecutionTypeOK, QueueTypeOK
<1>3. /\ mapping' = [mapping EXCEPT ![KeyOf[e]] =
                       [native |-> found[w].native, version |-> VersionOf[e],
                        content |-> ContentOf[e]]]
      /\ partner' = [partner EXCEPT ![KeyOf[e]] = Advanced(@, ContentOf[e])]
  BY <1>1 DEF CommitRecords
<1>4. row' = [row EXCEPT ![e] = SettledRow(e, Outcome("processed", found[w].code))]
  BY DEF CommitRecords
<1>5. /\ found[w].native \in native[KeyOf[e]]
      /\ bears[found[w].native] = e
      /\ mapping[KeyOf[e]].native # NoNative => VersionOf[e] > mapping[KeyOf[e]].version
  BY <1>1 DEF AheadInv, LearntInv, MappedAt
<1>6. /\ native' = native /\ bears' = bears
      /\ row[e].status = "processing"
  BY DEF CommitRecords, Holds
<1>7. \A f \in Events \ {e} : row'[f] = row[f]
  BY <1>2, <1>4
<1>8. found[w].native \in NativeIds
  BY <1>1, <1>2, <1>5
<1>9. \A k \in Keys \ {KeyOf[e]} : mapping'[k] = mapping[k] /\ partner'[k] = partner[k]
  BY <1>2, <1>3
<1>10. /\ mapping'[KeyOf[e]].native = found[w].native
       /\ mapping'[KeyOf[e]].version = VersionOf[e]
       /\ mapping'[KeyOf[e]].content = ContentOf[e]
  BY <1>1, <1>2, <1>3
<1>11. partner'[KeyOf[e]] = Advanced(partner[KeyOf[e]], ContentOf[e])
  BY <1>1, <1>2, <1>3
<1>12. row'[e].status = "processed"
  <2>1. Outcome("processed", found[w].code).status = "processed"
    BY DEF Outcome, Detailed
  <2>2. row'[e].status = Outcome("processed", found[w].code).status
    BY <1>1, <1>2, <1>4 DEF SettledRow
  <2> QED
    BY <2>1, <2>2
<1> QED
  BY <1>1, <1>5, <1>6, <1>7, <1>8, <1>9, <1>10, <1>11, <1>12

-----------------------------------------------------------------------------
(* The invariants, step by step. *)

\* A version that is mapped is one of an event; only the commit writes records.
LEMMA RecordStep ==
  ASSUME TypeOK, AttemptInv, RecordInv, AheadInv, LearntInv, NEW w \in Workers, OwnStep(w)
  PROVE  RecordInv'
<1>1. CASE ~CommitRecords(w)
  BY <1>1, RecordChange DEF RecordInv
<1>2. CASE CommitRecords(w)
  <2> DEFINE e == claim[w].event
  <2>1. /\ e \in Events /\ KeyOf[e] \in Keys
        /\ \A k \in Keys \ {KeyOf[e]} : mapping'[k] = mapping[k] /\ partner'[k] = partner[k]
        /\ mapping'[KeyOf[e]].native = found[w].native
        /\ mapping'[KeyOf[e]].content = ContentOf[e]
        /\ partner'[KeyOf[e]] = Advanced(partner[KeyOf[e]], ContentOf[e])
        /\ found[w].native \in NativeIds
    BY <1>2, CommitEffect
  <2>2. partner'[KeyOf[e]].content = ContentOf[e]
    <3>1. NoNative \in NativeIds \cup {NoNative} /\ 0 \in Nat /\ ContentOf[e] \in Contents
      BY <2>1 DEF Contents
    <3> QED
      BY <2>1, <3>1, RegisterTypes
  <2>3. found[w].native # NoNative
    BY <2>1, ExecutionAssumption
  <2> QED
    BY <2>1, <2>2, <2>3 DEF RecordInv
<1> QED
  BY <1>1, <1>2

\* A mapping that carries an event goes on carrying it.
LEMMA CarriesStep ==
  ASSUME TypeOK, AttemptInv, RecordInv, AheadInv, LearntInv, NEW w \in Workers, OwnStep(w),
         NEW e \in Events, Carries(mapping[KeyOf[e]], e)
  PROVE  Carries(mapping'[KeyOf[e]], e)
<1>0. KeyOf[e] \in Keys /\ VersionOf[e] \in Nat \ {0}
  BY ExecutionAssumption
<1>1. CASE ~CommitRecords(w)
  BY <1>1, RecordChange
<1>2. CASE CommitRecords(w)
  <2> DEFINE d == claim[w].event
  <2>1. /\ d \in Events /\ KeyOf[d] \in Keys
        /\ \A k \in Keys \ {KeyOf[d]} : mapping'[k] = mapping[k]
        /\ mapping'[KeyOf[d]].version = VersionOf[d]
        /\ mapping[KeyOf[d]].native # NoNative => VersionOf[d] > mapping[KeyOf[d]].version
    BY <1>2, CommitEffect
  <2>2. CASE KeyOf[e] # KeyOf[d]
    BY <1>0, <2>1, <2>2
  <2>3. CASE KeyOf[e] = KeyOf[d]
    <3>1. VersionOf[d] \in Nat /\ mapping[KeyOf[d]].version \in Nat
      BY <2>1, ExecutionAssumption DEF TypeOK
    <3>2. mapping[KeyOf[d]].version >= VersionOf[e]
      BY <2>3 DEF Carries
    <3>3. mapping[KeyOf[d]].native # NoNative
      BY <1>0, <2>1, <3>1, <3>2 DEF RecordInv
    <3>4. VersionOf[d] > VersionOf[e]
      BY <1>0, <2>1, <3>1, <3>2, <3>3
    <3>5. mapping'[KeyOf[e]].version = VersionOf[d]
      BY <2>1, <2>3
    <3> QED
      BY <1>0, <3>1, <3>4, <3>5 DEF Carries
  <2> QED
    BY <2>2, <2>3
<1> QED
  BY <1>1, <1>2

\* Only a customer without a partner is given one.
LEMMA OneRecordStep ==
  ASSUME TypeOK, AttemptInv, BearsInv, AheadInv, LearntInv, OneNativeRecord,
         NEW w \in Workers, OwnStep(w)
  PROVE  OneNativeRecord'
<1>1. \A k \in Keys \ {KeyAt(w)} : native'[k] = native[k]
  BY EngineEffect
<1>2. native' = native \/ \E n \in NativeIds : native'[KeyAt(w)] = {n}
  BY EngineEffect
<1> QED
  BY <1>1, <1>2 DEF OneNativeRecord

\* The mapped partner is only written on behalf of an event the mapping is still
\* behind, and mapped in the version it bears.
LEMMA MappingStep ==
  ASSUME TypeOK, AttemptInv, RecordInv, BearsInv, AheadInv, LearntInv, MappingCarriedByEngine,
         NEW w \in Workers, OwnStep(w)
  PROVE  MappingCarriedByEngine'
<1>0. /\ claim[w].event \in Events /\ KeyAt(w) \in Keys /\ KeyAt(w) = KeyOf[claim[w].event]
      /\ VersionOf[claim[w].event] \in Nat /\ mapping[KeyAt(w)].version \in Nat
  BY OwnFrame, BusyFacts DEF Section
<1>1. CASE ~CommitRecords(w)
  <2>1. mapping' = mapping
    BY <1>1, RecordChange
  <2>2. ASSUME NEW k \in Keys \ {KeyAt(w)}, mapping[k].native # NoNative
        PROVE  native'[k] = native[k] /\ bears'[mapping[k].native] = bears[mapping[k].native]
    BY <2>2, EngineEffect DEF MappingCarriedByEngine
  <2>3. ASSUME MappedAt(w)
        PROVE  LET m == mapping[KeyAt(w)]
               IN  /\ m.native \in native'[KeyAt(w)]
                   /\ \/ bears'[m.native] = bears[m.native]
                      \/ /\ bears'[m.native] = claim[w].event
                         /\ VersionOf[claim[w].event] > m.version
    <3>1. mapping[KeyAt(w)].native \in native[KeyAt(w)]
      BY <1>0, <2>3 DEF MappingCarriedByEngine, MappedAt
    <3>2. native' = native
      BY <3>1, EngineEffect
    <3>3. \/ bears'[mapping[KeyAt(w)].native] = bears[mapping[KeyAt(w)].native]
          \/ pc[w] = "update" /\ bears'[mapping[KeyAt(w)].native] = claim[w].event
      BY <3>1, EngineEffect
    <3> QED
      BY <2>3, <3>1, <3>2, <3>3 DEF AheadInv
  <2>4. ASSUME NEW k \in Keys, mapping[k].native # NoNative
        PROVE  LET m == mapping[k]
               IN  /\ m.native \in native'[k]
                   /\ KeyOf[bears'[m.native]] = k
                   /\ VersionOf[bears'[m.native]] >= m.version
                   /\ VersionOf[bears'[m.native]] = m.version =>
                        ContentOf[bears'[m.native]] = m.content
    <3>1. CASE k # KeyAt(w)
      BY <2>2, <2>4, <3>1 DEF MappingCarriedByEngine
    <3>2. CASE k = KeyAt(w)
      <4>1. MappedAt(w)
        BY <2>4, <3>2 DEF MappedAt
      <4>2. CASE bears'[mapping[k].native] = bears[mapping[k].native]
        BY <2>3, <2>4, <3>2, <4>1, <4>2 DEF MappingCarriedByEngine
      <4>3. CASE /\ bears'[mapping[k].native] = claim[w].event
                 /\ VersionOf[claim[w].event] > mapping[k].version
        <5>1. mapping[k].native \in native'[k] /\ mapping[k].version \in Nat
          BY <1>0, <2>3, <3>2, <4>1
        <5> QED
          BY <1>0, <3>2, <4>3, <5>1
      <4> QED
        BY <2>3, <3>2, <4>1, <4>2, <4>3
    <3> QED
      BY <3>1, <3>2
  <2> QED
    BY <2>1, <2>4 DEF MappingCarriedByEngine
<1>2. CASE CommitRecords(w)
  <2> DEFINE e == claim[w].event
  <2>1. /\ \A k \in Keys \ {KeyOf[e]} : mapping'[k] = mapping[k]
        /\ mapping'[KeyOf[e]].native = found[w].native
        /\ mapping'[KeyOf[e]].version = VersionOf[e]
        /\ mapping'[KeyOf[e]].content = ContentOf[e]
        /\ found[w].native \in native[KeyOf[e]]
        /\ bears[found[w].native] = e
        /\ native' = native /\ bears' = bears
    BY <1>2, CommitEffect
  <2> QED
    BY <1>0, <2>1 DEF MappingCarriedByEngine
<1> QED
  BY <1>1, <1>2

\* What a worker found under the lock stays; only its own steps add to it.
LEMMA AheadStep ==
  ASSUME TypeOK, AttemptInv, BearsInv, AheadInv, LearntInv, MappingCarriedByEngine,
         NEW w \in Workers, OwnStep(w)
  PROVE  AheadInv'
<1> DEFINE Ahead(v, n, c) == /\ n \in native'[KeyAt(v)]
                             /\ c \in SettlingCodes
                             /\ mapping'[KeyAt(v)].native # NoNative =>
                                  VersionOf[claim[v].event] > mapping'[KeyAt(v)].version
<1>0. /\ KeyAt(w) \in Keys /\ claim[w].event \in Events
      /\ VersionOf[claim[w].event] \in Nat /\ mapping[KeyAt(w)].version \in Nat
      /\ claim' = claim
      /\ pc \in [Workers -> Steps] /\ found \in [Workers -> FoundTypeOf(FoundCodes)]
  BY OwnFrame, BusyFacts DEF Section, TypeOK, ExecutionTypeOK, FoundCodes
<1>1. ASSUME NEW v \in Workers \ {w}, pc'[v] \in {"update", "commit"}
      PROVE  Ahead(v, found'[v].native, found'[v].code)
  <2>1. pc[v] \in {"update", "commit"} /\ found'[v] = found[v]
    BY <1>1, OwnFrame
  <2>2. KeyAt(v) # KeyAt(w) /\ KeyAt(v) \in Keys
    BY <2>1, OwnFrame, OthersElsewhere, BusyFacts DEF Section
  <2>3. native'[KeyAt(v)] = native[KeyAt(v)]
    BY <2>2, EngineEffect
  <2>4. mapping'[KeyAt(v)] = mapping[KeyAt(v)]
    BY <2>2, RecordChange, CommitEffect
  <2> QED
    BY <2>1, <2>3, <2>4 DEF AheadInv, MappedAt
<1>2. ASSUME pc'[w] \in {"update", "commit"}
      PROVE  Ahead(w, found'[w].native, found'[w].code)
  <2>1. ASSUME OwnEnding(w) PROVE FALSE
    <3>1. PICK out \in OutcomeTypeOf(Codes) : End(w, out)
      BY <2>1, OwnEndingFrame
    <3> QED
      BY <1>0, <1>2, <3>1 DEF End, Goto
  <2>2. ~CommitRecords(w) /\ ~UpdateUnanswered(w) /\ ~CreateUnanswered(w) /\ ~ResolveUnmapped(w)
    BY <1>0, <1>2 DEF CommitRecords, UpdateUnanswered, CreateUnanswered, ResolveUnmapped, End, Goto
  <2>3. mapping' = mapping
    BY <2>2, RecordChange
  <2>4. CASE ResolveMapped(w)
    <3>1. /\ found'[w] = [native |-> mapping[KeyAt(w)].native, code |-> "UPDATED"]
          /\ native' = native /\ MappedAt(w) /\ ~Seen(w)
      BY <1>0, <2>4 DEF ResolveMapped
    <3>2. VersionOf[claim[w].event] > mapping[KeyAt(w)].version
      BY <1>0, <3>1 DEF Seen
    <3>3. mapping[KeyAt(w)].native \in native[KeyAt(w)]
      BY <1>0, <3>1 DEF MappingCarriedByEngine, MappedAt
    <3> QED
      BY <2>3, <3>1, <3>2, <3>3 DEF SettlingCodes
  <2>5. CASE Adopt(w)
    <3>1. PICK n \in native[KeyAt(w)] :
            found' = [found EXCEPT ![w] = [native |-> n, code |-> "ADOPTED_NATIVE_PARTNER"]]
      BY <2>5 DEF Adopt
    <3>2. native' = native /\ ~MappedAt(w)
      BY <2>5 DEF Adopt, LearntInv
    <3>3. found'[w].native = n /\ found'[w].code = "ADOPTED_NATIVE_PARTNER"
      BY <1>0, <3>1
    <3> QED
      BY <2>3, <3>1, <3>2, <3>3 DEF SettlingCodes, MappedAt
  <2>6. CASE Update(w)
    BY <2>3, <2>6 DEF Update, AheadInv, MappedAt
  <2>7. CASE Create(w)
    <3>1. PICK n \in NativeIds :
            /\ EngineCommits(KeyAt(w), n)
            /\ found' = [found EXCEPT ![w] = [native |-> n, code |-> "CREATED"]]
      BY <2>7 DEF Create
    <3>2. n \in native'[KeyAt(w)] /\ ~MappedAt(w)
      BY <1>0, <2>7, <3>1 DEF Create, LearntInv, EngineCommits, TypeOK, ExecutionTypeOK
    <3>3. found'[w].native = n /\ found'[w].code = "CREATED"
      BY <1>0, <3>1
    <3> QED
      BY <2>3, <3>2, <3>3 DEF SettlingCodes, MappedAt
  <2> QED
    BY <2>1, <2>2, <2>4, <2>5, <2>6, <2>7 DEF OwnStep, OwnMoving
<1>3. \A v \in Workers : KeyAt(v)' = KeyAt(v)
  BY <1>0 DEF KeyAt
<1> QED
  BY <1>0, <1>1, <1>2, <1>3 DEF AheadInv, MappedAt

\* So does what it has learnt about the mapping and about the partner it wrote.
LEMMA LearntStep ==
  ASSUME TypeOK, AttemptInv, BearsInv, AheadInv, LearntInv, NEW w \in Workers, OwnStep(w)
  PROVE  LearntInv'
<1> DEFINE Learnt(v) == /\ pc'[v] \in {"find", "create"} => mapping'[KeyAt(v)].native = NoNative
                        /\ pc'[v] = "create" => native'[KeyAt(v)] = {}
                        /\ pc'[v] = "commit" => bears'[found'[v].native] = claim[v].event
<1>0. /\ KeyAt(w) \in Keys /\ claim[w].event \in Events /\ claim' = claim
      /\ pc \in [Workers -> Steps] /\ found \in [Workers -> FoundTypeOf(FoundCodes)]
      /\ bears \in [NativeIds -> Events \cup {NoEvent}]
      /\ native \in [Keys -> SUBSET NativeIds]
  BY OwnFrame, BusyFacts DEF Section, TypeOK, ExecutionTypeOK, FoundCodes
<1>1. ASSUME NEW v \in Workers \ {w}, pc'[v] \in {"find", "create", "commit"}
      PROVE  Learnt(v)
  <2>1. pc[v] = pc'[v] /\ found'[v] = found[v]
    BY <1>1, OwnFrame
  <2>2. KeyAt(v) # KeyAt(w) /\ KeyAt(v) \in Keys
    BY <1>1, <2>1, OwnFrame, OthersElsewhere, BusyFacts DEF Section
  <2>3. /\ native'[KeyAt(v)] = native[KeyAt(v)]
        /\ \A n \in native[KeyAt(v)] : bears'[n] = bears[n]
    BY <2>2, EngineEffect
  <2>4. mapping'[KeyAt(v)] = mapping[KeyAt(v)]
    BY <2>2, RecordChange, CommitEffect
  <2>5. pc[v] = "commit" => found[v].native \in native[KeyAt(v)]
    BY DEF AheadInv
  <2> QED
    BY <2>1, <2>3, <2>4, <2>5 DEF LearntInv, MappedAt
<1>2. ASSUME pc'[w] \in {"find", "create", "commit"}
      PROVE  Learnt(w)
  <2>1. ASSUME OwnEnding(w) PROVE FALSE
    <3>1. PICK out \in OutcomeTypeOf(Codes) : End(w, out)
      BY <2>1, OwnEndingFrame
    <3> QED
      BY <1>0, <1>2, <3>1 DEF End, Goto
  <2>2. /\ ~CommitRecords(w) /\ ~UpdateUnanswered(w) /\ ~CreateUnanswered(w)
        /\ ~ResolveMapped(w) /\ ~Adopt(w)
    BY <1>0, <1>2
    DEF CommitRecords, UpdateUnanswered, CreateUnanswered, ResolveMapped, Adopt, End, Goto
  <2>3. CASE ResolveUnmapped(w)
    BY <1>0, <2>3 DEF ResolveUnmapped, MappedAt, recordVars, Goto
  <2>4. CASE Update(w)
    <3>1. found[w].native \in NativeIds
      BY <1>0, <2>4 DEF Update, AheadInv
    <3> QED
      BY <1>0, <2>4, <3>1 DEF Update, EngineWrites, Goto
  <2>5. CASE Create(w)
    <3>1. PICK n \in NativeIds :
            /\ EngineWrites(w, n)
            /\ found' = [found EXCEPT ![w] = [native |-> n, code |-> "CREATED"]]
      BY <2>5 DEF Create
    <3>2. found'[w].native = n /\ bears'[n] = claim[w].event /\ pc'[w] = "commit"
      BY <1>0, <2>5, <3>1 DEF Create, EngineWrites, Goto
    <3> QED
      BY <3>2
  <2> QED
    BY <2>1, <2>2, <2>3, <2>4, <2>5 DEF OwnStep, OwnMoving
<1>3. \A v \in Workers : KeyAt(v)' = KeyAt(v)
  BY <1>0 DEF KeyAt
<1> QED
  BY <1>0, <1>1, <1>2, <1>3 DEF LearntInv, MappedAt

\* An attempt only ends as processed if the mapping carries its event.
LEMMA JustifiedStep ==
  ASSUME TypeOK, AttemptInv, RecordInv, AheadInv, LearntInv, JustifiedInv,
         NEW w \in Workers, OwnStep(w)
  PROVE  JustifiedInv'
<1>0. /\ claim' = claim /\ pc[w] \notin {"unlock", "settle"}
      /\ pc \in [Workers -> Steps] /\ outcome \in [Workers -> OutcomeTypeOf(Codes)]
  BY OwnFrame DEF Section, TypeOK, ExecutionTypeOK
<1>1. ASSUME NEW v \in Workers, pc'[v] \in {"unlock", "settle"}, outcome'[v].status = "processed"
      PROVE  Carries(mapping[KeyAt(v)], claim[v].event)
  <2>1. CASE v # w
    <3>1. pc'[v] = pc[v] /\ outcome'[v] = outcome[v]
      BY <2>1, OwnFrame
    <3> QED
      BY <1>1, <3>1 DEF JustifiedInv
  <2>2. CASE v = w
    <3>1. ~UpdateUnanswered(w) /\ ~CreateUnanswered(w) /\ ~CommitRecords(w)
      <4>1. Transient.status # "processed"
        BY CommonOutcomeTypes, CodeFacts DEF CommonOutcomes
      <4>2. found[w].code \in Codes
        BY CodeFacts DEF TypeOK, ExecutionTypeOK, FoundTypeOf, FoundCodes
      <4>3. Closed(found[w].code).status # "processed"
        BY <4>2, CodeFacts, ClosedType
      <4> QED
        BY <1>0, <1>1, <2>2, <4>1, <4>3 DEF UpdateUnanswered, CreateUnanswered, CommitRecords, End
    <3>2. ~OwnMoving(w) /\ ~Update(w) /\ ~Create(w)
      BY <1>0, <1>1, <2>2
      DEF OwnMoving, ResolveMapped, ResolveUnmapped, Adopt, Update, Create, Goto
    <3>3. OwnEnding(w)
      BY <3>1, <3>2 DEF OwnStep
    <3>4. PICK out \in OutcomeTypeOf(Codes) :
            /\ End(w, out)
            /\ out.status = "processed" => Carries(mapping[KeyAt(w)], claim[w].event)
      BY <3>3, OwnEndingFrame
    <3>5. outcome'[w] = out
      BY <1>0, <3>4 DEF End
    <3> QED
      BY <1>1, <2>2, <3>4, <3>5
  <2> QED
    BY <2>1, <2>2
<1>2. ASSUME NEW v \in Workers, pc'[v] \in {"unlock", "settle"}, outcome'[v].status = "processed"
      PROVE  Carries(mapping'[KeyAt(v)], claim[v].event)
  <2>1. claim[v].event \in Events /\ KeyAt(v) = KeyOf[claim[v].event]
    <3>1. pc[v] # "idle"
      BY <1>2, OwnFrame DEF Section
    <3> QED
      BY <3>1, BusyFacts
  <2> QED
    BY <1>1, <1>2, <2>1, CarriesStep
<1> QED
  BY <1>0, <1>2 DEF JustifiedInv, KeyAt

\* A row is processed by the transaction that maps its customer.
LEMMA ProjectedStep ==
  ASSUME TypeOK, AttemptInv, RecordInv, AheadInv, LearntInv, ProcessedMeansProjected,
         NEW w \in Workers, OwnStep(w)
  PROVE  ProcessedMeansProjected'
<1>1. ASSUME NEW e \in Events, row'[e].status = "processed"
      PROVE  Carries(mapping'[KeyOf[e]], e)
  <2>1. CASE row'[e] = row[e]
    <3>1. Carries(mapping[KeyOf[e]], e)
      BY <1>1, <2>1 DEF ProcessedMeansProjected, Carries
    <3> QED
      BY <3>1, CarriesStep
  <2>2. CASE row'[e] # row[e]
    <3>1. CommitRecords(w)
      BY <2>2, RecordChange
    <3>2. e = claim[w].event
      BY <2>2, <3>1, CommitEffect
    <3>3. /\ mapping'[KeyOf[e]].version = VersionOf[e]
          /\ mapping'[KeyOf[e]].content = ContentOf[e]
      BY <3>1, <3>2, CommitEffect
    <3>4. VersionOf[e] \in Nat
      BY ExecutionAssumption
    <3> QED
      BY <3>3, <3>4 DEF Carries
  <2> QED
    BY <2>1, <2>2
<1> QED
  BY <1>1 DEF ProcessedMeansProjected, Carries

-----------------------------------------------------------------------------
(* The inductive invariant. *)

\* It holds before anything was received.
LEMMA InitIInv == Init => IInv
<1> SUFFICES ASSUME Init PROVE IInv
  OBVIOUS
<1> USE DEF Init
<1>1. /\ ExecutionTypeOK(Codes, FoundCodes) /\ AttemptInv
      /\ pc = [w \in Workers |-> "idle"] /\ native = [k \in Keys |-> {}]
      /\ row = [e \in Events |-> AbsentRow]
  BY CodeFacts, ExecutionInitKeeps DEF ExecutionInit, QueueInit
<1>2. NoContent \in Contents /\ 0 \in Nat
  BY DEF Contents
<1>3. mapping \in [Keys -> [native : NativeIds \cup {NoNative}, version : Nat,
                           content : Contents]]
  BY <1>2 DEF Unmapped
<1>4. partner \in [Keys -> [revision : Nat, content : Contents]]
  BY <1>2 DEF Unannounced
<1>5. TypeOK
  BY <1>1, <1>3, <1>4 DEF TypeOK, FoundCodes
<1>6. RecordInv /\ MappingCarriedByEngine
  BY DEF RecordInv, MappingCarriedByEngine, Unmapped, Unannounced
<1>7. BearsInv /\ AheadInv /\ LearntInv /\ JustifiedInv /\ OneNativeRecord
  BY <1>1 DEF BearsInv, AheadInv, LearntInv, JustifiedInv, OneNativeRecord
<1>8. ProcessedMeansProjected
  BY <1>1 DEF ProcessedMeansProjected, AbsentRow, FreshRow
<1> QED
  BY <1>1, <1>5, <1>6, <1>7, <1>8 DEF IInv

\* Steps that leave the engine's partners and the records alone keep it.
LEMMA SharedStep ==
  ASSUME IInv, UNCHANGED <<bears, mapping, partner>>,
         \/ \E e \in Events : QueueStep(e)
         \/ \E w \in Workers, e \in Events : Begin(w, e)
         \/ \E w \in Workers : CommonStep(w)
  PROVE  IInv'
<1> USE DEF IInv
<1>0. ExecutionTypeOK(Codes, FoundCodes)
  BY DEF TypeOK, FoundCodes
<1>1. ASSUME ExecutionTypeOK(Codes, FoundCodes)', AttemptInv', native' = native,
             \A w \in Workers :
               /\ pc'[w] \in {"update", "commit"} =>
                    pc[w] = pc'[w] /\ claim'[w] = claim[w] /\ found'[w] = found[w]
               /\ pc'[w] \in {"find", "create"} =>
                    /\ pc[w] \in {"find", "create"} /\ claim'[w] = claim[w]
                    /\ pc'[w] = "create" => native[KeyAt(w)] = {}
               /\ pc'[w] \in {"unlock", "settle"} /\ outcome'[w].status = "processed" =>
                    /\ pc[w] \in {"unlock", "settle"} /\ claim'[w] = claim[w]
                    /\ outcome'[w] = outcome[w],
             \A e \in Events :
               row'[e].status = "processed" =>
                 \/ row[e].status = "processed"
                 \/ \E w \in Workers :
                      /\ pc[w] = "settle" /\ claim[w].event = e
                      /\ outcome[w].status = "processed"
      PROVE  IInv'
  <2>1. TypeOK'
    BY <1>0, <1>1 DEF TypeOK, FoundCodes
  <2>2. RecordInv' /\ BearsInv' /\ OneNativeRecord' /\ MappingCarriedByEngine'
    BY <1>1 DEF RecordInv, BearsInv, OneNativeRecord, MappingCarriedByEngine
  <2>3. AheadInv' /\ LearntInv'
    BY <1>1 DEF AheadInv, LearntInv, MappedAt, KeyAt
  <2>4. JustifiedInv'
    BY <1>1 DEF JustifiedInv, KeyAt
  <2>5. ProcessedMeansProjected'
    BY <1>1 DEF ProcessedMeansProjected, JustifiedInv, Carries, KeyAt
  <2> QED
    BY <1>1, <2>1, <2>2, <2>3, <2>4, <2>5
<1>2. ASSUME NEW e \in Events, QueueStep(e) PROVE IInv'
  <2>1. ExecutionTypeOK(Codes, FoundCodes)' /\ AttemptInv'
    BY <1>0, <1>2, CodeFacts, QueueStepKeeps
  <2>2. /\ UNCHANGED <<claim, pc, outcome, found, lock, native>>
        /\ \A f \in Events : row'[f].status = "processed" => row'[f] = row[f]
    BY <1>0, <1>2, QueueFrame
  <2> QED
    BY <1>1, <2>1, <2>2 DEF LearntInv
<1>3. ASSUME NEW w \in Workers, NEW e \in Events, Begin(w, e) PROVE IInv'
  <2>1. ExecutionTypeOK(Codes, FoundCodes)' /\ AttemptInv'
    BY <1>0, <1>3, BeginKeeps
  <2>2. /\ UNCHANGED <<outcome, found, lock, native>>
        /\ pc'[w] = "prepare"
        /\ \A v \in Workers \ {w} : pc'[v] = pc[v] /\ claim'[v] = claim[v]
        /\ \A f \in Events : row'[f].status = "processed" => row'[f] = row[f]
    BY <1>0, <1>3, BeginFrame
  <2> QED
    BY <1>1, <2>1, <2>2 DEF LearntInv
<1>4. ASSUME NEW w \in Workers, CommonStep(w) PROVE IInv'
  <2>1. ExecutionTypeOK(Codes, FoundCodes)' /\ AttemptInv'
    BY <1>0, <1>4, CodeFacts, CommonKeeps
  <2>2. /\ native' = native
        /\ \A v \in Workers \ {w} :
             /\ pc'[v] = pc[v] /\ claim'[v] = claim[v]
             /\ outcome'[v] = outcome[v] /\ found'[v] = found[v]
    BY <1>0, <1>4, CodeFacts, CommonFrame
  <2>3. \/ pc'[w] \in {"idle", "check"}
        \/ /\ pc[w] = "find" /\ pc'[w] = "create" /\ native[KeyAt(w)] = {}
           /\ claim'[w] = claim[w]
        \/ /\ pc'[w] \in {"unlock", "settle"} /\ claim'[w] = claim[w]
           /\ outcome'[w].status = "processed" =>
                pc[w] \in {"unlock", "settle"} /\ outcome'[w] = outcome[w]
    BY <1>0, <1>4, CodeFacts, CommonFrame
  <2>4. \A e \in Events :
          row'[e].status = "processed" =>
            \/ row'[e] = row[e]
            \/ /\ pc[w] = "settle" /\ claim[w].event = e
               /\ outcome[w].status = "processed"
    BY <1>0, <1>4, CodeFacts, CommonFrame
  <2> QED
    BY <1>1, <2>1, <2>2, <2>3, <2>4 DEF LearntInv
<1> QED
  BY <1>2, <1>3, <1>4

\* Every step preserves it.
LEMMA StepIInv == IInv /\ [Next]_vars => IInv'
<1> SUFFICES ASSUME IInv, [Next]_vars PROVE IInv'
  OBVIOUS
<1> USE DEF IInv
<1>1. ASSUME NEW w \in Workers, OwnStep(w) PROVE IInv'
  BY <1>1, OwnKeeps, RecordStep, EngineEffect, AheadStep, LearntStep, JustifiedStep,
     OneRecordStep, MappingStep, ProjectedStep
<1>2. CASE UNCHANGED vars
  <2>1. TypeOK' /\ AttemptInv'
    BY <1>2, StutterKeeps DEF TypeOK, FoundCodes, vars, recordVars
  <2>2. /\ RecordInv' /\ BearsInv' /\ AheadInv' /\ LearntInv' /\ JustifiedInv'
        /\ OneNativeRecord' /\ MappingCarriedByEngine' /\ ProcessedMeansProjected'
    BY <1>2 DEF vars, executionVars, queueVars, workerVars, recordVars, RecordInv, BearsInv,
                AheadInv, LearntInv, JustifiedInv, OneNativeRecord, MappingCarriedByEngine,
                ProcessedMeansProjected, MappedAt, KeyAt
  <2> QED
    BY <2>1, <2>2
<1> QED
  BY <1>1, <1>2, NextCases, SharedStep

\* Every reachable state satisfies the inductive invariant: what a worker may rely
\* on under the lock, together with the safety properties of the projection.
THEOREM Invariance == Spec => []IInv
BY InitIInv, StepIInv, PTL DEF Spec

\* Every variable keeps its type; refunds never take a row's attempts below zero.
THEOREM TypeCorrect == Spec => []TypeOK
BY Invariance, PTL DEF IInv

\* Two workers are never between lock and unlock of one customer.
THEOREM Exclusion == Spec => []EngineExclusive
<1>1. IInv => EngineExclusive
  BY ExclusiveByLock DEF IInv
<1> QED
  BY <1>1, Invariance, PTL

\* The engine never holds two business partners of one customer, through replays,
\* lost answers, crashes and lost leases.
THEOREM NoSecondPartner == Spec => []OneNativeRecord
BY Invariance, PTL DEF IInv

\* The mapping names the customer's own partner, which bears the mapped version in
\* the mapped content, or a later version.
THEOREM MappingSound == Spec => []MappingCarriedByEngine
BY Invariance, PTL DEF IInv

\* A processed event's customer is mapped in its version and content, or in a later
\* version.
THEOREM NothingSkipped == Spec => []ProcessedMeansProjected
BY Invariance, PTL DEF IInv

-----------------------------------------------------------------------------
\* The projection's own steps work in the engine for received events that parse.
LEMMA GenuineStep == IInv /\ GenuineInv /\ [Next]_vars => GenuineInv'
<1> SUFFICES ASSUME IInv, GenuineInv, [Next]_vars PROVE GenuineInv'
  OBVIOUS
<1> USE DEF IInv
<1>0. ExecutionTypeOK(Codes, FoundCodes)
  BY DEF TypeOK, FoundCodes
<1>1. ASSUME NEW w \in Workers, OwnStep(w) PROVE GenuineInv'
  <2>1. \A e \in Events : row'[e].status = "absent" => row[e].status = "absent"
    <3>1. CASE CommitRecords(w)
      BY <3>1, CommitEffect
    <3>2. CASE ~CommitRecords(w)
      BY <1>1, <3>2, RecordChange
    <3> QED
      BY <3>1, <3>2
  <2>2. /\ pc[w] \in Section \ {"unlock"} /\ claim' = claim
        /\ \A v \in Workers \ {w} : pc'[v] = pc[v]
    BY <1>1, OwnFrame
  <2>3. \A k \in Keys : native'[k] # {} => native[k] # {} \/ KeyAt(w) = k
    BY <1>1, EngineEffect
  <2> QED
    BY <2>1, <2>2, <2>3, GenuineKept DEF Section
<1>2. CASE UNCHANGED vars
  BY <1>2, GenuineKept DEF vars, executionVars, queueVars, workerVars
<1> QED
  BY <1>0, <1>1, <1>2, CodeFacts, NextCases, SharedGenuine

\* "Nothing is fabricated": the engine only holds a partner of a customer that some
\* received event, one that parses, speaks of.
THEOREM NothingMadeUp == Spec => []NothingFabricated
<1>1. Init => GenuineInv
  BY DEF Init, ExecutionInit, QueueInit, GenuineInv, NothingFabricated, Section
<1>2. GenuineInv => NothingFabricated
  BY DEF GenuineInv
<1> QED
  BY <1>1, <1>2, GenuineStep, Invariance, PTL DEF Spec

-----------------------------------------------------------------------------
\* A processed row of the projection is final, and only the operator reopens a
\* dead letter.
THEOREM Finality == Spec => [][SettledStep]_vars
<1>1. ASSUME IInv, Next PROVE SettledStep
  <2> USE <1>1 DEF IInv
  <2>0. ExecutionTypeOK(Codes, FoundCodes)
    BY DEF TypeOK, FoundCodes
  <2>1. ASSUME NEW w \in Workers, OwnStep(w) PROVE SettledStep
    <3>1. CASE CommitRecords(w)
      <4> DEFINE e == claim[w].event
      <4>1. row[e].status \notin Settled /\ \A f \in Events \ {e} : row'[f] = row[f]
        BY <3>1, CommitEffect DEF Settled
      <4> QED
        BY <4>1 DEF SettledStep
    <3>2. CASE ~CommitRecords(w)
      BY <2>1, <3>2, RecordChange DEF SettledStep
    <3> QED
      BY <3>1, <3>2
  <2> QED
    BY <2>0, <2>1, CodeFacts, NextCases, QueueFrame, BeginFrame, CommonFrame
<1>2. IInv /\ [Next]_vars => [SettledStep]_vars
  BY <1>1
<1> QED
  BY <1>2, Invariance, PTL DEF Spec

-----------------------------------------------------------------------------
(* The projection implements the register. *)

\* A step that writes no records is no step of the register.
LEMMA RegisterStutter ==
  ASSUME UNCHANGED <<mapping, partner>>
  PROVE  UNCHANGED Register!vars
BY DEF Register!vars

\* The commit applies its event to the register: the mapping was behind it, and the
\* revision counts the announcement if the content changes.
LEMMA RegisterStep ==
  ASSUME IInv, NEW w \in Workers, CommitRecords(w)
  PROVE  Register!Next
<1>0. PICK d \in Events : d = claim[w].event
  BY CommitEffect DEF IInv
<1> DEFINE k == KeyOf[d]
<1>1. /\ d \in Events /\ k \in Keys
      /\ \A j \in Keys \ {k} : mapping'[j] = mapping[j] /\ partner'[j] = partner[j]
      /\ mapping'[k].version = VersionOf[d]
      /\ partner'[k] = Advanced(partner[k], ContentOf[d])
      /\ mapping[k].native # NoNative => VersionOf[d] > mapping[k].version
  BY <1>0, CommitEffect DEF IInv
<1>2. /\ mapping[k].version \in Nat /\ VersionOf[d] \in Nat \ {0}
      /\ mapping[k].native = NoNative => mapping[k].version = 0
  BY <1>1, ExecutionAssumption DEF IInv, RecordInv, TypeOK
<1>3. VersionOf[d] > mapping[k].version
  BY <1>1, <1>2
<1>4. /\ partner'[k].content = ContentOf[d]
      /\ partner'[k].revision =
           IF ContentOf[d] = partner[k].content THEN partner[k].revision
           ELSE partner[k].revision + 1
  BY <1>1 DEF Advanced
<1> HIDE DEF k
<1>5. Register!Apply(d)
  <2>1. VersionOf[d] > [j \in Keys |-> mapping[j].version][k]
    BY <1>1, <1>3
  <2>2. [j \in Keys |-> mapping'[j].version] =
          [[j \in Keys |-> mapping[j].version] EXCEPT ![k] = VersionOf[d]]
    BY <1>1
  <2>3. [j \in Keys |-> partner'[j].content] =
          [[j \in Keys |-> partner[j].content] EXCEPT ![k] = ContentOf[d]]
    BY <1>1, <1>4
  <2>4. [j \in Keys |-> partner'[j].revision] =
          [[j \in Keys |-> partner[j].revision] EXCEPT ![k] =
             IF ContentOf[d] = [j \in Keys |-> partner[j].content][k] THEN @ ELSE @ + 1]
    BY <1>1, <1>4
  <2> QED
    BY <2>1, <2>2, <2>3, <2>4 DEF Register!Apply, k
<1> QED
  BY <1>5 DEF Register!Next

\* The projection of customers, with its claims, locks, crashes and lost answers,
\* moves each customer's register only to later versions, and announces exactly
\* the changes of content.
THEOREM Implementation == Spec => ImplementsRegister
<1>1. Init => Register!Init
  BY DEF Init, Register!Init, Unmapped, Unannounced
<1>2. IInv /\ [Next]_vars => [Register!Next]_(Register!vars)
  <2> SUFFICES ASSUME IInv, [Next]_vars PROVE [Register!Next]_(Register!vars)
    OBVIOUS
  <2>1. CASE UNCHANGED vars
    BY <2>1, RegisterStutter DEF vars, recordVars
  <2>2. ASSUME NEW w \in Workers, OwnStep(w) PROVE [Register!Next]_(Register!vars)
    <3>1. CASE CommitRecords(w)
      BY <3>1, RegisterStep
    <3>2. CASE ~CommitRecords(w)
      BY <2>2, <3>2, RecordChange, RegisterStutter DEF IInv
    <3> QED
      BY <3>1, <3>2
  <2> QED
    BY <2>1, <2>2, NextCases, RegisterStutter
<1> QED
  BY <1>1, <1>2, Invariance, PTL DEF Spec, ImplementsRegister, Register!Spec
=============================================================================
