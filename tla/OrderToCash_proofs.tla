------------------------- MODULE OrderToCash_proofs -------------------------
(***************************************************************************)
(* The sell-side commands, for any number of servers, documents and        *)
(* mandates.                                                               *)
(*                                                                         *)
(* First the gate: what an operation was overruled by is still there to be *)
(* seen by a check that is still to come; the engine and the records play  *)
(* no part in it.  Then the records: what a transaction has read and       *)
(* locked is still so when it commits, because the engine takes nothing    *)
(* back, because rows that are locked are written by no other transaction, *)
(* and because a mapping is made once.                                     *)
(***************************************************************************)
EXTENDS OrderToCash, TLAPS, SequenceTheorems

\* No operation has seen a mandate that is not granted yet.
MandateInv ==
  \A s \in Servers : gate[s].at # "assess" => gate[s].mandate <= mandate

\* The engine is changed with the permit in hand, and only with it.
PermitInv ==
  \A s \in Servers :
    /\ gate[s].at \in Checks \cup {"closed", "permit"} => gate[s].changes = 0
    /\ gate[s].changes <= 1

\* An overruled operation has a check ahead of it that it will not pass.
OverruledInv ==
  \A s \in Servers : gate[s].overruled = "yes" =>
    /\ gate[s].at \in Checks
    /\ \/ gate[s].at # "assess" /\ gate[s].mandate < mandate
       \/ gate[s].at # "reassess" /\ blocked = "yes"

GateInv == GateTypeOK /\ MandateInv /\ PermitInv /\ OverruledInv

\* What a step of the system may do to the gate.
GateMove ==
  \/ \E s \in Servers :
       \/ GateStep(s) \/ Open(s) \/ Shut(s)
       \/ \E to \in {"spent", "unauthorised"} : Spend(s, to)
  \/ ControlPlane
  \/ UNCHANGED gateVars

-----------------------------------------------------------------------------
(* The system and the gate. *)

\* Whatever a command or Control Plane does is a move of the gate: a transaction of
\* service.py touches it only by starting, by a request to the engine and by ending.
LEMMA StepMovesGate ==
  ASSUME [Next]_vars
  PROVE  GateMove
<1>1. CASE UNCHANGED vars
  BY <1>1 DEF vars, GateMove
<1>2. CASE ControlPlane
  BY <1>2 DEF GateMove
<1>3. ASSUME NEW s \in Servers,
             Begin(s) \/ Check(s) \/ Fail(s) \/ CallFails(s) \/ RetryDenied(s)
      PROVE  GateMove
  BY <1>3 DEF GateMove, Begin, Check, Fail, CallFails, RetryDenied, End
<1>4. ASSUME NEW s \in Servers, NEW c \in Commands,
             Call(s, c) \/ CallLost(s, c) \/ CallUnauthorised(s, c)
      PROVE  GateMove
  BY <1>4 DEF GateMove, Call, CallLost, CallUnauthorised, End
<1>5. ASSUME NEW s \in Servers, Note(s) \/ Read(s) \/ Advance(s)
      PROVE  GateMove
  <2>1. UNCHANGED gateVars
    BY <1>5 DEF Note, Read, Advance, gateVars
  <2> QED
    BY <2>1 DEF GateMove
<1>6. ASSUME NEW s \in Servers,
             CommitCreated(s) \/ MappingConflict(s) \/ CommitDone(s) \/ Crash(s)
      PROVE  GateMove
  <2>1. Shut(s)
    BY <1>6 DEF CommitCreated, MappingConflict, CommitDone, Crash, End
  <2> QED
    BY <2>1 DEF GateMove
<1> QED
  BY <1>1, <1>2, <1>3, <1>4, <1>5, <1>6 DEF Next

-----------------------------------------------------------------------------
(* The moves of the gate preserve its invariant. *)

\* The places an operation can be at.
LEMMA WhatPlacesAre ==
  /\ "closed" \in Places /\ "permit" \in Places /\ "spent" \in Places
  /\ "unauthorised" \in Places /\ "assess" \in Places /\ "documentary" \in Places
  /\ "readiness" \in Places /\ "again" \in Places /\ "reassess" \in Places
  BY DEF Checks, Places

\* At first nothing is under way.
LEMMA GateInitially ==
  ASSUME GateInit
  PROVE  GateInv
<1>1. GateTypeOK
  BY GateAssumption, WhatPlacesAre DEF GateInit, GateTypeOK, GateType, Gate, Closed
<1>2. MandateInv /\ PermitInv /\ OverruledInv
  BY DEF GateInit, MandateInv, PermitInv, OverruledInv, Gate, Closed
<1> QED
  BY <1>1, <1>2 DEF GateInv

\* The gate keeps its type.
LEMMA TypePreserved ==
  ASSUME GateTypeOK, GateMove
  PROVE  GateTypeOK'
<1> USE GateAssumption, WhatPlacesAre DEF GateTypeOK, GateType, Gate
<1>1. ASSUME NEW s \in Servers, Assess(s)
      PROVE  GateTypeOK'
  BY <1>1 DEF Assess
<1>2. ASSUME NEW s \in Servers, Documentary(s)
      PROVE  GateTypeOK'
  BY <1>2 DEF Documentary, Pass
<1>3. ASSUME NEW s \in Servers, Readiness(s)
      PROVE  GateTypeOK'
  BY <1>3 DEF Readiness, Pass
<1>4. ASSUME NEW s \in Servers, DocumentaryAgain(s)
      PROVE  GateTypeOK'
  BY <1>4 DEF DocumentaryAgain, Pass
<1>5. ASSUME NEW s \in Servers, Reassess(s)
      PROVE  GateTypeOK'
  BY <1>5 DEF Reassess, Pass
<1>6. ASSUME NEW s \in Servers, Open(s)
      PROVE  GateTypeOK'
  BY <1>6 DEF Open, Opened
<1>7. ASSUME NEW s \in Servers, Shut(s)
      PROVE  GateTypeOK'
  BY <1>7 DEF Shut, Closed
<1>8. ASSUME NEW s \in Servers, NEW to \in {"spent", "unauthorised"}, Spend(s, to)
      PROVE  GateTypeOK'
  BY <1>8 DEF Spend
<1>9. CASE Revoke
  BY <1>9 DEF Revoke, Overrule
<1>10. CASE RestrictScope
  BY <1>10 DEF RestrictScope, Overrule
<1>11. CASE UNCHANGED gateVars
  BY <1>11 DEF gateVars
<1> QED
  BY <1>1, <1>2, <1>3, <1>4, <1>5, <1>6,
     <1>7, <1>8, <1>9, <1>10, <1>11
  DEF GateMove, GateStep, ControlPlane

\* Mandates are only granted, never taken over from the future.
LEMMA MandatePreserved ==
  ASSUME GateTypeOK, MandateInv, GateMove
  PROVE  MandateInv'
<1> USE GateAssumption DEF GateTypeOK, GateType, Gate, MandateInv
<1>1. ASSUME NEW s \in Servers, Assess(s)
      PROVE  MandateInv'
  BY <1>1 DEF Assess
<1>2. ASSUME NEW s \in Servers, Documentary(s)
      PROVE  MandateInv'
  BY <1>2 DEF Documentary, Pass
<1>3. ASSUME NEW s \in Servers, Readiness(s)
      PROVE  MandateInv'
  BY <1>3 DEF Readiness, Pass
<1>4. ASSUME NEW s \in Servers, DocumentaryAgain(s)
      PROVE  MandateInv'
  BY <1>4 DEF DocumentaryAgain, Pass
<1>5. ASSUME NEW s \in Servers, Reassess(s)
      PROVE  MandateInv'
  BY <1>5 DEF Reassess, Pass
<1>6. ASSUME NEW s \in Servers, Open(s)
      PROVE  MandateInv'
  BY <1>6 DEF Open, Opened
<1>7. ASSUME NEW s \in Servers, Shut(s)
      PROVE  MandateInv'
  BY <1>7 DEF Shut, Closed
<1>8. ASSUME NEW s \in Servers, NEW to \in {"spent", "unauthorised"}, Spend(s, to)
      PROVE  MandateInv'
  BY <1>8 DEF Spend
<1>9. CASE Revoke
  BY <1>9 DEF Revoke, Overrule
<1>10. CASE RestrictScope
  BY <1>10 DEF RestrictScope, Overrule
<1>11. CASE UNCHANGED gateVars
  BY <1>11 DEF gateVars
<1> QED
  BY <1>1, <1>2, <1>3, <1>4, <1>5, <1>6,
     <1>7, <1>8, <1>9, <1>10, <1>11
  DEF GateMove, GateStep, ControlPlane

\* A permit is spent once.
LEMMA PermitPreserved ==
  ASSUME GateTypeOK, PermitInv, GateMove
  PROVE  PermitInv'
<1> USE GateAssumption DEF GateTypeOK, GateType, Gate, PermitInv, Checks
<1>1. ASSUME NEW s \in Servers, Assess(s)
      PROVE  PermitInv'
  BY <1>1 DEF Assess
<1>2. ASSUME NEW s \in Servers, Documentary(s)
      PROVE  PermitInv'
  BY <1>2 DEF Documentary, Pass
<1>3. ASSUME NEW s \in Servers, Readiness(s)
      PROVE  PermitInv'
  BY <1>3 DEF Readiness, Pass
<1>4. ASSUME NEW s \in Servers, DocumentaryAgain(s)
      PROVE  PermitInv'
  BY <1>4 DEF DocumentaryAgain, Pass
<1>5. ASSUME NEW s \in Servers, Reassess(s)
      PROVE  PermitInv'
  BY <1>5 DEF Reassess, Pass
<1>6. ASSUME NEW s \in Servers, Open(s)
      PROVE  PermitInv'
  BY <1>6 DEF Open, Opened
<1>7. ASSUME NEW s \in Servers, Shut(s)
      PROVE  PermitInv'
  BY <1>7 DEF Shut, Closed
<1>8. ASSUME NEW s \in Servers, NEW to \in {"spent", "unauthorised"}, Spend(s, to)
      PROVE  PermitInv'
  BY <1>8 DEF Spend
<1>9. CASE Revoke
  BY <1>9 DEF Revoke, Overrule
<1>10. CASE RestrictScope
  BY <1>10 DEF RestrictScope, Overrule
<1>11. CASE UNCHANGED gateVars
  BY <1>11 DEF gateVars
<1> QED
  BY <1>1, <1>2, <1>3, <1>4, <1>5, <1>6,
     <1>7, <1>8, <1>9, <1>10, <1>11
  DEF GateMove, GateStep, ControlPlane

\* No check takes away the reason why a later one will fail.
LEMMA OverruledPreserved ==
  ASSUME GateTypeOK, MandateInv, OverruledInv, GateMove
  PROVE  OverruledInv'
<1> USE GateAssumption DEF GateTypeOK, GateType, Gate, MandateInv, OverruledInv, Checks
<1>1. ASSUME NEW s \in Servers, Assess(s)
      PROVE  OverruledInv'
  BY <1>1 DEF Assess
<1>2. ASSUME NEW s \in Servers, Documentary(s)
      PROVE  OverruledInv'
  BY <1>2 DEF Documentary, Pass
<1>3. ASSUME NEW s \in Servers, Readiness(s)
      PROVE  OverruledInv'
  BY <1>3 DEF Readiness, Pass
<1>4. ASSUME NEW s \in Servers, DocumentaryAgain(s)
      PROVE  OverruledInv'
  BY <1>4 DEF DocumentaryAgain, Pass
<1>5. ASSUME NEW s \in Servers, Reassess(s)
      PROVE  OverruledInv'
  BY <1>5 DEF Reassess, Pass
<1>6. ASSUME NEW s \in Servers, Open(s)
      PROVE  OverruledInv'
  BY <1>6 DEF Open, Opened
<1>7. ASSUME NEW s \in Servers, Shut(s)
      PROVE  OverruledInv'
  BY <1>7 DEF Shut, Closed
<1>8. ASSUME NEW s \in Servers, NEW to \in {"spent", "unauthorised"}, Spend(s, to)
      PROVE  OverruledInv'
  BY <1>8 DEF Spend
<1>9. CASE Revoke
  BY <1>9 DEF Revoke, Overrule
<1>10. CASE RestrictScope
  BY <1>10 DEF RestrictScope, Overrule
<1>11. CASE UNCHANGED gateVars
  BY <1>11 DEF gateVars
<1> QED
  BY <1>1, <1>2, <1>3, <1>4, <1>5, <1>6,
     <1>7, <1>8, <1>9, <1>10, <1>11
  DEF GateMove, GateStep, ControlPlane

\* The four parts together.
LEMMA MovePreserves ==
  ASSUME GateInv, GateMove
  PROVE  GateInv'
  BY TypePreserved, MandatePreserved, PermitPreserved, OverruledPreserved DEF GateInv

-----------------------------------------------------------------------------
(* The theorems. *)

\* The gate's invariant holds throughout (perform_governed_financial_action).
THEOREM GateInvariance == Spec => []GateInv
<1>0. Init => GateInv
  BY GateInitially DEF Init
<1>1. GateInv /\ [Next]_vars => GateInv'
  BY StepMovesGate, MovePreserves
<1> QED
  BY <1>0, <1>1, PTL DEF Spec

\* An operation overruled while its checks were under way never changes the
\* engine, and none changes it twice (legal_actor_gate, native_finance_guard).
THEOREM Governed == Spec => []GovernedOnce
<1>1. GateInv => GovernedOnce
  BY DEF GateInv, PermitInv, OverruledInv, GovernedOnce
<1> QED
  BY <1>1, GateInvariance, PTL
-----------------------------------------------------------------------------
(* The commands and what they record.                                      *)

\* The engine has run the document's completion, holds it completed, or holds it paid
\* or allocated in full.
Ran(d) == mapped[d] # 0 /\ Native(d).done # "no"
Done(d) == mapped[d] # 0 /\ Native(d).done = "yes"
Settled(d) == mapped[d] # 0 /\ Native(d).settled = "yes"

\* The records of a document that it is not mapped to are drafts.
Untouched(d) == \A i \in 1..Len(engine[d]) : i # mapped[d] => engine[d][i] = Draft

\* What the engine must show for a status to be announced.
Observed(d, status) == Done(d) /\ (status \in {"allocated", "paid"} => Settled(d))

\* The server is past the engine's answer to a completion or an allocation.
Working(s) ==
  server[s].at \in {"note", "read", "advance"} \/ (server[s].at = "commit" /\ server[s].op # "create")

\* Rows are locked only behind the engine's answer, and no outcome is kept of the order.
AtRest(s) ==
  /\ server[s].at \in {"idle", "checked"} => server[s].holds = {}
  /\ server[s].outcomes[Order] = NotRead

\* The record that is to be mapped is there.
MadeThere(s) ==
  server[s].at = "commit" /\ server[s].op = "create" =>
    server[s].doc \in Docs /\ server[s].made # 0 /\ server[s].made <= Len(engine[server[s].doc])

\* The documents of a command are mapped, and the engine has run what it completes.
WorksOn(s) ==
  LET d == server[s].doc
      i == server[s].invoice
  IN  Working(s) =>
        /\ d \in Docs /\ mapped[d] # 0
        /\ \/ server[s].op = "complete" /\ Ran(d)
           \/ server[s].op = "allocate" /\ d \in Payments /\ i \in Invoices /\ mapped[i] # 0

\* The order's fact comes before the outcomes, and a second outcome only with an allocation.
InTurn(s) ==
  LET d == server[s].doc
  IN  /\ server[s].at = "note" => server[s].op = "complete" /\ d \notin Payments
      /\ server[s].at = "note" => server[s].holds = {} /\ server[s].outcomes[d] = NotRead
      /\ server[s].at \in {"read", "advance"} =>
           /\ d \in Invoices \cup Payments
           /\ server[s].outcomes[d] # NotRead => server[s].op = "allocate"

\* The order's row a transaction will commit is what its fact makes of the row it locked.
OrderLocked(s) ==
  LET d == server[s].doc
  IN  Order \in server[s].holds =>
        /\ Working(s) /\ server[s].op = "complete" /\ d \notin Payments
        /\ Concerns(d) /\ server[s].order = Noted(d)

\* An outcome that will be committed follows the one in the row it locked, and the
\* engine shows it.
Follows(d, row) ==
  /\ row.revision = outcome[d].revision + 1 /\ row.status \in Statuses
  /\ Advances(outcome[d], row)
  /\ Observed(d, row.status)

RowsLocked(s) ==
  \A d \in server[s].holds :
    server[s].outcomes[d] \notin {NotRead, outcome[d]} => Follows(d, server[s].outcomes[d])

\* A status that was read is still what the engine shows.
SeenThere(s) ==
  server[s].at = "advance" /\ server[s].seen # "none" => Observed(Current(s), server[s].seen)

Sound(s) ==
  /\ AtRest(s) /\ MadeThere(s) /\ WorksOn(s) /\ InTurn(s)
  /\ OrderLocked(s) /\ RowsLocked(s) /\ SeenThere(s)

\* The rows themselves.
RowsInv ==
  /\ \A d \in Docs : outcome[d].status \in Statuses
  /\ consequence.revision # 0 => mapped[Order] # 0
  /\ consequence.revision = 0 => consequence.facts = {}

\* Every fact is one whose completion the engine has run, and every outcome is one
\* that it shows.
FactsInv ==
  /\ "completed" \in consequence.facts => Ran(Order)
  /\ "shipped" \in consequence.facts => \E d \in linked \cap Shipments : Ran(d)
  /\ "invoiced" \in consequence.facts =>
       consequence.invoice \in linked \cap Invoices /\ Ran(consequence.invoice)
  /\ \A d \in Docs : outcome[d].revision # 0 => Observed(d, outcome[d].status)

IInv ==
  /\ TypeOK /\ RowsInv /\ FactsInv /\ EventsAgreeWithRecords /\ OrphansStayDrafts
  /\ \A s \in Servers : Sound(s)

-----------------------------------------------------------------------------
(* What the rows, the runs and the engine's records are. *)

\* The kinds of documents are kinds of their own.
LEMMA DocumentKinds ==
  /\ Order \in Docs /\ Order \notin Shipments /\ Order \notin Invoices /\ Order \notin Payments
  /\ Shipments \subseteq Docs /\ Invoices \subseteq Docs /\ Payments \subseteq Docs
  /\ \A d \in Invoices : d \notin Shipments /\ d \notin Payments
  /\ \A d \in Payments : d \notin Shipments /\ d \notin Invoices
  /\ NoDoc \notin Docs
  BY DocumentAssumption DEF Docs

\* What a command can name.
LEMMA CommandFields ==
  ASSUME NEW c \in Commands
  PROVE  /\ c.op \in {"create", "complete", "allocate"}
         /\ c.doc \in Docs /\ c.invoice \in Invoices \cup {NoDoc} /\ c.version \in {"none", "given"}
         /\ c.op = "allocate" => c.doc \in Payments /\ c.invoice \in Invoices
  BY DocumentKinds DEF Commands, Command

\* The run of a command is one.
LEMMA RunTyped ==
  ASSUME NEW place \in Steps, NEW c,
         c.op \in {"none", "create", "complete", "allocate"}, c.doc \in Docs \cup {NoDoc},
         c.invoice \in Invoices \cup {NoDoc}, c.version \in {"none", "given"},
         NEW made \in Nat, NEW holds \in SUBSET Docs, NEW seen \in Statuses,
         NEW order \in OrderType, NEW outcomes \in [Docs -> OutcomeType]
  PROVE  Run(place, c, made, holds, seen, order, outcomes) \in RunType
  BY DEF Run, RunType

\* What an idle server holds.
LEMMA IdleTyped ==
  /\ NoOrder \in OrderType /\ NotRead \in OutcomeType /\ NoOutcome \in OutcomeType
  /\ Idle \in RunType
  /\ Idle.at = "idle" /\ Idle.holds = {} /\ Idle.seen = "none" /\ Idle.order = NoOrder
  /\ Idle.outcomes = [d \in Docs |-> NotRead]
<1>1. NoOrder \in OrderType /\ NotRead \in OutcomeType /\ NoOutcome \in OutcomeType
  BY DEF NoOrder, NotRead, NoOutcome, OrderRow, OutcomeRow, OrderType, OutcomeType, Statuses
<1>2. [d \in Docs |-> NotRead] \in [Docs -> OutcomeType]
  BY <1>1
<1>3. Idle \in RunType
  BY <1>1, <1>2 DEF Idle, Run, RunType, Command, Steps, Statuses
<1> QED
  BY <1>1, <1>3 DEF Idle, Run

\* The fields of a run keep to their types.
LEMMA RunFields ==
  ASSUME TypeOK, NEW s \in Servers
  PROVE  /\ server[s].at \in Steps /\ server[s].op \in {"none", "create", "complete", "allocate"}
         /\ server[s].doc \in Docs \cup {NoDoc} /\ server[s].invoice \in Invoices \cup {NoDoc}
         /\ server[s].version \in {"none", "given"} /\ server[s].made \in Nat
         /\ server[s].holds \in SUBSET Docs /\ server[s].seen \in Statuses
         /\ server[s].order \in OrderType /\ server[s].outcomes \in [Docs -> OutcomeType]
  BY DEF TypeOK, RunType

\* A mapped document has its record.
LEMMA NativeThere ==
  ASSUME TypeOK, NEW d \in Docs, mapped[d] # 0
  PROVE  /\ engine[d] \in Seq(DocumentType) /\ Len(engine[d]) \in Nat
         /\ mapped[d] \in 1..Len(engine[d])
         /\ Native(d) \in DocumentType
<1>1. engine[d] \in Seq(DocumentType) /\ mapped[d] \in Nat /\ mapped[d] <= Len(engine[d])
  BY DEF TypeOK
<1>2. Len(engine[d]) \in Nat
  BY <1>1, LenProperties
<1>3. mapped[d] \in 1..Len(engine[d])
  BY <1>1, <1>2
<1> QED
  BY <1>1, <1>2, <1>3, ElementOfSeq DEF Native

\* Replacing a document's own record leaves the others.
LEMMA PutRecord ==
  ASSUME TypeOK, NEW d \in Docs, mapped[d] # 0, NEW record \in DocumentType
  PROVE  /\ Put(d, record) \in Seq(DocumentType)
         /\ Len(Put(d, record)) = Len(engine[d])
         /\ Put(d, record)[mapped[d]] = record
         /\ \A k \in 1..Len(engine[d]) : k # mapped[d] => Put(d, record)[k] = engine[d][k]
<1>1. engine[d] \in Seq(DocumentType) /\ mapped[d] \in 1..Len(engine[d])
  BY NativeThere
<1> QED
  BY <1>1, ExceptSeq DEF Put

\* A new record is one.
LEMMA DraftTyped == Draft \in DocumentType
  BY DEF Draft, Document, DocumentType

\* The rank of a status is a number.
LEMMA RankIsNumber ==
  ASSUME NEW status \in Statuses
  PROVE  Rank(status) \in Nat
  BY DEF Rank, Statuses

-----------------------------------------------------------------------------
(* What is done stays done. *)

\* What others may do to what a server relies on.
Grows ==
  /\ \A d \in Docs :
       /\ mapped[d] # 0 => mapped'[d] # 0
       /\ Len(engine[d]) <= Len(engine'[d])
       /\ Ran(d) => Ran(d)'
       /\ Done(d) => Done(d)'
       /\ Settled(d) => Settled(d)'
       /\ Untouched(d) => Untouched(d)'
  /\ linked \subseteq linked'
  /\ consequence.revision # 0 => consequence'.revision # 0

\* What a row lock keeps others from.
Keeps(t) ==
  /\ Order \in server[t].holds => consequence' = consequence
  /\ \A d \in server[t].holds : outcome'[d] = outcome[d]

\* Nothing changed.
LEMMA NothingGrows ==
  ASSUME TypeOK, UNCHANGED <<engine, recorded>>
  PROVE  /\ Grows
         /\ \A t \in Servers : Keeps(t)
<1>1. \A d \in Docs : Len(engine[d]) \in Nat
  BY LenProperties DEF TypeOK
<1> QED
  BY <1>1 DEF Grows, Keeps, recorded, Ran, Done, Settled, Native, Untouched

\* A server that does nothing keeps what it relies on (the FOR UPDATE of record_fact
\* and of advance, and an engine that takes nothing back).
LEMMA OthersSound ==
  ASSUME TypeOK, NEW t \in Servers, Sound(t), Grows, Keeps(t), server'[t] = server[t]
  PROVE  Sound(t)'
<1>1. AtRest(t)'
  BY DEF Sound, AtRest
<1>2. MadeThere(t)'
  <2>1. ASSUME server[t].doc \in Docs, server[t].made # 0,
               server[t].made <= Len(engine[server[t].doc])
        PROVE  server[t].made <= Len(engine'[server[t].doc])
    <3>1. server[t].made \in Nat
      BY RunFields
    <3>2. Len(engine[server[t].doc]) \in Nat
      BY <2>1, LenProperties DEF TypeOK
    <3> QED
      BY <2>1, <3>1, <3>2 DEF Grows
  <2> QED
    BY <2>1 DEF Sound, MadeThere
<1>3. WorksOn(t)'
  <2>1. Invoices \subseteq Docs
    BY DocumentKinds
  <2> QED
    BY <2>1 DEF Sound, WorksOn, Working, Grows
<1>4. InTurn(t)'
  BY DEF Sound, InTurn
<1>5. OrderLocked(t)'
  BY DEF Sound, OrderLocked, Working, Grows, Keeps, Concerns, Noted
<1>6. \A d \in Docs : \A status : Observed(d, status) => Observed(d, status)'
  BY DEF Observed, Grows
<1>7. RowsLocked(t)'
  <2> SUFFICES ASSUME NEW d \in server[t].holds,
                      server[t].outcomes[d] \notin {NotRead, outcome'[d]}
               PROVE  Follows(d, server[t].outcomes[d])'
    BY DEF RowsLocked
  <2>1. d \in Docs
    BY RunFields
  <2>2. outcome'[d] = outcome[d]
    BY DEF Keeps
  <2>3. Follows(d, server[t].outcomes[d])
    BY <2>2 DEF Sound, RowsLocked
  <2>4. Observed(d, server[t].outcomes[d].status)'
    BY <2>1, <2>3, <1>6 DEF Follows, Observed, Grows
  <2> QED
    BY <2>2, <2>3, <2>4 DEF Follows, Advances
<1>8. SeenThere(t)'
  <2> SUFFICES ASSUME server[t].at = "advance", server[t].seen # "none"
               PROVE  Observed(Current(t), server[t].seen)'
    BY DEF SeenThere
  <2>1. Observed(Current(t), server[t].seen)
    BY DEF Sound, SeenThere
  <2>2. Current(t) \in Docs
    BY DocumentKinds, RunFields DEF Sound, WorksOn, InTurn, Working, Current
  <2>3. Current(t)' = Current(t)
    BY DEF Current
  <2> QED
    BY <2>1, <2>2, <2>3 DEF Observed, Grows
<1> QED
  BY <1>1, <1>2, <1>3, <1>4, <1>5, <1>7, <1>8 DEF Sound

\* The step of one server: its own run is sound and typed, and takes no lock of another.
LEMMA ServerStep ==
  ASSUME TypeOK, \A t \in Servers : Sound(t), NEW s \in Servers,
         Grows, \A t \in Servers \ {s} : Keeps(t),
         \A t \in Servers \ {s} : server'[t] = server[t],
         server' \in [Servers -> RunType], Sound(s)',
         \A t \in Servers \ {s} : server'[s].holds \cap server[t].holds = {}
  PROVE  /\ \A t \in Servers : Sound(t)'
         /\ \A t, u \in Servers : t # u => server'[t].holds \cap server'[u].holds = {}
<1>1. ASSUME NEW t \in Servers
      PROVE  Sound(t)'
  <2>1. CASE t = s
    BY <2>1
  <2>2. CASE t # s
    BY <2>2, OthersSound
  <2> QED
    BY <2>1, <2>2
<1>2. ASSUME NEW t \in Servers, NEW u \in Servers, t # u
      PROVE  server'[t].holds \cap server'[u].holds = {}
  <2>1. CASE t # s /\ u # s
    BY <1>2, <2>1 DEF TypeOK
  <2>2. CASE t = s
    BY <1>2, <2>2
  <2>3. CASE u = s
    BY <1>2, <2>3
  <2> QED
    BY <2>1, <2>2, <2>3
<1> QED
  BY <1>1, <1>2

-----------------------------------------------------------------------------
(* The steps in which the engine changes. *)

\* What a change of the engine leaves of the documents that are mapped.
LEMMA EngineGrows ==
  ASSUME TypeOK, UNCHANGED recorded, engine' \in [Docs -> Seq(DocumentType)],
         \A d \in Docs : /\ Len(engine[d]) <= Len(engine'[d])
                         /\ mapped[d] # 0 =>
                              /\ Native(d).done # "no" => engine'[d][mapped[d]].done # "no"
                              /\ Native(d).done = "yes" => engine'[d][mapped[d]].done = "yes"
                              /\ Native(d).settled = "yes" => engine'[d][mapped[d]].settled = "yes"
                         /\ Untouched(d) => \A k \in 1..Len(engine'[d]) :
                                             k # mapped[d] => engine'[d][k] = Draft
  PROVE  /\ Grows
         /\ \A t \in Servers : Keeps(t)
         /\ \A d \in Docs : mapped'[d] <= Len(engine'[d])
<1>1. \A d \in Docs : /\ Len(engine[d]) \in Nat /\ Len(engine'[d]) \in Nat
                      /\ mapped[d] \in Nat /\ mapped[d] <= Len(engine[d])
  BY LenProperties DEF TypeOK
<1>2. \A d \in Docs : mapped'[d] <= Len(engine'[d])
  BY <1>1 DEF recorded
<1>3. \A d \in Docs : (Ran(d) => Ran(d)') /\ (Done(d) => Done(d)') /\ (Settled(d) => Settled(d)')
  BY DEF Ran, Done, Settled, Native, recorded
<1>4. \A d \in Docs : Untouched(d) => Untouched(d)'
  BY DEF Untouched, recorded
<1> QED
  BY <1>2, <1>3, <1>4 DEF Grows, Keeps, recorded

\* A request to the engine adds a record, or completes or settles one (create_record,
\* complete_document, allocate): what it has, it keeps.
LEMMA ChangeGrows ==
  ASSUME TypeOK, NEW c \in Commands, Resolves(c), Change(c), UNCHANGED recorded
  PROVE  /\ engine' \in [Docs -> Seq(DocumentType)]
         /\ Grows
         /\ \A t \in Servers : Keeps(t)
         /\ \A d \in Docs : mapped'[d] <= Len(engine'[d])
         /\ c.op = "create" => Len(engine'[c.doc]) \in Nat \ {0}
         /\ c.op = "complete" => Ran(c.doc)'
<1> DEFINE Kept(d) ==
      /\ Len(engine[d]) <= Len(engine'[d])
      /\ mapped[d] # 0 =>
           /\ Native(d).done # "no" => engine'[d][mapped[d]].done # "no"
           /\ Native(d).done = "yes" => engine'[d][mapped[d]].done = "yes"
           /\ Native(d).settled = "yes" => engine'[d][mapped[d]].settled = "yes"
      /\ Untouched(d) => \A k \in 1..Len(engine'[d]) : k # mapped[d] => engine'[d][k] = Draft
<1>0. engine \in [Docs -> Seq(DocumentType)]
  BY DEF TypeOK
<1>1. \A d \in Docs : Len(engine[d]) \in Nat
  BY <1>0, LenProperties
<1>2. \A d \in Docs : engine'[d] = engine[d] => Kept(d)
  BY <1>1 DEF Native, Untouched
<1>3. c.doc \in Docs /\ c.op \in {"create", "complete", "allocate"}
  BY CommandFields
<1>4. ASSUME c.op = "create", engine' = [engine EXCEPT ![c.doc] = Append(engine[c.doc], Draft)]
      PROVE  /\ engine' \in [Docs -> Seq(DocumentType)]
             /\ \A d \in Docs : Kept(d)
             /\ Len(engine'[c.doc]) \in Nat \ {0}
  <2>1. /\ Append(engine[c.doc], Draft) \in Seq(DocumentType)
        /\ Len(Append(engine[c.doc], Draft)) = Len(engine[c.doc]) + 1
        /\ \A k \in 1..Len(engine[c.doc]) : Append(engine[c.doc], Draft)[k] = engine[c.doc][k]
        /\ Append(engine[c.doc], Draft)[Len(engine[c.doc]) + 1] = Draft
    BY <1>0, <1>3, DraftTyped, AppendProperties
  <2>2. engine'[c.doc] = Append(engine[c.doc], Draft)
    BY <1>0, <1>3, <1>4
  <2>3. \A d \in Docs \ {c.doc} : engine'[d] = engine[d]
    BY <1>0, <1>4
  <2>4. engine' \in [Docs -> Seq(DocumentType)]
    BY <1>0, <1>4, <2>1
  <2>5. mapped[c.doc] # 0 => mapped[c.doc] \in 1..Len(engine[c.doc])
    BY <1>3, NativeThere
  <2>6. Kept(c.doc)
    BY <1>1, <1>3, <2>1, <2>2, <2>5 DEF Native, Untouched
  <2>7. \A d \in Docs : Kept(d)
    BY <1>2, <2>3, <2>6
  <2>8. Len(engine'[c.doc]) \in Nat \ {0}
    BY <1>1, <1>3, <2>1, <2>2
  <2> QED
    BY <2>4, <2>7, <2>8
<1>5. ASSUME c.op = "complete", NEW record \in Completions(Native(c.doc)),
             engine' = [engine EXCEPT ![c.doc] = Put(c.doc, record)]
      PROVE  /\ engine' \in [Docs -> Seq(DocumentType)]
             /\ \A d \in Docs : Kept(d)
             /\ Ran(c.doc)'
  <2>1. mapped[c.doc] # 0
    BY <1>5 DEF Resolves
  <2>2. Native(c.doc) \in DocumentType
    BY <1>3, <2>1, NativeThere
  <2>3. Native(c.doc).done \in {"no", "tried", "yes"} /\ Native(c.doc).settled \in {"no", "yes"}
    BY <2>2 DEF DocumentType
  <2>4. /\ record \in DocumentType /\ record.done # "no"
        /\ Native(c.doc).done = "yes" => record.done = "yes"
        /\ record.settled = Native(c.doc).settled
    BY <2>2, <2>3 DEF Completions, Document, DocumentType
  <2>5. /\ Put(c.doc, record) \in Seq(DocumentType)
        /\ Len(Put(c.doc, record)) = Len(engine[c.doc])
        /\ Put(c.doc, record)[mapped[c.doc]] = record
        /\ \A k \in 1..Len(engine[c.doc]) :
             k # mapped[c.doc] => Put(c.doc, record)[k] = engine[c.doc][k]
    BY <1>3, <2>1, <2>4, PutRecord
  <2>6. engine'[c.doc] = Put(c.doc, record)
    BY <1>0, <1>3, <1>5
  <2>7. \A d \in Docs \ {c.doc} : engine'[d] = engine[d]
    BY <1>0, <1>5
  <2>8. engine' \in [Docs -> Seq(DocumentType)]
    BY <1>0, <1>5, <2>5
  <2>9. Kept(c.doc)
    BY <1>1, <1>3, <2>4, <2>5, <2>6 DEF Untouched
  <2>10. \A d \in Docs : Kept(d)
    BY <1>2, <2>7, <2>9
  <2>11. Ran(c.doc)'
    BY <2>1, <2>4, <2>5, <2>6 DEF Ran, Native, recorded
  <2> QED
    BY <2>8, <2>10, <2>11
<1>6. ASSUME c.op = "allocate", NEW whole \in SUBSET {c.doc, c.invoice},
             engine' = [engine EXCEPT
               ![c.doc] = Put(c.doc, Settle(Native(c.doc), c.doc \in whole)),
               ![c.invoice] = Put(c.invoice, Settle(Native(c.invoice), c.invoice \in whole))]
      PROVE  /\ engine' \in [Docs -> Seq(DocumentType)]
             /\ \A d \in Docs : Kept(d)
  <2> DEFINE made(d) == Put(d, Settle(Native(d), d \in whole))
  <2>1. /\ c.doc \in Docs /\ c.invoice \in Docs /\ c.doc # c.invoice
        /\ mapped[c.doc] # 0 /\ mapped[c.invoice] # 0
    BY <1>6, CommandFields, DocumentKinds DEF Resolves
  <2>2. ASSUME NEW d \in Docs, mapped[d] # 0, engine'[d] = made(d)
        PROVE  Kept(d) /\ made(d) \in Seq(DocumentType)
    <3>1. Native(d) \in DocumentType
      BY <2>2, NativeThere
    <3> DEFINE record == Settle(Native(d), d \in whole)
    <3>2. record \in DocumentType /\ record.done = Native(d).done
            /\ (Native(d).settled = "yes" => record.settled = "yes")
      BY <3>1 DEF Settle, Document, DocumentType
    <3> HIDE DEF record
    <3>3. /\ Put(d, record) \in Seq(DocumentType)
          /\ Len(Put(d, record)) = Len(engine[d])
          /\ Put(d, record)[mapped[d]] = record
          /\ \A k \in 1..Len(engine[d]) : k # mapped[d] => Put(d, record)[k] = engine[d][k]
      BY <2>2, <3>2, PutRecord
    <3>4. engine'[d] = Put(d, record)
      BY <2>2 DEF record
    <3>5. Kept(d)
      BY <1>1, <2>2, <3>2, <3>3, <3>4 DEF Untouched
    <3>6. made(d) \in Seq(DocumentType)
      BY <3>3 DEF record
    <3> QED
      BY <3>5, <3>6
  <2>3. engine'[c.doc] = made(c.doc) /\ engine'[c.invoice] = made(c.invoice)
    BY <1>0, <1>6, <2>1
  <2>4. \A d \in Docs \ {c.doc, c.invoice} : engine'[d] = engine[d]
    BY <1>0, <1>6
  <2>5. made(c.doc) \in Seq(DocumentType) /\ made(c.invoice) \in Seq(DocumentType)
    BY <2>1, <2>2, <2>3
  <2>6. engine' \in [Docs -> Seq(DocumentType)]
    BY <1>0, <1>6, <2>5
  <2>7. Kept(c.doc) /\ Kept(c.invoice)
    BY <2>1, <2>2, <2>3
  <2>8. \A d \in Docs : Kept(d)
    BY <1>2, <2>4, <2>7
  <2> QED
    BY <2>6, <2>8
<1>7. /\ engine' \in [Docs -> Seq(DocumentType)]
      /\ \A d \in Docs : Kept(d)
      /\ c.op = "create" => Len(engine'[c.doc]) \in Nat \ {0}
      /\ c.op = "complete" => Ran(c.doc)'
  <2> HIDE DEF Kept
  <2>1. CASE c.op = "create"
    <3>1. engine' = [engine EXCEPT ![c.doc] = Append(engine[c.doc], Draft)]
      BY <2>1 DEF Change
    <3> QED
      BY <2>1, <3>1, <1>4
  <2>2. CASE c.op = "complete"
    <3>1. PICK record \in Completions(Native(c.doc)) :
            engine' = [engine EXCEPT ![c.doc] = Put(c.doc, record)]
      BY <2>2 DEF Change
    <3> QED
      BY <2>2, <3>1, <1>5
  <2>3. CASE c.op = "allocate"
    <3>1. PICK whole \in SUBSET {c.doc, c.invoice} :
            engine' = [engine EXCEPT
              ![c.doc] = Put(c.doc, Settle(Native(c.doc), c.doc \in whole)),
              ![c.invoice] = Put(c.invoice, Settle(Native(c.invoice), c.invoice \in whole))]
      BY <2>3 DEF Change
    <3> QED
      BY <2>3, <3>1, <1>6
  <2> QED
    BY <1>3, <2>1, <2>2, <2>3
<1>8. /\ Grows
      /\ \A t \in Servers : Keeps(t)
      /\ \A d \in Docs : mapped'[d] <= Len(engine'[d])
  BY <1>7, EngineGrows
<1> QED
  BY <1>7, <1>8

-----------------------------------------------------------------------------
(* The steps that leave the records alone. *)

\* What a step must show of the invariant besides the gate.
StateInv ==
  /\ engine \in [Docs -> Seq(DocumentType)]
  /\ mapped \in [Docs -> Nat] /\ \A d \in Docs : mapped[d] <= Len(engine[d])
  /\ consequence \in OrderType /\ linked \subseteq Shipments \cup Invoices
  /\ outcome \in [Docs -> OutcomeType]
  /\ server \in [Servers -> RunType]
  /\ \A s, t \in Servers : s # t => server[s].holds \cap server[t].holds = {}
  /\ RowsInv /\ FactsInv /\ EventsAgreeWithRecords /\ OrphansStayDrafts
  /\ \A s \in Servers : Sound(s)

\* The records agree with an engine that has grown.
LEMMA RecordsStay ==
  ASSUME IInv, Grows, UNCHANGED recorded
  PROVE  /\ mapped' \in [Docs -> Nat]
         /\ consequence' \in OrderType /\ linked' \subseteq Shipments \cup Invoices
         /\ outcome' \in [Docs -> OutcomeType]
         /\ RowsInv' /\ FactsInv' /\ EventsAgreeWithRecords' /\ OrphansStayDrafts'
<1>2. RowsInv'
  BY DEF IInv, RowsInv, recorded
<1>3. FactsInv'
  <2>1. ASSUME NEW d \in Docs, outcome'[d].revision # 0
        PROVE  Observed(d, outcome[d].status)'
    <3>1. outcome' = outcome
      BY DEF recorded
    <3>2. Observed(d, outcome[d].status)
      BY <2>1, <3>1 DEF IInv, FactsInv
    <3> QED
      BY <3>1, <3>2 DEF Observed, Grows
  <2>2. "completed" \in consequence'.facts => Ran(Order)'
    BY DocumentKinds DEF IInv, FactsInv, recorded, Grows
  <2>3. "shipped" \in consequence'.facts => \E d \in linked' \cap Shipments : Ran(d)'
    BY DocumentKinds DEF IInv, FactsInv, recorded, Grows
  <2>4. ASSUME "invoiced" \in consequence'.facts
        PROVE  consequence'.invoice \in linked' \cap Invoices /\ Ran(consequence.invoice)'
    <3>1. consequence' = consequence /\ linked' = linked
      BY DEF recorded
    <3>2. consequence.invoice \in linked \cap Invoices /\ Ran(consequence.invoice)
      BY <2>4, <3>1 DEF IInv, FactsInv
    <3>3. consequence.invoice \in Docs
      BY <3>2, DocumentKinds
    <3> QED
      BY <3>1, <3>2, <3>3 DEF Grows, Ran
  <2> QED
    BY <2>1, <2>2, <2>3, <2>4 DEF FactsInv
<1>4. EventsAgreeWithRecords'
  BY DEF IInv, EventsAgreeWithRecords, recorded, ConsequenceEvent, OutcomeEvent
<1>5. OrphansStayDrafts'
  BY DEF IInv, OrphansStayDrafts, Untouched, Grows
<1> QED
  BY <1>2, <1>3, <1>4, <1>5 DEF IInv, TypeOK, recorded

\* A server that has ended, or was idle, relies on nothing.
LEMMA IdleSound ==
  ASSUME NEW s \in Servers, server'[s] = Idle
  PROVE  Sound(s)'
<1>1. /\ server'[s].at = "idle" /\ server'[s].holds = {}
      /\ server'[s].outcomes[Order] = NotRead
  BY IdleTyped, DocumentKinds
<1> QED
  BY <1>1 DEF Sound, AtRest, MadeThere, WorksOn, Working, InTurn, OrderLocked, RowsLocked,
              SeenThere

\* A step of one server that leaves the records alone.
LEMMA PlainStep ==
  ASSUME IInv, NEW s \in Servers, UNCHANGED recorded, Grows,
         engine' \in [Docs -> Seq(DocumentType)], \A d \in Docs : mapped'[d] <= Len(engine'[d]),
         \A t \in Servers : Keeps(t),
         NEW run, run \in RunType, server' = [server EXCEPT ![s] = run],
         Sound(s)',
         \A t \in Servers \ {s} : run.holds \cap server[t].holds = {}
  PROVE  StateInv'
<1>1. server \in [Servers -> RunType] /\ TypeOK /\ \A t \in Servers : Sound(t)
  BY DEF IInv, TypeOK
<1>2. /\ server' \in [Servers -> RunType] /\ server'[s] = run
      /\ \A t \in Servers \ {s} : server'[t] = server[t]
  BY <1>1
<1>3. /\ \A t \in Servers : Sound(t)'
      /\ \A t, u \in Servers : t # u => server'[t].holds \cap server'[u].holds = {}
  BY <1>1, <1>2, ServerStep
<1> QED
  BY <1>2, <1>3, RecordsStay DEF StateInv

\* A server ends, and the engine may have grown before.
LEMMA EndStep ==
  ASSUME IInv, NEW s \in Servers, UNCHANGED recorded, Grows,
         engine' \in [Docs -> Seq(DocumentType)], \A d \in Docs : mapped'[d] <= Len(engine'[d]),
         \A t \in Servers : Keeps(t), End(s)
  PROVE  StateInv'
<1>1. server \in [Servers -> RunType] /\ server' = [server EXCEPT ![s] = Idle]
  BY DEF IInv, TypeOK, End
<1>2. server'[s] = Idle
  BY <1>1
<1>3. Sound(s)'
  BY <1>2, IdleSound
<1>4. \A t \in Servers \ {s} : Idle.holds \cap server[t].holds = {}
  BY IdleTyped
<1>5. Idle \in RunType
  BY IdleTyped
<1> QED
  BY <1>1, <1>3, <1>4, <1>5, PlainStep

\* Nothing of it changes (the checks of the gate and Control Plane).
LEMMA StillStep ==
  ASSUME IInv, UNCHANGED <<engine, recorded, server>>
  PROVE  StateInv'
<1>1. TypeOK /\ Grows /\ \A t \in Servers : Keeps(t)
  BY NothingGrows DEF IInv
<1>2. \A t \in Servers : Sound(t)'
  BY <1>1, OthersSound DEF IInv
<1>3. \A d \in Docs : mapped'[d] <= Len(engine'[d])
  BY <1>1 DEF TypeOK, recorded
<1> QED
  BY <1>1, <1>2, <1>3, RecordsStay DEF StateInv, TypeOK

-----------------------------------------------------------------------------
(* The steps of a command before its commit. *)

\* A command arrives with nothing locked.
LEMMA BeginStep ==
  ASSUME IInv, NEW s \in Servers, Begin(s)
  PROVE  StateInv'
<1> DEFINE run == Run("checked", server[s], server[s].made, server[s].holds, server[s].seen,
                      server[s].order, server[s].outcomes)
<1>0. TypeOK /\ Sound(s)
  BY DEF IInv
<1>1. server' = [server EXCEPT ![s] = run] /\ At(s, "idle") /\ UNCHANGED <<engine, recorded>>
  BY DEF Begin, Goto, Carry
<1>2. run \in RunType
  BY <1>0, RunFields, RunTyped DEF Steps
<1>3. server[s].holds = {} /\ server[s].outcomes[Order] = NotRead
  BY <1>0, <1>1 DEF Sound, AtRest, At
<1>4. run.at = "checked" /\ run.holds = {} /\ run.outcomes = server[s].outcomes
  BY <1>3 DEF Run
<1> HIDE DEF run
<1>5. server'[s] = run
  BY <1>0, <1>1 DEF TypeOK
<1>6. Sound(s)'
  BY <1>3, <1>4, <1>5 DEF Sound, AtRest, MadeThere, WorksOn, Working, InTurn, OrderLocked,
                          RowsLocked, SeenThere
<1>7. /\ Grows /\ \A t \in Servers : Keeps(t)
      /\ engine' \in [Docs -> Seq(DocumentType)] /\ \A d \in Docs : mapped'[d] <= Len(engine'[d])
  BY <1>0, <1>1, NothingGrows DEF TypeOK, recorded
<1> QED
  BY <1>1, <1>2, <1>4, <1>6, <1>7, PlainStep DEF recorded

\* Where the engine's answer leaves a command.
Answered(c) ==
  IF c.op = "create" THEN "commit" ELSE IF c.doc \in Payments THEN "read" ELSE "note"

\* The engine has run what it was asked, and the server knows; it may have to ask again.
LEMMA CallStep ==
  ASSUME IInv, NEW s \in Servers, NEW c \in Commands, Resolves(c), Change(c), UNCHANGED recorded,
         NEW place \in {"checked", Answered(c)}, Take(s, c, place)
  PROVE  StateInv'
<1>0. TypeOK
  BY DEF IInv
<1>1. /\ engine' \in [Docs -> Seq(DocumentType)] /\ Grows /\ \A t \in Servers : Keeps(t)
      /\ \A d \in Docs : mapped'[d] <= Len(engine'[d])
      /\ c.op = "create" => Len(engine'[c.doc]) \in Nat \ {0}
      /\ c.op = "complete" => Ran(c.doc)'
  BY <1>0, ChangeGrows
<1>2. PICK made \in Nat : made = IF c.op = "create" THEN Len(engine'[c.doc]) ELSE 0
  BY <1>1
<1> DEFINE run == Run(place, c, made, Idle.holds, Idle.seen, Idle.order, Idle.outcomes)
<1>3. server' = [server EXCEPT ![s] = run]
  BY <1>2 DEF Take
<1>4. /\ c.op \in {"create", "complete", "allocate"}
      /\ c.doc \in Docs /\ c.invoice \in Invoices \cup {NoDoc} /\ c.version \in {"none", "given"}
      /\ c.op = "allocate" => c.doc \in Payments /\ c.invoice \in Invoices
  BY CommandFields
<1>5. /\ run.at = place /\ run.op = c.op /\ run.doc = c.doc /\ run.invoice = c.invoice
      /\ run.made = made /\ run.holds = {} /\ run.seen = "none"
      /\ run.outcomes = [d \in Docs |-> NotRead]
  BY IdleTyped DEF Run
<1>6. run \in RunType
  <2>1. place \in Steps
    BY DEF Steps, Answered
  <2>2. /\ Idle.holds \in SUBSET Docs /\ Idle.seen \in Statuses /\ Idle.order \in OrderType
        /\ Idle.outcomes \in [Docs -> OutcomeType]
    BY IdleTyped DEF Statuses
  <2> QED
    BY <1>4, <2>1, <2>2, RunTyped
<1> HIDE DEF run
<1>7. server'[s] = run
  BY <1>0, <1>3 DEF TypeOK
<1>8. Sound(s)'
  <2> USE <1>5, <1>7, DocumentKinds
  <2>1. AtRest(s)'
    BY DEF AtRest
  <2>2. MadeThere(s)'
    BY <1>1, <1>2, <1>4 DEF MadeThere
  <2>3. WorksOn(s)'
    BY <1>1, <1>4 DEF WorksOn, Working, Answered, Resolves, Grows
  <2>4. InTurn(s)'
    BY <1>4 DEF InTurn, Answered
  <2>5. OrderLocked(s)' /\ RowsLocked(s)' /\ SeenThere(s)'
    BY DEF OrderLocked, RowsLocked, SeenThere
  <2> QED
    BY <2>1, <2>2, <2>3, <2>4, <2>5 DEF Sound
<1>9. \A t \in Servers \ {s} : run.holds \cap server[t].holds = {}
  BY <1>5
<1> QED
  BY <1>1, <1>3, <1>6, <1>8, <1>9, PlainStep

\* The order's fact is recorded on the row that is locked for it, or the document
\* concerns no order.
LEMMA NoteStep ==
  ASSUME IInv, NEW s \in Servers, Note(s)
  PROVE  StateInv'
<1> DEFINE d == server[s].doc
           after == IF d \in Invoices THEN "read" ELSE "commit"
           holds == IF Concerns(d) THEN {Order} ELSE {}
           order == IF Concerns(d) THEN Noted(d) ELSE server[s].order
           run == Run(after, server[s], server[s].made, holds, server[s].seen, order,
                      server[s].outcomes)
<1>0. TypeOK /\ Sound(s) /\ At(s, "note") /\ UNCHANGED <<engine, recorded>>
  BY DEF IInv, Note
<1>1. /\ server[s].holds = {} /\ server[s].op = "complete" /\ d \notin Payments
      /\ d \in Docs /\ mapped[d] # 0 /\ Ran(d)
      /\ server[s].outcomes[d] = NotRead /\ server[s].outcomes[Order] = NotRead
  BY <1>0 DEF Sound, InTurn, WorksOn, Working, At, AtRest
<1>2. server' = [server EXCEPT ![s] = run] /\ (Concerns(d) => Lock(s, Order))
  BY <1>1 DEF Note, Goto, Carry
<1>3. order \in OrderType
  <2>1. FactOf(d) \in FactSet /\ (FactOf(d) = "invoiced" => d \in Invoices)
    BY <1>1 DEF FactOf, FactSet, Docs
  <2>2. consequence \in OrderType /\ server[s].order \in OrderType
    BY <1>0, RunFields DEF TypeOK
  <2>3. Noted(d) \in OrderType
    BY <2>1, <2>2 DEF Noted, OrderType, OrderRow
  <2> QED
    BY <2>2, <2>3
<1>4. run \in RunType
  BY <1>0, <1>3, RunFields, RunTyped, DocumentKinds DEF Steps
<1>5. /\ run.at = after /\ run.op = "complete" /\ run.doc = d /\ run.invoice = server[s].invoice
      /\ run.holds = holds /\ run.order = order /\ run.outcomes = server[s].outcomes
  BY <1>1 DEF Run
<1> HIDE DEF run
<1>6. server'[s] = run
  BY <1>0, <1>2 DEF TypeOK
<1>7. /\ Grows /\ \A t \in Servers : Keeps(t)
      /\ engine' \in [Docs -> Seq(DocumentType)] /\ \A x \in Docs : mapped'[x] <= Len(engine'[x])
  BY <1>0, NothingGrows DEF TypeOK, recorded
<1>8. Sound(s)'
  <2> USE <1>1, <1>5, <1>6, DocumentKinds
  <2>1. AtRest(s)' /\ MadeThere(s)' /\ SeenThere(s)'
    BY DEF AtRest, MadeThere, SeenThere
  <2>2. WorksOn(s)'
    BY <1>0, <1>7 DEF WorksOn, Working, Grows
  <2>3. InTurn(s)'
    BY DEF InTurn
  <2>4. OrderLocked(s)'
    BY <1>0 DEF OrderLocked, Working, recorded, Concerns, Noted
  <2>5. RowsLocked(s)'
    BY DEF RowsLocked
  <2> QED
    BY <2>1, <2>2, <2>3, <2>4, <2>5 DEF Sound
<1>9. \A t \in Servers \ {s} : run.holds \cap server[t].holds = {}
  BY <1>2, <1>5 DEF Lock
<1> QED
  BY <1>0, <1>2, <1>4, <1>7, <1>8, <1>9, PlainStep DEF recorded

\* The document whose outcome a command looks at is mapped, and its kind has outcomes.
LEMMA CurrentMapped ==
  ASSUME TypeOK, NEW s \in Servers, Sound(s), server[s].at \in {"read", "advance"}
  PROVE  /\ Current(s) \in Invoices \cup Payments /\ Current(s) \in Docs /\ mapped[Current(s)] # 0
         /\ Native(Current(s)) \in DocumentType
         /\ Current(s) \notin {server[s].doc} => server[s].op = "allocate"
         /\ server[s].doc \in Docs
<1>1. Working(s)
  BY DEF Working
<1>2. /\ Current(s) \in Invoices \cup Payments /\ Current(s) \in Docs /\ mapped[Current(s)] # 0
      /\ Current(s) \notin {server[s].doc} => server[s].op = "allocate"
      /\ server[s].doc \in Docs
  BY <1>1, DocumentKinds DEF Sound, WorksOn, InTurn, Current
<1> QED
  BY <1>2, NativeThere

\* A status is announced of what the engine shows (_announce_payment, _announce_invoice).
LEMMA StatusObserved ==
  ASSUME TypeOK, NEW s \in Servers, NEW d \in Docs, mapped[d] # 0
  PROVE  /\ StatusOf(s, d) \in Statuses
         /\ StatusOf(s, d) # "none" => Observed(d, StatusOf(s, d))
<1>1. Native(d) \in DocumentType
  BY NativeThere
<1>2. Native(d).done \in {"no", "tried", "yes"}
  BY <1>1 DEF DocumentType
<1> QED
  BY <1>2 DEF StatusOf, Statuses, Observed, Done, Settled

\* The engine is read before the outcome's row is locked.
LEMMA ReadStep ==
  ASSUME IInv, NEW s \in Servers, Read(s)
  PROVE  StateInv'
<1> DEFINE d == Current(s)
           status == IF d \in Invoices \ linked THEN "none" ELSE StatusOf(s, d)
           run == Run("advance", server[s], server[s].made, server[s].holds, status,
                      server[s].order, server[s].outcomes)
<1>0. TypeOK /\ Sound(s) /\ server[s].at = "read" /\ UNCHANGED <<engine, recorded>>
  BY DEF IInv, Read, At
<1>1. d \in Docs /\ mapped[d] # 0
  BY <1>0, CurrentMapped
<1>2. status \in Statuses /\ (status # "none" => Observed(d, status))
  BY <1>0, <1>1, StatusObserved DEF Statuses
<1>3. server' = [server EXCEPT ![s] = run]
  BY DEF Read, Carry
<1>4. run \in RunType
  BY <1>0, <1>2, RunFields, RunTyped DEF Steps
<1>5. /\ run.at = "advance" /\ run.op = server[s].op /\ run.doc = server[s].doc
      /\ run.invoice = server[s].invoice /\ run.holds = server[s].holds /\ run.seen = status
      /\ run.order = server[s].order /\ run.outcomes = server[s].outcomes
  BY DEF Run
<1> HIDE DEF run
<1>6. server'[s] = run
  BY <1>0, <1>3 DEF TypeOK
<1>7. /\ Grows /\ \A t \in Servers : Keeps(t)
      /\ engine' \in [Docs -> Seq(DocumentType)] /\ \A x \in Docs : mapped'[x] <= Len(engine'[x])
  BY <1>0, NothingGrows DEF TypeOK, recorded
<1>8. Sound(s)'
  <2> USE <1>5, <1>6
  <2>1. AtRest(s)' /\ MadeThere(s)'
    BY <1>0 DEF Sound, AtRest, MadeThere
  <2>2. WorksOn(s)' /\ InTurn(s)'
    BY <1>0 DEF Sound, WorksOn, InTurn, Working, recorded, Ran, Native
  <2>3. OrderLocked(s)'
    BY <1>0 DEF Sound, OrderLocked, Working, recorded, Concerns, Noted
  <2>4. RowsLocked(s)'
    BY <1>0 DEF Sound, RowsLocked, recorded, Follows, Advances, Observed, Done, Settled, Native
  <2>5. Current(s)' = d
    BY DEF Current
  <2>6. SeenThere(s)'
    BY <1>0, <1>2, <2>5 DEF SeenThere, Observed, Done, Settled, Native, recorded
  <2> QED
    BY <2>1, <2>2, <2>3, <2>4, <2>6 DEF Sound
<1>9. \A t \in Servers \ {s} : run.holds \cap server[t].holds = {}
  BY <1>0, <1>5 DEF TypeOK
<1> QED
  BY <1>0, <1>3, <1>4, <1>7, <1>8, <1>9, PlainStep DEF recorded

\* The outcome is decided on the row that is locked for it, whatever the engine said
\* before (outcome_store.advance).
LEMMA AdvanceStep ==
  ASSUME IInv, NEW s \in Servers, Advance(s)
  PROVE  StateInv'
<1> DEFINE d == Current(s)
           old == outcome[d]
           new == OutcomeRow(old.revision + 1, server[s].seen,
                             IF d \in Payments THEN server[s].invoice ELSE NoDoc)
           row == IF Advances(old, new) THEN new ELSE old
           more == server[s].op = "allocate" /\ d = server[s].doc
           place == IF more THEN "read" ELSE "commit"
           holds == IF server[s].seen = "none" THEN server[s].holds ELSE server[s].holds \cup {d}
           outcomes == [server[s].outcomes EXCEPT ![d] = row]
           run == Run(place, server[s], server[s].made, holds, "none", server[s].order, outcomes)
<1>0. TypeOK /\ Sound(s) /\ server[s].at = "advance" /\ UNCHANGED <<engine, recorded>>
  BY DEF IInv, Advance, At
<1>1. /\ d \in Docs /\ d \in Invoices \cup Payments /\ mapped[d] # 0 /\ d # Order
      /\ server[s].doc \in Docs
  BY <1>0, CurrentMapped, DocumentKinds
<1>2. /\ server' = [server EXCEPT ![s] = run]
      /\ server[s].seen # "none" => Lock(s, d)
  BY DEF Advance, Carry
<1>3. old \in OutcomeType /\ new \in OutcomeType /\ new.status = server[s].seen
        /\ new.revision = old.revision + 1
  BY <1>0, <1>1, RunFields DEF TypeOK, OutcomeType, OutcomeRow
<1>4. row \in OutcomeType
  BY <1>3
<1> HIDE DEF row
<1>5. server[s].outcomes \in [Docs -> OutcomeType] /\ server[s].holds \in SUBSET Docs
  BY <1>0, RunFields
<1>6. /\ outcomes \in [Docs -> OutcomeType] /\ outcomes[d] = row
      /\ \A x \in Docs \ {d} : outcomes[x] = server[s].outcomes[x]
  BY <1>1, <1>4, <1>5
<1>7. holds \in SUBSET Docs
  BY <1>1, <1>5
<1> HIDE DEF outcomes
<1>8. run \in RunType
  <2>1. place \in Steps /\ "none" \in Statuses
    BY DEF Steps, Statuses
  <2> QED
    BY <1>0, <1>6, <1>7, <2>1, RunFields, RunTyped
<1>9. /\ run.at = place /\ run.op = server[s].op /\ run.doc = server[s].doc
      /\ run.invoice = server[s].invoice /\ run.holds = holds
      /\ run.order = server[s].order /\ run.outcomes = outcomes
  BY DEF Run
<1> HIDE DEF run
<1>10. server'[s] = run
  BY <1>0, <1>2 DEF TypeOK
<1>11. /\ Grows /\ \A t \in Servers : Keeps(t)
       /\ engine' \in [Docs -> Seq(DocumentType)] /\ \A x \in Docs : mapped'[x] <= Len(engine'[x])
  BY <1>0, NothingGrows DEF TypeOK, recorded
<1>12. \A x \in Docs : \A status : Observed(x, status)' = Observed(x, status)
  BY <1>0 DEF Observed, Done, Settled, Native, recorded
<1>13. Sound(s)'
  <2> USE <1>9, <1>10
  <2>1. AtRest(s)'
    BY <1>0, <1>1, <1>6, DocumentKinds DEF Sound, AtRest
  <2>2. WorksOn(s)' /\ MadeThere(s)'
    BY <1>0 DEF Sound, WorksOn, MadeThere, Working, recorded, Ran, Native
  <2>3. InTurn(s)'
    BY <1>0 DEF Sound, InTurn
  <2>4. OrderLocked(s)'
    <3>1. Order \in holds => Order \in server[s].holds
      BY <1>1
    <3>2. Working(s) /\ server[s].op # "create" => Working(s)'
      BY DEF Working
    <3> QED
      BY <1>0, <3>1, <3>2 DEF Sound, OrderLocked, recorded, Concerns, Noted
  <2>5. RowsLocked(s)'
    <3> SUFFICES ASSUME NEW x \in holds, outcomes[x] \notin {NotRead, outcome[x]}
                 PROVE  Follows(x, outcomes[x])
      BY <1>0, <1>12, <1>7 DEF RowsLocked, recorded, Follows, Advances, Observed, Done, Settled, Native
    <3>1. x \in Docs
      BY <1>7
    <3>2. CASE x = d
      <4>1. row = new /\ Advances(old, new)
        BY <3>2, <1>6 DEF row
      <4>2. server[s].seen # "none"
        BY <4>1, <1>3 DEF Advances
      <4>3. Observed(d, server[s].seen)
        BY <4>2, <1>0 DEF Sound, SeenThere
      <4> QED
        BY <3>2, <4>1, <4>3, <1>0, <1>3, <1>6, RunFields DEF Follows
    <3>3. CASE x # d
      BY <3>1, <3>3, <1>0, <1>6 DEF Sound, RowsLocked
    <3> QED
      BY <3>2, <3>3
  <2>6. SeenThere(s)'
    BY DEF SeenThere
  <2> QED
    BY <2>1, <2>2, <2>3, <2>4, <2>5, <2>6 DEF Sound
<1>14. \A t \in Servers \ {s} : run.holds \cap server[t].holds = {}
  BY <1>0, <1>2, <1>9 DEF TypeOK, Lock
<1> QED
  BY <1>0, <1>2, <1>8, <1>11, <1>13, <1>14, PlainStep DEF recorded

-----------------------------------------------------------------------------
(* The commits. *)

\* A commit of one server, which ends with it.
LEMMA CommitStep ==
  ASSUME IInv, NEW s \in Servers, End(s), Grows, \A t \in Servers \ {s} : Keeps(t),
         engine' = engine,
         mapped' \in [Docs -> Nat], \A d \in Docs : mapped'[d] <= Len(engine[d]),
         consequence' \in OrderType, linked' \subseteq Shipments \cup Invoices,
         outcome' \in [Docs -> OutcomeType],
         RowsInv', FactsInv', EventsAgreeWithRecords'
  PROVE  StateInv'
<1>1. TypeOK /\ \A t \in Servers : Sound(t)
  BY DEF IInv
<1>2. server' = [server EXCEPT ![s] = Idle] /\ server \in [Servers -> RunType]
  BY <1>1 DEF End, TypeOK
<1>3. /\ server' \in [Servers -> RunType] /\ server'[s] = Idle
      /\ \A t \in Servers \ {s} : server'[t] = server[t]
  BY <1>2, IdleTyped
<1>4. Sound(s)' /\ \A t \in Servers \ {s} : server'[s].holds \cap server[t].holds = {}
  BY <1>3, IdleSound, IdleTyped
<1>5. /\ \A t \in Servers : Sound(t)'
      /\ \A t, u \in Servers : t # u => server'[t].holds \cap server'[u].holds = {}
  BY <1>1, <1>3, <1>4, ServerStep
<1>6. OrphansStayDrafts'
  BY DEF IInv, OrphansStayDrafts, Untouched, Grows
<1> QED
  BY <1>1, <1>3, <1>5, <1>6 DEF StateInv, TypeOK

\* A mapping is new; an order is opened with it, and a document linked to the order.
LEMMA CommitCreatedStep ==
  ASSUME IInv, NEW s \in Servers, CommitCreated(s)
  PROVE  StateInv'
<1> DEFINE d == server[s].doc
           opens == d = Order /\ server[s].version = "given"
<1>0. /\ TypeOK /\ Sound(s) /\ RowsInv /\ FactsInv /\ EventsAgreeWithRecords
      /\ server[s].at = "commit" /\ server[s].op = "create" /\ mapped[d] = 0
      /\ engine' = engine /\ outcome' = outcome /\ End(s)
      /\ mapped' = [mapped EXCEPT ![d] = server[s].made]
      /\ consequence' = IF opens THEN OpenedOrder ELSE consequence
      /\ linked' = LinkedWith(d)
      /\ outbox' = [x \in Docs |-> IF x = Order /\ opens
                                    THEN ConsequenceEvent(OpenedOrder) ELSE outbox[x]]
  BY DEF IInv, CommitCreated, At, Unmapped
<1>1. d \in Docs /\ server[s].made # 0 /\ server[s].made <= Len(engine[d])
  BY <1>0 DEF Sound, MadeThere
<1>2. /\ mapped' \in [Docs -> Nat] /\ mapped'[d] = server[s].made
      /\ \A x \in Docs \ {d} : mapped'[x] = mapped[x]
      /\ \A x \in Docs : mapped'[x] <= Len(engine[x])
  BY <1>0, <1>1, RunFields DEF TypeOK
<1>3. opens => consequence.revision = 0 /\ consequence.facts = {}
  BY <1>0 DEF RowsInv
<1>4. OpenedOrder \in OrderType /\ OpenedOrder.revision = 1 /\ OpenedOrder.facts = {}
  BY DEF OpenedOrder, OrderRow, OrderType
<1>5. consequence' \in OrderType
  BY <1>0, <1>4 DEF TypeOK
<1>6. linked' \subseteq Shipments \cup Invoices /\ linked \subseteq linked'
  BY <1>0 DEF TypeOK, LinkedWith
<1>7. \A x \in Docs : (Ran(x) => Ran(x)') /\ (Done(x) => Done(x)') /\ (Settled(x) => Settled(x)')
  BY <1>0, <1>2 DEF Ran, Done, Settled, Native
<1>8. Grows
  <2>1. \A x \in Docs : Len(engine[x]) \in Nat
    BY <1>0, LenProperties DEF TypeOK
  <2>2. \A x \in Docs : mapped[x] # 0 => mapped'[x] # 0
    BY <1>0, <1>1, <1>2
  <2>3. \A x \in Docs : Untouched(x) => Untouched(x)'
    BY <1>0, <1>2, <2>1 DEF Untouched
  <2> QED
    BY <1>0, <1>3, <1>6, <1>7, <2>1, <2>2, <2>3 DEF Grows
<1>9. ASSUME NEW t \in Servers \ {s}
      PROVE  Keeps(t)
  <2>1. Order \in server[t].holds => consequence.revision # 0
    BY DEF IInv, Sound, OrderLocked, Concerns
  <2> QED
    BY <1>0, <1>3, <2>1 DEF Keeps
<1>10. RowsInv'
  BY <1>0, <1>1, <1>2, <1>3, <1>4 DEF RowsInv
<1>11. FactsInv'
  <2>1. CASE opens
    <3>1. consequence'.facts = {}
      BY <1>0, <1>4, <2>1
    <3>2. ASSUME NEW x \in Docs, outcome'[x].revision # 0
          PROVE  Observed(x, outcome[x].status)'
      BY <3>2, <1>0, <1>7 DEF FactsInv, Observed
    <3> QED
      BY <3>1, <3>2 DEF FactsInv
  <2>2. CASE ~opens
    <3>1. consequence' = consequence
      BY <1>0, <2>2
    <3>2. ASSUME NEW x \in Docs, outcome'[x].revision # 0
          PROVE  Observed(x, outcome[x].status)'
      BY <3>2, <1>0, <1>7 DEF FactsInv, Observed
    <3>3. "completed" \in consequence.facts => Ran(Order)'
      BY <1>0, <1>7, DocumentKinds DEF FactsInv
    <3>4. "shipped" \in consequence.facts => \E x \in linked' \cap Shipments : Ran(x)'
      BY <1>0, <1>6, <1>7, DocumentKinds DEF FactsInv
    <3>5. ASSUME "invoiced" \in consequence.facts
          PROVE  consequence.invoice \in linked' \cap Invoices /\ Ran(consequence.invoice)'
      <4>1. consequence.invoice \in linked \cap Invoices /\ Ran(consequence.invoice)
        BY <3>5, <1>0 DEF FactsInv
      <4>2. consequence.invoice \in Docs
        BY <4>1, DocumentKinds
      <4>3. Ran(consequence.invoice)'
        BY <3>1, <4>1, <4>2, <1>0, <1>2 DEF Ran, Native
      <4> QED
        BY <4>1, <4>3, <1>6
    <3> QED
      BY <3>1, <3>2, <3>3, <3>4, <3>5 DEF FactsInv
  <2> QED
    BY <2>1, <2>2
<1>12. EventsAgreeWithRecords'
  <2> SUFFICES ASSUME NEW x \in Docs
               PROVE  outbox'[x] = IF x = Order
                        THEN IF consequence'.revision = 0 THEN Nothing
                             ELSE ConsequenceEvent(consequence')
                        ELSE IF outcome'[x].revision = 0 THEN Nothing ELSE OutcomeEvent(outcome'[x])
    BY DEF EventsAgreeWithRecords, ConsequenceEvent, OutcomeEvent
  <2>1. outbox'[x] = IF x = Order /\ opens THEN ConsequenceEvent(OpenedOrder) ELSE outbox[x]
    BY <1>0
  <2> QED
    BY <1>0, <1>4, <2>1 DEF EventsAgreeWithRecords
<1> QED
  BY <1>0, <1>2, <1>5, <1>6, <1>8, <1>9, <1>10, <1>11, <1>12, CommitStep DEF TypeOK

\* The row of an order after a fact that the engine shows: the next revision, with
\* one fact more, or the row as it was (record_fact).
LEMMA NotedRow ==
  ASSUME TypeOK, FactsInv, NEW d \in Docs \ Payments, Concerns(d), Ran(d)
  PROVE  LET row == Noted(d)
         IN  /\ consequence.revision # 0 /\ row \in OrderType /\ row.revision # 0
             /\ row = consequence \/ row.revision = consequence.revision + 1
             /\ consequence.facts \subseteq row.facts
             /\ "completed" \in row.facts => Ran(Order)
             /\ "shipped" \in row.facts => \E x \in linked \cap Shipments : Ran(x)
             /\ "invoiced" \in row.facts => row.invoice \in linked \cap Invoices /\ Ran(row.invoice)
<1>1. consequence \in OrderType /\ consequence.revision # 0 /\ (d = Order \/ d \in linked)
  BY DEF TypeOK, Concerns
<1>2. /\ consequence.revision \in Nat /\ consequence.facts \in SUBSET FactSet
      /\ consequence.invoice \in Invoices \cup {NoDoc}
  BY <1>1 DEF OrderType
<1>3. \/ d = Order /\ FactOf(d) = "completed"
      \/ d \in Shipments /\ d \in linked /\ FactOf(d) = "shipped"
      \/ d \in Invoices /\ d \in linked /\ FactOf(d) = "invoiced"
  BY <1>1, DocumentKinds DEF FactOf, Docs
<1>4. CASE FactOf(d) \in consequence.facts
  <2>1. Noted(d) = consequence
    BY <1>4 DEF Noted
  <2> QED
    BY <1>1, <2>1 DEF FactsInv
<1>5. CASE FactOf(d) \notin consequence.facts
  <2> DEFINE row == Noted(d)
  <2>1. /\ row.revision = consequence.revision + 1
        /\ row.facts = consequence.facts \cup {FactOf(d)}
        /\ row.invoice = IF FactOf(d) = "invoiced" THEN d ELSE consequence.invoice
    BY <1>5 DEF Noted, OrderRow
  <2>2. row \in OrderType
    BY <1>2, <1>3, <1>5 DEF Noted, OrderRow, OrderType, FactSet
  <2>3. row.revision # 0
    BY <1>2, <2>1
  <2>4. "completed" \in row.facts => Ran(Order)
    BY <1>3, <2>1 DEF FactsInv
  <2>5. "shipped" \in row.facts => \E x \in linked \cap Shipments : Ran(x)
    BY <1>3, <2>1 DEF FactsInv
  <2>6. "invoiced" \in row.facts => row.invoice \in linked \cap Invoices /\ Ran(row.invoice)
    BY <1>3, <2>1 DEF FactsInv
  <2> QED
    BY <1>1, <2>1, <2>2, <2>3, <2>4, <2>5, <2>6
<1> QED
  BY <1>4, <1>5

\* What a command commits of the order and of the outcomes it came to.
LEMMA Committed ==
  ASSUME TypeOK, FactsInv, NEW s \in Servers, Sound(s), CommitDone(s)
  PROVE  /\ UNCHANGED <<engine, mapped, linked>> /\ End(s)
         /\ \/ consequence' = consequence
            \/ Order \in server[s].holds /\ consequence'.revision = consequence.revision + 1
         /\ consequence.revision = 0 => consequence' = consequence
         /\ consequence' \in OrderType /\ consequence.facts \subseteq consequence'.facts
         /\ consequence.revision # 0 => consequence'.revision # 0
         /\ \A d \in Docs :
              \/ outcome'[d] = outcome[d]
              \/ d \in server[s].holds /\ Follows(d, outcome'[d])
         /\ outcome' \in [Docs -> OutcomeType]
         /\ outbox'[Order] = IF consequence' = consequence THEN outbox[Order]
                             ELSE ConsequenceEvent(consequence')
         /\ \A d \in Docs \ {Order} :
              outbox'[d] = IF outcome'[d] = outcome[d] THEN outbox[d] ELSE OutcomeEvent(outcome'[d])
<1> DEFINE c == server[s]
           noted == IF Order \in c.holds THEN c.order ELSE consequence
<1>0. /\ c.at = "commit" /\ c.op # "create" /\ UNCHANGED <<engine, mapped, linked>> /\ End(s)
      /\ consequence' = noted
      /\ outcome' = [d \in Docs |-> IF d \in Changed(s) THEN c.outcomes[d] ELSE outcome[d]]
      /\ outbox' = [d \in Docs |->
                      IF d = Order /\ noted # consequence THEN ConsequenceEvent(noted)
                      ELSE IF d \in Changed(s) THEN OutcomeEvent(c.outcomes[d]) ELSE outbox[d]]
  BY DEF CommitDone, At
<1>1. c.holds \in SUBSET Docs /\ c.outcomes \in [Docs -> OutcomeType] /\ consequence \in OrderType
  BY RunFields DEF TypeOK
<1>2. consequence.revision \in Nat
  BY <1>1 DEF OrderType
<1>3. /\ noted = consequence \/ (Order \in c.holds /\ noted.revision = consequence.revision + 1)
      /\ consequence.revision = 0 => noted = consequence
      /\ noted \in OrderType /\ consequence.facts \subseteq noted.facts
      /\ consequence.revision # 0 => noted.revision # 0
  <2>1. CASE Order \in c.holds
    <3>1. c.doc \in Docs \ Payments /\ Concerns(c.doc) /\ Ran(c.doc) /\ c.order = Noted(c.doc)
      BY <2>1 DEF Sound, OrderLocked, WorksOn
    <3> QED
      BY <2>1, <3>1, NotedRow
  <2>2. CASE Order \notin c.holds
    BY <1>1, <2>2
  <2> QED
    BY <2>1, <2>2
<1> HIDE DEF noted
<1>4. \A d \in Docs : d \in Changed(s) =>
        d \in c.holds /\ c.outcomes[d] # outcome[d] /\ Follows(d, c.outcomes[d]) /\ d # Order
  BY DEF Changed, Sound, RowsLocked, AtRest
<1>5. \A d \in Docs : outcome'[d] = IF d \in Changed(s) THEN c.outcomes[d] ELSE outcome[d]
  BY <1>0
<1>6. outcome' \in [Docs -> OutcomeType]
  BY <1>0, <1>1 DEF TypeOK
<1>7. \A d \in Docs : outcome'[d] = outcome[d] \/ (d \in c.holds /\ Follows(d, outcome'[d]))
  BY <1>4, <1>5
<1>8. outbox'[Order] = IF consequence' = consequence THEN outbox[Order]
                       ELSE ConsequenceEvent(consequence')
  BY <1>0, <1>4, DocumentKinds DEF ConsequenceEvent
<1>9. \A d \in Docs \ {Order} :
        outbox'[d] = IF outcome'[d] = outcome[d] THEN outbox[d] ELSE OutcomeEvent(outcome'[d])
  BY <1>0, <1>4, <1>5 DEF OutcomeEvent
<1> QED
  BY <1>0, <1>3, <1>6, <1>7, <1>8, <1>9

\* The consequence, the outcomes and their events appear together.
LEMMA CommitDoneStep ==
  ASSUME IInv, NEW s \in Servers, CommitDone(s)
  PROVE  StateInv'
<1>0. TypeOK /\ Sound(s) /\ RowsInv /\ FactsInv /\ EventsAgreeWithRecords
  BY DEF IInv
<1>1. /\ UNCHANGED <<engine, mapped, linked>> /\ End(s)
      /\ \/ consequence' = consequence
         \/ Order \in server[s].holds /\ consequence'.revision = consequence.revision + 1
      /\ consequence.revision = 0 => consequence' = consequence
      /\ consequence' \in OrderType
      /\ consequence.revision # 0 => consequence'.revision # 0
      /\ \A d \in Docs :
           outcome'[d] = outcome[d] \/ (d \in server[s].holds /\ Follows(d, outcome'[d]))
      /\ outcome' \in [Docs -> OutcomeType]
  BY <1>0, Committed
<1>2. /\ outbox'[Order] = IF consequence' = consequence THEN outbox[Order]
                          ELSE ConsequenceEvent(consequence')
      /\ \A d \in Docs \ {Order} :
           outbox'[d] = IF outcome'[d] = outcome[d] THEN outbox[d] ELSE OutcomeEvent(outcome'[d])
  BY <1>0, Committed
<1>3. \A x \in Docs : (Ran(x) <=> Ran(x)') /\ (Done(x) <=> Done(x)') /\ (Settled(x) <=> Settled(x)')
  BY <1>1 DEF Ran, Done, Settled, Native
<1>4. Grows
  <2>1. \A x \in Docs : Len(engine[x]) \in Nat
    BY <1>0, LenProperties DEF TypeOK
  <2> QED
    BY <1>1, <1>3, <2>1 DEF Grows, Untouched
<1>5. ASSUME NEW t \in Servers \ {s}
      PROVE  Keeps(t)
  <2>1. \A d \in server[t].holds : d \notin server[s].holds /\ d \in Docs
    BY <1>0, RunFields DEF TypeOK
  <2> QED
    BY <1>1, <2>1 DEF Keeps
<1>6. RowsInv'
  BY <1>0, <1>1 DEF RowsInv, Follows
<1>7. FactsInv'
  <2>1. ASSUME NEW x \in Docs, outcome'[x].revision # 0
        PROVE  Observed(x, outcome[x].status)'
    <3>1. CASE outcome'[x] = outcome[x]
      BY <2>1, <3>1, <1>0, <1>3 DEF FactsInv, Observed
    <3>2. CASE Follows(x, outcome'[x])
      BY <3>2, <1>3 DEF Follows, Observed
    <3> QED
      BY <1>1, <3>1, <3>2
  <2>2. /\ "completed" \in consequence'.facts => Ran(Order)
        /\ "shipped" \in consequence'.facts => \E x \in linked \cap Shipments : Ran(x)
        /\ "invoiced" \in consequence'.facts =>
             consequence'.invoice \in linked \cap Invoices /\ Ran(consequence'.invoice)
    <3>1. CASE Order \in server[s].holds
      <4>1. /\ server[s].doc \in Docs \ Payments /\ Concerns(server[s].doc)
            /\ Ran(server[s].doc) /\ server[s].order = Noted(server[s].doc)
        BY <3>1, <1>0 DEF Sound, OrderLocked, WorksOn
      <4>2. consequence' = Noted(server[s].doc)
        BY <3>1, <4>1 DEF CommitDone
      <4> QED
        BY <4>1, <4>2, <1>0, NotedRow
    <3>2. CASE Order \notin server[s].holds
      BY <3>2, <1>0, <1>1 DEF FactsInv, CommitDone
    <3> QED
      BY <3>1, <3>2
  <2>3. ASSUME "invoiced" \in consequence'.facts
        PROVE  Ran(consequence.invoice)'
    BY <2>2, <2>3, <1>1 DEF Ran, Native
  <2> QED
    BY <2>1, <2>2, <2>3, <1>1, <1>3, DocumentKinds DEF FactsInv
<1>8. EventsAgreeWithRecords'
  <2>1. outbox'[Order] = IF consequence'.revision = 0 THEN Nothing ELSE ConsequenceEvent(consequence')
    BY <1>0, <1>1, <1>2, DocumentKinds DEF EventsAgreeWithRecords, ConsequenceEvent
  <2>2. ASSUME NEW d \in Docs \ {Order}
        PROVE  outbox'[d] = IF outcome'[d].revision = 0 THEN Nothing ELSE OutcomeEvent(outcome'[d])
    <3>1. CASE outcome'[d] = outcome[d]
      BY <3>1, <1>0, <1>2 DEF EventsAgreeWithRecords, OutcomeEvent
    <3>2. CASE outcome'[d] # outcome[d]
      <4>1. outcome'[d].revision = outcome[d].revision + 1
        BY <3>2, <1>1 DEF Follows
      <4>2. outcome[d].revision \in Nat
        BY <1>0 DEF TypeOK, OutcomeType
      <4> QED
        BY <3>2, <4>1, <4>2, <1>2
    <3> QED
      BY <3>1, <3>2
  <2> QED
    BY <2>1, <2>2 DEF EventsAgreeWithRecords, ConsequenceEvent, OutcomeEvent
<1> QED
  BY <1>0, <1>1, <1>4, <1>5, <1>6, <1>7, <1>8, CommitStep DEF TypeOK

-----------------------------------------------------------------------------
(* The invariant. *)

\* At first there is nothing.
LEMMA Initially ==
  ASSUME Init
  PROVE  IInv
<1>1. \A d \in Docs : Len(engine[d]) = 0 /\ engine[d] \in Seq(DocumentType)
  BY DEF Init
<1>2. /\ engine \in [Docs -> Seq(DocumentType)] /\ mapped \in [Docs -> Nat]
      /\ \A d \in Docs : mapped[d] = 0 /\ mapped[d] <= Len(engine[d])
  BY <1>1 DEF Init
<1>3. /\ consequence = NoOrder /\ consequence \in OrderType
      /\ consequence.revision = 0 /\ consequence.facts = {}
  BY IdleTyped DEF Init, NoOrder, OrderRow
<1>4. /\ outcome \in [Docs -> OutcomeType]
      /\ \A d \in Docs : outcome[d].revision = 0 /\ outcome[d].status \in Statuses
  BY IdleTyped DEF Init, NoOutcome, OutcomeRow, Statuses
<1>5. /\ server \in [Servers -> RunType]
      /\ \A s \in Servers : server[s] = Idle
  BY IdleTyped DEF Init
<1>6. TypeOK
  BY <1>2, <1>3, <1>4, <1>5, GateInitially, IdleTyped DEF Init, TypeOK, GateInv
<1>7. \A s \in Servers : Sound(s)
  <2>1. \A s \in Servers : /\ server[s].at = "idle" /\ server[s].holds = {}
                           /\ server[s].outcomes[Order] = NotRead
    BY <1>5, IdleTyped, DocumentKinds
  <2> QED
    BY <2>1 DEF Sound, AtRest, MadeThere, WorksOn, Working, InTurn, OrderLocked, RowsLocked,
                SeenThere
<1>8. RowsInv /\ FactsInv
  BY <1>3, <1>4 DEF RowsInv, FactsInv
<1>9. EventsAgreeWithRecords
  BY <1>3, <1>4 DEF Init, EventsAgreeWithRecords
<1>10. OrphansStayDrafts
  BY <1>1 DEF OrphansStayDrafts
<1> QED
  BY <1>6, <1>7, <1>8, <1>9, <1>10 DEF IInv

\* The steps that change no record.
Unrecorded(s) ==
  \/ Begin(s) \/ Check(s) \/ Fail(s) \/ CallFails(s) \/ RetryDenied(s)
  \/ \E c \in Commands : Call(s, c) \/ CallLost(s, c) \/ CallUnauthorised(s, c)
  \/ Note(s) \/ Read(s) \/ Advance(s) \/ MappingConflict(s) \/ Crash(s)

\* They preserve what is known of the state.
LEMMA UnrecordedStep ==
  ASSUME IInv, NEW s \in Servers, Unrecorded(s)
  PROVE  StateInv' /\ UNCHANGED recorded
<1>0. TypeOK
  BY DEF IInv
<1>1. ASSUME Begin(s)
      PROVE  StateInv' /\ UNCHANGED recorded
  BY <1>1, BeginStep DEF Begin
<1>2. ASSUME Check(s)
      PROVE  StateInv' /\ UNCHANGED recorded
  BY <1>2, StillStep DEF Check
<1>3. ASSUME Fail(s) \/ CallFails(s) \/ RetryDenied(s) \/ MappingConflict(s) \/ Crash(s)
      PROVE  StateInv' /\ UNCHANGED recorded
  <2>1. End(s) /\ UNCHANGED <<engine, recorded>>
    BY <1>3 DEF Fail, CallFails, RetryDenied, MappingConflict, Crash
  <2>2. /\ Grows /\ \A t \in Servers : Keeps(t)
        /\ engine' \in [Docs -> Seq(DocumentType)] /\ \A d \in Docs : mapped'[d] <= Len(engine'[d])
    BY <1>0, <2>1, NothingGrows DEF TypeOK, recorded
  <2> QED
    BY <2>1, <2>2, EndStep
<1>4. ASSUME NEW c \in Commands, Call(s, c) \/ CallUnauthorised(s, c)
      PROVE  StateInv' /\ UNCHANGED recorded
  <2>1. PICK place \in {"checked", Answered(c)} :
          Resolves(c) /\ Change(c) /\ UNCHANGED recorded /\ Take(s, c, place)
    BY <1>4 DEF Call, CallUnauthorised, Answered
  <2> QED
    BY <2>1, CallStep
<1>5. ASSUME NEW c \in Commands, CallLost(s, c)
      PROVE  StateInv' /\ UNCHANGED recorded
  <2>1. Resolves(c) /\ Change(c) /\ End(s) /\ UNCHANGED recorded
    BY <1>5 DEF CallLost
  <2>2. /\ Grows /\ \A t \in Servers : Keeps(t)
        /\ engine' \in [Docs -> Seq(DocumentType)] /\ \A d \in Docs : mapped'[d] <= Len(engine'[d])
    BY <1>0, <2>1, ChangeGrows
  <2> QED
    BY <2>1, <2>2, EndStep
<1>6. ASSUME Note(s) \/ Read(s) \/ Advance(s)
      PROVE  StateInv' /\ UNCHANGED recorded
  <2>1. UNCHANGED recorded
    BY <1>6 DEF Note, Read, Advance
  <2> QED
    BY <1>6, <2>1, NoteStep, ReadStep, AdvanceStep
<1> QED
  BY <1>1, <1>2, <1>3, <1>4, <1>5, <1>6 DEF Unrecorded

\* A step changes the records in a commit, or not at all.
LEMMA StepKinds ==
  ASSUME [Next]_vars
  PROVE  \/ \E s \in Servers : Unrecorded(s) \/ CommitCreated(s) \/ CommitDone(s)
         \/ UNCHANGED <<engine, recorded, server>>
  BY DEF Next, Unrecorded, vars

\* Every step preserves the invariant.
LEMMA StepPreserves ==
  ASSUME IInv, [Next]_vars
  PROVE  IInv'
<1>1. GateTypeOK'
  BY StepMovesGate, TypePreserved DEF IInv, TypeOK
<1>2. StateInv'
  BY StepKinds, UnrecordedStep, CommitCreatedStep, CommitDoneStep, StillStep
<1> QED
  BY <1>1, <1>2 DEF StateInv, IInv, TypeOK

-----------------------------------------------------------------------------
(* What only moves forward. *)

\* The body of OutcomesMoveForward.
Forward ==
  /\ \A d \in Docs :
       /\ Rank(outcome[d].status) <= Rank(outcome'[d].status)
       /\ outbox'[d] # outbox[d] => /\ outbox'[d].revision = outbox[d].revision + 1
                                    /\ d # Order => outbox'[d].says # outbox[d].says
       /\ mapped[d] # 0 => mapped'[d] = mapped[d]
  /\ consequence.facts \subseteq consequence'.facts

\* An event has its two parts.
LEMMA EventParts ==
  ASSUME NEW revision, NEW says
  PROVE  Event(revision, says).revision = revision /\ Event(revision, says).says = says
  BY DEF Event

\* What the newest event of a record says of its revision.
LEMMA EventRevisions ==
  ASSUME EventsAgreeWithRecords
  PROVE  /\ outbox[Order].revision = consequence.revision
         /\ \A d \in Docs \ {Order} : outbox[d].revision = outcome[d].revision
<1>1. /\ Nothing.revision = 0
      /\ ConsequenceEvent(consequence).revision = consequence.revision
      /\ \A d \in Docs : OutcomeEvent(outcome[d]).revision = outcome[d].revision
  BY EventParts DEF Nothing, ConsequenceEvent, OutcomeEvent
<1> QED
  BY <1>1, DocumentKinds DEF EventsAgreeWithRecords

\* The unchanged outcomes rank as before.
LEMMA SameRank ==
  ASSUME RowsInv, NEW d \in Docs, outcome'[d] = outcome[d]
  PROVE  Rank(outcome[d].status) <= Rank(outcome'[d].status)
<1>1. Rank(outcome[d].status) \in Nat
  BY RankIsNumber DEF RowsInv
<1> QED
  BY <1>1

\* A new mapping, and the order it may open.
LEMMA CreatedForward ==
  ASSUME IInv, NEW s \in Servers, CommitCreated(s)
  PROVE  Forward
<1>0. TypeOK /\ RowsInv /\ EventsAgreeWithRecords
  BY DEF IInv
<1> DEFINE opens == server[s].doc = Order /\ server[s].version = "given"
<1>1. /\ mapped[server[s].doc] = 0 /\ mapped' = [mapped EXCEPT ![server[s].doc] = server[s].made]
      /\ outcome' = outcome
      /\ consequence' = IF opens THEN OpenedOrder ELSE consequence
      /\ \A d \in Docs : outbox'[d] = IF d = Order /\ opens
                                      THEN ConsequenceEvent(OpenedOrder) ELSE outbox[d]
  BY DEF CommitCreated, Unmapped
<1>2. opens => consequence.revision = 0 /\ consequence.facts = {}
  BY <1>0, <1>1 DEF RowsInv
<1>3. opens => outbox'[Order].revision = 1 /\ outbox[Order].revision = 0
  BY <1>0, <1>1, <1>2, EventRevisions, DocumentKinds
  DEF ConsequenceEvent, Event, OpenedOrder, OrderRow
<1>4. \A d \in Docs : mapped[d] # 0 => mapped'[d] = mapped[d]
  BY <1>0, <1>1 DEF TypeOK
<1>5. consequence.facts \subseteq consequence'.facts
  BY <1>1, <1>2
<1>6. \A d \in Docs : Rank(outcome[d].status) <= Rank(outcome'[d].status)
  BY <1>0, <1>1, SameRank
<1>7. \A d \in Docs : outbox'[d] # outbox[d] =>
        outbox'[d].revision = outbox[d].revision + 1 /\ d = Order
  BY <1>1, <1>3
<1> QED
  BY <1>4, <1>5, <1>6, <1>7 DEF Forward

\* A command's outcomes follow the ones in the rows it has locked.
LEMMA DoneForward ==
  ASSUME IInv, NEW s \in Servers, CommitDone(s)
  PROVE  Forward
<1>0. TypeOK /\ Sound(s) /\ RowsInv /\ FactsInv /\ EventsAgreeWithRecords
  BY DEF IInv
<1>1. /\ mapped' = mapped /\ consequence.facts \subseteq consequence'.facts
      /\ consequence' = consequence \/ consequence'.revision = consequence.revision + 1
      /\ \A d \in Docs : outcome'[d] = outcome[d] \/ Follows(d, outcome'[d])
      /\ outbox'[Order] = IF consequence' = consequence THEN outbox[Order]
                          ELSE ConsequenceEvent(consequence')
      /\ \A d \in Docs \ {Order} :
           outbox'[d] = IF outcome'[d] = outcome[d] THEN outbox[d] ELSE OutcomeEvent(outcome'[d])
  BY <1>0, Committed
<1>2. \A d \in Docs : Rank(outcome[d].status) <= Rank(outcome'[d].status)
  <2> SUFFICES ASSUME NEW d \in Docs
               PROVE  Rank(outcome[d].status) <= Rank(outcome'[d].status)
    OBVIOUS
  <2>1. CASE outcome'[d] = outcome[d]
    BY <2>1, <1>0, SameRank
  <2>2. CASE Follows(d, outcome'[d])
    <3>1. Rank(outcome[d].status) \in Nat /\ Rank(outcome'[d].status) \in Nat
      BY <1>0, <2>2, RankIsNumber DEF RowsInv, Follows
    <3>2. Rank(outcome'[d].status) >= Rank(outcome[d].status)
      BY <2>2 DEF Follows, Advances
    <3> QED
      BY <3>1, <3>2
  <2> QED
    BY <1>1, <2>1, <2>2
<1>3. outbox'[Order] # outbox[Order] => outbox'[Order].revision = outbox[Order].revision + 1
  <2>1. outbox[Order].revision = consequence.revision
    BY <1>0, EventRevisions
  <2> QED
    BY <1>1, <2>1 DEF ConsequenceEvent, Event
<1>4. ASSUME NEW d \in Docs \ {Order}, outbox'[d] # outbox[d]
      PROVE  /\ outbox'[d].revision = outbox[d].revision + 1
             /\ outbox'[d].says # outbox[d].says
  <2>1. outbox'[d] = OutcomeEvent(outcome'[d]) /\ Follows(d, outcome'[d])
    BY <1>1, <1>4
  <2>2. /\ outbox'[d].revision = outcome'[d].revision
        /\ outbox'[d].says = <<outcome'[d].status, outcome'[d].invoice>>
    BY <2>1 DEF OutcomeEvent, Event
  <2>3. /\ outcome'[d].revision = outcome[d].revision + 1
        /\ outcome'[d].status # outcome[d].status \/ outcome'[d].invoice # outcome[d].invoice
    BY <2>1 DEF Follows, Advances
  <2>4. outbox[d].revision = outcome[d].revision
    BY <1>0, EventRevisions
  <2>5. outbox[d].says = <<>> \/ outbox[d].says = <<outcome[d].status, outcome[d].invoice>>
    <3>1. outbox[d] = Nothing \/ outbox[d] = OutcomeEvent(outcome[d])
      BY <1>0 DEF EventsAgreeWithRecords
    <3>2. Nothing.says = <<>>
      BY EventParts DEF Nothing
    <3>3. OutcomeEvent(outcome[d]).says = <<outcome[d].status, outcome[d].invoice>>
      BY EventParts DEF OutcomeEvent
    <3> QED
      BY <3>1, <3>2, <3>3
  <2>6. \A a, b, x, y : <<a, b>> # <<>> /\ (a # x \/ b # y => <<a, b>> # <<x, y>>)
    OBVIOUS
  <2>7. <<outcome'[d].status, outcome'[d].invoice>> # <<>>
    BY <2>6
  <2>8. <<outcome'[d].status, outcome'[d].invoice>> # <<outcome[d].status, outcome[d].invoice>>
    BY <2>3, <2>6
  <2>9. outbox'[d].says # outbox[d].says
    BY <2>2, <2>5, <2>7, <2>8
  <2> QED
    BY <2>2, <2>3, <2>4, <2>9
<1> QED
  BY <1>1, <1>2, <1>3, <1>4 DEF Forward

\* Every step moves forward, or changes nothing that is recorded.
LEMMA StepForward ==
  ASSUME IInv, [Next]_vars
  PROVE  Forward
<1>1. ASSUME UNCHANGED recorded
      PROVE  Forward
  BY <1>1, SameRank DEF IInv, Forward, recorded
<1>2. \/ \E s \in Servers : CommitCreated(s) \/ CommitDone(s)
      \/ UNCHANGED recorded
  BY StepKinds, UnrecordedStep
<1> QED
  BY <1>1, <1>2, CreatedForward, DoneForward

-----------------------------------------------------------------------------
(* The theorems about the records. *)

\* The invariant holds throughout (service.py, consequence_store, outcome_store).
THEOREM Invariance == Spec => []IInv
<1>0. Init => IInv
  BY Initially
<1>1. IInv /\ [Next]_vars => IInv'
  BY StepPreserves
<1> QED
  BY <1>0, <1>1, PTL DEF Spec

\* The tables are typed, no mapping dangles and no row is locked twice
\* (service._create_and_map, the FOR UPDATE of record_fact and advance).
THEOREM TypeCorrect == Spec => []TypeOK
<1>1. IInv => TypeOK
  BY DEF IInv
<1> QED
  BY <1>1, Invariance, PTL

\* The newest event of every record says what the record says, for any number of
\* servers and documents and any order of their commits (consequence_events,
\* outcome_store.advance).
THEOREM Agreement == Spec => []EventsAgreeWithRecords
<1>1. IInv => EventsAgreeWithRecords
  BY DEF IInv
<1> QED
  BY <1>1, Invariance, PTL

\* No fact is on record of a document whose completion the engine has not run, and no
\* outcome of one that it does not report completed, although a completion may be
\* answered and leave a draft (service.complete_*, _announce_*).
THEOREM Observation == Spec => []OnlyObservedFacts
<1>1. IInv => OnlyObservedFacts
  BY DEF IInv, FactsInv, OnlyObservedFacts, FactsWereRun, OutcomesWereRead, Observed, Ran, Done, Settled
<1> QED
  BY <1>1, Invariance, PTL

\* A record that lost its mapping is never worked on, for any number of servers
\* that create the document and any number of lost commits (service._create_and_map).
THEOREM Orphans == Spec => []OrphansStayDrafts
<1>1. IInv => OrphansStayDrafts
  BY DEF IInv
<1> QED
  BY <1>1, Invariance, PTL

\* Outcomes and the order's facts only move forward, and are announced one revision
\* after the other (accounting_outcomes.RANK, outcome_store.advance, record_fact).
THEOREM Progression == Spec => OutcomesMoveForward
<1>1. IInv /\ [Next]_vars => [Forward]_vars
  BY StepForward
<1>2. IInv /\ [Next]_vars =>
        [/\ \A d \in Docs :
              /\ Rank(outcome[d].status) <= Rank(outcome'[d].status)
              /\ outbox'[d] # outbox[d] => /\ outbox'[d].revision = outbox[d].revision + 1
                                           /\ d # Order => outbox'[d].says # outbox[d].says
              /\ mapped[d] # 0 => mapped'[d] = mapped[d]
         /\ consequence.facts \subseteq consequence'.facts]_vars
  BY <1>1 DEF Forward
<1> QED
  BY <1>2, Invariance, PTL DEF Spec, OutcomesMoveForward
=============================================================================
