---------------------------- MODULE OrderToCash ----------------------------
(***************************************************************************)
(* The sell-side commands of order_to_cash/service.py: documents of one    *)
(* Trade order are created, completed and allocated in the engine, and ERP *)
(* records the mapping, the order's consequence, the accounting outcomes   *)
(* of invoices and payments and the events that announce them.             *)
(*                                                                         *)
(* A command runs in one READ COMMITTED transaction (application/server.py)*)
(* around one change of the engine, which no rollback takes back.  What it *)
(* writes appears with the commit; the rows it reads FOR UPDATE stay       *)
(* locked until then.  The engine's facts are read before the outcome row  *)
(* is locked.  GovernanceGate stands before the engine.                    *)
(*                                                                         *)
(* Engine users, reversals, and the legacy envelope events (one per call,  *)
(* with a fresh identity) are left out.                                    *)
(***************************************************************************)
EXTENDS GovernanceGate, Sequences, FiniteSets

CONSTANTS
  Order,        \* the Trade order
  Shipments, Invoices, Payments,   \* canonical documents; ERP mints Invoices
  NoDoc,
  RecordBound   \* bound: engine records made for one document

Docs == {Order} \cup Shipments \cup Invoices \cup Payments

ASSUME DocumentAssumption ==
  /\ Order \notin Shipments \cup Invoices \cup Payments
  /\ Shipments \cap Invoices = {} /\ Shipments \cap Payments = {} /\ Invoices \cap Payments = {}
  /\ NoDoc \notin Docs /\ RecordBound \in Nat

VARIABLES
  engine,        \* the engine's records made for a document, oldest first
  mapped,        \* entity_mapping: which of them the document is, 0 for none
  consequence,   \* order_consequence, revision 0 for none
  linked,        \* order_consequence_document
  outcome,       \* document_outcome, revision 0 for none
  outbox,        \* per record: the registered event announced last
  server         \* the command a server runs and what its transaction holds

recorded == <<mapped, consequence, linked, outcome, outbox>>
vars == <<gateVars, engine, recorded, server>>

\* The rows, the engine's documents and the events.  A document is done if the
\* engine reports it completed, and tried if its completion ran and left it a draft.
OrderRow(revision, facts, invoice) ==
  [revision |-> revision, facts |-> facts, invoice |-> invoice]
OutcomeRow(revision, status, invoice) ==
  [revision |-> revision, status |-> status, invoice |-> invoice]
Document(done, settled) == [done |-> done, settled |-> settled]
Event(revision, says) == [revision |-> revision, says |-> says]

NoOrder == OrderRow(0, {}, NoDoc)
NoOutcome == OutcomeRow(0, "none", NoDoc)
Draft == Document("no", "no")
Nothing == Event(0, <<>>)

\* A command: what is done, to which document, with which invoice, and whether
\* the request for an order gives its version.
Command(op, d, i, version) == [op |-> op, doc |-> d, invoice |-> i, version |-> version]

\* What a server holds: where it is in its command, the engine's record made for it,
\* the rows it has locked, the status it has read, and the rows it will commit.
Run(place, c, made, holds, seen, order, outcomes) ==
  [at |-> place, op |-> c.op, doc |-> c.doc, invoice |-> c.invoice, version |-> c.version,
   made |-> made, holds |-> holds, seen |-> seen, order |-> order, outcomes |-> outcomes]

\* The outcome of a document that the command has not come to.
NotRead == OutcomeRow(0, "unread", NoDoc)

Idle == Run("idle", Command("none", NoDoc, NoDoc, "none"), 0, {}, "none", NoOrder,
            [d \in Docs |-> NotRead])

\* consequence.derive: what the facts establish.
Derive(facts) ==
  [status |-> IF {"shipped", "invoiced"} \subseteq facts THEN "posted"
              ELSE IF facts # {} THEN "processing" ELSE "accepted",
   accounting |-> IF "invoiced" \in facts THEN "posted" ELSE "pending",
   inventory |-> IF "shipped" \in facts THEN "fulfilled" ELSE "pending"]

\* The fact that the completion of a document is; a payment's is none.
FactOf(d) ==
  IF d = Order THEN "completed" ELSE IF d \in Shipments THEN "shipped" ELSE "invoiced"

\* accounting_outcomes.RANK.
Rank(status) ==
  IF status \in {"allocated", "paid"} THEN 3
  ELSE IF status \in {"partially_allocated", "partially_paid"} THEN 2
  ELSE IF status = "posted" THEN 1 ELSE 0

Native(d) == engine[d][mapped[d]]

-----------------------------------------------------------------------------
(* The command and the engine. *)

At(s, place) == server[s].at = place

Carry(s, place, holds, seen, order, outcomes) ==
  server' = [server EXCEPT ![s] =
               Run(place, server[s], server[s].made, holds, seen, order, outcomes)]

Goto(s, place) ==
  Carry(s, place, server[s].holds, server[s].seen, server[s].order, server[s].outcomes)

\* The transaction is rolled back, or the answer given: nothing is held.
End(s) == server' = [server EXCEPT ![s] = Idle] /\ Shut(s)

Commands ==
  {Command("create", Order, NoDoc, version) : version \in {"none", "given"}}
    \cup {Command("create", d, NoDoc, "none") : d \in Docs \ {Order}}
    \cup {Command("complete", d, NoDoc, "none") : d \in Docs}
    \cup {Command("allocate", p, i, "none") : p \in Payments, i \in Invoices}

\* The name of an invoice is made up by create_customer_invoice: nothing was ever
\* made under it.
Minted(c) == c.op = "create" /\ c.doc \in Invoices => engine[c.doc] = <<>>

\* _resolve_native: the documents a command builds on are mapped.
Resolves(c) ==
  /\ Minted(c)
  /\ c.op = "create" /\ c.doc \in Shipments \cup Invoices => mapped[Order] # 0
  /\ c.op # "create" => mapped[c.doc] # 0
  /\ c.op = "allocate" => mapped[c.invoice] # 0

Settle(record, settled) == IF settled THEN Document(record.done, "yes") ELSE record

\* The engine's records of a document, its own replaced.
Put(d, record) == [engine[d] EXCEPT ![mapped[d]] = record]

\* What the completion process may leave: the answer does not say whether the
\* document is completed, and nobody looks at the answer.
Completions(record) ==
  IF record.done = "yes" THEN {record}
  ELSE {Document(done, record.settled) : done \in {"tried", "yes"}}

\* create_record, or the process that completes or allocates; an allocation may
\* settle the payment, the invoice, both or none.
Change(c) ==
  LET d == c.doc
      i == c.invoice
  IN  \/ /\ c.op = "create" /\ Len(engine[d]) < RecordBound
         /\ engine' = [engine EXCEPT ![d] = Append(engine[d], Draft)]
      \/ /\ c.op = "complete"
         /\ \E record \in Completions(Native(d)) :
              engine' = [engine EXCEPT ![d] = Put(d, record)]
      \/ /\ c.op = "allocate"
         /\ \E whole \in SUBSET {d, i} :
              engine' = [engine EXCEPT ![d] = Put(d, Settle(Native(d), d \in whole)),
                                       ![i] = Put(i, Settle(Native(i), i \in whole))]

\* A command arrives and is checked.  Which one it is only matters to the answers
\* of Control Plane, so it is named when it is executed.
Begin(s) ==
  /\ At(s, "idle")
  /\ Goto(s, "checked")
  /\ Open(s)
  /\ UNCHANGED <<engine, recorded>>

Check(s) == GateStep(s) /\ UNCHANGED <<engine, recorded, server>>

\* The gate denies.
Fail(s) ==
  /\ At(s, "checked")
  /\ Denied(s)
  /\ End(s)
  /\ UNCHANGED <<engine, recorded>>

\* A mapping is missing, the client gets no token, or the engine rejects the
\* request or is not reached: nothing was changed there.
CallFails(s) ==
  /\ At(s, "checked") /\ gate[s].at = "permit"
  /\ End(s)
  /\ UNCHANGED <<engine, recorded>>

\* The server remembers the record the engine has just made for it.
Take(s, c, place) ==
  server' = [server EXCEPT ![s] =
    Run(place, c, IF c.op = "create" THEN Len(engine'[c.doc]) ELSE 0, Idle.holds, Idle.seen,
        Idle.order, Idle.outcomes)]

\* The engine did it and says so.
Call(s, c) ==
  /\ At(s, "checked") /\ Resolves(c)
  /\ Spend(s, "spent")
  /\ Change(c)
  /\ Take(s, c, IF c.op = "create" THEN "commit"
                ELSE IF c.doc \in Payments THEN "read" ELSE "note")
  /\ UNCHANGED recorded

\* The engine did it and the answer is lost, or the server dies before the commit.
CallLost(s, c) ==
  /\ At(s, "checked") /\ Resolves(c) /\ gate[s].at = "permit"
  /\ Change(c)
  /\ End(s)
  /\ UNCHANGED recorded

\* A request that changed the engine is answered 401, by it or on the way back.
CallUnauthorised(s, c) ==
  /\ At(s, "checked") /\ Resolves(c)
  /\ Spend(s, "unauthorised")
  /\ Change(c)
  /\ Take(s, c, "checked")
  /\ UNCHANGED recorded

\* Variant: the client logs in again and sends the request once more.
Resend(s) ==
  LET c == server[s]
  IN  /\ gate[s].at = "unauthorised"
      /\ SpendMany(s, "spent")
      /\ Change(c)
      /\ Take(s, c, IF c.op = "create" THEN "commit"
                    ELSE IF c.doc \in Payments THEN "read" ELSE "note")
      /\ UNCHANGED recorded

\* The client logs in again, and the guard refuses the request it sends again.
RetryDenied(s) ==
  /\ gate[s].at = "unauthorised"
  /\ End(s)
  /\ UNCHANGED <<engine, recorded>>

-----------------------------------------------------------------------------
(* What ERP records of it. *)

\* Variant: a plain SELECT.
ReadOnly(s, row) == row \in Docs

\* FOR UPDATE: the row is locked until the transaction ends.
Lock(s, row) == \A t \in Servers \ {s} : row \notin server[t].holds

\* record_fact: the order's row after the fact; a repeated one changes nothing.
Noted(d) ==
  LET fact == FactOf(d)
  IN  IF fact \in consequence.facts THEN consequence
      ELSE OrderRow(consequence.revision + 1, consequence.facts \cup {fact},
                    IF fact = "invoiced" THEN d ELSE consequence.invoice)

\* order_of_document: there is a row for the order and the document is linked to it.
Concerns(d) == consequence.revision # 0 /\ (d = Order \/ d \in linked)

\* If there is a row that the document concerns.
Note(s) ==
  LET d == server[s].doc
      after == IF d \in Invoices THEN "read" ELSE "commit"
  IN  /\ At(s, "note")
      /\ IF Concerns(d)
         THEN /\ Lock(s, Order)
              /\ Carry(s, after, server[s].holds \cup {Order}, server[s].seen, Noted(d),
                       server[s].outcomes)
         ELSE Goto(s, after)
      /\ UNCHANGED <<gateVars, engine, recorded>>

\* The document whose outcome comes next: an allocation's payment, then its invoice.
Current(s) ==
  IF server[s].outcomes[server[s].doc] # NotRead THEN server[s].invoice ELSE server[s].doc

\* Variant: a document that is not completed counts as posted.
StatusUnchecked(s, d) ==
  IF Native(d).settled = "yes" THEN IF d \in Payments THEN "allocated" ELSE "paid"
  ELSE IF server[s].op # "allocate" THEN "posted"
  ELSE IF d \in Payments THEN "partially_allocated" ELSE "partially_paid"

\* invoice_status and payment_status of the facts the engine reports.
StatusOf(s, d) ==
  IF Native(d).done # "yes" THEN "none"
  ELSE IF Native(d).settled = "yes" THEN IF d \in Payments THEN "allocated" ELSE "paid"
  ELSE IF server[s].op # "allocate" THEN "posted"
  ELSE IF d \in Payments THEN "partially_allocated" ELSE "partially_paid"

\* _announce_payment and _announce_invoice read the engine; an invoice that is
\* linked to no order, and a document that is not completed, is passed over.
Read(s) ==
  LET d == Current(s)
      status == IF d \in Invoices \ linked THEN "none" ELSE StatusOf(s, d)
  IN  /\ At(s, "read")
      /\ Carry(s, "advance", server[s].holds, status, server[s].order, server[s].outcomes)
      /\ UNCHANGED <<gateVars, engine, recorded>>

\* Variant: whatever was read is stored.
AdvancesAlways(old, new) ==
  new.status # "none" /\ <<new.status, new.invoice>> # <<old.status, old.invoice>>

\* Statuses only move forward; the same status and detail changes nothing.
Advances(old, new) ==
  /\ new.status # "none"
  /\ Rank(new.status) >= Rank(old.status)
  /\ new.status # old.status \/ new.invoice # old.invoice

\* advance locks the outcome's row, or inserts it, and decides.  The detail of a
\* payment's outcome is the invoice, if the command has one.
Advance(s) ==
  LET d == Current(s)
      old == outcome[d]
      new == OutcomeRow(old.revision + 1, server[s].seen,
                        IF d \in Payments THEN server[s].invoice ELSE NoDoc)
      row == IF Advances(old, new) THEN new ELSE old
      more == server[s].op = "allocate" /\ d = server[s].doc
  IN  /\ At(s, "advance")
      /\ server[s].seen # "none" => Lock(s, d)
      /\ Carry(s, IF more THEN "read" ELSE "commit",
               IF server[s].seen = "none" THEN server[s].holds ELSE server[s].holds \cup {d},
               "none", server[s].order, [server[s].outcomes EXCEPT ![d] = row])
      /\ UNCHANGED <<gateVars, engine, recorded>>

OutcomeEvent(o) == Event(o.revision, <<o.status, o.invoice>>)
ConsequenceEvent(c) == Event(c.revision, <<Derive(c.facts), c.invoice>>)

\* open_order: the order's row, with no facts yet.
OpenedOrder == OrderRow(1, {}, NoDoc)

\* link_document: nothing is linked to an order without a row.
LinkedWith(d) ==
  IF d \in Shipments \cup Invoices /\ consequence.revision # 0 THEN linked \cup {d} ELSE linked

\* Variant: the mapping is an upsert.
Upserted(d) == d \in Docs

\* The unique key of the mapping admits the insert.
Unmapped(d) == mapped[d] = 0

\* create_mapping, open_order, link_document and the commit.
CommitCreated(s) ==
  LET d == server[s].doc
      opens == d = Order /\ server[s].version = "given"
  IN  /\ At(s, "commit") /\ server[s].op = "create" /\ Unmapped(d)
      /\ mapped' = [mapped EXCEPT ![d] = server[s].made]
      /\ consequence' = IF opens THEN OpenedOrder ELSE consequence
      /\ linked' = LinkedWith(d)
      /\ outbox' = [x \in Docs |-> IF x = Order /\ opens
                                    THEN ConsequenceEvent(OpenedOrder) ELSE outbox[x]]
      /\ End(s)
      /\ UNCHANGED <<engine, outcome>>

\* The mapping exists already: a unique violation, and the record is an orphan.
MappingConflict(s) ==
  /\ At(s, "commit") /\ server[s].op = "create" /\ ~Unmapped(server[s].doc)
  /\ End(s)
  /\ UNCHANGED <<engine, recorded>>

\* The outcomes that advanced; a document passed over has no locked row.
Changed(s) ==
  {d \in server[s].holds : server[s].outcomes[d] \notin {NotRead, outcome[d]}}

\* Variant: an event for every outcome looked at, of what was read.
CommitTalkative(s) ==
  LET c == server[s]
      noted == IF Order \in c.holds THEN c.order ELSE consequence
  IN  /\ At(s, "commit") /\ c.op # "create"
      /\ consequence' = noted
      /\ outcome' = [d \in Docs |-> IF d \in Changed(s) THEN c.outcomes[d] ELSE outcome[d]]
      /\ outbox' = [d \in Docs |->
                      IF d = Order /\ noted # consequence THEN ConsequenceEvent(noted)
                      ELSE IF d \in c.holds /\ c.outcomes[d] # NotRead
                           THEN Event(c.outcomes[d].revision,
                                      <<StatusOf(s, d), c.outcomes[d].invoice>>)
                      ELSE outbox[d]]
      /\ End(s)
      /\ UNCHANGED <<engine, mapped, linked>>

\* The consequence, the outcomes and their events, all in one commit.
CommitDone(s) ==
  LET c == server[s]
      noted == IF Order \in c.holds THEN c.order ELSE consequence
  IN  /\ At(s, "commit") /\ c.op # "create"
      /\ consequence' = noted
      /\ outcome' = [d \in Docs |-> IF d \in Changed(s) THEN c.outcomes[d] ELSE outcome[d]]
      /\ outbox' = [d \in Docs |->
                      IF d = Order /\ noted # consequence THEN ConsequenceEvent(noted)
                      ELSE IF d \in Changed(s) THEN OutcomeEvent(c.outcomes[d]) ELSE outbox[d]]
      /\ End(s)
      /\ UNCHANGED <<engine, mapped, linked>>

\* The server dies, or the commit fails: nothing of the transaction is left.
Crash(s) ==
  /\ ~At(s, "idle")
  /\ End(s)
  /\ UNCHANGED <<engine, recorded>>

-----------------------------------------------------------------------------
Init ==
  /\ GateInit
  /\ engine = [d \in Docs |-> <<>>]
  /\ mapped = [d \in Docs |-> 0]
  /\ consequence = NoOrder
  /\ linked = {}
  /\ outcome = [d \in Docs |-> NoOutcome]
  /\ outbox = [d \in Docs |-> Nothing]
  /\ server = [s \in Servers |-> Idle]

Next ==
  \/ \E s \in Servers :
       \/ Begin(s) \/ Check(s) \/ Fail(s) \/ CallFails(s) \/ RetryDenied(s)
       \/ \E c \in Commands : Call(s, c) \/ CallLost(s, c) \/ CallUnauthorised(s, c)
       \/ Note(s) \/ Read(s) \/ Advance(s)
       \/ CommitCreated(s) \/ MappingConflict(s) \/ CommitDone(s) \/ Crash(s)
  \/ ControlPlane /\ UNCHANGED <<engine, recorded, server>>

Spec == Init /\ [][Next]_vars

-----------------------------------------------------------------------------
(* Properties. *)

Steps == {"idle", "checked", "note", "read", "advance", "commit"}
Statuses == {"none", "posted", "partially_allocated", "partially_paid", "allocated", "paid"}
FactSet == {"completed", "shipped", "invoiced"}
DocumentType == [done : {"no", "tried", "yes"}, settled : {"no", "yes"}]
OrderType == [revision : Nat, facts : SUBSET FactSet, invoice : Invoices \cup {NoDoc}]
OutcomeType ==
  [revision : Nat, status : Statuses \cup {"unread"}, invoice : Invoices \cup {NoDoc}]
RunType ==
  [at : Steps, op : {"none", "create", "complete", "allocate"}, doc : Docs \cup {NoDoc},
   invoice : Invoices \cup {NoDoc}, version : {"none", "given"}, made : Nat,
   holds : SUBSET Docs, seen : Statuses, order : OrderType, outcomes : [Docs -> OutcomeType]]

\* The tables and the transactions hold what they may hold, and a mapping names a
\* record that the engine has: created first, then mapped (service._create_and_map).
\* A row is locked by one transaction (the FOR UPDATE of record_fact and advance).
TypeOK ==
  /\ GateTypeOK
  /\ engine \in [Docs -> Seq(DocumentType)]
  /\ mapped \in [Docs -> Nat] /\ \A d \in Docs : mapped[d] <= Len(engine[d])
  /\ consequence \in OrderType
  /\ linked \subseteq Shipments \cup Invoices
  /\ outcome \in [Docs -> OutcomeType]
  /\ server \in [Servers -> RunType]
  /\ \A s, t \in Servers : s # t => server[s].holds \cap server[t].holds = {}

\* The newest event of every record says what the record says: "the event and
\* GET can never disagree" (consequence_events.py; outcome_store.advance).
EventsAgreeWithRecords ==
  \A d \in Docs :
    outbox[d] = IF d = Order
                THEN IF consequence.revision = 0 THEN Nothing ELSE ConsequenceEvent(consequence)
                ELSE IF outcome[d].revision = 0 THEN Nothing ELSE OutcomeEvent(outcome[d])

\* A fact is on record only of a document of that order whose completion the
\* engine has run, and an outcome only of a document that the engine reports
\* completed, and paid or allocated if the outcome says so, however calls were lost
\* and transactions rolled back (service.complete_*, _announce_*).  A fact does not
\* say that the document is completed: record_fact is called on any answer.
FactsWereRun ==
  /\ "completed" \in consequence.facts => Native(Order).done # "no"
  /\ "shipped" \in consequence.facts => \E d \in linked \cap Shipments : Native(d).done # "no"
  /\ "invoiced" \in consequence.facts =>
       consequence.invoice \in linked /\ Native(consequence.invoice).done # "no"

OutcomesWereRead ==
  \A d \in Docs : outcome[d].revision # 0 =>
    /\ Native(d).done = "yes"
    /\ outcome[d].status \in {"allocated", "paid"} => Native(d).settled = "yes"

OnlyObservedFacts == FactsWereRun /\ OutcomesWereRead

\* A record that the engine made and no mapping names, because the commit was lost
\* or another server mapped the document first, stays the draft it was: no command
\* ever completes, pays or allocates it (service._create_and_map, _resolve_native).
OrphansStayDrafts ==
  \A d \in Docs : \A i \in 1..Len(engine[d]) : i # mapped[d] => engine[d][i] = Draft

\* Outcomes and consequences only move forward, although the engine is read
\* before the row is locked: a late writer never takes a paid invoice back to
\* posted.  Revisions are announced without a gap, and an outcome not again unless
\* its status or invoice differs; a document never changes its engine record.
OutcomesMoveForward ==
  [][/\ \A d \in Docs :
          /\ Rank(outcome[d].status) <= Rank(outcome'[d].status)
          /\ outbox'[d] # outbox[d] => /\ outbox'[d].revision = outbox[d].revision + 1
                                       /\ d # Order => outbox'[d].says # outbox[d].says
          /\ mapped[d] # 0 => mapped'[d] = mapped[d]
     /\ consequence.facts \subseteq consequence'.facts]_vars
=============================================================================
