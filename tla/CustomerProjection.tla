------------------------- MODULE CustomerProjection -------------------------
(***************************************************************************)
(* The execution of trade.customer.projected inbox rows: under the lock of *)
(* the customer a worker compares versions, updates, adopts or creates the *)
(* business partner in the engine, and records the master-data mapping,    *)
(* the announcement of the partner and the inbox outcome in one fenced     *)
(* transaction (modules/customers/projection_execution.py).  A key is a    *)
(* (tenant, legal entity, customer) triple, its reference the marker in    *)
(* the partner's Description.                                              *)
(*                                                                         *)
(* The content of a customer is its display name and status; its type,     *)
(* which only enters the digest, is left out.  As in OrderExecution, an    *)
(* engine request does not outlive its worker, nor a worker its session.   *)
(***************************************************************************)
EXTENDS InboxExecution

CONSTANTS
  ContentOf,  \* ContentOf[e]: what the event asks the partner to be
  NoContent   \* nothing announced yet

ASSUME ContentAssumption == \A e \in Events : ContentOf[e] # NoContent

VARIABLES
  bears,    \* bears[n]: the event whose fields the partner n bears
  mapping,  \* baobab.erp_master_data_mapping: native id, version, digest
  partner   \* baobab.document_outcome: the partner's revision and content

recordVars == <<mapping, partner>>
vars == <<executionVars, bears, recordVars>>

Unmapped == [native |-> NoNative, version |-> 0, content |-> NoContent]
Unannounced == [revision |-> 0, content |-> NoContent]

MappedAt(w) == mapping[KeyAt(w)].native # NoNative

-----------------------------------------------------------------------------
(* Actions of a worker. *)

\* Variant: the same version is taken for a redelivery without a look at what
\* it carries.
KnownOutcomeBlind(e, known) ==
  IF VersionOf[e] < known.version
  THEN Outcome("processed", "STALE_VERSION")
  ELSE Outcome("processed", "ALREADY_PROJECTED")

\* What an event of a version that is already mapped, or of an older one, means.
KnownOutcome(e, known) ==
  IF VersionOf[e] < known.version THEN Outcome("processed", "STALE_VERSION")
  ELSE IF ContentOf[e] = known.content THEN Outcome("processed", "ALREADY_PROJECTED")
  ELSE Outcome("dead_letter", "VERSION_CONFLICT")

\* Variant: only the very same version counts as seen.
SeenExactly(w) ==
  MappedAt(w) /\ VersionOf[claim[w].event] = mapping[KeyAt(w)].version

\* The mapping is at this version or beyond it.
Seen(w) ==
  MappedAt(w) /\ VersionOf[claim[w].event] <= mapping[KeyAt(w)].version

RecogniseKnown(w) ==
  /\ pc[w] = "check"
  /\ Seen(w)
  /\ End(w, KnownOutcome(claim[w].event, mapping[KeyAt(w)]))
  /\ UNCHANGED <<queueVars, found, lock, native, bears, recordVars>>

\* The engine credentials are missing or for another organisation.
BlockUnconfigured(w) ==
  /\ pc[w] = "check"
  /\ ~Seen(w)
  /\ End(w, Blocked)
  /\ UNCHANGED <<queueVars, found, lock, native, bears, recordVars>>

\* A mapped partner is updated in place.
ResolveMapped(w) ==
  /\ pc[w] = "check"
  /\ MappedAt(w) /\ ~Seen(w)
  /\ found' = [found EXCEPT ![w] = [native |-> mapping[KeyAt(w)].native, code |-> "UPDATED"]]
  /\ Goto(w, "update")
  /\ UNCHANGED <<queueVars, outcome, lock, native, bears, recordVars>>

\* A partner that is not mapped is looked for by its marker.
ResolveUnmapped(w) ==
  /\ pc[w] = "check"
  /\ ~MappedAt(w)
  /\ Goto(w, "find")
  /\ UNCHANGED <<queueVars, outcome, found, lock, native, bears, recordVars>>

\* One partner carries the marker: an earlier attempt created it.
Adopt(w) ==
  /\ pc[w] = "find"
  /\ \E n \in native[KeyAt(w)] :
       /\ native[KeyAt(w)] = {n}
       /\ found' = [found EXCEPT ![w] = [native |-> n, code |-> "ADOPTED_NATIVE_PARTNER"]]
  /\ Goto(w, "update")
  /\ UNCHANGED <<queueVars, outcome, lock, native, bears, recordVars>>

\* The mapped partner is gone (404) or the engine did not take the update.
UpdateFails(w) ==
  /\ pc[w] = "update"
  /\ \E out \in {Refused, Transient} : End(w, out)
  /\ UNCHANGED <<queueVars, found, lock, native, bears, recordVars>>

\* The engine writes the customer's fields to the partner.
EngineWrites(w, n) == bears' = [bears EXCEPT ![n] = claim[w].event]

\* Variant: an adopted partner is mapped as it is.
UpdateUnlessAdopted(w) ==
  /\ pc[w] = "update"
  /\ IF found[w].code = "UPDATED" THEN EngineWrites(w, found[w].native) ELSE UNCHANGED bears
  /\ Goto(w, "commit")
  /\ UNCHANGED <<queueVars, outcome, found, lock, native, recordVars>>

Update(w) ==
  /\ pc[w] = "update"
  /\ EngineWrites(w, found[w].native)
  /\ Goto(w, "commit")
  /\ UNCHANGED <<queueVars, outcome, found, lock, native, recordVars>>

\* The engine wrote the partner but the worker does not learn of it.
UpdateUnanswered(w) ==
  /\ pc[w] = "update"
  /\ EngineWrites(w, found[w].native)
  /\ End(w, Transient)
  /\ UNCHANGED <<queueVars, found, lock, native, recordVars>>

Create(w) ==
  /\ pc[w] = "create"
  /\ \E n \in NativeIds :
       /\ EngineCommits(KeyAt(w), n)
       /\ EngineWrites(w, n)
       /\ found' = [found EXCEPT ![w] = [native |-> n, code |-> "CREATED"]]
  /\ Goto(w, "commit")
  /\ UNCHANGED <<queueVars, outcome, lock, recordVars>>

\* The engine committed the partner but the worker does not learn of it.
CreateUnanswered(w) ==
  /\ pc[w] = "create"
  /\ \E n \in NativeIds : EngineCommits(KeyAt(w), n) /\ EngineWrites(w, n)
  /\ End(w, Transient)
  /\ UNCHANGED <<queueVars, found, lock, recordVars>>

\* Variant: every version is announced.
AdvancedAlways(known, content) == [revision |-> known.revision + 1, content |-> content]

\* PostgresDocumentOutcomeStore.advance: a revision per change.  Statuses of a
\* partner have no rank, so none of them is held back.
Advanced(known, content) ==
  IF known.content = content THEN known
  ELSE [revision |-> known.revision + 1, content |-> content]

\* The mapping, the announcement and the inbox outcome, in one transaction.  The
\* mapping is an upsert: it does not look at what it replaces.
CommitRecords(w) ==
  LET e == claim[w].event
  IN  /\ pc[w] = "commit"
      /\ Holds(w)
      /\ mapping' = [mapping EXCEPT ![KeyAt(w)] =
                       [native |-> found[w].native, version |-> VersionOf[e],
                        content |-> ContentOf[e]]]
      /\ partner' = [partner EXCEPT ![KeyAt(w)] = Advanced(@, ContentOf[e])]
      /\ row' = [row EXCEPT ![e] = SettledRow(e, Outcome("processed", found[w].code))]
      /\ End(w, Closed(found[w].code))
      /\ UNCHANGED <<aged, claim, found, lock, native, bears>>

\* The lease fence refuses it and everything is rolled back.
CommitRefused(w) ==
  /\ pc[w] = "commit"
  /\ ~Holds(w)
  /\ End(w, Closed("LEASE_LOST"))
  /\ UNCHANGED <<queueVars, found, lock, native, bears, recordVars>>

-----------------------------------------------------------------------------
Init ==
  /\ ExecutionInit
  /\ bears = [n \in NativeIds |-> NoEvent]
  /\ mapping = [k \in Keys |-> Unmapped]
  /\ partner = [k \in Keys |-> Unannounced]

\* Steps in which the worker waits for the engine.
EngineStep(w) ==
  \/ CommonEngineStep(w) /\ UNCHANGED <<bears, recordVars>>
  \/ Adopt(w) \/ UpdateFails(w) \/ Update(w) \/ UpdateUnanswered(w)
  \/ Create(w) \/ CreateUnanswered(w)

\* Steps in which the worker uses its database session.
SessionStep(w) ==
  \/ CommonSessionStep(w) /\ UNCHANGED <<bears, recordVars>>
  \/ RecogniseKnown(w) \/ BlockUnconfigured(w) \/ ResolveMapped(w) \/ ResolveUnmapped(w)
  \/ CommitRecords(w) \/ CommitRefused(w)

Next ==
  \/ /\ \/ \E e \in Events : Ingress(e) \/ Operator(e) \/ Clock(e)
        \/ \E w \in Workers, e \in Events : BeginDue(w, e) \/ BeginExpired(w, e)
        \/ \E w \in Workers : Crash(w)
     /\ UNCHANGED <<bears, recordVars>>
  \/ \E w \in Workers : EngineStep(w) \/ SessionStep(w)

Spec == Init /\ [][Next]_vars

-----------------------------------------------------------------------------
(* Properties; OneNativeRecord is stated in InboxExecution.                    *)

SettlingCodes == {"CREATED", "ADOPTED_NATIVE_PARTNER", "UPDATED"}
Codes == CommonCodes \cup SettlingCodes \cup
           {"STALE_VERSION", "ALREADY_PROJECTED", "VERSION_CONFLICT"}
Contents == {ContentOf[e] : e \in Events} \cup {NoContent}

\* Every variable keeps its type.
TypeOK ==
  /\ ExecutionTypeOK(Codes, SettlingCodes \cup {""})
  /\ bears \in [NativeIds -> Events \cup {NoEvent}]
  /\ mapping \in [Keys -> [native : NativeIds \cup {NoNative}, version : Nat,
                           content : Contents]]
  /\ partner \in [Keys -> [revision : Nat, content : Contents]]

\* The mapping never claims what the engine lacks: the partner it names is the
\* customer's, and bears the mapped version or a later one (an attempt under
\* way or an uncertain one may be ahead); if it bears the mapped version then
\* with the mapped content.
MappingCarriedByEngine ==
  \A k \in Keys :
    LET m == mapping[k]
    IN  m.native # NoNative =>
          /\ m.native \in native[k]
          /\ KeyOf[bears[m.native]] = k
          /\ VersionOf[bears[m.native]] >= m.version
          /\ VersionOf[bears[m.native]] = m.version => ContentOf[bears[m.native]] = m.content

\* An event is only ever marked processed when its customer is mapped in the
\* event's version or a later one, and in its very content if in its version.
ProcessedMeansProjected ==
  \A e \in Events :
    row[e].status = "processed" =>
      LET m == mapping[KeyOf[e]]
      IN  /\ m.version >= VersionOf[e]
          /\ m.version = VersionOf[e] => m.content = ContentOf[e]

\* The detailed projection implements a register that only moves forward, with a
\* revision that counts the changes announced.
Register == INSTANCE PartnerRegister WITH
  version <- [k \in Keys |-> mapping[k].version],
  content <- [k \in Keys |-> partner[k].content],
  revision <- [k \in Keys |-> partner[k].revision]
ImplementsRegister == Register!Spec

\* "Versions only move forward": the partner in the engine is never brought back
\* from a version to an earlier one.
EngineMovesForward ==
  [][\A n \in NativeIds :
       bears[n] # NoEvent => VersionOf[bears'[n]] >= VersionOf[bears[n]]]_vars
=============================================================================
