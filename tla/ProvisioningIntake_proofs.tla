---------------------- MODULE ProvisioningIntake_proofs ----------------------
(***************************************************************************)
(* The safety properties of ProvisioningIntake hold for any number of      *)
(* servers, requests, keys and entities.  The inductive invariant says     *)
(* what a transaction relies on from its locked scope to its commit:       *)
(* nobody else holds the scope, the key has no command, and what was read  *)
(* of the baselines is still true, because they only grow.                 *)
(***************************************************************************)
EXTENDS ProvisioningIntake, SequenceTheorems, TLAPS

\* Where a transaction holds its idempotency scope, and where it has resolved its
\* references.
InScope == {"plan", "resolve", "standing", "accept"}
Resolved == {"standing", "accept"}

\* One transaction at a time holds the scope of a key.
LockInv ==
  \A s, t \in Servers :
    /\ server[s].at \in InScope /\ server[t].at \in InScope
    /\ server[s].request.key = server[t].request.key
    => s = t

\* What a transaction has read is still so: the key has no command, what was
\* withdrawn at first is, the references exist, and those found in force were not
\* withdrawn at first and are of no later day.
StillSo(h) ==
  /\ h.at # "idle" => h.request \in Requests
  /\ h.at \in InScope =>
       command[h.request.key].request = NoRequest /\ h.gone \subseteq withdrawn
  /\ h.at \in Resolved =>
       /\ h.exact = h.request.refs
       /\ \A e \in EntitiesOf(h.request) : h.exact[e] \in Versions(e)
       /\ \A e \in h.usable \cap EntitiesOf(h.request) :
            <<e, h.exact[e]>> \notin h.gone /\ baseline[e][h.exact[e]] <= Today
  /\ h.at = "accept" =>
       h.usable = EntitiesOf(h.request) /\ CurrenciesAgree(h.request, h.exact)

ReadInv == \A s \in Servers : StillSo(server[s])

\* Whoever was told "accepted" has the command, and whoever was told that another
\* command owns its entities has met one that keeps them.
AnswerInv ==
  \A r \in Requests :
    /\ <<r, "accepted">> \in answers => command[r.key].request = r
    /\ <<r, "taken">> \in answers => \E x \in RecordsOf(r) : owner[x] \in Keys \ {r.key}

IInv ==
  /\ TypeOK
  /\ LockInv
  /\ ReadInv
  /\ AnswerInv
  /\ WhollyAccepted
  /\ BuiltFromReferences

-----------------------------------------------------------------------------
(* Requests and records. *)

\* A request has a key, a plan, references it may be built from, and records of
\* its own.
LEMMA RequestFacts ==
  ASSUME NEW r \in Requests
  PROVE  /\ r # NoRequest
         /\ r.key \in Keys /\ r.key # NoKey
         /\ EntitiesOf(r) \subseteq Entities
         /\ RecordsOf(r) \subseteq Records
         /\ r.refs \in BuiltFrom
         /\ {} \subseteq Entities /\ <<>> \in BuiltFrom
BY IntakeAssumption DEF EntitiesOf, RecordsOf, Records, BuiltFrom

\* What a server may hold, field by field.
LEMMA HandlingType ==
  ASSUME NEW place \in Places, NEW r \in Requests \cup {NoRequest}, NEW exact \in BuiltFrom,
         NEW usable \in SUBSET Entities, NEW gone \in SUBSET (Entities \X (1..VersionBound))
  PROVE  /\ Handling(place, r, exact, usable, gone) \in ServerType
         /\ Handling(place, r, exact, usable, gone).at = place
         /\ Handling(place, r, exact, usable, gone).request = r
         /\ Handling(place, r, exact, usable, gone).exact = exact
         /\ Handling(place, r, exact, usable, gone).usable = usable
         /\ Handling(place, r, exact, usable, gone).gone = gone
BY DEF Handling, ServerType

\* An idle server holds nothing.
LEMMA IdleFacts ==
  /\ Idle \in ServerType
  /\ Idle.at = "idle"
  /\ StillSo(Idle)
<1>1. <<>> \in BuiltFrom /\ "idle" \in Places
  BY DEF BuiltFrom, Places
<1>2. Idle \in ServerType /\ Idle.at = "idle"
  BY <1>1, HandlingType DEF Idle
<1> QED
  BY <1>2 DEF StillSo, InScope, Resolved

\* What a server that handles a request holds.
LEMMA ServerFacts ==
  ASSUME IInv, NEW s \in Servers
  PROVE  /\ server[s] \in ServerType
         /\ server[s].at \in Places
         /\ server[s].request \in Requests \cup {NoRequest}
         /\ server[s].exact \in BuiltFrom
         /\ server[s].usable \in SUBSET Entities
         /\ server[s].gone \in SUBSET (Entities \X (1..VersionBound))
         /\ server[s].at # "idle" => server[s].request \in Requests
         /\ StillSo(server[s])
BY DEF IInv, TypeOK, ServerType, ReadInv, StillSo

-----------------------------------------------------------------------------
(* The baselines and the plan. *)

\* Finance only ever adds to what it has approved and to what it has withdrawn.
LEMMA AuthoritiesGrow ==
  ASSUME TypeOK,
         \/ \E e \in Entities : \/ \E from \in {Today, Today + 1} : Record(e, from)
                                \/ \E v \in Versions(e) : Withdraw(e, v)
         \/ Replan
  PROVE  /\ UNCHANGED <<command, owner, announced, server, answers>>
         /\ withdrawn \subseteq withdrawn'
         /\ \A e \in Entities : \A v \in Versions(e) :
              v \in DOMAIN baseline'[e] /\ baseline'[e][v] = baseline[e][v]
         /\ approved' \in Plans
         /\ baseline' \in [Entities -> Seq(Nat)]
         /\ \A e \in Entities : Len(baseline'[e]) <= VersionBound
         /\ withdrawn' \subseteq Entities \X (1..VersionBound)
<1> USE DEF TypeOK, Versions
<1>1. ASSUME NEW e \in Entities, NEW from \in {Today, Today + 1}, Record(e, from)
      PROVE  /\ UNCHANGED <<command, owner, announced, server, answers, approved, withdrawn>>
             /\ baseline' \in [Entities -> Seq(Nat)]
             /\ \A f \in Entities :
                  /\ Len(baseline'[f]) <= VersionBound
                  /\ \A v \in DOMAIN baseline[f] :
                       v \in DOMAIN baseline'[f] /\ baseline'[f][v] = baseline[f][v]
  <2> DEFINE b == baseline[e]
  <2>0. b \in Seq(Nat) /\ from \in Nat /\ Len(b) < VersionBound /\ VersionBound \in Nat
    BY <1>1, IntakeAssumption DEF Record
  <2>1. baseline' = [baseline EXCEPT ![e] = Append(b, from)]
    BY <1>1 DEF Record
  <2>2. /\ Append(b, from) \in Seq(Nat)
        /\ Len(Append(b, from)) = Len(b) + 1
        /\ \A i \in 1..Len(b) : Append(b, from)[i] = b[i]
    BY <2>0, AppendProperties
  <2>3. DOMAIN b = 1..Len(b) /\ DOMAIN Append(b, from) = 1..(Len(b) + 1) /\ Len(b) \in Nat
    BY <2>0, <2>2, LenProperties
  <2>4. UNCHANGED <<command, owner, announced, server, answers, approved, withdrawn>>
    BY <1>1 DEF Record, stored
  <2> HIDE DEF b
  <2>5. /\ Len(Append(b, from)) <= VersionBound
        /\ \A v \in DOMAIN b : v \in DOMAIN Append(b, from) /\ Append(b, from)[v] = b[v]
    BY <2>0, <2>2, <2>3
  <2>6. baseline'[e] = Append(b, from) /\ \A f \in Entities \ {e} : baseline'[f] = baseline[f]
    BY <2>1
  <2>7. baseline' \in [Entities -> Seq(Nat)]
    BY <2>1, <2>2
  <2> QED
    BY <2>4, <2>5, <2>6, <2>7 DEF b
<1>2. ASSUME NEW e \in Entities, NEW v \in Versions(e), Withdraw(e, v)
      PROVE  /\ UNCHANGED <<command, owner, announced, server, answers, approved, baseline>>
             /\ withdrawn \subseteq withdrawn'
             /\ withdrawn' \subseteq Entities \X (1..VersionBound)
  <2>1. v \in 1..Len(baseline[e]) /\ Len(baseline[e]) \in Nat
    BY <1>2, LenProperties
  <2>2. v \in 1..VersionBound
    BY <2>1, IntakeAssumption
  <2> QED
    BY <1>2, <2>2 DEF Withdraw, stored
<1>3. ASSUME Replan
      PROVE  /\ UNCHANGED <<command, owner, announced, server, answers, baseline, withdrawn>>
             /\ approved' \in Plans
  BY <1>3 DEF Replan, stored
<1> QED
  BY <1>1, <1>2, <1>3

\* Changes of what Finance and Control Plane hold preserve the invariant.
LEMMA AuthorityStep ==
  ASSUME IInv,
         \/ \E e \in Entities : \/ \E from \in {Today, Today + 1} : Record(e, from)
                                \/ \E v \in Versions(e) : Withdraw(e, v)
         \/ Replan
  PROVE  IInv'
<1> USE DEF IInv
<1>1. /\ UNCHANGED <<command, owner, announced, server, answers>>
      /\ withdrawn \subseteq withdrawn'
      /\ \A e \in Entities : \A v \in Versions(e) :
           v \in DOMAIN baseline'[e] /\ baseline'[e][v] = baseline[e][v]
      /\ approved' \in Plans
      /\ baseline' \in [Entities -> Seq(Nat)]
      /\ \A e \in Entities : Len(baseline'[e]) <= VersionBound
      /\ withdrawn' \subseteq Entities \X (1..VersionBound)
  BY AuthoritiesGrow
<1>2. TypeOK'
  BY <1>1 DEF TypeOK, At
<1>3. LockInv' /\ AnswerInv' /\ WhollyAccepted' /\ BuiltFromReferences'
  BY <1>1 DEF LockInv, AnswerInv, WhollyAccepted, BuiltFromReferences, CurrenciesAgree
<1>4. ASSUME NEW s \in Servers PROVE StillSo(server[s])'
  <2> DEFINE h == server[s]
  <2>1. h' = h /\ StillSo(h)
    BY <1>1 DEF ReadInv
  <2>2. h.at \in Resolved => EntitiesOf(h.request) \subseteq Entities
    BY <2>1, RequestFacts DEF StillSo, Resolved
  <2>3. h.at \in Resolved =>
          /\ \A e \in EntitiesOf(h.request) : h.exact[e] \in Versions(e)'
          /\ \A e \in h.usable \cap EntitiesOf(h.request) :
               baseline'[e][h.exact[e]] = baseline[e][h.exact[e]]
    BY <1>1, <2>1, <2>2 DEF StillSo, Versions
  <2> HIDE DEF h
  <2>4. /\ h'.at # "idle" => h'.request \in Requests
        /\ h'.at \in InScope =>
             command'[h'.request.key].request = NoRequest /\ h'.gone \subseteq withdrawn'
        /\ h'.at \in Resolved =>
             /\ h'.exact = h'.request.refs
             /\ \A e \in EntitiesOf(h'.request) : h'.exact[e] \in Versions(e)'
             /\ \A e \in h'.usable \cap EntitiesOf(h'.request) :
                  <<e, h'.exact[e]>> \notin h'.gone /\ baseline'[e][h'.exact[e]] <= Today
        /\ h'.at = "accept" =>
             h'.usable = EntitiesOf(h'.request) /\ CurrenciesAgree(h'.request, h'.exact)
    BY <1>1, <2>1, <2>3 DEF StillSo, EntitiesOf, CurrenciesAgree
  <2> QED
    BY <2>4 DEF StillSo, h
<1>5. ReadInv'
  BY <1>4 DEF ReadInv
<1> QED
  BY <1>2, <1>3, <1>5

-----------------------------------------------------------------------------
(* The transactions. *)

\* A server that goes on, answers or dies preserves the invariant, if what it holds
\* and says from then on is so.
LEMMA ServerChange ==
  ASSUME IInv, NEW s \in Servers, NEW h \in ServerType,
         server' = [server EXCEPT ![s] = h],
         UNCHANGED <<authorities, stored>>,
         StillSo(h),
         h.at = "idle" => h = Idle,
         h.at \in InScope =>
           \A t \in Servers \ {s} :
             server[t].at \in InScope => server[t].request.key # h.request.key,
         answers' \subseteq Requests \X Told,
         AnswerInv'
  PROVE  IInv'
<1> USE DEF IInv
<1>1. /\ UNCHANGED <<baseline, withdrawn, approved, command, owner, announced>>
      /\ server' \in [Servers -> ServerType]
      /\ server'[s] = h
      /\ \A t \in Servers \ {s} : server'[t] = server[t]
  BY DEF authorities, stored, TypeOK
<1>2. TypeOK'
  BY <1>1 DEF TypeOK, At
<1>3. WhollyAccepted' /\ BuiltFromReferences'
  BY <1>1 DEF WhollyAccepted, BuiltFromReferences, CurrenciesAgree
<1>4. LockInv'
  BY <1>1 DEF LockInv
<1>5. ASSUME NEW t \in Servers PROVE StillSo(server[t])'
  <2>1. PICK g \in ServerType : g = server'[t]
    BY <1>1
  <2>2. StillSo(g)
    BY <1>1, <2>1, ServerFacts
  <2>3. /\ g.at # "idle" => g.request \in Requests
        /\ g.at \in InScope =>
             command'[g.request.key].request = NoRequest /\ g.gone \subseteq withdrawn'
        /\ g.at \in Resolved =>
             /\ g.exact = g.request.refs
             /\ \A e \in EntitiesOf(g.request) : g.exact[e] \in DOMAIN baseline'[e]
             /\ \A e \in g.usable \cap EntitiesOf(g.request) :
                  <<e, g.exact[e]>> \notin g.gone /\ baseline'[e][g.exact[e]] <= Today
        /\ g.at = "accept" =>
             g.usable = EntitiesOf(g.request) /\ CurrenciesAgree(g.request, g.exact)
    BY <1>1, <2>2 DEF StillSo, Versions
  <2> QED
    BY <2>1, <2>3 DEF StillSo, Versions, EntitiesOf, CurrenciesAgree
<1>6. ReadInv'
  BY <1>5 DEF ReadInv
<1> QED
  BY <1>2, <1>3, <1>4, <1>6

\* Whether the answers are true depends on the commands and their records only.
LEMMA AnswersKept ==
  ASSUME IInv, UNCHANGED <<stored, answers>>
  PROVE  answers' \subseteq Requests \X Told /\ AnswerInv'
BY DEF IInv, TypeOK, AnswerInv, stored

\* A server that moves within its transaction, after it has entered the scope.
LEMMA MovesOn ==
  ASSUME IInv, NEW s \in Servers, server[s].at \in InScope, NEW place \in InScope,
         NEW exact \in BuiltFrom, NEW usable \in SUBSET Entities, NEW gone,
         gone = server[s].gone,
         Step(s, place, exact, usable, gone), UNCHANGED <<authorities, stored>>,
         place \in Resolved =>
           /\ exact = server[s].request.refs
           /\ \A e \in EntitiesOf(server[s].request) : exact[e] \in Versions(e)
           /\ \A e \in usable \cap EntitiesOf(server[s].request) :
                <<e, exact[e]>> \notin gone /\ baseline[e][exact[e]] <= Today,
         place = "accept" =>
           usable = EntitiesOf(server[s].request) /\ CurrenciesAgree(server[s].request, exact)
  PROVE  IInv'
<1> DEFINE h == Handling(place, server[s].request, exact, usable, gone)
<1>1. /\ place \in Places /\ place # "idle" /\ server[s].at # "idle"
      /\ server[s].request \in Requests
      /\ gone \in SUBSET (Entities \X (1..VersionBound))
      /\ command[server[s].request.key].request = NoRequest /\ gone \subseteq withdrawn
  BY ServerFacts DEF InScope, Places, StillSo
<1>2. /\ h \in ServerType
      /\ h.at = place /\ h.request = server[s].request /\ h.exact = exact
      /\ h.usable = usable /\ h.gone = gone
  BY <1>1, HandlingType
<1>3. server' = [server EXCEPT ![s] = h] /\ UNCHANGED answers
  BY DEF Step
<1> HIDE DEF h
<1>4. StillSo(h)
  BY <1>1, <1>2 DEF StillSo
<1>5. \A t \in Servers \ {s} :
        server[t].at \in InScope => server[t].request.key # h.request.key
  BY <1>2 DEF IInv, LockInv
<1> QED
  BY <1>1, <1>2, <1>3, <1>4, <1>5, AnswersKept, ServerChange

\* A server that gives its answer, and is idle again.
LEMMA AnswerStep ==
  ASSUME IInv, NEW s \in Servers, server[s].at # "idle", NEW what,
         Answer(s, what), UNCHANGED <<authorities, stored>>,
         what = "accepted" => command[server[s].request.key].request = server[s].request,
         what = "taken" =>
           \E x \in RecordsOf(server[s].request) :
             owner[x] \in Keys \ {server[s].request.key}
  PROVE  IInv'
<1>1. server' = [server EXCEPT ![s] = Idle]
  BY DEF Answer
<1>2. answers' \subseteq Requests \X Told
  BY DEF IInv, TypeOK, Answer
<1>3. AnswerInv'
  <2>1. command' = command /\ owner' = owner
    BY DEF stored
  <2>2. PICK q : q = server[s].request
    OBVIOUS
  <2>3. answers' \subseteq answers \cup {<<q, what>>}
    BY <2>2 DEF Answer
  <2>4. \A r, told : <<r, told>> \in answers' => <<r, told>> \in answers \/ (r = q /\ told = what)
    <3>1. \A r, told : <<r, told>> = <<q, what>> => r = q /\ told = what
      OBVIOUS
    <3> QED
      BY <2>3, <3>1
  <2>5. /\ what = "accepted" => command[q.key].request = q
        /\ what = "taken" => \E x \in RecordsOf(q) : owner[x] \in Keys \ {q.key}
    BY <2>2
  <2>6. ASSUME NEW r \in Requests
        PROVE  /\ <<r, "accepted">> \in answers' => command[r.key].request = r
               /\ <<r, "taken">> \in answers' =>
                    \E x \in RecordsOf(r) : owner[x] \in Keys \ {r.key}
    BY <2>4, <2>5 DEF IInv, AnswerInv
  <2> QED
    BY <2>1, <2>6 DEF AnswerInv, RecordsOf, EntitiesOf
<1> QED
  BY <1>1, <1>2, <1>3, IdleFacts, ServerChange DEF InScope

\* A request that waits for its scope has read nothing yet.
LEMMA ArriveStep ==
  ASSUME IInv, NEW s \in Servers, NEW r \in Requests, Arrive(s, r)
  PROVE  IInv'
<1> DEFINE h == Handling("arrived", r, <<>>, {}, {})
<1>1. "arrived" \in Places /\ <<>> \in BuiltFrom
  BY DEF Places, BuiltFrom
<1>2. h \in ServerType /\ h.at = "arrived" /\ h.request = r
  BY <1>1, HandlingType
<1>3. server' = [server EXCEPT ![s] = h] /\ UNCHANGED <<authorities, stored, answers>>
  BY DEF Arrive
<1> HIDE DEF h
<1>4. StillSo(h)
  BY <1>2 DEF StillSo, InScope, Resolved
<1> QED
  BY <1>2, <1>3, <1>4, AnswersKept, ServerChange DEF InScope

\* Entering the scope: the key has no command, or the caller is told of it.
LEMMA EnterStep ==
  ASSUME IInv, NEW s \in Servers, Enter(s)
  PROVE  IInv'
<1> DEFINE r == server[s].request
           h == Handling("plan", r, <<>>, {}, withdrawn)
<1>1. /\ server[s].at = "arrived" /\ r \in Requests
      /\ UNCHANGED <<authorities, stored>>
      /\ Find(s)
  BY ServerFacts DEF Enter, At
<1>2. \A t \in Servers : server[t].at \in InScope => server[t].request.key # r.key
  BY DEF Enter, Holders, At, InScope
<1>3. CASE command[r.key].request = NoRequest /\ Step(s, "plan", <<>>, {}, withdrawn)
  <2>1. /\ "plan" \in Places /\ <<>> \in BuiltFrom
        /\ withdrawn \in SUBSET (Entities \X (1..VersionBound))
    BY DEF Places, BuiltFrom, IInv, TypeOK
  <2>2. h \in ServerType /\ h.at = "plan" /\ h.request = r /\ h.gone = withdrawn
    BY <1>1, <2>1, HandlingType
  <2>3. server' = [server EXCEPT ![s] = h] /\ UNCHANGED answers
    BY <1>3 DEF Step
  <2>4. command[r.key].request = NoRequest
    BY <1>3
  <2> HIDE DEF h
  <2>5. StillSo(h)
    BY <1>1, <2>2, <2>4 DEF StillSo, InScope, Resolved
  <2> QED
    BY <1>1, <1>2, <2>2, <2>3, <2>5, AnswersKept, ServerChange
<1>4. CASE command[r.key].request = r /\ Answer(s, "accepted")
  BY <1>1, <1>4, AnswerStep
<1>5. CASE Answer(s, "reused")
  BY <1>1, <1>5, AnswerStep
<1> QED
  BY <1>1, <1>3, <1>4, <1>5 DEF Find

\* What is read within the transaction, up to the request that is built from it.
LEMMA ReadStep ==
  ASSUME IInv, NEW s \in Servers,
         \/ ReadPlan(s) \/ PlanUnavailable(s) \/ ResolveBaselines(s)
         \/ \E e \in Entities : CheckStanding(s, e)
         \/ Build(s) \/ Expired(s)
  PROVE  IInv'
<1> DEFINE r == server[s].request
           h == server[s]
<1>0. /\ h.exact \in BuiltFrom /\ h.usable \in SUBSET Entities
      /\ h.gone \subseteq Entities \X (1..VersionBound)
      /\ StillSo(h)
  BY ServerFacts
<1>1. ASSUME NEW what \in {"mismatch", "unavailable", "unusable", "unready"}, Answer(s, what),
             h.at # "idle", UNCHANGED <<authorities, stored>>
      PROVE  IInv'
  BY <1>1, AnswerStep
<1>2. ASSUME ReadPlan(s) PROVE IInv'
  <2>1. h.at = "plan" /\ UNCHANGED <<authorities, stored>>
    BY <1>2 DEF ReadPlan, At
  <2>2. CASE Step(s, "resolve", h.exact, h.usable, h.gone)
    BY <1>0, <2>1, <2>2, MovesOn DEF InScope, Resolved
  <2> QED
    BY <1>1, <1>2, <2>1, <2>2 DEF ReadPlan, Goto
<1>3. ASSUME PlanUnavailable(s) PROVE IInv'
  BY <1>1, <1>3 DEF PlanUnavailable, At
<1>4. ASSUME ResolveBaselines(s) PROVE IInv'
  <2>1. h.at = "resolve" /\ UNCHANGED <<authorities, stored>> /\ r \in Requests
    BY <1>4, ServerFacts DEF ResolveBaselines, At
  <2>2. CASE /\ \A e \in EntitiesOf(r) : r.refs[e] \in Versions(e)
             /\ Step(s, "standing", r.refs, {}, h.gone)
    <3>1. r.refs \in BuiltFrom
      BY <2>1, RequestFacts
    <3> QED
      BY <1>0, <2>1, <2>2, <3>1, MovesOn DEF InScope, Resolved
  <2> QED
    BY <1>1, <1>4, <2>1, <2>2 DEF ResolveBaselines
<1>5. ASSUME NEW e \in Entities, CheckStanding(s, e) PROVE IInv'
  <2>1. h.at = "standing" /\ UNCHANGED <<authorities, stored>>
    BY <1>5 DEF CheckStanding, At
  <2>2. CASE /\ Standing(e, h.exact[e]) = "EFFECTIVE"
             /\ Step(s, "standing", h.exact, h.usable \cup {e}, h.gone)
    <3>1. <<e, h.exact[e]>> \notin withdrawn /\ ~(baseline[e][h.exact[e]] > Today)
      BY <2>2 DEF Standing
    <3>2. e \in EntitiesOf(r)
      BY <1>5 DEF CheckStanding
    <3>3. baseline[e][h.exact[e]] \in Nat /\ Today \in Nat
      <4>1. h.exact[e] \in DOMAIN baseline[e]
        BY <1>0, <2>1, <3>2 DEF StillSo, Resolved, Versions
      <4>2. baseline[e] \in Seq(Nat)
        BY DEF IInv, TypeOK
      <4> QED
        BY <4>1, <4>2, ElementOfSeq, LenProperties, IntakeAssumption
    <3>4. <<e, h.exact[e]>> \notin h.gone /\ baseline[e][h.exact[e]] <= Today
      BY <1>0, <2>1, <3>1, <3>3 DEF StillSo, InScope
    <3>5. \A f \in (h.usable \cup {e}) \cap EntitiesOf(r) :
            <<f, h.exact[f]>> \notin h.gone /\ baseline[f][h.exact[f]] <= Today
      BY <1>0, <2>1, <3>4 DEF StillSo, Resolved
    <3> QED
      BY <1>0, <2>1, <2>2, <3>5, MovesOn DEF InScope, Resolved, StillSo
  <2> QED
    BY <1>1, <1>5, <2>1, <2>2 DEF CheckStanding
<1>6. ASSUME Build(s) PROVE IInv'
  <2>1. h.at = "standing" /\ h.usable = EntitiesOf(r) /\ UNCHANGED <<authorities, stored>>
    BY <1>6 DEF Build, At
  <2>2. CASE CurrenciesAgree(r, h.exact) /\ Step(s, "accept", h.exact, h.usable, h.gone)
    BY <1>0, <2>1, <2>2, MovesOn DEF InScope, Resolved, StillSo
  <2> QED
    BY <1>1, <1>6, <2>1, <2>2 DEF Build, Goto
<1>7. ASSUME Expired(s) PROVE IInv'
  BY <1>1, <1>7 DEF Expired, At
<1> QED
  BY <1>2, <1>3, <1>4, <1>5, <1>6, <1>7

\* A unique index refuses the command: its key is free, so another command owns a
\* record of its.
LEMMA RollBackStep ==
  ASSUME IInv, NEW s \in Servers, RollBack(s)
  PROVE  IInv'
<1> DEFINE r == server[s].request
<1>1. /\ server[s].at = "accept" /\ r \in Requests /\ command[r.key].request = NoRequest
      /\ Answer(s, "taken") /\ UNCHANGED <<authorities, stored>>
  BY ServerFacts DEF RollBack, At, StillSo, InScope
<1>2. PICK x \in RecordsOf(r) : owner[x] # NoKey
  BY <1>1 DEF RollBack, Taken
<1>3. x \in Records /\ r.key \in Keys
  BY <1>1, RequestFacts
<1>4. owner[x] \in Keys /\ owner[x] # r.key
  BY <1>1, <1>2, <1>3 DEF IInv, TypeOK, WhollyAccepted
<1> QED
  BY <1>1, <1>4, AnswerStep

\* A server that dies leaves its scope free and nothing written.
LEMMA CrashStep ==
  ASSUME IInv, NEW s \in Servers, Crash(s)
  PROVE  IInv'
BY IdleFacts, AnswersKept, ServerChange DEF Crash, InScope

\* The commit of a command: its key and its records had no command, so nothing that
\* anyone else has read or was told changes.
LEMMA AcceptStep ==
  ASSUME IInv, NEW s \in Servers, Accept(s)
  PROVE  IInv'
<1> USE DEF IInv
<1>0. PICK r \in Requests, exact \in BuiltFrom :
        r = server[s].request /\ exact = server[s].exact
  BY ServerFacts DEF Accept, At
<1>1. /\ server[s].at = "accept" /\ StillSo(server[s])
      /\ command[r.key].request = NoRequest
      /\ \A x \in RecordsOf(r) : owner[x] = NoKey
      /\ command' = [command EXCEPT ![r.key] = [request |-> r, built |-> exact]]
      /\ owner' = [x \in Records |-> IF x \in RecordsOf(r) THEN r.key ELSE owner[x]]
      /\ announced' = announced \cup {r.key}
      /\ answers' = answers \cup ({<<r, "accepted">>} \cap (Requests \X Told))
      /\ server' = [server EXCEPT ![s] = Idle]
      /\ UNCHANGED <<baseline, withdrawn, approved>>
  BY <1>0, ServerFacts DEF Accept, At, Taken, Answer, authorities
<1>2. /\ r.key \in Keys /\ r.key # NoKey /\ r # NoRequest
      /\ RecordsOf(r) \subseteq Records
      /\ [request |-> r, built |-> exact] \in CommandType
  BY RequestFacts DEF CommandType
<1>3. exact = r.refs /\ CurrenciesAgree(r, exact)
  BY <1>0, <1>1 DEF StillSo, Resolved
<1>4. /\ command' \in [Keys -> CommandType]
      /\ command'[r.key].request = r /\ command'[r.key].built = exact
      /\ \A k \in Keys \ {r.key} : command'[k] = command[k]
  BY <1>1, <1>2 DEF TypeOK
<1>5. /\ owner' \in [Records -> Keys \cup {NoKey}]
      /\ \A x \in Records : x \in RecordsOf(r) => owner[x] = NoKey /\ owner'[x] = r.key
      /\ \A x \in Records : x \notin RecordsOf(r) => owner'[x] = owner[x]
  BY <1>1, <1>2 DEF TypeOK
<1>6. /\ server' \in [Servers -> ServerType] /\ server'[s] = Idle
      /\ \A t \in Servers \ {s} : server'[t] = server[t]
  BY <1>1, IdleFacts DEF TypeOK
<1>7. TypeOK'
  <2>1. announced' \subseteq Keys /\ answers' \subseteq Requests \X Told
    BY <1>1, <1>2 DEF TypeOK
  <2> QED
    BY <1>1, <1>4, <1>5, <1>6, <2>1, IdleFacts DEF TypeOK, At
<1>8. LockInv'
  BY <1>6, IdleFacts DEF LockInv, InScope
<1>9. ReadInv'
  <2>1. ASSUME NEW t \in Servers PROVE StillSo(server[t])'
    <3>1. PICK g \in ServerType : g = server'[t]
      BY <1>6
    <3>2. /\ g.at # "idle" => g.request \in Requests
          /\ g.at \in InScope =>
               /\ command'[g.request.key].request = NoRequest
               /\ g.gone \subseteq withdrawn
          /\ g.at \in Resolved =>
               /\ g.exact = g.request.refs
               /\ \A e \in EntitiesOf(g.request) : g.exact[e] \in Versions(e)
               /\ \A e \in g.usable \cap EntitiesOf(g.request) :
                    <<e, g.exact[e]>> \notin g.gone /\ baseline[e][g.exact[e]] <= Today
          /\ g.at = "accept" =>
               g.usable = EntitiesOf(g.request) /\ CurrenciesAgree(g.request, g.exact)
      <4>1. CASE t = s
        BY <1>6, <3>1, <4>1, IdleFacts DEF InScope, Resolved
      <4>2. CASE t # s
        <5>1. g = server[t] /\ StillSo(g)
          BY <1>6, <3>1, <4>2 DEF ReadInv
        <5>2. g.at \in InScope => g.request.key \in Keys \ {r.key}
          BY <1>0, <1>1, <4>2, <5>1, RequestFacts DEF LockInv, StillSo, InScope
        <5> QED
          BY <1>4, <5>1, <5>2 DEF StillSo
      <4> QED
        BY <4>1, <4>2
    <3> QED
      BY <1>1, <3>1, <3>2 DEF StillSo, Versions, EntitiesOf, CurrenciesAgree
  <2> QED
    BY <2>1 DEF ReadInv
<1>10. AnswerInv'
  <2>1. ASSUME NEW q \in Requests, <<q, "accepted">> \in answers'
        PROVE  command'[q.key].request = q
    <3>1. <<q, "accepted">> \in answers \/ q = r
      BY <1>1, <2>1
    <3>2. CASE <<q, "accepted">> \in answers
      <4>1. command[q.key].request = q /\ q # NoRequest /\ q.key \in Keys
        BY <3>2, RequestFacts DEF AnswerInv
      <4>2. q.key # r.key
        BY <1>1, <4>1
      <4> QED
        BY <1>4, <4>1, <4>2
    <3> QED
      BY <1>4, <3>1, <3>2
  <2>2. ASSUME NEW q \in Requests, <<q, "taken">> \in answers'
        PROVE  \E x \in RecordsOf(q) : owner'[x] \in Keys \ {q.key}
    <3>1. <<q, "taken">> \in answers
      BY <1>1, <2>2
    <3>2. PICK x \in RecordsOf(q) : owner[x] \in Keys \ {q.key}
      BY <3>1 DEF AnswerInv
    <3>3. owner[x] # NoKey /\ x \in Records
      BY <3>2, IntakeAssumption, RequestFacts
    <3> QED
      BY <1>5, <3>2, <3>3
  <2> QED
    BY <2>1, <2>2 DEF AnswerInv, RecordsOf, EntitiesOf
<1>11. WhollyAccepted'
  <2>1. ASSUME NEW k \in Keys
        PROVE  {x \in Records : owner'[x] = k} =
                 IF command'[k].request = NoRequest THEN {} ELSE RecordsOf(command'[k].request)
    <3>1. CASE k = r.key
      BY <1>1, <1>2, <1>4, <1>5, <3>1 DEF WhollyAccepted
    <3>2. CASE k # r.key
      <4>1. k # NoKey
        BY IntakeAssumption
      <4> QED
        BY <1>4, <1>5, <3>2, <4>1 DEF WhollyAccepted
    <3> QED
      BY <3>1, <3>2
  <2>2. announced' = {k \in Keys : command'[k].request # NoRequest}
    BY <1>1, <1>2, <1>4 DEF WhollyAccepted
  <2> QED
    BY <2>1, <2>2 DEF WhollyAccepted, RecordsOf, EntitiesOf
<1>12. BuiltFromReferences'
  BY <1>3, <1>4 DEF BuiltFromReferences, CurrenciesAgree
<1> QED
  BY <1>7, <1>8, <1>9, <1>10, <1>11, <1>12

-----------------------------------------------------------------------------
(* The inductive invariant. *)

\* It holds before any request.
LEMMA InitIInv == Init => IInv
<1> SUFFICES ASSUME Init PROVE IInv
  OBVIOUS
<1> USE DEF Init
<1>1. TypeOK
  <2>1. NoCommand \in CommandType
    BY DEF NoCommand, CommandType, BuiltFrom
  <2>2. Today \in Nat /\ <<Today>> \in Seq(Nat) /\ Len(<<Today>>) = 1 /\ 1 <= VersionBound
    BY IntakeAssumption
  <2>3. /\ baseline \in [Entities -> Seq(Nat)]
        /\ \A e \in Entities : Len(baseline[e]) <= VersionBound
    BY <2>2
  <2> QED
    BY <2>1, <2>3, IdleFacts, IntakeAssumption DEF TypeOK, At
<1>2. LockInv /\ ReadInv
  BY IdleFacts DEF LockInv, ReadInv, InScope
<1>3. AnswerInv
  BY DEF AnswerInv
<1>4. \A k \in Keys : command[k].request = NoRequest /\ k # NoKey
  BY IntakeAssumption DEF NoCommand
<1>5. WhollyAccepted /\ BuiltFromReferences
  BY <1>4 DEF WhollyAccepted, BuiltFromReferences
<1> QED
  BY <1>1, <1>2, <1>3, <1>5 DEF IInv

\* Every step preserves it.
LEMMA StepIInv == IInv /\ [Next]_vars => IInv'
<1> SUFFICES ASSUME IInv, [Next]_vars PROVE IInv'
  OBVIOUS
<1>1. ASSUME UNCHANGED vars PROVE IInv'
  BY <1>1 DEF vars, authorities, stored, IInv, TypeOK, At, LockInv, ReadInv, StillSo, AnswerInv,
              WhollyAccepted, BuiltFromReferences, CurrenciesAgree, Versions, RecordsOf,
              EntitiesOf
<1>2. ASSUME NEW s \in Servers, Handle(s) PROVE IInv'
  <2>1. CASE ContextUnavailable(s) \/ \E r \in Requests : Refuse(s, r) \/ RejectContext(s, r)
    BY <1>1, <2>1 DEF ContextUnavailable, Refuse, RejectContext
  <2>2. CASE \E r \in Requests : Arrive(s, r)
    BY <2>2, ArriveStep
  <2>3. CASE Enter(s)
    BY <2>3, EnterStep
  <2>4. CASE \/ ReadPlan(s) \/ PlanUnavailable(s) \/ ResolveBaselines(s)
             \/ \E e \in Entities : CheckStanding(s, e)
             \/ Build(s) \/ Expired(s)
    BY <2>4, ReadStep
  <2>5. CASE Accept(s)
    BY <2>5, AcceptStep
  <2>6. CASE RollBack(s)
    BY <2>6, RollBackStep
  <2> QED
    BY <1>2, <2>1, <2>2, <2>3, <2>4, <2>5, <2>6 DEF Handle
<1> QED
  BY <1>1, <1>2, AuthorityStep, CrashStep DEF Next

\* Every reachable state satisfies the inductive invariant: what a transaction relies
\* on between its scope and its commit, together with the properties of the intake.
THEOREM Invariance == Spec => []IInv
BY InitIInv, StepIInv, PTL DEF Spec

\* The tables and the servers keep their types, and a server that answered or died
\* holds nothing of its transaction.
THEOREM TypeCorrect == Spec => []TypeOK
BY Invariance, PTL DEF IInv

\* An idempotency key stands for one request, also while its copies are handled at
\* once.
THEOREM OneRequestPerKey == Spec => []KeyBindsRequest
<1>1. ASSUME IInv PROVE KeyBindsRequest
  <2>1. ASSUME NEW r \in Requests, <<r, "taken">> \in answers, command[r.key].request = r
        PROVE  FALSE
    <3>1. PICK x \in RecordsOf(r) : owner[x] \in Keys \ {r.key}
      BY <1>1, <2>1 DEF IInv, AnswerInv
    <3>2. {y \in Records : owner[y] = r.key} = RecordsOf(r)
      BY <1>1, <2>1, RequestFacts DEF IInv, WhollyAccepted
    <3> QED
      BY <3>1, <3>2
  <2> QED
    BY <1>1, <2>1 DEF KeyBindsRequest, IInv, AnswerInv
<1> QED
  BY <1>1, Invariance, PTL

\* A command is accepted with the records of all its entities and its announcement,
\* or not at all.
THEOREM AcceptedWhole == Spec => []WhollyAccepted
BY Invariance, PTL DEF IInv

\* What was accepted is built from exactly the baseline versions and currencies the
\* request named.
THEOREM NothingSubstituted == Spec => []BuiltFromReferences
BY Invariance, PTL DEF IInv

\* No version that had been withdrawn when the request was looked at, or of a later
\* day, is provisioned from.
THEOREM UsableBaselines == Spec => []AcceptedWasUsable
<1>1. ASSUME IInv, NEW s \in Servers, At(s, "accept"), NEW e \in EntitiesOf(server[s].request)
      PROVE  /\ <<e, server[s].exact[e]>> \notin server[s].gone
             /\ baseline[e][server[s].exact[e]] <= Today
  BY <1>1 DEF IInv, ReadInv, StillSo, Resolved, At
<1>2. IInv => AcceptedWasUsable
  BY <1>1 DEF AcceptedWasUsable
<1> QED
  BY <1>2, Invariance, PTL

\* An accepted command is final: its request, what it is built from, its records and
\* its announcement stay, whoever retries it and whatever is replanned.
THEOREM CommandsStay ==
  Spec => [][\A k \in Keys :
               command[k].request # NoRequest =>
                 /\ command'[k] = command[k]
                 /\ k \in announced'
                 /\ \A x \in Records : owner[x] = k => owner'[x] = k]_vars
<1> DEFINE Stays == \A k \in Keys :
                      command[k].request # NoRequest =>
                        /\ command'[k] = command[k]
                        /\ k \in announced'
                        /\ \A x \in Records : owner[x] = k => owner'[x] = k
<1>1. ASSUME IInv, Next PROVE Stays
  <2> USE <1>1
  <2>1. CASE UNCHANGED stored
    BY <2>1 DEF stored, IInv, WhollyAccepted
  <2>2. ASSUME NEW s \in Servers, Accept(s) PROVE Stays
    <3>1. PICK r \in Requests : r = server[s].request
      BY <2>2, ServerFacts DEF Accept, At
    <3>2. /\ command[r.key].request = NoRequest
          /\ \A x \in RecordsOf(r) : owner[x] = NoKey
          /\ \A k \in Keys \ {r.key} : command'[k] = command[k]
          /\ \A x \in Records : x \notin RecordsOf(r) => owner'[x] = owner[x]
          /\ announced \subseteq announced'
      BY <2>2, <3>1 DEF Accept, Taken, IInv, TypeOK
    <3>3. \A k \in Keys : k # NoKey
      BY IntakeAssumption
    <3> QED
      BY <3>2, <3>3 DEF IInv, WhollyAccepted
  <2>3. ASSUME NEW s \in Servers, ~Accept(s), Handle(s) PROVE UNCHANGED stored
    BY <2>3 DEF Handle, Refuse, RejectContext, ContextUnavailable, Arrive, Enter, ReadPlan,
                PlanUnavailable, ResolveBaselines, CheckStanding, Build, Expired, RollBack, vars
  <2>4. ASSUME ~\E s \in Servers : Handle(s) PROVE UNCHANGED stored
    BY <2>4 DEF Next, Crash, Record, Withdraw, Replan
  <2> QED
    BY <2>1, <2>2, <2>3, <2>4
<1>2. IInv /\ [Next]_vars => [Stays]_vars
  BY <1>1
<1> QED
  BY <1>2, Invariance, PTL DEF Spec
=============================================================================
