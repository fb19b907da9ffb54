------------------------- MODULE Provisioning_proofs -------------------------
(***************************************************************************)
(* The safety properties of Provisioning hold for any number of workers    *)
(* and operations, any plan and any budgets, and it implements the life    *)
(* cycle of ProvisioningLifecycle.  The inductive invariant says of each   *)
(* place of a pass what the pass has done to reach it, and of each status  *)
(* what is on record; the command's row is locked from the moment its      *)
(* state is derived until the status it was derived from is committed.     *)
(***************************************************************************)
EXTENDS Provisioning, SequenceTheorems, TLAPS

\* i is the first pending step of o.
First(o, i) == i \in Pending(o) /\ \A j \in Pending(o) : i <= j

\* The statuses an operation may take next.
Follows(status, next) ==
  \/ status = "planned" /\ next = "applying"
  \/ status = "applying" /\ next = "reconciling"
  \/ status = "reconciling" /\ next = "ready"
  \/ status \in Open /\ next = "failed"

Registered(o) == \A i \in Warehouses : warehouse[o][i].id = native[o][i]

\* A worker holds its operation alone, and its pass is counted.
ClaimInv ==
  /\ \A v, w \in Workers : worker[v].op = worker[w].op /\ worker[v].op # NoOperation => v = w
  /\ \A w \in Workers :
       /\ worker[w].at = "idle" => worker[w] = Idle
       /\ worker[w].at # "idle" =>
            worker[w].op \in Operations /\ operation[worker[w].op].attempts > 0

\* The status of the operation where a pass is, and the one the pass will commit.
StatusOK(h) ==
  /\ h.at = "resolve" => h.loaded = operation[h.op].status /\ operation[h.op].status \in Open
  /\ h.at \in {"written", "projected"} =>
       /\ Follows(operation[h.op].status, h.target)
       /\ h.target = "applying" => h.loaded # "reconciling"
       /\ h.target = "reconciling" => done[h.op] = Steps /\ Registered(h.op)
  /\ h.at = "apply" =>
       /\ operation[h.op].status \in {"applying", "reconciling"}
       /\ h.loaded = "reconciling" <=> operation[h.op].status = "reconciling"
  /\ h.at \in {"found", "alias", "mark", "confirm"} =>
       operation[h.op].status = "applying" /\ h.loaded # "reconciling"
  /\ h.at = "check" => operation[h.op].status = "reconciling"
  /\ h.at = "settle" =>
       \/ h.target = "ready" /\ operation[h.op].status = "ready"
       \/ h.target \in {"retry", "blocked", "failed"} /\ operation[h.op].status \in Open

\* What a pass has done about the step it is at.
StepOK(h) ==
  /\ h.at = "found" =>
       /\ h.found # 0
       /\ \A i \in Steps : First(h.op, i) => Plan[i] # "mapping" /\ engine[h.op][i] > 0
  /\ h.at = "alias" => 1 \in Pending(h.op) /\ native[h.op][1] # 0
  /\ h.at = "mark" =>
       \A i \in Steps : First(h.op, i) =>
         /\ Plan[i] # "mapping" /\ native[h.op][i] # 0
         /\ i = 1 => primary[h.op] = native[h.op][1]
  /\ h.at = "confirm" => Pending(h.op) = {Len(Plan)} /\ native[h.op][Len(Plan)] # 0

\* What is on record of an operation.
RecordOK(o) ==
  /\ operation[o].status = "planned" => done[o] = {}
  /\ operation[o].status \in {"reconciling", "ready"} => done[o] = Steps /\ Registered(o)
  /\ \A i \in Steps : native[o][i] # 0 /\ Plan[i] # "mapping" => engine[o][i] > 0
  /\ \A i \in done[o] : native[o][i] # 0
  /\ 1 \in done[o] => primary[o] = native[o][1]
  /\ Len(Plan) \in done[o] => done[o] = Steps /\ mapping[o] = primary[o]
  /\ mapping[o] \in {1, 2} => done[o] = Steps
  /\ \A i \in Steps : Created(Plan[i]) /\ engine[o][i] > 1 => <<o, i>> \in landed
  /\ \A i \in Warehouses :
       warehouse[o][i].announced = IF warehouse[o][i].id = 0 \/ o \in Untimed THEN 0 ELSE 1

PassInv == \A w \in Workers : StatusOK(worker[w]) /\ StepOK(worker[w])
RecordInv == \A o \in Operations : RecordOK(o)

\* Whoever has derived a state of the command holds its row, and nothing it was
\* derived from has changed.
LockInv ==
  \A w \in Workers :
    /\ commandLock = w <=> worker[w].at = "projected"
    /\ worker[w].at = "projected" => worker[w].derived = Derived(w)

\* Revisions are bounded by the states that can precede one.
RevisionInv ==
  /\ command.state = "accepted" => command.revision = 1
  /\ command.state = "provisioning" => command.revision <= 2
  /\ command.state = "reconciling" => command.revision <= 3

IInv ==
  /\ TypeOK
  /\ ClaimInv
  /\ PassInv
  /\ RecordInv
  /\ LockInv
  /\ CommandFollowsStatuses
  /\ RevisionInv

-----------------------------------------------------------------------------
(* Types. *)

TablesType ==
  /\ operation \in [Operations -> [status : Statuses, attempts : 0..AttemptBound]]
  /\ aged \subseteq Operations
  /\ done \in [Operations -> SUBSET Steps]
  /\ native \in [Operations -> [Steps -> Ids]]
  /\ primary \in [Operations -> Ids]
  /\ mapping \in [Operations -> Ids \cup {Foreign}]
  /\ warehouse \in [Operations -> [Warehouses -> [id : Ids, announced : 0..2]]]
  /\ engine \in [Operations -> [Steps -> Ids]]
  /\ inFlight \cup landed \subseteq Operations \X Steps

CommandType ==
  /\ command \in [state : States, revision : 1..4]
  /\ announced \in Seq(States)
  /\ commandLock \in Workers \cup {NoWorker}

\* What a pass may hold as the status it loaded, and the state it derived.
LoadedStatuses == Statuses \cup {""}
DerivedStates == States \cup {""}

\* The types, by what they are about.
LEMMA TypeParts == TypeOK <=> TablesType /\ CommandType /\ worker \in [Workers -> PassType]
BY DEF TypeOK, TablesType, CommandType

\* The plan: its steps are numbered, the client comes first and the mapping last.
LEMMA PlanFacts ==
  /\ Steps = 1..Len(Plan) /\ Len(Plan) \in Nat /\ Len(Plan) > 1
  /\ 1 \in Steps /\ Len(Plan) \in Steps
  /\ \A i \in Steps : (Plan[i] = "client" <=> i = 1) /\ (Plan[i] = "mapping" <=> i = Len(Plan))
  /\ \A i \in Steps : Plan[i] = "mapping" \/ Created(Plan[i]) \/ Configured(Plan[i])
  /\ \A i \in Steps : ~(Created(Plan[i]) /\ Configured(Plan[i]))
  /\ \A i \in Steps : Created(Plan[i]) \/ Configured(Plan[i]) => Plan[i] # "mapping"
  /\ Warehouses \subseteq Steps
  /\ \A i \in Warehouses : Created(Plan[i])
<1> DEFINE Kinds == {"client", "accounting", "localisation", "warehouse", "mapping"}
<1>1. Plan \in Seq(Kinds) /\ Len(Plan) > 1
  BY ProvisioningAssumption
<1>2. Steps = 1..Len(Plan) /\ Len(Plan) \in Nat
  BY <1>1, LenProperties DEF Steps
<1>3. \A i \in Steps : Plan[i] \in Kinds
  BY <1>1, <1>2, ElementOfSeq
<1> QED
  BY <1>1, <1>2, <1>3, ProvisioningAssumption DEF Steps, Created, Configured, Warehouses

\* An idle worker holds nothing.
LEMMA IdleFacts ==
  /\ Idle \in PassType /\ Idle.at = "idle" /\ Idle.op = NoOperation
  /\ StatusOK(Idle) /\ StepOK(Idle)
<1>1. Idle \in PassType /\ Idle.at = "idle" /\ Idle.op = NoOperation
  BY DEF Idle, Pass, PassType, Places, Ids, Targets
<1> QED
  BY <1>1 DEF StatusOK, StepOK

\* What a worker on a pass holds.
LEMMA PassFacts ==
  ASSUME IInv, NEW w \in Workers
  PROVE  /\ worker[w] \in PassType
         /\ worker[w].loaded \in LoadedStatuses /\ worker[w].found \in Ids
         /\ worker[w].target \in Targets /\ worker[w].derived \in DerivedStates
         /\ worker[w].op \in Operations \cup {NoOperation}
         /\ worker[w].at \in Places
         /\ StatusOK(worker[w]) /\ StepOK(worker[w])
         /\ worker[w].at # "idle" =>
              /\ worker[w].op \in Operations
              /\ operation[worker[w].op].attempts > 0
              /\ \A v \in Workers \ {w} : worker[v].op # worker[w].op
<1>1. worker[w] \in PassType
  BY DEF IInv, TypeOK
<1>2. worker[w].at # "idle" =>
        /\ worker[w].op \in Operations
        /\ operation[worker[w].op].attempts > 0
        /\ \A v \in Workers \ {w} : worker[v].op # worker[w].op
  BY ProvisioningAssumption DEF IInv, ClaimInv
<1> QED
  BY <1>1, <1>2 DEF IInv, PassInv, PassType, LoadedStatuses, DerivedStates

-----------------------------------------------------------------------------
(* What a step leaves alone. *)

\* Nothing on record of p changes.
SameAt(p) ==
  /\ operation'[p] = operation[p] /\ done'[p] = done[p] /\ native'[p] = native[p]
  /\ primary'[p] = primary[p] /\ mapping'[p] = mapping[p] /\ warehouse'[p] = warehouse[p]
  /\ engine'[p] = engine[p]

\* Then what is on record of it stays in order.
LEMMA RecordKept ==
  ASSUME NEW p \in Operations, RecordOK(p), SameAt(p), landed \subseteq landed'
  PROVE  RecordOK(p)'
BY DEF RecordOK, SameAt, Registered

\* And so does the pass that is at it.
LEMMA PassKept ==
  ASSUME NEW h, StatusOK(h), StepOK(h), SameAt(h.op)
  PROVE  StatusOK(h)' /\ StepOK(h)'
BY DEF StatusOK, StepOK, SameAt, Registered, First, Pending

\* A step of one pass disturbs no other.
LEMMA PassStep ==
  ASSUME IInv, NEW w \in Workers, NEW o \in Operations, NEW h \in PassType,
         worker' = [worker EXCEPT ![w] = h],
         \/ h = Idle
         \/ h.at # "idle" /\ h.op = o /\ operation'[o].attempts > 0,
         \A v \in Workers \ {w} : worker[v].op # o,
         \A p \in Operations \ {o} : SameAt(p),
         landed \subseteq landed',
         TablesType', CommandType',
         RecordOK(o)', StatusOK(h)', StepOK(h)'
  PROVE  TypeOK' /\ ClaimInv' /\ PassInv' /\ RecordInv'
<1>1. /\ worker' \in [Workers -> PassType] /\ worker'[w] = h
      /\ \A v \in Workers \ {w} : worker'[v] = worker[v]
  BY DEF IInv, TypeOK
<1>2. TypeOK'
  BY <1>1, TypeParts DEF TypeOK, TablesType, CommandType
<1>3. RecordInv'
  <2>1. ASSUME NEW p \in Operations \ {o} PROVE RecordOK(p)'
    BY RecordKept DEF IInv, RecordInv
  <2> QED
    BY <2>1 DEF RecordInv
<1>4. ClaimInv'
  <2>1. ASSUME NEW v \in Workers \ {w}
        PROVE  /\ worker'[v].at = "idle" => worker'[v] = Idle
               /\ worker'[v].at # "idle" =>
                    /\ worker'[v].op \in Operations
                    /\ operation'[worker'[v].op].attempts > 0
    BY <1>1 DEF IInv, ClaimInv, SameAt
  <2>2. /\ worker'[w].at = "idle" => worker'[w] = Idle
        /\ worker'[w].at # "idle" =>
             worker'[w].op \in Operations /\ operation'[worker'[w].op].attempts > 0
    BY <1>1, IdleFacts
  <2>3. ASSUME NEW u \in Workers, NEW v \in Workers, worker'[u].op = worker'[v].op,
               worker'[u].op # NoOperation
        PROVE  u = v
    BY <1>1, <2>3, IdleFacts DEF IInv, ClaimInv
  <2> QED
    BY <2>1, <2>2, <2>3 DEF ClaimInv
<1>5. PassInv'
  <2>1. ASSUME NEW v \in Workers PROVE StatusOK(worker[v])' /\ StepOK(worker[v])'
    <3>1. PICK g \in PassType : g = worker'[v]
      BY <1>1
    <3>2. StatusOK(g)' /\ StepOK(g)'
      <4>1. CASE v = w
        BY <1>1, <3>1, <4>1
      <4>2. CASE v # w /\ g.at = "idle"
        BY <4>2 DEF StatusOK, StepOK
      <4>3. CASE v # w /\ g.at # "idle"
        <5>1. g = worker[v]
          BY <1>1, <3>1, <4>3
        <5>2. g.op \in Operations \ {o} /\ StatusOK(g) /\ StepOK(g)
          BY <4>3, <5>1, PassFacts
        <5> QED
          BY <5>2, PassKept
      <4> QED
        BY <4>1, <4>2, <4>3
    <3> QED
      BY <3>1, <3>2 DEF StatusOK, StepOK, Registered, First, Pending
  <2> QED
    BY <2>1 DEF PassInv
<1> QED
  BY <1>2, <1>3, <1>4, <1>5

\* Steps that take no lock, change no status and say nothing about the command leave
\* its state as its operations' statuses have it.
LEMMA LockKept ==
  ASSUME IInv, NEW w \in Workers, NEW h \in PassType,
         worker' = [worker EXCEPT ![w] = h],
         h.at # "projected", worker[w].at # "projected",
         UNCHANGED projection,
         \A p \in Operations : operation'[p].status = operation[p].status
  PROVE  CommandType' /\ LockInv' /\ CommandFollowsStatuses' /\ RevisionInv'
<1>1. /\ worker'[w] = h /\ \A v \in Workers \ {w} : worker'[v] = worker[v]
      /\ UNCHANGED <<command, announced, commandLock>>
  BY DEF IInv, TypeOK, projection
<1>2. CommandType' /\ RevisionInv'
  BY <1>1, TypeParts DEF IInv, CommandType, RevisionInv
<1>3. CommandFollowsStatuses'
  <2>1. {operation'[p].status : p \in Operations} = {operation[p].status : p \in Operations}
    OBVIOUS
  <2> QED
    BY <1>1, <2>1 DEF IInv, CommandFollowsStatuses, Derive
<1>4. ASSUME NEW v \in Workers
      PROVE  /\ commandLock' = v <=> worker'[v].at = "projected"
             /\ worker'[v].at = "projected" => worker'[v].derived = Derived(v)'
  <2>1. CASE v = w
    BY <1>1, <2>1 DEF IInv, LockInv
  <2>2. CASE v # w
    <3>1. worker'[v] = worker[v]
      BY <1>1, <2>2
    <3>2. {IF p = worker'[v].op THEN worker'[v].target ELSE operation'[p].status : p \in Operations}
            = {IF p = worker[v].op THEN worker[v].target ELSE operation[p].status : p \in Operations}
      BY <3>1
    <3>3. Derived(v)' = Derived(v)
      BY <3>2 DEF Derived, Derive
    <3> QED
      BY <1>1, <3>1, <3>3 DEF IInv, LockInv
  <2> QED
    BY <2>1, <2>2
<1>5. LockInv'
  BY <1>4 DEF LockInv
<1> QED
  BY <1>2, <1>3, <1>5

\* A pass that goes on without leaving a trace on record.
LEMMA QuietStep ==
  ASSUME IInv, NEW w \in Workers, NEW place \in Places \ {"idle", "projected"},
         NEW found \in Ids, NEW target \in Targets,
         worker[w].at \notin {"idle", "projected"},
         Carry(w, place, found, target, worker[w].derived),
         UNCHANGED <<tables, projection, engine, landed>>,
         inFlight' \subseteq Operations \X Steps,
         LET h == Pass(place, worker[w].op, worker[w].loaded, found, target, worker[w].derived)
         IN  StatusOK(h) /\ StepOK(h)
  PROVE  IInv'
<1>0. PICK o \in Operations, loaded \in LoadedStatuses, derived \in DerivedStates :
        o = worker[w].op /\ loaded = worker[w].loaded /\ derived = worker[w].derived
  BY PassFacts
<1> DEFINE h == Pass(place, o, loaded, found, target, derived)
<1>1. h \in PassType /\ h.at = place /\ h.op = o
  <2>1. place \in Places
    OBVIOUS
  <2> QED
    BY <2>1 DEF Pass, PassType, LoadedStatuses, DerivedStates
<1>2. worker' = [worker EXCEPT ![w] = h] /\ StatusOK(h) /\ StepOK(h)
  BY <1>0 DEF Carry
<1> HIDE DEF h
<1>3. /\ UNCHANGED <<operation, aged, done, native, primary, mapping, warehouse, engine, landed>>
      /\ \A p \in Operations : SameAt(p)
  BY DEF tables, SameAt
<1>4. TablesType'
  BY <1>3, TypeParts DEF IInv, TablesType
<1>5. RecordOK(o)'
  BY <1>3, RecordKept DEF IInv, RecordInv
<1>6. StatusOK(h)' /\ StepOK(h)'
  BY <1>1, <1>2, <1>3, PassKept
<1>7. operation'[o].attempts > 0 /\ \A v \in Workers \ {w} : worker[v].op # o
  BY <1>0, <1>3, PassFacts
<1>8. CommandType' /\ LockInv' /\ CommandFollowsStatuses' /\ RevisionInv'
  BY <1>1, <1>2, <1>3, LockKept
<1>9. TypeOK' /\ ClaimInv' /\ PassInv' /\ RecordInv'
  BY <1>1, <1>2, <1>3, <1>4, <1>5, <1>6, <1>7, <1>8, PassStep
<1> QED
  BY <1>8, <1>9 DEF IInv

-----------------------------------------------------------------------------
(* The steps that leave no trace on record. *)

\* A pass that ends, and a status that is about to be committed, are in order when
\* the operation is where they say it is.
LEMMA EndStep ==
  ASSUME IInv, NEW w \in Workers, NEW outcome \in {"retry", "blocked", "failed"},
         End(w, outcome), worker[w].at \notin {"idle", "projected"},
         operation[worker[w].op].status \in Open,
         UNCHANGED <<tables, projection, engine, landed>>,
         inFlight' \subseteq Operations \X Steps
  PROVE  IInv'
<1> DEFINE h == Pass("settle", worker[w].op, worker[w].loaded, worker[w].found, outcome,
                     worker[w].derived)
<1>1. StatusOK(h) /\ StepOK(h)
  BY DEF StatusOK, StepOK, Pass
<1>2. "settle" \in Places \ {"idle", "projected"} /\ outcome \in Targets /\ worker[w].found \in Ids
  BY PassFacts DEF Places, Targets, Statuses
<1> HIDE DEF h
<1> QED
  BY <1>1, <1>2, QuietStep DEF End, h

\* A status is written that may follow the one on record.
LEMMA WriteStep ==
  ASSUME IInv, NEW w \in Workers, NEW status \in Statuses,
         SetStatus(w, status), worker[w].at \notin {"idle", "projected"},
         Follows(operation[worker[w].op].status, status),
         status # "reconciling",
         status = "applying" => worker[w].loaded # "reconciling",
         UNCHANGED <<tables, projection, outside>>
  PROVE  IInv'
<1> DEFINE h == Pass("written", worker[w].op, worker[w].loaded, worker[w].found, status,
                     worker[w].derived)
<1>1. StatusOK(h) /\ StepOK(h)
  BY DEF StatusOK, StepOK, Pass
<1>2. "written" \in Places \ {"idle", "projected"} /\ status \in Targets /\ worker[w].found \in Ids
  BY PassFacts DEF Places, Targets, Statuses
<1>3. UNCHANGED <<engine, landed>> /\ inFlight' \subseteq Operations \X Steps
  BY DEF IInv, TypeOK, outside
<1> HIDE DEF h
<1> QED
  BY <1>1, <1>2, <1>3, QuietStep DEF SetStatus, h

\* A pass goes on at another place of the same step.
LEMMA GotoStep ==
  ASSUME IInv, NEW w \in Workers, NEW place \in Places \ {"idle", "projected"},
         Goto(w, place), worker[w].at \notin {"idle", "projected"},
         UNCHANGED <<tables, projection, outside>>,
         LET h == Pass(place, worker[w].op, worker[w].loaded, worker[w].found, worker[w].target,
                       worker[w].derived)
         IN  StatusOK(h) /\ StepOK(h)
  PROVE  IInv'
<1>1. worker[w].found \in Ids /\ worker[w].target \in Targets
  BY PassFacts
<1>2. UNCHANGED <<engine, landed>> /\ inFlight' \subseteq Operations \X Steps
  BY DEF IInv, TypeOK, outside
<1> QED
  BY <1>1, <1>2, QuietStep DEF Goto

\* Where a pass is when it fails, its operation has not got its final status.
LEMMA StillOpen ==
  ASSUME IInv, NEW w \in Workers,
         worker[w].at \in {"resolve", "apply", "found", "alias", "mark", "confirm", "check"}
  PROVE  operation[worker[w].op].status \in Open
BY PassFacts DEF StatusOK, Open

\* The passes that end before the engine was asked for anything it might do.
LEMMA EndedStep ==
  ASSUME IInv, NEW w \in Workers,
         \/ Unconfigured(w) \/ Drifted(w) \/ MappingConflict(w) \/ NotReady(w)
         \/ \E i \in Steps : Duplicates(w, i) \/ EngineFails(w, i)
  PROVE  IInv'
<1>1. \E outcome \in {"retry", "blocked", "failed"} : End(w, outcome)
  BY DEF Unconfigured, Drifted, MappingConflict, NotReady, Duplicates, EngineFails
<1>2. worker[w].at \in {"resolve", "apply", "confirm", "check"}
  BY DEF Unconfigured, Drifted, MappingConflict, NotReady, Duplicates, EngineFails, AtStep, At
<1>3. UNCHANGED <<tables, projection, outside>>
  BY DEF Unconfigured, Drifted, MappingConflict, NotReady, Duplicates, EngineFails
<1>4. UNCHANGED <<engine, landed>> /\ inFlight' \subseteq Operations \X Steps
  BY <1>3 DEF IInv, TypeOK, outside
<1> QED
  BY <1>1, <1>2, <1>3, <1>4, StillOpen, EndStep

\* A call is sent and its answer lost.
LEMMA CallLostStep ==
  ASSUME IInv, NEW w \in Workers, NEW i \in Steps, CallLost(w, i)
  PROVE  IInv'
<1>1. End(w, "retry") /\ worker[w].at = "apply" /\ UNCHANGED <<tables, projection, engine, landed>>
  BY DEF CallLost, AtStep, At
<1>2. inFlight' \subseteq Operations \X Steps
  <2>1. inFlight \subseteq Operations \X Steps
    BY DEF IInv, TypeOK
  <2>2. worker[w].op \in Operations
    BY <1>1, PassFacts
  <2> QED
    BY <2>1, <2>2 DEF CallLost
<1> QED
  BY <1>1, <1>2, StillOpen, EndStep

\* The first status of a pass is written, or the pass resumes.
LEMMA ResolveStep ==
  ASSUME IInv, NEW w \in Workers, Resolve(w)
  PROVE  IInv'
<1> DEFINE o == worker[w].op
<1>1. /\ worker[w].at = "resolve" /\ UNCHANGED <<tables, projection, outside>>
      /\ o \in Operations /\ RecordOK(o)
      /\ worker[w].loaded = operation[o].status /\ operation[o].status \in Open
  BY PassFacts DEF Resolve, At, IInv, RecordInv, StatusOK
<1>2. CASE Pending(o) # {} /\ worker[w].loaded # "applying"
  <2>1. operation[o].status = "planned"
    BY <1>1, <1>2 DEF RecordOK, Pending, Open
  <2>2. "applying" \in Statuses /\ Follows(operation[o].status, "applying")
    BY <2>1 DEF Statuses, Open, Follows
  <2>3. SetStatus(w, "applying")
    BY <1>2 DEF Resolve
  <2> QED
    BY <1>1, <2>1, <2>2, <2>3, WriteStep
<1>3. CASE ~(Pending(o) # {} /\ worker[w].loaded # "applying")
  <2>1. Goto(w, "apply") /\ "apply" \in Places \ {"idle", "projected"}
    BY <1>3 DEF Resolve, Places
  <2>2. operation[o].status \in {"applying", "reconciling"}
    <3>1. operation[o].status = "planned" => Pending(o) # {}
      BY <1>1, PlanFacts DEF RecordOK, Pending
    <3> QED
      BY <1>1, <1>3, <3>1 DEF Open
  <2> DEFINE h == Pass("apply", o, worker[w].loaded, worker[w].found, worker[w].target,
                       worker[w].derived)
  <2>3. StatusOK(h) /\ StepOK(h)
    BY <1>1, <2>2 DEF StatusOK, StepOK, Pass
  <2> HIDE DEF h
  <2> QED
    BY <1>1, <2>1, <2>3, GotoStep DEF h
<1> QED
  BY <1>2, <1>3

\* A recorded id is reused: the alias is put again for the client.
LEMMA ReuseStep ==
  ASSUME IInv, NEW w \in Workers, NEW i \in Steps, Reuse(w, i)
  PROVE  IInv'
<1> DEFINE o == worker[w].op
<1> DEFINE place == IF Plan[i] = "client" THEN "alias" ELSE "mark"
<1>1. /\ worker[w].at = "apply" /\ UNCHANGED <<tables, projection, outside>>
      /\ First(o, i) /\ Created(Plan[i]) /\ native[o][i] # 0 /\ Goto(w, place)
  BY DEF Reuse, AtStep, At, First
<1>2. place \in Places \ {"idle", "projected"}
  BY DEF Places
<1>3. operation[o].status = "applying" /\ worker[w].loaded # "reconciling"
  BY <1>1, PassFacts DEF StatusOK, IInv, RecordInv, RecordOK, First, Pending
<1>4. i \in 1..Len(Plan) /\ \A j \in Steps : First(o, j) => j = i
  BY <1>1, PlanFacts DEF First, Pending
<1> DEFINE h == Pass(place, o, worker[w].loaded, worker[w].found, worker[w].target,
                     worker[w].derived)
<1>5. h.at = place /\ h.op = o /\ h.loaded = worker[w].loaded
  BY DEF Pass
<1>6. CASE Plan[i] = "client"
  <2>1. h.at = "alias" /\ i = 1
    BY <1>5, <1>6, PlanFacts
  <2> QED
    BY <1>1, <1>2, <1>3, <1>5, <2>1, GotoStep DEF StatusOK, StepOK, First
<1>7. CASE Plan[i] # "client"
  <2>1. h.at = "mark" /\ i # 1 /\ Plan[i] # "mapping"
    BY <1>1, <1>5, <1>7, PlanFacts
  <2> QED
    BY <1>1, <1>2, <1>3, <1>4, <1>5, <2>1, GotoStep DEF StatusOK, StepOK
<1> QED
  BY <1>6, <1>7

\* The one record the engine made earlier is adopted.
LEMMA AdoptStep ==
  ASSUME IInv, NEW w \in Workers, NEW i \in Steps, Adopt(w, i)
  PROVE  IInv'
<1> DEFINE o == worker[w].op
<1>1. /\ worker[w].at = "apply" /\ UNCHANGED <<tables, projection, outside>>
      /\ First(o, i) /\ Created(Plan[i]) /\ engine[o][i] = 1
      /\ Carry(w, "found", 1, worker[w].target, worker[w].derived)
  BY DEF Adopt, AtStep, At, First, Found
<1>2. "found" \in Places \ {"idle", "projected"} /\ 1 \in Ids /\ worker[w].target \in Targets
  BY PassFacts DEF Places, Ids
<1>3. operation[o].status = "applying" /\ worker[w].loaded # "reconciling"
  BY <1>1, PassFacts DEF StatusOK, IInv, RecordInv, RecordOK, First, Pending
<1>4. Plan[i] # "mapping" /\ \A j \in Steps : First(o, j) => j = i
  BY <1>1, PlanFacts DEF First, Pending
<1> DEFINE h == Pass("found", o, worker[w].loaded, 1, worker[w].target, worker[w].derived)
<1>5. h.at = "found" /\ h.op = o /\ h.found = 1 /\ h.loaded = worker[w].loaded
  BY DEF Pass
<1> HIDE DEF h
<1>6. StatusOK(h) /\ StepOK(h)
  <2>1. StatusOK(h)
    BY <1>3, <1>5 DEF StatusOK
  <2>2. StepOK(h)
    BY <1>1, <1>4, <1>5 DEF StepOK
  <2> QED
    BY <2>1, <2>2
<1>7. UNCHANGED <<engine, landed>> /\ inFlight' \subseteq Operations \X Steps
  BY <1>1 DEF IInv, TypeOK, outside
<1> QED
  BY <1>1, <1>2, <1>6, <1>7, QuietStep DEF h

\* Everything was read back: the operation becomes ready.
LEMMA CheckStep ==
  ASSUME IInv, NEW w \in Workers, CheckPasses(w)
  PROVE  IInv'
<1>1. /\ worker[w].at = "check" /\ SetStatus(w, "ready")
      /\ UNCHANGED <<tables, projection, outside>>
  BY DEF CheckPasses, At
<1>2. operation[worker[w].op].status = "reconciling"
  BY <1>1, PassFacts DEF StatusOK
<1> QED
  BY <1>1, <1>2, WriteStep DEF Follows, Statuses

-----------------------------------------------------------------------------
(* The steps that end a pass. *)

\* A worker lets its operation go; a transaction that it has open is rolled back.
LEMMA IdleStep ==
  ASSUME IInv, NEW w \in Workers, worker[w].at # "idle", NEW attempts \in 0..AttemptBound,
         worker' = [worker EXCEPT ![w] = Idle],
         operation' = [operation EXCEPT ![worker[w].op] =
                         Progress(operation[worker[w].op].status, attempts)],
         UNCHANGED <<aged, done, native, primary, mapping, warehouse, outside>>,
         UNCHANGED <<command, announced>>,
         commandLock' = IF commandLock = w THEN NoWorker ELSE commandLock
  PROVE  IInv'
<1>0. PICK o \in Operations : o = worker[w].op
  BY PassFacts
<1>1. /\ worker'[w] = Idle /\ \A v \in Workers \ {w} : worker'[v] = worker[v]
      /\ worker' \in [Workers -> PassType]
  BY IdleFacts DEF IInv, TypeOK
<1>2. /\ operation' \in [Operations -> [status : Statuses, attempts : 0..AttemptBound]]
      /\ \A p \in Operations : operation'[p].status = operation[p].status
      /\ \A p \in Operations \ {o} : operation'[p] = operation[p]
  <2>1. operation \in [Operations -> [status : Statuses, attempts : 0..AttemptBound]]
    BY DEF IInv, TypeOK
  <2>2. Progress(operation[o].status, attempts) \in [status : Statuses, attempts : 0..AttemptBound]
    BY <2>1 DEF Progress
  <2>3. Progress(operation[o].status, attempts).status = operation[o].status
    BY DEF Progress
  <2> QED
    BY <1>0, <2>1, <2>2, <2>3
<1>3. UNCHANGED <<engine, inFlight, landed>>
  BY DEF outside
<1>4. TablesType' /\ CommandType'
  <2>1. TablesType /\ CommandType
    BY TypeParts DEF IInv
  <2>2. TablesType'
    BY <1>2, <1>3, <2>1 DEF TablesType
  <2>3. commandLock' \in Workers \cup {NoWorker}
    BY <2>1 DEF CommandType
  <2> QED
    BY <2>1, <2>2, <2>3 DEF CommandType
<1>5. \A p \in Operations \ {o} : SameAt(p)
  BY <1>2, <1>3 DEF SameAt
<1>6. RecordOK(o)'
  BY <1>2, <1>3 DEF IInv, RecordInv, RecordOK, Registered
<1>7. StatusOK(Idle)' /\ StepOK(Idle)'
  BY IdleFacts DEF StatusOK, StepOK
<1>8. TypeOK' /\ ClaimInv' /\ PassInv' /\ RecordInv'
  <2>1. landed \subseteq landed' /\ \A v \in Workers \ {w} : worker[v].op # o
    BY <1>0, <1>3, PassFacts
  <2> QED
    BY <1>4, <1>5, <1>6, <1>7, <2>1, IdleFacts, PassStep
<1>9. CommandFollowsStatuses' /\ RevisionInv'
  <2>1. {operation'[p].status : p \in Operations} = {operation[p].status : p \in Operations}
    BY <1>2
  <2> QED
    BY <2>1 DEF IInv, CommandFollowsStatuses, Derive, RevisionInv
<1>10. LockInv'
  <2>1. ASSUME NEW v \in Workers
        PROVE  /\ commandLock' = v <=> worker'[v].at = "projected"
               /\ worker'[v].at = "projected" => worker'[v].derived = Derived(v)'
    <3>1. CASE v = w
      BY <1>1, <3>1, IdleFacts, ProvisioningAssumption
    <3>2. CASE v # w
      <4>1. worker'[v] = worker[v]
        BY <1>1, <3>2
      <4>2. {IF p = worker'[v].op THEN worker'[v].target ELSE operation'[p].status : p \in Operations}
              = {IF p = worker[v].op THEN worker[v].target ELSE operation[p].status : p \in Operations}
        BY <1>2, <4>1
      <4>3. Derived(v)' = Derived(v)
        BY <4>2 DEF Derived, Derive
      <4>4. commandLock' = v <=> commandLock = v
        BY <3>2, ProvisioningAssumption
      <4> QED
        BY <4>1, <4>3, <4>4 DEF IInv, LockInv
    <3> QED
      BY <3>1, <3>2
  <2> QED
    BY <2>1 DEF LockInv
<1> QED
  BY <1>8, <1>9, <1>10 DEF IInv

\* Writing a row back as it was changes nothing.
LEMMA SameProgress ==
  ASSUME IInv, NEW o \in Operations
  PROVE  /\ operation[o].attempts \in 0..AttemptBound
         /\ operation[o].status \in Statuses
         /\ operation = [operation EXCEPT ![o] =
                           Progress(operation[o].status, operation[o].attempts)]
<1>1. operation \in [Operations -> [status : Statuses, attempts : 0..AttemptBound]]
  BY DEF IInv, TypeOK
<1>2. Progress(operation[o].status, operation[o].attempts) = operation[o]
  BY <1>1 DEF Progress
<1> QED
  BY <1>1, <1>2

\* The lock is released after a failure, or with the connection of a worker that died.
LEMMA LeaveStep ==
  ASSUME IInv, NEW w \in Workers, Release(w) \/ Crash(w)
  PROVE  IInv'
<1>1. /\ worker[w].at # "idle" /\ worker' = [worker EXCEPT ![w] = Idle]
      /\ UNCHANGED <<tables, command, announced, outside>>
  BY DEF Release, Crash, At, projection
<1>2. commandLock' = IF commandLock = w THEN NoWorker ELSE commandLock
  <2>1. CASE Crash(w)
    BY <2>1 DEF Crash
  <2>2. CASE Release(w)
    BY <2>2 DEF Release, At, projection, IInv, LockInv
  <2> QED
    BY <2>1, <2>2
<1>3. PICK o \in Operations : o = worker[w].op
  BY <1>1, PassFacts
<1>4. operation' = [operation EXCEPT ![o] =
                      Progress(operation[o].status, operation[o].attempts)]
  BY <1>1, SameProgress DEF tables
<1>5. UNCHANGED <<aged, done, native, primary, mapping, warehouse, outside, command, announced>>
  BY <1>1 DEF tables
<1>6. operation[o].attempts \in 0..AttemptBound
  BY SameProgress
<1> QED
  BY <1>1, <1>2, <1>3, <1>4, <1>5, <1>6, IdleStep

\* A failure is written as a status, any other outcome gives the operation back.
LEMMA SettleStep ==
  ASSUME IInv, NEW w \in Workers, Settle(w)
  PROVE  IInv'
<1>0. PICK o \in Operations : o = worker[w].op
  BY PassFacts DEF Settle, At
<1> DEFINE outcome == Budgeted(o, worker[w].target)
<1>1. /\ worker[w].at = "settle" /\ StatusOK(worker[w])
      /\ UNCHANGED <<aged, done, native, primary, mapping, warehouse, projection, outside>>
      /\ operation[o].attempts \in 0..AttemptBound /\ operation[o].attempts > 0
  BY <1>0, PassFacts, SameProgress DEF Settle, At
<1>2. CASE outcome = "failed"
  <2>1. SetStatus(w, "failed") /\ UNCHANGED <<tables, projection, outside>>
    BY <1>0, <1>1, <1>2 DEF Settle, tables
  <2>2. operation[o].status \in Open
    BY <1>0, <1>1, <1>2 DEF StatusOK, Budgeted
  <2> QED
    BY <1>0, <1>1, <2>1, <2>2, WriteStep DEF Follows, Statuses
<1>3. CASE outcome # "failed"
  <2>1. /\ worker' = [worker EXCEPT ![w] = Idle]
        /\ operation' = [operation EXCEPT ![o] =
             Progress(operation[o].status, Refunded(operation[o].attempts, outcome))]
    BY <1>0, <1>3 DEF Settle
  <2>2. Refunded(operation[o].attempts, outcome) \in 0..AttemptBound
    BY <1>1, ProvisioningAssumption DEF Refunded
  <2>3. commandLock # w
    BY <1>1 DEF IInv, LockInv
  <2> HIDE DEF outcome
  <2> DEFINE attempts == Refunded(operation[o].attempts, outcome)
  <2> HIDE DEF attempts
  <2>4. attempts \in 0..AttemptBound
    BY <2>2 DEF attempts
  <2>5. operation' = [operation EXCEPT ![o] = Progress(operation[o].status, attempts)]
    BY <2>1 DEF attempts
  <2> QED
    BY <1>0, <1>1, <2>1, <2>3, <2>4, <2>5, IdleStep DEF projection
<1> QED
  BY <1>2, <1>3

-----------------------------------------------------------------------------
(* The state of the command. *)

\* What each state says of the statuses it is derived from.
LEMMA DeriveFacts ==
  ASSUME NEW S, S \subseteq Statuses, S # {}
  PROVE  /\ Derive(S) \in States
         /\ Derive(S) = "failed" <=> "failed" \in S
         /\ Derive(S) = "active" <=> \A s \in S : s = "ready"
         /\ Derive(S) = "accepted" <=> \A s \in S : s = "planned"
         /\ Derive(S) = "reconciling" <=>
              /\ \A s \in S : s \in {"ready", "reconciling"}
              /\ \E s \in S : s # "ready"
<1>1. (S = {"ready"} <=> \A s \in S : s = "ready") /\ (S = {"planned"} <=> \A s \in S : s = "planned")
  OBVIOUS
<1>2. \A s \in S : s \in {"planned", "applying", "reconciling", "ready", "failed"}
  BY DEF Statuses, Open
<1>3. S \subseteq {"ready", "reconciling"} <=> \A s \in S : s \in {"ready", "reconciling"}
  OBVIOUS
<1> QED
  BY <1>1, <1>2, <1>3 DEF Derive, States

\* The states a command may be in after one.
Precedes(state, next) ==
  \/ next = "failed" /\ state \notin {"active", "failed"}
  \/ state = "accepted" /\ next \in {"provisioning", "reconciling", "active"}
  \/ state = "provisioning" /\ next \in {"reconciling", "active"}
  \/ state = "reconciling" /\ next = "active"

\* The statuses of the operations, by f.
StatusesOf(f) == {f[p] : p \in Operations}

\* When one operation moves on, the command stays where it is or moves on.
LEMMA DeriveMoves ==
  ASSUME NEW f, NEW g, NEW o \in Operations,
         \A p \in Operations : f[p] \in Statuses /\ g[p] \in Statuses,
         \A p \in Operations \ {o} : g[p] = f[p],
         Follows(f[o], g[o])
  PROVE  \/ Derive(StatusesOf(g)) = Derive(StatusesOf(f))
         \/ Precedes(Derive(StatusesOf(f)), Derive(StatusesOf(g)))
<1> DEFINE F == StatusesOf(f)
           G == StatusesOf(g)
<1>1. F \subseteq Statuses /\ F # {} /\ G \subseteq Statuses /\ G # {}
  BY DEF StatusesOf
<1>2. /\ Derive(F) \in States
      /\ Derive(F) = "failed" <=> \E p \in Operations : f[p] = "failed"
      /\ Derive(F) = "active" <=> \A p \in Operations : f[p] = "ready"
      /\ Derive(F) = "accepted" <=> \A p \in Operations : f[p] = "planned"
      /\ Derive(F) = "reconciling" <=>
           /\ \A p \in Operations : f[p] \in {"ready", "reconciling"}
           /\ \E p \in Operations : f[p] # "ready"
  BY <1>1, DeriveFacts DEF StatusesOf
<1>3. /\ Derive(G) \in States
      /\ Derive(G) = "failed" <=> \E p \in Operations : g[p] = "failed"
      /\ Derive(G) = "active" <=> \A p \in Operations : g[p] = "ready"
      /\ Derive(G) = "accepted" <=> \A p \in Operations : g[p] = "planned"
      /\ Derive(G) = "reconciling" <=>
           /\ \A p \in Operations : g[p] \in {"ready", "reconciling"}
           /\ \E p \in Operations : g[p] # "ready"
  BY <1>1, DeriveFacts DEF StatusesOf
<1> HIDE DEF F, G
<1>4. Derive(F) = Derive(G) \/ Precedes(Derive(F), Derive(G))
  BY <1>2, <1>3 DEF Precedes, States, Follows, Open
<1> QED
  BY <1>4 DEF F, G

\* A pass starts: it is counted, and nobody else is at its operation.
LEMMA BeginStep ==
  ASSUME IInv, NEW w \in Workers, NEW o \in Operations, Begin(w, o)
  PROVE  IInv'
<1>1. /\ worker[w].at = "idle" /\ \A v \in Workers : worker[v].op # o
      /\ operation[o].status \in Open /\ operation[o].attempts < AttemptBound
      /\ UNCHANGED <<aged, done, native, primary, mapping, warehouse, projection, outside>>
  BY DEF Begin, At, NeedsWork
<1>2. PICK attempts \in 0..AttemptBound, status \in Statuses :
        /\ attempts = operation[o].attempts + 1 /\ attempts > 0
        /\ status = operation[o].status
  BY <1>1, SameProgress, ProvisioningAssumption
<1> DEFINE h == Pass("resolve", o, status, 0, "", "")
<1>3. operation' = [operation EXCEPT ![o] = Progress(status, attempts)]
  BY <1>2 DEF Begin
<1>4. /\ operation' \in [Operations -> [status : Statuses, attempts : 0..AttemptBound]]
      /\ operation'[o].attempts = attempts
      /\ \A p \in Operations : operation'[p].status = operation[p].status
      /\ \A p \in Operations \ {o} : operation'[p] = operation[p]
  <2>1. operation \in [Operations -> [status : Statuses, attempts : 0..AttemptBound]]
    BY DEF IInv, TypeOK
  <2>2. /\ Progress(status, attempts) \in [status : Statuses, attempts : 0..AttemptBound]
        /\ Progress(status, attempts).status = status
        /\ Progress(status, attempts).attempts = attempts
    BY DEF Progress
  <2> QED
    BY <1>2, <1>3, <2>1, <2>2
<1>5. /\ h \in PassType /\ h.at = "resolve" /\ h.op = o /\ h.loaded = status
      /\ worker' = [worker EXCEPT ![w] = h]
  BY <1>2 DEF Begin, Pass, PassType, Places, Targets, Ids
<1> HIDE DEF h
<1>6. UNCHANGED <<engine, inFlight, landed>>
  BY <1>1 DEF outside
<1>7. TablesType'
  BY <1>1, <1>4, <1>6, TypeParts DEF IInv, TablesType
<1>8. \A p \in Operations \ {o} : SameAt(p)
  BY <1>1, <1>4, <1>6 DEF SameAt
<1>9. RecordOK(o)'
  BY <1>1, <1>4, <1>6 DEF IInv, RecordInv, RecordOK, Registered
<1>10. StatusOK(h)' /\ StepOK(h)'
  BY <1>1, <1>2, <1>4, <1>5 DEF StatusOK, StepOK
<1>11. CommandType' /\ LockInv' /\ CommandFollowsStatuses' /\ RevisionInv'
  BY <1>1, <1>4, <1>5, LockKept
<1>12. TypeOK' /\ ClaimInv' /\ PassInv' /\ RecordInv'
  BY <1>1, <1>2, <1>4, <1>5, <1>6, <1>7, <1>8, <1>9, <1>10, <1>11, PassStep
<1> QED
  BY <1>11, <1>12 DEF IInv

\* The command's row is locked, and its state derived from what is on record.
LEMMA ProjectStep ==
  ASSUME IInv, NEW w \in Workers, Project(w)
  PROVE  IInv'
<1>0. PICK o \in Operations, loaded \in LoadedStatuses, found \in Ids, target \in Targets :
        o = worker[w].op /\ loaded = worker[w].loaded /\ found = worker[w].found
        /\ target = worker[w].target
  BY PassFacts DEF Project, At
<1>1. /\ worker[w].at = "written" /\ commandLock = NoWorker /\ commandLock' = w
      /\ UNCHANGED <<operation, aged, done, native, primary, mapping, warehouse>>
      /\ UNCHANGED <<engine, inFlight, landed, command, announced>>
  BY DEF Project, At, tables, outside
<1>2. StatusOK(worker[w])
  BY PassFacts
<1>3. target \in Statuses
  BY <1>0, <1>1, <1>2 DEF StatusOK, Follows, Statuses, Open
<1> DEFINE statuses == {IF p = o THEN target ELSE operation[p].status : p \in Operations}
<1>4. PICK derived : derived = Derive(statuses) /\ derived \in States
  <2>1. statuses \subseteq Statuses /\ statuses # {}
    BY <1>3, SameProgress
  <2> QED
    BY <2>1, DeriveFacts
<1> DEFINE h == Pass("projected", o, loaded, found, target, derived)
<1>5. Derived(w) = derived
  BY <1>0, <1>4 DEF Derived
<1>6. worker' = [worker EXCEPT ![w] = h]
  BY <1>0, <1>5 DEF Project, Carry
<1>7. /\ h \in PassType /\ h.at = "projected" /\ h.op = o /\ h.target = target
      /\ h.loaded = loaded /\ h.derived = derived
  BY <1>4 DEF Pass, PassType, LoadedStatuses, DerivedStates, Places
<1> HIDE DEF h
<1>8. /\ worker'[w] = h /\ \A v \in Workers \ {w} : worker'[v] = worker[v]
  BY <1>6, <1>7 DEF IInv, TypeOK
<1>9. TablesType' /\ CommandType'
  BY <1>1, TypeParts DEF IInv, TablesType, CommandType
<1>10. \A p \in Operations : SameAt(p)
  BY <1>1 DEF SameAt
<1>11. RecordOK(o)'
  BY <1>1, <1>10, RecordKept DEF IInv, RecordInv
<1>12. StatusOK(h)' /\ StepOK(h)'
  BY <1>0, <1>1, <1>2, <1>7 DEF StatusOK, StepOK, Registered
<1>13. TypeOK' /\ ClaimInv' /\ PassInv' /\ RecordInv'
  <2>1. operation'[o].attempts > 0 /\ \A v \in Workers \ {w} : worker[v].op # o
    BY <1>0, <1>1, PassFacts
  <2> QED
    BY <1>1, <1>6, <1>7, <1>9, <1>10, <1>11, <1>12, <2>1, PassStep
<1>14. CommandFollowsStatuses' /\ RevisionInv'
  BY <1>1 DEF IInv, CommandFollowsStatuses, RevisionInv
<1>15. LockInv'
  <2>1. Derived(w)' = derived
    <3>1. {IF p = worker'[w].op THEN worker'[w].target ELSE operation'[p].status : p \in Operations}
            = statuses
      BY <1>1, <1>7, <1>8
    <3> QED
      BY <1>4, <3>1 DEF Derived
  <2>2. ASSUME NEW v \in Workers \ {w} PROVE worker'[v].at # "projected"
    BY <1>1, <1>8, ProvisioningAssumption DEF IInv, LockInv
  <2> QED
    BY <1>1, <1>7, <1>8, <2>1, <2>2 DEF LockInv
<1> QED
  BY <1>13, <1>14, <1>15 DEF IInv

\* The revision leaves room for the states that are still to come.
LEMMA RevisionMoves ==
  ASSUME NEW state \in States, NEW next \in States, NEW revision \in 1..4,
         Precedes(state, next),
         state = "accepted" => revision = 1,
         state = "provisioning" => revision <= 2,
         state = "reconciling" => revision <= 3
  PROVE  /\ revision + 1 \in 1..4 /\ next # "accepted"
         /\ next = "provisioning" => revision + 1 <= 2
         /\ next = "reconciling" => revision + 1 <= 3
<1>1. \/ state = "accepted" /\ next \in {"provisioning", "reconciling", "active", "failed"}
      \/ state = "provisioning" /\ next \in {"reconciling", "active", "failed"}
      \/ state = "reconciling" /\ next \in {"active", "failed"}
  BY DEF Precedes, States
<1>2. CASE state = "accepted"
  BY <1>1, <1>2
<1>3. CASE state = "provisioning"
  BY <1>1, <1>3
<1>4. CASE state = "reconciling"
  BY <1>1, <1>4
<1> QED
  BY <1>1, <1>2, <1>3, <1>4

\* A commit of a status that may follow the one on record, for constants that are
\* what the pass holds.
CommitOf(w, o, loaded, found, status, target) ==
  /\ o = worker[w].op /\ loaded = worker[w].loaded /\ found = worker[w].found
  /\ target = worker[w].target /\ status = operation[o].status
  /\ Follows(status, target)
  /\ operation' = [operation EXCEPT ![o] = Progress(target, operation[o].attempts)]
  /\ \A p \in Operations : operation'[p].status = IF p = o THEN target ELSE operation[p].status
  /\ worker[w].derived = Derive({operation'[p].status : p \in Operations})

\* What a pass holds when it commits.
LEMMA CommitFacts ==
  ASSUME IInv, NEW w \in Workers, Commit(w)
  PROVE  \E o \in Operations, loaded \in LoadedStatuses, found \in Ids,
            status, target \in Statuses : CommitOf(w, o, loaded, found, status, target)
<1>0. PICK o \in Operations, loaded \in LoadedStatuses, found \in Ids, target \in Targets,
           status \in Statuses, attempts \in 0..AttemptBound :
        /\ o = worker[w].op /\ loaded = worker[w].loaded /\ found = worker[w].found
        /\ target = worker[w].target
        /\ status = operation[o].status /\ attempts = operation[o].attempts
  BY PassFacts, SameProgress DEF Commit, At
<1>1. /\ worker[w].at = "projected" /\ StatusOK(worker[w]) /\ worker[w].derived = Derived(w)
      /\ operation' = [operation EXCEPT ![o] = Progress(target, attempts)]
  BY <1>0, PassFacts DEF Commit, At, IInv, LockInv
<1>2. Follows(status, target) /\ target \in Statuses
  BY <1>0, <1>1 DEF StatusOK, Follows, Statuses, Open
<1>3. \A p \in Operations : operation'[p].status = IF p = o THEN target ELSE operation[p].status
  <2>1. Progress(target, attempts).status = target
    BY DEF Progress
  <2>2. operation \in [Operations -> [status : Statuses, attempts : 0..AttemptBound]]
    BY DEF IInv, TypeOK
  <2> QED
    BY <1>1, <2>1, <2>2
<1>4. {operation'[p].status : p \in Operations}
        = {IF p = worker[w].op THEN worker[w].target ELSE operation[p].status : p \in Operations}
  <2>1. \A p \in Operations : operation'[p].status
          = IF p = worker[w].op THEN worker[w].target ELSE operation[p].status
    BY <1>0, <1>3
  <2>2. \A s : s \in {operation'[p].status : p \in Operations} <=>
               s \in {IF p = worker[w].op THEN worker[w].target ELSE operation[p].status :
                       p \in Operations}
    BY <2>1
  <2> QED
    BY <2>2
<1>5. worker[w].derived = Derive({operation'[p].status : p \in Operations})
  BY <1>1, <1>4 DEF Derived
<1>6. CommitOf(w, o, loaded, found, status, target)
  BY <1>0, <1>1, <1>2, <1>3, <1>5 DEF CommitOf
<1> QED
  BY <1>2, <1>6

\* A commit leaves the command alone or moves it on, as the statuses have it then.
LEMMA CommitMoves ==
  ASSUME IInv, NEW w \in Workers, Commit(w)
  PROVE  /\ command'.state = Derive({operation'[p].status : p \in Operations})
         /\ command'.state \in States
         /\ \/ UNCHANGED <<command, announced>>
            \/ /\ Precedes(command.state, command'.state)
               /\ command' = [state |-> command'.state, revision |-> command.revision + 1]
               /\ announced' = Append(announced, command'.state)
<1>1. PICK o \in Operations, loaded \in LoadedStatuses, found \in Ids,
           status \in Statuses, target \in Statuses :
        CommitOf(w, o, loaded, found, status, target)
  BY CommitFacts
<1> DEFINE f == [p \in Operations |-> operation[p].status]
           g == [p \in Operations |-> IF p = o THEN target ELSE operation[p].status]
<1>2. /\ command.state = Derive(StatusesOf(f))
      /\ {operation'[p].status : p \in Operations} = StatusesOf(g)
  <2>1. {operation[p].status : p \in Operations} = StatusesOf(f)
    BY DEF StatusesOf
  <2>2. {operation'[p].status : p \in Operations} = StatusesOf(g)
    <3>1. \A p \in Operations : operation'[p].status = g[p]
      BY <1>1 DEF CommitOf
    <3> HIDE DEF g
    <3> QED
      BY <3>1, Zenon DEF StatusesOf
  <2> QED
    BY <2>1, <2>2 DEF IInv, CommandFollowsStatuses
<1>3. /\ \A p \in Operations : f[p] \in Statuses /\ g[p] \in Statuses
      /\ Follows(f[o], g[o]) /\ \A p \in Operations \ {o} : g[p] = f[p]
  BY <1>1, SameProgress DEF CommitOf
<1> HIDE DEF f, g
<1>4. PICK next \in States :
        /\ next = Derive({operation'[p].status : p \in Operations})
        /\ next = command.state \/ Precedes(command.state, next)
  <2>1. Derive(StatusesOf(g)) = command.state \/ Precedes(command.state, Derive(StatusesOf(g)))
    BY <1>2, <1>3, DeriveMoves
  <2>2. StatusesOf(g) \subseteq Statuses /\ StatusesOf(g) # {}
    BY <1>3 DEF StatusesOf
  <2>3. Derive(StatusesOf(g)) \in States
    BY <2>2, DeriveFacts
  <2> QED
    BY <1>2, <2>1, <2>3
<1>5. Advance(next)
  BY <1>1, <1>4 DEF Commit, CommitOf
<1>6. CASE next = command.state
  BY <1>4, <1>5, <1>6 DEF Advance
<1>7. CASE next # command.state
  <2>1. /\ command' = [state |-> next, revision |-> command.revision + 1]
        /\ announced' = Append(announced, next)
    BY <1>5, <1>7 DEF Advance
  <2>2. command'.state = next
    BY <2>1
  <2> QED
    BY <1>4, <1>7, <2>1, <2>2
<1> QED
  BY <1>6, <1>7

\* A status and what follows from it for the command are committed together.
LEMMA CommitStep ==
  ASSUME IInv, NEW w \in Workers, Commit(w)
  PROVE  IInv'
<1>1. PICK o \in Operations, loaded \in LoadedStatuses, found \in Ids,
           status \in Statuses, target \in Statuses :
        CommitOf(w, o, loaded, found, status, target)
  BY CommitFacts
<1>2. /\ worker[w].at = "projected" /\ StatusOK(worker[w]) /\ RecordOK(o)
      /\ UNCHANGED <<aged, done, native, primary, mapping, warehouse, engine, inFlight, landed>>
      /\ commandLock = w /\ commandLock' = NoWorker
  BY PassFacts DEF Commit, At, outside, IInv, RecordInv, LockInv
<1> DEFINE place == After(target)
           outcome == IF target = "ready" THEN "ready" ELSE ""
           h == Pass(place, o, loaded, found, outcome, "")
<1>3. worker' = [worker EXCEPT ![w] = h]
  BY <1>1 DEF Commit, CommitOf, Carry
<1>4. /\ h \in PassType /\ h.at = place /\ h.op = o /\ h.target = outcome /\ h.loaded = loaded
      /\ place \in {"apply", "check", "settle", "release"}
  BY DEF Pass, PassType, LoadedStatuses, DerivedStates, After, Places, Targets, Statuses
<1> HIDE DEF h
<1>5. worker'[w] = h /\ \A v \in Workers \ {w} : worker'[v] = worker[v]
  BY <1>3, <1>4 DEF IInv, TypeOK
<1>6. /\ operation' \in [Operations -> [status : Statuses, attempts : 0..AttemptBound]]
      /\ operation'[o].status = target /\ operation'[o].attempts > 0
      /\ \A p \in Operations \ {o} : operation'[p] = operation[p]
  <2>1. operation \in [Operations -> [status : Statuses, attempts : 0..AttemptBound]]
    BY DEF IInv, TypeOK
  <2>2. PICK attempts \in 0..AttemptBound : attempts = operation[o].attempts /\ attempts > 0
    BY <1>1, <1>2, <2>1, PassFacts DEF CommitOf
  <2>3. /\ Progress(target, attempts) \in [status : Statuses, attempts : 0..AttemptBound]
        /\ Progress(target, attempts).status = target
        /\ Progress(target, attempts).attempts = attempts
    BY DEF Progress
  <2> QED
    BY <1>1, <2>1, <2>2, <2>3 DEF CommitOf
<1>7. Follows(status, target) /\ status = operation[o].status
      /\ (target = "applying" => loaded # "reconciling")
      /\ (target = "reconciling" => done[o] = Steps /\ Registered(o))
  BY <1>1, <1>2 DEF CommitOf, StatusOK
<1>8. \A p \in Operations \ {o} : SameAt(p)
  BY <1>2, <1>6 DEF SameAt
<1>9. RecordOK(o)'
  BY <1>2, <1>6, <1>7 DEF RecordOK, Registered, Follows, Open
<1>10. StatusOK(h)' /\ StepOK(h)'
  <2>1. StepOK(h)'
    BY <1>4 DEF StepOK
  <2>2. target \in {"applying", "reconciling", "ready", "failed"}
    BY <1>7 DEF Follows
  <2>3. StatusOK(h)'
    BY <1>4, <1>6, <1>7, <2>2 DEF StatusOK, After
  <2> QED
    BY <2>1, <2>3
<1>11. CommandType' /\ RevisionInv' /\ CommandFollowsStatuses'
  <2>1. /\ command \in [state : States, revision : 1..4] /\ announced \in Seq(States)
        /\ RevisionInv
    BY DEF IInv, TypeOK
  <2>2. PICK next \in States : next = command'.state
    BY CommitMoves
  <2>5. CommandFollowsStatuses'
    BY CommitMoves DEF CommandFollowsStatuses
  <2>3. commandLock' \in Workers \cup {NoWorker}
    BY <1>2
  <2>4. CASE UNCHANGED <<command, announced>>
    <3>1. command' = command /\ announced' = announced
      BY <2>4
    <3> QED
      BY <2>1, <2>3, <2>5, <3>1 DEF CommandType, RevisionInv
  <2>6. CASE /\ Precedes(command.state, next)
             /\ command' = [state |-> next, revision |-> command.revision + 1]
             /\ announced' = Append(announced, next)
    <3>1. announced' \in Seq(States)
      BY <2>1, <2>6, AppendProperties
    <3>2. PICK state \in States, revision \in 1..4 :
            state = command.state /\ revision = command.revision
      BY <2>1
    <3>3. /\ Precedes(state, next)
          /\ state = "accepted" => revision = 1
          /\ state = "provisioning" => revision <= 2
          /\ state = "reconciling" => revision <= 3
      BY <2>1, <2>6, <3>2 DEF RevisionInv
    <3>4. revision + 1 \in 1..4 /\ next # "accepted"
          /\ (next = "provisioning" => revision + 1 <= 2)
          /\ (next = "reconciling" => revision + 1 <= 3)
      BY <3>3, RevisionMoves
    <3>5. command' = [state |-> next, revision |-> revision + 1]
      BY <2>6, <3>2
    <3>6. command' \in [state : States, revision : 1..4]
      BY <3>4, <3>5
    <3>7. command'.state = next /\ command'.revision = revision + 1
      BY <3>5
    <3> QED
      BY <2>3, <2>5, <3>1, <3>4, <3>6, <3>7 DEF CommandType, RevisionInv
  <2> QED
    BY <2>2, <2>4, <2>5, <2>6, CommitMoves
<1>12. TypeOK' /\ ClaimInv' /\ PassInv' /\ RecordInv'
  <2>1. \A v \in Workers \ {w} : worker[v].op # o
    BY <1>1, <1>2, PassFacts DEF CommitOf
  <2>2. TablesType'
    BY <1>2, <1>6, TypeParts DEF IInv, TablesType
  <2> QED
    BY <1>2, <1>3, <1>4, <1>6, <1>8, <1>9, <1>10, <1>11, <2>1, <2>2, PassStep
<1>13. LockInv'
  BY <1>2, <1>4, <1>5, ProvisioningAssumption DEF IInv, LockInv
<1> QED
  BY <1>11, <1>12, <1>13 DEF IInv

-----------------------------------------------------------------------------
(* The steps that leave a trace on record. *)

\* What a worker on a pass holds, as constants of a step.
Holds(w, o, loaded, found, target, derived) ==
  /\ o = worker[w].op /\ loaded = worker[w].loaded /\ found = worker[w].found
  /\ target = worker[w].target /\ derived = worker[w].derived

\* Every worker on a pass holds something.
LEMMA HoldsSome ==
  ASSUME IInv, NEW w \in Workers, worker[w].at # "idle"
  PROVE  \E o \in Operations, loaded \in LoadedStatuses, found \in Ids, target \in Targets,
            derived \in DerivedStates : Holds(w, o, loaded, found, target, derived)
BY PassFacts DEF Holds

\* A pass that goes on is in order if what it has written of its operation is.
LEMMA TraceStep ==
  ASSUME IInv, NEW w \in Workers, NEW o \in Operations, o = worker[w].op,
         worker[w].at \notin {"idle", "projected"},
         NEW place \in Places \ {"idle", "projected"}, NEW loaded \in LoadedStatuses,
         NEW found \in Ids, NEW target \in Targets, NEW derived \in DerivedStates,
         worker' = [worker EXCEPT ![w] = Pass(place, o, loaded, found, target, derived)],
         UNCHANGED <<operation, projection, landed>>,
         \A p \in Operations \ {o} : SameAt(p),
         TablesType', RecordOK(o)',
         StatusOK(Pass(place, o, loaded, found, target, derived))',
         StepOK(Pass(place, o, loaded, found, target, derived))'
  PROVE  IInv'
<1> DEFINE h == Pass(place, o, loaded, found, target, derived)
<1>1. h \in PassType /\ h.at = place /\ h.op = o
  <2>1. place \in Places
    OBVIOUS
  <2> QED
    BY <2>1 DEF Pass, PassType, LoadedStatuses, DerivedStates
<1>2. StatusOK(h)' /\ StepOK(h)' /\ worker' = [worker EXCEPT ![w] = h]
  OBVIOUS
<1> HIDE DEF h
<1>3. operation'[o].attempts > 0 /\ \A v \in Workers \ {w} : worker[v].op # o
  BY PassFacts
<1>4. CommandType' /\ LockInv' /\ CommandFollowsStatuses' /\ RevisionInv'
  BY <1>1, <1>2, LockKept
<1>5. TypeOK' /\ ClaimInv' /\ PassInv' /\ RecordInv'
  BY <1>1, <1>2, <1>3, <1>4, PassStep
<1> QED
  BY <1>4, <1>5 DEF IInv

\* What the engine's work changes.
LEMMA WorkedFacts ==
  ASSUME engine \in [Operations -> [Steps -> Ids]], NEW o \in Operations, NEW i \in Steps,
         Worked(o, i)
  PROVE  /\ engine' \in [Operations -> [Steps -> Ids]]
         /\ \A p \in Operations \ {o} : engine'[p] = engine[p]
         /\ \A j \in Steps \ {i} : engine'[o][j] = engine[o][j]
         /\ engine'[o][i] > 0
         /\ engine[o][i] = 0 => engine'[o][i] = 1
         /\ \A p \in Operations, j \in Steps : engine[p][j] > 0 => engine'[p][j] > 0
BY DEF Worked, Ids

\* The step a pass is at is the only first one, and its operation is still applying.
LEMMA AtStepFacts ==
  ASSUME IInv, NEW w \in Workers, NEW i \in Steps, AtStep(w, i)
  PROVE  /\ worker[w].at = "apply" /\ First(worker[w].op, i)
         /\ \A j \in Steps : First(worker[w].op, j) => j = i
         /\ operation[worker[w].op].status = "applying"
         /\ worker[w].loaded # "reconciling"
<1>1. worker[w].at = "apply" /\ First(worker[w].op, i)
  BY DEF AtStep, At, First
<1>2. \A j \in Steps : First(worker[w].op, j) => j = i
  BY <1>1, PlanFacts DEF First, Pending
<1>3. worker[w].op \in Operations /\ StatusOK(worker[w])
  BY <1>1, PassFacts
<1>4. RecordOK(worker[w].op)
  BY <1>3 DEF IInv, RecordInv
<1> QED
  BY <1>1, <1>2, <1>3, <1>4 DEF StatusOK, RecordOK, First, Pending

\* The engine does the work of a step: it makes the first record, or configures again.
LEMMA EngineStep ==
  ASSUME IInv, NEW w \in Workers, NEW i \in Steps, Create(w, i) \/ Execute(w, i)
  PROVE  IInv'
<1>1. AtStep(w, i) /\ Plan[i] # "mapping"
  BY PlanFacts DEF Create, Execute
<1>2. PICK o \in Operations, loaded \in LoadedStatuses, found \in Ids, target \in Targets,
           derived \in DerivedStates : Holds(w, o, loaded, found, target, derived)
  BY <1>1, AtStepFacts, HoldsSome
<1>3. /\ First(o, i) /\ \A j \in Steps : First(o, j) => j = i
      /\ worker[w].at = "apply" /\ operation[o].status = "applying" /\ loaded # "reconciling"
  BY <1>1, <1>2, AtStepFacts DEF Holds
<1>4. /\ Worked(o, i) /\ UNCHANGED <<tables, projection, inFlight, landed>>
      /\ Created(Plan[i]) => engine[o][i] = 0
      /\ worker' = [worker EXCEPT ![w] = Pass("found", o, loaded, 1, target, derived)]
  BY <1>2, PlanFacts DEF Create, Execute, Found, Carry, Holds
<1>5. UNCHANGED <<operation, aged, done, native, primary, mapping, warehouse>>
  BY <1>4 DEF tables
<1>6. TablesType
  BY TypeParts DEF IInv
<1>7. /\ engine' \in [Operations -> [Steps -> Ids]]
      /\ \A p \in Operations \ {o} : engine'[p] = engine[p]
      /\ \A j \in Steps \ {i} : engine'[o][j] = engine[o][j]
      /\ engine'[o][i] > 0
      /\ engine[o][i] = 0 => engine'[o][i] = 1
      /\ \A j \in Steps : engine[o][j] > 0 => engine'[o][j] > 0
  BY <1>4, <1>6, WorkedFacts DEF TablesType
<1>8. TablesType'
  BY <1>4, <1>5, <1>6, <1>7 DEF TablesType
<1>9. \A p \in Operations \ {o} : SameAt(p)
  BY <1>5, <1>7 DEF SameAt
<1>10. RecordOK(o)'
  <2>1. \A j \in Steps : Created(Plan[j]) /\ engine'[o][j] > 1 => <<o, j>> \in landed'
    <3>1. ASSUME NEW j \in Steps, Created(Plan[j]), engine'[o][j] > 1, j # i
          PROVE  <<o, j>> \in landed'
      BY <1>4, <1>7, <3>1 DEF IInv, RecordInv, RecordOK
    <3>2. ~(Created(Plan[i]) /\ engine'[o][i] > 1)
      <4>1. Created(Plan[i]) => engine'[o][i] = 1
        BY <1>4, <1>7
      <4>2. ~(1 > 1)
        OBVIOUS
      <4> QED
        BY <4>1, <4>2
    <3> QED
      BY <3>1, <3>2
  <2> QED
    BY <1>5, <1>7, <2>1 DEF IInv, RecordInv, RecordOK, Registered
<1> DEFINE h == Pass("found", o, loaded, 1, target, derived)
<1>11. h.at = "found" /\ h.op = o /\ h.loaded = loaded /\ h.found = 1
  BY DEF Pass
<1> HIDE DEF h
<1>12. StatusOK(h)' /\ StepOK(h)'
  <2>1. StatusOK(h)'
    BY <1>3, <1>5, <1>11 DEF StatusOK
  <2>2. \A j \in Steps : First(o, j)' => First(o, j)
    BY <1>5 DEF First, Pending
  <2>3. StepOK(h)'
    <3>1. \A j \in Steps : First(o, j)' => Plan[j] # "mapping" /\ engine'[o][j] > 0
      BY <1>1, <1>3, <1>7, <2>2
    <3> QED
      BY <1>11, <3>1 DEF StepOK
  <2> QED
    BY <2>1, <2>3
<1>13. "found" \in Places \ {"idle", "projected"} /\ 1 \in Ids /\ o = worker[w].op
  BY <1>2 DEF Places, Ids, Holds
<1> QED
  BY <1>3, <1>4, <1>5, <1>8, <1>9, <1>10, <1>12, <1>13, TraceStep DEF h

\* The id of the record that was found or made is recorded.
LEMMA RecordIdStep ==
  ASSUME IInv, NEW w \in Workers, NEW i \in Steps, RecordId(w, i)
  PROVE  IInv'
<1>1. PICK o \in Operations, loaded \in LoadedStatuses, found \in Ids, target \in Targets,
           derived \in DerivedStates : Holds(w, o, loaded, found, target, derived)
  BY HoldsSome DEF RecordId, At
<1> DEFINE place == IF i = 1 THEN "alias" ELSE "mark"
<1>2. /\ worker[w].at = "found" /\ First(o, i)
      /\ native' = [native EXCEPT ![o][i] = found]
      /\ worker' = [worker EXCEPT ![w] = Pass(place, o, loaded, found, target, derived)]
      /\ UNCHANGED <<operation, aged, done, primary, mapping, warehouse, projection>>
      /\ UNCHANGED <<engine, inFlight, landed>>
  BY <1>1, PlanFacts DEF RecordId, At, First, Goto, Carry, Holds, outside
<1>3. \A j \in Steps : First(o, j) => j = i
  BY <1>2, PlanFacts DEF First, Pending
<1>4. /\ operation[o].status = "applying" /\ loaded # "reconciling" /\ found # 0
      /\ Plan[i] # "mapping" /\ engine[o][i] > 0
  BY <1>1, <1>2, PassFacts DEF StatusOK, StepOK, Holds
<1>5. TablesType
  BY TypeParts DEF IInv
<1>6. /\ native' \in [Operations -> [Steps -> Ids]]
      /\ \A p \in Operations \ {o} : native'[p] = native[p]
      /\ native'[o][i] = found /\ \A j \in Steps \ {i} : native'[o][j] = native[o][j]
  BY <1>2, <1>5 DEF TablesType
<1>7. TablesType'
  BY <1>2, <1>5, <1>6 DEF TablesType
<1>8. \A p \in Operations \ {o} : SameAt(p)
  BY <1>2, <1>6 DEF SameAt
<1>9. RecordOK(o)'
  <2>1. RecordOK(o) /\ i \notin done[o] /\ done[o] \subseteq Steps
    BY <1>2, <1>5 DEF IInv, RecordInv, First, Pending, TablesType
  <2>2. \A j \in Steps : native'[o][j] # 0 /\ Plan[j] # "mapping" => engine'[o][j] > 0
    BY <1>2, <1>4, <1>6, <2>1 DEF RecordOK
  <2>3. \A j \in done[o] : native'[o][j] # 0 /\ native'[o][j] = native[o][j]
    BY <1>6, <2>1 DEF RecordOK
  <2> QED
    BY <1>2, <1>4, <2>1, <2>2, <2>3 DEF RecordOK
<1> DEFINE h == Pass(place, o, loaded, found, target, derived)
<1>10. h.at = place /\ h.op = o /\ h.loaded = loaded
  BY DEF Pass
<1> HIDE DEF h
<1>11. StatusOK(h)'
  BY <1>2, <1>4, <1>10 DEF StatusOK
<1>12. StepOK(h)'
  <2>1. \A j \in Steps : First(o, j)' => j = i
    BY <1>2, <1>3 DEF First, Pending
  <2>2. CASE i = 1
    BY <1>2, <1>4, <1>6, <1>10, <2>2 DEF StepOK, First, Pending
  <2>3. CASE i # 1
    <3>1. \A j \in Steps : First(o, j)' =>
            Plan[j] # "mapping" /\ native'[o][j] # 0 /\ j # 1
      BY <1>4, <1>6, <2>1, <2>3
    <3> QED
      BY <1>10, <2>3, <3>1 DEF StepOK
  <2> QED
    BY <2>2, <2>3
<1>13. place \in Places \ {"idle", "projected"} /\ o = worker[w].op
  BY <1>1 DEF Places, Holds
<1> HIDE DEF place
<1> QED
  BY <1>2, <1>7, <1>8, <1>9, <1>11, <1>12, <1>13, TraceStep DEF h

\* The alias of the client is put before its step is marked.
LEMMA PutAliasStep ==
  ASSUME IInv, NEW w \in Workers, PutAlias(w)
  PROVE  IInv'
<1>1. PICK o \in Operations, loaded \in LoadedStatuses, found \in Ids, target \in Targets,
           derived \in DerivedStates : Holds(w, o, loaded, found, target, derived)
  BY HoldsSome DEF PutAlias, At
<1>2. /\ worker[w].at = "alias"
      /\ primary' = [primary EXCEPT ![o] = native[o][1]]
      /\ worker' = [worker EXCEPT ![w] = Pass("mark", o, loaded, found, target, derived)]
      /\ UNCHANGED <<operation, aged, done, native, mapping, warehouse, projection>>
      /\ UNCHANGED <<engine, inFlight, landed>>
  BY <1>1 DEF PutAlias, At, Goto, Carry, Holds, outside
<1>3. /\ operation[o].status = "applying" /\ loaded # "reconciling"
      /\ 1 \in Pending(o) /\ native[o][1] # 0
  BY <1>1, <1>2, PassFacts DEF StatusOK, StepOK, Holds
<1>4. TablesType
  BY TypeParts DEF IInv
<1>5. /\ primary' \in [Operations -> Ids] /\ primary'[o] = native[o][1]
      /\ \A p \in Operations \ {o} : primary'[p] = primary[p]
  <2>1. native[o][1] \in Ids
    <3>1. 1 \in Steps
      BY PlanFacts
    <3> QED
      BY <1>4, <3>1 DEF TablesType
  <2> QED
    BY <1>2, <1>4, <2>1 DEF TablesType
<1>6. TablesType'
  BY <1>2, <1>4, <1>5 DEF TablesType
<1>7. \A p \in Operations \ {o} : SameAt(p)
  BY <1>2, <1>5 DEF SameAt
<1>8. RecordOK(o)'
  <2>1. RecordOK(o) /\ done[o] # Steps /\ 1 \notin done[o]
    BY <1>3, PlanFacts DEF IInv, RecordInv, Pending
  <2> QED
    BY <1>2, <1>3, <2>1 DEF RecordOK
<1> DEFINE h == Pass("mark", o, loaded, found, target, derived)
<1>9. h.at = "mark" /\ h.op = o /\ h.loaded = loaded
  BY DEF Pass
<1> HIDE DEF h
<1>10. StatusOK(h)'
  BY <1>2, <1>3, <1>9 DEF StatusOK
<1>11. StepOK(h)'
  <2>1. \A j \in Steps : First(o, j)' => j = 1
    BY <1>2, <1>3, PlanFacts DEF First, Pending
  <2>2. Plan[1] # "mapping"
    BY PlanFacts
  <2>3. \A j \in Steps : First(o, j)' =>
          /\ Plan[j] # "mapping" /\ native'[o][j] # 0
          /\ primary'[o] = native'[o][1]
    BY <1>2, <1>3, <1>5, <2>1, <2>2
  <2> QED
    BY <1>9, <2>3 DEF StepOK
<1>12. "mark" \in Places \ {"idle", "projected"} /\ o = worker[w].op
  BY <1>1 DEF Places, Holds
<1> QED
  BY <1>2, <1>6, <1>7, <1>8, <1>10, <1>11, <1>12, TraceStep DEF h

\* A step is recorded as completed once everything else about it is on record.
LEMMA MarkDoneStep ==
  ASSUME IInv, NEW w \in Workers, NEW i \in Steps, MarkStep(w, i)
  PROVE  IInv'
<1>1. PICK o \in Operations, loaded \in LoadedStatuses, found \in Ids, target \in Targets,
           derived \in DerivedStates : Holds(w, o, loaded, found, target, derived)
  BY HoldsSome DEF MarkStep, At
<1>2. /\ worker[w].at = "mark" /\ First(o, i)
      /\ done' = [done EXCEPT ![o] = done[o] \cup {i}]
      /\ worker' = [worker EXCEPT ![w] = Pass("apply", o, loaded, found, target, derived)]
      /\ UNCHANGED <<operation, aged, native, primary, mapping, warehouse, projection>>
      /\ UNCHANGED <<engine, inFlight, landed>>
  BY <1>1 DEF MarkStep, At, First, Goto, Carry, Holds, outside
<1>3. /\ operation[o].status = "applying" /\ loaded # "reconciling"
      /\ Plan[i] # "mapping" /\ native[o][i] # 0
      /\ i = 1 => primary[o] = native[o][1]
  BY <1>1, <1>2, PassFacts DEF StatusOK, StepOK, Holds
<1>4. TablesType
  BY TypeParts DEF IInv
<1>5. /\ done' \in [Operations -> SUBSET Steps] /\ done'[o] = done[o] \cup {i}
      /\ \A p \in Operations \ {o} : done'[p] = done[p]
  BY <1>2, <1>4 DEF TablesType
<1>6. TablesType'
  BY <1>2, <1>4, <1>5 DEF TablesType
<1>7. \A p \in Operations \ {o} : SameAt(p)
  BY <1>2, <1>5 DEF SameAt
<1>8. RecordOK(o)'
  <2>1. RecordOK(o) /\ done[o] # Steps /\ i # Len(Plan)
    BY <1>2, <1>3, PlanFacts DEF IInv, RecordInv, First, Pending
  <2>2. Len(Plan) \notin done'[o] /\ mapping[o] \notin {1, 2}
    BY <1>5, <2>1 DEF RecordOK
  <2> QED
    BY <1>2, <1>3, <1>5, <2>1, <2>2 DEF RecordOK
<1> DEFINE h == Pass("apply", o, loaded, found, target, derived)
<1>9. h.at = "apply" /\ h.op = o /\ h.loaded = loaded
  BY DEF Pass
<1> HIDE DEF h
<1>10. StatusOK(h)' /\ StepOK(h)'
  BY <1>2, <1>3, <1>9 DEF StatusOK, StepOK
<1>11. "apply" \in Places \ {"idle", "projected"} /\ o = worker[w].op
  BY <1>1 DEF Places, Holds
<1> QED
  BY <1>2, <1>6, <1>7, <1>8, <1>10, <1>11, TraceStep DEF h

\* The mapping step marks itself first.
LEMMA MarkMappingStep ==
  ASSUME IInv, NEW w \in Workers, NEW i \in Steps, MarkMapping(w, i)
  PROVE  IInv'
<1>1. PICK o \in Operations, loaded \in LoadedStatuses, found \in Ids, target \in Targets,
           derived \in DerivedStates : Holds(w, o, loaded, found, target, derived)
  BY AtStepFacts, HoldsSome DEF MarkMapping
<1>2. /\ AtStep(w, i) /\ i = Len(Plan)
      /\ native' = [native EXCEPT ![o][i] = 1]
      /\ worker' = [worker EXCEPT ![w] = Pass("confirm", o, loaded, found, target, derived)]
      /\ UNCHANGED <<operation, aged, done, primary, mapping, warehouse, projection>>
      /\ UNCHANGED <<engine, inFlight, landed>>
  BY <1>1, PlanFacts DEF MarkMapping, Goto, Carry, Holds, outside
<1>3. /\ First(o, i) /\ worker[w].at = "apply"
      /\ operation[o].status = "applying" /\ loaded # "reconciling"
  BY <1>1, <1>2, AtStepFacts DEF Holds
<1>4. TablesType
  BY TypeParts DEF IInv
<1>5. /\ native' \in [Operations -> [Steps -> Ids]]
      /\ \A p \in Operations \ {o} : native'[p] = native[p]
      /\ native'[o][i] = 1 /\ \A j \in Steps \ {i} : native'[o][j] = native[o][j]
  <2>1. 1 \in Ids
    BY DEF Ids
  <2> QED
    BY <1>2, <1>4, <2>1 DEF TablesType
<1>6. TablesType'
  BY <1>2, <1>4, <1>5 DEF TablesType
<1>7. \A p \in Operations \ {o} : SameAt(p)
  BY <1>2, <1>5 DEF SameAt
<1>8. RecordOK(o)'
  <2>1. RecordOK(o) /\ i # 1 /\ Plan[i] = "mapping" /\ 1 \in Steps /\ done[o] \subseteq Steps
    BY <1>2, <1>4, PlanFacts DEF IInv, RecordInv, TablesType
  <2>2. \A j \in Steps : native'[o][j] # 0 /\ Plan[j] # "mapping" => engine'[o][j] > 0
    BY <1>2, <1>5, <2>1 DEF RecordOK
  <2>3. (\A j \in done[o] : native'[o][j] # 0) /\ native'[o][1] = native[o][1]
    BY <1>5, <2>1 DEF RecordOK
  <2> QED
    BY <1>2, <1>3, <2>1, <2>2, <2>3 DEF RecordOK
<1> DEFINE h == Pass("confirm", o, loaded, found, target, derived)
<1>9. h.at = "confirm" /\ h.op = o /\ h.loaded = loaded
  BY DEF Pass
<1> HIDE DEF h
<1>10. StatusOK(h)'
  BY <1>2, <1>3, <1>9 DEF StatusOK
<1>11. StepOK(h)'
  <2>1. Pending(o)' = {Len(Plan)}
    BY <1>2, <1>3, PlanFacts DEF First, Pending
  <2>2. native'[o][Len(Plan)] # 0
    BY <1>2, <1>5
  <2> QED
    BY <1>9, <2>1, <2>2 DEF StepOK
<1>12. "confirm" \in Places \ {"idle", "projected"} /\ o = worker[w].op
  BY <1>1 DEF Places, Holds
<1> QED
  BY <1>2, <1>3, <1>6, <1>7, <1>8, <1>10, <1>11, <1>12, TraceStep DEF h

\* The tenant mapping and the last step commit together.
LEMMA ConfirmMappingStep ==
  ASSUME IInv, NEW w \in Workers, ConfirmMapping(w)
  PROVE  IInv'
<1>1. PICK o \in Operations, loaded \in LoadedStatuses, found \in Ids, target \in Targets,
           derived \in DerivedStates : Holds(w, o, loaded, found, target, derived)
  BY HoldsSome DEF ConfirmMapping, At
<1>2. /\ worker[w].at = "confirm"
      /\ mapping' = [mapping EXCEPT ![o] = primary[o]]
      /\ done' = [done EXCEPT ![o] = done[o] \cup {Len(Plan)}]
      /\ worker' = [worker EXCEPT ![w] = Pass("apply", o, loaded, found, target, derived)]
      /\ UNCHANGED <<operation, aged, native, primary, warehouse, projection>>
      /\ UNCHANGED <<engine, inFlight, landed>>
  BY <1>1 DEF ConfirmMapping, At, Goto, Carry, Holds, outside
<1>3. /\ operation[o].status = "applying" /\ loaded # "reconciling"
      /\ Pending(o) = {Len(Plan)} /\ native[o][Len(Plan)] # 0
  BY <1>1, <1>2, PassFacts DEF StatusOK, StepOK, Holds
<1>4. TablesType
  BY TypeParts DEF IInv
<1>5. /\ done'[o] = Steps /\ done' \in [Operations -> SUBSET Steps]
      /\ mapping'[o] = primary[o] /\ mapping' \in [Operations -> Ids \cup {Foreign}]
      /\ \A p \in Operations \ {o} : done'[p] = done[p] /\ mapping'[p] = mapping[p]
  <2>1. done[o] \cup {Len(Plan)} = Steps
    BY <1>3, <1>4, PlanFacts DEF Pending, TablesType
  <2>2. primary[o] \in Ids
    BY <1>4 DEF TablesType
  <2> QED
    BY <1>2, <1>4, <2>1, <2>2 DEF TablesType
<1>6. TablesType'
  BY <1>2, <1>4, <1>5 DEF TablesType
<1>7. \A p \in Operations \ {o} : SameAt(p)
  BY <1>2, <1>5 DEF SameAt
<1>8. RecordOK(o)'
  <2>1. RecordOK(o) /\ 1 \in done[o]
    BY <1>3, PlanFacts DEF IInv, RecordInv, Pending
  <2>2. \A j \in Steps : native[o][j] # 0
    BY <1>3, <2>1 DEF RecordOK, Pending
  <2> QED
    BY <1>2, <1>3, <1>5, <2>1, <2>2 DEF RecordOK
<1> DEFINE h == Pass("apply", o, loaded, found, target, derived)
<1>9. h.at = "apply" /\ h.op = o /\ h.loaded = loaded
  BY DEF Pass
<1> HIDE DEF h
<1>10. StatusOK(h)' /\ StepOK(h)'
  BY <1>2, <1>3, <1>9 DEF StatusOK, StepOK
<1>11. "apply" \in Places \ {"idle", "projected"} /\ o = worker[w].op
  BY <1>1 DEF Places, Holds
<1> QED
  BY <1>2, <1>6, <1>7, <1>8, <1>10, <1>11, TraceStep DEF h

\* What registration makes of a warehouse's identity.
LEMMA IdentityFacts ==
  ASSUME IInv, NEW o \in Operations, NEW i \in Warehouses, i \in done[o]
  PROVE  /\ Identity(o, i) \in [id : Ids, announced : 0..2]
         /\ Identity(o, i).id = native[o][i] /\ Identity(o, i).id # 0
         /\ Identity(o, i).announced = IF o \in Untimed THEN 0 ELSE 1
<1>1. RecordOK(o) /\ TablesType /\ i \in Steps
  BY TypeParts, PlanFacts DEF IInv, RecordInv
<1>2. native[o][i] \in Ids /\ native[o][i] # 0 /\ warehouse[o][i].announced \in 0..2
  BY <1>1 DEF RecordOK, TablesType
<1>3. warehouse[o][i].announced = IF warehouse[o][i].id = 0 \/ o \in Untimed THEN 0 ELSE 1
  BY <1>1 DEF RecordOK
<1>4. Identity(o, i).announced = IF o \in Untimed THEN 0 ELSE 1
  BY <1>2, <1>3 DEF Identity, Announcements
<1>5. Identity(o, i).id = native[o][i]
  BY DEF Identity
<1>6. Identity(o, i) \in [id : Ids, announced : 0..2]
  <2>1. PICK n : n = Identity(o, i).announced /\ n \in 0..2
    BY <1>4
  <2>2. Identity(o, i) = [id |-> native[o][i], announced |-> n]
    BY <2>1 DEF Identity
  <2> QED
    BY <1>2, <2>1, <2>2
<1> QED
  BY <1>2, <1>4, <1>5, <1>6

\* The identities of the warehouses are registered before the operation can be ready.
LEMMA RegisterStep ==
  ASSUME IInv, NEW w \in Workers, Register(w)
  PROVE  IInv'
<1>1. PICK o \in Operations, loaded \in LoadedStatuses, found \in Ids, target \in Targets,
           derived \in DerivedStates : Holds(w, o, loaded, found, target, derived)
  BY HoldsSome DEF Register, At
<1> DEFINE place == IF loaded = "reconciling" THEN "check" ELSE "written"
           status == IF loaded = "reconciling" THEN target ELSE "reconciling"
<1>2. /\ worker[w].at = "apply" /\ Pending(o) = {}
      /\ warehouse' = [warehouse EXCEPT ![o] = [i \in Warehouses |-> Identity(o, i)]]
      /\ worker' = [worker EXCEPT ![w] = Pass(place, o, loaded, found, status, derived)]
      /\ UNCHANGED <<operation, aged, done, native, primary, mapping, projection>>
      /\ UNCHANGED <<engine, inFlight, landed>>
  BY <1>1 DEF Register, At, Goto, SetStatus, Carry, Holds, outside
<1>3. /\ operation[o].status \in {"applying", "reconciling"}
      /\ loaded = "reconciling" <=> operation[o].status = "reconciling"
  BY <1>1, <1>2, PassFacts DEF StatusOK, Holds
<1>4. TablesType /\ RecordOK(o)
  BY TypeParts DEF IInv, RecordInv
<1>5. done[o] = Steps
  BY <1>2, <1>4 DEF Pending, TablesType
<1>6. \A i \in Warehouses :
        /\ Identity(o, i) \in [id : Ids, announced : 0..2]
        /\ Identity(o, i).id = native[o][i] /\ Identity(o, i).id # 0
        /\ Identity(o, i).announced = IF o \in Untimed THEN 0 ELSE 1
  BY <1>5, PlanFacts, IdentityFacts
<1>7. /\ warehouse' \in [Operations -> [Warehouses -> [id : Ids, announced : 0..2]]]
      /\ \A i \in Warehouses : warehouse'[o][i] = Identity(o, i)
      /\ \A p \in Operations \ {o} : warehouse'[p] = warehouse[p]
  BY <1>2, <1>4, <1>6 DEF TablesType
<1>8. TablesType'
  BY <1>2, <1>4, <1>7 DEF TablesType
<1>9. \A p \in Operations \ {o} : SameAt(p)
  BY <1>2, <1>7 DEF SameAt
<1>10. Registered(o)'
  BY <1>2, <1>6, <1>7 DEF Registered
<1>11. RecordOK(o)'
  <2>1. \A i \in Warehouses :
          warehouse'[o][i].announced
            = IF warehouse'[o][i].id = 0 \/ o \in Untimed THEN 0 ELSE 1
    BY <1>6, <1>7
  <2> QED
    BY <1>2, <1>4, <1>5, <1>10, <2>1 DEF RecordOK
<1> DEFINE h == Pass(place, o, loaded, found, status, derived)
<1>12. h.at = place /\ h.op = o /\ h.loaded = loaded /\ h.target = status
  BY DEF Pass
<1> HIDE DEF h
<1>13. StatusOK(h)'
  <2>1. CASE loaded = "reconciling"
    <3>1. h.at = "check" /\ operation'[o].status = "reconciling"
      BY <1>2, <1>3, <1>12, <2>1
    <3> QED
      BY <1>12, <3>1 DEF StatusOK
  <2>2. CASE loaded # "reconciling"
    <3>1. h.at = "written" /\ h.target = "reconciling" /\ operation'[o].status = "applying"
      BY <1>2, <1>3, <1>12, <2>2
    <3>2. Follows("applying", "reconciling") /\ done'[o] = Steps
      BY <1>2, <1>5 DEF Follows
    <3> QED
      BY <1>10, <1>12, <3>1, <3>2 DEF StatusOK
  <2> QED
    BY <2>1, <2>2
<1>14. StepOK(h)'
  BY <1>12 DEF StepOK
<1>15. place \in Places \ {"idle", "projected"} /\ status \in Targets /\ o = worker[w].op
  BY <1>1 DEF Places, Targets, Statuses, Open, Holds
<1> HIDE DEF place, status
<1> QED
  BY <1>2, <1>8, <1>9, <1>11, <1>13, <1>14, <1>15, TraceStep DEF h

-----------------------------------------------------------------------------
(* What happens outside the workers. *)

\* The engine's work only grows, and an operation ages, while every pass stands still.
LEMMA OutsideStep ==
  ASSUME IInv,
         UNCHANGED <<operation, done, native, primary, mapping, warehouse, projection, worker>>,
         TablesType',
         \A o \in Operations, i \in Steps :
           /\ engine[o][i] > 0 => engine'[o][i] > 0
           /\ Created(Plan[i]) /\ engine'[o][i] > 1 => <<o, i>> \in landed'
  PROVE  IInv'
<1>1. TypeOK'
  BY TypeParts DEF IInv, TypeOK, TablesType, projection
<1>2. ClaimInv'
  BY DEF IInv, ClaimInv
<1>3. ASSUME NEW w \in Workers PROVE StatusOK(worker[w])' /\ StepOK(worker[w])'
  <2>1. StatusOK(worker[w]) /\ StepOK(worker[w])
    BY PassFacts
  <2>2. StatusOK(worker[w])'
    BY <2>1 DEF StatusOK, Registered
  <2>3. worker[w].at = "found" => worker[w].op \in Operations
    BY PassFacts
  <2>4. StepOK(worker[w])'
    BY <2>1, <2>3 DEF StepOK, First, Pending
  <2> QED
    BY <2>2, <2>4
<1>4. ASSUME NEW o \in Operations PROVE RecordOK(o)'
  <2>1. RecordOK(o)
    BY DEF IInv, RecordInv
  <2> QED
    BY <2>1 DEF RecordOK, Registered
<1>5. LockInv' /\ CommandFollowsStatuses' /\ RevisionInv'
  <2>1. UNCHANGED <<command, announced, commandLock, operation, worker>>
    BY DEF projection
  <2>2. CommandFollowsStatuses' /\ RevisionInv'
    BY <2>1 DEF IInv, CommandFollowsStatuses, RevisionInv
  <2>3. \A w \in Workers : Derived(w)' = Derived(w)
    BY <2>1 DEF Derived
  <2>4. LockInv'
    BY <2>1, <2>3 DEF IInv, LockInv
  <2> QED
    BY <2>2, <2>4
<1> QED
  BY <1>1, <1>2, <1>3, <1>4, <1>5 DEF IInv, PassInv, RecordInv

\* A call whose answer was lost reaches the engine: what it makes is its own.
LEMMA LandStep ==
  ASSUME IInv, NEW o \in Operations, NEW i \in Steps, Land(o, i)
  PROVE  IInv'
<1>1. /\ UNCHANGED <<operation, aged, done, native, primary, mapping, warehouse, projection, worker>>
      /\ Worked(o, i) /\ <<o, i>> \in inFlight
      /\ inFlight' = inFlight \ {<<o, i>>} /\ landed' = landed \cup {<<o, i>>}
  BY DEF Land, tables
<1>2. TablesType
  BY TypeParts DEF IInv
<1>3. /\ engine' \in [Operations -> [Steps -> Ids]]
      /\ \A p \in Operations \ {o} : engine'[p] = engine[p]
      /\ \A j \in Steps \ {i} : engine'[o][j] = engine[o][j]
      /\ \A p \in Operations, j \in Steps : engine[p][j] > 0 => engine'[p][j] > 0
  BY <1>1, <1>2, WorkedFacts DEF TablesType
<1>4. TablesType'
  BY <1>1, <1>2, <1>3 DEF TablesType
<1>5. ASSUME NEW p \in Operations, NEW j \in Steps, Created(Plan[j]), engine'[p][j] > 1
      PROVE  <<p, j>> \in landed'
  <2>1. CASE p = o /\ j = i
    BY <1>1, <2>1
  <2>2. CASE ~(p = o /\ j = i)
    <3>1. engine'[p][j] = engine[p][j]
      BY <1>3, <2>2
    <3> QED
      BY <1>1, <1>5, <3>1 DEF IInv, RecordInv, RecordOK
  <2> QED
    BY <2>1, <2>2
<1> QED
  BY <1>1, <1>3, <1>4, <1>5, OutsideStep

\* The horizon of an operation passes.
LEMMA HorizonStep ==
  ASSUME IInv, NEW o \in Operations, Horizon(o)
  PROVE  IInv'
<1>1. /\ UNCHANGED <<operation, done, native, primary, mapping, warehouse, projection, worker>>
      /\ UNCHANGED <<engine, inFlight, landed>>
      /\ aged' = aged \cup {o}
  BY DEF Horizon, outside
<1>2. TablesType'
  BY <1>1, TypeParts DEF IInv, TablesType
<1>3. \A p \in Operations, i \in Steps : Created(Plan[i]) /\ engine[p][i] > 1 => <<p, i>> \in landed
  BY DEF IInv, RecordInv, RecordOK
<1> QED
  BY <1>1, <1>2, <1>3, OutsideStep

-----------------------------------------------------------------------------
(* The theorems. *)

\* The invariant holds when the command has just been accepted.
LEMMA InitIInv ==
  ASSUME Init
  PROVE  IInv
<1>1. /\ \A o \in Operations : operation[o] = Progress("planned", 0)
      /\ \A w \in Workers : worker[w] = Idle
      /\ command = [state |-> "accepted", revision |-> 1] /\ announced = <<"accepted">>
      /\ commandLock = NoWorker
  BY DEF Init
<1>2. Progress("planned", 0) \in [status : Statuses, attempts : 0..AttemptBound]
      /\ Progress("planned", 0).status = "planned"
  BY ProvisioningAssumption DEF Progress, Statuses, Open
<1>3. TypeOK
  <2>1. TablesType
    BY <1>2 DEF Init, TablesType, Ids
  <2>2. CommandType
    BY <1>1 DEF CommandType, States
  <2>3. worker \in [Workers -> PassType]
    BY IdleFacts DEF Init
  <2> QED
    BY <2>1, <2>2, <2>3, TypeParts
<1>4. ClaimInv
  BY <1>1, IdleFacts DEF ClaimInv
<1>5. PassInv
  BY <1>1, IdleFacts DEF PassInv
<1>6. RecordInv
  <2>1. ASSUME NEW o \in Operations PROVE RecordOK(o)
    <3>1. /\ operation[o].status = "planned" /\ done[o] = {} /\ mapping[o] \in {0, 9}
          /\ \A i \in Steps : native[o][i] = 0 /\ engine[o][i] = 0
          /\ \A i \in Warehouses : warehouse[o][i] = [id |-> 0, announced |-> 0]
      BY <1>1, <1>2, PlanFacts DEF Init, Foreign
    <3>2. \A i \in Warehouses : warehouse[o][i].announced = 0
      BY <3>1
    <3>3. \A i \in Warehouses : warehouse[o][i].id = 0
      BY <3>1
    <3>4. mapping[o] \notin {1, 2}
      BY <3>1
    <3> QED
      BY <3>1, <3>2, <3>3, <3>4, PlanFacts DEF RecordOK
  <2> QED
    BY <2>1 DEF RecordInv
<1>7. LockInv
  BY <1>1, IdleFacts, ProvisioningAssumption DEF LockInv
<1>8. CommandFollowsStatuses
  <2>1. {operation[o].status : o \in Operations} = {"planned"}
    BY <1>1, <1>2, ProvisioningAssumption
  <2> QED
    BY <1>1, <2>1 DEF CommandFollowsStatuses, Derive
<1>9. RevisionInv
  BY <1>1 DEF RevisionInv
<1> QED
  BY <1>3, <1>4, <1>5, <1>6, <1>7, <1>8, <1>9 DEF IInv

\* Every step keeps the invariant.
LEMMA StepIInv ==
  ASSUME IInv, [Next]_vars
  PROVE  IInv'
<1>1. ASSUME NEW w \in Workers, Begins(w) PROVE IInv'
  BY <1>1, BeginStep DEF Begins
<1>2. ASSUME NEW w \in Workers, NEW i \in Steps, Step(w, i) PROVE IInv'
  BY <1>2, ReuseStep, AdoptStep, EndedStep, EngineStep, RecordIdStep, MarkDoneStep, MarkMappingStep
     DEF Step
<1>3. ASSUME NEW w \in Workers, Works(w) PROVE IInv'
  BY <1>2, <1>3, ResolveStep, ProjectStep, CommitStep, PutAliasStep, ConfirmMappingStep, EndedStep,
     RegisterStep, CheckStep, SettleStep, LeaveStep DEF Works
<1>4. ASSUME NEW w \in Workers, Fails(w) PROVE IInv'
  BY <1>4, EndedStep, CallLostStep DEF Fails
<1>5. ASSUME NEW w \in Workers, Crash(w) PROVE IInv'
  BY <1>5, LeaveStep
<1>6. CASE UNCHANGED vars
  <2>1. /\ UNCHANGED <<operation, aged, done, native, primary, mapping, warehouse, projection, worker>>
        /\ UNCHANGED <<engine, inFlight, landed>>
    BY <1>6 DEF vars, tables, outside
  <2>2. TablesType'
    BY <2>1, TypeParts DEF IInv, TablesType
  <2>3. \A p \in Operations, i \in Steps : Created(Plan[i]) /\ engine[p][i] > 1 => <<p, i>> \in landed
    BY DEF IInv, RecordInv, RecordOK
  <2> QED
    BY <2>1, <2>2, <2>3, OutsideStep
<1> QED
  BY <1>1, <1>3, <1>4, <1>5, <1>6, LandStep, HorizonStep DEF Next

\* The invariant holds in every reachable state, for any workers, operations, plan and
\* budgets.
THEOREM Invariance == Spec => []IInv
<1>1. Init => IInv
  BY InitIInv
<1>2. IInv /\ [Next]_vars => IInv'
  BY StepIInv
<1> QED
  BY <1>1, <1>2, PTL DEF Spec

\* Every table, every pass, the command and the outbox hold what they may hold, and a
\* refund never takes an attempt that was not counted (execution.settle).
THEOREM TypeCorrect == Spec => []TypeOK
<1>1. IInv => TypeOK
  BY DEF IInv
<1> QED
  BY <1>1, Invariance, PTL

\* However the workers interleave, the state of the command agrees with the statuses of
\* its operations in every committed state, because the command's row is locked before
\* the statuses are read (command_store.project).
THEOREM CommandAgrees == Spec => []CommandFollowsStatuses
<1>1. IInv => CommandFollowsStatuses
  BY DEF IInv
<1> QED
  BY <1>1, Invariance, PTL

\* An operation that is ready is provisioned: the engine did each step, each is recorded,
\* and the tenant and its warehouses are bound to what was recorded (execution._run).
THEOREM Ready == Spec => []ReadyMeansProvisioned
<1>1. IInv => ReadyMeansProvisioned
  <2>1. SUFFICES ASSUME IInv, NEW o \in Operations, operation[o].status = "ready"
                 PROVE  /\ done[o] = Steps
                        /\ \A i \in Steps : Plan[i] # "mapping" => engine[o][i] > 0
                        /\ mapping[o] = native[o][1] /\ mapping[o] # 0
                        /\ \A i \in Warehouses :
                             warehouse[o][i].id = native[o][i] /\ native[o][i] # 0
    BY DEF ReadyMeansProvisioned
  <2>2. RecordOK(o) /\ done[o] = Steps /\ Registered(o)
    BY <2>1 DEF IInv, RecordInv, RecordOK
  <2>3. \A i \in Steps : native[o][i] # 0 /\ (Plan[i] # "mapping" => engine[o][i] > 0)
    BY <2>2 DEF RecordOK
  <2>4. mapping[o] = native[o][1] /\ native[o][1] # 0
    BY <2>2, <2>3, PlanFacts DEF RecordOK
  <2>5. \A i \in Warehouses : warehouse[o][i].id = native[o][i] /\ native[o][i] # 0
    BY <2>2, <2>3, PlanFacts DEF Registered
  <2> QED
    BY <2>2, <2>3, <2>4, <2>5
<1> QED
  BY <1>1, Invariance, PTL

\* The context of an entity resolves to a new AD_Client only once every step is done
\* (planner.build_plan, idempiere_adapter._persist_mapping).
THEOREM Resolvable == Spec => []ResolvableMeansConfigured
<1>1. IInv => ResolvableMeansConfigured
  BY DEF IInv, RecordInv, RecordOK, ResolvableMeansConfigured
<1> QED
  BY <1>1, Invariance, PTL

\* A second record carries a step's marker only if a call whose answer was lost landed
\* late, whatever crashes and failures lie between two passes
\* (idempiere_adapter._create_once).
THEOREM OnlyLate == Spec => []OnlyLateCallsDuplicate
<1>1. IInv => OnlyLateCallsDuplicate
  BY DEF IInv, RecordInv, RecordOK, OnlyLateCallsDuplicate
<1> QED
  BY <1>1, Invariance, PTL

\* A warehouse is announced exactly when its identity is minted with a time zone, and
\* once (warehouse_identity_store.record, warehouse_events).
THEOREM AnnouncedOnce == Spec => []WarehouseAnnouncedOnce
<1>1. IInv => WarehouseAnnouncedOnce
  BY DEF IInv, RecordInv, RecordOK, WarehouseAnnouncedOnce
<1> QED
  BY <1>1, Invariance, PTL

\* The order in which a command passes through its states.
LEMMA Positions ==
  /\ Lifecycle!Position("accepted") = 1 /\ Lifecycle!Position("provisioning") = 2
  /\ Lifecycle!Position("reconciling") = 3 /\ Lifecycle!Position("active") = 4
  /\ DOMAIN Lifecycle!Forward = 1..4
  /\ Lifecycle!Forward[2] = "provisioning" /\ Lifecycle!Forward[3] = "reconciling"
  /\ Lifecycle!Forward[4] = "active"
<1> DEFINE forward == <<"accepted", "provisioning", "reconciling", "active">>
<1>1. Lifecycle!Forward = forward
  BY DEF Lifecycle!Forward
<1>2. /\ DOMAIN forward = 1..4
      /\ forward[1] = "accepted" /\ forward[2] = "provisioning"
      /\ forward[3] = "reconciling" /\ forward[4] = "active"
  OBVIOUS
<1>3. \A n \in 1..4 : n = 1 \/ n = 2 \/ n = 3 \/ n = 4
  OBVIOUS
<1> HIDE DEF forward
<1>4. \A n \in 1..4, m \in 1..4 : forward[n] = forward[m] => n = m
  BY <1>2, <1>3
<1>5. ASSUME NEW m \in 1..4 PROVE Lifecycle!Position(forward[m]) = m
  <2>1. Lifecycle!Position(forward[m]) = CHOOSE n \in 1..4 : forward[n] = forward[m]
    BY <1>1, <1>2 DEF Lifecycle!Position
  <2> QED
    BY <1>4, <2>1
<1> QED
  BY <1>1, <1>2, <1>5

\* A commit that moves the command on is a step of its life cycle.
LEMMA LifecycleStep ==
  ASSUME NEW state, NEW next, state \in States, next \in States,
         command.state = state, Precedes(state, next), command'.state = next,
         announced' = Append(announced, next)
  PROVE  Lifecycle!Next
<1>1. Lifecycle!Become(next) /\ command.state \notin {"active", "failed"}
  BY DEF Lifecycle!Become, Precedes
<1>2. CASE next = "failed"
  BY <1>1, <1>2 DEF Lifecycle!Fail, Lifecycle!Next
<1>3. CASE next # "failed"
  <2>1. Lifecycle!Position(next) > Lifecycle!Position(state)
    BY <1>3, Positions DEF Precedes
  <2>2. Lifecycle!Advance(next)
    BY <1>1, <2>1 DEF Lifecycle!Advance
  <2>3. \E n \in DOMAIN Lifecycle!Forward : Lifecycle!Forward[n] = next
    BY <1>3, Positions DEF Precedes
  <2> QED
    BY <2>2, <2>3 DEF Lifecycle!Next
<1> QED
  BY <1>2, <1>3

\* Nothing but a commit changes the command or announces anything.
LEMMA OtherSteps ==
  ASSUME [Next]_vars, \A w \in Workers : ~Commit(w)
  PROVE  UNCHANGED <<command, announced>>
<1>1. ASSUME NEW w \in Workers, NEW i \in Steps, Step(w, i)
      PROVE  UNCHANGED <<command, announced>>
  BY <1>1 DEF Step, Reuse, Adopt, Duplicates, Create, Execute, RecordId, MarkStep, MarkMapping,
     projection
<1>2. ASSUME NEW w \in Workers, Works(w)
      PROVE  UNCHANGED <<command, announced>>
  <2>1. CASE Resolve(w) \/ Project(w) \/ PutAlias(w) \/ ConfirmMapping(w) \/ MappingConflict(w)
    BY <2>1 DEF Resolve, Project, PutAlias, ConfirmMapping, MappingConflict, projection
  <2>2. CASE Register(w) \/ CheckPasses(w) \/ NotReady(w) \/ Settle(w) \/ Release(w)
    BY <2>2 DEF Register, CheckPasses, NotReady, Settle, Release, projection
  <2> QED
    BY <1>1, <1>2, <2>1, <2>2 DEF Works
<1>3. ASSUME NEW w \in Workers, Begins(w) \/ Fails(w) \/ Crash(w)
      PROVE  UNCHANGED <<command, announced>>
  BY <1>3 DEF Begins, Begin, Fails, Drifted, Unconfigured, EngineFails, CallLost, Crash, projection
<1>4. ASSUME NEW o \in Operations, NEW i \in Steps, Land(o, i) \/ Horizon(o)
      PROVE  UNCHANGED <<command, announced>>
  BY <1>4 DEF Land, Horizon, projection
<1>5. CASE UNCHANGED vars
  BY <1>5 DEF vars, projection
<1>6. Steps # {}
  BY PlanFacts
<1> QED
  BY <1>2, <1>3, <1>4, <1>5, <1>6 DEF Next

\* The command moves forward only, ends active or failed, and each of its states is one
\* revision, announced once and in order (command_store.advance).
THEOREM Implementation == Spec => ImplementsLifecycle
<1>1. Init => Lifecycle!Init
  BY DEF Init, Lifecycle!Init
<1>2. IInv /\ [Next]_vars => [Lifecycle!Next]_(Lifecycle!vars)
  <2>1. SUFFICES ASSUME IInv, [Next]_vars
                 PROVE  Lifecycle!Next \/ UNCHANGED <<command, announced>>
    BY DEF Lifecycle!vars
  <2>2. (\A w \in Workers : ~Commit(w)) => UNCHANGED <<command, announced>>
    BY <2>1, OtherSteps
  <2>3. ASSUME NEW w \in Workers, Commit(w)
        PROVE  Lifecycle!Next \/ UNCHANGED <<command, announced>>
    <3>1. PICK state \in States, next \in States : state = command.state /\ next = command'.state
      BY <2>1, <2>3, CommitMoves DEF IInv, TypeOK
    <3>2. \/ UNCHANGED <<command, announced>>
          \/ Precedes(state, next) /\ announced' = Append(announced, next)
      BY <2>1, <2>3, <3>1, CommitMoves
    <3> QED
      BY <3>1, <3>2, LifecycleStep
  <2> QED
    BY <2>2, <2>3
<1> QED
  BY <1>1, <1>2, Invariance, PTL DEF Spec, ImplementsLifecycle, Lifecycle!Spec
=============================================================================
