------------------------ MODULE OrderExecutionFaults ------------------------
(***************************************************************************)
(* OrderExecution without its assumption about the engine: a create        *)
(* request outlives its caller when the client gives up after              *)
(* timeout_seconds (or dies) and the engine commits the order later.       *)
(***************************************************************************)
EXTENDS OrderExecution

VARIABLE inFlight  \* create requests the engine has yet to commit: <<worker, order>>

allVars == <<vars, inFlight>>

\* The client stops waiting (RestIdempiereClient._send) while the engine is
\* still at work on the request.
CreateTimesOut(w) ==
  /\ pc[w] = "create"
  /\ inFlight' = inFlight \cup {<<w, KeyAt(w)>>}
  /\ End(w, Transient)
  /\ UNCHANGED <<queueVars, found, lock, native, recordVars>>

\* The engine commits a request nobody waits for any more.
LandLate(w, o) ==
  /\ <<w, o>> \in inFlight
  /\ inFlight' = inFlight \ {<<w, o>>}
  /\ \E n \in NativeIds : EngineCommits(o, n)
  /\ UNCHANGED <<queueVars, workerVars, lock, recordVars>>

FaultInit == Init /\ inFlight = {}

LateNext ==
  \/ /\ \/ /\ \/ \E e \in Events : Ingress(e) \/ Clock(e)
              \/ \E w \in Workers, e \in Events : BeginDue(w, e)
              \/ \E w \in Workers : Crash(w)
           /\ UNCHANGED recordVars
        \/ \E w \in Workers : EngineStep(w) \/ SessionStep(w)
     /\ UNCHANGED inFlight
  \/ \E w \in Workers : CreateTimesOut(w)
  \/ \E w \in Workers, o \in Keys : LandLate(w, o)

LateSpec == FaultInit /\ [][LateNext]_allVars
=============================================================================
