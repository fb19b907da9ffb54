--------------------------- MODULE OrderAcceptance ---------------------------
(***************************************************************************)
(* What order intake promises, without workers, queues or failures: a      *)
(* Trade order is placed in the engine once, and afterwards accepted once, *)
(* by one of its events, in that event's version, with the announcement    *)
(* made in the same step.  Nothing of it ever changes again.               *)
(***************************************************************************)
EXTENDS Naturals

CONSTANTS Events, Orders, OrderOf, VersionOf, NativeIds, NoEvent, NoNative

VARIABLES native, consequence, execution, announced

vars == <<native, consequence, execution, announced>>

Init ==
  /\ native = [o \in Orders |-> {}]
  /\ consequence = [o \in Orders |-> 0]
  /\ execution = [o \in Orders |-> [source |-> NoEvent, native |-> NoNative]]
  /\ announced = {}

Place(o, n) ==
  /\ native[o] = {}
  /\ \A p \in Orders : n \notin native[p]
  /\ native' = [native EXCEPT ![o] = {n}]
  /\ UNCHANGED <<consequence, execution, announced>>

Accept(e, n) ==
  /\ native[OrderOf[e]] = {n}
  /\ OrderOf[e] \notin announced
  /\ consequence' = [consequence EXCEPT ![OrderOf[e]] = VersionOf[e]]
  /\ execution' = [execution EXCEPT ![OrderOf[e]] = [source |-> e, native |-> n]]
  /\ announced' = announced \cup {OrderOf[e]}
  /\ UNCHANGED native

Next ==
  \E n \in NativeIds :
    \/ \E o \in Orders : Place(o, n)
    \/ \E e \in Events : Accept(e, n)

Spec == Init /\ [][Next]_vars
=============================================================================
