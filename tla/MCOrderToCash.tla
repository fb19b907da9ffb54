--------------------------- MODULE MCOrderToCash ---------------------------
(* An instance of OrderToCash for TLC.                                      *)
EXTENDS OrderToCash, TLC

CONSTANTS s1, s2, order1, ship1, inv1, pay1

\* Checks of two operations do not touch one another, so one is checked at a time;
\* after Control Plane changed its mind, which it does before there are outcomes, only
\* the operations it concerns go on.
OneChecked ==
  /\ Cardinality({s \in Servers : gate[s].at \in Checks}) <= 1
  /\ \/ mandate = 1 /\ blocked = "no"
     \/ /\ \E s \in Servers : gate[s].overruled = "yes"
        /\ outcome = [d \in Docs |-> NoOutcome]

Tried == {d \in Docs : \E i \in 1..Len(engine[d]) : engine[d][i].done = "tried"}

\* Only the order is created twice, before it has documents.  The shipment and the
\* order share nothing with the payment, which comes last, and are not worked on
\* beside it.  The payment's completion and allocation, repeated in turn, announce
\* for ever: the instance stops after the second revision.
\* One document at a time is left a draft by its completion: the order before it has
\* documents, or another one while the order is a draft and outcomes are new.
\* Control Plane keeps still then.
Alongside ==
  /\ OneChecked
  /\ Cardinality(Tried) <= 1
  /\ Order \in Tried => \A d \in Docs \ {Order} : engine[d] = <<>>
  /\ Tried \cap {ship1, inv1, pay1} # {} => engine[Order][mapped[Order]] = Draft
  /\ Tried # {} => mandate = 1 /\ blocked = "no"
  /\ \A d \in Docs : outcome[d].revision <= (IF Tried = {} THEN 2 ELSE 1)
  /\ \A d \in Docs \ {Order} : Len(engine[d]) <= (IF Len(engine[Order]) = 2 THEN 0 ELSE 1)
  /\ engine[pay1] # <<>> => engine[ship1] = <<>> /\ mapped[inv1] # 0
  /\ engine[pay1] # <<>> => \A s \in Servers : server[s].doc # Order

Symmetry == Permutations(Servers)
=============================================================================
