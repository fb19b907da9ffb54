------------------------------ MODULE MCOutbox ------------------------------
(* Instances of Outbox for TLC: of the events 1 to 4, by business time, 1 and *)
(* 3 go to the Control Plane ingress, 2 to the webhook, and 4 is legacy.      *)
EXTENDS Outbox

Four == 1..4
OneAndThree == {1, 3}
OnlyFour == {4}
Three == 1..3
Two == 1..2
OnlyOne == {1}
NoEvents == {}
Both == {"signed", "webhook"}
=============================================================================
