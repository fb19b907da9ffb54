--------------------------- MODULE PartnerRegister ---------------------------
(***************************************************************************)
(* What customer projection promises, without workers, queues or failures: *)
(* a register per customer that only moves to later versions, and an       *)
(* announced revision that counts its changes of content.                  *)
(***************************************************************************)
EXTENDS Naturals

CONSTANTS Events, Keys, KeyOf, VersionOf, ContentOf, NoContent

VARIABLES version, content, revision

vars == <<version, content, revision>>

Init ==
  /\ version = [k \in Keys |-> 0]
  /\ content = [k \in Keys |-> NoContent]
  /\ revision = [k \in Keys |-> 0]

\* An event of a later version is applied, and announced if it changes anything.
Apply(e) ==
  LET k == KeyOf[e]
  IN  /\ VersionOf[e] > version[k]
      /\ version' = [version EXCEPT ![k] = VersionOf[e]]
      /\ content' = [content EXCEPT ![k] = ContentOf[e]]
      /\ revision' = [revision EXCEPT ![k] = IF ContentOf[e] = content[k] THEN @ ELSE @ + 1]

Next == \E e \in Events : Apply(e)

Spec == Init /\ [][Next]_vars
=============================================================================
