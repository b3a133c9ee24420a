------------------------------ MODULE MCOutbox ------------------------------
(***************************************************************************)
(* Instances of Outbox for TLC: two messages of one session.                *)
(***************************************************************************)
EXTENDS Outbox

CONSTANTS m1, m2, s1

MCSessionOf == [m \in Msgs |-> s1]

\* A request and an event.
MCKind == [m \in Msgs |-> IF m = m2 THEN "EVENT" ELSE "REQUEST"]

\* A transport error that is retried, and a 404 answer.
MCErrors == {{"TIMEOUT"}, {"4"}}
=============================================================================
