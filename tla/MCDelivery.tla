----------------------------- MODULE MCDelivery -----------------------------
(***************************************************************************)
(* Instances of Delivery for TLC: requests and events of one session.       *)
(***************************************************************************)
EXTENDS Delivery

CONSTANTS r1, r2, e1
=============================================================================
