---------------------------- MODULE MCHandshake ----------------------------
(***************************************************************************)
(* Instances of Handshake for TLC: two initiators, one of which offers one  *)
(* capability and the other two.                                            *)
(***************************************************************************)
EXTENDS Handshake, TLC

CONSTANTS h1, h2, c1, c2

OneAndTwo == (h1 :> {c1}) @@ (h2 :> {c1, c2})
=============================================================================
