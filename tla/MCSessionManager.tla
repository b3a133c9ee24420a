-------------------------- MODULE MCSessionManager --------------------------
(***************************************************************************)
(* Instances of SessionManager for TLC: up to four sessions created, at     *)
(* most two at a time.                                                      *)
(***************************************************************************)
EXTENDS SessionManager
=============================================================================
