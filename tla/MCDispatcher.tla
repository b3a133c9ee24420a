---------------------------- MODULE MCDispatcher ----------------------------
(***************************************************************************)
(* Instances of Dispatcher for TLC: three calls on one session, or with one *)
(* of them on a second session.                                             *)
(***************************************************************************)
EXTENDS Dispatcher

CONSTANTS r1, r2, r3, e1, s1, s2

\* All calls on one session, but the third request.
MCSessionOf == [f \in Frames |-> IF f = r3 THEN s2 ELSE s1]
=============================================================================
