------------------------------ MODULE MCResume ------------------------------
(***************************************************************************)
(* Instances of Resume for TLC: sessions whose peer may or may not answer   *)
(* and one whose peer does.  The delays are those of a configuration whose  *)
(* first retry may be due at the next tick and whose second is not.         *)
(***************************************************************************)
EXTENDS Resume

CONSTANTS a, b, c

MCWaits == [n \in 1..MaxFails |-> IF n = 1 THEN {0, 1} ELSE {1, 2}]
=============================================================================
