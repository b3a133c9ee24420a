------------------------------ MODULE MCBridge ------------------------------
(***************************************************************************)
(* Instances of Bridge for TLC.                                             *)
(***************************************************************************)
EXTENDS Bridge

CONSTANTS s1, s2, k1
=============================================================================
