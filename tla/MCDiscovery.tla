---------------------------- MODULE MCDiscovery ----------------------------
(***************************************************************************)
(* Instances of Discovery for TLC: the calls of a few callers, and an agent *)
(* that registers, updates and withdraws its record.                        *)
(***************************************************************************)
EXTENDS Discovery

CONSTANTS c1, c2, o1, o2
=============================================================================
