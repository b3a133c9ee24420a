-------------------------- MODULE MCAgentSessions ---------------------------
(***************************************************************************)
(* Instances of AgentSessions for TLC.                                      *)
(***************************************************************************)
EXTENDS AgentSessions, TLC

CONSTANTS p, q, c, d

MCNames == Peers \X How

\* The name of a key that was never put in the map is some fixed member of Names,
\* and is never read: the specification does not tell the peers apart either.
MCSymmetry == Permutations(Conns) \cup Permutations(Peers)
=============================================================================
