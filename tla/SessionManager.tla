--------------------------- MODULE SessionManager ---------------------------
(***************************************************************************)
(* SessionManager by itself (state/session-manager.ts), driven through its  *)
(* public operations by callers that do what they like.                     *)
(***************************************************************************)
EXTENDS SessionTable

VARIABLE handshaken  \* keys whose handshakeComplete is set

managerVars == <<table, handshaken>>

ManagerTypeOK ==
  /\ TableTypeOK
  /\ handshaken \in SUBSET Keys

ManagerInit ==
  /\ TableInit
  /\ handshaken = {}

Create(n) ==
  /\ last < MaxKeys
  /\ Put(last + 1, last + 1, n, 0)
  /\ UNCHANGED handshaken

\* transition, with any event on any id.
Signal(k, event) ==
  /\ Transition(k, event)
  /\ handshaken' = IF state'[k] = "ACTIVE" /\ event = "HANDSHAKE_OK"
                   THEN handshaken \cup {k} ELSE handshaken

Touch(k) ==
  /\ k \in Live
  /\ older' = Touched(older, Live, k)
  /\ UNCHANGED <<state, sid, name, last, handshaken>>

Remove(K) ==
  /\ state' = [k \in Keys |-> IF k \in K THEN "absent" ELSE state[k]]
  /\ older' = older \cap ((Live \ K) \X (Live \ K))
  /\ UNCHANGED <<sid, name, last, handshaken>>

Delete(k) == k \in Live /\ Remove({k})

Cleanup == Remove({k \in Keys : state[k] = "CLOSED"})

\* checkTimeouts: the sessions idle for too long are those up to some point in
\* the order of activity; each gets a TIMEOUT event.
CheckTimeouts ==
  \E stale \in SUBSET Live :
    /\ \A k \in stale : \A j \in Live : <<j, k>> \in older => j \in stale
    /\ LET hit == {k \in stale : state[k] # "CLOSED"}
           moved == {k \in hit : Valid(state[k], "TIMEOUT")}
       IN  /\ state' = [k \in Keys |-> IF k \in hit THEN After(state[k], "TIMEOUT") ELSE state[k]]
           /\ older' = {p \in Live \X Live :
                          /\ p[1] # p[2]
                          /\ \/ p[1] \notin moved /\ p[2] \in moved
                             \/ p[1] \in moved /\ p[2] \in moved /\ p[1] < p[2]
                             \/ p[1] \notin moved /\ p[2] \notin moved /\ p \in older}
    /\ UNCHANGED <<sid, name, last, handshaken>>

ManagerNext ==
  \/ \E n \in Names : Create(n)
  \/ \E k \in Keys : Touch(k) \/ Delete(k) \/ \E event \in Events : Signal(k, event)
  \/ Cleanup \/ CheckTimeouts

ManagerSpec == ManagerInit /\ [][ManagerNext]_managerVars
-----------------------------------------------------------------------------
\* The map never holds more than maxSessions sessions, whatever is created,
\* closed, deleted and timed out in between (create, evictOldest).
SizeBounded == Cardinality(Live) <= MaxSessions

\* A session that is, or was put aside while, ACTIVE completed a handshake: no
\* sequence of retries, errors and resumptions leads there without one.
ActiveWasHandshaken ==
  \A k \in Keys : state[k] \in {"ACTIVE", "SUSPENDED"} => k \in handshaken

\* create costs a session that is still of use its place only when no CLOSED or
\* failed one could have been evicted instead (session-manager.ts evictOldest).
EvictionSparesUseful ==
  [][\A k \in Live : last' # last /\ state'[k] = "absent" =>
        state[k] \in {"CLOSED", "ERROR"} \/ Dead = {}]_managerVars
=============================================================================
