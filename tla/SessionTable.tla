---------------------------- MODULE SessionTable ----------------------------
(***************************************************************************)
(* The session map of SessionManager (state/session-manager.ts) and the     *)
(* operations on it.  A session has a key in the map and an id in its       *)
(* object; the code takes them to be equal.  Ids are generated in order, so *)
(* the order of the numbers is the insertion order of the map.              *)
(***************************************************************************)
EXTENDS Integers, FiniteSets

CONSTANTS
  MaxKeys,      \* bound: sessions created
  MaxSessions,  \* SessionManagerConfig.maxSessions
  Names         \* remoteAgent.name of a session

ASSUME TableAssumption ==
  /\ MaxKeys \in Nat
  /\ MaxSessions \in Nat \ {0}
  /\ Names # {}

Keys == 1..MaxKeys

VARIABLES
  state,  \* Session.state of each key, "absent" when not in the map
  sid,    \* Session.id of each key
  name,   \* Session.remoteAgent.name of each key
  older,  \* <<a, b>> when a's lastActivity is before b's (never equal, unless they
          \* were moved by one call: then a comes first in the map)
  last    \* the key generated last

table == <<state, sid, name, older, last>>

States == {"IDLE", "CONNECTING", "HANDSHAKING", "ACTIVE", "SUSPENDED", "ERROR", "CLOSED"}

Events == {"CONNECT", "CONNECTED", "HANDSHAKE_START", "HANDSHAKE_OK", "HANDSHAKE_FAIL",
           "SUSPEND", "RESUME", "DISCONNECT", "ERROR", "TIMEOUT"}

TableTypeOK ==
  /\ state \in [Keys -> States \cup {"absent"}]
  /\ sid \in [Keys -> Keys]
  /\ name \in [Keys -> Names]
  /\ older \in SUBSET (Keys \X Keys)
  /\ last \in 0..MaxKeys

TableInit ==
  /\ state = [k \in Keys |-> "absent"]
  /\ sid = [k \in Keys |-> k]
  /\ name = [k \in Keys |-> CHOOSE n \in Names : TRUE]
  /\ older = {}
  /\ last = 0
-----------------------------------------------------------------------------
\* TRANSITIONS
Transitions ==
  {<<"IDLE", "CONNECT", "CONNECTING">>,
   <<"CONNECTING", "CONNECTED", "HANDSHAKING">>,
   <<"CONNECTING", "ERROR", "ERROR">>,
   <<"CONNECTING", "TIMEOUT", "ERROR">>,
   <<"HANDSHAKING", "HANDSHAKE_OK", "ACTIVE">>,
   <<"HANDSHAKING", "HANDSHAKE_FAIL", "ERROR">>,
   <<"HANDSHAKING", "ERROR", "ERROR">>,
   <<"HANDSHAKING", "TIMEOUT", "ERROR">>,
   <<"ACTIVE", "SUSPEND", "SUSPENDED">>,
   <<"ACTIVE", "DISCONNECT", "CLOSED">>,
   <<"ACTIVE", "ERROR", "ERROR">>,
   <<"ACTIVE", "TIMEOUT", "ERROR">>,
   <<"SUSPENDED", "RESUME", "ACTIVE">>,
   <<"SUSPENDED", "DISCONNECT", "CLOSED">>,
   <<"SUSPENDED", "TIMEOUT", "CLOSED">>,
   <<"ERROR", "CONNECT", "CONNECTING">>,
   <<"ERROR", "DISCONNECT", "CLOSED">>}

Valid(st, event) == \E to \in States : <<st, event, to>> \in Transitions

\* Faulty variant of After: a failed session can be resumed like a suspended one.
AfterResumesFailed(st, event) ==
  IF st = "ERROR" /\ event = "RESUME" THEN "ACTIVE"
  ELSE IF Valid(st, event) THEN CHOOSE to \in States : <<st, event, to>> \in Transitions ELSE st

\* The state after an event: unchanged if the transition is invalid.
After(st, event) ==
  IF Valid(st, event) THEN CHOOSE to \in States : <<st, event, to>> \in Transitions ELSE st

Live == {k \in Keys : state[k] # "absent"}
Dead == {k \in Keys : state[k] \in {"CLOSED", "ERROR"}}

\* The state after the first n of CONNECT, CONNECTED and HANDSHAKE_OK.
Advanced(st, n) ==
  LET one == After(st, "CONNECT")
      two == After(one, "CONNECTED")
  IN  CASE n = 0 -> st [] n = 1 -> one [] n = 2 -> two [] n = 3 -> After(two, "HANDSHAKE_OK")

\* k becomes the most recently active among the keys K, in the order r.
Touched(r, K, k) == (r \cap ((K \ {k}) \X (K \ {k}))) \cup ((K \ {k}) \X {k})

\* The entry evictOldest picks: the first that is CLOSED or in ERROR, else the
\* least recently active.
Evictable(v) ==
  \/ v \in Dead /\ \A d \in Dead : v <= d
  \/ Dead = {} /\ v \in Live /\ \A k \in Live : <<k, v>> \notin older

\* What create removes first.  evictOldest deletes the picked entry by its id.
Evicted(gone) ==
  IF Cardinality(Live) >= MaxSessions
  THEN \E v \in Keys : Evictable(v) /\ gone = {sid[v]}
  ELSE gone = {}

\* Faulty variant of Put: nothing is evicted.
PutWithoutEviction(k, id, n, steps) ==
  /\ k = last + 1
  /\ last' = k
  /\ state' = [state EXCEPT ![k] = Advanced("IDLE", steps)]
  /\ sid' = [sid EXCEPT ![k] = id]
  /\ name' = [name EXCEPT ![k] = n]
  /\ older' = Touched(older, Live \cup {k}, k)

\* Faulty variant of Put: evicts the least recently active, dead ones or not.
PutEvictsOldest(k, id, n, steps) ==
  /\ k = last + 1
  /\ last' = k
  /\ \E gone \in SUBSET Keys :
       /\ IF Cardinality(Live) >= MaxSessions
          THEN \E v \in Live : (\A j \in Live : <<j, v>> \notin older) /\ gone = {sid[v]}
          ELSE gone = {}
       /\ state' = [j \in Keys |-> CASE j = k -> Advanced("IDLE", steps)
                                   [] j # k /\ j \in gone -> "absent"
                                   [] OTHER -> state[j]]
       /\ older' = Touched(older, (Live \ gone) \cup {k}, k)
  /\ sid' = [sid EXCEPT ![k] = id]
  /\ name' = [name EXCEPT ![k] = n]

\* create, followed by what its caller does with the new session at once: it is
\* put under the fresh key k, IDLE, with the name n; it is given the id `id' (k
\* itself but for a resumed session); and the first `steps' events of a connection
\* go to `id', which moves the session the map has under that key, if any.
Put(k, id, n, steps) ==
  /\ k = last + 1
  /\ last' = k
  /\ \E gone \in SUBSET Keys :
       LET kept   == Live \ gone
           before == [j \in Keys |-> IF j = k THEN "IDLE" ELSE IF j \in kept THEN state[j] ELSE "absent"]
           moved  == Advanced(before[id], steps)
       IN  /\ Evicted(gone)
           /\ state' = [before EXCEPT ![id] = moved]
           /\ older' = LET o == Touched(older, kept \cup {k}, k)
                       IN  IF moved = before[id] THEN o ELSE Touched(o, kept \cup {k}, id)
  /\ sid' = [sid EXCEPT ![k] = id]
  /\ name' = [name EXCEPT ![k] = n]

\* transition: k may be no key of the map, the event may be invalid.
Transition(k, event) ==
  /\ state' = [state EXCEPT ![k] = After(@, event)]
  /\ older' = IF Valid(state[k], event) THEN Touched(older, Live, k) ELSE older
  /\ UNCHANGED <<sid, name, last>>

\* findByRemote: the first entry with that name.
IsFirst(k, n) == k \in Live /\ name[k] = n /\ \A j \in Live : name[j] = n => k <= j

Known(n) == \E k \in Live : name[k] = n
=============================================================================
