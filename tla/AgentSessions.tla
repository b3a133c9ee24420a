---------------------------- MODULE AgentSessions ----------------------------
(***************************************************************************)
(* The sessions of a running Agent (agent.ts): connect calls that overlap,  *)
(* sessions accepted from peers, sessions resumed after a crash, over the   *)
(* session map, the map of connections (sessionConnections) and the rows    *)
(* saved in the database.                                                   *)
(***************************************************************************)
EXTENDS SessionTable

CONSTANTS
  Peers,       \* agents that can be connected to, each with one name and address
  Conns,       \* concurrent calls of connect
  NoPeer,
  NoKey,
  MaxCrashes   \* bound: crashes of the process

\* A session is named after the peer: by its agent name, or "host:port" when
\* connect was given an address and no handshake has told the name yet.
How == {"name", "address"}

ASSUME AgentAssumption ==
  /\ Names = Peers \X How
  /\ NoPeer \notin Peers
  /\ NoKey \notin Keys
  /\ MaxCrashes \in Nat

VARIABLES
  route,     \* sessionConnections: the peer whose address a session id leads to
  row,       \* sessions table: the name a session was saved under
  owed,      \* ids resumeManager has loaded and not resumed yet
  accepted,  \* ids created on behalf of a peer
  pc,        \* where each connect call is
  wants,     \* the target it was given, as the name of a session (until it fails)
  ref,       \* the key of the session it holds (until it fails)
  result,    \* what it returned
  crashes

calls == <<pc, wants, ref, result>>
vars == <<table, route, row, owed, accepted, calls, crashes>>

NoName == <<NoPeer, "name">>

TypeOK ==
  /\ TableTypeOK
  /\ route \in [Keys -> Peers \cup {NoPeer}]
  /\ row \in [Keys -> Names \cup {NoName}]
  /\ owed \in SUBSET {k \in Keys : row[k] # NoName}
  /\ accepted \in SUBSET Keys
  /\ pc \in [Conns -> {"idle", "init", "complete"}]
  /\ wants \in [Conns -> Names \cup {NoName}]
  /\ ref \in [Conns -> Keys \cup {NoKey}]
  /\ result \in [Conns -> {"none", "success", "failure"}]
  /\ \A c \in Conns : pc[c] # "idle" \/ result[c] = "success" => ref[c] \in Keys
  /\ crashes \in 0..MaxCrashes

NoCalls ==
  /\ pc = [c \in Conns |-> "idle"]
  /\ wants = [c \in Conns |-> NoName]
  /\ ref = [c \in Conns |-> NoKey]
  /\ result = [c \in Conns |-> "none"]

Init ==
  /\ TableInit
  /\ route = [k \in Keys |-> NoPeer]
  /\ row = [k \in Keys |-> NoName]
  /\ owed = {}
  /\ accepted = {}
  /\ NoCalls
  /\ crashes = 0
-----------------------------------------------------------------------------
\* Faulty variant of Found: any connection will do, whoever it leads to.
FoundAnyRoute(k, p, how) ==
  IF Known(<<p, how>>)
  THEN IsFirst(k, <<p, how>>)
  ELSE route[k] # NoPeer /\ state[k] = "ACTIVE"

\* The session connect finds: the first one of that name, whatever its state,
\* else an ACTIVE one whose connection leads to the same address.
Found(k, p, how) ==
  IF Known(<<p, how>>)
  THEN IsFirst(k, <<p, how>>)
  ELSE route[k] = p /\ state[k] = "ACTIVE"

\* connect up to its first request; it returns at once if what it finds is ACTIVE.
Begin(c, p, how) ==
  /\ pc[c] = "idle"
  /\ wants' = [wants EXCEPT ![c] = <<p, how>>]
  /\ \/ \E k \in Keys :
          /\ Found(k, p, how)
          /\ ref' = [ref EXCEPT ![c] = k]
          /\ IF state[k] = "ACTIVE"
             THEN /\ result' = [result EXCEPT ![c] = "success"]
                  /\ UNCHANGED <<table, pc>>
             ELSE /\ Transition(sid[k], "CONNECT")
                  /\ pc' = [pc EXCEPT ![c] = "init"]
                  /\ result' = [result EXCEPT ![c] = "none"]
     \/ /\ \A k \in Keys : ~Found(k, p, how)
        /\ last < MaxKeys
        /\ Put(last + 1, last + 1, <<p, how>>, 1)
        /\ ref' = [ref EXCEPT ![c] = last + 1]
        /\ pc' = [pc EXCEPT ![c] = "init"]
        /\ result' = [result EXCEPT ![c] = "none"]
  /\ UNCHANGED <<route, row, owed, accepted, crashes>>

\* The reply to /handshake/init is a handshake response that checks out.
InitReply(c) ==
  /\ pc[c] = "init"
  /\ Transition(sid[ref[c]], "CONNECTED")
  /\ pc' = [pc EXCEPT ![c] = "complete"]
  /\ UNCHANGED <<route, row, owed, accepted, wants, ref, result, crashes>>

\* Faulty variant of Fail: the session is left as it was.
FailLeavesSession(c) ==
  /\ pc[c] # "idle"
  /\ pc' = [pc EXCEPT ![c] = "idle"]
  /\ result' = [result EXCEPT ![c] = "failure"]
  /\ wants' = [wants EXCEPT ![c] = NoName]
  /\ ref' = [ref EXCEPT ![c] = NoKey]
  /\ UNCHANGED <<table, route, row, owed, accepted, crashes>>

\* The catch block, for a request that fails, a reply that is refused, and a
\* session that is no longer in the map when the handshake is complete.  The
\* name may have been taken from the reply before the public key is refused.
Fail(c) ==
  LET id == sid[ref[c]] IN
  /\ pc[c] # "idle"
  /\ pc' = [pc EXCEPT ![c] = "idle"]
  /\ result' = [result EXCEPT ![c] = "failure"]
  /\ wants' = [wants EXCEPT ![c] = NoName]
  /\ ref' = [ref EXCEPT ![c] = NoKey]
  /\ \/ Transition(id, "ERROR")
     \/ /\ pc[c] = "complete" /\ id \in Live
        /\ state' = [state EXCEPT ![id] = After(@, "ERROR")]
        /\ older' = IF Valid(state[id], "ERROR") THEN Touched(older, Live, id) ELSE older
        /\ name' = [name EXCEPT ![id] = <<wants[c][1], "name">>]
        /\ UNCHANGED <<sid, last>>
  /\ UNCHANGED <<route, row, owed, accepted, crashes>>

\* Faulty variant of Complete: no connection is stored.
CompleteWithoutRoute(c) ==
  LET id == sid[ref[c]] IN
  /\ pc[c] = "complete" /\ id \in Live
  /\ Transition(id, "HANDSHAKE_OK")
  /\ row' = [row EXCEPT ![id] = wants[c]]
  /\ pc' = [pc EXCEPT ![c] = "idle"]
  /\ result' = [result EXCEPT ![c] = "success"]
  /\ UNCHANGED <<route, owed, accepted, wants, ref, crashes>>

\* The reply to /handshake/complete is a success, and the session is in the map.
Complete(c) ==
  LET id == sid[ref[c]] IN
  /\ pc[c] = "complete" /\ id \in Live
  /\ state' = [state EXCEPT ![id] = After(@, "HANDSHAKE_OK")]
  /\ older' = IF Valid(state[id], "HANDSHAKE_OK") THEN Touched(older, Live, id) ELSE older
  /\ name' = [name EXCEPT ![id] = <<wants[c][1], "name">>]
  /\ route' = [route EXCEPT ![id] = wants[c][1]]
  /\ row' = [row EXCEPT ![id] = wants[c]]
  /\ pc' = [pc EXCEPT ![c] = "idle"]
  /\ result' = [result EXCEPT ![c] = "success"]
  /\ UNCHANGED <<sid, last, owed, accepted, wants, ref, crashes>>

\* /handshake/complete from a peer: a new session, ACTIVE at once.
Accept(p) ==
  /\ last < MaxKeys
  /\ Put(last + 1, last + 1, <<p, "name">>, 3)
  /\ accepted' = accepted \cup {last + 1}
  /\ UNCHANGED <<route, row, owed, calls, crashes>>

\* resumeSession, once its requests have succeeded.  The new session is given the
\* saved id after it was put in the map, so the transitions that follow go to
\* whatever the map has under that id: nothing, after a crash.  Another attempt
\* on the same id may be on its way.
Resume(id) ==
  /\ id \in owed
  /\ owed' \in {owed, owed \ {id}}
  /\ last < MaxKeys
  /\ Put(last + 1, id, row[id], 3)
  /\ route' = [route EXCEPT ![id] = row[id][1]]
  /\ UNCHANGED <<row, accepted, calls, crashes>>

\* stop and start of the same agent: the saved sessions are queued again.
StopStart ==
  /\ owed' = {k \in Keys : row[k] # NoName}
  /\ UNCHANGED <<table, route, row, accepted, calls, crashes>>

\* The process dies and starts again on the same database.
Restart ==
  /\ crashes < MaxCrashes /\ crashes' = crashes + 1
  /\ state' = [k \in Keys |-> "absent"]
  /\ sid' = [k \in Keys |-> k]
  /\ name' = [k \in Keys |-> CHOOSE n \in Names : TRUE]
  /\ older' = {}
  /\ route' = [k \in Keys |-> NoPeer]
  /\ owed' = {k \in Keys : row[k] # NoName}
  /\ accepted' = {}
  /\ pc' = [c \in Conns |-> "idle"]
  /\ wants' = [c \in Conns |-> NoName]
  /\ ref' = [c \in Conns |-> NoKey]
  /\ result' = [c \in Conns |-> "none"]
  /\ UNCHANGED <<last, row>>

Next ==
  \/ \E c \in Conns :
       \/ \E p \in Peers, how \in How : Begin(c, p, how)
       \/ InitReply(c) \/ Complete(c) \/ Fail(c)
  \/ \E p \in Peers : Accept(p)
  \/ \E id \in Keys : Resume(id)
  \/ StopStart \/ Restart

Spec == Init /\ [][Next]_vars
-----------------------------------------------------------------------------
\* No session is left on the way: while it is CONNECTING or HANDSHAKING some
\* connect call that shares it is still waiting for the reply that will move it.
NoSessionStuck ==
  \A k \in Live :
    /\ state[k] = "CONNECTING" => \E c \in Conns : pc[c] = "init" /\ sid[ref[c]] = k
    /\ state[k] = "HANDSHAKING" => \E c \in Conns : pc[c] = "complete" /\ sid[ref[c]] = k

\* A connect call that succeeds returns a session with the agent it was asked
\* for, whether it made the session, shared it or found it by name or address.
ConnectedToTarget ==
  \A c \in Conns : result[c] = "success" => name[sid[ref[c]]][1] = wants[c][1]

\* Every ACTIVE session the agent asked for itself can send: it has a connection,
\* and to the agent it is named after.
OwnSessionsRouted ==
  \A k \in Live : state[k] = "ACTIVE" /\ k \notin accepted =>
    route[k] # NoPeer /\ route[k] = name[k][1]
=============================================================================
