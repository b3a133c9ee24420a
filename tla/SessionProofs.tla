---------------------------- MODULE SessionProofs ----------------------------
(***************************************************************************)
(* Proofs about sessions.  AgentSessions, for any peers, calls and limits:  *)
(* types, that no session is left half-way, and that connect leads where it *)
(* was asked to.  SessionManager by itself, for any names and limits: that  *)
(* the map stays within maxSessions, that ACTIVE is reached by a handshake  *)
(* only, and what eviction costs; these rest on ids being keys, which holds *)
(* of the manager and not of the agent's use of it.                         *)
(***************************************************************************)
EXTENDS AgentSessions, SessionManager, FiniteSetTheorems, TLAPS

\* A connect call that is waiting holds a session created before, for a target.
CallsHold ==
  \A c \in Conns : pc[c] # "idle" => wants[c] \in Names /\ ref[c] \in 1..last

\* Keys that were not generated yet have no session and no row.
Fresh ==
  \A k \in Keys : k > last => state[k] = "absent" /\ row[k] = NoName

IInv == TypeOK /\ CallsHold /\ Fresh /\ NoSessionStuck

EntryStates == States \cup {"absent"}

\* An event leaves a state as it is, or goes along the table.
LEMMA AfterCases ==
  ASSUME NEW st \in EntryStates, NEW e \in Events
  PROVE  \/ After(st, e) = st /\ ~Valid(st, e)
         \/ After(st, e) \in States /\ <<st, e, After(st, e)>> \in Transitions
<1>1. CASE Valid(st, e)
  <2>1. \E to \in States : <<st, e, to>> \in Transitions
    BY <1>1 DEF Valid
  <2>2. After(st, e) = CHOOSE to \in States : <<st, e, to>> \in Transitions
    BY <1>1 DEF After
  <2> QED
    BY <2>1, <2>2
<1>2. CASE ~Valid(st, e)
  BY <1>2 DEF After
<1> QED
  BY <1>1, <1>2

\* The table of transitions, as far as the proofs need it.
LEMMA AfterFacts ==
  ASSUME NEW st \in EntryStates
  PROVE  /\ \A e \in Events : After(st, e) \in EntryStates /\ (st = "absent" => After(st, e) = st)
         /\ After(st, "CONNECT") = "HANDSHAKING" => st = "HANDSHAKING"
         /\ After(st, "CONNECTED") # "CONNECTING"
         /\ After(st, "HANDSHAKE_OK") # "HANDSHAKING"
         /\ After(st, "HANDSHAKE_OK") = "CONNECTING" => st = "CONNECTING"
         /\ After(st, "ERROR") \notin {"CONNECTING", "HANDSHAKING"}
<1>1. ASSUME NEW e \in Events
      PROVE  \/ After(st, e) = st /\ ~Valid(st, e)
             \/ After(st, e) \in States /\ <<st, e, After(st, e)>> \in Transitions
  BY AfterCases
<1>2. \A e \in Events : After(st, e) \in EntryStates
  BY <1>1 DEF EntryStates
<1>8. \A e \in Events : st = "absent" => After(st, e) = st
  BY <1>1 DEF Transitions
<1>3. After(st, "CONNECT") = "HANDSHAKING" => st = "HANDSHAKING"
  <2>1. "CONNECT" \in Events
    BY DEF Events
  <2> QED
    BY <1>1, <2>1 DEF Transitions
<1>4. After(st, "CONNECTED") # "CONNECTING"
  <2>1. "CONNECTED" \in Events /\ "HANDSHAKING" \in States
    BY DEF Events, States
  <2>2. Valid("CONNECTING", "CONNECTED")
    BY <2>1 DEF Valid, Transitions
  <2> QED
    BY <1>1, <2>1, <2>2 DEF Transitions
<1>5. After(st, "HANDSHAKE_OK") # "HANDSHAKING"
  <2>1. "HANDSHAKE_OK" \in Events /\ "ACTIVE" \in States
    BY DEF Events, States
  <2>2. Valid("HANDSHAKING", "HANDSHAKE_OK")
    BY <2>1 DEF Valid, Transitions
  <2> QED
    BY <1>1, <2>1, <2>2 DEF Transitions
<1>6. After(st, "HANDSHAKE_OK") = "CONNECTING" => st = "CONNECTING"
  <2>1. "HANDSHAKE_OK" \in Events
    BY DEF Events
  <2> QED
    BY <1>1, <2>1 DEF Transitions
<1>7. After(st, "ERROR") \notin {"CONNECTING", "HANDSHAKING"}
  <2>1. "ERROR" \in Events /\ "ERROR" \in States
    BY DEF Events, States
  <2>2. Valid("CONNECTING", "ERROR") /\ Valid("HANDSHAKING", "ERROR")
    BY <2>1 DEF Valid, Transitions
  <2> QED
    BY <1>1, <2>1, <2>2 DEF Transitions
<1> QED
  BY <1>2, <1>3, <1>4, <1>5, <1>6, <1>7, <1>8

\* A whole connection leads past the states in between.
LEMMA AdvancedFacts ==
  ASSUME NEW st \in EntryStates, NEW n \in 0..3
  PROVE  /\ Advanced(st, n) \in EntryStates
         /\ n = 3 => Advanced(st, n) \notin {"CONNECTING", "HANDSHAKING"}
         /\ n = 1 /\ st = "IDLE" => Advanced(st, n) # "HANDSHAKING"
<1> DEFINE one == After(st, "CONNECT")
           two == After(one, "CONNECTED")
           three == After(two, "HANDSHAKE_OK")
<1>1. {"CONNECT", "CONNECTED", "HANDSHAKE_OK"} \subseteq Events
  BY DEF Events
<1>2. one \in EntryStates /\ (one = "HANDSHAKING" => st = "HANDSHAKING")
  BY <1>1, AfterFacts
<1>3. two \in EntryStates /\ two # "CONNECTING"
  BY <1>1, <1>2, AfterFacts
<1>4. three \in EntryStates /\ three \notin {"CONNECTING", "HANDSHAKING"}
  BY <1>1, <1>3, AfterFacts
<1>5. Advanced(st, n) = CASE n = 0 -> st [] n = 1 -> one [] n = 2 -> two [] n = 3 -> three
  BY DEF Advanced
<1> HIDE DEF one, two, three
<1> QED
  BY <1>2, <1>3, <1>4, <1>5

LEMMA TouchedType ==
  ASSUME NEW r \in SUBSET (Keys \X Keys), NEW K \in SUBSET Keys, NEW k \in Keys
  PROVE  Touched(r, K, k) \in SUBSET (Keys \X Keys)
BY DEF Touched

\* A transition moves one session of the map.
LEMMA TransitionFacts ==
  ASSUME TableTypeOK, NEW id \in Keys, NEW e \in Events, Transition(id, e)
  PROVE  /\ TableTypeOK'
         /\ state' = [state EXCEPT ![id] = After(state[id], e)]
         /\ UNCHANGED <<sid, name, last>>
<1>1. /\ state' = [state EXCEPT ![id] = After(state[id], e)]
      /\ older' = IF Valid(state[id], e) THEN Touched(older, Live, id) ELSE older
      /\ UNCHANGED <<sid, name, last>>
  BY DEF Transition
<1>2. state[id] \in EntryStates /\ older \in SUBSET (Keys \X Keys) /\ Live \in SUBSET Keys
  BY DEF TableTypeOK, EntryStates, Live
<1>3. After(state[id], e) \in EntryStates
  BY <1>2, AfterFacts
<1>4. older' \in SUBSET (Keys \X Keys)
  BY <1>1, <1>2, TouchedType
<1> QED
  BY <1>1, <1>3, <1>4 DEF TableTypeOK, EntryStates

\* What create and the first events of a connection do: one entry is new, one may
\* be moved, others stay as they were or are evicted.
LEMMA PutFacts ==
  ASSUME TableTypeOK, last < MaxKeys,
         NEW id \in Keys, NEW n \in Names, NEW steps \in 0..3,
         Put(last + 1, id, n, steps)
  PROVE  /\ TableTypeOK'
         /\ last' = last + 1 /\ last + 1 \in Keys
         /\ sid' = [sid EXCEPT ![last + 1] = id]
         /\ \A j \in Keys : j \notin {last + 1, id} => state'[j] \in {state[j], "absent"}
         /\ id # last + 1 => state'[last + 1] = "IDLE"
         /\ \E st \in EntryStates :
              /\ state'[id] = Advanced(st, steps)
              /\ IF id = last + 1 THEN st = "IDLE" ELSE st \in {state[id], "absent"}
<1> DEFINE k == last + 1
<1>1. k \in Keys
  BY TableAssumption DEF TableTypeOK, Keys
<1>2. PICK gone \in SUBSET Keys :
        LET kept   == Live \ gone
            before == [j \in Keys |-> IF j = k THEN "IDLE" ELSE IF j \in kept THEN state[j] ELSE "absent"]
            moved  == Advanced(before[id], steps)
        IN  /\ Evicted(gone)
            /\ state' = [before EXCEPT ![id] = moved]
            /\ older' = LET o == Touched(older, kept \cup {k}, k)
                        IN  IF moved = before[id] THEN o ELSE Touched(o, kept \cup {k}, id)
  BY DEF Put
<1> DEFINE kept   == Live \ gone
           before == [j \in Keys |-> IF j = k THEN "IDLE" ELSE IF j \in kept THEN state[j] ELSE "absent"]
           moved  == Advanced(before[id], steps)
           o      == Touched(older, kept \cup {k}, k)
<1>3. /\ state' = [before EXCEPT ![id] = moved]
      /\ older' = IF moved = before[id] THEN o ELSE Touched(o, kept \cup {k}, id)
  BY <1>2
<1>4. before \in [Keys -> EntryStates]
  BY DEF TableTypeOK, EntryStates, States
<1>5. kept \cup {k} \in SUBSET Keys
  BY <1>1 DEF Live
<1>6. older' \in SUBSET (Keys \X Keys)
  <2>1. o \in SUBSET (Keys \X Keys)
    BY <1>1, <1>5, TouchedType DEF TableTypeOK
  <2>2. Touched(o, kept \cup {k}, id) \in SUBSET (Keys \X Keys)
    BY <1>5, <2>1, TouchedType
  <2> HIDE DEF o, moved, before, kept
  <2> QED
    BY <1>3, <2>1, <2>2
<1>7. moved \in EntryStates
  BY <1>4, AdvancedFacts
<1>8. /\ last' = k /\ sid' = [sid EXCEPT ![k] = id]
      /\ name' = [name EXCEPT ![k] = n]
  BY DEF Put
<1>9. \A j \in Keys : j # k => before[j] \in {state[j], "absent"}
  OBVIOUS
<1>10. before[k] = "IDLE"
  BY <1>1
<1>11. \E st \in EntryStates :
         /\ moved = Advanced(st, steps)
         /\ IF id = k THEN st = "IDLE" ELSE st \in {state[id], "absent"}
  BY <1>4, <1>9, <1>10
<1> HIDE DEF moved, before, kept, o
<1>12. state' \in [Keys -> States \cup {"absent"}] /\ state'[id] = moved
  BY <1>3, <1>4, <1>7 DEF EntryStates
<1>13. \A j \in Keys : j # id => state'[j] = before[j]
  BY <1>3, <1>4
<1>14. last' \in 0..MaxKeys /\ sid' \in [Keys -> Keys] /\ name' \in [Keys -> Names]
  BY <1>1, <1>8, TableAssumption DEF TableTypeOK, Keys
<1> QED
  BY <1>1, <1>6, <1>8, <1>9, <1>10, <1>11, <1>12, <1>13, <1>14 DEF TableTypeOK

LEMMA InitHolds == Init => IInv
<1> SUFFICES ASSUME Init PROVE IInv
  OBVIOUS
<1>1. TableTypeOK
  <2>1. (CHOOSE n \in Names : TRUE) \in Names
    BY TableAssumption
  <2> QED
    BY <2>1, TableAssumption DEF Init, TableInit, TableTypeOK, Keys
<1>2. TypeOK
  BY <1>1, AgentAssumption DEF Init, TypeOK, NoCalls, NoName
<1>3. CallsHold
  BY DEF Init, NoCalls, CallsHold
<1>5. Fresh
  BY DEF Init, TableInit, Fresh
<1>4. NoSessionStuck
  BY DEF Init, TableInit, NoSessionStuck, Live
<1> QED
  BY <1>2, <1>3, <1>4, <1>5 DEF IInv

\* How a step keeps sessions from being stuck: every call that waited either still
\* waits at the same place, or was on the one session the step moves.
LEMMA StuckStep ==
  ASSUME NoSessionStuck, CallsHold, TypeOK,
         NEW id \in Keys,
         \A j \in Keys : j # id =>
           state'[j] \notin {"CONNECTING", "HANDSHAKING"} \/ state'[j] = state[j],
         \A c \in Conns : pc[c] # "idle" /\ sid[ref[c]] # id =>
           pc'[c] = pc[c] /\ sid'[ref'[c]] = sid[ref[c]],
         state'[id] = "CONNECTING" => \E c \in Conns : pc'[c] = "init" /\ sid'[ref'[c]] = id,
         state'[id] = "HANDSHAKING" => \E c \in Conns : pc'[c] = "complete" /\ sid'[ref'[c]] = id
  PROVE  NoSessionStuck'
<1> SUFFICES ASSUME NEW k \in Keys
             PROVE  /\ state'[k] = "CONNECTING" => \E c \in Conns : pc'[c] = "init" /\ sid'[ref'[c]] = k
                    /\ state'[k] = "HANDSHAKING" => \E c \in Conns : pc'[c] = "complete" /\ sid'[ref'[c]] = k
  BY DEF NoSessionStuck, Live
<1>1. CASE k = id
  BY <1>1
<1>2. CASE k # id
  <2>1. state'[k] \in {"CONNECTING", "HANDSHAKING"} => k \in Live /\ state'[k] = state[k]
    BY <1>2 DEF Live
  <2>2. CASE state'[k] = "CONNECTING"
    <3>1. PICK c \in Conns : pc[c] = "init" /\ sid[ref[c]] = k
      BY <2>1, <2>2 DEF NoSessionStuck
    <3>2. pc'[c] = "init" /\ sid'[ref'[c]] = k
      BY <1>2, <3>1
    <3> QED
      BY <2>2, <3>2
  <2>3. CASE state'[k] = "HANDSHAKING"
    <3>1. PICK c \in Conns : pc[c] = "complete" /\ sid[ref[c]] = k
      BY <2>1, <2>3 DEF NoSessionStuck
    <3>2. pc'[c] = "complete" /\ sid'[ref'[c]] = k
      BY <1>2, <3>1
    <3> QED
      BY <2>3, <3>2
  <2> QED
    BY <2>2, <2>3
<1> QED
  BY <1>1, <1>2

\* connect that makes a session, accepting a peer, and resuming: an entry is put
\* in the map under a key no call holds.
LEMMA PutKeepsCalls ==
  ASSUME TypeOK, CallsHold, TableTypeOK', last' = last + 1, last + 1 \in Keys,
         NEW id \in Keys, sid' = [sid EXCEPT ![last + 1] = id]
  PROVE  \A c \in Conns : pc[c] # "idle" =>
           /\ ref[c] \in 1..last /\ ref[c] \in 1..last' /\ ref[c] \in Keys
           /\ sid'[ref[c]] = sid[ref[c]]
<1> TAKE c \in Conns
<1> HAVE pc[c] # "idle"
<1>1. ref[c] \in 1..last /\ last \in Nat /\ last + 1 \in Int
  BY TableAssumption DEF CallsHold, TypeOK, TableTypeOK
<1>2. ref[c] \in Keys /\ ref[c] # last + 1
  BY <1>1, TableAssumption DEF Keys, TypeOK, TableTypeOK
<1> QED
  BY <1>1, <1>2 DEF TypeOK, TableTypeOK

LEMMA BeginStep ==
  ASSUME IInv, NEW c \in Conns, NEW p \in Peers, NEW how \in How, Begin(c, p, how)
  PROVE  IInv'
<1> USE DEF IInv
<1>1. <<p, how>> \in Names
  BY AgentAssumption
<1>2. TypeOK /\ TableTypeOK /\ pc[c] = "idle"
  BY DEF TypeOK, Begin
<1>3. /\ wants' = [wants EXCEPT ![c] = <<p, how>>]
      /\ UNCHANGED <<route, row, owed, accepted, crashes>>
  BY DEF Begin
<1>4. CASE \E k \in Keys :
             /\ Found(k, p, how) /\ state[k] = "ACTIVE"
             /\ ref' = [ref EXCEPT ![c] = k]
             /\ result' = [result EXCEPT ![c] = "success"]
             /\ UNCHANGED <<table, pc>>
  <2>1. TypeOK'
    BY <1>1, <1>2, <1>3, <1>4 DEF TypeOK, table, TableTypeOK
  <2>2. CallsHold'
    BY <1>2, <1>3, <1>4 DEF TypeOK, CallsHold, table
  <2>4. Fresh'
    BY <1>3, <1>4 DEF Fresh, table
  <2>3. NoSessionStuck'
    <3>1. \A d \in Conns : pc[d] # "idle" => pc'[d] = pc[d] /\ ref'[d] = ref[d]
      BY <1>2, <1>4 DEF TypeOK
    <3>2. UNCHANGED <<state, sid>>
      BY <1>4 DEF table
    <3> QED
      BY <3>1, <3>2 DEF NoSessionStuck, Live
  <2> QED
    BY <2>1, <2>2, <2>3, <2>4
<1>5. CASE \E k \in Keys :
             /\ Found(k, p, how) /\ state[k] # "ACTIVE"
             /\ ref' = [ref EXCEPT ![c] = k]
             /\ Transition(sid[k], "CONNECT")
             /\ pc' = [pc EXCEPT ![c] = "init"]
             /\ result' = [result EXCEPT ![c] = "none"]
  <2>1. PICK k \in Keys :
             /\ Found(k, p, how)
             /\ ref' = [ref EXCEPT ![c] = k]
             /\ Transition(sid[k], "CONNECT")
             /\ pc' = [pc EXCEPT ![c] = "init"]
             /\ result' = [result EXCEPT ![c] = "none"]
    BY <1>5
  <2> DEFINE id == sid[k]
  <2>2. id \in Keys /\ "CONNECT" \in Events
    BY <1>2 DEF TableTypeOK, Events
  <2>3. /\ TableTypeOK'
        /\ state' = [state EXCEPT ![id] = After(state[id], "CONNECT")]
        /\ UNCHANGED <<sid, name, last>>
    BY <1>2, <2>1, <2>2, TransitionFacts
  <2>4. TypeOK'
    BY <1>1, <1>2, <1>3, <2>1, <2>3 DEF TypeOK
  <2>5. k \in 1..last
    <3>1. state[k] # "absent"
      BY <2>1 DEF Found, IsFirst, Live
    <3> QED
      BY <1>2, <3>1, TableAssumption DEF Fresh, TableTypeOK, Keys
  <2>6. CallsHold'
    BY <1>1, <1>2, <1>3, <2>1, <2>3, <2>5 DEF TypeOK, CallsHold
  <2>7. state[id] \in EntryStates
    BY <1>2, <2>2 DEF TableTypeOK, EntryStates
  <2>8. state'[id] = After(state[id], "CONNECT")
    BY <1>2, <2>2, <2>3 DEF TableTypeOK
  <2>9. pc'[c] = "init" /\ sid'[ref'[c]] = id
    BY <1>2, <2>1, <2>3 DEF TypeOK
  <2>10. \A d \in Conns : pc[d] # "idle" => pc'[d] = pc[d] /\ sid'[ref'[d]] = sid[ref[d]]
    BY <1>2, <2>1, <2>3 DEF TypeOK
  <2>11. state'[id] = "HANDSHAKING" => \E d \in Conns : pc'[d] = "complete" /\ sid'[ref'[d]] = id
    <3>1. state'[id] = "HANDSHAKING" => state[id] = "HANDSHAKING" /\ id \in Live
      BY <2>2, <2>7, <2>8, AfterFacts DEF Live
    <3> QED
      BY <3>1, <2>10 DEF NoSessionStuck
  <2>12. \A j \in Keys : j # id => state'[j] = state[j]
    BY <1>2, <2>3 DEF TableTypeOK
  <2>13. NoSessionStuck'
    BY <1>2, <2>2, <2>9, <2>10, <2>11, <2>12, StuckStep
  <2>14. Fresh'
    BY <1>2, <1>3, <2>2, <2>3, <2>7, <2>8, <2>12, AfterFacts DEF Fresh
  <2> QED
    BY <2>4, <2>6, <2>13, <2>14
<1>6. CASE /\ last < MaxKeys
           /\ Put(last + 1, last + 1, <<p, how>>, 1)
           /\ ref' = [ref EXCEPT ![c] = last + 1]
           /\ pc' = [pc EXCEPT ![c] = "init"]
           /\ result' = [result EXCEPT ![c] = "none"]
  <2>1. last + 1 \in Keys
    BY <1>2, <1>6, TableAssumption DEF TableTypeOK, Keys
  <2>2. /\ TableTypeOK' /\ last' = last + 1
        /\ sid' = [sid EXCEPT ![last + 1] = last + 1]
        /\ \A j \in Keys : j # last + 1 => state'[j] \in {state[j], "absent"}
        /\ state'[last + 1] = Advanced("IDLE", 1) /\ "IDLE" \in EntryStates
    BY <1>1, <1>2, <1>6, <2>1, PutFacts
  <2>3. TypeOK'
    BY <1>1, <1>2, <1>3, <1>6, <2>1, <2>2 DEF TypeOK
  <2>4. \A d \in Conns : pc[d] # "idle" =>
          /\ ref[d] \in 1..last' /\ ref[d] \in Keys
          /\ sid'[ref[d]] = sid[ref[d]]
    BY <1>2, <2>1, <2>2, PutKeepsCalls
  <2>5. CallsHold'
    <3>1. last + 1 \in 1..last'
      BY <1>2, <2>2 DEF TableTypeOK
    <3> QED
      BY <1>1, <1>2, <1>3, <1>6, <2>4, <3>1 DEF TypeOK, CallsHold
  <2>6. pc'[c] = "init" /\ sid'[ref'[c]] = last + 1
    BY <1>2, <1>6, <2>1, <2>2 DEF TypeOK, TableTypeOK
  <2>7. \A d \in Conns : pc[d] # "idle" => pc'[d] = pc[d] /\ sid'[ref'[d]] = sid[ref[d]]
    BY <1>2, <1>6, <2>4 DEF TypeOK
  <2>8. state'[last + 1] # "HANDSHAKING"
    BY <2>2, AdvancedFacts
  <2>10. Fresh'
    BY <1>2, <1>3, <2>1, <2>2, TableAssumption DEF Fresh, TableTypeOK, Keys
  <2>9. NoSessionStuck'
    BY <1>2, <2>1, <2>2, <2>6, <2>7, <2>8, StuckStep
  <2> QED
    BY <2>3, <2>5, <2>9, <2>10
<1> QED
  BY <1>4, <1>5, <1>6 DEF Begin

\* A reply or failure of a connect call moves the session it holds, or nothing.
LEMMA HeldFacts ==
  ASSUME IInv, NEW c \in Conns, pc[c] # "idle"
  PROVE  /\ TypeOK /\ TableTypeOK
         /\ ref[c] \in Keys /\ sid[ref[c]] \in Keys
         /\ state[sid[ref[c]]] \in EntryStates
         /\ wants[c] \in Names /\ wants[c][1] \in Peers /\ <<wants[c][1], "name">> \in Names
<1>1. TypeOK /\ TableTypeOK /\ wants[c] \in Names /\ ref[c] \in Keys
  BY DEF IInv, TypeOK, CallsHold
<1>2. wants[c][1] \in Peers /\ <<wants[c][1], "name">> \in Names
  BY <1>1, AgentAssumption DEF How
<1> QED
  BY <1>1, <1>2 DEF TableTypeOK, EntryStates

LEMMA InitReplyStep ==
  ASSUME IInv, NEW c \in Conns, InitReply(c)
  PROVE  IInv'
<1> DEFINE id == sid[ref[c]]
<1>1. /\ pc[c] = "init" /\ Transition(id, "CONNECTED")
      /\ pc' = [pc EXCEPT ![c] = "complete"]
      /\ UNCHANGED <<route, row, owed, accepted, wants, ref, result, crashes>>
  BY DEF InitReply
<1>2. TypeOK /\ TableTypeOK /\ ref[c] \in Keys /\ id \in Keys /\ state[id] \in EntryStates
  BY <1>1, HeldFacts
<1>3. "CONNECTED" \in Events
  BY DEF Events
<1>4. /\ TableTypeOK'
      /\ state' = [state EXCEPT ![id] = After(state[id], "CONNECTED")]
      /\ UNCHANGED <<sid, name, last>>
  BY <1>1, <1>2, <1>3, TransitionFacts
<1>5. state'[id] = After(state[id], "CONNECTED") /\ (\A j \in Keys : j # id => state'[j] = state[j])
  BY <1>2, <1>4 DEF TableTypeOK
<1>6. TypeOK'
  BY <1>1, <1>2, <1>4 DEF TypeOK
<1>7. CallsHold'
  BY <1>1, <1>2, <1>4 DEF IInv, CallsHold, TypeOK
<1>8. Fresh'
  BY <1>1, <1>2, <1>3, <1>4, <1>5, AfterFacts DEF IInv, Fresh
<1>9. state'[id] # "CONNECTING"
  BY <1>2, <1>5, AfterFacts
<1>10. pc'[c] = "complete" /\ sid'[ref'[c]] = id
  BY <1>1, <1>2, <1>4 DEF TypeOK
<1>11. \A d \in Conns : d # c => pc'[d] = pc[d] /\ sid'[ref'[d]] = sid[ref[d]]
  BY <1>1, <1>2, <1>4 DEF TypeOK
<1>12. NoSessionStuck'
  BY <1>2, <1>5, <1>9, <1>10, <1>11, StuckStep DEF IInv
<1> QED
  BY <1>6, <1>7, <1>8, <1>12 DEF IInv

LEMMA FailStep ==
  ASSUME IInv, NEW c \in Conns, Fail(c)
  PROVE  IInv'
<1> DEFINE id == sid[ref[c]]
<1>1. /\ pc[c] # "idle"
      /\ pc' = [pc EXCEPT ![c] = "idle"]
      /\ result' = [result EXCEPT ![c] = "failure"]
      /\ wants' = [wants EXCEPT ![c] = NoName]
      /\ ref' = [ref EXCEPT ![c] = NoKey]
      /\ UNCHANGED <<route, row, owed, accepted, crashes>>
  BY DEF Fail
<1>2. /\ TypeOK /\ TableTypeOK /\ id \in Keys /\ state[id] \in EntryStates
      /\ <<wants[c][1], "name">> \in Names
  BY <1>1, HeldFacts
<1>3. "ERROR" \in Events
  BY DEF Events
<1>4. /\ TableTypeOK'
      /\ state' = [state EXCEPT ![id] = After(state[id], "ERROR")]
      /\ UNCHANGED <<sid, last>>
  <2>1. CASE Transition(id, "ERROR")
    BY <1>2, <1>3, <2>1, TransitionFacts
  <2>2. CASE /\ state' = [state EXCEPT ![id] = After(@, "ERROR")]
             /\ older' = IF Valid(state[id], "ERROR") THEN Touched(older, Live, id) ELSE older
             /\ name' = [name EXCEPT ![id] = <<wants[c][1], "name">>]
             /\ UNCHANGED <<sid, last>>
    <3>1. After(state[id], "ERROR") \in EntryStates
      BY <1>2, <1>3, AfterFacts
    <3>2. older' \in SUBSET (Keys \X Keys)
      BY <1>2, <2>2, TouchedType DEF TableTypeOK, Live
    <3> QED
      BY <1>2, <2>2, <3>1, <3>2 DEF TableTypeOK, EntryStates
  <2> QED
    BY <2>1, <2>2 DEF Fail
<1>5. state'[id] = After(state[id], "ERROR") /\ (\A j \in Keys : j # id => state'[j] = state[j])
  BY <1>2, <1>4 DEF TableTypeOK
<1>6. TypeOK'
  BY <1>1, <1>2, <1>4 DEF TypeOK
<1>7. CallsHold'
  BY <1>1, <1>2, <1>4 DEF IInv, CallsHold, TypeOK
<1>8. Fresh'
  BY <1>1, <1>2, <1>3, <1>4, <1>5, AfterFacts DEF IInv, Fresh
<1>9. state'[id] \notin {"CONNECTING", "HANDSHAKING"}
  BY <1>2, <1>5, AfterFacts
<1>10. \A d \in Conns : d # c => pc'[d] = pc[d] /\ sid'[ref'[d]] = sid[ref[d]]
  BY <1>1, <1>2, <1>4 DEF TypeOK
<1>11. NoSessionStuck'
  BY <1>2, <1>5, <1>9, <1>10, StuckStep DEF IInv
<1> QED
  BY <1>6, <1>7, <1>8, <1>11 DEF IInv

LEMMA CompleteStep ==
  ASSUME IInv, NEW c \in Conns, Complete(c)
  PROVE  IInv'
<1> DEFINE id == sid[ref[c]]
<1>1. /\ pc[c] = "complete" /\ id \in Live
      /\ state' = [state EXCEPT ![id] = After(@, "HANDSHAKE_OK")]
      /\ older' = IF Valid(state[id], "HANDSHAKE_OK") THEN Touched(older, Live, id) ELSE older
      /\ name' = [name EXCEPT ![id] = <<wants[c][1], "name">>]
      /\ route' = [route EXCEPT ![id] = wants[c][1]]
      /\ row' = [row EXCEPT ![id] = wants[c]]
      /\ pc' = [pc EXCEPT ![c] = "idle"]
      /\ result' = [result EXCEPT ![c] = "success"]
      /\ UNCHANGED <<sid, last, owed, accepted, wants, ref, crashes>>
  BY DEF Complete
<1>2. /\ TypeOK /\ TableTypeOK /\ ref[c] \in Keys /\ id \in Keys /\ state[id] \in EntryStates
      /\ wants[c] \in Names /\ wants[c][1] \in Peers /\ <<wants[c][1], "name">> \in Names
  BY <1>1, HeldFacts
<1>3. "HANDSHAKE_OK" \in Events
  BY DEF Events
<1>4. TableTypeOK'
  <2>1. After(state[id], "HANDSHAKE_OK") \in EntryStates
    BY <1>2, <1>3, AfterFacts
  <2>2. older' \in SUBSET (Keys \X Keys)
    BY <1>1, <1>2, TouchedType DEF TableTypeOK, Live
  <2> QED
    BY <1>1, <1>2, <2>1, <2>2 DEF TableTypeOK, EntryStates
<1>5. state'[id] = After(state[id], "HANDSHAKE_OK") /\ (\A j \in Keys : j # id => state'[j] = state[j])
  BY <1>1, <1>2 DEF TableTypeOK
<1>6. TypeOK'
  <2>1. wants[c] # NoName
    BY <1>2, AgentAssumption DEF NoName
  <2>2. owed' \in SUBSET {k \in Keys : row'[k] # NoName}
    BY <1>1, <1>2, <2>1 DEF TypeOK
  <2> QED
    BY <1>1, <1>2, <1>4, <2>2 DEF TypeOK
<1>7. CallsHold'
  BY <1>1, <1>2 DEF IInv, CallsHold, TypeOK
<1>8. Fresh'
  <2>1. id \in 1..last
    BY <1>1, <1>2, TableAssumption DEF IInv, Fresh, Live, Keys, TableTypeOK
  <2>2. \A k \in Keys : k > last' => k # id
    BY <1>1, <1>2, <2>1, TableAssumption DEF Keys, TableTypeOK
  <2> QED
    BY <1>1, <1>2, <1>5, <2>2 DEF IInv, Fresh, TypeOK
<1>9. state'[id] # "HANDSHAKING"
  BY <1>2, <1>5, AfterFacts
<1>10. \A d \in Conns : d # c => pc'[d] = pc[d] /\ sid'[ref'[d]] = sid[ref[d]]
  BY <1>1, <1>2 DEF TypeOK
<1>11. state'[id] = "CONNECTING" => \E d \in Conns : pc'[d] = "init" /\ sid'[ref'[d]] = id
  <2>1. state'[id] = "CONNECTING" => state[id] = "CONNECTING"
    BY <1>2, <1>5, AfterFacts
  <2> QED
    BY <1>1, <1>10, <2>1 DEF IInv, NoSessionStuck
<1>12. NoSessionStuck'
  BY <1>2, <1>5, <1>9, <1>10, <1>11, StuckStep DEF IInv
<1> QED
  BY <1>6, <1>7, <1>8, <1>12 DEF IInv

LEMMA AcceptStep ==
  ASSUME IInv, NEW p \in Peers, Accept(p)
  PROVE  IInv'
<1>1. /\ last < MaxKeys /\ Put(last + 1, last + 1, <<p, "name">>, 3)
      /\ accepted' = accepted \cup {last + 1}
      /\ UNCHANGED <<route, row, owed, pc, wants, ref, result, crashes>>
  BY DEF Accept, calls
<1>2. TypeOK /\ TableTypeOK /\ <<p, "name">> \in Names
  BY AgentAssumption DEF IInv, TypeOK, How
<1>3. last + 1 \in Keys
  BY <1>1, <1>2, TableAssumption DEF TableTypeOK, Keys
<1>4. /\ TableTypeOK' /\ last' = last + 1
      /\ sid' = [sid EXCEPT ![last + 1] = last + 1]
      /\ \A j \in Keys : j # last + 1 => state'[j] \in {state[j], "absent"}
      /\ \E st \in EntryStates : state'[last + 1] = Advanced(st, 3)
  BY <1>1, <1>2, <1>3, PutFacts
<1>5. TypeOK'
  BY <1>1, <1>2, <1>3, <1>4 DEF TypeOK
<1>6. \A d \in Conns : pc[d] # "idle" =>
        ref[d] \in 1..last' /\ sid'[ref[d]] = sid[ref[d]]
  BY <1>2, <1>3, <1>4, PutKeepsCalls DEF IInv
<1>7. CallsHold'
  BY <1>1, <1>6 DEF IInv, CallsHold
<1>8. Fresh'
  BY <1>1, <1>2, <1>3, <1>4, TableAssumption DEF IInv, Fresh, TableTypeOK, Keys
<1>9. state'[last + 1] \notin {"CONNECTING", "HANDSHAKING"}
  BY <1>4, AdvancedFacts
<1>10. NoSessionStuck'
  BY <1>1, <1>2, <1>3, <1>4, <1>6, <1>9, StuckStep DEF IInv
<1> QED
  BY <1>5, <1>7, <1>8, <1>10 DEF IInv

LEMMA ResumeStep ==
  ASSUME IInv, NEW id \in Keys, Resume(id)
  PROVE  IInv'
<1>1. /\ id \in owed /\ owed' \in {owed, owed \ {id}}
      /\ last < MaxKeys /\ Put(last + 1, id, row[id], 3)
      /\ route' = [route EXCEPT ![id] = row[id][1]]
      /\ UNCHANGED <<row, accepted, pc, wants, ref, result, crashes>>
  BY DEF Resume, calls
<1>2. TypeOK /\ TableTypeOK /\ row[id] \in Names /\ row[id][1] \in Peers /\ row[id] # NoName
  <2>1. TypeOK /\ TableTypeOK /\ row[id] \in Names
    BY <1>1 DEF IInv, TypeOK
  <2>2. row[id][1] \in Peers /\ row[id] # NoName
    BY <2>1, AgentAssumption DEF NoName
  <2> QED
    BY <2>1, <2>2
<1>3. last + 1 \in Keys
  BY <1>1, <1>2, TableAssumption DEF TableTypeOK, Keys
<1>4. /\ TableTypeOK' /\ last' = last + 1
      /\ sid' = [sid EXCEPT ![last + 1] = id]
      /\ \A j \in Keys : j \notin {last + 1, id} => state'[j] \in {state[j], "absent"}
      /\ id # last + 1 => state'[last + 1] = "IDLE"
      /\ \E st \in EntryStates : state'[id] = Advanced(st, 3)
  BY <1>1, <1>2, <1>3, PutFacts
<1>5. TypeOK'
  BY <1>1, <1>2, <1>4 DEF TypeOK
<1>6. \A d \in Conns : pc[d] # "idle" =>
        ref[d] \in 1..last' /\ sid'[ref[d]] = sid[ref[d]]
  BY <1>2, <1>3, <1>4, PutKeepsCalls DEF IInv
<1>7. CallsHold'
  BY <1>1, <1>6 DEF IInv, CallsHold
<1>8. Fresh'
  <2>1. id <= last
    BY <1>2, TableAssumption DEF IInv, Fresh, TableTypeOK, Keys
  <2>2. \A k \in Keys : k > last' => k > last /\ k \notin {last + 1, id}
    BY <1>2, <1>4, <2>1, TableAssumption DEF TableTypeOK, Keys
  <2> QED
    BY <1>1, <1>4, <2>2 DEF IInv, Fresh
<1>9. state'[id] \notin {"CONNECTING", "HANDSHAKING"}
  BY <1>4, AdvancedFacts
<1>10. \A j \in Keys : j # id => state'[j] \notin {"CONNECTING", "HANDSHAKING"} \/ state'[j] = state[j]
  BY <1>4
<1>11. NoSessionStuck'
  BY <1>1, <1>2, <1>6, <1>9, <1>10, StuckStep DEF IInv
<1> QED
  BY <1>5, <1>7, <1>8, <1>11 DEF IInv

LEMMA RestartStep == ASSUME IInv, Restart PROVE IInv'
<1>1. TypeOK /\ TableTypeOK
  BY DEF IInv, TypeOK
<1>2. /\ crashes < MaxCrashes /\ crashes' = crashes + 1
      /\ state' = [k \in Keys |-> "absent"]
      /\ sid' = [k \in Keys |-> k]
      /\ name' = [k \in Keys |-> CHOOSE n \in Names : TRUE]
      /\ older' = {}
      /\ route' = [k \in Keys |-> NoPeer]
      /\ owed' = {k \in Keys : row[k] # NoName}
      /\ accepted' = {}
      /\ pc' = [c \in Conns |-> "idle"]
      /\ wants' = [c \in Conns |-> NoName]
      /\ ref' = [c \in Conns |-> NoKey]
      /\ result' = [c \in Conns |-> "none"]
      /\ UNCHANGED <<last, row>>
  BY DEF Restart
<1>3. (CHOOSE n \in Names : TRUE) \in Names
  BY TableAssumption
<1>4. TableTypeOK'
  BY <1>1, <1>2, <1>3 DEF TableTypeOK
<1>5. TypeOK'
  BY <1>1, <1>2, <1>4, AgentAssumption DEF TypeOK
<1>6. CallsHold' /\ NoSessionStuck'
  BY <1>2 DEF CallsHold, NoSessionStuck, Live
<1>7. Fresh'
  BY <1>2 DEF IInv, Fresh
<1> QED
  BY <1>5, <1>6, <1>7 DEF IInv

LEMMA Invariance == IInv /\ [Next]_vars => IInv'
<1> SUFFICES ASSUME IInv, [Next]_vars PROVE IInv'
  OBVIOUS
<1>1. ASSUME NEW c \in Conns, NEW p \in Peers, NEW how \in How, Begin(c, p, how) PROVE IInv'
  BY <1>1, BeginStep
<1>2. ASSUME NEW c \in Conns, InitReply(c) \/ Complete(c) \/ Fail(c) PROVE IInv'
  BY <1>2, InitReplyStep, CompleteStep, FailStep
<1>3. ASSUME NEW p \in Peers, Accept(p) PROVE IInv'
  BY <1>3, AcceptStep
<1>4. ASSUME NEW id \in Keys, Resume(id) PROVE IInv'
  BY <1>4, ResumeStep
<1>5. CASE StopStart
  <2>1. owed' = {k \in Keys : row[k] # NoName}
    BY <1>5 DEF StopStart
  <2> QED
    BY <1>5, <2>1
    DEF StopStart, IInv, TypeOK, TableTypeOK, CallsHold, Fresh, NoSessionStuck, Live, table, calls
<1>6. CASE Restart
  BY <1>6, RestartStep
<1>7. CASE UNCHANGED vars
  BY <1>7 DEF vars, table, calls, IInv, TypeOK, TableTypeOK, CallsHold, Fresh, NoSessionStuck, Live
<1> QED
  BY <1>1, <1>2, <1>3, <1>4, <1>5, <1>6, <1>7 DEF Next

LEMMA Always == Spec => []IInv
BY InitHolds, Invariance, PTL DEF Spec

\* The session table, the connections and the connect calls keep their types, for
\* any peers, calls and limits.
THEOREM TypeCorrect == Spec => []TypeOK
<1>1. IInv => TypeOK
  BY DEF IInv
<1> QED
  BY <1>1, Always, PTL

\* No session is left CONNECTING or HANDSHAKING without a connect call that waits
\* for the reply that moves it (agent.ts connect), whatever calls share it.
THEOREM NothingStuck == Spec => []NoSessionStuck
<1>1. IInv => NoSessionStuck
  BY DEF IInv
<1> QED
  BY <1>1, Always, PTL
-----------------------------------------------------------------------------
\* Ids.  A session has its own key for an id, or, once resumed, the id of another
\* that was saved; nothing is ever done to the former under its own key.
Ids ==
  \A k \in Keys :
    /\ sid[sid[k]] = sid[k]
    /\ row[k] # NoName => sid[k] = k
    /\ sid[k] # k => state[k] \in {"IDLE", "absent"}
    /\ IF k > last THEN sid[k] = k /\ route[k] = NoPeer ELSE sid[k] <= last

\* Whatever is kept of a session of the map is about one and the same peer.
NamesAgree ==
  \A k \in Live :
    /\ sid[k] \in Live => name[sid[k]][1] = name[k][1]
    /\ row[k] # NoName => row[k][1] = name[k][1]
    /\ route[k] # NoPeer => route[k] = name[k][1]
    /\ state[k] = "ACTIVE" /\ k \notin accepted => route[k] # NoPeer

\* A call holds a session of the peer it was asked for: while it waits, if the
\* session is still there; once it succeeded, whatever became of it.
CallsAligned ==
  \A c \in Conns :
    /\ result[c] = "success" => ref[c] \in 1..last /\ name[sid[ref[c]]][1] = wants[c][1]
    /\ pc[c] # "idle" /\ sid[ref[c]] \in Live => name[sid[ref[c]]][1] = wants[c][1]

PeersInv == Ids /\ NamesAgree /\ CallsAligned

\* Only the end of a handshake makes a session of the map ACTIVE, and no event
\* takes one out of the map.
LEMMA BecomesActive ==
  ASSUME NEW st \in EntryStates, NEW e \in {"CONNECT", "CONNECTED", "HANDSHAKE_OK", "ERROR"}
  PROVE  /\ e # "HANDSHAKE_OK" /\ After(st, e) = "ACTIVE" => st = "ACTIVE"
         /\ After(st, e) = "absent" <=> st = "absent"
<1>1. e \in Events
  BY DEF Events
<1> QED
  BY <1>1, AfterCases DEF Transitions, States

LEMMA FreshNotActive == Advanced("IDLE", 1) # "ACTIVE"
<1>1. "IDLE" \in EntryStates
  BY DEF EntryStates, States
<1>2. Advanced("IDLE", 1) = After("IDLE", "CONNECT")
  BY DEF Advanced
<1> QED
  BY <1>1, <1>2, BecomesActive

\* An absent session stays so along a whole connection.
LEMMA AbsentStays == Advanced("absent", 3) = "absent"
<1>1. "absent" \in EntryStates
  BY DEF EntryStates
<1>2. {"CONNECT", "CONNECTED", "HANDSHAKE_OK"} \subseteq Events
  BY DEF Events
<1>3. \A e \in Events : After("absent", e) = "absent"
  BY <1>1, AfterFacts
<1> QED
  BY <1>2, <1>3 DEF Advanced

\* What an event of a connect call does to the session it goes to: no session
\* comes to be of another peer, and one that becomes ACTIVE has its connection.
LEMMA MoveStep ==
  ASSUME IInv, PeersInv, NEW id \in Keys, sid[id] = id,
         NEW e \in {"CONNECT", "CONNECTED", "HANDSHAKE_OK", "ERROR"},
         state' = [state EXCEPT ![id] = After(state[id], e)],
         UNCHANGED <<sid, last, accepted>>,
         \A k \in Keys : name'[k][1] = name[k][1],
         \/ e # "HANDSHAKE_OK" /\ UNCHANGED <<route, row>>
         \/ \E w \in Names :
              /\ id \in Live /\ w[1] = name[id][1] /\ w[1] # NoPeer
              /\ route' = [route EXCEPT ![id] = w[1]]
              /\ row' = [row EXCEPT ![id] = w]
  PROVE  Ids' /\ NamesAgree' /\ Live' = Live
<1>1. TypeOK /\ TableTypeOK
  BY DEF IInv, TypeOK
<1>2. state[id] \in EntryStates
  BY <1>1 DEF TableTypeOK, EntryStates
<1>3. \A k \in Keys : k # id => state'[k] = state[k]
  BY <1>1 DEF TableTypeOK
<1>4. state'[id] = After(state[id], e)
  BY <1>1 DEF TableTypeOK
<1>5. Live' = Live
  BY <1>2, <1>3, <1>4, BecomesActive DEF Live
<1>6. \A k \in Keys : k # id => route'[k] = route[k] /\ row'[k] = row[k]
  BY <1>1 DEF TypeOK
<1>7. \/ e # "HANDSHAKE_OK" /\ route'[id] = route[id] /\ row'[id] = row[id]
      \/ id \in Live /\ route'[id] = name[id][1] /\ row'[id][1] = name[id][1] /\ route'[id] # NoPeer
  BY <1>1 DEF TypeOK
<1>8. Ids'
  <2> SUFFICES ASSUME NEW k \in Keys
               PROVE  /\ sid[sid[k]] = sid[k]
                      /\ row'[k] # NoName => sid[k] = k
                      /\ sid[k] # k => state'[k] \in {"IDLE", "absent"}
                      /\ IF k > last THEN sid[k] = k /\ route'[k] = NoPeer ELSE sid[k] <= last
    BY DEF Ids
  <2>1. k # id => state'[k] = state[k] /\ route'[k] = route[k] /\ row'[k] = row[k]
    BY <1>3, <1>6
  <2>2. id > last => state[id] = "absent"
    BY DEF IInv, Fresh
  <2> QED
    BY <1>7, <2>1, <2>2 DEF PeersInv, Ids, Live
<1>9. NamesAgree'
  <2> SUFFICES ASSUME NEW k \in Live
               PROVE  /\ sid[k] \in Live => name'[sid[k]][1] = name'[k][1]
                      /\ row'[k] # NoName => row'[k][1] = name'[k][1]
                      /\ route'[k] # NoPeer => route'[k] = name'[k][1]
                      /\ state'[k] = "ACTIVE" /\ k \notin accepted => route'[k] # NoPeer
    BY <1>5 DEF NamesAgree
  <2>1. k \in Keys /\ name'[k][1] = name[k][1]
    BY DEF Live
  <2>2. sid[k] \in Live => name'[sid[k]][1] = name[sid[k]][1]
    BY DEF Live
  <2>3. k # id => state'[k] = state[k] /\ route'[k] = route[k] /\ row'[k] = row[k]
    BY <1>3, <1>6, <2>1
  <2>4. k = id /\ e # "HANDSHAKE_OK" /\ state'[k] = "ACTIVE" => state[k] = "ACTIVE"
    <3>1. e # "HANDSHAKE_OK" /\ After(state[id], e) = "ACTIVE" => state[id] = "ACTIVE"
      BY <1>2, BecomesActive
    <3> QED
      BY <3>1, <1>4
  <2> QED
    BY <1>7, <2>1, <2>2, <2>3, <2>4 DEF PeersInv, NamesAgree
<1> QED
  BY <1>5, <1>8, <1>9

\* A new entry, of the agent's own (connect), of a peer's (accept) or of a saved
\* session (resume), agrees with what is known under the id it is given.
LEMMA PutStep ==
  ASSUME IInv, PeersInv, last < MaxKeys,
         NEW id \in Keys, NEW n \in Names, NEW steps \in {1, 3},
         Put(last + 1, id, n, steps), UNCHANGED row,
         \/ id = last + 1 /\ UNCHANGED route
         \/ id # last + 1 /\ row[id] = n /\ n[1] # NoPeer /\ route' = [route EXCEPT ![id] = n[1]],
         id = last + 1 /\ steps = 3 => last + 1 \in accepted',
         steps = 1 => id = last + 1,
         accepted \subseteq accepted'
  PROVE  /\ Ids' /\ NamesAgree'
         /\ \A k \in Keys : k <= last => sid'[k] = sid[k] /\ sid[k] \in Keys /\ name'[sid[k]] = name[sid[k]]
         /\ \A k \in Keys : k <= last => (k \in Live' => k \in Live)
<1>1. TypeOK /\ TableTypeOK /\ last \in Nat /\ last + 1 \in Keys
  <2>1. TypeOK /\ TableTypeOK
    BY DEF IInv, TypeOK
  <2>2. last \in 0..MaxKeys
    BY <2>1 DEF TableTypeOK
  <2> QED
    BY <2>1, <2>2, TableAssumption DEF Keys
<1>2. n # NoName
  BY AgentAssumption DEF NoName
<1>3. id # last + 1 => id <= last /\ sid[id] = id
  <2>1. id # last + 1 => row[id] # NoName
    BY <1>2
  <2> QED
    BY <1>1, <2>1, TableAssumption DEF IInv, Fresh, PeersInv, Ids, Keys
<1>4. /\ last' = last + 1
      /\ sid' = [sid EXCEPT ![last + 1] = id]
      /\ name' = [name EXCEPT ![last + 1] = n]
      /\ \A j \in Keys : j \notin {last + 1, id} => state'[j] \in {state[j], "absent"}
      /\ id # last + 1 => state'[last + 1] = "IDLE"
  BY <1>1, PutFacts DEF Put
<1>5. \A k \in Keys : k # last + 1 => sid'[k] = sid[k] /\ name'[k] = name[k]
  BY <1>1, <1>4 DEF TableTypeOK
<1>6. sid'[last + 1] = id /\ name'[last + 1] = n
  BY <1>1, <1>4 DEF TableTypeOK
<1>7. \A k \in Keys : k <= last => sid[k] <= last /\ sid[k] \in Keys
  BY <1>1 DEF PeersInv, Ids, TableTypeOK, Keys
<1>8. \A k \in Keys : k <= last => sid'[k] = sid[k] /\ sid[k] \in Keys /\ name'[sid[k]] = name[sid[k]]
  BY <1>1, <1>5, <1>7 DEF Keys
<1>9. PICK st \in EntryStates :
        /\ state'[id] = Advanced(st, steps)
        /\ IF id = last + 1 THEN st = "IDLE" ELSE st \in {state[id], "absent"}
  BY <1>1, PutFacts
<1>10. id # last + 1 /\ state[id] = "absent" => state'[id] = "absent"
  BY <1>9, AbsentStays
<1>11. \A k \in Keys : k <= last /\ state[k] = "absent" => state'[k] = "absent"
  BY <1>4, <1>10, <1>1
<1>12. \A k \in Keys : k # id => route'[k] = route[k]
  BY <1>1 DEF TypeOK
<1>13. id # last + 1 => route'[id] = n[1] /\ row[id] = n /\ n[1] # NoPeer
  BY <1>1 DEF TypeOK
<1>14. row[last + 1] = NoName /\ route[last + 1] = NoPeer
  BY <1>1 DEF IInv, Fresh, PeersInv, Ids
<1>15. Ids'
  <2> SUFFICES ASSUME NEW k \in Keys
               PROVE  /\ sid'[sid'[k]] = sid'[k]
                      /\ row[k] # NoName => sid'[k] = k
                      /\ sid'[k] # k => state'[k] \in {"IDLE", "absent"}
                      /\ IF k > last' THEN sid'[k] = k /\ route'[k] = NoPeer ELSE sid'[k] <= last'
    BY DEF Ids
  <2>1. CASE k = last + 1
    <3>1. id # last + 1 => sid'[id] = id
      BY <1>3, <1>5
    <3> QED
      BY <2>1, <3>1, <1>1, <1>3, <1>4, <1>6, <1>14
  <2>2. CASE k <= last
    <3>1. sid'[k] = sid[k] /\ sid[k] <= last /\ sid[k] \in Keys
      BY <2>2, <1>7, <1>8
    <3>2. sid'[sid[k]] = sid[k]
      BY <3>1, <1>8 DEF PeersInv, Ids
    <3>3. k # id => state'[k] \in {state[k], "absent"}
      BY <2>2, <1>1, <1>4
    <3>4. sid[k] # k => k # id
      BY <2>2, <1>1, <1>3
    <3> QED
      BY <2>2, <3>1, <3>2, <3>3, <3>4, <1>1, <1>4 DEF PeersInv, Ids, Keys
  <2>3. CASE k > last + 1
    <3>1. k # id
      BY <2>3, <1>1, <1>3 DEF Keys
    <3>2. sid'[k] = k /\ row[k] = NoName /\ route[k] = NoPeer
      BY <2>3, <1>1, <1>5 DEF PeersInv, Ids, IInv, Fresh, Keys
    <3> QED
      BY <2>3, <3>1, <3>2, <1>4, <1>12
  <2> QED
    BY <2>1, <2>2, <2>3, <1>1 DEF Keys
<1>16. \A k \in Keys : k <= last => (k \in Live' => k \in Live)
  BY <1>11 DEF Live
<1>17. NamesAgree'
  <2> SUFFICES ASSUME NEW k \in Live'
               PROVE  /\ sid'[k] \in Live' => name'[sid'[k]][1] = name'[k][1]
                      /\ row[k] # NoName => row[k][1] = name'[k][1]
                      /\ route'[k] # NoPeer => route'[k] = name'[k][1]
                      /\ state'[k] = "ACTIVE" /\ k \notin accepted' => route'[k] # NoPeer
    BY DEF NamesAgree
  <2>0. k \in Keys
    BY DEF Live
  <2>1. CASE k = last + 1
    <3>1. CASE id = last + 1
      <4>1. state'[id] = Advanced("IDLE", steps)
        BY <3>1, <1>9
      <4>2. steps = 1 => state'[k] # "ACTIVE"
        BY <2>1, <3>1, <4>1, FreshNotActive
      <4>3. route'[k] = NoPeer
        BY <2>1, <3>1, <1>14
      <4> QED
        BY <2>1, <3>1, <4>2, <4>3, <1>6, <1>14
    <3>2. CASE id # last + 1
      <4>1. name'[id] = name[id]
        BY <3>2, <1>5
      <4>2. id \in Live' => name[id][1] = n[1]
        BY <3>2, <1>2, <1>3, <1>13, <1>16 DEF PeersInv, NamesAgree
      <4>3. route'[k] = NoPeer
        BY <2>1, <3>2, <1>1, <1>12, <1>14
      <4> QED
        BY <2>1, <3>2, <4>1, <4>2, <4>3, <1>4, <1>6, <1>14
    <3> QED
      BY <3>1, <3>2
  <2>2. CASE k <= last
    <3>1. k \in Live /\ sid'[k] = sid[k] /\ sid[k] \in Keys /\ sid[k] <= last
      BY <2>0, <2>2, <1>7, <1>8, <1>16
    <3>2. /\ sid'[k] \in Live' => sid[k] \in Live
          /\ name'[sid[k]] = name[sid[k]] /\ name'[k] = name[k]
      BY <2>0, <2>2, <3>1, <1>1, <1>5, <1>8, <1>16
    <3>3. CASE k = id
      <4>1. row[k] # NoName /\ row[k][1] = name[k][1]
        BY <2>2, <3>1, <3>3, <1>1, <1>2, <1>13 DEF PeersInv, NamesAgree
      <4>2. route'[k] = row[k][1] /\ route'[k] # NoPeer
        BY <2>2, <3>3, <1>1, <1>13
      <4> QED
        BY <3>1, <3>2, <4>1, <4>2 DEF PeersInv, NamesAgree
    <3>4. CASE k # id
      <4>1. route'[k] = route[k]
        BY <2>0, <3>4, <1>12
      <4>2. state'[k] = "ACTIVE" => state[k] = "ACTIVE"
        BY <2>0, <2>2, <3>4, <1>1, <1>4
      <4> QED
        BY <3>1, <3>2, <4>1, <4>2 DEF PeersInv, NamesAgree
    <3> QED
      BY <3>3, <3>4
  <2>3. CASE k > last + 1
    <3>1. state[k] = "absent" /\ k # id
      BY <2>0, <2>3, <1>1, <1>3 DEF IInv, Fresh, Keys
    <3>2. state'[k] = "absent"
      BY <2>0, <2>3, <3>1, <1>1, <1>4
    <3> QED
      BY <3>2 DEF Live
  <2> QED
    BY <2>0, <2>1, <2>2, <2>3, <1>1 DEF Keys
<1> QED
  BY <1>8, <1>15, <1>16, <1>17

\* Calls that do nothing in a step stay aligned, as the sessions they hold do not
\* come to be of another peer.
LEMMA OthersStep ==
  ASSUME IInv, PeersInv, NEW D \in SUBSET Conns,
         \A d \in D : /\ pc'[d] = pc[d] /\ result'[d] = result[d]
                      /\ ref'[d] = ref[d] /\ wants'[d] = wants[d],
         last' \in Nat, last <= last',
         \A k \in Keys : k <= last =>
           sid'[k] = sid[k] /\ sid[k] \in Keys /\ name'[sid[k]][1] = name[sid[k]][1],
         \A k \in Keys : k <= last => (k \in Live' => k \in Live)
  PROVE  \A d \in D :
           /\ result'[d] = "success" =>
                ref'[d] \in 1..last' /\ name'[sid'[ref'[d]]][1] = wants'[d][1]
           /\ pc'[d] # "idle" /\ sid'[ref'[d]] \in Live' => name'[sid'[ref'[d]]][1] = wants'[d][1]
<1> TAKE d \in D
<1>1. TypeOK /\ TableTypeOK /\ d \in Conns
  BY DEF IInv, TypeOK
<1>2. last \in Nat /\ last <= MaxKeys
  BY <1>1, TableAssumption DEF TableTypeOK
<1>3. pc[d] # "idle" \/ result[d] = "success" => ref[d] \in 1..last
  BY <1>1 DEF IInv, CallsHold, PeersInv, CallsAligned
<1>4. CASE pc[d] # "idle" \/ result[d] = "success"
  <2>1. ref[d] \in 1..last
    BY <1>3, <1>4
  <2>2. ref[d] \in Keys /\ ref[d] <= last /\ ref[d] \in 1..last'
    BY <2>1, <1>2, TableAssumption DEF Keys
  <2>3. sid'[ref[d]] = sid[ref[d]] /\ sid[ref[d]] \in Keys /\ name'[sid[ref[d]]][1] = name[sid[ref[d]]][1]
    BY <2>2
  <2>4. sid[ref[d]] <= last
    BY <2>2, <1>2 DEF PeersInv, Ids, Keys
  <2>5. sid[ref[d]] \in Live' => sid[ref[d]] \in Live
    BY <2>3, <2>4
  <2> QED
    BY <1>1, <2>2, <2>3, <2>5 DEF PeersInv, CallsAligned
<1>5. CASE ~(pc[d] # "idle" \/ result[d] = "success")
  BY <1>5
<1> QED
  BY <1>4, <1>5

LEMMA OthersUnmoved ==
  ASSUME IInv, PeersInv, NEW c \in Conns,
         \A d \in Conns \ {c} : /\ pc'[d] = pc[d] /\ result'[d] = result[d]
                                /\ ref'[d] = ref[d] /\ wants'[d] = wants[d],
         UNCHANGED <<sid, last>>, Live' = Live,
         \A k \in Keys : name'[k][1] = name[k][1]
  PROVE  \A d \in Conns \ {c} :
           /\ result'[d] = "success" =>
                ref'[d] \in 1..last' /\ name'[sid'[ref'[d]]][1] = wants'[d][1]
           /\ pc'[d] # "idle" /\ sid'[ref'[d]] \in Live' => name'[sid'[ref'[d]]][1] = wants'[d][1]
<1>1. last \in Nat /\ last <= last /\ Conns \ {c} \in SUBSET Conns
  <2>1. TableTypeOK
    BY DEF IInv, TypeOK
  <2> QED
    BY <2>1 DEF TableTypeOK
<1>2. \A k \in Keys : sid[k] \in Keys
  BY DEF IInv, TypeOK, TableTypeOK
<1> QED
  BY <1>1, <1>2, OthersStep

\* The session a waiting call holds is named by its own id.
LEMMA HeldId ==
  ASSUME IInv, PeersInv, NEW k \in Keys
  PROVE  sid[k] \in Keys /\ sid[sid[k]] = sid[k]
BY DEF IInv, TypeOK, TableTypeOK, PeersInv, Ids

LEMMA BeginKeepsPeers ==
  ASSUME IInv, PeersInv, IInv', NEW c \in Conns, NEW p \in Peers, NEW how \in How, Begin(c, p, how)
  PROVE  PeersInv'
<1>1. TypeOK /\ TableTypeOK /\ last \in Nat
  <2>1. TypeOK /\ TableTypeOK
    BY DEF IInv, TypeOK
  <2> QED
    BY <2>1 DEF TableTypeOK
<1>2. /\ wants' = [wants EXCEPT ![c] = <<p, how>>] /\ wants'[c][1] = p
      /\ UNCHANGED <<route, row, owed, accepted, crashes>>
      /\ p # NoPeer
  BY <1>1, AgentAssumption DEF Begin, TypeOK
<1>3. \A k \in Keys : sid[k] \in Keys /\ (k <= last => sid[k] <= last)
  BY <1>1 DEF TableTypeOK, PeersInv, Ids, Keys
<1>4. \A k \in Live : k \in Keys /\ k \in 1..last
  BY <1>1 DEF IInv, Fresh, Live, Keys
<1>5. CASE \E k \in Keys :
             /\ Found(k, p, how) /\ state[k] = "ACTIVE"
             /\ ref' = [ref EXCEPT ![c] = k]
             /\ result' = [result EXCEPT ![c] = "success"]
             /\ UNCHANGED <<table, pc>>
  <2>1. PICK k \in Keys :
             /\ Found(k, p, how) /\ state[k] = "ACTIVE"
             /\ ref' = [ref EXCEPT ![c] = k]
             /\ result' = [result EXCEPT ![c] = "success"]
             /\ UNCHANGED <<table, pc>>
    BY <1>5
  <2>2. UNCHANGED <<state, sid, name, older, last, pc>> /\ Live' = Live
    BY <2>1 DEF table, Live
  <2>3. Ids' /\ NamesAgree'
    BY <1>2, <2>2 DEF PeersInv, Ids, NamesAgree
  <2>4. k \in Live /\ sid[k] = k
    BY <2>1 DEF Live, PeersInv, Ids
  <2>5. name[k][1] = p
    BY <1>2, <2>1, <2>4 DEF Found, IsFirst, PeersInv, NamesAgree
  <2>6. ref'[c] = k /\ pc'[c] = "idle" /\ k \in 1..last
    BY <1>1, <1>4, <2>1, <2>2, <2>4 DEF Begin, TypeOK
  <2>7. \A d \in Conns \ {c} :
          /\ result'[d] = "success" =>
               ref'[d] \in 1..last' /\ name'[sid'[ref'[d]]][1] = wants'[d][1]
          /\ pc'[d] # "idle" /\ sid'[ref'[d]] \in Live' => name'[sid'[ref'[d]]][1] = wants'[d][1]
    <3>1. \A d \in Conns \ {c} : /\ pc'[d] = pc[d] /\ result'[d] = result[d]
                                 /\ ref'[d] = ref[d] /\ wants'[d] = wants[d]
      BY <1>1, <1>2, <2>1, <2>2 DEF TypeOK
    <3> QED
      BY <3>1, <1>1, <1>3, <2>2, OthersUnmoved
  <2>8. CallsAligned'
    BY <1>2, <2>2, <2>4, <2>5, <2>6, <2>7 DEF CallsAligned
  <2> QED
    BY <2>3, <2>8 DEF PeersInv
<1>6. CASE \E k \in Keys :
             /\ Found(k, p, how) /\ state[k] # "ACTIVE"
             /\ ref' = [ref EXCEPT ![c] = k]
             /\ Transition(sid[k], "CONNECT")
             /\ pc' = [pc EXCEPT ![c] = "init"]
             /\ result' = [result EXCEPT ![c] = "none"]
  <2>1. PICK k \in Keys :
             /\ Found(k, p, how) /\ state[k] # "ACTIVE"
             /\ ref' = [ref EXCEPT ![c] = k]
             /\ Transition(sid[k], "CONNECT")
             /\ pc' = [pc EXCEPT ![c] = "init"]
             /\ result' = [result EXCEPT ![c] = "none"]
    BY <1>6
  <2>2. /\ state' = [state EXCEPT ![sid[k]] = After(state[sid[k]], "CONNECT")]
        /\ UNCHANGED <<sid, name, last>>
    BY <2>1 DEF Transition
  <2>3. sid[k] \in Keys /\ sid[sid[k]] = sid[k]
    BY HeldId
  <2>4. Ids' /\ NamesAgree' /\ Live' = Live
    BY <1>2, <2>2, <2>3, MoveStep
  <2>5. k \in Live /\ name[k] = <<p, how>>
    BY <2>1 DEF Found, IsFirst
  <2>6. sid[k] \in Live => name[sid[k]][1] = p
    BY <2>5 DEF PeersInv, NamesAgree
  <2>7. ref'[c] = k /\ result'[c] = "none"
    BY <1>1, <2>1 DEF TypeOK
  <2>8. \A d \in Conns \ {c} :
          /\ result'[d] = "success" =>
               ref'[d] \in 1..last' /\ name'[sid'[ref'[d]]][1] = wants'[d][1]
          /\ pc'[d] # "idle" /\ sid'[ref'[d]] \in Live' => name'[sid'[ref'[d]]][1] = wants'[d][1]
    <3>1. \A d \in Conns \ {c} : /\ pc'[d] = pc[d] /\ result'[d] = result[d]
                                 /\ ref'[d] = ref[d] /\ wants'[d] = wants[d]
      BY <1>1, <1>2, <2>1 DEF TypeOK
    <3> QED
      BY <3>1, <1>1, <1>3, <2>2, <2>4, OthersUnmoved
  <2>9. CallsAligned'
    BY <1>2, <2>2, <2>4, <2>6, <2>7, <2>8 DEF CallsAligned
  <2> QED
    BY <2>4, <2>9 DEF PeersInv
<1>7. CASE /\ last < MaxKeys
           /\ Put(last + 1, last + 1, <<p, how>>, 1)
           /\ ref' = [ref EXCEPT ![c] = last + 1]
           /\ pc' = [pc EXCEPT ![c] = "init"]
           /\ result' = [result EXCEPT ![c] = "none"]
  <2>1. last + 1 \in Keys /\ <<p, how>> \in Names
    BY <1>1, <1>7, TableAssumption, AgentAssumption DEF TableTypeOK, Keys
  <2>2. /\ Ids' /\ NamesAgree'
        /\ \A k \in Keys : k <= last => sid'[k] = sid[k] /\ sid[k] \in Keys /\ name'[sid[k]] = name[sid[k]]
        /\ \A k \in Keys : k <= last => (k \in Live' => k \in Live)
    BY <1>2, <1>7, <2>1, PutStep
  <2>3. /\ last' = last + 1 /\ sid' = [sid EXCEPT ![last + 1] = last + 1]
        /\ name' = [name EXCEPT ![last + 1] = <<p, how>>]
    BY <1>7 DEF Put
  <2>4. sid'[last + 1] = last + 1 /\ name'[last + 1] = <<p, how>>
    BY <1>1, <2>1, <2>3 DEF TableTypeOK
  <2>5. ref'[c] = last + 1 /\ result'[c] = "none"
    BY <1>1, <1>7 DEF TypeOK
  <2>6. \A d \in Conns \ {c} :
          /\ result'[d] = "success" =>
               ref'[d] \in 1..last' /\ name'[sid'[ref'[d]]][1] = wants'[d][1]
          /\ pc'[d] # "idle" /\ sid'[ref'[d]] \in Live' => name'[sid'[ref'[d]]][1] = wants'[d][1]
    <3>1. \A d \in Conns \ {c} : /\ pc'[d] = pc[d] /\ result'[d] = result[d]
                                 /\ ref'[d] = ref[d] /\ wants'[d] = wants[d]
      BY <1>1, <1>2, <1>7 DEF TypeOK
    <3> QED
      <4>1. last' \in Nat /\ last <= last'
        BY <1>1, <2>3
      <4>2. \A k \in Keys : k <= last =>
              sid'[k] = sid[k] /\ sid[k] \in Keys /\ name'[sid[k]][1] = name[sid[k]][1]
        BY <2>2
      <4> QED
        BY <3>1, <2>2, <4>1, <4>2, OthersStep
  <2>7. CallsAligned'
    BY <1>2, <2>4, <2>5, <2>6 DEF CallsAligned
  <2> QED
    BY <2>2, <2>7 DEF PeersInv
<1> QED
  BY <1>5, <1>6, <1>7 DEF Begin

LEMMA InitReplyKeepsPeers ==
  ASSUME IInv, PeersInv, NEW c \in Conns, InitReply(c)
  PROVE  PeersInv'
<1> DEFINE id == sid[ref[c]]
<1>1. /\ pc[c] = "init"
      /\ pc' = [pc EXCEPT ![c] = "complete"]
      /\ UNCHANGED <<route, row, owed, accepted, wants, ref, result, crashes>>
      /\ state' = [state EXCEPT ![id] = After(state[id], "CONNECTED")]
      /\ UNCHANGED <<sid, name, last>>
  BY DEF InitReply, Transition
<1>2. TypeOK /\ TableTypeOK /\ ref[c] \in Keys
  BY <1>1, HeldFacts
<1>3. id \in Keys /\ sid[id] = id
  BY <1>2, HeldId
<1>4. Ids' /\ NamesAgree' /\ Live' = Live
  <2> HIDE DEF id
  <2> QED
    BY <1>1, <1>3, MoveStep
<1>5. \A d \in Conns : pc'[d] # "idle" => pc[d] # "idle"
  BY <1>1, <1>2 DEF TypeOK
<1> QED
  BY <1>1, <1>4, <1>5 DEF PeersInv, CallsAligned

LEMMA FailKeepsPeers ==
  ASSUME IInv, PeersInv, NEW c \in Conns, Fail(c)
  PROVE  PeersInv'
<1> DEFINE id == sid[ref[c]]
<1>1. /\ pc[c] # "idle"
      /\ pc' = [pc EXCEPT ![c] = "idle"]
      /\ result' = [result EXCEPT ![c] = "failure"]
      /\ wants' = [wants EXCEPT ![c] = NoName]
      /\ ref' = [ref EXCEPT ![c] = NoKey]
      /\ UNCHANGED <<route, row, owed, accepted, crashes>>
  BY DEF Fail
<1>2. TypeOK /\ TableTypeOK /\ ref[c] \in Keys /\ last \in Nat
  <2>1. TypeOK /\ TableTypeOK /\ ref[c] \in Keys
    BY <1>1, HeldFacts
  <2> QED
    BY <2>1 DEF TableTypeOK
<1>3. id \in Keys /\ sid[id] = id
  BY <1>2, HeldId
<1>4. /\ state' = [state EXCEPT ![id] = After(state[id], "ERROR")]
      /\ UNCHANGED <<sid, last>>
      /\ \/ name' = name
         \/ id \in Live /\ name' = [name EXCEPT ![id] = <<wants[c][1], "name">>]
  BY DEF Fail, Transition
<1>5. \A k \in Keys : name'[k][1] = name[k][1]
  <2>1. id \in Live => name[id][1] = wants[c][1]
    BY <1>1 DEF PeersInv, CallsAligned
  <2> HIDE DEF id
  <2> QED
    BY <1>2, <1>3, <1>4, <2>1 DEF TableTypeOK
<1>6. Ids' /\ NamesAgree' /\ Live' = Live
  <2> HIDE DEF id
  <2> QED
    BY <1>1, <1>3, <1>4, <1>5, MoveStep
<1>7. pc'[c] = "idle" /\ result'[c] = "failure"
  BY <1>1, <1>2 DEF TypeOK
<1>8. \A d \in Conns \ {c} : /\ pc'[d] = pc[d] /\ result'[d] = result[d]
                             /\ ref'[d] = ref[d] /\ wants'[d] = wants[d]
  BY <1>1, <1>2 DEF TypeOK
<1>9. \A k \in Keys : sid[k] \in Keys
  BY <1>2 DEF TableTypeOK
<1>10. \A d \in Conns \ {c} :
         /\ result'[d] = "success" =>
              ref'[d] \in 1..last' /\ name'[sid'[ref'[d]]][1] = wants'[d][1]
         /\ pc'[d] # "idle" /\ sid'[ref'[d]] \in Live' => name'[sid'[ref'[d]]][1] = wants'[d][1]
  BY <1>2, <1>4, <1>5, <1>6, <1>8, <1>9, OthersUnmoved
<1> QED
  BY <1>6, <1>7, <1>10 DEF PeersInv, CallsAligned

LEMMA CompleteKeepsPeers ==
  ASSUME IInv, PeersInv, NEW c \in Conns, Complete(c)
  PROVE  PeersInv'
<1> DEFINE id == sid[ref[c]]
<1>1. /\ pc[c] = "complete" /\ id \in Live
      /\ state' = [state EXCEPT ![id] = After(state[id], "HANDSHAKE_OK")]
      /\ name' = [name EXCEPT ![id] = <<wants[c][1], "name">>]
      /\ route' = [route EXCEPT ![id] = wants[c][1]]
      /\ row' = [row EXCEPT ![id] = wants[c]]
      /\ pc' = [pc EXCEPT ![c] = "idle"]
      /\ result' = [result EXCEPT ![c] = "success"]
      /\ UNCHANGED <<sid, last, owed, accepted, wants, ref, crashes>>
  BY DEF Complete
<1>2. /\ TypeOK /\ TableTypeOK /\ ref[c] \in Keys /\ last \in Nat
      /\ wants[c] \in Names /\ wants[c][1] # NoPeer
  <2>1. TypeOK /\ TableTypeOK /\ ref[c] \in Keys /\ wants[c] \in Names /\ wants[c][1] \in Peers
    BY <1>1, HeldFacts
  <2> QED
    BY <2>1, AgentAssumption DEF TableTypeOK
<1>3. id \in Keys /\ sid[id] = id
  BY <1>2, HeldId
<1>4. name[id][1] = wants[c][1]
  BY <1>1 DEF PeersInv, CallsAligned
<1>5. \A k \in Keys : name'[k][1] = name[k][1]
  <2> HIDE DEF id
  <2> QED
    BY <1>1, <1>2, <1>3, <1>4 DEF TableTypeOK
<1>6. Ids' /\ NamesAgree' /\ Live' = Live
  <2> HIDE DEF id
  <2>1. \E w \in Names :
          /\ id \in Live /\ w[1] = name[id][1] /\ w[1] # NoPeer
          /\ route' = [route EXCEPT ![id] = w[1]]
          /\ row' = [row EXCEPT ![id] = w]
    BY <1>1, <1>2, <1>4
  <2> QED
    BY <1>1, <1>3, <1>5, <2>1, MoveStep
<1>7. pc'[c] = "idle" /\ ref[c] \in 1..last
  BY <1>1, <1>2 DEF TypeOK, IInv, CallsHold
<1>8. \A d \in Conns \ {c} : /\ pc'[d] = pc[d] /\ result'[d] = result[d]
                             /\ ref'[d] = ref[d] /\ wants'[d] = wants[d]
  BY <1>1, <1>2 DEF TypeOK
<1>9. \A k \in Keys : sid[k] \in Keys
  BY <1>2 DEF TableTypeOK
<1>10. \A d \in Conns \ {c} :
         /\ result'[d] = "success" =>
              ref'[d] \in 1..last' /\ name'[sid'[ref'[d]]][1] = wants'[d][1]
         /\ pc'[d] # "idle" /\ sid'[ref'[d]] \in Live' => name'[sid'[ref'[d]]][1] = wants'[d][1]
  BY <1>1, <1>2, <1>5, <1>6, <1>8, <1>9, OthersUnmoved
<1>11. name'[id][1] = wants[c][1]
  BY <1>3, <1>4, <1>5
<1> QED
  BY <1>1, <1>6, <1>7, <1>10, <1>11 DEF PeersInv, CallsAligned

LEMMA AcceptKeepsPeers ==
  ASSUME IInv, PeersInv, NEW p \in Peers, Accept(p)
  PROVE  PeersInv'
<1>1. /\ last < MaxKeys /\ Put(last + 1, last + 1, <<p, "name">>, 3)
      /\ accepted' = accepted \cup {last + 1}
      /\ UNCHANGED <<route, row, owed, pc, wants, ref, result, crashes>>
  BY DEF Accept, calls
<1>2. last \in Nat /\ last + 1 \in Keys /\ <<p, "name">> \in Names
  <2>1. last \in 0..MaxKeys
    BY DEF IInv, TypeOK, TableTypeOK
  <2> QED
    BY <1>1, <2>1, TableAssumption, AgentAssumption DEF Keys, How
<1>3. /\ Ids' /\ NamesAgree'
      /\ \A k \in Keys : k <= last => sid'[k] = sid[k] /\ sid[k] \in Keys /\ name'[sid[k]] = name[sid[k]]
      /\ \A k \in Keys : k <= last => (k \in Live' => k \in Live)
  BY <1>1, <1>2, PutStep
<1>4. last' = last + 1
  BY <1>1 DEF Put
<1>5. CallsAligned'
  <2>1. last' \in Nat /\ last <= last'
    BY <1>2, <1>4
  <2>2. \A k \in Keys : k <= last =>
          sid'[k] = sid[k] /\ sid[k] \in Keys /\ name'[sid[k]][1] = name[sid[k]][1]
    BY <1>3
  <2> QED
    BY <1>1, <1>3, <2>1, <2>2, OthersStep DEF CallsAligned
<1> QED
  BY <1>3, <1>5 DEF PeersInv

LEMMA ResumeKeepsPeers ==
  ASSUME IInv, PeersInv, NEW id \in Keys, Resume(id)
  PROVE  PeersInv'
<1>1. /\ id \in owed /\ last < MaxKeys /\ Put(last + 1, id, row[id], 3)
      /\ route' = [route EXCEPT ![id] = row[id][1]]
      /\ UNCHANGED <<row, accepted, pc, wants, ref, result, crashes>>
  BY DEF Resume, calls
<1>2. TypeOK /\ last \in Nat /\ last + 1 \in Keys
  <2>1. TypeOK /\ last \in 0..MaxKeys
    BY DEF IInv, TypeOK, TableTypeOK
  <2> QED
    BY <1>1, <2>1, TableAssumption DEF Keys
<1>3. row[id] \in Names /\ row[id][1] # NoPeer /\ id # last + 1
  <2>1. row[id] # NoName
    BY <1>1, <1>2 DEF TypeOK
  <2>2. row[id] \in Names
    BY <1>2, <2>1 DEF TypeOK
  <2>3. id # last + 1
    BY <1>2, <2>1 DEF IInv, Fresh
  <2> QED
    BY <2>2, <2>3, AgentAssumption
<1>4. /\ Ids' /\ NamesAgree'
      /\ \A k \in Keys : k <= last => sid'[k] = sid[k] /\ sid[k] \in Keys /\ name'[sid[k]] = name[sid[k]]
      /\ \A k \in Keys : k <= last => (k \in Live' => k \in Live)
  <2>1. PICK n \in Names : n = row[id]
    BY <1>3
  <2>2. Put(last + 1, id, n, 3) /\ route' = [route EXCEPT ![id] = n[1]] /\ n[1] # NoPeer
    BY <1>1, <1>3, <2>1
  <2>3. id # last + 1 /\ row[id] = n /\ n[1] # NoPeer /\ route' = [route EXCEPT ![id] = n[1]]
    BY <1>3, <2>1, <2>2
  <2>4. last < MaxKeys /\ UNCHANGED row /\ accepted \subseteq accepted'
    BY <1>1
  <2> QED
    <3>1. /\ 3 \in {1, 3} /\ (3 = 1 => id = last + 1)
          /\ (id = last + 1 /\ 3 = 3 => last + 1 \in accepted')
      BY <2>3
    <3>2. \/ id = last + 1 /\ UNCHANGED route
          \/ id # last + 1 /\ row[id] = n /\ n[1] # NoPeer /\ route' = [route EXCEPT ![id] = n[1]]
      BY <2>3
    <3> QED
      BY <2>2, <2>4, <3>1, <3>2, PutStep, Zenon
<1>5. last' = last + 1
  BY <1>1 DEF Put
<1>6. CallsAligned'
  <2>1. last' \in Nat /\ last <= last'
    BY <1>2, <1>5
  <2>2. \A k \in Keys : k <= last =>
          sid'[k] = sid[k] /\ sid[k] \in Keys /\ name'[sid[k]][1] = name[sid[k]][1]
    BY <1>4
  <2> QED
    BY <1>1, <1>4, <2>1, <2>2, OthersStep DEF CallsAligned
<1> QED
  BY <1>4, <1>6 DEF PeersInv

LEMMA PeersInitially == Init => PeersInv
<1> SUFFICES ASSUME Init PROVE PeersInv
  OBVIOUS
<1>1. Ids
  BY TableAssumption DEF Init, TableInit, NoName, Ids, Keys
<1>2. NamesAgree /\ CallsAligned
  BY DEF Init, TableInit, NoCalls, NamesAgree, CallsAligned, Live
<1> QED
  BY <1>1, <1>2 DEF PeersInv

LEMMA PeersInvariance == IInv /\ IInv' /\ PeersInv /\ [Next]_vars => PeersInv'
<1> SUFFICES ASSUME IInv, IInv', PeersInv, [Next]_vars PROVE PeersInv'
  OBVIOUS
<1>1. ASSUME NEW c \in Conns, NEW p \in Peers, NEW how \in How, Begin(c, p, how) PROVE PeersInv'
  BY <1>1, BeginKeepsPeers
<1>2. ASSUME NEW c \in Conns, InitReply(c) \/ Complete(c) \/ Fail(c) PROVE PeersInv'
  BY <1>2, InitReplyKeepsPeers, CompleteKeepsPeers, FailKeepsPeers
<1>3. ASSUME NEW p \in Peers, Accept(p) PROVE PeersInv'
  BY <1>3, AcceptKeepsPeers
<1>4. ASSUME NEW id \in Keys, Resume(id) PROVE PeersInv'
  BY <1>4, ResumeKeepsPeers
<1>5. CASE StopStart
  BY <1>5 DEF StopStart, PeersInv, Ids, NamesAgree, CallsAligned, Live, table, calls
<1>6. CASE Restart
  <2>1. /\ state' = [k \in Keys |-> "absent"]
        /\ sid' = [k \in Keys |-> k]
        /\ route' = [k \in Keys |-> NoPeer]
        /\ pc' = [c \in Conns |-> "idle"]
        /\ result' = [c \in Conns |-> "none"]
        /\ UNCHANGED <<last, row>>
    BY <1>6 DEF Restart
  <2>2. Ids'
    <3>1. last \in 0..MaxKeys
      BY DEF IInv, TypeOK, TableTypeOK
    <3> QED
      BY <2>1, <3>1, TableAssumption DEF Ids, Keys
  <2>3. NamesAgree' /\ CallsAligned'
    BY <2>1 DEF NamesAgree, CallsAligned, Live
  <2> QED
    BY <2>2, <2>3 DEF PeersInv
<1>7. CASE UNCHANGED vars
  BY <1>7 DEF vars, table, calls, PeersInv, Ids, NamesAgree, CallsAligned, Live
<1> QED
  BY <1>1, <1>2, <1>3, <1>4, <1>5, <1>6, <1>7 DEF Next

LEMMA PeersAlways == Spec => []PeersInv
<1>1. Init => PeersInv
  BY PeersInitially
<1>2. IInv /\ IInv' /\ PeersInv /\ [Next]_vars => PeersInv'
  BY PeersInvariance
<1> QED
  BY <1>1, <1>2, Always, PTL DEF Spec

\* A connect call that returns success has a session with the agent it was asked
\* for (agent.ts connect), over any sharing of sessions between calls.
THEOREM Connects == Spec => []ConnectedToTarget
<1>1. PeersInv => ConnectedToTarget
  BY DEF PeersInv, CallsAligned, ConnectedToTarget
<1> QED
  BY <1>1, PeersAlways, PTL

\* Every ACTIVE session the agent asked for has a connection, to the agent it is
\* named after (agent.ts connect, resumeSession).
THEOREM OwnRouted == Spec => []OwnSessionsRouted
<1>1. PeersInv => OwnSessionsRouted
  BY DEF PeersInv, NamesAgree, OwnSessionsRouted
<1> QED
  BY <1>1, PeersAlways, PTL
-----------------------------------------------------------------------------
\* THE SESSION MANAGER BY ITSELF

IdsAreKeys == \A k \in Keys : sid[k] = k

ManagerInv ==
  /\ ManagerTypeOK
  /\ IdsAreKeys
  /\ SizeBounded
  /\ ActiveWasHandshaken

-----------------------------------------------------------------------------
LEMMA LiveIsFinite == IsFiniteSet(Live) /\ Cardinality(Live) \in Nat
<1>1. IsFiniteSet(Keys)
  BY TableAssumption, FS_Interval DEF Keys
<1>2. Live \subseteq Keys
  BY DEF Live
<1> QED
  BY <1>1, <1>2, FS_Subset, FS_CardinalityType

\* A map with no key that was not there is no larger.
LEMMA LiveShrinks ==
  ASSUME Live' \subseteq Live, SizeBounded
  PROVE  SizeBounded'
<1>1. IsFiniteSet(Live')
  BY LiveIsFinite, FS_Subset
<1>2. Cardinality(Live') <= Cardinality(Live) /\ Cardinality(Live') \in Nat
  BY <1>1, LiveIsFinite, FS_Subset, FS_CardinalityType
<1> QED
  BY <1>2, LiveIsFinite, TableAssumption DEF SizeBounded

\* Where an event leads: nowhere new, or along the table, in which only a
\* handshake and a resumption end in ACTIVE.
LEMMA AfterToActive ==
  ASSUME NEW st \in EntryStates, NEW e \in Events
  PROVE  /\ After(st, e) \in EntryStates
         /\ st = "absent" => After(st, e) = "absent"
         /\ After(st, e) \in {"ACTIVE", "SUSPENDED"} =>
              st \in {"ACTIVE", "SUSPENDED"} \/ (After(st, e) = "ACTIVE" /\ e = "HANDSHAKE_OK")
<1>1. \/ After(st, e) = st
      \/ After(st, e) \in States /\ <<st, e, After(st, e)>> \in Transitions
  <2>1. CASE Valid(st, e)
    <3>1. \E to \in States : <<st, e, to>> \in Transitions
      BY <2>1 DEF Valid
    <3>2. After(st, e) = CHOOSE to \in States : <<st, e, to>> \in Transitions
      BY <2>1 DEF After
    <3> QED
      BY <3>1, <3>2
  <2>2. CASE ~Valid(st, e)
    BY <2>2 DEF After
  <2> QED
    BY <2>1, <2>2
<1>2. CASE After(st, e) = st
  BY <1>2
<1>3. CASE After(st, e) \in States /\ <<st, e, After(st, e)>> \in Transitions
  BY <1>3 DEF Transitions, EntryStates
<1> QED
  BY <1>1, <1>2, <1>3

\* What create does to the map: one entry is new, one may be evicted, which then
\* was CLOSED or in ERROR, or nothing was.
LEMMA CreateFacts ==
  ASSUME ManagerInv, NEW n \in Names, Create(n)
  PROVE  /\ ManagerTypeOK' /\ IdsAreKeys' /\ SizeBounded'
         /\ UNCHANGED handshaken
         /\ \A k \in Keys : state'[k] \in {state[k], "absent", "IDLE"}
         /\ \A k \in Live : state'[k] = "absent" => state[k] \in {"CLOSED", "ERROR"} \/ Dead = {}
<1> DEFINE k == last + 1
<1>1. /\ k \in Keys /\ last' = k /\ UNCHANGED handshaken
      /\ sid' = [sid EXCEPT ![k] = k] /\ name' = [name EXCEPT ![k] = n]
  BY TableAssumption DEF Create, Put, ManagerInv, ManagerTypeOK, TableTypeOK, Keys
<1>2. PICK gone \in SUBSET Keys :
        LET kept   == Live \ gone
            before == [j \in Keys |-> IF j = k THEN "IDLE" ELSE IF j \in kept THEN state[j] ELSE "absent"]
            moved  == Advanced(before[k], 0)
        IN  /\ Evicted(gone)
            /\ state' = [before EXCEPT ![k] = moved]
            /\ older' = LET o == Touched(older, kept \cup {k}, k)
                        IN  IF moved = before[k] THEN o ELSE Touched(o, kept \cup {k}, k)
  BY DEF Create, Put
<1> DEFINE kept   == Live \ gone
           before == [j \in Keys |-> IF j = k THEN "IDLE" ELSE IF j \in kept THEN state[j] ELSE "absent"]
<1>3. Advanced(before[k], 0) = "IDLE" /\ before[k] = "IDLE"
  BY <1>1 DEF Advanced
<1>4. Evicted(gone) /\ state' = before /\ older' = Touched(older, kept \cup {k}, k)
  BY <1>2, <1>3
<1>5. /\ kept \cup {k} \in SUBSET Keys
      /\ \A j \in Keys : j # k /\ j \in Live /\ j \notin gone => state'[j] = state[j]
      /\ state'[k] = "IDLE"
      /\ \A j \in Keys : state'[j] \in {state[j], "absent", "IDLE"}
      /\ Live' \subseteq kept \cup {k}
  BY <1>1, <1>4 DEF Live
<1>6. ManagerTypeOK' /\ IdsAreKeys'
  <2>1. older' \in SUBSET (Keys \X Keys)
    BY <1>1, <1>4, <1>5, TouchedType DEF ManagerInv, ManagerTypeOK, TableTypeOK
  <2>2. state' \in [Keys -> States \cup {"absent"}]
    BY <1>4 DEF ManagerInv, ManagerTypeOK, TableTypeOK, States
  <2>3. last' \in 0..MaxKeys
    BY <1>1, TableAssumption DEF Keys
  <2> QED
    BY <1>1, <2>1, <2>2, <2>3 DEF ManagerInv, ManagerTypeOK, TableTypeOK, IdsAreKeys
<1> HIDE DEF kept, before, k
<1>7. ASSUME Cardinality(Live) >= MaxSessions
      PROVE  \E v \in Live : gone = {v} /\ (v \in Dead \/ Dead = {})
  <2>1. PICK v \in Keys : Evictable(v) /\ gone = {sid[v]}
    BY <1>4, <1>7 DEF Evicted
  <2>2. v \in Live /\ (v \in Dead \/ Dead = {})
    BY <2>1 DEF Evictable, Dead, Live
  <2> QED
    BY <2>1, <2>2 DEF ManagerInv, IdsAreKeys
<1>8. ASSUME Cardinality(Live) < MaxSessions
      PROVE  gone = {}
  BY <1>4, <1>8, LiveIsFinite, TableAssumption DEF Evicted
<1>9. SizeBounded'
  <2>1. IsFiniteSet(kept) /\ Cardinality(kept) \in Nat /\ Cardinality(kept) < MaxSessions
    <3>1. CASE Cardinality(Live) >= MaxSessions
      <4>1. PICK v \in Live : kept = Live \ {v}
        BY <1>7, <3>1 DEF kept
      <4>2. IsFiniteSet(kept) /\ Cardinality(kept) = Cardinality(Live) - 1
        BY <4>1, LiveIsFinite, FS_RemoveElement
      <4> QED
        BY <4>2, LiveIsFinite, FS_CardinalityType, TableAssumption DEF ManagerInv, SizeBounded
    <3>2. CASE Cardinality(Live) < MaxSessions
      <4>1. kept = Live
        BY <1>8, <3>2 DEF kept
      <4> QED
        BY <4>1, <3>2, LiveIsFinite
    <3> QED
      BY <3>1, <3>2, LiveIsFinite, TableAssumption
  <2>2. IsFiniteSet(kept \cup {k}) /\ Cardinality(kept \cup {k}) <= Cardinality(kept) + 1
    <3>1. IsFiniteSet(kept)
      BY <2>1
    <3>2. /\ IsFiniteSet(kept \cup {k})
          /\ Cardinality(kept \cup {k}) = IF k \in kept THEN Cardinality(kept) ELSE Cardinality(kept) + 1
      BY <3>1, FS_AddElement, Zenon
    <3> QED
      BY <2>1, <3>2
  <2>3. Cardinality(Live') <= Cardinality(kept \cup {k})
        /\ Cardinality(kept \cup {k}) \in Nat /\ Cardinality(Live') \in Nat
    BY <1>5, <2>2, FS_Subset, FS_CardinalityType
  <2> QED
    BY <2>1, <2>2, <2>3, TableAssumption DEF SizeBounded
<1>10. \A j \in Live : state'[j] = "absent" => state[j] \in {"CLOSED", "ERROR"} \/ Dead = {}
  <2> SUFFICES ASSUME NEW j \in Live, state'[j] = "absent"
               PROVE  state[j] \in {"CLOSED", "ERROR"} \/ Dead = {}
    OBVIOUS
  <2>1. j \in gone
    BY <1>5 DEF Live
  <2>2. Cardinality(Live) >= MaxSessions
    BY <2>1, <1>8, LiveIsFinite, TableAssumption
  <2> QED
    BY <2>1, <2>2, <1>7 DEF Dead
<1> QED
  BY <1>1, <1>5, <1>6, <1>9, <1>10 DEF k

LEMMA SignalStep ==
  ASSUME ManagerInv, NEW k \in Keys, NEW e \in Events, Signal(k, e)
  PROVE  ManagerInv' /\ last' = last
<1>1. /\ state' = [state EXCEPT ![k] = After(state[k], e)]
      /\ older' = IF Valid(state[k], e) THEN Touched(older, Live, k) ELSE older
      /\ UNCHANGED <<sid, name, last>>
      /\ handshaken' = IF state'[k] = "ACTIVE" /\ e = "HANDSHAKE_OK"
                       THEN handshaken \cup {k} ELSE handshaken
  BY DEF Signal, Transition
<1>2. /\ state[k] \in EntryStates /\ older \in SUBSET (Keys \X Keys) /\ Live \in SUBSET Keys
      /\ After(state[k], e) \in EntryStates
  BY AfterToActive DEF ManagerInv, ManagerTypeOK, TableTypeOK, EntryStates, Live
<1>3. Touched(older, Live, k) \in SUBSET (Keys \X Keys)
  BY <1>2, TouchedType
<1>4. ManagerTypeOK'
  BY <1>1, <1>2, <1>3 DEF ManagerInv, ManagerTypeOK, TableTypeOK, EntryStates
<1>5. Live' \subseteq Live
  BY <1>1, <1>2, AfterToActive DEF Live, ManagerInv, ManagerTypeOK, TableTypeOK
<1>6. SizeBounded' /\ IdsAreKeys'
  BY <1>1, <1>5, LiveShrinks DEF ManagerInv, IdsAreKeys
<1>7. ActiveWasHandshaken'
  <2> SUFFICES ASSUME NEW j \in Keys, state'[j] \in {"ACTIVE", "SUSPENDED"}
               PROVE  j \in handshaken'
    BY DEF ActiveWasHandshaken
  <2>1. CASE j = k
    BY <1>1, <1>2, <2>1, AfterToActive DEF ManagerInv, ManagerTypeOK, TableTypeOK, ActiveWasHandshaken
  <2>2. CASE j # k
    BY <1>1, <2>2 DEF ManagerInv, ManagerTypeOK, TableTypeOK, ActiveWasHandshaken
  <2> QED
    BY <2>1, <2>2
<1> QED
  BY <1>1, <1>4, <1>6, <1>7 DEF ManagerInv

LEMMA RemoveStep ==
  ASSUME ManagerInv, NEW K \in SUBSET Keys, Remove(K)
  PROVE  ManagerInv' /\ last' = last
<1>1. /\ state' = [k \in Keys |-> IF k \in K THEN "absent" ELSE state[k]]
      /\ older' \subseteq older /\ UNCHANGED <<sid, name, last, handshaken>>
  BY DEF Remove
<1>2. Live' \subseteq Live
  BY <1>1 DEF Live
<1>3. SizeBounded'
  BY <1>2, LiveShrinks DEF ManagerInv
<1> QED
  BY <1>1, <1>3 DEF ManagerInv, ManagerTypeOK, TableTypeOK, IdsAreKeys, ActiveWasHandshaken

LEMMA CheckTimeoutsStep ==
  ASSUME ManagerInv, CheckTimeouts
  PROVE  ManagerInv' /\ last' = last
<1>1. PICK hit \in SUBSET Keys :
        state' = [k \in Keys |-> IF k \in hit THEN After(state[k], "TIMEOUT") ELSE state[k]]
  BY DEF CheckTimeouts, Live
<1>2. older' \in SUBSET (Live \X Live) /\ UNCHANGED <<sid, name, last, handshaken>>
  BY DEF CheckTimeouts
<1>3. \A k \in Keys :
        /\ state[k] \in EntryStates /\ "TIMEOUT" \in Events
        /\ state'[k] \in EntryStates
        /\ state[k] = "absent" => state'[k] = "absent"
        /\ state'[k] \in {"ACTIVE", "SUSPENDED"} => state[k] \in {"ACTIVE", "SUSPENDED"}
  <2> TAKE k \in Keys
  <2>1. state[k] \in EntryStates /\ "TIMEOUT" \in Events
    BY DEF ManagerInv, ManagerTypeOK, TableTypeOK, EntryStates, Events
  <2>2. state'[k] \in {state[k], After(state[k], "TIMEOUT")}
    BY <1>1
  <2> QED
    BY <2>1, <2>2, AfterToActive
<1>4. ManagerTypeOK'
  BY <1>1, <1>2, <1>3 DEF ManagerInv, ManagerTypeOK, TableTypeOK, EntryStates, Live
<1>5. Live' \subseteq Live
  BY <1>3 DEF Live
<1>6. SizeBounded'
  BY <1>5, LiveShrinks DEF ManagerInv
<1> QED
  BY <1>2, <1>3, <1>4, <1>6 DEF ManagerInv, IdsAreKeys, ActiveWasHandshaken

LEMMA TouchStep ==
  ASSUME ManagerInv, NEW k \in Keys, Touch(k)
  PROVE  ManagerInv' /\ last' = last
<1>1. UNCHANGED <<state, sid, name, last, handshaken>> /\ older' = Touched(older, Live, k)
  BY DEF Touch
<1>2. older' \in SUBSET (Keys \X Keys)
  <2>1. older \in SUBSET (Keys \X Keys) /\ Live \in SUBSET Keys
    BY DEF ManagerInv, ManagerTypeOK, TableTypeOK, Live
  <2> QED
    BY <1>1, <2>1, TouchedType
<1> QED
  BY <1>1, <1>2 DEF ManagerInv, ManagerTypeOK, TableTypeOK, IdsAreKeys, SizeBounded, Live, ActiveWasHandshaken

\* Only create generates a key.
LEMMA ManagerSteps ==
  ASSUME ManagerInv, [ManagerNext]_managerVars
  PROVE  ManagerInv' /\ (last' = last \/ \E n \in Names : Create(n))
<1>1. ASSUME NEW n \in Names, Create(n) PROVE ManagerInv'
  <2>1. /\ ManagerTypeOK' /\ IdsAreKeys' /\ SizeBounded' /\ UNCHANGED handshaken
        /\ \A k \in Keys : state'[k] \in {state[k], "absent", "IDLE"}
    BY <1>1, CreateFacts
  <2> QED
    BY <2>1 DEF ManagerInv, ActiveWasHandshaken
<1>2. ASSUME NEW k \in Keys, NEW e \in Events, Signal(k, e) PROVE ManagerInv' /\ last' = last
  BY <1>2, SignalStep
<1>3. ASSUME NEW k \in Keys, Touch(k) \/ Delete(k) PROVE ManagerInv' /\ last' = last
  BY <1>3, TouchStep, RemoveStep DEF Delete
<1>4. CASE Cleanup
  BY <1>4, RemoveStep DEF Cleanup
<1>5. CASE CheckTimeouts
  BY <1>5, CheckTimeoutsStep
<1>6. CASE UNCHANGED managerVars
  BY <1>6 DEF managerVars, table, ManagerInv, ManagerTypeOK, TableTypeOK, IdsAreKeys, SizeBounded, Live, ActiveWasHandshaken
<1> QED
  BY <1>1, <1>2, <1>3, <1>4, <1>5, <1>6 DEF ManagerNext

LEMMA ManagerStarts == ManagerInit => ManagerInv
<1> SUFFICES ASSUME ManagerInit PROVE ManagerInv
  OBVIOUS
<1>1. (CHOOSE n \in Names : TRUE) \in Names
  BY TableAssumption
<1>2. ManagerTypeOK /\ IdsAreKeys /\ ActiveWasHandshaken
  BY <1>1, TableAssumption
  DEF ManagerInit, TableInit, ManagerTypeOK, TableTypeOK, IdsAreKeys, ActiveWasHandshaken, Keys
<1>3. Live = {}
  BY DEF ManagerInit, TableInit, Live
<1>4. SizeBounded
  BY <1>3, FS_EmptySet, TableAssumption DEF SizeBounded
<1> QED
  BY <1>2, <1>4 DEF ManagerInv

LEMMA ManagerAlways == ManagerSpec => []ManagerInv
<1>1. ManagerInv /\ [ManagerNext]_managerVars => ManagerInv'
  BY ManagerSteps
<1> QED
  BY <1>1, ManagerStarts, PTL DEF ManagerSpec
-----------------------------------------------------------------------------
\* Entries of the map always have their types.
THEOREM ManagerTypeCorrect == ManagerSpec => []ManagerTypeOK
<1>1. ManagerInv => ManagerTypeOK
  BY DEF ManagerInv
<1> QED
  BY <1>1, ManagerAlways, PTL

\* The map stays within maxSessions.
THEOREM SizeKept == ManagerSpec => []SizeBounded
<1>1. ManagerInv => SizeBounded
  BY DEF ManagerInv
<1> QED
  BY <1>1, ManagerAlways, PTL

\* No sequence of events leads to ACTIVE or SUSPENDED without a handshake.
THEOREM ActiveByHandshake == ManagerSpec => []ActiveWasHandshaken
<1>1. ManagerInv => ActiveWasHandshaken
  BY DEF ManagerInv
<1> QED
  BY <1>1, ManagerAlways, PTL

\* A create costs a useful session its place only if none is CLOSED or in ERROR.
THEOREM UsefulSpared == ManagerSpec => EvictionSparesUseful
<1>1. ASSUME ManagerInv, [ManagerNext]_managerVars
      PROVE  [\A k \in Live : last' # last /\ state'[k] = "absent" =>
                state[k] \in {"CLOSED", "ERROR"} \/ Dead = {}]_managerVars
  BY <1>1, ManagerSteps, CreateFacts
<1> QED
  BY <1>1, ManagerAlways, PTL DEF ManagerSpec, EvictionSparesUseful
=============================================================================
