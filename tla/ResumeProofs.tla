---------------------------- MODULE ResumeProofs ----------------------------
(***************************************************************************)
(* Proofs about Resume, for every set of sessions and every configuration:  *)
(* types, ActiveRowsHaveRoute and NoSessionForgotten.  The strengthening is *)
(* that an attempt on the entry in the map implies the entry and its row.   *)
(***************************************************************************)
EXTENDS Resume, TLAPS

\* An attempt counted as being on the entry in the map has that entry, and a row.
FlightsHaveEntry ==
  \A s \in Sessions : flights[s] > 0 => s \in queued /\ row[s] # "none"

IInv ==
  /\ TypeOK
  /\ ActiveRowsHaveRoute
  /\ NoSessionForgotten
  /\ FlightsHaveEntry

\* What processRetries does to the entries: only entries without a row go, and
\* attempts are counted on entries that stay.
LEMMA ProcessFacts ==
  ASSUME TypeOK,
         NEW q \in SUBSET Sessions, NEW a \in SUBSET (Sessions \X Sessions),
         NEW w, NEW fl \in [Sessions -> Nat],
         stale' \in [Sessions -> Nat],
         \A s \in Sessions : fl[s] > 0 => s \in q /\ row[s] # "none",
         Process(q, a, w, fl)
  PROVE  /\ queued' \in SUBSET Sessions
         /\ ahead' \in SUBSET (Sessions \X Sessions)
         /\ flights' \in [Sessions -> Nat]
         /\ \A s \in q : row[s] # "none" => s \in queued'
         /\ \A s \in Sessions : flights'[s] > 0 => s \in queued' /\ row[s] # "none"
<1> DEFINE ready   == {s \in q : w[s] = 0}
           batch   == {s \in ready : Cardinality({t \in ready : <<t, s>> \in a}) < MaxConcurrent}
           started == {s \in batch : row[s] # "none"}
           kept    == q \ (batch \ started)
<1>1. /\ queued' = kept
      /\ ahead' = Among(a, kept)
      /\ flights' = [s \in Sessions |-> IF s \in started THEN fl[s] + 1 ELSE fl[s]]
  BY DEF Process
<1>2. batch \subseteq q /\ started \subseteq batch
  OBVIOUS
<1>3. \A s \in batch : row[s] # "none" => s \in started
  OBVIOUS
<1>4. \A s \in started : row[s] # "none"
  OBVIOUS
<1> HIDE DEF ready, batch, started
<1>5. queued' \in SUBSET Sessions /\ ahead' \in SUBSET (Sessions \X Sessions)
  BY <1>1 DEF Among
<1>6. flights' \in [Sessions -> Nat]
  BY <1>1
<1>7. \A s \in q : row[s] # "none" => s \in queued'
  BY <1>1, <1>3
<1>8. \A s \in Sessions : flights'[s] > 0 => s \in queued' /\ row[s] # "none"
  <2> TAKE s \in Sessions
  <2> HAVE flights'[s] > 0
  <2>1. CASE s \in started
    BY <2>1, <1>1, <1>2, <1>4
  <2>2. CASE s \notin started
    <3>1. fl[s] > 0
      BY <2>2, <1>1
    <3> QED
      BY <3>1, <1>7
  <2> QED
    BY <2>1, <2>2
<1> QED
  BY <1>5, <1>6, <1>7, <1>8

LEMMA InitHolds == Init => IInv
BY ResumeAssumption
DEF Init, IInv, TypeOK, ActiveRowsHaveRoute, NoSessionForgotten, FlightsHaveEntry, NoneOf

LEMMA Invariance == IInv /\ [Next]_vars => IInv'
<1> SUFFICES ASSUME IInv, [Next]_vars PROVE IInv'
  OBVIOUS
<1> USE DEF IInv, TypeOK, ActiveRowsHaveRoute, NoSessionForgotten, FlightsHaveEntry
<1>1. CASE Start
  <2> DEFINE found == {s \in Sessions : row[s] # "none"}
             zero == [s \in Sessions |-> IF s \in found THEN 0 ELSE flights[s]]
  <2>1. /\ mode' = "running" /\ UNCHANGED <<route, outages>>
        /\ row' = [s \in Sessions |-> IF s \in found THEN "SUSPENDED" ELSE "none"]
        /\ cancelled' = cancelled \ found
        /\ fails' = [s \in Sessions |-> IF s \in found THEN 0 ELSE fails[s]]
        /\ wait' = [s \in Sessions |-> IF s \in found THEN 0 ELSE wait[s]]
        /\ stale' = [s \in Sessions |-> IF s \in found THEN stale[s] + flights[s] ELSE stale[s]]
    BY <1>1 DEF Start
  <2>2. /\ stale' \in [Sessions -> Nat] /\ fails' \in [Sessions -> 0..MaxFails]
        /\ wait' \in [Sessions -> Nat] /\ zero \in [Sessions -> Nat]
        /\ row' \in [Sessions -> {"none", "ACTIVE", "SUSPENDED"}]
    BY <2>1, ResumeAssumption
  <2>3. \A s \in Sessions : row'[s] # "ACTIVE" /\ (row'[s] # "none" <=> s \in found)
    BY <2>1
  <2>4. CASE found = {}
    <3>1. UNCHANGED <<queued, ahead, flights>>
      BY <2>4, <1>1 DEF Start
    <3>2. \A s \in Sessions : flights[s] = 0
      BY <2>4
    <3> QED
      BY <3>1, <3>2, <2>1, <2>2, <2>3, <2>4
  <2>5. CASE found # {}
    <3>1. PICK order \in Orders(found \ queued) :
            Process(queued \cup found, ahead \cup order \cup (queued \X (found \ queued)),
                    wait', zero)
      BY <2>5, <1>1 DEF Start
    <3> DEFINE a == ahead \cup order \cup (queued \X (found \ queued))
    <3>2. a \in SUBSET (Sessions \X Sessions) /\ queued \cup found \in SUBSET Sessions
      BY DEF Orders
    <3>3. \A s \in Sessions : zero[s] > 0 => s \in queued \cup found /\ row[s] # "none"
      OBVIOUS
    <3> HIDE DEF zero, a
    <3>4. Process(queued \cup found, a, wait', zero)
      BY <3>1 DEF a
    <3>5. /\ queued' \in SUBSET Sessions
          /\ ahead' \in SUBSET (Sessions \X Sessions)
          /\ flights' \in [Sessions -> Nat]
          /\ \A s \in queued \cup found : row[s] # "none" => s \in queued'
          /\ \A s \in Sessions : flights'[s] > 0 => s \in queued' /\ row[s] # "none"
      BY <3>2, <3>3, <3>4, <2>2, ProcessFacts
    <3> QED
      BY <3>5, <2>1, <2>2, <2>3
  <2> QED
    BY <2>4, <2>5
<1>2. CASE Tick
  <2>1. /\ Process(queued, ahead, wait, flights)
        /\ wait' = [s \in Sessions |-> IF wait[s] = 0 THEN 0 ELSE wait[s] - 1]
        /\ stale' = stale /\ UNCHANGED <<mode, row, route, fails, cancelled, outages>>
    BY <1>2 DEF Tick
  <2>2. wait' \in [Sessions -> Nat] /\ stale' \in [Sessions -> Nat]
    BY <2>1
  <2>3. /\ queued' \in SUBSET Sessions
        /\ ahead' \in SUBSET (Sessions \X Sessions)
        /\ flights' \in [Sessions -> Nat]
        /\ \A s \in queued : row[s] # "none" => s \in queued'
        /\ \A s \in Sessions : flights'[s] > 0 => s \in queued' /\ row[s] # "none"
    BY <2>1, <2>2, ProcessFacts
  <2> QED
    BY <2>1, <2>2, <2>3
<1>3. ASSUME NEW s \in Sessions, NEW old \in BOOLEAN, Succeed(s, old) PROVE IInv'
  <2>1. stale[s] + flights[s] - 1 \in Nat
    BY <1>3 DEF Succeed
  <2>2. TypeOK'
    BY <1>3, <2>1, ResumeAssumption DEF Succeed, Drop, SetRow, Among
  <2>3. /\ \A t \in Sessions : row'[t] = "none" <=> row[t] = "none"
        /\ \A t \in Sessions \ {s} : row'[t] = row[t] /\ flights'[t] = flights[t]
        /\ flights'[s] = 0
        /\ route' = route \cup {s} /\ queued' = queued \ {s}
        /\ mode' = mode /\ cancelled' = cancelled
    BY <1>3 DEF Succeed, Drop, SetRow
  <2>4. ActiveRowsHaveRoute'
    BY <2>3
  <2>5. NoSessionForgotten'
    BY <2>3
  <2>6. FlightsHaveEntry'
    BY <2>3
  <2> QED
    BY <2>2, <2>4, <2>5, <2>6
<1>4. ASSUME NEW s \in Sessions, NEW old \in BOOLEAN, Fail(s, old) PROVE IInv'
  <2>1. CASE old
    BY <1>4, <2>1 DEF Fail, SetRow
  <2>2. CASE ~old
    <3>1. /\ flights[s] > 0
          /\ flights' = [flights EXCEPT ![s] = @ - 1]
          /\ fails' = [fails EXCEPT ![s] = IF @ < MaxFails THEN @ + 1 ELSE @]
          /\ \E w \in Waits[fails'[s]] : wait' = [wait EXCEPT ![s] = w]
          /\ row' = [row EXCEPT ![s] = IF @ = "none" THEN @ ELSE "SUSPENDED"]
          /\ UNCHANGED <<stale, mode, route, queued, ahead, cancelled, outages>>
      BY <1>4, <2>2 DEF Fail, SetRow
    <3>2. fails'[s] \in 1..MaxFails /\ fails' \in [Sessions -> 0..MaxFails]
      BY <3>1, ResumeAssumption
    <3>3. wait' \in [Sessions -> Nat]
      BY <3>1, <3>2, ResumeAssumption
    <3> QED
      BY <3>1, <3>2, <3>3
  <2> QED
    BY <2>1, <2>2
<1>5. ASSUME NEW s \in Sessions, QueueResume(s) PROVE IInv'
  BY <1>5 DEF QueueResume
<1>6. ASSUME NEW s \in Sessions, CancelResume(s) PROVE IInv'
  BY <1>6, ResumeAssumption DEF CancelResume, Drop, Among
<1>7. ASSUME NEW s \in Sessions, Connect(s) PROVE IInv'
  BY <1>7 DEF Connect, SaveSession, entryVars
<1>8. CASE Stop
  BY <1>8 DEF Stop, entryVars
<1>9. CASE Crash
  BY <1>9, ResumeAssumption DEF Crash, NoneOf
<1>10. CASE Boot
  BY <1>10 DEF Boot, entryVars
<1>11. CASE UNCHANGED vars
  BY <1>11 DEF vars, entryVars
<1> QED
  BY <1>1, <1>2, <1>3, <1>4, <1>5, <1>6, <1>7, <1>8, <1>9, <1>10, <1>11 DEF Next

LEMMA Always == Spec => []IInv
BY InitHolds, Invariance, PTL DEF Spec

\* Every reachable state is well typed.
THEOREM TypeCorrect == Spec => []TypeOK
<1>1. IInv => TypeOK
  BY DEF IInv
<1> QED
  BY Always, <1>1, PTL

\* A running manager's ACTIVE rows have a route (resume.ts, loadAndQueueSessions
\* and attemptResume).
THEOREM ActiveRows == Spec => []ActiveRowsHaveRoute
<1>1. IInv => ActiveRowsHaveRoute
  BY DEF IInv
<1> QED
  BY Always, <1>1, PTL

\* No suspended session is forgotten by a running manager.
THEOREM NobodyForgotten == Spec => []NoSessionForgotten
<1>1. IInv => NoSessionForgotten
  BY DEF IInv
<1> QED
  BY Always, <1>1, PTL
=============================================================================
