---------------------------- MODULE OutboxProofs ----------------------------
(***************************************************************************)
(* Safety of Outbox for every set of messages and of overlapping            *)
(* invocations: type correctness, exclusive claims, SENT only after         *)
(* delivery, and giving up only for cause.                                  *)
(***************************************************************************)
EXTENDS Outbox, TLAPS

\* A loop works on a message exactly when it is not idle, and the processing set
\* is what the live loops work on.
Claims ==
  /\ \A l \in Loops : phase[l] = "idle" <=> cur[l] = None
  /\ ClaimsAreExclusive

\* What is known of the peer: a send that reached it, an ACK it sent.
Delivery ==
  /\ \A l \in Loops : phase[l] = "reached" => cur[l] \in arrived
  /\ acks \subseteq arrived
  /\ SentWasDelivered

\* A snapshot never shows more attempts than the row has: the update that gives
\* up counts at least as many attempts as the decision assumed.
Counting ==
  /\ \A l \in Loops, m \in Msgs : seen[l][m] <= attempts[m]
  /\ GivenUpForCause

IInv == TypeOK /\ Claims /\ Delivery /\ Counting

USE DEF Kinds, Statuses, NonRetryable, RetryableMarks
-----------------------------------------------------------------------------
\* One visit of the for loop keeps the loop variables typed, provided the
\* snapshot is.
LEMMA ContinueType ==
  ASSUME TypeOK, NEW l \in Loops, NEW rest \in SUBSET Msgs,
         NEW busy \in SUBSET Msgs, NEW view \in [Msgs -> Nat],
         Continue(l, rest, busy, view)
  PROVE  /\ phase' \in [Loops -> {"idle", "sending", "reached"}]
         /\ cur' \in [Loops -> Msgs \cup {None}]
         /\ todo' \in [Loops -> SUBSET Msgs]
         /\ seen' \in [Loops -> [Msgs -> Nat]]
         /\ processing' \in SUBSET Msgs
<1>1. NoAttempts \in [Msgs -> Nat]
  BY DEF NoAttempts
<1>2. CASE /\ phase' = [phase EXCEPT ![l] = "idle"]
           /\ cur' = [cur EXCEPT ![l] = None]
           /\ todo' = [todo EXCEPT ![l] = {}]
           /\ seen' = [seen EXCEPT ![l] = NoAttempts]
           /\ processing' = busy
  BY <1>1, <1>2 DEF TypeOK
<1>3. ASSUME NEW m \in rest \ busy,
             phase' = [phase EXCEPT ![l] = "sending"],
             cur' = [cur EXCEPT ![l] = m],
             todo' = [todo EXCEPT ![l] = {k \in rest \ {m} : ~Before(k, m)}],
             seen' = [seen EXCEPT ![l] = view],
             processing' = busy \cup {m}
      PROVE  /\ phase' \in [Loops -> {"idle", "sending", "reached"}]
             /\ cur' \in [Loops -> Msgs \cup {None}]
             /\ todo' \in [Loops -> SUBSET Msgs]
             /\ seen' \in [Loops -> [Msgs -> Nat]]
             /\ processing' \in SUBSET Msgs
  <2>1. {k \in rest \ {m} : ~Before(k, m)} \in SUBSET Msgs
    OBVIOUS
  <2> QED BY <1>3, <2>1 DEF TypeOK
<1> QED BY <1>2, <1>3 DEF Continue

\* One visit of the for loop claims only what no other loop has claimed.
LEMMA ContinueClaims ==
  ASSUME TypeOK, Claims, NEW l \in Loops, NEW rest \in SUBSET Msgs,
         NEW busy \in SUBSET Msgs, NEW view \in [Msgs -> Nat],
         busy = {cur[k] : k \in {j \in Loops \ {l} : phase[j] # "idle"}},
         Continue(l, rest, busy, view)
  PROVE  Claims'
<1> USE OutboxAssumption DEF TypeOK, Claims, ClaimsAreExclusive
<1>1. CASE /\ rest \subseteq busy
           /\ phase' = [phase EXCEPT ![l] = "idle"]
           /\ cur' = [cur EXCEPT ![l] = None]
           /\ processing' = busy
  BY <1>1
<1>2. ASSUME NEW m \in rest \ busy,
             phase' = [phase EXCEPT ![l] = "sending"],
             cur' = [cur EXCEPT ![l] = m],
             processing' = busy \cup {m}
      PROVE  Claims'
  <2>1. \A k \in Loops : phase'[k] = "idle" <=> cur'[k] = None
    BY <1>2
  <2>2. \A k \in Loops : k # l => cur[k] # m
    BY <1>2
  <2>3. \A l1, l2 \in Loops : l1 # l2 /\ cur'[l1] # None => cur'[l1] # cur'[l2]
    BY <1>2, <2>2
  <2>4. processing' = {cur'[k] : k \in {j \in Loops : phase'[j] # "idle"}}
    BY <1>2
  <2> QED BY <2>1, <2>3, <2>4
<1> QED BY <1>1, <1>2 DEF Continue

\* What the other loops hold once a loop has released its message.
LEMMA Released ==
  ASSUME TypeOK, Claims, NEW l \in Loops
  PROVE  /\ phase[l] # "idle" =>
              processing \ {cur[l]} = {cur[k] : k \in {j \in Loops \ {l} : phase[j] # "idle"}}
         /\ phase[l] = "idle" =>
              processing = {cur[k] : k \in {j \in Loops \ {l} : phase[j] # "idle"}}
BY OutboxAssumption DEF TypeOK, Claims, ClaimsAreExclusive

\* One visit of the for loop adds no "reached" loop, and changes no snapshot but
\* its own.
LEMMA ContinueFrame ==
  ASSUME TypeOK, NEW l \in Loops, NEW rest \in SUBSET Msgs,
         NEW busy \in SUBSET Msgs, NEW view \in [Msgs -> Nat],
         Continue(l, rest, busy, view)
  PROVE  /\ \A k \in Loops : phase'[k] = "reached" => phase[k] = "reached" /\ cur'[k] = cur[k]
         /\ \A k \in Loops \ {l} : seen'[k] = seen[k]
         /\ seen'[l] \in {view, NoAttempts}
BY DEF Continue, TypeOK

\* One update of a row: the other rows are untouched, a row that exists gets the
\* new status and one more attempt, a row that does not stays as it is.
RowEffect(m, st, err) ==
  \A k \in Msgs :
    \/ /\ status'[k] = status[k]
       /\ lastError'[k] = lastError[k]
       /\ attempts'[k] = attempts[k]
    \/ /\ k = m
       /\ status'[k] = st
       /\ lastError'[k] = err
       /\ attempts'[k] = attempts[k] + 1

RowTypes ==
  /\ status \in [Msgs -> Statuses]
  /\ attempts \in [Msgs -> Nat]
  /\ due \in [Msgs -> BOOLEAN]
  /\ lastError \in [Msgs -> SUBSET (NonRetryable \cup RetryableMarks)]
  /\ createdAt \in [Msgs -> Nat]
  /\ clock \in Nat

LEMMA UpdateRowEffect ==
  ASSUME TypeOK, NEW m \in Msgs, NEW st \in Statuses,
         NEW err \in SUBSET (NonRetryable \cup RetryableMarks),
         UpdateRow(m, st, err)
  PROVE  RowTypes' /\ RowEffect(m, st, err)
<1>1. CASE Stored(m)
  <2>1. /\ status' = [status EXCEPT ![m] = st]
        /\ attempts' = [attempts EXCEPT ![m] = @ + 1]
        /\ due' = [due EXCEPT ![m] = (st # "PENDING")]
        /\ lastError' = [lastError EXCEPT ![m] = err]
        /\ UNCHANGED <<createdAt, clock>>
    BY <1>1 DEF UpdateRow
  <2>2. RowTypes'
    BY <2>1 DEF TypeOK, RowTypes
  <2>3. RowEffect(m, st, err)
    BY <2>1 DEF TypeOK, RowEffect
  <2> QED BY <2>2, <2>3
<1>2. CASE ~Stored(m)
  BY <1>2 DEF UpdateRow, dbVars, TypeOK, RowTypes, RowEffect
<1> QED BY <1>1, <1>2

-----------------------------------------------------------------------------
\* A step that leaves the loops alone preserves Claims.
LEMMA ClaimsStable ==
  ASSUME Claims, UNCHANGED loopVars
  PROVE  Claims'
BY DEF Claims, ClaimsAreExclusive, loopVars

\* A new outbox owns nothing and has sent nothing.
LEMMA InitIInv == Init => IInv
<1> SUFFICES ASSUME Init PROVE IInv
  OBVIOUS
<1>1. TypeOK
  BY OutboxAssumption DEF Init, TypeOK, IdleLoops, NoAttempts
<1>2. Claims
  BY DEF Init, Claims, ClaimsAreExclusive, IdleLoops
<1>3. Delivery
  BY DEF Init, Delivery, SentWasDelivered, IdleLoops
<1>4. Counting
  BY DEF Init, Counting, GivenUpForCause, IdleLoops, NoAttempts
<1> QED BY <1>1, <1>2, <1>3, <1>4 DEF IInv

\* A loop that is not idle works on a message.
LEMMA LiveLoop ==
  ASSUME TypeOK, Claims, NEW l \in Loops, phase[l] # "idle"
  PROVE  cur[l] \in Msgs
BY DEF TypeOK, Claims

LEMMA EnqueueStep == ASSUME IInv, NEW m \in Msgs, Enqueue(m) PROVE IInv'
<1>1. TypeOK'
  BY DEF IInv, TypeOK, Enqueue, EnqueueMessage, loopVars, netVars
<1>2. Claims'
  BY ClaimsStable DEF IInv, Enqueue, EnqueueMessage
<1>3. Delivery'
  BY DEF IInv, TypeOK, Delivery, SentWasDelivered, Enqueue, EnqueueMessage, loopVars, netVars
<1>4. Counting'
  BY DEF IInv, TypeOK, Counting, GivenUpForCause, Enqueue, EnqueueMessage, loopVars, netVars
<1> QED BY <1>1, <1>2, <1>3, <1>4 DEF IInv

LEMMA WakeStep == ASSUME IInv, NEW l \in Loops, Wake(l) PROVE IInv'
<1> DEFINE view == [m \in Msgs |-> IF m \in Pending THEN attempts[m] ELSE 0]
<1>1. /\ Pending \in SUBSET Msgs
      /\ processing \in SUBSET Msgs
      /\ view \in [Msgs -> Nat]
      /\ \A m \in Msgs : view[m] <= attempts[m]
  BY DEF IInv, TypeOK, Pending, Ready
<1>2. Continue(l, Pending, processing, view) /\ phase[l] = "idle"
  BY DEF Wake
<1>3. UNCHANGED <<mode, dbVars, netVars, outages>>
  BY DEF Wake
<1> HIDE DEF view
<1>4. TypeOK'
  BY <1>1, <1>2, <1>3, ContinueType DEF IInv, TypeOK, dbVars, netVars
<1>5. Claims'
  BY <1>1, <1>2, ContinueClaims, Released DEF IInv
<1>6. Delivery'
  BY <1>1, <1>2, <1>3, ContinueFrame
     DEF IInv, Delivery, SentWasDelivered, dbVars, netVars
<1>7. Counting'
  <2>1. \A k \in Loops \ {l} : seen'[k] = seen[k]
    BY <1>1, <1>2, ContinueFrame DEF IInv
  <2>2. seen'[l] \in {view, NoAttempts}
    BY <1>1, <1>2, ContinueFrame DEF IInv
  <2>3. \A m \in Msgs : seen'[l][m] <= attempts[m]
    BY <1>1, <2>2 DEF IInv, TypeOK, NoAttempts
  <2>4. \A k \in Loops, m \in Msgs : seen'[k][m] <= attempts[m]
    BY <2>1, <2>3 DEF IInv, Counting
  <2> QED BY <2>4, <1>3 DEF IInv, Counting, GivenUpForCause, dbVars, netVars
<1> QED BY <1>4, <1>5, <1>6, <1>7 DEF IInv

LEMMA ReachStep == ASSUME IInv, NEW l \in Loops, Reach(l) PROVE IInv'
<1>1. cur[l] \in Msgs
  BY LiveLoop DEF IInv, Reach
<1>2. TypeOK'
  BY <1>1 DEF IInv, TypeOK, Reach, dbVars
<1>3. Claims'
  BY DEF IInv, TypeOK, Claims, ClaimsAreExclusive, Reach
<1>4. Delivery'
  BY DEF IInv, TypeOK, Delivery, SentWasDelivered, Reach, dbVars
<1>5. Counting'
  BY DEF IInv, Counting, GivenUpForCause, Reach, dbVars
<1> QED BY <1>2, <1>3, <1>4, <1>5 DEF IInv

\* A settled send: the row is updated, the claim released, the loop goes on.
LEMMA SettleStep ==
  ASSUME IInv, NEW l \in Loops, phase[l] # "idle",
         NEW st \in Statuses,
         NEW err \in SUBSET (NonRetryable \cup RetryableMarks),
         UpdateRow(cur[l], st, err),
         Continue(l, todo[l], processing \ {cur[l]}, seen[l]),
         UNCHANGED <<mode, netVars, outages>>,
         st \in {"SENT", "ACKED"} => cur[l] \in arrived,
         st \in {"PENDING", "SENT", "ACKED", "FAILED"},
         st = "FAILED" => ~IsRetryable(err) \/ seen[l][cur[l]] + 1 >= MaxAttempts
  PROVE  IInv'
<1>1. cur[l] \in Msgs
  BY LiveLoop DEF IInv
<1>2. /\ todo[l] \in SUBSET Msgs
      /\ processing \ {cur[l]} \in SUBSET Msgs
      /\ seen[l] \in [Msgs -> Nat]
  BY DEF IInv, TypeOK
<1>3. RowTypes' /\ RowEffect(cur[l], st, err)
  BY <1>1, UpdateRowEffect DEF IInv
<1>4. TypeOK'
  <2>1. /\ phase' \in [Loops -> {"idle", "sending", "reached"}]
        /\ cur' \in [Loops -> Msgs \cup {None}]
        /\ todo' \in [Loops -> SUBSET Msgs]
        /\ seen' \in [Loops -> [Msgs -> Nat]]
        /\ processing' \in SUBSET Msgs
    BY <1>2, ContinueType DEF IInv
  <2> QED BY <2>1, <1>3 DEF IInv, TypeOK, RowTypes, netVars
<1>5. Claims'
  BY <1>2, ContinueClaims, Released DEF IInv
<1>6. Delivery'
  <2>1. \A k \in Loops : phase'[k] = "reached" => phase[k] = "reached" /\ cur'[k] = cur[k]
    BY <1>2, ContinueFrame DEF IInv
  <2>2. SentWasDelivered'
    BY <1>3 DEF IInv, Delivery, SentWasDelivered, RowEffect, netVars
  <2> QED BY <2>1, <2>2 DEF IInv, Delivery, netVars
<1>7. Counting'
  <2>1. /\ \A k \in Loops \ {l} : seen'[k] = seen[k]
        /\ seen'[l] \in {seen[l], NoAttempts}
    BY <1>2, ContinueFrame DEF IInv
  <2>2. \A k \in Loops, m \in Msgs : seen'[k][m] <= attempts[m]
    BY <2>1 DEF IInv, TypeOK, Counting, NoAttempts
  <2>3. \A m \in Msgs : attempts[m] \in Nat /\ attempts[m] <= attempts'[m]
    BY <1>3 DEF IInv, TypeOK, RowEffect
  <2>4. \A k \in Loops, m \in Msgs : seen'[k][m] <= attempts'[m]
    <3> SUFFICES ASSUME NEW k \in Loops, NEW m \in Msgs
                 PROVE  seen'[k][m] <= attempts'[m]
      OBVIOUS
    <3>1. seen'[k][m] \in Nat /\ attempts'[m] \in Nat
      BY <1>4 DEF TypeOK
    <3> QED BY <2>2, <2>3, <3>1
  <2>5. ASSUME NEW m \in Msgs, status'[m] \in {"FAILED", "pruned"}, m \notin arrived
        PROVE  ~IsRetryable(lastError'[m]) \/ attempts'[m] >= MaxAttempts
    <3>1. CASE /\ status'[m] = status[m]
               /\ lastError'[m] = lastError[m]
               /\ attempts'[m] = attempts[m]
      BY <2>5, <3>1 DEF IInv, Counting, GivenUpForCause
    <3>2. CASE /\ m = cur[l]
               /\ status'[m] = st
               /\ lastError'[m] = err
               /\ attempts'[m] = attempts[m] + 1
      <4>1. st = "FAILED"
        BY <2>5, <3>2
      <4>2. seen[l][m] \in Nat /\ attempts[m] \in Nat /\ seen[l][m] <= attempts[m]
        BY DEF IInv, TypeOK, Counting
      <4> QED BY <3>2, <4>1, <4>2, OutboxAssumption
    <3> QED BY <1>3, <3>1, <3>2 DEF RowEffect
  <2>6. arrived' = arrived
    BY DEF netVars
  <2> QED BY <2>4, <2>5, <2>6 DEF Counting, GivenUpForCause
<1> QED BY <1>4, <1>5, <1>6, <1>7 DEF IInv

LEMMA SendSucceedsStep == ASSUME IInv, NEW l \in Loops, SendSucceeds(l) PROVE IInv'
<1> DEFINE st == IF Kind[cur[l]] = "RESPONSE" THEN "ACKED" ELSE "SENT"
<1>1. /\ UpdateRow(cur[l], st, {})
      /\ Continue(l, todo[l], processing \ {cur[l]}, seen[l])
      /\ UNCHANGED <<mode, netVars, outages>>
      /\ phase[l] = "reached"
  BY DEF SendSucceeds
<1>2. cur[l] \in arrived
  BY <1>1 DEF IInv, Delivery
<1>3. st \in {"ACKED", "SENT"}
  OBVIOUS
<1> HIDE DEF st
<1> QED BY <1>1, <1>2, <1>3, SettleStep

LEMMA SendFailsStep == ASSUME IInv, NEW l \in Loops, SendFails(l) PROVE IInv'
<1>1. PICK e \in Errors :
        LET retry == IsRetryable(e) /\ seen[l][cur[l]] + 1 < MaxAttempts
        IN  UpdateRow(cur[l], IF retry THEN "PENDING" ELSE "FAILED", e)
  BY DEF SendFails
<1> DEFINE retry == IsRetryable(e) /\ seen[l][cur[l]] + 1 < MaxAttempts
           st == IF retry THEN "PENDING" ELSE "FAILED"
<1>2. /\ Continue(l, todo[l], processing \ {cur[l]}, seen[l])
      /\ UNCHANGED <<mode, netVars, outages>>
      /\ phase[l] # "idle"
  BY DEF SendFails
<1>3. cur[l] \in Msgs
  BY <1>2, LiveLoop DEF IInv
<1>4. seen[l][cur[l]] \in Nat
  BY <1>3 DEF IInv, TypeOK
<1>5. /\ st \in {"PENDING", "FAILED"}
      /\ st = "FAILED" => ~IsRetryable(e) \/ seen[l][cur[l]] + 1 >= MaxAttempts
  <2>1. ~(seen[l][cur[l]] + 1 < MaxAttempts) => seen[l][cur[l]] + 1 >= MaxAttempts
    BY <1>4, OutboxAssumption
  <2>2. st \in {"PENDING", "FAILED"} /\ (st = "FAILED" => ~retry)
    OBVIOUS
  <2>3. ~retry => ~IsRetryable(e) \/ ~(seen[l][cur[l]] + 1 < MaxAttempts)
    OBVIOUS
  <2> HIDE DEF retry, st
  <2> QED BY <2>1, <2>2, <2>3
<1>6. e \in SUBSET (NonRetryable \cup RetryableMarks)
  BY OutboxAssumption
<1>7. UpdateRow(cur[l], st, e)
  BY <1>1
<1> HIDE DEF retry, st
<1> QED BY <1>2, <1>5, <1>6, <1>7, SettleStep

LEMMA BecomeDueStep == ASSUME IInv, NEW m \in Msgs, BecomeDue(m) PROVE IInv'
<1>1. TypeOK'
  BY DEF IInv, TypeOK, BecomeDue, loopVars, netVars
<1>2. Claims'
  BY ClaimsStable DEF IInv, BecomeDue
<1>3. Delivery' /\ Counting'
  BY DEF IInv, Delivery, SentWasDelivered, Counting, GivenUpForCause, BecomeDue, loopVars, netVars
<1> QED BY <1>1, <1>2, <1>3 DEF IInv

LEMMA AckStep == ASSUME IInv, NEW m \in Msgs, Ack(m) PROVE IInv'
<1>1. UpdateRow(m, "ACKED", {})
  BY DEF Ack
<1>2. RowTypes' /\ RowEffect(m, "ACKED", {})
  BY <1>1, UpdateRowEffect DEF IInv
<1>3. TypeOK'
  BY <1>2 DEF IInv, TypeOK, RowTypes, Ack, loopVars
<1>4. Claims'
  BY ClaimsStable DEF IInv, Ack
<1>5. Delivery'
  BY <1>2 DEF IInv, Delivery, SentWasDelivered, RowEffect, Ack, loopVars
<1>6. Counting'
  <2>1. \A k \in Loops, i \in Msgs : seen'[k][i] <= attempts'[i]
    <3> SUFFICES ASSUME NEW k \in Loops, NEW i \in Msgs
                 PROVE  seen[k][i] <= attempts'[i]
      BY DEF Ack, loopVars
    <3>1. /\ seen[k][i] \in Nat
          /\ attempts[i] \in Nat
          /\ seen[k][i] <= attempts[i]
      BY DEF IInv, TypeOK, Counting
    <3>2. attempts'[i] = attempts[i] \/ attempts'[i] = attempts[i] + 1
      BY <1>2 DEF RowEffect
    <3> QED BY <3>1, <3>2
  <2>2. GivenUpForCause'
    BY <1>2 DEF IInv, Counting, GivenUpForCause, RowEffect, Ack
  <2> QED BY <2>1, <2>2 DEF Counting
<1> QED BY <1>3, <1>4, <1>5, <1>6 DEF IInv

LEMMA LoseAckStep == ASSUME IInv, NEW m \in Msgs, LoseAck(m) PROVE IInv'
<1>1. TypeOK'
  BY DEF IInv, TypeOK, LoseAck, loopVars, dbVars
<1>2. Claims'
  BY ClaimsStable DEF IInv, LoseAck
<1>3. Delivery' /\ Counting'
  BY DEF IInv, Delivery, SentWasDelivered, Counting, GivenUpForCause, LoseAck, loopVars, dbVars
<1> QED BY <1>1, <1>2, <1>3 DEF IInv

LEMMA PruneStep == ASSUME IInv, Prune PROVE IInv'
<1>1. PICK cutoff \in 1..clock :
        status' = [m \in Msgs |->
          IF m \in {k \in Msgs : status[k] \in {"ACKED", "FAILED"} /\ createdAt[k] < cutoff}
          THEN "pruned" ELSE status[m]]
  BY DEF Prune
<1>2. \A m \in Msgs : \/ status'[m] = status[m]
                      \/ status'[m] = "pruned" /\ status[m] \in {"ACKED", "FAILED"}
  BY <1>1
<1>3. TypeOK'
  BY <1>1 DEF IInv, TypeOK, Prune, loopVars, netVars
<1>4. Claims'
  BY ClaimsStable DEF IInv, Prune
<1>5. Delivery'
  BY <1>2 DEF IInv, Delivery, SentWasDelivered, Prune, loopVars, netVars
<1>6. Counting'
  BY <1>2 DEF IInv, Delivery, SentWasDelivered, Counting, GivenUpForCause, Prune, loopVars, netVars
<1> QED BY <1>3, <1>4, <1>5, <1>6 DEF IInv

LEMMA LifecycleStep == ASSUME IInv, Start \/ Stop \/ Boot PROVE IInv'
<1>1. TypeOK'
  BY DEF IInv, TypeOK, Start, Stop, Boot, dbVars, loopVars, netVars
<1>2. Claims'
  BY ClaimsStable DEF IInv, Start, Stop, Boot
<1>3. Delivery' /\ Counting'
  BY DEF IInv, Delivery, SentWasDelivered, Counting, GivenUpForCause,
         Start, Stop, Boot, dbVars, loopVars, netVars
<1> QED BY <1>1, <1>2, <1>3 DEF IInv

LEMMA CrashStep == ASSUME IInv, Crash PROVE IInv'
<1>1. TypeOK'
  BY DEF IInv, TypeOK, Crash, IdleLoops, NoAttempts, dbVars, netVars
<1>2. Claims'
  BY DEF Claims, ClaimsAreExclusive, Crash, IdleLoops
<1>3. Delivery'
  BY DEF IInv, Delivery, SentWasDelivered, Crash, IdleLoops, dbVars, netVars
<1>4. Counting'
  BY DEF IInv, TypeOK, Counting, GivenUpForCause, Crash, IdleLoops, NoAttempts, dbVars, netVars
<1> QED BY <1>1, <1>2, <1>3, <1>4 DEF IInv
-----------------------------------------------------------------------------
LEMMA NextIInv == IInv /\ [Next]_vars => IInv'
<1> SUFFICES ASSUME IInv, [Next]_vars PROVE IInv'
  OBVIOUS
<1>1. CASE \E m \in Msgs : Enqueue(m) \/ BecomeDue(m) \/ Ack(m) \/ LoseAck(m)
  BY <1>1, EnqueueStep, BecomeDueStep, AckStep, LoseAckStep
<1>2. CASE \E l \in Loops : Wake(l) \/ Reach(l) \/ SendSucceeds(l) \/ SendFails(l)
  BY <1>2, WakeStep, ReachStep, SendSucceedsStep, SendFailsStep
<1>3. CASE Prune \/ Start \/ Stop \/ Crash \/ Boot
  BY <1>3, PruneStep, LifecycleStep, CrashStep
<1>4. CASE UNCHANGED vars
  BY <1>4, ClaimsStable
     DEF vars, dbVars, loopVars, netVars, IInv, TypeOK, Delivery, SentWasDelivered,
         Counting, GivenUpForCause
<1> QED BY <1>1, <1>2, <1>3, <1>4 DEF Next

LEMMA Invariance == Spec => []IInv
<1> QED BY InitIInv, NextIInv, PTL DEF Spec

\* The outbox keeps its types.
THEOREM TypeCorrect == Spec => []TypeOK
<1>1. IInv => TypeOK
  BY DEF IInv
<1> QED BY Invariance, <1>1, PTL

\* Overlapping processOutbox invocations never send one message at the same
\* time, and no claim outlives its invocation, for any number of them.
THEOREM ExclusiveClaims == Spec => []ClaimsAreExclusive
<1>1. IInv => ClaimsAreExclusive
  BY DEF IInv, Claims
<1> QED BY Invariance, <1>1, PTL

\* A row is SENT or ACKED only after the peer has received the message.
THEOREM Delivered == Spec => []SentWasDelivered
<1>1. IInv => SentWasDelivered
  BY DEF IInv, Delivery
<1> QED BY Invariance, <1>1, PTL

\* An undelivered message is given up only after a non-retryable error or with
\* its sends used up, although the decision is taken on a stale snapshot.
THEOREM CauseToGiveUp == Spec => []GivenUpForCause
<1>1. IInv => GivenUpForCause
  BY DEF IInv, Counting
<1> QED BY Invariance, <1>1, PTL
=============================================================================
