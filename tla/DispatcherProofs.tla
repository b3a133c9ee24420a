-------------------------- MODULE DispatcherProofs --------------------------
(***************************************************************************)
(* Dispatcher for every set of calls and sessions and every limit: types,   *)
(* no forgotten caller, the backpressure limits, and the refinement of      *)
(* Calls (every promise settled at most once).                              *)
(***************************************************************************)
EXTENDS Dispatcher, FiniteSetTheorems, TLAPS

\* The call that awaits a processor is one of that session, still waiting if it
\* is an event.
RunnerWaits ==
  \A s \in Sessions :
    runner[s] \in Events => /\ outcome[runner[s]] = "waiting"
                            /\ SessionOf[runner[s]] = s

IInv ==
  /\ TypeOK
  /\ ProcessorHoldsWork
  /\ NoCallerForgotten
  /\ RunnerWaits
  /\ PendingBounded

-----------------------------------------------------------------------------
LEMMA InitIInv == Init => IInv
<1> SUFFICES ASSUME Init PROVE IInv
  OBVIOUS
<1>1. TypeOK
  BY DEF Init, TypeOK
<1>2. ProcessorHoldsWork /\ NoCallerForgotten /\ RunnerWaits
  BY DispatcherAssumption
     DEF Init, ProcessorHoldsWork, NoCallerForgotten, RunnerWaits, Frames
<1>3. PendingBounded
  <2>1. Cardinality({}) = 0
    BY FS_EmptySet
  <2>2. \A s \in Sessions : PendingOf(s) = {}
    BY DEF Init, PendingOf
  <2>3. 0 <= MaxPendingTotal /\ 0 <= MaxPendingPerSession
    BY DispatcherAssumption
  <2>4. Cardinality(pending) <= MaxPendingTotal
    BY <2>1, <2>3 DEF Init
  <2>5. \A s \in Sessions : Cardinality(PendingOf(s)) <= MaxPendingPerSession
    BY <2>1, <2>2, <2>3
  <2> QED BY <2>4, <2>5 DEF PendingBounded
<1> QED BY <1>1, <1>2, <1>3 DEF IInv

\* queueAndSend keeps the queue variables typed and gives a processor work.
LEMMA QueueAndSendEffect ==
  ASSUME TypeOK, ProcessorHoldsWork, NEW f \in Frames, QueueAndSend(f)
  PROVE  /\ queues' \in [Sessions -> Seq(Item)]
         /\ orphan' = orphan
         /\ processing' \in SUBSET Sessions
         /\ runner' \in [Sessions -> Frames \cup {NoCall}]
         /\ sent' \in SUBSET Frames
         /\ ProcessorHoldsWork'
         /\ \A s \in Sessions :
              runner'[s] = runner[s] \/ (runner'[s] = f /\ s = SessionOf[f])
<1> DEFINE s == SessionOf[f]
           q == Append(queues[s], [frame |-> f, attempts |-> 0])
<1>1. s \in Sessions
  BY DispatcherAssumption
<1>2. /\ queues' = [queues EXCEPT ![s] = q]
      /\ orphan' = orphan
      /\ \/ /\ s \in processing
            /\ UNCHANGED <<processing, runner, sent>>
         \/ /\ processing' = processing \cup {s}
            /\ runner' = [runner EXCEPT ![s] = f]
            /\ sent' = sent \cup {Head(q).frame}
  BY DEF QueueAndSend
<1>3. /\ q \in Seq(Item)
      /\ q # <<>>
  <2>1. [frame |-> f, attempts |-> 0] \in Item
    BY DEF Item
  <2>2. queues[s] \in Seq(Item)
    BY <1>1 DEF TypeOK
  <2>3. q \in Seq(Item) /\ Len(q) = Len(queues[s]) + 1 /\ Len(queues[s]) \in Nat
    BY <2>1, <2>2
  <2> QED BY <2>3
<1>4. Head(q).frame \in Frames
  <2>1. Head(q) \in Item
    BY <1>3
  <2> QED BY <2>1 DEF Item
<1> HIDE DEF q, s
<1>5. /\ queues' \in [Sessions -> Seq(Item)]
      /\ processing' \in SUBSET Sessions
      /\ runner' \in [Sessions -> Frames \cup {NoCall}]
      /\ sent' \in SUBSET Frames
  BY <1>1, <1>2, <1>3, <1>4 DEF TypeOK
<1>6. ProcessorHoldsWork'
  BY <1>1, <1>2, <1>3 DEF TypeOK, ProcessorHoldsWork, Local
<1>7. \A t \in Sessions : runner'[t] = runner[t] \/ (runner'[t] = f /\ t = s)
  BY <1>1, <1>2 DEF TypeOK
<1> QED BY <1>2, <1>5, <1>6, <1>7 DEF s

\* Removing entries keeps the limits.
LEMMA BoundedBySubset ==
  ASSUME TypeOK, PendingBounded, pending' \subseteq pending
  PROVE  PendingBounded'
<1>1. IsFiniteSet(pending)
  BY FS_Subset, DispatcherAssumption DEF TypeOK
<1>2. Cardinality(pending') <= Cardinality(pending)
  BY <1>1, FS_Subset
<1>3. ASSUME NEW s \in Sessions
      PROVE  Cardinality(PendingOf(s)') <= MaxPendingPerSession
  <2>1. PendingOf(s)' \subseteq PendingOf(s) /\ IsFiniteSet(PendingOf(s))
    BY <1>1, FS_Subset DEF PendingOf
  <2>2. /\ Cardinality(PendingOf(s)') <= Cardinality(PendingOf(s))
        /\ Cardinality(PendingOf(s)') \in Nat
        /\ Cardinality(PendingOf(s)) \in Nat
    BY <2>1, FS_Subset, FS_CardinalityType
  <2> QED BY <2>2, DispatcherAssumption DEF PendingBounded
<1>4. Cardinality(pending) \in Nat /\ Cardinality(pending') \in Nat
  BY <1>1, FS_Subset, FS_CardinalityType
<1> QED BY <1>2, <1>3, <1>4, DispatcherAssumption DEF PendingBounded

\* What sendRequest does to everything but the size of the pending map.
LEMMA SendRequestEffect ==
  ASSUME TypeOK, ProcessorHoldsWork, NoCallerForgotten, RunnerWaits,
         NEW r \in Requests, SendRequest(r)
  PROVE  /\ TypeOK'
         /\ ProcessorHoldsWork'
         /\ NoCallerForgotten'
         /\ RunnerWaits'
         /\ pending' \in {pending \ {r}, pending \cup {r}}
         /\ \E o \in {"rejected", "waiting"} : outcome' = [outcome EXCEPT ![r] = o]
<1> USE DEF Frames
<1>1. CASE QueueFull(SessionOf[r])
  <2>1. /\ tries' = [tries EXCEPT ![r] = @ + 1]
        /\ pending' = pending \ {r}
        /\ outcome' = [outcome EXCEPT ![r] = "rejected"]
        /\ UNCHANGED <<attempts, queueVars>>
    BY <1>1 DEF SendRequest
  <2>2. TypeOK'
    BY <2>1 DEF TypeOK, queueVars
  <2>3. ProcessorHoldsWork' /\ NoCallerForgotten'
    BY <2>1 DEF TypeOK, ProcessorHoldsWork, NoCallerForgotten, Local, queueVars
  <2>4. RunnerWaits'
    BY <2>1, DispatcherAssumption DEF TypeOK, RunnerWaits, queueVars
  <2> QED BY <2>1, <2>2, <2>3, <2>4
<1>2. CASE ~QueueFull(SessionOf[r])
  <2>1. /\ tries' = [tries EXCEPT ![r] = @ + 1]
        /\ pending' = pending \cup {r}
        /\ attempts' = [attempts EXCEPT ![r] = 1]
        /\ outcome' = [outcome EXCEPT ![r] = "waiting"]
        /\ QueueAndSend(r)
    BY <1>2 DEF SendRequest
  <2>2. /\ queues' \in [Sessions -> Seq(Item)]
        /\ orphan' = orphan
        /\ processing' \in SUBSET Sessions
        /\ runner' \in [Sessions -> Frames \cup {NoCall}]
        /\ sent' \in SUBSET Frames
        /\ ProcessorHoldsWork'
        /\ \A s \in Sessions :
              runner'[s] = runner[s] \/ (runner'[s] = r /\ s = SessionOf[r])
    BY <2>1, QueueAndSendEffect
  <2>3. TypeOK'
    BY <2>1, <2>2 DEF TypeOK
  <2>4. NoCallerForgotten'
    BY <2>1 DEF TypeOK, NoCallerForgotten
  <2>5. RunnerWaits'
    BY <2>1, <2>2, DispatcherAssumption DEF TypeOK, RunnerWaits
  <2> QED BY <2>1, <2>2, <2>3, <2>4, <2>5
<1> QED BY <1>1, <1>2

LEMMA RequestStep == ASSUME IInv, NEW r \in Requests, Request(r) PROVE IInv'
<1> USE DEF Frames
<1>1. outcome[r] = "none" /\ r \notin pending
  BY DEF IInv, NoCallerForgotten, Request
<1>2. CASE \/ Cardinality(PendingOf(SessionOf[r])) >= MaxPendingPerSession
           \/ Cardinality(pending) >= MaxPendingTotal
  <2>1. /\ outcome' = [outcome EXCEPT ![r] = "rejected"]
        /\ UNCHANGED <<pending, attempts, tries, queueVars>>
    BY <1>2 DEF Request
  <2>2. TypeOK'
    BY <2>1 DEF IInv, TypeOK, queueVars
  <2>3. ProcessorHoldsWork' /\ NoCallerForgotten'
    BY <1>1, <2>1 DEF IInv, TypeOK, ProcessorHoldsWork, NoCallerForgotten, Local, queueVars
  <2>4. RunnerWaits'
    BY <2>1, DispatcherAssumption DEF IInv, TypeOK, RunnerWaits, queueVars
  <2>5. PendingBounded'
    BY <2>1, BoundedBySubset DEF IInv
  <2> QED BY <2>2, <2>3, <2>4, <2>5 DEF IInv
<1>3. CASE /\ ~(Cardinality(PendingOf(SessionOf[r])) >= MaxPendingPerSession)
           /\ ~(Cardinality(pending) >= MaxPendingTotal)
  <2>1. SendRequest(r)
    BY <1>3 DEF Request
  <2>2. /\ TypeOK' /\ ProcessorHoldsWork' /\ NoCallerForgotten' /\ RunnerWaits'
        /\ pending' \in {pending \ {r}, pending \cup {r}}
    BY <2>1, SendRequestEffect DEF IInv
  <2>3. IsFiniteSet(pending)
    BY FS_Subset, DispatcherAssumption DEF IInv, TypeOK
  <2>4. CASE pending' = pending \ {r}
    BY <2>2, <2>4, BoundedBySubset DEF IInv
  <2>5. CASE pending' = pending \cup {r}
    <3>1. /\ Cardinality(pending') = Cardinality(pending) + 1
          /\ Cardinality(pending) \in Nat
      BY <1>1, <2>3, <2>5, FS_AddElement, FS_CardinalityType
    <3>2. Cardinality(pending') <= MaxPendingTotal
      BY <1>3, <3>1, DispatcherAssumption
    <3>3. ASSUME NEW s \in Sessions
          PROVE  Cardinality(PendingOf(s)') <= MaxPendingPerSession
      <4>1. IsFiniteSet(PendingOf(s)) /\ r \notin PendingOf(s)
        BY <1>1, <2>3, FS_Subset DEF PendingOf
      <4>2. /\ Cardinality(PendingOf(s) \cup {r}) = Cardinality(PendingOf(s)) + 1
            /\ Cardinality(PendingOf(s)) \in Nat
        BY <4>1, FS_AddElement, FS_CardinalityType
      <4>3. CASE s = SessionOf[r]
        <5>1. PendingOf(s)' = PendingOf(s) \cup {r}
          BY <2>5, <4>3 DEF PendingOf
        <5> QED BY <1>3, <4>2, <4>3, <5>1, DispatcherAssumption
      <4>4. CASE s # SessionOf[r]
        <5>1. PendingOf(s)' = PendingOf(s)
          BY <2>5, <4>4 DEF PendingOf
        <5> QED BY <5>1 DEF IInv, PendingBounded
      <4> QED BY <4>3, <4>4
    <3>4. \A s \in Sessions : Cardinality(PendingOf(s)') <= MaxPendingPerSession
      BY <3>3
    <3>5. PendingBounded'
      BY <3>2, <3>4 DEF PendingBounded
    <3> QED BY <2>2, <3>5 DEF IInv
  <2> QED BY <2>2, <2>4, <2>5 DEF IInv
<1> QED BY <1>2, <1>3

LEMMA TimeoutStep == ASSUME IInv, NEW r \in Requests, Timeout(r) PROVE IInv'
<1>1. CASE SendRequest(r)
  <2>1. /\ TypeOK' /\ ProcessorHoldsWork' /\ NoCallerForgotten' /\ RunnerWaits'
        /\ pending' \in {pending \ {r}, pending \cup {r}}
    BY <1>1, SendRequestEffect DEF IInv
  <2>2. PendingBounded'
    BY <2>1, BoundedBySubset DEF IInv, Timeout
  <2> QED BY <2>1, <2>2 DEF IInv
<1>2. CASE /\ pending' = pending \ {r}
           /\ outcome' = [outcome EXCEPT ![r] = "rejected"]
           /\ UNCHANGED <<attempts, tries, queueVars>>
  <2>1. TypeOK'
    BY <1>2 DEF IInv, TypeOK, queueVars
  <2>2. ProcessorHoldsWork' /\ NoCallerForgotten'
    BY <1>2 DEF IInv, TypeOK, ProcessorHoldsWork, NoCallerForgotten, Local, queueVars, Frames
  <2>3. RunnerWaits'
    BY <1>2, DispatcherAssumption DEF IInv, TypeOK, RunnerWaits, queueVars, Frames
  <2>4. PendingBounded'
    BY <1>2, BoundedBySubset DEF IInv
  <2> QED BY <2>1, <2>2, <2>3, <2>4 DEF IInv
<1> QED BY <1>1, <1>2 DEF Timeout

LEMMA AnswerStep == ASSUME IInv, NEW r \in Requests, Answer(r) PROVE IInv'
<1>1. PICK o \in {"resolved", "rejected"} : outcome' = [outcome EXCEPT ![r] = o]
  BY DEF Answer
<1>2. pending' = pending \ {r} /\ UNCHANGED <<attempts, tries, queueVars>>
  BY DEF Answer
<1>3. TypeOK'
  BY <1>1, <1>2 DEF IInv, TypeOK, queueVars
<1>4. ProcessorHoldsWork' /\ NoCallerForgotten'
  BY <1>1, <1>2 DEF IInv, TypeOK, ProcessorHoldsWork, NoCallerForgotten, Local, queueVars, Frames
<1>5. RunnerWaits'
  BY <1>1, <1>2, DispatcherAssumption DEF IInv, TypeOK, RunnerWaits, queueVars, Frames
<1>6. PendingBounded'
  BY <1>2, BoundedBySubset DEF IInv
<1> QED BY <1>3, <1>4, <1>5, <1>6 DEF IInv

LEMMA EventStep == ASSUME IInv, NEW e \in Events, Event(e) PROVE IInv'
<1> USE DEF Frames
<1>1. outcome[e] = "none" /\ UNCHANGED <<pending, attempts, tries>>
  BY DEF Event
<1>2. e \notin Requests
  BY DispatcherAssumption
<1>3. PendingBounded'
  BY <1>1, BoundedBySubset DEF IInv
<1>4. CASE QueueFull(SessionOf[e])
  <2>1. outcome' = [outcome EXCEPT ![e] = "rejected"] /\ UNCHANGED queueVars
    BY <1>4 DEF Event
  <2>2. TypeOK'
    BY <1>1, <2>1 DEF IInv, TypeOK, queueVars
  <2>3. ProcessorHoldsWork' /\ NoCallerForgotten' /\ RunnerWaits'
    BY <1>1, <1>2, <2>1
       DEF IInv, TypeOK, ProcessorHoldsWork, NoCallerForgotten, RunnerWaits, Local, queueVars
  <2> QED BY <1>3, <2>2, <2>3 DEF IInv
<1>5. CASE ~QueueFull(SessionOf[e])
  <2>1. /\ outcome' = [outcome EXCEPT ![e] =
                         IF SessionOf[e] \in processing THEN "resolved" ELSE "waiting"]
        /\ QueueAndSend(e)
    BY <1>5 DEF Event
  <2>2. /\ queues' \in [Sessions -> Seq(Item)]
        /\ orphan' = orphan
        /\ processing' \in SUBSET Sessions
        /\ runner' \in [Sessions -> Frames \cup {NoCall}]
        /\ sent' \in SUBSET Frames
        /\ ProcessorHoldsWork'
    BY <2>1, QueueAndSendEffect DEF IInv
  <2>3. TypeOK'
    BY <1>1, <2>1, <2>2 DEF IInv, TypeOK
  <2>4. NoCallerForgotten'
    BY <1>1, <1>2, <2>1 DEF IInv, TypeOK, NoCallerForgotten
  <2>5. RunnerWaits'
    <3>1. CASE SessionOf[e] \in processing
      <4>1. runner' = runner
        BY <2>1, <3>1 DEF QueueAndSend
      <4> QED BY <1>1, <2>1, <4>1 DEF IInv, TypeOK, RunnerWaits
    <3>2. CASE SessionOf[e] \notin processing
      <4>1. runner' = [runner EXCEPT ![SessionOf[e]] = e]
        BY <2>1, <3>2 DEF QueueAndSend
      <4> QED BY <1>1, <2>1, <3>2, <4>1, DispatcherAssumption DEF IInv, TypeOK, RunnerWaits
    <3> QED BY <3>1, <3>2
  <2> QED BY <1>3, <2>2, <2>3, <2>4, <2>5 DEF IInv
<1> QED BY <1>4, <1>5

\* The callers of pending requests are rejected, nothing else.
LEMMA RejectAllEffect ==
  ASSUME IInv, NEW R \in SUBSET pending, NEW S \in SUBSET Sessions,
         RejectAll(R), DropQueues(S)
  PROVE  IInv'
<1> USE DEF Frames
<1>1. /\ outcome' = [f \in Frames |-> IF f \in R THEN "rejected" ELSE outcome[f]]
      /\ pending' = pending \ R
      /\ UNCHANGED <<attempts, tries, processing, runner, sent>>
  BY DEF RejectAll, DropQueues
<1>2. /\ orphan' = [s \in Sessions |->
                     IF s \in S \cap processing /\ orphan[s] = <<>> THEN queues[s] ELSE orphan[s]]
      /\ queues' = [s \in Sessions |-> IF s \in S THEN <<>> ELSE queues[s]]
  BY DEF DropQueues
<1>3. TypeOK'
  <2>1. <<>> \in Seq(Item)
    OBVIOUS
  <2> QED BY <1>1, <1>2, <2>1 DEF IInv, TypeOK
<1>4. NoCallerForgotten'
  BY <1>1 DEF IInv, TypeOK, NoCallerForgotten
<1>5. RunnerWaits'
  BY <1>1, DispatcherAssumption DEF IInv, TypeOK, RunnerWaits
<1>6. ProcessorHoldsWork'
  BY <1>1, <1>2 DEF IInv, TypeOK, ProcessorHoldsWork, Local
<1>7. PendingBounded'
  BY <1>1, BoundedBySubset DEF IInv
<1> QED BY <1>3, <1>4, <1>5, <1>6, <1>7 DEF IInv

LEMMA SendDoneStep ==
  ASSUME IInv, NEW s \in Sessions, NEW ok \in BOOLEAN, SendDone(s, ok)
  PROVE  IInv'
<1> USE DEF Frames
<1> DEFINE item == Head(Local(s))
           rest == IF ok \/ item.attempts + 1 >= MaxRetries
                   THEN Tail(Local(s))
                   ELSE <<[item EXCEPT !.attempts = @ + 1]>> \o Tail(Local(s))
           more == ok /\ rest # <<>>
<1>1. /\ s \in processing
      /\ UNCHANGED <<pending, attempts, tries>>
      /\ IF orphan[s] # <<>>
         THEN /\ orphan' = [orphan EXCEPT ![s] = IF more THEN rest ELSE <<>>]
              /\ UNCHANGED queues
         ELSE /\ queues' = [queues EXCEPT ![s] = rest]
              /\ UNCHANGED orphan
      /\ IF more
         THEN /\ sent' = sent \cup {Head(rest).frame}
              /\ UNCHANGED <<outcome, processing, runner>>
         ELSE /\ processing' = processing \ {s}
              /\ runner' = [runner EXCEPT ![s] = NoCall]
              /\ outcome' = IF runner[s] \in Events
                            THEN [outcome EXCEPT ![runner[s]] = "resolved"]
                            ELSE outcome
              /\ UNCHANGED sent
  BY DEF SendDone
<1>2. Local(s) \in Seq(Item) /\ Local(s) # <<>>
  BY <1>1 DEF IInv, TypeOK, ProcessorHoldsWork, Local
<1>3. rest \in Seq(Item)
  <2>1. item \in Item /\ Tail(Local(s)) \in Seq(Item)
    BY <1>2
  <2>2. [item EXCEPT !.attempts = @ + 1] \in Item
    BY <2>1 DEF Item
  <2>3. <<[item EXCEPT !.attempts = @ + 1]>> \o Tail(Local(s)) \in Seq(Item)
    BY <2>1, <2>2
  <2> QED BY <2>1, <2>3
<1>4. more => rest # <<>> /\ Head(rest).frame \in Frames
  <2>1. rest # <<>> => Head(rest) \in Item
    BY <1>3
  <2> QED BY <2>1 DEF Item
<1> HIDE DEF item, rest, more
<1>5. PendingBounded'
  BY <1>1, BoundedBySubset DEF IInv
<1>6. runner[s] \in Events => runner[s] \notin Requests
  BY DispatcherAssumption
<1>7. TypeOK'
  <2>1. queues' \in [Sessions -> Seq(Item)] /\ orphan' \in [Sessions -> Seq(Item)]
    <3>1. <<>> \in Seq(Item)
      OBVIOUS
    <3> QED BY <1>1, <1>3, <3>1 DEF IInv, TypeOK
  <2>2. /\ processing' \in SUBSET Sessions
        /\ runner' \in [Sessions -> Frames \cup {NoCall}]
        /\ sent' \in SUBSET Frames
        /\ outcome' \in [Frames -> {"none", "waiting", "resolved", "rejected"}]
    BY <1>1, <1>4 DEF IInv, TypeOK
  <2> QED BY <1>1, <2>1, <2>2 DEF IInv, TypeOK
<1>8. ProcessorHoldsWork'
  BY <1>1, <1>4 DEF IInv, TypeOK, ProcessorHoldsWork, Local
<1>9. NoCallerForgotten'
  BY <1>1, <1>6 DEF IInv, TypeOK, NoCallerForgotten
<1>10. RunnerWaits'
  <2>1. CASE more
    BY <1>1, <2>1 DEF IInv, RunnerWaits
  <2>2. CASE ~more
    <3> SUFFICES ASSUME NEW t \in Sessions, runner'[t] \in Events
                 PROVE  outcome'[runner'[t]] = "waiting" /\ SessionOf[runner'[t]] = t
      BY DEF RunnerWaits
    <3>1. t # s
      BY <1>1, <2>2, DispatcherAssumption DEF IInv, TypeOK
    <3>2. runner'[t] = runner[t]
      BY <1>1, <2>2, <3>1 DEF IInv, TypeOK
    <3>3. outcome[runner[t]] = "waiting" /\ SessionOf[runner[t]] = t
      BY <3>2 DEF IInv, RunnerWaits
    <3>4. runner[s] \in Events => SessionOf[runner[s]] = s
      BY DEF IInv, RunnerWaits
    <3>5. outcome'[runner[t]] = outcome[runner[t]]
      BY <1>1, <2>2, <3>1, <3>3, <3>4 DEF IInv, TypeOK
    <3> QED BY <3>2, <3>3, <3>5
  <2> QED BY <2>1, <2>2
<1> QED BY <1>5, <1>7, <1>8, <1>9, <1>10 DEF IInv

LEMMA NextIInv == IInv /\ [Next]_vars => IInv'
<1> SUFFICES ASSUME IInv, [Next]_vars PROVE IInv'
  OBVIOUS
<1>1. CASE \E r \in Requests : Request(r) \/ Timeout(r) \/ Answer(r)
  BY <1>1, RequestStep, TimeoutStep, AnswerStep
<1>2. CASE \E e \in Events : Event(e)
  BY <1>2, EventStep
<1>3. CASE \E s \in Sessions, ok \in BOOLEAN : SendDone(s, ok)
  BY <1>3, SendDoneStep
<1>4. CASE \E s \in Sessions : ClearSession(s)
  <2>1. \A s \in Sessions : PendingOf(s) \in SUBSET pending /\ {s} \in SUBSET Sessions
    BY DEF PendingOf
  <2> QED BY <1>4, <2>1, RejectAllEffect DEF ClearSession
<1>5. CASE Shutdown
  <2>1. pending \in SUBSET pending /\ Sessions \in SUBSET Sessions
    OBVIOUS
  <2> QED BY <1>5, <2>1, RejectAllEffect DEF Shutdown
<1>6. CASE UNCHANGED vars
  <2>1. TypeOK' /\ ProcessorHoldsWork' /\ NoCallerForgotten' /\ RunnerWaits'
    BY <1>6 DEF vars, queueVars, IInv, TypeOK, ProcessorHoldsWork, NoCallerForgotten,
                RunnerWaits, Local
  <2>2. PendingBounded'
    BY <1>6, BoundedBySubset DEF vars, IInv
  <2> QED BY <2>1, <2>2 DEF IInv
<1> QED BY <1>1, <1>2, <1>3, <1>4, <1>5, <1>6 DEF Next

LEMMA Invariance == Spec => []IInv
<1> QED BY InitIInv, NextIInv, PTL DEF Spec
-----------------------------------------------------------------------------
\* The dispatcher keeps its types.
THEOREM TypeCorrect == Spec => []TypeOK
<1>1. IInv => TypeOK
  BY DEF IInv
<1> QED BY Invariance, <1>1, PTL

\* No caller of request() is forgotten: it waits exactly while its request has
\* an entry, and so a timer, in the pending map.
THEOREM CallersKept == Spec => []NoCallerForgotten
<1>1. IInv => NoCallerForgotten
  BY DEF IInv
<1> QED BY Invariance, <1>1, PTL

\* The pending map never exceeds the backpressure limits, retries included.
THEOREM LimitsKept == Spec => []PendingBounded
<1>1. IInv => PendingBounded
  BY DEF IInv
<1> QED BY Invariance, <1>1, PTL

\* A running queue processor always has a frame in hand.
THEOREM ProcessorsHoldWork == Spec => []ProcessorHoldsWork
<1>1. IInv => ProcessorHoldsWork
  BY DEF IInv
<1> QED BY Invariance, <1>1, PTL
-----------------------------------------------------------------------------
\* A step that gives one outcome to waiting calls is a Settle step of Calls.
LEMMA StepRefines ==
  ASSUME IInv, [Next]_vars
  PROVE  [CallsRefined!Next]_outcome
<1> USE DEF Frames, CallsRefined!Next, CallsRefined!Make, CallsRefined!Settle,
            CallsRefined!Settled
<1>1. ASSUME NEW f \in Frames, NEW o \in {"waiting", "resolved", "rejected"},
             outcome[f] \in {"none", "waiting"},
             outcome' = [outcome EXCEPT ![f] = o]
      PROVE  [CallsRefined!Next]_outcome
  <2>1. CASE outcome[f] = "none"
    BY <1>1, <2>1
  <2>2. CASE outcome[f] = "waiting" /\ o = "waiting"
    BY <1>1, <2>2 DEF IInv, TypeOK
  <2>3. CASE outcome[f] = "waiting" /\ o \in {"resolved", "rejected"}
    <3>1. outcome' = [c \in Frames |-> IF c \in {f} THEN o ELSE outcome[c]]
      BY <1>1 DEF IInv, TypeOK
    <3>2. {f} \in SUBSET Frames /\ \A c \in {f} : outcome[c] = "waiting"
      BY <2>3
    <3> QED BY <2>3, <3>1, <3>2
  <2> QED BY <1>1, <2>1, <2>2, <2>3
<1>2. ASSUME NEW r \in Requests, SendRequest(r), outcome[r] \in {"none", "waiting"}
      PROVE  [CallsRefined!Next]_outcome
  <2>1. \E o \in {"rejected", "waiting"} : outcome' = [outcome EXCEPT ![r] = o]
    BY <1>2, SendRequestEffect DEF IInv
  <2> QED BY <1>1, <1>2, <2>1
<1>3. CASE \E r \in Requests : Request(r)
  BY <1>1, <1>2, <1>3 DEF Request
<1>4. CASE \E r \in Requests : Timeout(r) \/ Answer(r)
  <2>1. PICK r \in Requests : Timeout(r) \/ Answer(r)
    BY <1>4
  <2>2. outcome[r] = "waiting"
    BY <2>1 DEF IInv, NoCallerForgotten, Timeout, Answer
  <2> QED BY <1>1, <1>2, <2>1, <2>2 DEF Timeout, Answer
<1>5. CASE \E e \in Events : Event(e)
  <2>1. PICK e \in Events : Event(e)
    BY <1>5
  <2>2. \E o \in {"waiting", "resolved", "rejected"} : outcome' = [outcome EXCEPT ![e] = o]
    BY <2>1 DEF Event
  <2> QED BY <1>1, <2>1, <2>2 DEF Event
<1>6. CASE \E s \in Sessions, ok \in BOOLEAN : SendDone(s, ok)
  <2>1. PICK s \in Sessions, ok \in BOOLEAN : SendDone(s, ok)
    BY <1>6
  <2>2. \/ outcome' = outcome
        \/ runner[s] \in Events /\ outcome' = [outcome EXCEPT ![runner[s]] = "resolved"]
    BY <2>1 DEF SendDone
  <2> QED BY <1>1, <2>2 DEF IInv, RunnerWaits
<1>7. ASSUME NEW R \in SUBSET pending, RejectAll(R)
      PROVE  [CallsRefined!Next]_outcome
  <2>1. R \in SUBSET Frames /\ \A c \in R : outcome[c] = "waiting"
    BY DEF IInv, TypeOK, NoCallerForgotten
  <2>2. outcome' = [c \in Frames |-> IF c \in R THEN "rejected" ELSE outcome[c]]
    BY <1>7 DEF RejectAll
  <2> QED BY <2>1, <2>2
<1>8. CASE (\E s \in Sessions : ClearSession(s)) \/ Shutdown
  <2>1. \A s \in Sessions : PendingOf(s) \in SUBSET pending
    BY DEF PendingOf
  <2> QED BY <1>7, <1>8, <2>1 DEF ClearSession, Shutdown
<1>9. CASE UNCHANGED vars
  BY <1>9 DEF vars
<1> QED BY <1>3, <1>4, <1>5, <1>6, <1>8, <1>9 DEF Next

\* The dispatcher implements Calls: every promise it hands out is settled at
\* most once and then never changes.
THEOREM SettledOnce == Spec => CallsSpec
<1>1. Init => CallsRefined!Init
  BY DEF Init, CallsRefined!Init
<1>2. IInv /\ [Next]_vars => [CallsRefined!Next]_outcome
  BY StepRefines
<1> QED BY Invariance, <1>1, <1>2, PTL DEF Spec, CallsSpec, CallsRefined!Spec
=============================================================================
