--------------------------- MODULE DeliveryProofs ---------------------------
(***************************************************************************)
(* Safety of Delivery for any messages, limits and numbers of crashes: its  *)
(* types, that it implements Exchanges, and that SENT means taken.          *)
(***************************************************************************)
EXTENDS Delivery, SequenceTheorems, TLAPS

\* What the sender knows of itself: only a PENDING row is being sent, it has an
\* attempt left, and each post used up an attempt or a crash, or is still awaited.
Sender ==
  /\ crashes <= MaxCrashes
  /\ \A m \in Msgs :
       /\ awaits[m] # 0 => row[m] = "PENDING"
       /\ row[m] = "absent" => tried[m] = 0
       /\ row[m] = "PENDING" => tried[m] < MaxAttempts
       /\ posts[m] <= tried[m] + crashes + (IF awaits[m] = 0 THEN 0 ELSE 1)

\* Frames, rows, posts and handlers come from calls that were made.
Called ==
  /\ \A i \in 1..Len(queue) : call[queue[i].msg] # "none"
  /\ \A m \in Msgs : row[m] # "absent" => call[m] # "none"
  /\ \A m \in Msgs, p \in Posts : net[m][p] # "unused" => call[m] # "none"
  /\ \A m \in Msgs : work[m] # "none" => call[m] # "none"

\* The peer has marked what it began; at most one post of a message is being
\* handled, and a reply means that its handler is done.
Peer ==
  /\ \A m \in Msgs : m \in marked <=> work[m] # "none"
  /\ \A m \in Msgs, p \in Posts :
       /\ net[m][p] = "handling" => work[m] = "begun"
       /\ net[m][p] = "reply" => work[m] = "done"
       /\ net[m][p] = "ok" => work[m] # "none"
  /\ \A m \in Msgs : \A p, q \in Posts :
       net[m][p] = "handling" /\ net[m][q] = "handling" => p = q

IInv == TypeOK /\ Sender /\ Called /\ Peer /\ SentWasTaken

RowStates == {"absent", "PENDING", "SENT", "FAILED"}
-----------------------------------------------------------------------------
\* What is left of a queue after a failed send: frames, all from the queue.
LEMMA AfterFailureType ==
  ASSUME NEW q \in Seq(Items), q # <<>>
  PROVE  /\ AfterFailure(q) \in Seq(Items)
         /\ \A i \in 1..Len(AfterFailure(q)) :
              \E j \in 1..Len(q) : AfterFailure(q)[i].msg = q[j].msg
<1>1. CASE Head(q).tries + 1 >= MaxRetries
  <2>1. AfterFailure(q) = Tail(q)
    BY <1>1 DEF AfterFailure
  <2>2. Tail(q) \in Seq(Items) /\ Len(Tail(q)) = Len(q) - 1
    OBVIOUS
  <2>3. \A i \in 1..Len(Tail(q)) : i + 1 \in 1..Len(q) /\ Tail(q)[i] = q[i + 1]
    BY <2>2
  <2> QED
    BY <2>1, <2>2, <2>3
<1>2. CASE ~(Head(q).tries + 1 >= MaxRetries)
  <2> DEFINE r == [q EXCEPT ![1].tries = @ + 1]
  <2>1. AfterFailure(q) = r
    BY <1>2 DEF AfterFailure
  <2>2. 1 \in 1..Len(q) /\ q \in [1..Len(q) -> Items]
    OBVIOUS
  <2>3. r = [q EXCEPT ![1] = [q[1] EXCEPT !.tries = @ + 1]]
    OBVIOUS
  <2>4. q[1] \in Items
    BY <2>2
  <2>5. [q[1] EXCEPT !.tries = @ + 1] \in Items /\ [q[1] EXCEPT !.tries = @ + 1].msg = q[1].msg
    BY <2>4 DEF Items
  <2>6. r \in [1..Len(q) -> Items]
    BY <2>2, <2>3, <2>5
  <2>7. r \in Seq(Items) /\ Len(r) = Len(q)
    BY <2>3, <2>5, <2>2
  <2>8. \A i \in 1..Len(q) : r[i].msg = q[i].msg
    BY <2>2, <2>3, <2>5
  <2> HIDE DEF r
  <2> QED
    BY <2>1, <2>7, <2>8
<1> QED
  BY <1>1, <1>2

\* One run of processQueue: rows only go from absent to PENDING, for frames of
\* the queue, and the rest of the queue comes from it.
LEMMA ProcessFacts ==
  ASSUME TypeOK, NEW q \in Seq(Items), Process(q)
  PROVE  /\ row' \in [Msgs -> RowStates]
         /\ queue' \in Seq(Items)
         /\ \A m \in Msgs : \/ row'[m] = row[m]
                            \/ /\ row[m] = "absent"
                               /\ row'[m] = "PENDING"
                               /\ \E i \in 1..Len(q) : q[i].msg = m
         /\ \A i \in 1..Len(queue') : \E j \in 1..Len(q) : queue'[i].msg = q[j].msg
<1>1. PICK k \in 0..Len(q) :
        /\ \A i \in 1..k : Accepted(q, i)
        /\ row' = [m \in Msgs |-> IF \E i \in 1..k : q[i].msg = m THEN "PENDING" ELSE row[m]]
        /\ queue' = IF k = Len(q) THEN <<>> ELSE AfterFailure(SubSeq(q, k + 1, Len(q)))
  BY DEF Process
<1>2. row' \in [Msgs -> RowStates]
  BY <1>1 DEF TypeOK, RowStates
<1>3. \A i \in 1..k : i \in 1..Len(q) /\ row[q[i].msg] = "absent"
  BY <1>1 DEF Accepted
<1>4. \A m \in Msgs : \/ row'[m] = row[m]
                      \/ /\ row[m] = "absent"
                         /\ row'[m] = "PENDING"
                         /\ \E i \in 1..Len(q) : q[i].msg = m
  BY <1>1, <1>3
<1>5. CASE k = Len(q)
  BY <1>1, <1>2, <1>4, <1>5
<1>6. CASE k # Len(q)
  <2> DEFINE s == SubSeq(q, k + 1, Len(q))
  <2>0. k + 1 \in 1..Len(q) /\ Len(q) \in 1..Len(q) /\ Len(q) \in Nat
    BY <1>6
  <2>9. \A i \in (k + 1)..Len(q) : q[i] \in Items
    BY <2>0
  <2>1. s \in Seq(Items) /\ Len(s) = Len(q) - k
    BY <2>0, <2>9, SubSeqProperties
  <2>2. \A i \in 1..Len(s) : i + k \in 1..Len(q) /\ s[i] = q[i + k]
    BY <2>0, <2>9, SubSeqProperties
  <2>3. queue' = AfterFailure(s)
    BY <1>1, <1>6
  <2> HIDE DEF s
  <2>4. /\ queue' \in Seq(Items)
        /\ \A i \in 1..Len(queue') : \E j \in 1..Len(s) : queue'[i].msg = s[j].msg
    <3>1. s # <<>>
      BY <2>0, <2>1
    <3> QED
      BY <3>1, <2>1, <2>3, AfterFailureType
  <2>5. \A i \in 1..Len(queue') : \E j \in 1..Len(q) : queue'[i].msg = q[j].msg
    BY <2>2, <2>4
  <2> QED
    BY <1>2, <1>4, <2>4, <2>5
<1> QED
  BY <1>5, <1>6

\* The same for a frame that is queued first.
LEMMA QueueFacts ==
  ASSUME TypeOK, NEW n \in Msgs, QueueAndSend(n)
  PROVE  /\ row' \in [Msgs -> RowStates]
         /\ queue' \in Seq(Items)
         /\ \A m \in Msgs : \/ row'[m] = row[m]
                            \/ /\ row[m] = "absent"
                               /\ row'[m] = "PENDING"
                               /\ m = n \/ \E i \in 1..Len(queue) : queue[i].msg = m
         /\ \A i \in 1..Len(queue') :
              queue'[i].msg = n \/ \E j \in 1..Len(queue) : queue'[i].msg = queue[j].msg
<1> DEFINE x == [msg |-> n, tries |-> 0]
           q == Append(queue, x)
<1>1. x \in Items /\ x.msg = n /\ queue \in Seq(Items)
  BY DEF Items, TypeOK
<1>2. q \in Seq(Items) /\ Len(q) = Len(queue) + 1
  BY <1>1
<1>3. \A i \in 1..Len(q) : q[i].msg = n \/ (i \in 1..Len(queue) /\ q[i] = queue[i])
  BY <1>1, <1>2
<1>4. Process(q)
  BY DEF QueueAndSend
<1> HIDE DEF q, x
<1>5. /\ row' \in [Msgs -> RowStates]
      /\ queue' \in Seq(Items)
  BY <1>2, <1>4, ProcessFacts
<1>6. \A m \in Msgs : \/ row'[m] = row[m]
                      \/ /\ row[m] = "absent"
                         /\ row'[m] = "PENDING"
                         /\ \E i \in 1..Len(q) : q[i].msg = m
  BY <1>2, <1>4, ProcessFacts
<1>7. \A i \in 1..Len(queue') : \E j \in 1..Len(q) : queue'[i].msg = q[j].msg
  BY <1>2, <1>4, ProcessFacts
<1>8. \A i \in 1..Len(queue') :
        queue'[i].msg = n \/ \E j \in 1..Len(queue) : queue'[i].msg = queue[j].msg
  BY <1>3, <1>7
<1>9. \A m \in Msgs : \/ row'[m] = row[m]
                      \/ /\ row[m] = "absent"
                         /\ row'[m] = "PENDING"
                         /\ m = n \/ \E i \in 1..Len(queue) : queue[i].msg = m
  BY <1>3, <1>6
<1> QED
  BY <1>5, <1>8, <1>9
-----------------------------------------------------------------------------
LEMMA InitInv == Init => IInv
<1> SUFFICES ASSUME Init PROVE IInv
  OBVIOUS
<1> USE DeliveryAssumption DEF Init
<1>1. TypeOK
  <2>1. queue \in Seq(Items)
    OBVIOUS
  <2>2. net \in [Msgs -> [Posts -> PostStates]]
    BY DEF PostStates
  <2> QED
    BY <2>1, <2>2 DEF TypeOK
<1>2. Sender /\ Called /\ Peer /\ SentWasTaken
  BY DEF Sender, Called, Peer, SentWasTaken
<1> QED
  BY <1>1, <1>2 DEF IInv

\* A call that registers or queues: the caller's side changes, and rows appear.
LEMMA CallInv == ASSUME IInv, NEW n \in Msgs, Call(n) PROVE IInv'
<1> USE DEF IInv
<1>0. /\ QueueAndSend(n)
      /\ call' = [call EXCEPT ![n] = IF n \in Requests THEN "open" ELSE "closed"]
      /\ UNCHANGED <<resends, tried, route, posts, awaits, net, marked, work, crashes>>
  BY DEF Call, peerVars
<1>1. /\ row' \in [Msgs -> RowStates]
      /\ queue' \in Seq(Items)
      /\ \A m \in Msgs : \/ row'[m] = row[m]
                         \/ /\ row[m] = "absent"
                            /\ row'[m] = "PENDING"
                            /\ m = n \/ \E i \in 1..Len(queue) : queue[i].msg = m
      /\ \A i \in 1..Len(queue') :
           queue'[i].msg = n \/ \E j \in 1..Len(queue) : queue'[i].msg = queue[j].msg
  BY <1>0, QueueFacts
<1>2. TypeOK'
  BY <1>0, <1>1 DEF TypeOK, RowStates
<1>3. call'[n] # "none" /\ \A m \in Msgs : call[m] # "none" => call'[m] # "none"
  BY <1>0 DEF TypeOK
<1>4. Sender'
  BY <1>0, <1>1, DeliveryAssumption DEF Sender, TypeOK
<1>5. Called'
  BY <1>0, <1>1, <1>3 DEF Called
<1>6. Peer' /\ SentWasTaken'
  BY <1>0, <1>1 DEF Peer, SentWasTaken
<1> QED
  BY <1>2, <1>4, <1>5, <1>6

\* A timeout: queued again, or rejected.
LEMMA TimeoutInv == ASSUME IInv, NEW n \in Msgs, Timeout(n) PROVE IInv'
<1> USE DEF IInv
<1>0. UNCHANGED <<tried, route, posts, awaits, net, marked, work, crashes>>
  BY DEF Timeout, peerVars
<1>1. CASE /\ resends' = [resends EXCEPT ![n] = @ + 1]
           /\ call[n] = "open"
           /\ QueueAndSend(n)
           /\ UNCHANGED call
  <2>1. /\ row' \in [Msgs -> RowStates]
        /\ queue' \in Seq(Items)
        /\ \A m \in Msgs : \/ row'[m] = row[m]
                           \/ /\ row[m] = "absent"
                              /\ row'[m] = "PENDING"
                              /\ m = n \/ \E i \in 1..Len(queue) : queue[i].msg = m
        /\ \A i \in 1..Len(queue') :
             queue'[i].msg = n \/ \E j \in 1..Len(queue) : queue'[i].msg = queue[j].msg
    BY <1>1, QueueFacts
  <2>6. resends' \in [Msgs -> Nat] /\ call' = call
    BY <1>1 DEF TypeOK
  <2>2. TypeOK'
    BY <1>0, <2>1, <2>6 DEF TypeOK, RowStates
  <2>3. Sender'
    BY <1>0, <2>1, DeliveryAssumption DEF Sender, TypeOK
  <2>4. Called'
    BY <1>0, <1>1, <2>1 DEF Called
  <2>5. Peer' /\ SentWasTaken'
    BY <1>0, <2>1 DEF Peer, SentWasTaken
  <2> QED
    BY <2>2, <2>3, <2>4, <2>5
<1>2. CASE /\ call' = [call EXCEPT ![n] = "closed"]
           /\ UNCHANGED <<queue, row, resends>>
  <2>1. TypeOK'
    BY <1>0, <1>2 DEF TypeOK
  <2>2. \A m \in Msgs : call[m] # "none" => call'[m] # "none"
    BY <1>2 DEF TypeOK
  <2>3. \A i \in 1..Len(queue) : call'[queue[i].msg] # "none"
    <3>2. \A i \in 1..Len(queue) : queue[i] \in Items
      BY DEF TypeOK
    <3>1. \A i \in 1..Len(queue) : queue[i].msg \in Msgs
      BY <3>2 DEF Items
    <3> QED
      BY <2>2, <3>1 DEF Called
  <2>4. Called'
    BY <1>0, <1>2, <2>2, <2>3 DEF Called
  <2>5. Sender' /\ Peer' /\ SentWasTaken'
    BY <1>0, <1>2 DEF Sender, Peer, SentWasTaken
  <2> QED
    BY <2>1, <2>4, <2>5
<1> QED
  BY <1>1, <1>2 DEF Timeout

\* The outbox's side: a post begins, or ends without a response.
LEMMA SendInv ==
  ASSUME IInv, NEW n \in Msgs, Post(n) \/ PostUnrouted(n) \/ Fail(n)
  PROVE  IInv'
<1> USE DeliveryAssumption DEF IInv
<1>1. CASE Post(n)
  <2>0. /\ row[n] = "PENDING" /\ awaits[n] = 0
        /\ posts' = [posts EXCEPT ![n] = @ + 1]
        /\ awaits' = [awaits EXCEPT ![n] = posts[n] + 1]
        /\ net' = [net EXCEPT ![n][posts[n] + 1] = "out"]
        /\ UNCHANGED <<call, queue, resends, row, tried, route, marked, work, crashes>>
    BY <1>1 DEF Post, callerVars, peerVars
  <2>1. posts[n] \in Nat /\ posts[n] + 1 \in Posts
    <3>1. /\ posts[n] \in Nat
          /\ tried[n] \in Nat
          /\ crashes \in Nat
          /\ tried[n] < MaxAttempts
          /\ posts[n] <= tried[n] + crashes
          /\ crashes <= MaxCrashes
      BY <2>0 DEF TypeOK, Sender, Posts
    <3> QED
      BY <3>1 DEF Posts
  <2>2. TypeOK'
    <3>1. net' \in [Msgs -> [Posts -> PostStates]]
      BY <2>0, <2>1 DEF TypeOK, PostStates
    <3> QED
      BY <2>0, <2>1, <3>1 DEF TypeOK
  <2>3. Sender'
    BY <2>0, <2>1 DEF Sender, TypeOK, Posts
  <2>4. \A m \in Msgs, p \in Posts : net'[m][p] = net[m][p] \/ (m = n /\ net'[m][p] = "out")
    BY <2>0, <2>1 DEF TypeOK
  <2>5. Called'
    BY <2>0, <2>4 DEF Called
  <2>6. Peer' /\ SentWasTaken'
    BY <2>0, <2>4 DEF Peer, SentWasTaken
  <2> QED
    BY <2>2, <2>3, <2>5, <2>6
<1>2. CASE PostUnrouted(n) \/ Fail(n)
  <2>0. /\ row[n] = "PENDING"
        /\ \E retryable \in BOOLEAN : RowAfterFailure(n, retryable)
        /\ UNCHANGED <<call, queue, resends, route, posts, net, marked, work, crashes>>
        /\ \/ awaits[n] = 0 /\ UNCHANGED awaits
           \/ awaits[n] # 0 /\ awaits' = [awaits EXCEPT ![n] = 0]
    BY <1>2 DEF PostUnrouted, Fail, Sender, callerVars, peerVars
  <2>1. /\ tried' = [tried EXCEPT ![n] = @ + 1]
        /\ \/ row' = [row EXCEPT ![n] = "FAILED"]
           \/ tried[n] + 1 < MaxAttempts /\ row' = [row EXCEPT ![n] = "PENDING"]
    BY <2>0 DEF RowAfterFailure
  <2>2. tried[n] \in Nat /\ tried[n] < MaxAttempts
    BY <2>0 DEF TypeOK, Sender
  <2>8. /\ awaits' \in [Msgs -> Posts \cup {0}]
        /\ awaits'[n] = 0
        /\ \A m \in Msgs : m # n => awaits'[m] = awaits[m]
    BY <2>0 DEF TypeOK
  <2>9. tried' \in [Msgs -> 0..MaxAttempts]
    BY <2>1, <2>2 DEF TypeOK
  <2>10. row' \in [Msgs -> RowStates]
    BY <2>1 DEF TypeOK, RowStates
  <2>3. TypeOK'
    BY <2>0, <2>8, <2>9, <2>10 DEF TypeOK, RowStates
  <2>4. Sender'
    <3>1. posts[n] \in Nat /\ crashes \in Nat
      BY DEF TypeOK, Posts
    <3>2. posts[n] <= tried[n] + 1 + crashes
      <4>1. posts[n] <= tried[n] + crashes + (IF awaits[n] = 0 THEN 0 ELSE 1)
        BY DEF Sender
      <4> QED
        BY <4>1, <3>1, <2>2
    <3>3. \A m \in Msgs : m # n => row'[m] = row[m] /\ tried'[m] = tried[m]
      BY <2>1 DEF TypeOK
    <3>4. /\ tried'[n] = tried[n] + 1
          /\ row'[n] # "absent"
          /\ row'[n] = "PENDING" => tried'[n] < MaxAttempts
      BY <2>1 DEF TypeOK
    <3> QED
      BY <2>0, <2>2, <2>8, <3>1, <3>2, <3>3, <3>4 DEF Sender
  <2>5. Called'
    BY <2>0, <2>1 DEF Called, TypeOK
  <2>6. Peer'
    BY <2>0 DEF Peer
  <2>7. SentWasTaken'
    BY <2>0, <2>1 DEF SentWasTaken, TypeOK
  <2> QED
    BY <2>3, <2>4, <2>5, <2>6, <2>7
<1> QED
  BY <1>1, <1>2

\* The peer's side: a post arrives, or its handler finishes.
LEMMA PeerInv ==
  ASSUME IInv, NEW n \in Msgs, NEW p \in Posts, Arrive(n, p) \/ Handle(n, p)
  PROVE  IInv'
<1> USE DEF IInv
<1>1. CASE Arrive(n, p)
  <2>0. /\ net[n][p] = "out"
        /\ marked' = marked \cup {n}
        /\ UNCHANGED <<call, queue, resends, row, tried, route, posts, awaits, crashes>>
        /\ \E w \in {"handling", "ok"} : net' = [net EXCEPT ![n][p] = w]
    BY <1>1 DEF Arrive, IsDuplicate, MarkProcessed, peerVars, callerVars, outboxVars
  <2>1. Sender' /\ row' = row /\ call' = call
    BY <2>0 DEF Sender
  <2>2. net' \in [Msgs -> [Posts -> PostStates]]
    BY <2>0 DEF TypeOK, PostStates
  <2>3. \A m \in Msgs, q \in Posts : net'[m][q] = net[m][q] \/ (m = n /\ q = p)
    BY <2>0 DEF TypeOK
  <2>4. Called'
    <3>1. \A m \in Msgs : m # n => work'[m] = work[m]
      BY <1>1 DEF Arrive, IsDuplicate, MarkProcessed, peerVars, TypeOK
    <3>2. call[n] # "none"
      BY <2>0 DEF Called
    <3> QED
      BY <2>0, <2>3, <3>1, <3>2 DEF Called
  <2>5. CASE n \in marked
    <3>1. net'[n][p] = "ok" /\ work' = work /\ marked' = marked
      BY <1>1, <2>5 DEF Arrive, IsDuplicate, MarkProcessed, peerVars, TypeOK
    <3>2. TypeOK' /\ SentWasTaken'
      BY <2>0, <2>2, <3>1 DEF TypeOK, SentWasTaken
    <3>3. Peer'
      BY <2>3, <2>5, <3>1 DEF Peer
    <3> QED
      BY <2>1, <2>4, <3>2, <3>3
  <2>6. CASE n \notin marked
    <3>1. \/ net'[n][p] = "handling" /\ work' = [work EXCEPT ![n] = "begun"]
          \/ net'[n][p] = "ok" /\ work' = [work EXCEPT ![n] = "done"]
      BY <1>1, <2>6 DEF Arrive, IsDuplicate, MarkProcessed, peerVars, TypeOK
    <3>2. /\ work' \in [Msgs -> {"none", "begun", "done", "dropped"}]
          /\ work'[n] # "none"
          /\ \A m \in Msgs : m # n => work'[m] = work[m]
      BY <3>1 DEF TypeOK
    <3>3. TypeOK' /\ SentWasTaken'
      BY <2>0, <2>2, <3>2 DEF TypeOK, SentWasTaken
    <3>4. \A q \in Posts : net[n][q] \notin {"handling", "reply", "ok"}
      BY <2>6 DEF Peer
    <3>5. net'[n][p] = "handling" => work'[n] = "begun"
      BY <3>1 DEF TypeOK
    <3>6. net'[n][p] # "reply"
      BY <3>1
    <3>7. Peer'
      BY <2>0, <2>3, <3>2, <3>4, <3>5, <3>6 DEF Peer
    <3> QED
      BY <2>1, <2>4, <3>3, <3>7
  <2> QED
    BY <2>5, <2>6
<1>2. CASE Handle(n, p)
  <2>0. /\ net[n][p] = "handling"
        /\ net' = [net EXCEPT ![n][p] = "reply"]
        /\ work' = [work EXCEPT ![n] = "done"]
        /\ UNCHANGED <<call, queue, resends, row, tried, route, posts, awaits, marked, crashes>>
    BY <1>2 DEF Handle, callerVars, outboxVars
  <2>1. TypeOK' /\ SentWasTaken'
    <3>1. net' \in [Msgs -> [Posts -> PostStates]]
      BY <2>0 DEF TypeOK, PostStates
    <3> QED
      BY <2>0, <3>1 DEF TypeOK, SentWasTaken
  <2>2. \A m \in Msgs, q \in Posts :
          net'[m][q] = IF m = n /\ q = p THEN "reply" ELSE net[m][q]
    BY <2>0 DEF TypeOK
  <2>3. \A m \in Msgs : work'[m] = IF m = n THEN "done" ELSE work[m]
    BY <2>0 DEF TypeOK
  <2>4. Called' /\ Sender'
    BY <2>0, <2>2 DEF Called, Sender
  <2>5. \A q \in Posts : q # p => net[n][q] # "handling"
    BY <2>0 DEF Peer
  <2>6. work[n] = "begun"
    BY <2>0 DEF Peer
  <2>7. Peer'
    BY <2>0, <2>2, <2>3, <2>5, <2>6 DEF Peer
  <2> QED
    BY <2>1, <2>4, <2>7
<1> QED
  BY <1>1, <1>2

\* The response of the awaited post comes back.
LEMMA ReplyInv == ASSUME IInv, NEW n \in Msgs, Reply(n) PROVE IInv'
<1> USE DEF IInv
<1>0. /\ awaits[n] # 0
      /\ net[n][awaits[n]] \in {"reply", "ok"}
      /\ \E c \in {"answered", call[n]} : call' = [call EXCEPT ![n] = c]
      /\ row' = [row EXCEPT ![n] = "SENT"]
      /\ tried' = [tried EXCEPT ![n] = @ + 1]
      /\ awaits' = [awaits EXCEPT ![n] = 0]
      /\ UNCHANGED <<queue, resends, route, posts, net, marked, work, crashes>>
  BY DEF Reply, peerVars
<1>1. tried[n] \in Nat /\ tried[n] < MaxAttempts
  BY <1>0 DEF TypeOK, Sender
<1>2. TypeOK'
  <2>1. tried' \in [Msgs -> 0..MaxAttempts]
    BY <1>0, <1>1, DeliveryAssumption DEF TypeOK
  <2>2. awaits' \in [Msgs -> Posts \cup {0}]
    BY <1>0 DEF TypeOK
  <2>3. call' \in [Msgs -> {"none", "open", "answered", "closed"}]
    BY <1>0 DEF TypeOK
  <2>4. row' \in [Msgs -> RowStates]
    BY <1>0 DEF TypeOK, RowStates
  <2> QED
    BY <1>0, <2>1, <2>2, <2>3, <2>4 DEF TypeOK, RowStates
<1>3. Sender'
  <2>1. posts[n] \in Nat /\ crashes \in Nat
    BY DEF TypeOK, Posts
  <2>2. posts[n] <= tried[n] + 1 + crashes
    <3>1. posts[n] <= tried[n] + crashes + (IF awaits[n] = 0 THEN 0 ELSE 1)
      BY DEF Sender
    <3> QED
      BY <3>1, <2>1, <1>1
  <2>3. \A m \in Msgs : m # n => row'[m] = row[m] /\ tried'[m] = tried[m] /\ awaits'[m] = awaits[m]
    BY <1>0 DEF TypeOK
  <2>4. row'[n] = "SENT" /\ awaits'[n] = 0 /\ tried'[n] = tried[n] + 1
    BY <1>0 DEF TypeOK
  <2> QED
    BY <1>0, <1>1, <2>1, <2>2, <2>3, <2>4 DEF Sender
<1>4. Called'
  <2>1. \A m \in Msgs : call[m] # "none" => call'[m] # "none"
    BY <1>0 DEF TypeOK
  <2>2. call'[n] # "none"
    BY <1>0, <2>1 DEF Called, Sender
  <2>3. \A i \in 1..Len(queue) : queue[i] \in Items
    BY DEF TypeOK
  <2>4. \A i \in 1..Len(queue) : queue[i].msg \in Msgs
    BY <2>3 DEF Items
  <2>5. \A m \in Msgs : m # n => row'[m] = row[m]
    BY <1>0 DEF TypeOK
  <2> QED
    BY <1>0, <2>1, <2>2, <2>4, <2>5 DEF Called
<1>5. Peer'
  BY <1>0 DEF Peer
<1>6. SentWasTaken'
  <2>1. awaits[n] \in Posts
    BY <1>0 DEF TypeOK
  <2>2. work[n] # "none"
    BY <1>0, <2>1 DEF Peer
  <2> QED
    BY <1>0, <2>2 DEF SentWasTaken, TypeOK
<1> QED
  BY <1>2, <1>3, <1>4, <1>5, <1>6

\* The death of the peer, with a message marked whose handler has not begun.
LEMMA PeerDiesInv ==
  ASSUME IInv, NEW unbegun \in SUBSET Msgs, PeerDies(unbegun),
         \A m \in unbegun : m \notin marked /\ call[m] # "none"
  PROVE  IInv'
<1> USE DeliveryAssumption DEF IInv
<1>0. /\ crashes < MaxCrashes /\ crashes' = crashes + 1
      /\ net' = [m \in Msgs |-> [p \in Posts |->
                   IF net[m][p] \in {"out", "handling"} THEN "gone" ELSE net[m][p]]]
      /\ marked' = marked \cup unbegun
      /\ work' = [m \in Msgs |-> IF work[m] = "begun" \/ m \in unbegun
                                THEN "dropped" ELSE work[m]]
      /\ UNCHANGED <<call, queue, resends, row, tried, route, posts, awaits>>
  BY DEF PeerDies, callerVars, outboxVars
<1>1. TypeOK'
  <2>1. net' \in [Msgs -> [Posts -> PostStates]]
    BY <1>0 DEF TypeOK, PostStates
  <2>2. work' \in [Msgs -> {"none", "begun", "done", "dropped"}]
    BY <1>0 DEF TypeOK
  <2>3. marked' \in SUBSET Msgs
    BY <1>0 DEF TypeOK
  <2> QED
    BY <1>0, <2>1, <2>2, <2>3 DEF TypeOK
<1>2. \A m \in Msgs, p \in Posts :
        net'[m][p] = IF net[m][p] \in {"out", "handling"} THEN "gone" ELSE net[m][p]
  BY <1>0
<1>3. \A m \in Msgs : work'[m] = IF work[m] = "begun" \/ m \in unbegun
                                 THEN "dropped" ELSE work[m]
  BY <1>0
<1>4. Sender'
  <2>1. crashes \in Nat /\ \A m \in Msgs : posts[m] \in Nat /\ tried[m] \in Nat
    BY DEF TypeOK, Posts
  <2>2. \A m \in Msgs : posts[m] <= tried[m] + (crashes + 1) + (IF awaits[m] = 0 THEN 0 ELSE 1)
    <3> TAKE m \in Msgs
    <3>1. posts[m] <= tried[m] + crashes + (IF awaits[m] = 0 THEN 0 ELSE 1)
      BY DEF Sender
    <3> QED
      BY <2>1, <3>1
  <2>3. crashes + 1 <= MaxCrashes
    BY <1>0, <2>1
  <2> QED
    BY <1>0, <2>2, <2>3 DEF Sender
<1>5. Called'
  BY <1>0, <1>2, <1>3 DEF Called
<1>6. SentWasTaken'
  BY <1>0, <1>3 DEF SentWasTaken
<1>7. Peer'
  <2>1. \A m \in Msgs : m \in marked' <=> work'[m] # "none"
    BY <1>0, <1>3 DEF Peer
  <2>2. \A m \in unbegun, p \in Posts : net[m][p] \notin {"handling", "reply", "ok"}
    BY DEF Peer
  <2> QED
    BY <1>2, <1>3, <2>1, <2>2 DEF Peer
<1> QED
  BY <1>1, <1>4, <1>5, <1>6, <1>7

\* Deaths and restarts.
LEMMA RestartInv ==
  ASSUME IInv,
         \/ CrashPeer
         \/ \E m \in Msgs, p \in Posts : DieMarked(m, p)
         \/ CrashSender
         \/ Resume
  PROVE  IInv'
<1> USE DeliveryAssumption DEF IInv
<1>1. CASE CrashPeer
  BY <1>1, PeerDiesInv DEF CrashPeer
<1>2. CASE CrashSender
  <2>0. /\ crashes < MaxCrashes /\ crashes' = crashes + 1
        /\ call' = [m \in Msgs |-> IF call[m] = "open" THEN "closed" ELSE call[m]]
        /\ queue' = <<>>
        /\ awaits' = [m \in Msgs |-> 0]
        /\ route' = "none"
        /\ UNCHANGED <<resends, row, tried, posts, net, marked, work>>
    BY <1>2 DEF CrashSender, peerVars
  <2>1. TypeOK'
    <3>1. queue' \in Seq(Items)
      BY <2>0
    <3>2. call' \in [Msgs -> {"none", "open", "answered", "closed"}]
      BY <2>0 DEF TypeOK
    <3> QED
      BY <2>0, <3>1, <3>2 DEF TypeOK
  <2>2. Sender'
    <3>1. crashes \in Nat /\ \A m \in Msgs : posts[m] \in Nat /\ tried[m] \in Nat
      BY DEF TypeOK, Posts
    <3>2. \A m \in Msgs : posts[m] <= tried[m] + (crashes + 1) + 0
      <4> TAKE m \in Msgs
      <4>1. posts[m] <= tried[m] + crashes + (IF awaits[m] = 0 THEN 0 ELSE 1)
        BY DEF Sender
      <4> QED
        BY <3>1, <4>1
    <3>3. crashes + 1 <= MaxCrashes
      BY <2>0, <3>1
    <3>4. \A m \in Msgs : (IF awaits'[m] = 0 THEN 0 ELSE 1) = 0 /\ awaits'[m] = 0
      BY <2>0
    <3> QED
      BY <2>0, <3>2, <3>3, <3>4 DEF Sender
  <2>3. Called'
    BY <2>0 DEF Called
  <2>4. Peer' /\ SentWasTaken'
    BY <2>0 DEF Peer, SentWasTaken
  <2> QED
    BY <2>1, <2>2, <2>3, <2>4
<1>3. CASE Resume
  <2>0. /\ route' = "resumed"
        /\ UNCHANGED <<call, queue, resends, row, tried, posts, awaits, net, marked, work, crashes>>
    BY <1>3 DEF Resume, callerVars, peerVars
  <2>1. TypeOK'
    BY <2>0 DEF TypeOK
  <2>2. Sender' /\ Called' /\ Peer' /\ SentWasTaken'
    BY <2>0 DEF Sender, Called, Peer, SentWasTaken
  <2> QED
    BY <2>1, <2>2
<1>4. ASSUME NEW m \in Msgs, NEW p \in Posts, DieMarked(m, p) PROVE IInv'
  <2>1. call[m] # "none" /\ m \notin marked /\ PeerDies({m})
    BY <1>4 DEF DieMarked, Called
  <2> QED
    BY <2>1, PeerDiesInv
<1> QED
  BY <1>1, <1>2, <1>3, <1>4

LEMMA StepInv == IInv /\ [Next]_vars => IInv'
<1> SUFFICES ASSUME IInv, [Next]_vars PROVE IInv'
  OBVIOUS
<1>1. CASE UNCHANGED vars
  <2>1. UNCHANGED <<call, queue, resends, row, tried, route, posts, awaits, net, marked, work, crashes>>
    BY <1>1 DEF vars, callerVars, outboxVars, peerVars
  <2>2. TypeOK'
    BY <2>1 DEF TypeOK, IInv
  <2>3. Sender' /\ Called' /\ Peer' /\ SentWasTaken'
    BY <2>1 DEF Sender, Called, Peer, SentWasTaken, IInv
  <2> QED
    BY <2>2, <2>3 DEF IInv
<1>2. ASSUME NEW m \in Msgs, Call(m) PROVE IInv'
  BY <1>2, CallInv
<1>3. ASSUME NEW m \in Msgs, Timeout(m) PROVE IInv'
  BY <1>3, TimeoutInv
<1>4. ASSUME NEW m \in Msgs, Post(m) \/ PostUnrouted(m) \/ Fail(m) PROVE IInv'
  BY <1>4, SendInv
<1>5. ASSUME NEW m \in Msgs, Reply(m) PROVE IInv'
  BY <1>5, ReplyInv
<1>6. ASSUME NEW m \in Msgs, NEW p \in Posts, Arrive(m, p) \/ Handle(m, p) PROVE IInv'
  BY <1>6, PeerInv
<1>7. CASE \/ CrashPeer
           \/ \E m \in Msgs, p \in Posts : DieMarked(m, p)
           \/ CrashSender
           \/ Resume
  BY <1>7, RestartInv
<1> QED
  BY <1>1, <1>2, <1>3, <1>4, <1>5, <1>6, <1>7 DEF Next

THEOREM Invariance == Spec => []IInv
<1>1. Init => IInv
  BY InitInv
<1>2. IInv /\ [Next]_vars => IInv'
  BY StepInv
<1> QED
  BY <1>1, <1>2, PTL DEF Spec

\* The composition keeps its types: in particular no send ever goes past the
\* attempts and the crashes that its posts are numbered by.
THEOREM TypeCorrect == Spec => []TypeOK
<1>1. IInv => TypeOK
  BY DEF IInv
<1> QED
  BY <1>1, Invariance, PTL

\* A row is SENT only of a message the peer took: its handler was started, or the
\* process died between the mark and the start.
THEOREM SentTaken == Spec => []SentWasTaken
<1>1. IInv => SentWasTaken
  BY DEF IInv
<1> QED
  BY <1>1, Invariance, PTL
-----------------------------------------------------------------------------
\* Every step of the composition is a step of Exchanges, or changes neither side
\* of any exchange.
LEMMA StepExchanges == IInv /\ IInv' /\ [Next]_vars => [E!Next]_<<call, work>>
<1> SUFFICES ASSUME IInv, IInv', [Next]_vars PROVE [E!Next]_<<call, work>>
  OBVIOUS
<1> USE DEF IInv
<1>1. CASE UNCHANGED vars
  BY <1>1 DEF vars, callerVars, peerVars
<1>2. ASSUME NEW m \in Msgs, Call(m) PROVE E!Next
  <2>1. E!Open(m)
    BY <1>2 DEF Call, E!Open, peerVars
  <2> QED
    BY <2>1 DEF E!Next
<1>3. ASSUME NEW m \in Msgs, Timeout(m) PROVE [E!Next]_<<call, work>>
  <2>1. CASE UNCHANGED call
    BY <1>3, <2>1 DEF Timeout, peerVars
  <2>2. CASE call' = [call EXCEPT ![m] = "closed"]
    <3>1. E!Close({m})
      BY <1>3, <2>2 DEF Timeout, peerVars, E!Close, TypeOK
    <3> QED
      BY <3>1 DEF E!Next
  <2> QED
    BY <1>3, <2>1, <2>2 DEF Timeout
<1>4. ASSUME NEW m \in Msgs, Post(m) \/ PostUnrouted(m) \/ Fail(m)
      PROVE UNCHANGED <<call, work>>
  BY <1>4 DEF Post, PostUnrouted, Fail, callerVars, peerVars
<1>5. ASSUME NEW m \in Msgs, Reply(m) PROVE [E!Next]_<<call, work>>
  <2>1. UNCHANGED work
    BY <1>5 DEF Reply, peerVars
  <2>2. CASE net[m][awaits[m]] = "reply" /\ call[m] = "open"
    <3>1. awaits[m] \in Posts
      BY <1>5 DEF Reply, TypeOK
    <3>2. work[m] = "done"
      BY <2>2, <3>1 DEF Peer
    <3>3. call' = [call EXCEPT ![m] = "answered"]
      BY <1>5, <2>2 DEF Reply
    <3>4. E!Answer(m)
      BY <2>1, <2>2, <3>2, <3>3 DEF E!Answer
    <3> QED
      BY <3>4 DEF E!Next
  <2>3. CASE ~(net[m][awaits[m]] = "reply" /\ call[m] = "open")
    <3>1. call' = [call EXCEPT ![m] = call[m]]
      BY <1>5, <2>3 DEF Reply
    <3>2. UNCHANGED call
      BY <3>1 DEF TypeOK
    <3> QED
      BY <2>1, <3>2
  <2> QED
    BY <2>2, <2>3
<1>6. ASSUME NEW m \in Msgs, NEW p \in Posts, Arrive(m, p) PROVE [E!Next]_<<call, work>>
  <2>1. CASE m \in marked
    BY <1>6, <2>1 DEF Arrive, IsDuplicate, MarkProcessed, peerVars, callerVars
  <2>2. CASE m \notin marked
    <3>1. call[m] # "none" /\ work[m] = "none"
      BY <1>6, <2>2 DEF Arrive, IsDuplicate, MarkProcessed, peerVars, Called, Peer
    <3>2. E!Begin(m)
      BY <1>6, <2>2, <3>1 DEF Arrive, IsDuplicate, MarkProcessed, peerVars, callerVars, E!Begin
    <3> QED
      BY <3>2 DEF E!Next
  <2> QED
    BY <2>1, <2>2
<1>7. ASSUME NEW m \in Msgs, NEW p \in Posts, Handle(m, p) PROVE E!Next
  <2>1. E!Finish(m)
    BY <1>7 DEF Handle, Peer, callerVars, E!Finish
  <2> QED
    BY <2>1 DEF E!Next
<1>8. ASSUME NEW unbegun \in SUBSET Msgs, PeerDies(unbegun),
             \A m \in unbegun : m \notin marked /\ call[m] # "none"
      PROVE  E!Next
  <2> DEFINE S == {m \in Msgs : work[m] = "begun" \/ m \in unbegun}
  <2>1. \A m \in Msgs : work[m] # "none" => call[m] # "none"
    BY DEF Called
  <2>2. \A m \in S : call[m] # "none" /\ work[m] \in {"none", "begun"}
    BY <1>8, <2>1 DEF Peer
  <2>3. work' = [m \in Msgs |-> IF m \in S THEN "dropped" ELSE work[m]] /\ UNCHANGED call
    BY <1>8 DEF PeerDies, callerVars
  <2>4. S \in SUBSET Msgs
    OBVIOUS
  <2> HIDE DEF S
  <2>5. E!Drop(S)
    BY <2>2, <2>3 DEF E!Drop
  <2> QED
    BY <2>4, <2>5 DEF E!Next
<1>9. CASE CrashPeer
  BY <1>8, <1>9 DEF CrashPeer
<1>10. ASSUME NEW m \in Msgs, NEW p \in Posts, DieMarked(m, p) PROVE E!Next
  <2>1. call[m] # "none" /\ m \notin marked /\ PeerDies({m})
    BY <1>10 DEF DieMarked, Called
  <2> QED
    BY <1>8, <2>1
<1>11. CASE CrashSender
  <2> DEFINE S == {m \in Msgs : call[m] = "open"}
  <2>1. /\ \A m \in S : call[m] = "open"
        /\ call' = [m \in Msgs |-> IF m \in S THEN "closed" ELSE call[m]]
        /\ UNCHANGED work
    BY <1>11 DEF CrashSender, peerVars
  <2>2. S \in SUBSET Msgs
    OBVIOUS
  <2> HIDE DEF S
  <2>3. E!Close(S)
    BY <2>1 DEF E!Close
  <2> QED
    BY <2>2, <2>3 DEF E!Next
<1>12. CASE Resume
  BY <1>12 DEF Resume, callerVars, peerVars
<1> QED
  BY <1>1, <1>2, <1>3, <1>4, <1>5, <1>6, <1>7, <1>11, <1>12, <1>9, <1>10 DEF Next

\* The composition implements Exchanges: no message is handled twice, and no
\* caller is answered twice, late, or before its handler finished.
THEOREM ExchangesImplemented == Spec => ExchangesSpec
<1>1. Init => E!Init
  BY DEF Init, E!Init
<1>2. IInv /\ IInv' /\ [Next]_vars => [E!Next]_<<call, work>>
  BY StepExchanges
<1> QED
  BY <1>1, <1>2, Invariance, PTL DEF Spec, ExchangesSpec, E!Spec
=============================================================================
