------------------------------ MODULE Delivery ------------------------------
(***************************************************************************)
(* A message from the caller to the handler and back, over one session of   *)
(* two agents with persistence: request() and event() put a frame in the    *)
(* dispatcher's queue, the queue is emptied into the outbox, the outbox     *)
(* posts the frame, the peer deduplicates and handles it, and the answer    *)
(* comes back in the response of the post.  Either process may die.         *)
(*                                                                          *)
(* The parts have detailed models of their own (Dispatcher, Outbox); here   *)
(* they are joined, without the dispatcher's limits, the outbox's           *)
(* overlapping invocations (at most one of them sends a message at a time,  *)
(* OutboxProofs!ExclusiveClaims) and its delays.                            *)
(***************************************************************************)
EXTENDS Integers, Sequences, FiniteSets

CONSTANTS
  Msgs,         \* message identifiers
  Requests,     \* the messages that are REQUESTs; the others are EVENTs
  MaxInFlight,  \* OutboxConfig.maxInFlight
  MaxAttempts,  \* OutboxConfig.maxAttempts
  MaxRetries,   \* DispatcherConfig.maxRetries
  MaxResends,   \* bound: retries of a request that timed out
  MaxCrashes    \* bound: process deaths on both sides together

ASSUME DeliveryAssumption ==
  /\ Requests \subseteq Msgs
  /\ MaxInFlight \in Nat \ {0}
  /\ MaxAttempts \in Nat \ {0}
  /\ MaxRetries \in Nat \ {0}
  /\ MaxResends \in Nat
  /\ MaxCrashes \in Nat

VARIABLES
  call,     \* the promise of request(): "none", "open", "answered", "closed"
  queue,    \* dispatcher.queues of the session: frames with their attempts
  resends,  \* retries of each request so far
  row,      \* outbox_messages.status
  tried,    \* outbox_messages.attempts
  route,    \* the session: "live", "none" after a restart, "resumed"
  posts,    \* posts made of each message so far
  awaits,   \* the post of each message the outbox is waiting for; 0 for none
  net,      \* what became of each post
  marked,   \* the peer's dedupe_cache
  work,     \* the peer's handler of each message: "none", "begun", "done", or
            \* "dropped": its process died after the mark and before the end
  crashes   \* process deaths so far

callerVars == <<call, queue, resends>>
outboxVars == <<row, tried, route, posts, awaits>>
peerVars   == <<marked, work>>
vars       == <<callerVars, outboxVars, net, peerVars, crashes>>

\* A completed post ends an attempt, or its process dies: there are no more.
Posts == 1..(MaxAttempts + MaxCrashes)

\* "reply": answered with the response frame; "ok": answered without one;
\* "gone": the connection broke first.
PostStates == {"unused", "out", "handling", "reply", "ok", "gone"}
Items == [msg : Msgs, tries : Nat]

TypeOK ==
  /\ call \in [Msgs -> {"none", "open", "answered", "closed"}]
  /\ queue \in Seq(Items)
  /\ resends \in [Msgs -> Nat]
  /\ row \in [Msgs -> {"absent", "PENDING", "SENT", "FAILED"}]
  /\ tried \in [Msgs -> 0..MaxAttempts]
  /\ route \in {"live", "none", "resumed"}
  /\ posts \in [Msgs -> Posts \cup {0}]
  /\ awaits \in [Msgs -> Posts \cup {0}]
  /\ net \in [Msgs -> [Posts -> PostStates]]
  /\ marked \in SUBSET Msgs
  /\ work \in [Msgs -> {"none", "begun", "done", "dropped"}]
  /\ crashes \in Nat
-----------------------------------------------------------------------------
Init ==
  /\ call = [m \in Msgs |-> "none"]
  /\ queue = <<>>
  /\ resends = [m \in Msgs |-> 0]
  /\ row = [m \in Msgs |-> "absent"]
  /\ tried = [m \in Msgs |-> 0]
  /\ route = "live"
  /\ posts = [m \in Msgs |-> 0]
  /\ awaits = [m \in Msgs |-> 0]
  /\ net = [m \in Msgs |-> [p \in Posts |-> "unused"]]
  /\ marked = {}
  /\ work = [m \in Msgs |-> "none"]
  /\ crashes = 0

\* getInFlightCount: the rows that are PENDING or SENT.
InFlight == {m \in Msgs : row[m] \in {"PENDING", "SENT"}}

\* enqueue accepts the i-th frame of the queue after those before it: the limit
\* is not reached (else it returns QUEUE_FULL), and the row is new (else the
\* INSERT throws on its primary key).
Accepted(q, i) ==
  /\ Cardinality(InFlight) + i <= MaxInFlight
  /\ row[q[i].msg] = "absent"
  /\ \A j \in 1..(i - 1) : q[j].msg # q[i].msg

\* processQueue after a send that failed: the head counts an attempt and stays,
\* or is dropped at the limit; nothing behind it is tried.
AfterFailure(q) ==
  IF Head(q).tries + 1 >= MaxRetries THEN Tail(q)
  ELSE [q EXCEPT ![1].tries = @ + 1]

\* processQueue.  Its sendFn is enqueue, which is synchronous, so it runs to its
\* end before the next timer or answer: k frames become rows, the next one fails.
Process(q) ==
  \E k \in 0..Len(q) :
    /\ \A i \in 1..k : Accepted(q, i)
    /\ k < Len(q) => ~Accepted(q, k + 1)
    /\ row' = [m \in Msgs |-> IF \E i \in 1..k : q[i].msg = m THEN "PENDING" ELSE row[m]]
    /\ queue' = IF k = Len(q) THEN <<>> ELSE AfterFailure(SubSeq(q, k + 1, Len(q)))

QueueAndSend(m) == Process(Append(queue, [msg |-> m, tries |-> 0]))

\* request() registers a caller; event() returns as soon as its frame was queued.
\* Both throw after a restart: the agent has no ACTIVE session of that id, not
\* even when it was resumed (AgentSessions!Resume).
Call(m) ==
  /\ call[m] = "none"
  /\ route = "live"
  /\ call' = [call EXCEPT ![m] = IF m \in Requests THEN "open" ELSE "closed"]
  /\ QueueAndSend(m)
  /\ UNCHANGED <<resends, tried, route, posts, awaits, net, peerVars, crashes>>

\* The timeout of a pending request: an entry has attempts = 1 each time it is
\* registered, so it is retried unless MaxRetries is 1.
Timeout(m) ==
  /\ call[m] = "open"
  /\ IF 1 < MaxRetries
     THEN /\ resends[m] < MaxResends
          /\ resends' = [resends EXCEPT ![m] = @ + 1]
          /\ QueueAndSend(m)
          /\ UNCHANGED call
     ELSE /\ call' = [call EXCEPT ![m] = "closed"]
          /\ UNCHANGED <<queue, row, resends>>
  /\ UNCHANGED <<tried, route, posts, awaits, net, peerVars, crashes>>
-----------------------------------------------------------------------------
\* processMessage posts the frame of a row.
Post(m) ==
  /\ row[m] = "PENDING"
  /\ awaits[m] = 0
  /\ route # "none"
  /\ posts' = [posts EXCEPT ![m] = @ + 1]
  /\ awaits' = [awaits EXCEPT ![m] = posts[m] + 1]
  /\ net' = [net EXCEPT ![m][posts[m] + 1] = "out"]
  /\ UNCHANGED <<callerVars, row, tried, route, peerVars, crashes>>

\* The end of a failed send: retried, or given up (not retryable, or the last attempt).
RowAfterFailure(m, retryable) ==
  /\ row' = [row EXCEPT ![m] = IF retryable /\ tried[m] + 1 < MaxAttempts
                               THEN "PENDING" ELSE "FAILED"]
  /\ tried' = [tried EXCEPT ![m] = @ + 1]

\* Faulty variant of PostUnrouted: the message is left for later.
PostUnroutedSkips(m) ==
  /\ row[m] = "PENDING"
  /\ awaits[m] = 0
  /\ route = "none"
  /\ UNCHANGED vars

\* sendFrameDirect without a connection; the error has no pattern: retryable.
PostUnrouted(m) ==
  /\ row[m] = "PENDING"
  /\ awaits[m] = 0
  /\ route = "none"
  /\ RowAfterFailure(m, TRUE)
  /\ UNCHANGED <<callerVars, route, posts, awaits, net, peerVars, crashes>>

\* Faulty variant of Fail: the error of the post is swallowed.
FailSwallowed(m) ==
  /\ awaits[m] # 0
  /\ row' = [row EXCEPT ![m] = "SENT"]
  /\ tried' = [tried EXCEPT ![m] = @ + 1]
  /\ awaits' = [awaits EXCEPT ![m] = 0]
  /\ UNCHANGED <<callerVars, route, posts, net, peerVars, crashes>>

\* The post ends in an error or in the client's timeout, whatever the peer does.
Fail(m) ==
  /\ awaits[m] # 0
  /\ \E retryable \in BOOLEAN : RowAfterFailure(m, retryable)
  /\ awaits' = [awaits EXCEPT ![m] = 0]
  /\ UNCHANGED <<callerVars, route, posts, net, peerVars, crashes>>

\* Faulty variant of Arrive: the message is not marked before it is handled.
ArriveUnmarked(m, p) ==
  /\ net[m][p] = "out"
  /\ IF m \in marked
     THEN /\ net' = [net EXCEPT ![m][p] = "ok"]
          /\ UNCHANGED work
     ELSE /\ net' = [net EXCEPT ![m][p] = IF m \in Requests THEN "handling" ELSE "ok"]
          /\ work' = [work EXCEPT ![m] = IF m \in Requests THEN "begun" ELSE "done"]
  /\ UNCHANGED <<callerVars, outboxVars, marked, crashes>>

\* The dedupe cache.
IsDuplicate(m) == m \in marked

MarkProcessed(m) == marked' = marked \cup {m}

\* The peer's /message handler: a message in the dedupe cache is answered at
\* once and without its response; any other is marked, then handled.  From the
\* mark to the start of the handler there is no await, so in a process that
\* lives on nothing comes between them (one that dies there: DieMarked).  The
\* handler of an event returns at once; the ACK sent back finds no connection.
Arrive(m, p) ==
  /\ net[m][p] = "out"
  /\ IF IsDuplicate(m)
     THEN /\ net' = [net EXCEPT ![m][p] = "ok"]
          /\ UNCHANGED peerVars
     ELSE /\ MarkProcessed(m)
          /\ net' = [net EXCEPT ![m][p] = IF m \in Requests THEN "handling" ELSE "ok"]
          /\ work' = [work EXCEPT ![m] = IF m \in Requests THEN "begun" ELSE "done"]
  /\ UNCHANGED <<callerVars, outboxVars, crashes>>

\* The request handler returns or throws: both give a response frame.
Handle(m, p) ==
  /\ net[m][p] = "handling"
  /\ net' = [net EXCEPT ![m][p] = "reply"]
  /\ work' = [work EXCEPT ![m] = "done"]
  /\ UNCHANGED <<callerVars, outboxVars, marked, crashes>>

\* The response of the post the outbox waits for: handleIncoming settles the
\* call if it still waits, then the row is SENT.
Reply(m) ==
  /\ awaits[m] # 0
  /\ net[m][awaits[m]] \in {"reply", "ok"}
  /\ call' = [call EXCEPT ![m] = IF net[m][awaits[m]] = "reply" /\ @ = "open"
                                 THEN "answered" ELSE @]
  /\ row' = [row EXCEPT ![m] = "SENT"]
  /\ tried' = [tried EXCEPT ![m] = @ + 1]
  /\ awaits' = [awaits EXCEPT ![m] = 0]
  /\ UNCHANGED <<queue, resends, route, posts, net, peerVars, crashes>>
-----------------------------------------------------------------------------
\* The peer's process dies and restarts: the dedupe cache survives, the running
\* handlers and the posts under way do not.  The handlers of the messages in
\* "unbegun" had not started when they were marked.
PeerDies(unbegun) ==
  /\ crashes < MaxCrashes
  /\ crashes' = crashes + 1
  /\ net' = [m \in Msgs |-> [p \in Posts |->
               IF net[m][p] \in {"out", "handling"} THEN "gone" ELSE net[m][p]]]
  /\ marked' = marked \cup unbegun
  /\ work' = [m \in Msgs |-> IF work[m] = "begun" \/ m \in unbegun THEN "dropped" ELSE work[m]]
  /\ UNCHANGED <<callerVars, outboxVars>>

CrashPeer == PeerDies({})

\* markProcessed is committed, and the process dies before handleIncoming.
DieMarked(m, p) ==
  /\ net[m][p] = "out"
  /\ m \notin marked
  /\ PeerDies({m})

\* The sender's process dies and restarts: the rows survive; callers, queues and
\* the connection do not.  The posts under way may still arrive.
CrashSender ==
  /\ crashes < MaxCrashes
  /\ crashes' = crashes + 1
  /\ call' = [m \in Msgs |-> IF call[m] = "open" THEN "closed" ELSE call[m]]
  /\ queue' = <<>>
  /\ awaits' = [m \in Msgs |-> 0]
  /\ route' = "none"
  /\ UNCHANGED <<resends, row, tried, posts, net, peerVars>>

\* resumeSession gives the session its connection back.
Resume ==
  /\ route = "none"
  /\ route' = "resumed"
  /\ UNCHANGED <<callerVars, row, tried, posts, awaits, net, peerVars, crashes>>

Next ==
  \/ \E m \in Msgs : Call(m) \/ Timeout(m) \/ Post(m) \/ PostUnrouted(m) \/ Fail(m) \/ Reply(m)
  \/ \E m \in Msgs, p \in Posts : Arrive(m, p) \/ Handle(m, p) \/ DieMarked(m, p)
  \/ CrashPeer \/ CrashSender \/ Resume

Spec == Init /\ [][Next]_vars

\* The outbox's timer fires, and the client's timeout ends every post.
Fairness ==
  \A m \in Msgs : /\ WF_vars(Post(m) \/ PostUnrouted(m))
                  /\ WF_vars(Fail(m) \/ Reply(m))

FairSpec == Spec /\ Fairness
-----------------------------------------------------------------------------
\* Whatever is lost, late, retried or restarted: a handler runs at most once per
\* message, and a caller gets at most one answer, while it waits, and only after
\* its handler finished.  (agent.ts /message and sendFrameDirect.)
E == INSTANCE Exchanges
ExchangesSpec == E!Spec

\* A row is SENT only of a message whose handler the peer has started, or whose
\* mark is all that is left of it because the peer died: no late, lost or failed
\* post makes a row SENT that the peer never took.  (The dedupe cache is written
\* just before the handler starts and survives the death: agent.ts /message.)
SentWasTaken == \A m \in Msgs : row[m] = "SENT" => work[m] # "none"

\* Every message the outbox accepted is sent or given up in the end, across
\* crashes of both sides and while the session has no connection.
RowsSettled == \A m \in Msgs : row[m] = "PENDING" ~> row[m] \in {"SENT", "FAILED"}
-----------------------------------------------------------------------------
\* outbox.ts:3 "At-least-once delivery": a message the outbox counts as SENT is
\* not lost at the peer.
AtLeastOnce == \A m \in Msgs : row[m] = "SENT" => work[m] # "dropped"
=============================================================================
