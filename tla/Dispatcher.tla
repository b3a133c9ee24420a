----------------------------- MODULE Dispatcher -----------------------------
(***************************************************************************)
(* The caller side of MessageDispatcher (protocol/dispatcher.ts): pending   *)
(* requests with their timers, the send queue of each session, the single   *)
(* processor of a queue, timeouts and retries, clearSession and shutdown.   *)
(* sendFn is the environment: it takes time and then reports success or     *)
(* failure (false or a rejection, which the code treats alike).             *)
(***************************************************************************)
EXTENDS Integers, Sequences, FiniteSets

CONSTANTS
  Requests,              \* message ids of calls of request()
  Events,                \* message ids of calls of event()
  Sessions,
  SessionOf,             \* the session of each call
  MaxPendingPerSession,  \* DispatcherConfig.maxPendingPerSession
  MaxPendingTotal,       \* DispatcherConfig.maxPendingTotal
  MaxQueue,              \* DispatcherConfig.maxQueuePerSession
  MaxRetries,            \* DispatcherConfig.maxRetries
  MaxTries,              \* bound: times one request is (re)sent by sendRequest
  NoCall                 \* nobody

Frames == Requests \cup Events

ASSUME DispatcherAssumption ==
  /\ Requests \cap Events = {}
  /\ IsFiniteSet(Requests)
  /\ SessionOf \in [Frames -> Sessions]
  /\ MaxPendingPerSession \in Nat \ {0}
  /\ MaxPendingTotal \in Nat \ {0}
  /\ MaxQueue \in Nat \ {0}
  /\ MaxRetries \in Nat \ {0}
  /\ MaxTries \in Nat \ {0}
  /\ NoCall \notin Frames

VARIABLES
  outcome,     \* the promise of each call: "none", "waiting", "resolved", "rejected"
  pending,     \* keys of the pending map
  attempts,    \* PendingRequest.attempts of a pending request
  tries,       \* times sendRequest ran for a request
  queues,      \* the queue of each session in the queues map
  orphan,      \* the queue a running processor holds after it left the map, else <<>>
  processing,  \* processingQueues
  runner,      \* the call whose queueAndSend awaits the running processor
  sent         \* frames handed to sendFn

queueVars == <<queues, orphan, processing, runner, sent>>
vars == <<outcome, pending, attempts, tries, queueVars>>

Item == [frame : Frames, attempts : Nat]

TypeOK ==
  /\ outcome \in [Frames -> {"none", "waiting", "resolved", "rejected"}]
  /\ pending \in SUBSET Requests
  /\ attempts \in [Requests -> Nat]
  /\ tries \in [Requests -> Nat]
  /\ queues \in [Sessions -> Seq(Item)]
  /\ orphan \in [Sessions -> Seq(Item)]
  /\ processing \in SUBSET Sessions
  /\ runner \in [Sessions -> Frames \cup {NoCall}]
  /\ sent \in SUBSET Frames

Init ==
  /\ outcome = [f \in Frames |-> "none"]
  /\ pending = {}
  /\ attempts = [r \in Requests |-> 0]
  /\ tries = [r \in Requests |-> 0]
  /\ queues = [s \in Sessions |-> <<>>]
  /\ orphan = [s \in Sessions |-> <<>>]
  /\ processing = {}
  /\ runner = [s \in Sessions |-> NoCall]
  /\ sent = {}
-----------------------------------------------------------------------------
\* getPendingCount
PendingOf(s) == {r \in pending : SessionOf[r] = s}

QueueFull(s) == Len(queues[s]) >= MaxQueue

\* queueAndSend: push the frame; unless the session is being processed, run
\* processQueue, whose first act is to hand the head of the queue to sendFn.
QueueAndSend(f) ==
  LET s == SessionOf[f]
      q == Append(queues[s], [frame |-> f, attempts |-> 0])
  IN  /\ queues' = [queues EXCEPT ![s] = q]
      /\ IF s \in processing
         THEN UNCHANGED <<processing, runner, sent>>
         ELSE /\ processing' = processing \cup {s}
              /\ runner' = [runner EXCEPT ![s] = f]
              /\ sent' = sent \cup {Head(q).frame}
      /\ UNCHANGED orphan

\* sendRequest: register the request with a fresh timer and a fresh attempts
\* count, and queue it.  A full queue unregisters it and rejects the caller.
SendRequest(r) ==
  /\ tries' = [tries EXCEPT ![r] = @ + 1]
  /\ IF QueueFull(SessionOf[r])
     THEN /\ pending' = pending \ {r}
          /\ outcome' = [outcome EXCEPT ![r] = "rejected"]
          /\ UNCHANGED <<attempts, queueVars>>
     ELSE /\ pending' = pending \cup {r}
          /\ attempts' = [attempts EXCEPT ![r] = 1]
          /\ outcome' = [outcome EXCEPT ![r] = "waiting"]
          /\ QueueAndSend(r)

\* Faulty variant of Request: the global limit is not consulted.
RequestWithoutTotal(r) ==
  /\ outcome[r] = "none"
  /\ IF Cardinality(PendingOf(SessionOf[r])) >= MaxPendingPerSession
     THEN /\ outcome' = [outcome EXCEPT ![r] = "rejected"]
          /\ UNCHANGED <<pending, attempts, tries, queueVars>>
     ELSE SendRequest(r)

\* request: refused under backpressure, else sent.
Request(r) ==
  /\ outcome[r] = "none"
  /\ IF \/ Cardinality(PendingOf(SessionOf[r])) >= MaxPendingPerSession
        \/ Cardinality(pending) >= MaxPendingTotal
     THEN /\ outcome' = [outcome EXCEPT ![r] = "rejected"]
          /\ UNCHANGED <<pending, attempts, tries, queueVars>>
     ELSE SendRequest(r)

\* Faulty variant of Event: always awaits the processor, also one it did not start.
EventAwaitsOthers(e) ==
  /\ outcome[e] = "none"
  /\ IF QueueFull(SessionOf[e])
     THEN /\ outcome' = [outcome EXCEPT ![e] = "rejected"]
          /\ UNCHANGED queueVars
     ELSE /\ outcome' = [outcome EXCEPT ![e] = "waiting"]
          /\ QueueAndSend(e)
  /\ UNCHANGED <<pending, attempts, tries>>

\* event: rejected if the queue is full; returns at once if another call is
\* processing the queue, else when the processor it started is done.
Event(e) ==
  /\ outcome[e] = "none"
  /\ IF QueueFull(SessionOf[e])
     THEN /\ outcome' = [outcome EXCEPT ![e] = "rejected"]
          /\ UNCHANGED queueVars
     ELSE /\ outcome' = [outcome EXCEPT ![e] =
                           IF SessionOf[e] \in processing THEN "resolved" ELSE "waiting"]
          /\ QueueAndSend(e)
  /\ UNCHANGED <<pending, attempts, tries>>

\* Faulty variant of Timeout: a rejected request keeps its entry.
TimeoutKeepsEntry(r) ==
  /\ r \in pending
  /\ outcome' = [outcome EXCEPT ![r] = "rejected"]
  /\ UNCHANGED <<pending, attempts, tries, queueVars>>

\* The timer of a pending request fires: the entry is removed; the request is
\* sent again while its attempts allow, else the caller is rejected.
Timeout(r) ==
  /\ r \in pending
  /\ IF attempts[r] < MaxRetries
     THEN tries[r] < MaxTries /\ SendRequest(r)
     ELSE /\ pending' = pending \ {r}
          /\ outcome' = [outcome EXCEPT ![r] = "rejected"]
          /\ UNCHANGED <<attempts, tries, queueVars>>

\* handleResponse, or handleError with a replyTo: the answer to a request that
\* was sent, perhaps more than once, early or late.  Without an entry it is
\* ignored (and the step changes nothing).
Answer(r) ==
  /\ r \in sent \cap pending
  /\ pending' = pending \ {r}
  /\ \E o \in {"resolved", "rejected"} : outcome' = [outcome EXCEPT ![r] = o]
  /\ UNCHANGED <<attempts, tries, queueVars>>

\* The queue the running processor of s works on.
Local(s) == IF orphan[s] # <<>> THEN orphan[s] ELSE queues[s]

\* sendFn has reported: processQueue removes the head (or counts the failure and
\* drops it at maxRetries), then hands over the next head or, after a failure or
\* with nothing left, ends and lets its caller return.
SendDone(s, ok) ==
  /\ s \in processing
  /\ LET item == Head(Local(s))
         rest == IF ok \/ item.attempts + 1 >= MaxRetries
                 THEN Tail(Local(s))
                 ELSE <<[item EXCEPT !.attempts = @ + 1]>> \o Tail(Local(s))
         more == ok /\ rest # <<>>
     IN  /\ IF orphan[s] # <<>>
            THEN /\ orphan' = [orphan EXCEPT ![s] = IF more THEN rest ELSE <<>>]
                 /\ UNCHANGED queues
            ELSE /\ queues' = [queues EXCEPT ![s] = rest]
                 /\ UNCHANGED orphan
         /\ IF more
            THEN /\ sent' = sent \cup {Head(rest).frame}
                 /\ UNCHANGED <<outcome, processing, runner>>
            ELSE /\ processing' = processing \ {s}
                 /\ runner' = [runner EXCEPT ![s] = NoCall]
                 /\ outcome' = IF runner[s] \in Events
                               THEN [outcome EXCEPT ![runner[s]] = "resolved"]
                               ELSE outcome
                 /\ UNCHANGED sent
  /\ UNCHANGED <<pending, attempts, tries>>

\* Faulty variant of DropQueues: empties the arrays under a running processor.
DropQueuesInPlace(S) ==
  /\ queues' = [s \in Sessions |-> IF s \in S THEN <<>> ELSE queues[s]]
  /\ UNCHANGED <<orphan, processing, runner, sent>>

\* Clearing the queues of S: a running processor keeps the queue it holds.
DropQueues(S) ==
  /\ orphan' = [s \in Sessions |->
                 IF s \in S \cap processing /\ orphan[s] = <<>> THEN queues[s] ELSE orphan[s]]
  /\ queues' = [s \in Sessions |-> IF s \in S THEN <<>> ELSE queues[s]]
  /\ UNCHANGED <<processing, runner, sent>>

\* Faulty variant of RejectAll: drops the entries without rejecting the callers.
RejectAllSilently(R) ==
  /\ pending' = pending \ R
  /\ UNCHANGED <<outcome, attempts, tries>>

\* The callers of the requests R are rejected and their entries removed.
RejectAll(R) ==
  /\ outcome' = [f \in Frames |-> IF f \in R THEN "rejected" ELSE outcome[f]]
  /\ pending' = pending \ R
  /\ UNCHANGED <<attempts, tries>>

ClearSession(s) == RejectAll(PendingOf(s)) /\ DropQueues({s})

Shutdown == RejectAll(pending) /\ DropQueues(Sessions)

Next ==
  \/ \E r \in Requests : Request(r) \/ Timeout(r) \/ Answer(r)
  \/ \E e \in Events : Event(e)
  \/ \E s \in Sessions : \/ \E ok \in BOOLEAN : SendDone(s, ok)
                         \/ ClearSession(s)
  \/ Shutdown

Spec == Init /\ [][Next]_vars

\* sendFn always reports (the transport has a timeout) and timers fire.
FairSpec ==
  /\ Spec
  /\ \A s \in Sessions : WF_vars(\E ok \in BOOLEAN : SendDone(s, ok))
  /\ \A r \in Requests : WF_vars(Timeout(r))
-----------------------------------------------------------------------------
\* A caller waits for a request exactly as long as the request has an entry in
\* the pending map: no caller is forgotten by a timeout, retry, full queue,
\* late answer, clearSession or shutdown, and no entry outlives its caller.
NoCallerForgotten ==
  \A r \in Requests : outcome[r] = "waiting" <=> r \in pending

\* The backpressure limits hold although a retry re-registers its request
\* without consulting them.
PendingBounded ==
  /\ Cardinality(pending) <= MaxPendingTotal
  /\ \A s \in Sessions : Cardinality(PendingOf(s)) <= MaxPendingPerSession

\* A processor that runs always has a frame in hand, also after its queue was
\* dropped from the map, and only then an orphaned queue exists.
ProcessorHoldsWork ==
  \A s \in Sessions :
    /\ s \in processing => Local(s) # <<>>
    /\ orphan[s] # <<>> => s \in processing

\* Every promise is settled at most once (Calls).
CallsRefined == INSTANCE Calls WITH Call <- Frames
CallsSpec == CallsRefined!Spec

\* event() returns in the end, whatever happens to its session and its queue.
EventsReturn ==
  \A e \in Events : outcome[e] = "waiting" ~> outcome[e] # "waiting"
=============================================================================
