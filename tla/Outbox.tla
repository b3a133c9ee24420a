------------------------------- MODULE Outbox -------------------------------
(***************************************************************************)
(* The persistent outbox of an agent: OutboxManager (persistence/outbox.ts) *)
(* over the outbox_messages table (persistence/database.ts).                *)
(*                                                                          *)
(* Every REQUEST and EVENT frame an agent sends is first stored as a row.   *)
(* processOutbox reads a batch of due PENDING rows and sends them one after *)
(* the other, awaiting each send.  It is started by an interval timer and   *)
(* by every enqueue, and nothing stops a second invocation from starting    *)
(* while the first awaits: the invocations are the "loops" of this model,   *)
(* and only the `processing' set keeps them apart.  A step is what the      *)
(* event loop runs between two awaits.                                      *)
(***************************************************************************)
EXTENDS Integers, FiniteSets

CONSTANTS
  Msgs,         \* message identifiers (frame.messageId, fresh for each frame)
  Sessions,     \* session identifiers
  SessionOf,    \* the session of each message
  Kind,         \* frame type of each message
  Loops,        \* bound: processOutbox invocations that may be live at once
  Errors,       \* errors a send may end in: the patterns the text contains
  MaxInFlight,  \* OutboxConfig.maxInFlight
  MaxAttempts,  \* OutboxConfig.maxAttempts
  BatchSize,    \* the limit processOutbox passes to getPendingMessages
  MaxOutages,   \* bound: stops and crashes of the process
  None          \* no message

\* "RESPONSE" stands for RESPONSE and ERROR frames, which the outbox treats alike.
Kinds == {"REQUEST", "EVENT", "RESPONSE"}

\* The substrings isRetryableError looks for, non-retryable ones first.
NonRetryable == {"UNKNOWN_METHOD", "HANDLER_ERROR", "INVALID_FRAME",
                 "INVALID_PARAMS", "4"}
RetryableMarks == {"TIMEOUT", "NETWORK", "ECONNREFUSED", "ECONNRESET",
                   "ETIMEDOUT", "5"}

ASSUME OutboxAssumption ==
  /\ SessionOf \in [Msgs -> Sessions]
  /\ Kind \in [Msgs -> Kinds]
  /\ Errors \subseteq SUBSET (NonRetryable \cup RetryableMarks)
  /\ MaxInFlight \in Nat \ {0}
  /\ MaxAttempts \in Nat \ {0}
  /\ BatchSize \in Nat \ {0}
  /\ MaxOutages \in Nat
  /\ None \notin Msgs

VARIABLES
  mode,        \* the process: "down", "stopped" (outbox not started), "running"
  status,      \* outbox_messages.status; "absent" before the insert, "pruned" after the delete
  attempts,    \* outbox_messages.attempts
  due,         \* nextAttemptAt <= now()
  lastError,   \* outbox_messages.lastError ({} for NULL)
  createdAt,   \* outbox_messages.createdAt
  clock,       \* rows created so far: the next createdAt
  phase,       \* loop: "idle", "sending", "reached" (the peer has it)
  cur,         \* loop: the message processMessage is working on
  todo,        \* loop: the rest of its snapshot
  seen,        \* loop: msg.attempts of the rows of its snapshot
  processing,  \* OutboxManager.processing
  arrived,     \* messages the peer's /message handler has seen
  acks,        \* ACK events on their way back
  outages      \* stops and crashes so far

dbVars   == <<status, attempts, due, lastError, createdAt, clock>>
loopVars == <<phase, cur, todo, seen, processing>>
netVars  == <<arrived, acks>>
vars     == <<mode, dbVars, loopVars, netVars, outages>>

Statuses == {"absent", "PENDING", "SENT", "ACKED", "FAILED", "pruned"}

TypeOK ==
  /\ mode \in {"down", "stopped", "running"}
  /\ status \in [Msgs -> Statuses]
  /\ attempts \in [Msgs -> Nat]
  /\ due \in [Msgs -> BOOLEAN]
  /\ lastError \in [Msgs -> SUBSET (NonRetryable \cup RetryableMarks)]
  /\ createdAt \in [Msgs -> Nat]
  /\ clock \in Nat
  /\ phase \in [Loops -> {"idle", "sending", "reached"}]
  /\ cur \in [Loops -> Msgs \cup {None}]
  /\ todo \in [Loops -> SUBSET Msgs]
  /\ seen \in [Loops -> [Msgs -> Nat]]
  /\ processing \in SUBSET Msgs
  /\ arrived \in SUBSET Msgs
  /\ acks \in SUBSET Msgs
  /\ outages \in Nat
-----------------------------------------------------------------------------
Stored(m) == status[m] \notin {"absent", "pruned"}

\* getInFlightCount: rows of a session that are PENDING or SENT.
InFlight(s) == {m \in Msgs : SessionOf[m] = s /\ status[m] \in {"PENDING", "SENT"}}

\* isRetryableError: any non-retryable pattern decides; everything else retries.
IsRetryable(e) == e \cap NonRetryable = {}

\* ORDER BY priority ASC, createdAt ASC: REQUESTs have priority 0, the rest 1.
Priority(m) == IF Kind[m] = "REQUEST" THEN 0 ELSE 1
Before(a, b) ==
  \/ Priority(a) < Priority(b)
  \/ Priority(a) = Priority(b) /\ createdAt[a] < createdAt[b]

\* getPendingMessages: the first BatchSize rows that are PENDING and due.
Ready == {m \in Msgs : status[m] = "PENDING" /\ due[m]}
Pending == {m \in Ready : Cardinality({k \in Ready : Before(k, m)}) < BatchSize}

\* updateMessageStatus: no condition on the old status, attempts always + 1.  Only
\* a row put back to PENDING gets a nextAttemptAt in the future.
UpdateRow(m, newStatus, error) ==
  IF Stored(m)
  THEN /\ status' = [status EXCEPT ![m] = newStatus]
       /\ attempts' = [attempts EXCEPT ![m] = @ + 1]
       /\ due' = [due EXCEPT ![m] = newStatus # "PENDING"]
       /\ lastError' = [lastError EXCEPT ![m] = error]
       /\ UNCHANGED <<createdAt, clock>>
  ELSE UNCHANGED dbVars
-----------------------------------------------------------------------------
NoAttempts == [m \in Msgs |-> 0]

\* A process with no live invocation.
IdleLoops(ph, c, t, s, busy) ==
  /\ ph = [l \in Loops |-> "idle"]
  /\ c = [l \in Loops |-> None]
  /\ t = [l \in Loops |-> {}]
  /\ s = [l \in Loops |-> NoAttempts]
  /\ busy = {}

Init ==
  /\ mode = "stopped"
  /\ status = [m \in Msgs |-> "absent"]
  /\ attempts = NoAttempts
  /\ due = [m \in Msgs |-> FALSE]
  /\ lastError = [m \in Msgs |-> {}]
  /\ createdAt = NoAttempts
  /\ clock = 0
  /\ IdleLoops(phase, cur, todo, seen, processing)
  /\ arrived = {}
  /\ acks = {}
  /\ outages = 0

\* The insert: PENDING, no attempts, due at once.
EnqueueMessage(m) ==
  /\ status' = [status EXCEPT ![m] = "PENDING"]
  /\ due' = [due EXCEPT ![m] = TRUE]
  /\ createdAt' = [createdAt EXCEPT ![m] = clock]
  /\ clock' = clock + 1
  /\ UNCHANGED <<attempts, lastError>>

\* enqueue: refused with QUEUE_FULL (no effect) at the in-flight limit.
Enqueue(m) ==
  /\ mode # "down"
  /\ status[m] = "absent"
  /\ Cardinality(InFlight(SessionOf[m])) < MaxInFlight
  /\ EnqueueMessage(m)
  /\ UNCHANGED <<mode, loopVars, netVars, outages>>

\* Faulty variant of Continue: a message in processing is not skipped.
ContinueWithoutSkip(l, rest, busy, view) ==
  \/ /\ rest = {}
     /\ phase' = [phase EXCEPT ![l] = "idle"]
     /\ cur' = [cur EXCEPT ![l] = None]
     /\ todo' = [todo EXCEPT ![l] = {}]
     /\ seen' = [seen EXCEPT ![l] = NoAttempts]
     /\ processing' = busy
  \/ \E m \in rest :
     /\ \A k \in rest : ~Before(k, m)
     /\ phase' = [phase EXCEPT ![l] = "sending"]
     /\ cur' = [cur EXCEPT ![l] = m]
     /\ todo' = [todo EXCEPT ![l] = {k \in rest \ {m} : ~Before(k, m)}]
     /\ seen' = [seen EXCEPT ![l] = view]
     /\ processing' = busy \cup {m}

\* The for loop of processOutbox from one await to the next: `rest' is still to
\* visit, `busy' is the processing set, `view' the attempts of the snapshot.
\* Messages in processing are skipped; the first other one is claimed and its
\* send started; with none left the invocation ends.
Continue(l, rest, busy, view) ==
  \/ /\ rest \subseteq busy
     /\ phase' = [phase EXCEPT ![l] = "idle"]
     /\ cur' = [cur EXCEPT ![l] = None]
     /\ todo' = [todo EXCEPT ![l] = {}]
     /\ seen' = [seen EXCEPT ![l] = NoAttempts]
     /\ processing' = busy
  \/ \E m \in rest \ busy :
     /\ \A k \in rest \ busy : ~Before(k, m)
     /\ phase' = [phase EXCEPT ![l] = "sending"]
     /\ cur' = [cur EXCEPT ![l] = m]
     /\ todo' = [todo EXCEPT ![l] = {k \in rest \ {m} : ~Before(k, m)}]
     /\ seen' = [seen EXCEPT ![l] = view]
     /\ processing' = busy \cup {m}

\* A new processOutbox invocation (interval timer, or setImmediate after an
\* enqueue) takes its snapshot and visits it up to the first send.
Wake(l) ==
  /\ mode = "running"
  /\ phase[l] = "idle"
  /\ Continue(l, Pending, processing,
              [m \in Msgs |-> IF m \in Pending THEN attempts[m] ELSE 0])
  /\ UNCHANGED <<mode, dbVars, netVars, outages>>

\* The peer's /message handler receives the frame.  A first EVENT is answered
\* with an ACK event; a duplicate is answered 200 and not acknowledged.
Reach(l) ==
  /\ phase[l] = "sending"
  /\ phase' = [phase EXCEPT ![l] = "reached"]
  /\ arrived' = arrived \cup {cur[l]}
  /\ acks' = IF cur[l] \notin arrived /\ Kind[cur[l]] = "EVENT"
             THEN acks \cup {cur[l]} ELSE acks
  /\ UNCHANGED <<mode, dbVars, cur, todo, seen, processing, outages>>

\* Faulty variant of SendSucceeds: the row is SENT before the peer has the frame.
SendSucceedsEarly(l) ==
  /\ phase[l] \in {"sending", "reached"}
  /\ UpdateRow(cur[l], IF Kind[cur[l]] = "RESPONSE" THEN "ACKED" ELSE "SENT", {})
  /\ Continue(l, todo[l], processing \ {cur[l]}, seen[l])
  /\ UNCHANGED <<mode, netVars, outages>>

\* processMessage after sendFn reported success, the finally block, and the loop
\* up to its next await (one chain of promise jobs).
SendSucceeds(l) ==
  /\ phase[l] = "reached"
  /\ UpdateRow(cur[l], IF Kind[cur[l]] = "RESPONSE" THEN "ACKED" ELSE "SENT", {})
  /\ Continue(l, todo[l], processing \ {cur[l]}, seen[l])
  /\ UNCHANGED <<mode, netVars, outages>>

\* Faulty variant of SendFails: gives up one attempt too early.
SendFailsOneShort(l) ==
  /\ phase[l] \in {"sending", "reached"}
  /\ \E e \in Errors :
       LET retry == IsRetryable(e) /\ seen[l][cur[l]] + 2 < MaxAttempts
       IN  UpdateRow(cur[l], IF retry THEN "PENDING" ELSE "FAILED", e)
  /\ Continue(l, todo[l], processing \ {cur[l]}, seen[l])
  /\ UNCHANGED <<mode, netVars, outages>>

\* Faulty variant of SendFails: the claim is not released after an error.
SendFailsKeepsClaim(l) ==
  /\ phase[l] \in {"sending", "reached"}
  /\ \E e \in Errors :
       LET retry == IsRetryable(e) /\ seen[l][cur[l]] + 1 < MaxAttempts
       IN  UpdateRow(cur[l], IF retry THEN "PENDING" ELSE "FAILED", e)
  /\ Continue(l, todo[l], processing, seen[l])
  /\ UNCHANGED <<mode, netVars, outages>>

\* The same after sendFn reported an error, or threw: the decision uses the
\* attempts of the snapshot, the update the attempts of the row.
SendFails(l) ==
  /\ phase[l] \in {"sending", "reached"}
  /\ \E e \in Errors :
       LET retry == IsRetryable(e) /\ seen[l][cur[l]] + 1 < MaxAttempts
       IN  UpdateRow(cur[l], IF retry THEN "PENDING" ELSE "FAILED", e)
  /\ Continue(l, todo[l], processing \ {cur[l]}, seen[l])
  /\ UNCHANGED <<mode, netVars, outages>>

\* The retry delay of a row has passed.
BecomeDue(m) ==
  /\ status[m] = "PENDING"
  /\ ~due[m]
  /\ due' = [due EXCEPT ![m] = TRUE]
  /\ UNCHANGED <<mode, status, attempts, lastError, createdAt, clock,
                 loopVars, netVars, outages>>

\* The ACK handler of the agent: ack(msgId), whatever the row's status is.
Ack(m) ==
  /\ mode # "down"
  /\ m \in acks
  /\ acks' = acks \ {m}
  /\ UpdateRow(m, "ACKED", {})
  /\ UNCHANGED <<mode, loopVars, arrived, outages>>

\* An ACK is sent once and not repeated: it can be lost.
LoseAck(m) ==
  /\ m \in acks
  /\ acks' = acks \ {m}
  /\ UNCHANGED <<mode, dbVars, loopVars, arrived, outages>>

\* prune: deletes the ACKED and FAILED rows created before a cutoff.
Prune ==
  /\ mode # "down"
  /\ \E cutoff \in 1..clock :
       LET old == {m \in Msgs : status[m] \in {"ACKED", "FAILED"} /\ createdAt[m] < cutoff}
       IN  status' = [m \in Msgs |-> IF m \in old THEN "pruned" ELSE status[m]]
  /\ UNCHANGED <<mode, attempts, due, lastError, createdAt, clock,
                 loopVars, netVars, outages>>

Start ==
  /\ mode = "stopped"
  /\ mode' = "running"
  /\ UNCHANGED <<dbVars, loopVars, netVars, outages>>

\* stop: clears the timer; invocations in progress go on.
Stop ==
  /\ mode = "running"
  /\ outages < MaxOutages
  /\ outages' = outages + 1
  /\ mode' = "stopped"
  /\ UNCHANGED <<dbVars, loopVars, netVars>>

\* The process dies: the rows survive, the loops and the processing set do not.
Crash ==
  /\ mode # "down"
  /\ outages < MaxOutages
  /\ outages' = outages + 1
  /\ mode' = "down"
  /\ IdleLoops(phase', cur', todo', seen', processing')
  /\ UNCHANGED <<dbVars, netVars>>

\* A new process opens the same database.
Boot ==
  /\ mode = "down"
  /\ mode' = "stopped"
  /\ UNCHANGED <<dbVars, loopVars, netVars, outages>>

Next ==
  \/ \E m \in Msgs : Enqueue(m) \/ BecomeDue(m) \/ Ack(m) \/ LoseAck(m)
  \/ \E l \in Loops : Wake(l) \/ Reach(l) \/ SendSucceeds(l) \/ SendFails(l)
  \/ Prune \/ Start \/ Stop \/ Crash \/ Boot

Spec == Init /\ [][Next]_vars

\* The timer fires while the outbox runs, every send settles (the transport has
\* a timeout), time passes, and whoever stopped the process starts it again.
Fairness ==
  /\ WF_vars(\E l \in Loops : Wake(l))
  /\ \A l \in Loops : WF_vars(SendSucceeds(l) \/ SendFails(l))
  /\ \A m \in Msgs : WF_vars(BecomeDue(m))
  /\ WF_vars(Start)
  /\ WF_vars(Boot)

FairSpec == Spec /\ Fairness
-----------------------------------------------------------------------------
\* Processing holds exactly the messages of live invocations, each claimed by
\* one: no two overlapping invocations ever send the same message at the same
\* time, and no message stays claimed (and so unsendable) by an invocation that
\* ended.  (outbox.ts processOutbox, the processing set.)
ClaimsAreExclusive ==
  /\ \A l1, l2 \in Loops : l1 # l2 /\ cur[l1] # None => cur[l1] # cur[l2]
  /\ processing = {cur[l] : l \in {k \in Loops : phase[k] # "idle"}}

\* A row is SENT or ACKED only if the peer has received the message, over all
\* interleavings of overlapping sends, late ACKs and crashes.
SentWasDelivered ==
  \A m \in Msgs : status[m] \in {"SENT", "ACKED"} => m \in arrived

\* An undelivered message is given up (and its row perhaps pruned) only for
\* cause: its last error was not retryable or its sends were used up.
GivenUpForCause ==
  \A m \in Msgs :
    status[m] \in {"FAILED", "pruned"} /\ m \notin arrived =>
      ~IsRetryable(lastError[m]) \/ attempts[m] >= MaxAttempts

\* Every accepted message is eventually settled for good: sent, acknowledged or
\* given up, across overlapping invocations, retries, stops and crashes.
EventuallySettled ==
  \A m \in Msgs : [](status[m] = "PENDING" => <>[](status[m] # "PENDING"))
=============================================================================
