---------------------------- MODULE BugReporter ----------------------------
(***************************************************************************)
(* BugReporter (bug-report/reporter.ts): a bounded queue of reports, and    *)
(* the batches that the timer and crash reports start, which overlap.       *)
(* What an upload comes to is the parameter of Uploaded.                    *)
(***************************************************************************)
EXTENDS Integers, Sequences, FiniteSets, Functions

CONSTANTS
  MaxReports,  \* bound: calls of report, numbered as they come
  Crashes,     \* those that report a crash
  MaxBatches,  \* bound: invocations of processBatch at a time
  MaxQueue,    \* maxQueueSize
  BatchSize,   \* 10
  MaxRetries

ASSUME ReporterAssumption ==
  /\ {MaxReports, MaxBatches} \subseteq Nat
  /\ {MaxQueue, BatchSize, MaxRetries} \subseteq Nat \ {0}

Reports == 1..MaxReports
Batches == 1..MaxBatches

VARIABLES
  fate,      \* of each report: "none", "kept", "dropped", "sent", "given up"
  attempts,
  queue,
  todo,      \* what each batch has not uploaded yet; its first is being uploaded
  failed,    \* what each batch will put back
  soon,      \* setImmediate callbacks that will start a batch
  running

reporterVars == <<fate, attempts, queue, todo, failed, soon, running>>

ReporterInit ==
  /\ fate = [r \in Reports |-> "none"]
  /\ attempts = [r \in Reports |-> 0]
  /\ queue = <<>>
  /\ todo = [b \in Batches |-> <<>>]
  /\ failed = [b \in Batches |-> <<>>]
  /\ soon = 0
  /\ running = FALSE

\* What enqueue drops from a queue: as many as it is too long by, the oldest
\* that are no crashes, then the oldest.
Before(q, i, j) ==
  IF (q[i] \in Crashes) = (q[j] \in Crashes) THEN i < j ELSE q[j] \in Crashes
Surplus(q) ==
  {q[i] : i \in {j \in DOMAIN q :
     Cardinality({k \in DOMAIN q : Before(q, k, j)}) <= Len(q) - MaxQueue}}

\* What is left of a queue without them, in its order.
Left(q, out) ==
  LET stay == {i \in DOMAIN q : q[i] \notin out}
  IN  [n \in 1..Cardinality(stay) |-> q[CHOOSE i \in stay : Cardinality({j \in stay : j <= i}) = n]]

\* report and enqueue; a crash asks for a batch at once.
Report(r) ==
  /\ fate[r] = "none" /\ \A x \in 1..(r - 1) : fate[x] # "none"
  /\ LET out == Surplus(queue)
     IN  /\ queue' = Append(Left(queue, out), r)
         /\ fate' = [x \in Reports |-> IF x = r THEN "kept"
                                       ELSE IF x \in out THEN "dropped" ELSE fate[x]]
  /\ soon' = IF r \in Crashes THEN soon + 1 ELSE soon
  /\ attempts' = [x \in Reports |-> IF x \in Surplus(queue) THEN 0 ELSE attempts[x]]
  /\ UNCHANGED <<todo, failed, running>>

FirstFree(b) == \A c \in 1..b : (todo[c] = <<>>) = (c = b)

\* Faulty variant of Take: the batch is copied out of the queue.
TakeCopy(b) ==
  /\ FirstFree(b)
  /\ queue # <<>>
  /\ todo' = [todo EXCEPT ![b] = SubSeq(queue, 1, IF Len(queue) < BatchSize THEN Len(queue) ELSE BatchSize)]
  /\ UNCHANGED <<fate, attempts, queue, failed, running>>

\* processBatch up to its first upload.
Take(b) ==
  /\ FirstFree(b)
  /\ queue # <<>>
  /\ LET n == IF Len(queue) < BatchSize THEN Len(queue) ELSE BatchSize
     IN  /\ todo' = [todo EXCEPT ![b] = SubSeq(queue, 1, n)]
         /\ queue' = SubSeq(queue, n + 1, Len(queue))
  /\ UNCHANGED <<fate, attempts, failed, running>>

Timer(b) ==
  /\ running
  /\ Take(b)
  /\ UNCHANGED soon

Immediate(b) ==
  /\ soon > 0
  /\ soon' = soon - 1
  /\ Take(b) \/ (queue = <<>> /\ UNCHANGED <<fate, attempts, queue, todo, failed, running>>)

\* What becomes of the batch's first report, and of the batch after its last:
\* what failed goes back in front of the queue.
Advance(b, back) ==
  /\ todo' = [todo EXCEPT ![b] = Tail(@)]
  /\ IF Len(todo[b]) = 1
     THEN queue' = back \o queue /\ failed' = [failed EXCEPT ![b] = <<>>]
     ELSE queue' = queue /\ failed' = [failed EXCEPT ![b] = back]

\* Faulty variant of Uploaded: a failed upload is not counted.
UploadedUncounted(b, ok) ==
  /\ todo[b] # <<>>
  /\ LET r == Head(todo[b])
     IN  /\ fate' = IF ok THEN [fate EXCEPT ![r] = "sent"] ELSE fate
         /\ Advance(b, IF ok THEN failed[b] ELSE Append(failed[b], r))
  /\ UNCHANGED <<attempts, soon, running>>

\* The continuation of processBatch after an upload.
Uploaded(b, ok) ==
  /\ todo[b] # <<>>
  /\ LET r     == Head(todo[b])
         again == ~ok /\ attempts[r] + 1 < MaxRetries
     IN  /\ attempts' = [attempts EXCEPT ![r] = IF again THEN @ + 1 ELSE 0]
         /\ fate' = IF again THEN fate
                    ELSE [fate EXCEPT ![r] = IF ok THEN "sent" ELSE "given up"]
         /\ Advance(b, IF again THEN Append(failed[b], r) ELSE failed[b])
  /\ UNCHANGED <<soon, running>>

\* start and stop: batches under way go on, and immediates still fire.
Start == ~running /\ running' = TRUE /\ UNCHANGED <<fate, attempts, queue, todo, failed, soon>>
Stop == running /\ running' = FALSE /\ UNCHANGED <<fate, attempts, queue, todo, failed, soon>>

\* The process dies with what it holds: an uncaught exception is reported and
\* thrown again.
Die ==
  /\ running
  /\ fate' = [r \in Reports |-> IF fate[r] = "kept" THEN "dropped" ELSE fate[r]]
  /\ queue' = <<>>
  /\ todo' = [b \in Batches |-> <<>>]
  /\ failed' = [b \in Batches |-> <<>>]
  /\ soon' = 0
  /\ attempts' = [r \in Reports |-> 0]
  /\ running' = FALSE
=============================================================================
