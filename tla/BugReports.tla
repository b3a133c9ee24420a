----------------------------- MODULE BugReports -----------------------------
(***************************************************************************)
(* A bug reporter and its server.  An upload is a post that is answered,    *)
(* refused (401, 429, 400, 500 or no connection), or given up by its timer, *)
(* after which it may still be ingested; its answer may be lost.            *)
(***************************************************************************)
EXTENDS BugReporter

CONSTANTS
  MaxBroken,
  MaxLate      \* bound: posts that arrive after their upload was given up

VARIABLES
  server, occurrences, events, count, broken,
  answer,    \* of each batch's first report: "none", or what the server says after
             \* its ingest, "ok" or "error"
  late,      \* the reports whose posts were given up and may still arrive
  lates

INSTANCE BugServer

service == <<server, occurrences, events, count, broken>>
vars == <<reporterVars, service, answer, late, lates>>

Init ==
  /\ ReporterInit
  /\ ServerInit
  /\ answer = [b \in Batches |-> "none"]
  /\ late = {}
  /\ lates = 0

Settle(b) == answer' = [answer EXCEPT ![b] = "none"]

\* Faulty variant of PostArrives: the answer does not wait for the database.
PostArrivesUnwritten(b) ==
  /\ todo[b] # <<>> /\ answer[b] = "none"
  /\ server = "up"
  /\ answer' = [answer EXCEPT ![b] = "ok"]
  /\ UNCHANGED <<reporterVars, service, late, lates>>

\* The post of the batch's first report is handled.
PostArrives(b) ==
  /\ todo[b] # <<>> /\ answer[b] = "none"
  /\ \/ Ingest(Head(todo[b])) /\ answer' = [answer EXCEPT ![b] = "ok"]
     \/ IngestFails(Head(todo[b])) /\ answer' = [answer EXCEPT ![b] = "error"]
  /\ UNCHANGED <<reporterVars, late, lates>>

ArriveLate(r) ==
  /\ r \in late
  /\ late' = late \ {r}
  /\ Ingest(r) \/ IngestFails(r)
  /\ UNCHANGED <<reporterVars, answer, lates>>

\* The server dies while it writes a report under way.
ServerDies ==
  \E r \in {Head(todo[b]) : b \in {c \in Batches : todo[c] # <<>> /\ answer[c] = "none"}} :
    /\ DieWriting(r)
    /\ UNCHANGED <<reporterVars, answer, late, lates>>

\* The answer is read: ok.
Sent(b) ==
  /\ answer[b] = "ok"
  /\ Uploaded(b, TRUE)
  /\ Settle(b)
  /\ UNCHANGED <<service, late, lates>>

\* The upload fails; a post that was cut off may arrive later.
NotSent(b) ==
  /\ Uploaded(b, FALSE)
  /\ Settle(b)
  /\ \/ UNCHANGED <<late, lates>>
     \/ /\ answer[b] = "none" /\ Head(todo[b]) \notin late
        /\ lates < MaxLate
        /\ late' = late \cup {Head(todo[b])}
        /\ lates' = lates + 1
  /\ UNCHANGED service

ReporterStep ==
  /\ \/ \E r \in Reports : Report(r)
     \/ \E b \in Batches : Timer(b) \/ Immediate(b)
     \/ Start \/ Stop
  /\ UNCHANGED <<service, answer, late, lates>>

ProcessDies ==
  /\ Die
  /\ answer' = [b \in Batches |-> "none"]
  /\ UNCHANGED <<service, late, lates>>

Next ==
  \/ ReporterStep
  \/ \E b \in Batches : PostArrives(b) \/ Sent(b) \/ NotSent(b)
  \/ \E r \in Reports : ArriveLate(r)
  \/ ServerDies \/ ProcessDies
  \/ (ServerStart \/ ServerStop) /\ UNCHANGED <<reporterVars, answer, late, lates>>

\* The interval timer ticks while the reporter runs; an upload has a timer.
Fairness ==
  \A b \in Batches :
    /\ WF_vars(Timer(b) /\ UNCHANGED <<service, answer, late, lates>>)
    /\ WF_vars(Sent(b) \/ NotSent(b))

Spec == Init /\ [][Next]_vars /\ Fairness
-----------------------------------------------------------------------------
\* The reports that a batch has.
Has(b) == Range(todo[b]) \cup Range(failed[b])

\* A report that is not settled is in the queue or in one batch, once, and a
\* settled one in none, however batches overlap, fail and put back (enqueue,
\* processBatch).
OnePlace ==
  /\ IsInjective(queue)
  /\ \A b \in Batches :
       /\ IsInjective(todo[b]) /\ IsInjective(failed[b])
       /\ Range(todo[b]) \cap Range(failed[b]) = {}
       /\ Has(b) \cap Range(queue) = {}
       /\ \A c \in Batches \ {b} : Has(b) \cap Has(c) = {}
  /\ Range(queue) \cup UNION {Has(b) : b \in Batches} = {r \in Reports : fate[r] = "kept"}

\* The rows of bug_events: those of each report are numbered.
Rows == UNION {{r} \X (1..events[r]) : r \in Reports}

\* What the reporter takes for sent is in the database, and the three tables
\* agree but for the ingests that threw or whose process died (upload, ingest).
SentWasStored ==
  LET stored == Cardinality(Rows)
  IN  /\ \A r \in Reports : fate[r] = "sent" => events[r] > 0
      /\ stored \in (occurrences - broken)..occurrences
      /\ count \in (stored - broken)..stored

\* While the reporter runs, whatever it keeps is sent, dropped or given up in
\* the end (processBatch).
ReportsSettle ==
  <>[]running => <>[](\A r \in Reports : fate[r] # "kept")
=============================================================================
