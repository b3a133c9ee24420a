----------------------------- MODULE BugServer -----------------------------
(***************************************************************************)
(* BugReportServer (bug-report-server): its life, and what db.ingest writes *)
(* for a report, in three statements that are committed one by one.  The    *)
(* reports are those of one agent and one error, hence one fingerprint:     *)
(* others have rows of their own.                                           *)
(***************************************************************************)
EXTENDS Integers

CONSTANTS
  Reports,
  MaxBroken   \* bound: ingests that do not get to their end

VARIABLES
  server,       \* "up" or "down"
  occurrences,  \* of the row in bug_reports, 0 for no row
  events,       \* rows of bug_events for each report
  count,        \* report_count of the agent's row, 0 for no row
  broken        \* ingests that threw or whose process died, after their first statement

serverVars == <<server, occurrences, events, count, broken>>
rows == <<occurrences, events, count>>

ServerInit ==
  /\ server = "down"
  /\ occurrences = 0
  /\ events = [r \in Reports |-> 0]
  /\ count = 0
  /\ broken = 0

RecordEvent(r) == events' = [events EXCEPT ![r] = @ + 1]

UpdateAgentInstance == count' = count + 1

\* The first n statements of ingest.
Write(r, n) ==
  /\ occurrences' = occurrences + 1
  /\ IF n >= 2 THEN RecordEvent(r) ELSE UNCHANGED events
  /\ IF n >= 3 THEN UpdateAgentInstance ELSE UNCHANGED count

\* handleIngest of an authorised, valid report within the limit.
Ingest(r) ==
  /\ server = "up"
  /\ Write(r, 3)
  /\ UNCHANGED <<server, broken>>

CutShort(r) ==
  /\ server = "up"
  /\ broken < MaxBroken
  /\ broken' = broken + 1
  /\ \E n \in 1..2 : Write(r, n)

\* A later statement throws; what was written stays, and an error is answered.
\* (One whose first statement throws is an upload that was refused.)
IngestFails(r) == CutShort(r) /\ UNCHANGED server

\* The process dies in ingest.
DieWriting(r) == CutShort(r) /\ server' = "down"

ServerStart == server = "down" /\ server' = "up" /\ UNCHANGED <<rows, broken>>

\* stop: requests that came in before are handled, or cut by its timer, until
\* every connection has ended and the database is closed.
ServerStop == server = "up" /\ server' = "down" /\ UNCHANGED <<rows, broken>>
=============================================================================
