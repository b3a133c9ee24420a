------------------------------- MODULE Resume -------------------------------
(***************************************************************************)
(* Session resumption: ResumeManager (persistence/resume.ts) over the       *)
(* sessions table (persistence/database.ts), and the two places of the      *)
(* agent that open the route of a session (connect, resumeSession).         *)
(*                                                                          *)
(* A tick of the five-second timer attempts the first MaxConcurrent entries *)
(* of pendingResumes that are due.  An attempt takes much longer than a     *)
(* tick when the peer does not answer, and its entry stays due meanwhile:   *)
(* later ticks start further attempts on the same entry.                    *)
(***************************************************************************)
EXTENDS Integers, FiniteSets

CONSTANTS
  Sessions,
  Reachable,      \* sessions whose peer answers every attempt
  MaxConcurrent,  \* ResumeConfig.maxConcurrent
  MaxFails,       \* failures after which the delay is maxBackoffMs
  Waits,          \* Waits[n]: ticks an entry may sit out after its nth failure
  MaxFlights,     \* bound: attempts on one session at a time; the transport's timeout ends the oldest
  MaxOutages      \* bound: stops and crashes of the process

ASSUME ResumeAssumption ==
  /\ Reachable \subseteq Sessions
  /\ MaxConcurrent \in Nat \ {0}
  /\ MaxFails \in Nat \ {0}
  /\ Waits \in [1..MaxFails -> SUBSET Nat]
  /\ MaxFlights \in Nat \ {0}
  /\ MaxOutages \in Nat

VARIABLES
  mode,       \* the process: "down", "stopped" (manager not started), "running"
  row,        \* sessions.state, "none" without a row
  route,      \* keys of Agent.sessionConnections
  queued,     \* keys of pendingResumes
  ahead,      \* insertion order of pendingResumes: <<a, b>> when a is visited before b
  fails,      \* ResumeAttempt.attempts (MaxFails stands for that many or more)
  wait,       \* ticks until nextAttemptAt has passed
  flights,    \* attempts in progress on the entry in the map
  stale,      \* attempts in progress on an entry that left the map
  cancelled,  \* sessions taken out by cancelResume
  outages     \* stops and crashes so far

entryVars == <<queued, ahead, fails, wait>>
vars == <<mode, row, route, entryVars, flights, stale, cancelled, outages>>

TypeOK ==
  /\ mode \in {"down", "stopped", "running"}
  /\ row \in [Sessions -> {"none", "ACTIVE", "SUSPENDED"}]
  /\ route \in SUBSET Sessions
  /\ queued \in SUBSET Sessions
  /\ ahead \in SUBSET (Sessions \X Sessions)
  /\ fails \in [Sessions -> 0..MaxFails]
  /\ wait \in [Sessions -> Nat]
  /\ flights \in [Sessions -> Nat]
  /\ stale \in [Sessions -> Nat]
  /\ cancelled \in SUBSET Sessions
  /\ outages \in Nat

NoneOf == [s \in Sessions |-> 0]

Init ==
  /\ mode = "stopped"
  /\ row = [s \in Sessions |-> "none"]
  /\ route = {}
  /\ queued = {} /\ ahead = {} /\ fails = NoneOf /\ wait = NoneOf
  /\ flights = NoneOf /\ stale = NoneOf
  /\ cancelled = {}
  /\ outages = 0
-----------------------------------------------------------------------------
\* updateSessionState changes an existing row only.
SetRow(s, state) == row' = [row EXCEPT ![s] = IF @ = "none" THEN @ ELSE state]

\* The order of the map, restricted to the keys in q.
Among(a, q) == a \cap (q \X q)

\* The strict total orders of a set.
Orders(S) ==
  {r \in SUBSET (S \X S) :
     /\ \A x, y \in S : x # y => (<<x, y>> \in r) # (<<y, x>> \in r)
     /\ \A x \in S : <<x, x>> \notin r
     /\ \A x, y, z \in S : <<x, y>> \in r /\ <<y, z>> \in r => <<x, z>> \in r}

\* The entry of s leaves the map; attempts on it go on.
Drop(s) ==
  /\ queued' = queued \ {s}
  /\ ahead' = Among(ahead, queued \ {s})
  /\ fails' = [fails EXCEPT ![s] = 0]
  /\ wait' = [wait EXCEPT ![s] = 0]

\* processRetries, with the entries q in the order a and the waits w: attempt the
\* first MaxConcurrent due entries.  An entry without a row is dropped.
Process(q, a, w, fl) ==
  LET ready   == {s \in q : w[s] = 0}
      batch   == {s \in ready : Cardinality({t \in ready : <<t, s>> \in a}) < MaxConcurrent}
      started == {s \in batch : row[s] # "none"}
      kept    == q \ (batch \ started)
  IN  /\ \A s \in started : fl[s] + stale'[s] < MaxFlights
      /\ queued' = kept
      /\ ahead' = Among(a, kept)
      /\ flights' = [s \in Sessions |-> IF s \in started THEN fl[s] + 1 ELSE fl[s]]

\* Faulty variant of Start: the rows stay ACTIVE until their session is resumed.
StartKeepsActive ==
  LET found == {s \in Sessions : row[s] # "none"}
  IN  /\ mode = "stopped"
      /\ mode' = "running"
      /\ UNCHANGED row
      /\ cancelled' = cancelled \ found
      /\ fails' = [s \in Sessions |-> IF s \in found THEN 0 ELSE fails[s]]
      /\ wait' = [s \in Sessions |-> IF s \in found THEN 0 ELSE wait[s]]
      /\ stale' = [s \in Sessions |-> IF s \in found THEN stale[s] + flights[s] ELSE stale[s]]
      /\ \E order \in Orders(found \ queued) :
           Process(queued \cup found,
                   ahead \cup order \cup (queued \X (found \ queued)),
                   wait',
                   [s \in Sessions |-> IF s \in found THEN 0 ELSE flights[s]])
      /\ UNCHANGED <<route, outages>>

\* start: loadAndQueueSessions marks every resumable row SUSPENDED and gives it a
\* fresh entry (behind the entries already there, most recent row first), and
\* processRetries runs at once.
Start ==
  LET found == {s \in Sessions : row[s] # "none"}
  IN  /\ mode = "stopped"
      /\ mode' = "running"
      /\ row' = [s \in Sessions |-> IF s \in found THEN "SUSPENDED" ELSE "none"]
      /\ cancelled' = cancelled \ found
      /\ fails' = [s \in Sessions |-> IF s \in found THEN 0 ELSE fails[s]]
      /\ wait' = [s \in Sessions |-> IF s \in found THEN 0 ELSE wait[s]]
      /\ stale' = [s \in Sessions |-> IF s \in found THEN stale[s] + flights[s] ELSE stale[s]]
      /\ IF found = {}
         THEN UNCHANGED <<queued, ahead, flights>>
         ELSE \E order \in Orders(found \ queued) :
                Process(queued \cup found,
                        ahead \cup order \cup (queued \X (found \ queued)),
                        wait',
                        [s \in Sessions |-> IF s \in found THEN 0 ELSE flights[s]])
      /\ UNCHANGED <<route, outages>>

\* The interval timer.
Tick ==
  /\ mode = "running"
  /\ stale' = stale
  /\ wait' = [s \in Sessions |-> IF wait[s] = 0 THEN 0 ELSE wait[s] - 1]
  /\ Process(queued, ahead, wait, flights)
  /\ UNCHANGED <<mode, row, route, fails, cancelled, outages>>

\* resumeSession opened the route and returned true: the entry now in the map is
\* deleted, whichever attempt succeeded.  `old': the attempt's entry had left it.
Succeed(s, old) ==
  /\ IF old THEN stale[s] > 0 ELSE flights[s] > 0
  /\ route' = route \cup {s}
  /\ SetRow(s, "ACTIVE")
  /\ Drop(s)
  /\ flights' = [flights EXCEPT ![s] = 0]
  /\ stale' = [stale EXCEPT ![s] = @ + flights[s] - 1]
  /\ UNCHANGED <<mode, cancelled, outages>>

\* Faulty variant of Fail: no delay before the next attempt.
FailWithoutDelay(s, old) ==
  /\ s \notin Reachable
  /\ SetRow(s, "SUSPENDED")
  /\ IF old
     THEN /\ stale[s] > 0
          /\ stale' = [stale EXCEPT ![s] = @ - 1]
          /\ UNCHANGED <<fails, wait, flights>>
     ELSE /\ flights[s] > 0
          /\ flights' = [flights EXCEPT ![s] = @ - 1]
          /\ fails' = [fails EXCEPT ![s] = IF @ < MaxFails THEN @ + 1 ELSE @]
          /\ wait' = [wait EXCEPT ![s] = 0]
          /\ UNCHANGED stale
  /\ UNCHANGED <<mode, route, queued, ahead, cancelled, outages>>

\* Faulty variant of Fail: a failed entry is dropped.
FailDropsEntry(s, old) ==
  /\ s \notin Reachable
  /\ SetRow(s, "SUSPENDED")
  /\ IF old
     THEN /\ stale[s] > 0
          /\ stale' = [stale EXCEPT ![s] = @ - 1]
          /\ UNCHANGED <<entryVars, flights>>
     ELSE /\ flights[s] > 0
          /\ flights' = [flights EXCEPT ![s] = 0]
          /\ stale' = [stale EXCEPT ![s] = @ + flights[s] - 1]
          /\ Drop(s)
  /\ UNCHANGED <<mode, route, cancelled, outages>>

\* The attempt failed: its entry counts the failure and waits, the row is
\* SUSPENDED again, whatever became of the session since the attempt began.
Fail(s, old) ==
  /\ s \notin Reachable
  /\ SetRow(s, "SUSPENDED")
  /\ IF old
     THEN /\ stale[s] > 0
          /\ stale' = [stale EXCEPT ![s] = @ - 1]
          /\ UNCHANGED <<fails, wait, flights>>
     ELSE /\ flights[s] > 0
          /\ flights' = [flights EXCEPT ![s] = @ - 1]
          /\ fails' = [fails EXCEPT ![s] = IF @ < MaxFails THEN @ + 1 ELSE @]
          /\ \E w \in Waits[fails'[s]] : wait' = [wait EXCEPT ![s] = w]
          /\ UNCHANGED stale
  /\ UNCHANGED <<mode, route, queued, ahead, cancelled, outages>>

\* queueResume: a new entry, unless there is one.
QueueResume(s) ==
  /\ mode # "down"
  /\ s \notin queued
  /\ queued' = queued \cup {s}
  /\ ahead' = ahead \cup (queued \X {s})
  /\ cancelled' = cancelled \ {s}
  /\ UNCHANGED <<mode, row, route, fails, wait, flights, stale, outages>>

\* cancelResume
CancelResume(s) ==
  /\ s \in queued
  /\ Drop(s)
  /\ flights' = [flights EXCEPT ![s] = 0]
  /\ stale' = [stale EXCEPT ![s] = @ + flights[s]]
  /\ cancelled' = cancelled \cup {s}
  /\ UNCHANGED <<mode, row, route, outages>>

\* saveSession: INSERT OR REPLACE.
SaveSession(s, state) == row' = [row EXCEPT ![s] = state]

\* The agent's connect saved a new session, or reconnected one it had a route for.
Connect(s) ==
  /\ mode # "down"
  /\ row[s] = "none" \/ s \in route
  /\ SaveSession(s, "ACTIVE")
  /\ route' = route \cup {s}
  /\ UNCHANGED <<mode, entryVars, flights, stale, cancelled, outages>>

\* stop: the timer stops, attempts in progress go on.
Stop ==
  /\ mode = "running"
  /\ outages < MaxOutages
  /\ outages' = outages + 1
  /\ mode' = "stopped"
  /\ UNCHANGED <<row, route, entryVars, flights, stale, cancelled>>

\* The process dies; only the rows survive.
Crash ==
  /\ mode # "down"
  /\ outages < MaxOutages
  /\ outages' = outages + 1
  /\ mode' = "down"
  /\ route' = {} /\ cancelled' = {}
  /\ queued' = {} /\ ahead' = {} /\ fails' = NoneOf /\ wait' = NoneOf
  /\ flights' = NoneOf /\ stale' = NoneOf
  /\ UNCHANGED row

Boot ==
  /\ mode = "down"
  /\ mode' = "stopped"
  /\ UNCHANGED <<row, route, entryVars, flights, stale, cancelled, outages>>

Next ==
  \/ Start \/ Tick \/ Stop \/ Crash \/ Boot
  \/ \E s \in Sessions : \/ \E old \in BOOLEAN : Succeed(s, old) \/ Fail(s, old)
                         \/ QueueResume(s) \/ CancelResume(s) \/ Connect(s)

Spec == Init /\ [][Next]_vars

\* The timer fires, every attempt ends (the transport has timeouts), and whoever
\* stopped the process starts it again.
FairSpec ==
  /\ Spec
  /\ WF_vars(Tick) /\ WF_vars(Start) /\ WF_vars(Boot)
  /\ \A s \in Sessions, old \in BOOLEAN : WF_vars(Succeed(s, old) \/ Fail(s, old))
-----------------------------------------------------------------------------
\* While the manager runs, a row that says ACTIVE belongs to a session the agent
\* can reach: rows left by an earlier process, late results of attempts and
\* reconnects never make the table claim more than the agent has.
ActiveRowsHaveRoute ==
  mode = "running" => \A s \in Sessions : row[s] = "ACTIVE" => s \in route

\* While the manager runs, no suspended session is forgotten: it is still to be
\* resumed, or it was (and a late failure wrote SUSPENDED over ACTIVE), or its
\* resumption was cancelled.
NoSessionForgotten ==
  mode = "running" =>
    \A s \in Sessions : row[s] = "SUSPENDED" => s \in queued \cup route \cup cancelled

\* A suspended session whose peer answers is resumed in the end, although
\* sessions ahead of it keep failing, attempts overlap and the process may stop:
\* with no more such sessions than a tick attempts, their delays leave it a turn.
ReachableResumed ==
  Cardinality(Sessions \ Reachable) <= MaxConcurrent =>
    \A s \in Reachable : row[s] = "SUSPENDED" ~> row[s] = "ACTIVE" \/ s \in cancelled
=============================================================================
