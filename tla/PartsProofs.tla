----------------------------- MODULE PartsProofs -----------------------------
(***************************************************************************)
(* Proofs about the small components that MCParts runs, for all limits and  *)
(* any callers, files, windows: one invariant for each, and what it gives.  *)
(***************************************************************************)
EXTENDS RateLimiter, Shutdown, HealthMonitor, LogAnalyzer, WebhookRelay,
        RemoteCalls, Credentials, SequenceTheorems, FiniteSetTheorems, TLAPS

-----------------------------------------------------------------------------
\* THE RATE LIMITER

\* An allowed request lies in its window, and windows do not overlap.
Windows ==
  /\ \A i \in DOMAIN admitted :
       admitted[i].opened <= admitted[i].at /\ admitted[i].at <= admitted[i].opened + Window
  /\ \A i, j \in DOMAIN admitted :
       i < j => \/ admitted[i].opened = admitted[j].opened
                \/ admitted[i].opened + Window < admitted[j].opened

\* No window has more than the limit.
WindowsBounded ==
  \A i \in DOMAIN admitted :
    i + MaxRequests \in DOMAIN admitted => admitted[i].opened # admitted[i + MaxRequests].opened

\* The entry is of the last window and counts its requests; without one, all
\* windows are over.
EntryCounts ==
  IF entry.present
  THEN /\ entry.count \in 1..MaxRequests
       /\ entry.resetAt - Window <= now
       /\ \A i \in DOMAIN admitted :
            \/ admitted[i].opened = entry.resetAt - Window /\ i > Len(admitted) - entry.count
            \/ admitted[i].opened + Window < entry.resetAt - Window
  ELSE \A i \in DOMAIN admitted : admitted[i].opened + Window < now

LimiterTypeOK ==
  /\ now \in Nat
  /\ entry \in [present : BOOLEAN, count : Nat, resetAt : Nat]
  /\ admitted \in Seq([at : Nat, opened : Int])

LimiterInv == LimiterTypeOK /\ Windows /\ WindowsBounded /\ EntryCounts

LEMMA LimiterStarts == LimiterInit => LimiterInv
BY DEF LimiterInit, LimiterInv, LimiterTypeOK, Windows, WindowsBounded, EntryCounts, NoEntry

LEMMA AdmittedTyped ==
  ASSUME LimiterTypeOK, NEW i \in 1..Len(admitted)
  PROVE  admitted[i].at \in Nat /\ admitted[i].opened \in Int
<1>1. admitted \in Seq([at : Nat, opened : Int])
  BY DEF LimiterTypeOK
<1>2. admitted[i] \in [at : Nat, opened : Int]
  BY <1>1, ElementOfSeq
<1> QED
  BY <1>2

\* A request that is let in at the end of the sequence, in the window of e.
LEMMA AdmitFacts ==
  ASSUME LimiterInv, NEW e \in [present : BOOLEAN, count : Nat, resetAt : Nat], Admit(e)
  PROVE  LET x == [at |-> now, opened |-> e.resetAt - Window] IN
         /\ LimiterTypeOK'
         /\ entry' = e /\ now' = now
         /\ Len(admitted') = Len(admitted) + 1
         /\ admitted'[Len(admitted) + 1] = x
         /\ \A i \in DOMAIN admitted : i \in DOMAIN admitted' /\ admitted'[i] = admitted[i]
         /\ \A i \in DOMAIN admitted' : i \in DOMAIN admitted \/ i = Len(admitted) + 1
BY LimiterAssumption DEF LimiterInv, LimiterTypeOK, Admit

\* The windows after an admission of a request whose window is the last one or a
\* new one.
LEMMA AdmitWindows ==
  ASSUME LimiterInv, LimiterTypeOK', Window \in Nat, NEW L \in Nat,
         DOMAIN admitted = 1..L, DOMAIN admitted' = 1..(L + 1),
         \A i \in 1..L : admitted'[i] = admitted[i],
         \A i \in 1..L : admitted[i].at \in Nat /\ admitted[i].opened \in Int,
         NEW opened \in Int, now \in Nat, opened <= now, now <= opened + Window,
         admitted'[L + 1].at = now, admitted'[L + 1].opened = opened,
         \A i \in 1..L : admitted[i].opened = opened \/ admitted[i].opened + Window < opened
  PROVE  Windows'
<1>1. \A i \in 1..(L + 1) : i \in 1..L \/ i = L + 1
  OBVIOUS
<1>2. ASSUME NEW i \in 1..(L + 1)
      PROVE  admitted'[i].opened <= admitted'[i].at /\ admitted'[i].at <= admitted'[i].opened + Window
  <2>1. CASE i \in 1..L
    BY <2>1 DEF LimiterInv, Windows
  <2> QED
    BY <1>1, <2>1
<1>3. ASSUME NEW i \in 1..(L + 1), NEW j \in 1..(L + 1), i < j
      PROVE  \/ admitted'[i].opened = admitted'[j].opened
             \/ admitted'[i].opened + Window < admitted'[j].opened
  <2>1. i \in 1..L
    BY <1>3
  <2>2. CASE j \in 1..L
    BY <1>3, <2>1, <2>2 DEF LimiterInv, Windows
  <2>3. CASE j = L + 1
    BY <2>1, <2>3
  <2> QED
    BY <1>1, <2>2, <2>3
<1> QED
  BY <1>2, <1>3 DEF Windows

LEMMA ResetStep == ASSUME LimiterInv, Reset PROVE LimiterInv'
<1> DEFINE e == [present |-> TRUE, count |-> 1, resetAt |-> now + Window]
           L == Len(admitted)
<1>1. LimiterTypeOK /\ Window \in Nat /\ MaxRequests \in Nat \ {0} /\ L \in Nat /\ DOMAIN admitted = 1..L
  BY LimiterAssumption DEF LimiterInv, LimiterTypeOK
<1>2. e \in [present : BOOLEAN, count : Nat, resetAt : Nat] /\ Admit(e)
  BY <1>1 DEF Reset, LimiterTypeOK
<1>3. /\ LimiterTypeOK' /\ entry' = e /\ now' = now /\ Len(admitted') = L + 1
      /\ admitted'[L + 1] = [at |-> now, opened |-> e.resetAt - Window]
      /\ \A i \in 1..L : admitted'[i] = admitted[i]
      /\ DOMAIN admitted' = 1..(L + 1)
  <2>1. LimiterTypeOK' /\ Len(admitted') = L + 1
    BY <1>2, AdmitFacts
  <2>2. DOMAIN admitted' = 1..(L + 1)
    BY <2>1 DEF LimiterTypeOK
  <2> QED
    BY <1>1, <1>2, <2>1, <2>2, AdmitFacts
<1>4. admitted'[L + 1].at = now /\ admitted'[L + 1].opened = now /\ now \in Nat
  BY <1>1, <1>3 DEF LimiterTypeOK
<1>5. \A i \in 1..L : admitted[i].at \in Nat /\ admitted[i].opened \in Int
  BY <1>1, AdmittedTyped
<1>6. \A i \in 1..L : admitted[i].opened + Window < now
  <2> SUFFICES ASSUME NEW i \in 1..L PROVE admitted[i].opened + Window < now
    OBVIOUS
  <2>1. admitted[i].opened \in Int /\ now \in Nat /\ entry.resetAt \in Nat
    BY <1>1, <1>5 DEF LimiterTypeOK
  <2>2. CASE ~entry.present
    BY <1>1, <2>2 DEF LimiterInv, EntryCounts
  <2>3. CASE entry.present
    <3>1. now > entry.resetAt
      BY <2>3 DEF Reset
    <3>2. \/ admitted[i].opened = entry.resetAt - Window
          \/ admitted[i].opened + Window < entry.resetAt - Window
      BY <1>1, <2>3 DEF LimiterInv, EntryCounts
    <3> QED
      BY <1>1, <2>1, <3>1, <3>2
  <2> QED
    BY <2>2, <2>3
<1> HIDE DEF e, L
<1>7. Windows'
  <2>1. \A i \in 1..L : admitted[i].opened = now \/ admitted[i].opened + Window < now
    BY <1>6
  <2>2. now \in Int /\ now <= now /\ now <= now + Window
    BY <1>1, <1>4
  <2> QED
    BY <1>1, <1>3, <1>4, <1>5, <2>1, <2>2, AdmitWindows
<1>8. WindowsBounded'
  <2> SUFFICES ASSUME NEW i \in 1..(L + 1), i + MaxRequests \in 1..(L + 1)
               PROVE  admitted'[i].opened # admitted'[i + MaxRequests].opened
    BY <1>3 DEF WindowsBounded
  <2>1. i \in 1..L
    BY <1>1
  <2>2. CASE i + MaxRequests \in 1..L
    BY <1>1, <1>3, <2>1, <2>2 DEF WindowsBounded, LimiterInv
  <2>3. CASE i + MaxRequests = L + 1
    <3>1. admitted'[i + MaxRequests].opened = now
      BY <1>4, <2>3
    <3>2. admitted'[i].opened \in Int /\ admitted'[i].opened + Window < now
      BY <1>3, <1>5, <1>6, <2>1
    <3>3. Window \in Nat /\ now \in Int
      BY <1>1, <1>4
    <3> QED
      BY <3>1, <3>2, <3>3
  <2> QED
    BY <1>1, <2>2, <2>3
<1>9. EntryCounts'
  BY <1>1, <1>3, <1>4, <1>5, <1>6 DEF EntryCounts, e, L
<1> QED
  BY <1>3, <1>7, <1>8, <1>9 DEF LimiterInv

LEMMA AllowStep == ASSUME LimiterInv, Allow PROVE LimiterInv'
<1> DEFINE e == [entry EXCEPT !.count = @ + 1]
           L == Len(admitted)
           opened == entry.resetAt - Window
<1>1. LimiterTypeOK /\ Window \in Nat /\ MaxRequests \in Nat \ {0} /\ L \in Nat /\ DOMAIN admitted = 1..L
  BY LimiterAssumption DEF LimiterInv, LimiterTypeOK
<1>2. e \in [present : BOOLEAN, count : Nat, resetAt : Nat] /\ Admit(e)
  <2>1. entry \in [present : BOOLEAN, count : Nat, resetAt : Nat]
    BY <1>1 DEF LimiterTypeOK
  <2>2. e \in [present : BOOLEAN, count : Nat, resetAt : Nat]
    BY <2>1
  <2> QED
    BY <2>2 DEF Allow
<1>3. /\ LimiterTypeOK' /\ entry' = e /\ now' = now /\ Len(admitted') = L + 1
      /\ admitted'[L + 1] = [at |-> now, opened |-> e.resetAt - Window]
      /\ \A i \in 1..L : admitted'[i] = admitted[i]
      /\ DOMAIN admitted' = 1..(L + 1)
  <2>1. LimiterTypeOK' /\ Len(admitted') = L + 1
    BY <1>2, AdmitFacts
  <2>2. DOMAIN admitted' = 1..(L + 1)
    BY <2>1 DEF LimiterTypeOK
  <2> QED
    BY <1>1, <1>2, <2>1, <2>2, AdmitFacts
<1>4. /\ e.present /\ e.count = entry.count + 1 /\ e.resetAt = entry.resetAt
      /\ entry.count \in 1..MaxRequests /\ entry.count < MaxRequests
      /\ now \in Nat /\ opened \in Int /\ opened <= now /\ now <= opened + Window
  BY <1>1 DEF Allow, LimiterTypeOK, LimiterInv, EntryCounts
<1>5. admitted'[L + 1].at = now /\ admitted'[L + 1].opened = opened
  BY <1>3, <1>4
<1>6. \A i \in 1..L : admitted[i].at \in Nat /\ admitted[i].opened \in Int
  BY <1>1, AdmittedTyped
<1>7. \A i \in 1..L :
        \/ admitted[i].opened = opened /\ i > L - entry.count
        \/ admitted[i].opened + Window < opened
  BY <1>1 DEF Allow, LimiterInv, EntryCounts
<1> HIDE DEF e, L, opened
<1>8. Windows'
  <2>1. \A i \in 1..L : admitted[i].opened = opened \/ admitted[i].opened + Window < opened
    BY <1>7
  <2> QED
    BY <1>1, <1>3, <1>4, <1>5, <1>6, <2>1, AdmitWindows
<1>9. WindowsBounded'
  <2> SUFFICES ASSUME NEW i \in 1..(L + 1), i + MaxRequests \in 1..(L + 1)
               PROVE  admitted'[i].opened # admitted'[i + MaxRequests].opened
    BY <1>3 DEF WindowsBounded
  <2>1. i \in 1..L
    BY <1>1
  <2>2. CASE i + MaxRequests \in 1..L
    BY <1>1, <1>3, <2>1, <2>2 DEF WindowsBounded, LimiterInv
  <2>3. CASE i + MaxRequests = L + 1
    <3>1. ~(i > L - entry.count)
      BY <1>1, <1>4, <2>1, <2>3
    <3>2. admitted[i].opened + Window < opened
      BY <1>7, <2>1, <3>1
    <3>3. admitted'[i + MaxRequests].opened = opened
      BY <1>5, <2>3
    <3>4. admitted'[i].opened \in Int /\ admitted'[i].opened + Window < opened
      BY <1>3, <1>6, <2>1, <3>2
    <3>5. Window \in Nat /\ opened \in Int
      BY <1>1, <1>4
    <3> QED
      BY <3>3, <3>4, <3>5
  <2> QED
    BY <1>1, <2>2, <2>3
<1>10. EntryCounts'
  <2>1. entry'.present /\ entry'.count = entry.count + 1 /\ entry'.count \in 1..MaxRequests
    BY <1>1, <1>3, <1>4
  <2>2. entry'.resetAt - Window = opened /\ entry'.resetAt - Window <= now'
    BY <1>3, <1>4 DEF opened
  <2>3. ASSUME NEW i \in 1..(L + 1)
        PROVE  \/ admitted'[i].opened = opened /\ i > (L + 1) - entry'.count
               \/ admitted'[i].opened + Window < opened
    <3>1. CASE i \in 1..L
      BY <1>1, <1>3, <1>4, <1>7, <2>1, <3>1
    <3>2. CASE i = L + 1
      BY <1>1, <1>4, <1>5, <2>1, <3>2
    <3> QED
      BY <1>1, <3>1, <3>2
  <2> QED
    BY <1>3, <2>1, <2>2, <2>3 DEF EntryCounts
<1> QED
  BY <1>3, <1>8, <1>9, <1>10 DEF LimiterInv

LEMMA LimiterKeeps == LimiterInv /\ [LimiterNext]_limiterVars => LimiterInv'
<1> SUFFICES ASSUME LimiterInv, [LimiterNext]_limiterVars PROVE LimiterInv'
  OBVIOUS
<1>1. LimiterTypeOK /\ Window \in Nat /\ DOMAIN admitted = 1..Len(admitted)
  BY LimiterAssumption DEF LimiterInv, LimiterTypeOK
<1>2. \A i \in DOMAIN admitted : admitted[i].opened \in Int
  BY <1>1, AdmittedTyped
<1>3. CASE Tick
  <2>1. now' = now + 1 /\ UNCHANGED <<entry, admitted>>
    BY <1>3 DEF Tick
  <2>2. EntryCounts'
    BY <1>1, <1>2, <2>1 DEF LimiterInv, EntryCounts, LimiterTypeOK
  <2> QED
    BY <1>1, <2>1, <2>2 DEF LimiterInv, LimiterTypeOK, Windows, WindowsBounded
<1>4. CASE Cleanup
  <2>1. entry' = NoEntry /\ now > entry.resetAt /\ entry.present /\ UNCHANGED <<now, admitted>>
    BY <1>4 DEF Cleanup
  <2>2. EntryCounts'
    <3> SUFFICES ASSUME NEW i \in DOMAIN admitted PROVE admitted[i].opened + Window < now
      BY <2>1 DEF EntryCounts, NoEntry
    <3>1. \/ admitted[i].opened = entry.resetAt - Window
          \/ admitted[i].opened + Window < entry.resetAt - Window
      BY <2>1 DEF LimiterInv, EntryCounts
    <3>2. entry.resetAt \in Nat /\ now \in Nat
      BY <1>1 DEF LimiterTypeOK
    <3> QED
      BY <1>1, <1>2, <2>1, <3>1, <3>2
  <2>3. LimiterTypeOK'
    BY <1>1, <2>1 DEF LimiterTypeOK, NoEntry
  <2> QED
    BY <2>1, <2>2, <2>3 DEF LimiterInv, Windows, WindowsBounded
<1>5. CASE UNCHANGED limiterVars
  BY <1>5 DEF limiterVars, LimiterInv, LimiterTypeOK, Windows, WindowsBounded, EntryCounts
<1> QED
  BY <1>3, <1>4, <1>5, ResetStep, AllowStep DEF LimiterNext

\* Two times the limit of requests on, the next but one window has opened.
LEMMA LimiterBound == LimiterInv => WindowBound
<1> SUFFICES ASSUME LimiterInv, NEW i \in DOMAIN admitted, i + 2 * MaxRequests \in DOMAIN admitted
             PROVE  admitted[i + 2 * MaxRequests].at > admitted[i].at + Window
  BY DEF WindowBound
<1> DEFINE L == Len(admitted)
           j == i + MaxRequests
           k == i + 2 * MaxRequests
<1>1. LimiterTypeOK /\ Window \in Nat /\ MaxRequests \in Nat \ {0} /\ L \in Nat /\ DOMAIN admitted = 1..L
  BY LimiterAssumption DEF LimiterInv, LimiterTypeOK
<1>2. i \in 1..L /\ j \in 1..L /\ k \in 1..L /\ i < j /\ j < k /\ j + MaxRequests = k
  BY <1>1
<1>3. \A x \in 1..L : admitted[x].at \in Nat /\ admitted[x].opened \in Int
  BY <1>1, AdmittedTyped
<1> HIDE DEF L, j, k
<1>4. admitted[i].opened # admitted[j].opened /\ admitted[j].opened # admitted[k].opened
  BY <1>1, <1>2 DEF LimiterInv, WindowsBounded, j
<1>5. admitted[i].opened + Window < admitted[j].opened /\ admitted[j].opened + Window < admitted[k].opened
  BY <1>1, <1>2, <1>4 DEF LimiterInv, Windows
<1>6. admitted[i].at <= admitted[i].opened + Window /\ admitted[k].opened <= admitted[k].at
  BY <1>1, <1>2 DEF LimiterInv, Windows
<1>7. /\ admitted[i].at \in Nat /\ admitted[k].at \in Nat
      /\ admitted[i].opened \in Int /\ admitted[j].opened \in Int /\ admitted[k].opened \in Int
  BY <1>2, <1>3
<1>8. ASSUME NEW a \in Int, NEW b \in Int, NEW c \in Int, NEW x \in Int, NEW y \in Int,
             a + Window < b, b + Window < c, x <= a + Window, c <= y
      PROVE  y > x + Window
  BY <1>8, LimiterAssumption
<1>9. admitted[k].at > admitted[i].at + Window
  BY <1>5, <1>6, <1>7, <1>8
<1> QED
  BY <1>9 DEF k

\* In any span of a window's length a key gets at most twice the limit
\* (bug-report-server isAllowed, cleanup), for any limit, window and clock.
THEOREM LimiterBounded == LimiterSpec => []WindowBound
BY LimiterStarts, LimiterKeeps, LimiterBound, PTL DEF LimiterSpec
-----------------------------------------------------------------------------
\* THE LOG ANALYZER

Content == [id : Nat, size : Nat]

LogTypeOK ==
  /\ {file, entries, stat} \subseteq Content
  /\ {lastSize, loadedId} \subseteq Nat
  /\ loading \in {"no", "changed", "stat"}

\* x was the file's content, then or earlier.
Earlier(x, y) == x.id < y.id \/ (x.id = y.id /\ x.size <= y.size)

LogInv ==
  /\ LogTypeOK
  /\ Earlier(entries, file)
  /\ Earlier([id |-> loadedId, size |-> lastSize], entries)
  /\ loading = "stat" => Earlier(stat, file)

LEMMA LogKeeps == LogInv /\ [LogNext]_logVars => LogInv'
<1> SUFFICES ASSUME LogInv, [LogNext]_logVars PROVE LogInv'
  OBVIOUS
<1> USE DEF LogInv, LogTypeOK, Content, Earlier
<1>1. CASE Log
  BY <1>1 DEF Log
<1>2. CASE Rotate
  BY <1>2 DEF Rotate
<1>3. CASE ReloadIfChanged
  BY <1>3 DEF ReloadIfChanged
<1>4. CASE LoadStat
  BY <1>4 DEF LoadStat
<1>5. CASE LoadRead
  BY <1>5 DEF LoadRead
<1>6. CASE LoadFails
  BY <1>6 DEF LoadFails
<1>7. CASE UNCHANGED logVars
  BY <1>7 DEF logVars
<1> QED
  BY <1>1, <1>2, <1>3, <1>4, <1>5, <1>6, <1>7 DEF LogNext

\* If the size found by a check is the one a load found, and the file is still the
\* same, the entries are what is in it (log-analyzer loadLogFile, reloadIfChanged).
THEOREM LogLoaded == LogInit /\ [][LogNext]_logVars => []UnchangedIsLoaded
<1>1. LogInit => LogInv
  BY DEF LogInit, LogInv, LogTypeOK, Content, Earlier
<1>2. LogInv => UnchangedIsLoaded
  <2> SUFFICES ASSUME LogInv, loadedId = file.id, lastSize = file.size PROVE entries = file
    BY DEF UnchangedIsLoaded
  <2>1. entries.id = file.id /\ entries.size = file.size
    BY DEF LogInv, LogTypeOK, Content, Earlier
  <2> QED
    BY <2>1 DEF LogInv, LogTypeOK, Content
<1> QED
  BY <1>1, <1>2, LogKeeps, PTL
-----------------------------------------------------------------------------
\* THE HEALTH MONITOR

MonitorTypeOK ==
  /\ made \in 0..MaxEndpoints
  /\ listed \in 0..made
  /\ address \in [Endpoints -> Urls \cup {"none"}]
  /\ \A e \in 1..made : address[e] \in Urls
  /\ monitored \in [Urls -> 0..made]
  /\ timers \subseteq 1..made
  /\ probes \in [Slots -> [url : Urls \cup {"none"}, of : 0..MaxEndpoints]]
  /\ history \in [Endpoints -> Seq(0..MaxEndpoints)]
  /\ phase \in {"starting", "running", "quitting"}

\* An endpoint is monitored for one URL.
OneUrl == \A u, v \in Urls : monitored[u] = monitored[v] /\ monitored[u] # 0 => u = v

MonitorInv == MonitorTypeOK /\ OneUrl /\ OwnResults

LEMMA MonitorStarts == MonitorInit => MonitorInv
<1> SUFFICES ASSUME MonitorInit PROVE MonitorInv
  OBVIOUS
<1>1. MonitorTypeOK
  <2>1. Free \in [url : Urls \cup {"none"}, of : 0..MaxEndpoints]
    BY MonitorAssumption DEF Free
  <2>2. probes \in [Slots -> [url : Urls \cup {"none"}, of : 0..MaxEndpoints]]
    BY <2>1 DEF MonitorInit
  <2>3. history \in [Endpoints -> Seq(0..MaxEndpoints)]
    BY DEF MonitorInit
  <2>4. made \in 0..MaxEndpoints /\ monitored \in [Urls -> 0..made]
    BY MonitorAssumption DEF MonitorInit
  <2>5. listed \in 0..made /\ \A e \in 1..made : address[e] \in Urls
    BY DEF MonitorInit
  <2> QED
    BY <2>2, <2>3, <2>4, <2>5 DEF MonitorInit, MonitorTypeOK
<1>2. OneUrl /\ OwnResults
  BY DEF MonitorInit, OneUrl, OwnResults
<1> QED
  BY <1>1, <1>2 DEF MonitorInv

LEMMA AddedKeeps ==
  ASSUME NEW S, NEW h \in Seq(S), NEW x \in S
  PROVE  Added(h, x) \in Seq(S)
<1> DEFINE all == Append(h, x)
<1>1. all \in Seq(S) /\ Len(all) \in Nat
  OBVIOUS
<1>2. Len(all) > MaxHistory => \A i \in (Len(all) - MaxHistory + 1)..Len(all) : all[i] \in S
  BY <1>1, MonitorAssumption, ElementOfSeq
<1> HIDE DEF all
<1>3. Len(all) > MaxHistory => SubSeq(all, Len(all) - MaxHistory + 1, Len(all)) \in Seq(S)
  BY <1>1, <1>2, MonitorAssumption, SubSeqProperties
<1> QED
  BY <1>1, <1>3 DEF Added, all

\* A probe is of a URL, and for an endpoint that was made, or by check.
LEMMA ProbeTyped ==
  ASSUME MonitorTypeOK, NEW u \in Urls, NEW e \in 0..MaxEndpoints, Probe(u, e)
  PROVE  probes' \in [Slots -> [url : Urls \cup {"none"}, of : 0..MaxEndpoints]]
<1>1. PICK p \in Slots : probes' = [probes EXCEPT ![p] = [url |-> u, of |-> e]]
  BY DEF Probe
<1>2. [url |-> u, of |-> e] \in [url : Urls \cup {"none"}, of : 0..MaxEndpoints]
  OBVIOUS
<1> QED
  BY <1>1, <1>2 DEF MonitorTypeOK

LEMMA ProbedTarget ==
  ASSUME MonitorTypeOK, NEW p \in Slots, probes[p] # Free
  PROVE  LET e == IF probes[p].of = 0 THEN monitored[probes[p].url] ELSE probes[p].of
         IN  e \in 0..MaxEndpoints /\ probes[p].of \in {0, e}
<1>1. probes[p] \in [url : Urls \cup {"none"}, of : 0..MaxEndpoints]
  BY DEF MonitorTypeOK
<1>2. CASE probes[p].of = 0
  <2>1. probes[p].url \in Urls
    BY <1>1, <1>2 DEF Free
  <2>2. monitored[probes[p].url] \in 0..made /\ made \in 0..MaxEndpoints
    BY <2>1 DEF MonitorTypeOK
  <2> QED
    BY <1>2, <2>2, MonitorAssumption
<1>3. CASE probes[p].of # 0
  BY <1>1, <1>3
<1> QED
  BY <1>2, <1>3

LEMMA ProbedStep == ASSUME MonitorInv, NEW p \in Slots, Probed(p) PROVE MonitorInv'
<1> DEFINE e == IF probes[p].of = 0 THEN monitored[probes[p].url] ELSE probes[p].of
<1>1. MonitorTypeOK /\ OneUrl /\ OwnResults
  BY DEF MonitorInv
<1>2. e \in 0..MaxEndpoints /\ probes[p].of \in {0, e} /\ probes[p].of \in 0..MaxEndpoints
  <2>1. e \in 0..MaxEndpoints /\ probes[p].of \in {0, e}
    BY <1>1, ProbedTarget DEF Probed
  <2> QED
    BY <2>1, MonitorAssumption
<1>3. /\ history' = IF e = 0 THEN history ELSE [history EXCEPT ![e] = Added(@, probes[p].of)]
      /\ probes' = [probes EXCEPT ![p] = Free]
      /\ UNCHANGED <<monitored, made, listed, address, timers, phase>>
  BY DEF Probed
<1> HIDE DEF e
<1>4. probes' \in [Slots -> [url : Urls \cup {"none"}, of : 0..MaxEndpoints]]
  <2>1. Free \in [url : Urls \cup {"none"}, of : 0..MaxEndpoints]
    BY MonitorAssumption DEF Free
  <2> QED
    BY <1>1, <1>3, <2>1 DEF MonitorTypeOK
<1>5. ASSUME NEW x \in Endpoints
      PROVE  history'[x] \in Seq(0..MaxEndpoints) /\ \A i \in DOMAIN history'[x] : history'[x][i] \in {0, x}
  <2>1. history[x] \in Seq(0..MaxEndpoints) /\ \A i \in DOMAIN history[x] : history[x][i] \in {0, x}
    BY <1>1 DEF MonitorTypeOK, OwnResults
  <2>2. CASE e = 0 \/ x # e
    BY <1>1, <1>3, <2>1, <2>2 DEF MonitorTypeOK
  <2>3. CASE e # 0 /\ x = e
    <3> DEFINE S == {0, x} \cap (0..MaxEndpoints)
    <3>1. history[x] \in Seq(S)
      <4>1. \A i \in 1..Len(history[x]) : history[x][i] \in S
        <5> SUFFICES ASSUME NEW i \in 1..Len(history[x]) PROVE history[x][i] \in S
          OBVIOUS
        <5>1. history[x][i] \in 0..MaxEndpoints
          BY <2>1, ElementOfSeq
        <5>2. i \in DOMAIN history[x]
          BY <2>1
        <5> QED
          BY <2>1, <5>1, <5>2
      <4> HIDE DEF S
      <4> QED
        BY <2>1, <4>1
    <3>2. probes[p].of \in S
      BY <1>2, <2>3
    <3>3. history'[x] = Added(history[x], probes[p].of)
      BY <1>1, <1>3, <2>3 DEF MonitorTypeOK
    <3>4. history'[x] \in Seq(S)
      BY <3>1, <3>2, <3>3, AddedKeeps
    <3>5. history'[x] \in Seq(0..MaxEndpoints)
      BY <3>4, SeqMonotonic
    <3>6. \A i \in DOMAIN history'[x] : history'[x][i] \in S
      BY <3>4, ElementOfSeq
    <3> QED
      BY <3>5, <3>6
  <2> QED
    BY <2>2, <2>3
<1>6. DOMAIN history' = Endpoints /\ history' = [x \in Endpoints |-> history'[x]]
  BY <1>1, <1>3 DEF MonitorTypeOK
<1>7. history' \in [Endpoints -> Seq(0..MaxEndpoints)]
  BY <1>5, <1>6
<1>8. MonitorTypeOK'
  BY <1>1, <1>3, <1>4, <1>7 DEF MonitorTypeOK
<1>9. OneUrl' /\ OwnResults'
  BY <1>1, <1>3, <1>5 DEF OneUrl, OwnResults, Monitored
<1> QED
  BY <1>8, <1>9 DEF MonitorInv

\* The start: what is replaced in the map has a later endpoint of the same URL.
LEMMA StartUpStep ==
  ASSUME MonitorInv, NEW n \in Endpoints \cup {0}, NEW urls \in [1..n -> Urls], StartUp(n, urls)
  PROVE  MonitorInv'
<1>1. /\ phase' = "running" /\ made' = n /\ listed' = n /\ history' = history
      /\ address' = [e \in Endpoints |-> IF e <= n THEN urls[e] ELSE "none"]
      /\ monitored' \in [Urls -> 0..n]
      /\ timers' = 1..n
      /\ probes' = [p \in Slots |-> IF p <= n THEN [url |-> urls[p], of |-> p] ELSE Free]
  BY DEF StartUp
<1>2. /\ n \in 0..MaxEndpoints /\ MaxEndpoints \in Nat /\ MaxProbes \in Nat
      /\ 1..n \subseteq Endpoints
  BY MonitorAssumption DEF Endpoints
<1>3. \A e \in 1..n : address'[e] = urls[e] /\ urls[e] \in Urls
  BY <1>1, <1>2
<1>4. \A u \in Urls : /\ monitored'[u] # 0 => urls[monitored'[u]] = u
                     /\ \A e \in (monitored'[u] + 1)..n : urls[e] # u
  BY DEF StartUp
<1>5. \A u \in Urls : monitored'[u] \in 0..n
  BY <1>1
<1>6. MonitorTypeOK'
  <2>1. probes' \in [Slots -> [url : Urls \cup {"none"}, of : 0..MaxEndpoints]]
    <3>1. Free \in [url : Urls \cup {"none"}, of : 0..MaxEndpoints]
      BY MonitorAssumption DEF Free
    <3>2. \A p \in Slots : p <= n => [url |-> urls[p], of |-> p] \in [url : Urls \cup {"none"}, of : 0..MaxEndpoints]
      BY <1>2, <1>3 DEF Slots
    <3> QED
      BY <1>1, <3>1, <3>2
  <2>2. address' \in [Endpoints -> Urls \cup {"none"}]
    BY <1>1, <1>2, <1>3 DEF Endpoints
  <2>3. history' \in [Endpoints -> Seq(0..MaxEndpoints)]
    BY <1>1 DEF MonitorInv, MonitorTypeOK
  <2> QED
    BY <1>1, <1>2, <1>3, <2>1, <2>2, <2>3 DEF MonitorTypeOK
<1>7. OneUrl'
  BY <1>4, <1>5 DEF OneUrl
<1>8. OwnResults'
  <2>1. Monitored' \subseteq timers'
    BY <1>1, <1>2, <1>5 DEF Monitored
  <2>2. ASSUME NEW e \in timers'
        PROVE  e \in Monitored' \/ \E f \in (e + 1)..listed' : address'[f] = address'[e]
    <3>1. e \in 1..n /\ urls[e] \in Urls
      BY <1>1, <1>3, <2>2
    <3> DEFINE k == monitored'[urls[e]]
    <3>2. k \in 0..n
      BY <1>5, <3>1
    <3>3. ~(e > k)
      <4>1. e > k => e \in (k + 1)..n
        BY <1>2, <3>1, <3>2
      <4> QED
        BY <1>4, <3>1, <4>1
    <3>4. CASE e = k
      BY <3>1, <3>4 DEF Monitored
    <3>5. CASE e < k
      <4>1. k \in (e + 1)..listed' /\ k \in 1..n /\ k # 0
        BY <1>1, <1>2, <3>1, <3>2, <3>5
      <4>2. urls[k] = urls[e]
        BY <1>4, <3>1, <4>1
      <4>3. address'[k] = address'[e]
        BY <1>3, <3>1, <4>1, <4>2
      <4> QED
        BY <4>1, <4>3
    <3> QED
      BY <1>2, <3>1, <3>2, <3>3, <3>4, <3>5
  <2>3. \A e \in Endpoints : \A i \in DOMAIN history'[e] : history'[e][i] \in {0, e}
    BY <1>1 DEF MonitorInv, OwnResults
  <2> QED
    BY <2>1, <2>2, <2>3 DEF OwnResults
<1> QED
  BY <1>6, <1>7, <1>8 DEF MonitorInv

LEMMA IntervalStep == ASSUME MonitorInv, NEW e \in Endpoints, Interval(e) PROVE MonitorInv'
<1>1. /\ MonitorTypeOK /\ OneUrl /\ OwnResults
      /\ UNCHANGED <<monitored, made, listed, address, timers, history, phase>>
  BY DEF MonitorInv, Interval
<1>2. address[e] \in Urls /\ e \in 0..MaxEndpoints /\ Probe(address[e], e)
  BY <1>1, MonitorAssumption DEF Interval, MonitorTypeOK, Endpoints
<1>3. probes' \in [Slots -> [url : Urls \cup {"none"}, of : 0..MaxEndpoints]]
  BY <1>1, <1>2, ProbeTyped
<1>4. MonitorTypeOK'
  BY <1>1, <1>3 DEF MonitorTypeOK
<1>5. OneUrl' /\ OwnResults'
  BY <1>1 DEF OneUrl, OwnResults, Monitored
<1> QED
  BY <1>4, <1>5 DEF MonitorInv

LEMMA UrlStep ==
  ASSUME MonitorInv, NEW u \in Urls, Add(u) \/ Check(u) \/ RemoveUrl(u)
  PROVE  MonitorInv'
<1>1. /\ made \in 0..MaxEndpoints /\ MaxEndpoints \in Nat
      /\ monitored \in [Urls -> 0..made]
      /\ timers \subseteq 1..made
      /\ listed \in 0..made
      /\ address \in [Endpoints -> Urls \cup {"none"}]
      /\ \A e \in 1..made : address[e] \in Urls
      /\ history \in [Endpoints -> Seq(0..MaxEndpoints)]
      /\ MonitorTypeOK
  BY MonitorAssumption DEF MonitorInv, MonitorTypeOK
<1>2. \A v \in Urls : monitored[v] \in 0..made
  BY <1>1
<1>3. OneUrl /\ OwnResults
  BY DEF MonitorInv
<1>4. history' = history /\ phase' = phase /\ listed' = listed
  BY DEF Add, Check, RemoveUrl
<1>5. CASE Add(u)
  <2>1. /\ monitored[u] = 0 /\ made' = made + 1 /\ made + 1 \in 1..MaxEndpoints
        /\ monitored' = [monitored EXCEPT ![u] = made + 1]
        /\ address' = [address EXCEPT ![made + 1] = u]
        /\ timers' = timers \cup {made + 1}
        /\ Probe(u, made + 1)
    BY <1>1, <1>5 DEF Add
  <2>2. probes' \in [Slots -> [url : Urls \cup {"none"}, of : 0..MaxEndpoints]]
    <3>1. made + 1 \in 0..MaxEndpoints
      BY <1>1, <2>1
    <3> QED
      BY <1>1, <2>1, <3>1, ProbeTyped
  <2>3. \A v \in Urls : monitored'[v] = IF v = u THEN made + 1 ELSE monitored[v]
    BY <1>1, <2>1
  <2>4. monitored' \in [Urls -> 0..(made + 1)]
    <3>1. made + 1 \in 0..(made + 1) /\ 0..made \subseteq 0..(made + 1)
      BY <1>1
    <3>2. monitored \in [Urls -> 0..(made + 1)]
      BY <1>1, <3>1
    <3> QED
      BY <2>1, <3>1, <3>2
  <2>5. MonitorTypeOK'
    <3>1. made' \in 0..MaxEndpoints /\ monitored' \in [Urls -> 0..made']
      BY <1>1, <2>1, <2>4
    <3>2. timers' \subseteq 1..made' /\ listed' \in 0..made'
      BY <1>1, <1>4, <2>1
    <3>3. address' \in [Endpoints -> Urls \cup {"none"}] /\ \A e \in 1..made' : address'[e] \in Urls
      BY <1>1, <2>1 DEF Endpoints
    <3>4. history' \in [Endpoints -> Seq(0..MaxEndpoints)] /\ phase' \in {"starting", "running", "quitting"}
      BY <1>1, <1>4 DEF MonitorTypeOK
    <3> QED
      BY <2>2, <3>1, <3>2, <3>3, <3>4 DEF MonitorTypeOK
  <2>6. OneUrl'
    <3> SUFFICES ASSUME NEW v \in Urls, NEW w \in Urls, monitored'[v] = monitored'[w], monitored'[v] # 0
                 PROVE  v = w
      BY DEF OneUrl
    <3>1. monitored[v] # made + 1 /\ monitored[w] # made + 1
      BY <1>1, <1>2
    <3> QED
      BY <1>3, <2>3, <3>1 DEF OneUrl
  <2>7. OwnResults'
    <3>1. Monitored' = Monitored \cup {made + 1}
      <4>1. made + 1 # 0
        BY <1>1
      <4>2. {monitored'[v] : v \in Urls} \ {0} = ({monitored[v] : v \in Urls} \ {0}) \cup {made + 1}
        BY <2>1, <2>3, <4>1
      <4> QED
        BY <4>2 DEF Monitored
    <3>2. \A e \in 1..made : address'[e] = address[e]
      BY <1>1, <2>1 DEF Endpoints
    <3>3. ASSUME NEW e \in timers'
          PROVE  e \in Monitored' \/ \E f \in (e + 1)..listed' : address'[f] = address'[e]
      <4>1. CASE e = made + 1
        BY <3>1, <4>1
      <4>2. CASE e \in timers /\ e \in Monitored
        BY <3>1, <4>2
      <4>3. CASE e \in timers /\ e \notin Monitored
        <5>1. PICK f \in (e + 1)..listed : address[f] = address[e]
          BY <1>3, <4>3 DEF OwnResults
        <5>2. e \in 1..made /\ f \in 1..made
          BY <1>1, <4>3, <5>1
        <5> QED
          BY <1>4, <3>2, <5>1, <5>2
      <4> QED
        BY <2>1, <4>1, <4>2, <4>3
    <3>4. phase' = "running" => Monitored' \subseteq timers'
      BY <1>3, <1>4, <2>1, <3>1 DEF OwnResults
    <3> QED
      BY <1>3, <1>4, <3>3, <3>4 DEF OwnResults
  <2> QED
    BY <2>5, <2>6, <2>7 DEF MonitorInv
<1>6. CASE Check(u)
  <2>1. /\ UNCHANGED <<monitored, made, address, timers>>
        /\ \E e \in 0..MaxEndpoints : Probe(u, e)
    BY <1>1, <1>6 DEF Check
  <2>2. probes' \in [Slots -> [url : Urls \cup {"none"}, of : 0..MaxEndpoints]]
    BY <1>1, <2>1, ProbeTyped
  <2> QED
    <3>1. MonitorTypeOK'
      BY <1>1, <1>4, <2>1, <2>2 DEF MonitorTypeOK
    <3>2. OneUrl' /\ OwnResults'
      BY <1>3, <1>4, <2>1 DEF OneUrl, OwnResults, Monitored
    <3> QED
      BY <3>1, <3>2 DEF MonitorInv
<1>7. CASE RemoveUrl(u)
  <2>1. /\ monitored[u] # 0 /\ made' = made /\ probes' = probes /\ address' = address
        /\ monitored' = [monitored EXCEPT ![u] = 0]
        /\ timers' = timers \ {monitored[u]}
    BY <1>7 DEF RemoveUrl
  <2>2. \A v \in Urls : monitored'[v] = IF v = u THEN 0 ELSE monitored[v]
    BY <1>1, <2>1
  <2>3. monitored' \in [Urls -> 0..made]
    BY <1>1, <2>1
  <2>4. MonitorTypeOK'
    BY <1>1, <1>4, <2>1, <2>3 DEF MonitorTypeOK
  <2>5. OneUrl'
    BY <1>3, <2>2 DEF OneUrl
  <2>6. Monitored' = Monitored \ {monitored[u]}
    <3>1. {monitored'[v] : v \in Urls} \ {0} = ({monitored[v] : v \in Urls} \ {0}) \ {monitored[u]}
      BY <1>3, <2>1, <2>2 DEF OneUrl
    <3> QED
      BY <3>1 DEF Monitored
  <2>7. OwnResults'
    BY <1>3, <1>4, <2>1, <2>6 DEF OwnResults
  <2> QED
    BY <2>4, <2>5, <2>7 DEF MonitorInv
<1> QED
  BY <1>5, <1>6, <1>7

\* Timers belong to what is monitored, and results to whom they were probed for
\* (startMonitoring, probeUrl, remove), whatever the URLs and the limits.
THEOREM OwnCounted == MonitorInit /\ [][MonitorNext]_monitorVars => []OwnResults
<1>1. MonitorInv /\ [MonitorNext]_monitorVars => MonitorInv'
  <2> SUFFICES ASSUME MonitorInv, [MonitorNext]_monitorVars PROVE MonitorInv'
    OBVIOUS
  <2>1. CASE QuitMonitor
    <3>1. /\ phase' = "quitting" /\ timers' = timers \ Monitored
          /\ UNCHANGED <<monitored, made, listed, address, probes, history>>
      BY <2>1 DEF QuitMonitor
    <3>2. MonitorTypeOK'
      BY <3>1 DEF MonitorInv, MonitorTypeOK
    <3>3. OneUrl' /\ OwnResults'
      BY <3>1 DEF MonitorInv, OneUrl, OwnResults, Monitored
    <3> QED
      BY <3>2, <3>3 DEF MonitorInv
  <2>2. CASE UNCHANGED monitorVars
    <3>1. MonitorTypeOK'
      BY <2>2 DEF monitorVars, MonitorInv, MonitorTypeOK
    <3>2. OneUrl' /\ OwnResults'
      BY <2>2 DEF monitorVars, MonitorInv, OneUrl, OwnResults, Monitored
    <3> QED
      BY <3>1, <3>2 DEF MonitorInv
  <2> QED
    BY <2>1, <2>2, StartUpStep, UrlStep, IntervalStep, ProbedStep DEF MonitorNext
<1>2. MonitorInv => OwnResults
  BY DEF MonitorInv
<1> QED
  BY <1>1, <1>2, MonitorStarts, PTL
-----------------------------------------------------------------------------
\* THE WEBHOOK RELAY

RelayTypeOK ==
  /\ webhook \in [Webhooks -> {"none", "reading", "received", "refused", "broken"}]
  /\ eventId \in [Webhooks -> Nat]
  /\ events \in Seq(Nat)
  /\ eventCounter \in Nat

\* The buffer holds the ids generated last, in order.
LatestBuffered ==
  /\ Len(events) = IF eventCounter < MaxEvents THEN eventCounter ELSE MaxEvents
  /\ \A i \in DOMAIN events : events[i] = eventCounter - Len(events) + i

RelayInv ==
  /\ RelayTypeOK
  /\ LatestBuffered
  /\ \A w \in Webhooks : webhook[w] = "received" => eventId[w] \in 1..eventCounter

\* The buffer after one more event: the oldest makes room if it is full.
LEMMA BufferedFacts ==
  ASSUME RelayTypeOK, LatestBuffered
  PROVE  LET buffer == Buffered(eventCounter + 1) IN
         /\ buffer \in Seq(Nat)
         /\ Len(buffer) = IF eventCounter + 1 < MaxEvents THEN eventCounter + 1 ELSE MaxEvents
         /\ \A i \in 1..Len(buffer) : buffer[i] = eventCounter + 1 - Len(buffer) + i
<1> DEFINE c == eventCounter
           L == Len(events)
           s == Append(events, c + 1)
<1>1. /\ c \in Nat /\ L \in Nat /\ MaxEvents \in Nat \ {0}
      /\ L = IF c < MaxEvents THEN c ELSE MaxEvents
      /\ \A i \in 1..L : events[i] = c - L + i
  <2>1. c \in Nat /\ L \in Nat /\ MaxEvents \in Nat \ {0} /\ DOMAIN events = 1..L
    BY RelayAssumption DEF RelayTypeOK
  <2> QED
    BY <2>1 DEF LatestBuffered
<1>2. /\ s \in Seq(Nat) /\ Len(s) = L + 1
      /\ \A i \in 1..L : s[i] = events[i]
      /\ s[L + 1] = c + 1
  BY <1>1, AppendProperties DEF RelayTypeOK
<1>3. \A i \in 1..(L + 1) : s[i] = c - L + i
  BY <1>1, <1>2
<1> HIDE DEF s, L, c
<1>4. CASE L + 1 <= MaxEvents
  <2>1. Buffered(eventCounter + 1) = s
    BY <1>1, <1>2, <1>4 DEF Buffered, s, c
  <2> QED
    BY <1>1, <1>2, <1>3, <1>4, <2>1 DEF c
<1>5. CASE L + 1 > MaxEvents
  <2>1. L = MaxEvents /\ c >= MaxEvents
    BY <1>1, <1>5
  <2>2. Buffered(eventCounter + 1) = SubSeq(s, 2, MaxEvents + 1)
    <3>1. Len(s) > MaxEvents /\ Len(s) - MaxEvents + 1 = 2 /\ Len(s) = MaxEvents + 1
      BY <1>1, <1>2, <2>1
    <3> QED
      BY <3>1 DEF Buffered, s, c
  <2>3. \A i \in 2..(MaxEvents + 1) : s[i] \in Nat
    BY <1>1, <1>2, <2>1, ElementOfSeq
  <2>4. /\ SubSeq(s, 2, MaxEvents + 1) \in Seq(Nat)
        /\ Len(SubSeq(s, 2, MaxEvents + 1)) = MaxEvents
        /\ \A i \in 1..MaxEvents : SubSeq(s, 2, MaxEvents + 1)[i] = s[i + 1]
    <3>1. /\ SubSeq(s, 2, MaxEvents + 1) \in Seq(Nat)
          /\ Len(SubSeq(s, 2, MaxEvents + 1)) = IF 2 <= MaxEvents + 1 THEN MaxEvents + 1 - 2 + 1 ELSE 0
          /\ \A i \in 1..(MaxEvents + 1 - 2 + 1) : SubSeq(s, 2, MaxEvents + 1)[i] = s[2 + i - 1]
      BY <1>1, <2>3, SubSeqProperties
    <3>2. 2 <= MaxEvents + 1 /\ MaxEvents + 1 - 2 + 1 = MaxEvents /\ \A i \in 1..MaxEvents : 2 + i - 1 = i + 1
      BY <1>1
    <3> QED
      BY <3>1, <3>2
  <2>5. \A i \in 1..MaxEvents : s[i + 1] = c + 1 - MaxEvents + i
    BY <1>1, <1>3, <2>1
  <2>6. \A i \in 1..MaxEvents : Buffered(eventCounter + 1)[i] = eventCounter + 1 - MaxEvents + i
    BY <2>2, <2>4, <2>5 DEF c
  <2>7. Len(Buffered(eventCounter + 1)) = MaxEvents /\ ~(eventCounter + 1 < MaxEvents)
    BY <1>1, <2>1, <2>2, <2>4 DEF c
  <2> QED
    BY <2>2, <2>4, <2>6, <2>7
<1> QED
  BY <1>1, <1>4, <1>5

LEMMA RelayKeeps == RelayInv /\ [RelayNext]_relayVars => RelayInv'
<1> SUFFICES ASSUME RelayInv, [RelayNext]_relayVars PROVE RelayInv'
  OBVIOUS
<1>1. /\ RelayTypeOK /\ LatestBuffered /\ eventCounter \in Nat
      /\ \A w \in Webhooks : webhook[w] = "received" => eventId[w] \in 1..eventCounter
  BY DEF RelayInv, RelayTypeOK
<1>2. ASSUME NEW w \in Webhooks, Post(w) \/ BodyBreaks(w) \/ (Read(w) /\ webhook'[w] = "refused")
      PROVE  RelayInv'
  <2>1. /\ eventId' = eventId /\ events' = events /\ eventCounter' = eventCounter
        /\ \E x \in {"reading", "broken", "refused"} : webhook' = [webhook EXCEPT ![w] = x]
    BY <1>1, <1>2 DEF Post, BodyBreaks, Read, RelayTypeOK
  <2> QED
    BY <1>1, <2>1 DEF RelayInv, RelayTypeOK, LatestBuffered
<1>3. ASSUME NEW w \in Webhooks, Read(w), webhook'[w] # "refused"
      PROVE  RelayInv'
  <2>1. /\ webhook' = [webhook EXCEPT ![w] = "received"]
        /\ eventCounter' = eventCounter + 1
        /\ eventId' = [eventId EXCEPT ![w] = eventCounter + 1]
        /\ events' = Buffered(eventCounter + 1)
    BY <1>1, <1>3 DEF Read, RelayTypeOK
  <2>2. events' \in Seq(Nat) /\ LatestBuffered'
    BY <1>1, <2>1, BufferedFacts DEF LatestBuffered
  <2>3. RelayTypeOK'
    BY <1>1, <2>1, <2>2 DEF RelayTypeOK
  <2>4. ASSUME NEW v \in Webhooks, webhook'[v] = "received"
        PROVE  eventId'[v] \in 1..eventCounter'
    BY <1>1, <2>1, <2>4 DEF RelayTypeOK
  <2> QED
    BY <2>2, <2>3, <2>4 DEF RelayInv
<1>4. CASE UNCHANGED relayVars
  BY <1>4 DEF relayVars, RelayInv, RelayTypeOK, LatestBuffered
<1> QED
  BY <1>2, <1>3, <1>4 DEF RelayNext

\* An event that was received can be replayed until as many came after it as the
\* buffer holds (webhook-relay addEvent, replay).
THEOREM LatestReplayed == RelayInit /\ [][RelayNext]_relayVars => []Replayable
<1>1. RelayInit => RelayInv
  <2> SUFFICES ASSUME RelayInit PROVE RelayInv
    OBVIOUS
  <2>1. RelayTypeOK
    BY DEF RelayInit, RelayTypeOK
  <2>2. LatestBuffered
    BY RelayAssumption DEF RelayInit, LatestBuffered
  <2> QED
    BY <2>1, <2>2 DEF RelayInit, RelayInv
<1>2. RelayInv => Replayable
  <2> SUFFICES ASSUME RelayInv, NEW w \in Webhooks, webhook[w] = "received"
               PROVE  Found(eventId[w]) <=> eventCounter < eventId[w] + MaxEvents
    BY DEF Replayable
  <2> DEFINE L == Len(events)
  <2>1. /\ eventCounter \in Nat /\ L \in Nat /\ DOMAIN events = 1..L
        /\ MaxEvents \in Nat \ {0} /\ eventId[w] \in 1..eventCounter
    BY RelayAssumption DEF RelayInv, RelayTypeOK
  <2>2. /\ L = IF eventCounter < MaxEvents THEN eventCounter ELSE MaxEvents
        /\ \A i \in 1..L : events[i] = eventCounter - L + i
    BY <2>1 DEF RelayInv, LatestBuffered
  <2> HIDE DEF L
  <2>3. Found(eventId[w]) => eventId[w] > eventCounter - L
    BY <2>1, <2>2 DEF Found
  <2>4. eventId[w] > eventCounter - L => Found(eventId[w])
    <3> SUFFICES ASSUME eventId[w] > eventCounter - L PROVE Found(eventId[w])
      OBVIOUS
    <3> DEFINE i == eventId[w] - (eventCounter - L)
    <3>1. i \in 1..L /\ eventCounter - L + i = eventId[w]
      BY <2>1
    <3> QED
      BY <2>1, <2>2, <3>1 DEF Found
  <2> QED
    BY <2>1, <2>2, <2>3, <2>4
<1> QED
  BY <1>1, <1>2, RelayKeeps, PTL
-----------------------------------------------------------------------------
\* REMOTE CALLS

Steps == {"idle", "connecting", "asking", "reconnecting", "answered", "failed"}

\* A try of a call is posted in one session only, and not before its turn.
PostedOnce ==
  /\ caller \in [Callers -> [step : Steps, named : Agents, try : {1, 2}]]
  /\ \A c \in Callers :
       /\ caller[c].step \in {"idle", "connecting", "reconnecting"} => caller[c].try = 1
       /\ caller[c].step = "reconnecting" => c \in Invokes
       /\ caller[c].try = 2 => c \in Invokes
  /\ \A r \in posted :
       /\ r.call \in Callers /\ r.try \in {1, 2}
       /\ caller[r.call].step \notin {"idle", "connecting"}
       /\ r.try = 2 => r.call \in Invokes /\ caller[r.call].try = 2
  /\ \A r, q \in posted : r.call = q.call /\ r.try = q.try => r = q

\* A tool was started at most once for each try that has arrived, and for what
\* is running.
StartsCounted ==
  /\ ran \in [Callers -> Nat]
  /\ running \subseteq seen /\ seen \subseteq posted
  /\ \A c \in Callers :
       \/ ran[c] = 0
       \/ ran[c] = 1 /\ \E r \in seen : r.call = c
       \/ ran[c] = 2 /\ \E r, q \in seen : r.call = c /\ q.call = c /\ r.try = 1 /\ q.try = 2
  /\ \A r \in running : r.call \notin Connects /\ ran[r.call] > 0

AnsweredRan == \A c \in Callers \ Connects : caller[c].step = "answered" => ran[c] > 0

CallsInv == PostedOnce /\ StartsCounted /\ AnsweredRan

LEMMA CallsStart == CallsInit => CallsInv
<1> SUFFICES ASSUME CallsInit PROVE CallsInv
  OBVIOUS
<1>1. caller \in [Callers -> [step : {"idle"}, named : Agents, try : {1}]] /\ posted = {}
  BY DEF CallsInit
<1>2. \A c \in Callers : caller[c] \in [step : {"idle"}, named : Agents, try : {1}]
  BY <1>1
<1>3. \A c \in Callers : caller[c].step = "idle" /\ caller[c].try = 1
  BY <1>2
<1>4. caller \in [Callers -> [step : Steps, named : Agents, try : {1, 2}]]
  BY <1>1 DEF Steps
<1>5. PostedOnce
  BY <1>1, <1>3, <1>4 DEF PostedOnce
<1>6. StartsCounted
  BY DEF CallsInit, StartsCounted
<1>7. AnsweredRan
  BY <1>3 DEF AnsweredRan
<1> QED
  BY <1>5, <1>6, <1>7 DEF CallsInv

\* A call goes on to step st, in its try t.
Moves(c, st, t) == caller' = [caller EXCEPT ![c].step = st, ![c].try = t]

LEMMA MovesTyped ==
  ASSUME PostedOnce, NEW c \in Callers, NEW st \in Steps, NEW t \in {1, 2}, Moves(c, st, t)
  PROVE  /\ caller' \in [Callers -> [step : Steps, named : Agents, try : {1, 2}]]
         /\ caller'[c].step = st /\ caller'[c].try = t
         /\ \A d \in Callers \ {c} : caller'[d] = caller[d]
<1>1. caller \in [Callers -> [step : Steps, named : Agents, try : {1, 2}]]
  BY DEF PostedOnce
<1>2. caller[c] \in [step : Steps, named : Agents, try : {1, 2}]
  BY <1>1
<1>3. caller' = [caller EXCEPT ![c] = [caller[c] EXCEPT !.step = st, !.try = t]]
  BY <1>1 DEF Moves
<1>4. [caller[c] EXCEPT !.step = st, !.try = t] \in [step : Steps, named : Agents, try : {1, 2}]
  BY <1>2
<1>5. /\ [caller[c] EXCEPT !.step = st, !.try = t].step = st
      /\ [caller[c] EXCEPT !.step = st, !.try = t].try = t
  BY <1>2
<1> QED
  BY <1>1, <1>3, <1>4, <1>5

\* A call that has failed keeps its try, or is about to try a second time.
LEMMA FailKeeps ==
  ASSUME PostedOnce, NEW c \in Callers, NEW t \in {1, 2}, NEW b \in BOOLEAN, Fail(c, t, b),
         t = 2 => c \in Invokes, caller[c].try = 2 => t = 2
  PROVE  PostedOnce' /\ posted' = posted /\ (AnsweredRan /\ ran' = ran => AnsweredRan')
<1> DEFINE st == IF c \in Invokes /\ t = 1 /\ b THEN "reconnecting" ELSE "failed"
<1>1. Moves(c, st, t) /\ posted' = posted /\ st \in Steps
  BY DEF Fail, Moves, Steps
<1>2. /\ caller' \in [Callers -> [step : Steps, named : Agents, try : {1, 2}]]
      /\ caller'[c].step = st /\ caller'[c].try = t
      /\ \A d \in Callers \ {c} : caller'[d] = caller[d]
  BY <1>1, MovesTyped
<1>3. \A d \in Callers :
        /\ caller'[d].step \in {"idle", "connecting", "reconnecting"} => caller'[d].try = 1
        /\ caller'[d].step = "reconnecting" => d \in Invokes
        /\ caller'[d].try = 2 => d \in Invokes
  BY <1>2 DEF PostedOnce
<1>4. \A r \in posted :
        /\ r.call \in Callers /\ r.try \in {1, 2}
        /\ caller'[r.call].step \notin {"idle", "connecting"}
        /\ r.try = 2 => r.call \in Invokes /\ caller'[r.call].try = 2
  <2> SUFFICES ASSUME NEW r \in posted
               PROVE  /\ r.call \in Callers /\ r.try \in {1, 2}
                      /\ caller'[r.call].step \notin {"idle", "connecting"}
                      /\ r.try = 2 => r.call \in Invokes /\ caller'[r.call].try = 2
    OBVIOUS
  <2>1. /\ r.call \in Callers /\ r.try \in {1, 2}
        /\ caller[r.call].step \notin {"idle", "connecting"}
        /\ r.try = 2 => r.call \in Invokes /\ caller[r.call].try = 2
    BY DEF PostedOnce
  <2>2. CASE r.call = c
    BY <1>2, <2>1, <2>2
  <2>3. CASE r.call # c
    BY <1>2, <2>1, <2>3
  <2> QED
    BY <2>2, <2>3
<1>5. PostedOnce'
  BY <1>1, <1>2, <1>3, <1>4 DEF PostedOnce
<1>6. AnsweredRan /\ ran' = ran => AnsweredRan'
  BY <1>2 DEF AnsweredRan
<1> QED
  BY <1>1, <1>5, <1>6

\* A try is posted that was not posted yet, or the call has failed.
LEMMA AskKeeps ==
  ASSUME PostedOnce, NEW c \in Callers, NEW t \in {1, 2}, NEW s, Ask(c, s, t),
         t = 2 => c \in Invokes, caller[c].try = 2 => t = 2,
         \A r \in posted : ~(r.call = c /\ r.try = t)
  PROVE  PostedOnce' /\ posted \subseteq posted' /\ (AnsweredRan /\ ran' = ran => AnsweredRan')
<1>1. CASE \E b \in BOOLEAN : Fail(c, t, b)
  BY <1>1, FailKeeps
<1>2. CASE /\ Moves(c, "asking", t)
           /\ posted' = posted \cup {[call |-> c, try |-> t, in |-> s]}
  <2> DEFINE new == [call |-> c, try |-> t, in |-> s]
  <2>1. /\ caller' \in [Callers -> [step : Steps, named : Agents, try : {1, 2}]]
        /\ caller'[c].step = "asking" /\ caller'[c].try = t
        /\ \A d \in Callers \ {c} : caller'[d] = caller[d]
    BY <1>2, MovesTyped DEF Steps
  <2>2. \A d \in Callers :
          /\ caller'[d].step \in {"idle", "connecting", "reconnecting"} => caller'[d].try = 1
          /\ caller'[d].step = "reconnecting" => d \in Invokes
          /\ caller'[d].try = 2 => d \in Invokes
    BY <2>1 DEF PostedOnce
  <2>3. new.call = c /\ new.try = t /\ posted' = posted \cup {new}
    BY <1>2
  <2> HIDE DEF new
  <2>4. ASSUME NEW r \in posted'
        PROVE  /\ r.call \in Callers /\ r.try \in {1, 2}
               /\ caller'[r.call].step \notin {"idle", "connecting"}
               /\ r.try = 2 => r.call \in Invokes /\ caller'[r.call].try = 2
    <3>1. CASE r = new
      BY <2>1, <2>3, <3>1
    <3>2. CASE r \in posted
      <4>1. /\ r.call \in Callers /\ r.try \in {1, 2}
            /\ caller[r.call].step \notin {"idle", "connecting"}
            /\ r.try = 2 => r.call \in Invokes /\ caller[r.call].try = 2
        BY <3>2 DEF PostedOnce
      <4>2. CASE r.call = c
        BY <2>1, <4>1, <4>2
      <4>3. CASE r.call # c
        BY <2>1, <4>1, <4>3
      <4> QED
        BY <4>2, <4>3
    <3> QED
      BY <2>3, <3>1, <3>2
  <2>5. \A r, q \in posted' : r.call = q.call /\ r.try = q.try => r = q
    BY <2>3 DEF PostedOnce
  <2>6. PostedOnce'
    BY <2>1, <2>2, <2>4, <2>5 DEF PostedOnce
  <2>7. AnsweredRan /\ ran' = ran => AnsweredRan'
    BY <2>1 DEF AnsweredRan
  <2> QED
    BY <1>2, <2>6, <2>7
<1> QED
  BY <1>1, <1>2 DEF Ask, Moves

\* What an agent counts does not change with what callers do.
LEMMA RemoteKept ==
  ASSUME StartsCounted, seen' = seen, running' = running, ran' = ran, posted \subseteq posted'
  PROVE  StartsCounted'
BY DEF StartsCounted

LEMMA BeginStep == ASSUME CallsInv, NEW c \in Callers, Begin(c) PROVE CallsInv'
<1>1. /\ PostedOnce /\ StartsCounted /\ AnsweredRan
      /\ caller[c].step = "idle" /\ caller[c].try = 1
      /\ caller' = [caller EXCEPT ![c].step = "connecting"]
      /\ posted' = posted /\ UNCHANGED remoteVars
  BY DEF CallsInv, PostedOnce, Begin
<1>2. caller \in [Callers -> [step : Steps, named : Agents, try : {1, 2}]]
  BY <1>1 DEF PostedOnce
<1>3. caller[c] \in [step : Steps, named : Agents, try : {1, 2}]
  BY <1>2
<1>4. /\ caller' \in [Callers -> [step : Steps, named : Agents, try : {1, 2}]]
      /\ caller'[c].step = "connecting" /\ caller'[c].try = 1
      /\ \A d \in Callers \ {c} : caller'[d] = caller[d]
  <2>1. caller' = [caller EXCEPT ![c] = [caller[c] EXCEPT !.step = "connecting"]]
    BY <1>1, <1>2
  <2>2. [caller[c] EXCEPT !.step = "connecting"] \in [step : Steps, named : Agents, try : {1, 2}]
    BY <1>3 DEF Steps
  <2>3. /\ [caller[c] EXCEPT !.step = "connecting"].step = "connecting"
        /\ [caller[c] EXCEPT !.step = "connecting"].try = 1
    BY <1>1, <1>3
  <2> QED
    BY <1>2, <2>1, <2>2, <2>3
<1>5. \A r \in posted : r.call \in Callers \ {c}
  BY <1>1 DEF PostedOnce
<1>6. PostedOnce'
  <2>1. \A d \in Callers :
          /\ caller'[d].step \in {"idle", "connecting", "reconnecting"} => caller'[d].try = 1
          /\ caller'[d].step = "reconnecting" => d \in Invokes
          /\ caller'[d].try = 2 => d \in Invokes
    BY <1>1, <1>4 DEF PostedOnce
  <2>2. \A r \in posted : caller'[r.call] = caller[r.call]
    BY <1>4, <1>5
  <2> QED
    BY <1>1, <1>4, <2>1, <2>2 DEF PostedOnce
<1>7. StartsCounted'
  BY <1>1, RemoteKept DEF remoteVars
<1>8. AnsweredRan'
  BY <1>1, <1>4 DEF AnsweredRan, remoteVars
<1> QED
  BY <1>6, <1>7, <1>8 DEF CallsInv

LEMMA StopClientStep == ASSUME CallsInv, StopClient PROVE CallsInv'
<1>1. /\ PostedOnce /\ StartsCounted /\ AnsweredRan
      /\ caller' = [c \in Callers |->
           IF c \in PlainCalls /\ caller[c].step = "asking" THEN [caller[c] EXCEPT !.step = "failed"] ELSE caller[c]]
      /\ posted' = posted /\ UNCHANGED remoteVars
  BY DEF CallsInv, StopClient
<1>2. ASSUME NEW c \in Callers
      PROVE  /\ caller'[c] \in [step : Steps, named : Agents, try : {1, 2}]
             /\ caller'[c].try = caller[c].try
             /\ caller'[c].step = caller[c].step \/ (caller[c].step = "asking" /\ caller'[c].step = "failed")
  <2>1. caller[c] \in [step : Steps, named : Agents, try : {1, 2}]
    BY <1>1 DEF PostedOnce
  <2>2. CASE caller'[c] = [caller[c] EXCEPT !.step = "failed"] /\ caller[c].step = "asking"
    BY <2>1, <2>2 DEF Steps
  <2>3. CASE caller'[c] = caller[c]
    BY <2>1, <2>3
  <2> QED
    BY <1>1, <2>2, <2>3
<1>3. caller' \in [Callers -> [step : Steps, named : Agents, try : {1, 2}]]
  <2>1. DOMAIN caller' = Callers /\ caller' = [c \in Callers |-> caller'[c]]
    BY <1>1
  <2> QED
    BY <1>2, <2>1
<1>4. PostedOnce'
  <2>1. \A d \in Callers :
          /\ caller'[d].step \in {"idle", "connecting", "reconnecting"} => caller'[d].try = 1
          /\ caller'[d].step = "reconnecting" => d \in Invokes
          /\ caller'[d].try = 2 => d \in Invokes
    BY <1>1, <1>2 DEF PostedOnce
  <2>2. \A r \in posted :
          /\ r.call \in Callers /\ r.try \in {1, 2}
          /\ caller'[r.call].step \notin {"idle", "connecting"}
          /\ r.try = 2 => r.call \in Invokes /\ caller'[r.call].try = 2
    BY <1>1, <1>2 DEF PostedOnce
  <2> QED
    BY <1>1, <1>3, <2>1, <2>2 DEF PostedOnce
<1>5. StartsCounted'
  BY <1>1, RemoteKept DEF remoteVars
<1>6. AnsweredRan'
  BY <1>1, <1>2 DEF AnsweredRan, remoteVars
<1> QED
  BY <1>4, <1>5, <1>6 DEF CallsInv

\* The steps of a call that connect, ask, or fail.
LEMMA CallStep ==
  ASSUME CallsInv, NEW c \in Callers,
         \/ InvokeInSession(c) \/ Connected(c) \/ ListRemoteTools(c) \/ InvokeConnected(c)
         \/ Reconnected(c) \/ ConnectFails(c) \/ QueueFull(c)
  PROVE  CallsInv'
<1>1. PostedOnce /\ StartsCounted /\ AnsweredRan
  BY DEF CallsInv
<1>2. /\ caller[c].try \in {1, 2}
      /\ caller[c].try = 2 => c \in Invokes
      /\ caller[c].step \in {"idle", "connecting", "reconnecting"} => caller[c].try = 1
      /\ caller[c].step = "reconnecting" => c \in Invokes
  <2>1. caller[c] \in [step : Steps, named : Agents, try : {1, 2}]
    BY <1>1 DEF PostedOnce
  <2> QED
    BY <1>1, <2>1 DEF PostedOnce
<1>3. caller[c].step \in {"idle", "connecting"} => \A r \in posted : r.call # c
  BY <1>1 DEF PostedOnce
<1>4. caller[c].step = "reconnecting" => \A r \in posted : ~(r.call = c /\ r.try = 2)
  BY <1>1, <1>2 DEF PostedOnce
<1>5. UNCHANGED remoteVars
  BY DEF InvokeInSession, Connected, ListRemoteTools, InvokeConnected, Reconnected, Connect, ConnectFails, QueueFull
<1>6. PostedOnce' /\ posted \subseteq posted' /\ (AnsweredRan /\ ran' = ran => AnsweredRan')
  <2>1. CASE InvokeInSession(c)
    <3>1. caller[c].step = "idle" /\ \E s \in clients : Ask(c, s, 1)
      BY <2>1 DEF InvokeInSession
    <3> QED
      BY <1>1, <1>2, <1>3, <3>1, AskKeeps
  <2>2. CASE Connected(c) \/ ListRemoteTools(c) \/ InvokeConnected(c)
    <3>1. caller[c].step = "connecting" /\ \E s : Ask(c, s, 1)
      BY <2>2 DEF Connected, ListRemoteTools, InvokeConnected, Connect
    <3> QED
      BY <1>1, <1>2, <1>3, <3>1, AskKeeps
  <2>3. CASE Reconnected(c)
    <3>1. caller[c].step = "reconnecting" /\ \E s : Ask(c, s, 2)
      BY <2>3 DEF Reconnected, Connect
    <3> QED
      BY <1>1, <1>2, <1>4, <3>1, AskKeeps
  <2>4. CASE ConnectFails(c)
    <3>1. \/ caller[c].step = "connecting" /\ \E b \in BOOLEAN : Fail(c, 1, b)
          \/ caller[c].step = "reconnecting" /\ Fail(c, 2, FALSE)
      BY <2>4 DEF ConnectFails
    <3> QED
      BY <1>1, <1>2, <3>1, FailKeeps
  <2>5. CASE QueueFull(c)
    <3>1. Fail(c, caller[c].try, TRUE)
      BY <2>5 DEF QueueFull
    <3> QED
      BY <1>1, <1>2, <3>1, FailKeeps
  <2> QED
    BY <2>1, <2>2, <2>3, <2>4, <2>5
<1>7. StartsCounted'
  BY <1>1, <1>5, <1>6, RemoteKept DEF remoteVars
<1>8. AnsweredRan'
  BY <1>1, <1>5, <1>6 DEF remoteVars
<1> QED
  BY <1>6, <1>7, <1>8 DEF CallsInv

\* An answer reaches a caller only if it asks in the try that is answered.
LEMMA ReceiveKeeps ==
  ASSUME PostedOnce, AnsweredRan, NEW r \in posted, NEW output \in BOOLEAN, NEW b \in BOOLEAN,
         Receive(r, output, b), ran' = ran,
         output => r.call \in Connects \/ ran[r.call] > 0
  PROVE  PostedOnce' /\ posted' = posted /\ AnsweredRan'
<1>1. /\ r.call \in Callers /\ r.try \in {1, 2} /\ caller[r.call].try = r.try
      /\ caller[r.call].step = "asking"
      /\ r.try = 2 => r.call \in Invokes
  BY DEF PostedOnce, Receive
<1>2. CASE ~output
  BY <1>1, <1>2, FailKeeps DEF Receive
<1>3. CASE output
  <2>1. caller' = [caller EXCEPT ![r.call].step = "answered"] /\ posted' = posted
    BY <1>3 DEF Receive
  <2>2. caller \in [Callers -> [step : Steps, named : Agents, try : {1, 2}]]
    BY DEF PostedOnce
  <2>3. caller[r.call] \in [step : Steps, named : Agents, try : {1, 2}]
    BY <1>1, <2>2
  <2>4. /\ caller' \in [Callers -> [step : Steps, named : Agents, try : {1, 2}]]
        /\ caller'[r.call].step = "answered" /\ caller'[r.call].try = caller[r.call].try
        /\ \A d \in Callers \ {r.call} : caller'[d] = caller[d]
    <3>1. caller' = [caller EXCEPT ![r.call] = [caller[r.call] EXCEPT !.step = "answered"]]
      BY <1>1, <2>1, <2>2
    <3>2. [caller[r.call] EXCEPT !.step = "answered"] \in [step : Steps, named : Agents, try : {1, 2}]
      BY <2>3 DEF Steps
    <3>3. /\ [caller[r.call] EXCEPT !.step = "answered"].step = "answered"
          /\ [caller[r.call] EXCEPT !.step = "answered"].try = caller[r.call].try
      BY <2>3
    <3> QED
      BY <1>1, <2>2, <3>1, <3>2, <3>3
  <2>5. \A d \in Callers :
          /\ caller'[d].step \in {"idle", "connecting", "reconnecting"} => caller'[d].try = 1
          /\ caller'[d].step = "reconnecting" => d \in Invokes
          /\ caller'[d].try = 2 => d \in Invokes
    BY <2>4 DEF PostedOnce
  <2>6. ASSUME NEW q \in posted
        PROVE  /\ q.call \in Callers /\ q.try \in {1, 2}
               /\ caller'[q.call].step \notin {"idle", "connecting"}
               /\ q.try = 2 => q.call \in Invokes /\ caller'[q.call].try = 2
    <3>1. /\ q.call \in Callers /\ q.try \in {1, 2}
          /\ caller[q.call].step \notin {"idle", "connecting"}
          /\ q.try = 2 => q.call \in Invokes /\ caller[q.call].try = 2
      BY DEF PostedOnce
    <3>2. CASE q.call = r.call
      BY <2>4, <3>1, <3>2
    <3>3. CASE q.call # r.call
      BY <2>4, <3>1, <3>3
    <3> QED
      BY <3>2, <3>3
  <2>7. PostedOnce'
    BY <2>1, <2>4, <2>5, <2>6 DEF PostedOnce
  <2>8. AnsweredRan'
    BY <1>3, <2>4 DEF AnsweredRan
  <2> QED
    BY <2>1, <2>7, <2>8
<1> QED
  BY <1>2, <1>3

\* An agent counts a request it has not seen: the tool runs once more for its
\* call, for which only the other try can have arrived.
LEMMA StartedOnceMore ==
  ASSUME PostedOnce, StartsCounted, NEW r \in posted, r \notin seen, r.call \notin Connects,
         posted' = posted, seen' = seen \cup {r}, running' = running \cup {r},
         ran' = [ran EXCEPT ![r.call] = @ + 1]
  PROVE  StartsCounted' /\ \A c \in Callers : ran'[c] >= ran[c]
<1>1. /\ r.call \in Callers /\ r.try \in {1, 2}
      /\ ran \in [Callers -> Nat]
      /\ \A q \in seen : q \in posted /\ q # r
  BY DEF PostedOnce, StartsCounted
<1>2. ran' \in [Callers -> Nat] /\ ran'[r.call] = ran[r.call] + 1 /\ ran[r.call] \in Nat
  BY <1>1
<1>3. \A c \in Callers \ {r.call} : ran'[c] = ran[c] /\ ran[c] \in Nat
  BY <1>1
<1>4. \A q \in seen : q.call = r.call => q.try # r.try /\ q.try \in {1, 2}
  BY <1>1 DEF PostedOnce
<1>5. ASSUME NEW c \in Callers
      PROVE  \/ ran'[c] = 0
             \/ ran'[c] = 1 /\ \E q \in seen' : q.call = c
             \/ ran'[c] = 2 /\ \E q, p \in seen' : q.call = c /\ p.call = c /\ q.try = 1 /\ p.try = 2
  <2>1. \/ ran[c] = 0
        \/ ran[c] = 1 /\ \E q \in seen : q.call = c
        \/ ran[c] = 2 /\ \E q, p \in seen : q.call = c /\ p.call = c /\ q.try = 1 /\ p.try = 2
    BY DEF StartsCounted
  <2>2. CASE c # r.call
    BY <1>3, <2>1, <2>2
  <2>3. CASE c = r.call
    <3>1. CASE ran[c] = 0
      BY <1>2, <2>3, <3>1
    <3>2. CASE ran[c] = 1 /\ \E q \in seen : q.call = c
      <4>1. PICK q \in seen : q.call = c
        BY <3>2
      <4>2. q.try # r.try /\ q.try \in {1, 2}
        BY <1>4, <2>3, <4>1
      <4>3. ran'[c] = 2 /\ r \in seen' /\ q \in seen'
        BY <1>2, <2>3, <3>2
      <4> QED
        BY <1>1, <2>3, <4>1, <4>2, <4>3
    <3>3. CASE ran[c] = 2 /\ \E q, p \in seen : q.call = c /\ p.call = c /\ q.try = 1 /\ p.try = 2
      BY <1>1, <1>4, <2>3, <3>3
    <3> QED
      BY <2>1, <3>1, <3>2, <3>3
  <2> QED
    BY <2>2, <2>3
<1>6. \A q \in running' : q.call \notin Connects /\ ran'[q.call] > 0
  <2> SUFFICES ASSUME NEW q \in running' PROVE q.call \notin Connects /\ ran'[q.call] > 0
    OBVIOUS
  <2>1. CASE q = r
    BY <1>2, <2>1
  <2>2. CASE q \in running
    <3>1. q.call \in Callers /\ q.call \notin Connects /\ ran[q.call] > 0
      BY <2>2 DEF StartsCounted, PostedOnce
    <3> QED
      BY <1>2, <1>3, <3>1
  <2> QED
    BY <2>1, <2>2
<1>7. StartsCounted'
  <2>1. running' \subseteq seen' /\ seen' \subseteq posted'
    BY DEF StartsCounted
  <2> QED
    BY <1>2, <1>5, <1>6, <2>1 DEF StartsCounted
<1> QED
  BY <1>2, <1>3, <1>7

LEMMA AgentStep == ASSUME CallsInv, NEW r \in posted, Arrive(r) \/ ToolEnds(r) PROVE CallsInv'
<1>1. PostedOnce /\ StartsCounted /\ AnsweredRan
  BY DEF CallsInv
<1>2. CASE Lost /\ Arrive(r) /\ r.call \notin Connects /\ ran' = [ran EXCEPT ![r.call] = @ + 1]
           /\ running' = running \cup {r}
  <2>1. StartsCounted' /\ \A c \in Callers : ran'[c] >= ran[c]
    BY <1>1, <1>2, StartedOnceMore DEF Lost, Arrive
  <2>2. PostedOnce' /\ caller' = caller
    BY <1>1, <1>2 DEF Lost, PostedOnce
  <2>3. \A c \in Callers : ran[c] \in Nat /\ ran'[c] \in Nat
    BY <1>1, <2>1 DEF StartsCounted
  <2>4. AnsweredRan'
    BY <1>1, <2>1, <2>2, <2>3 DEF AnsweredRan
  <2> QED
    BY <2>1, <2>2, <2>4 DEF CallsInv
<1>3. CASE /\ ran' = ran
           /\ running' \subseteq running /\ seen \subseteq seen' /\ seen' \subseteq seen \cup {r}
           /\ \/ Lost
              \/ \E output, b \in BOOLEAN :
                   Receive(r, output, b) /\ (output => r.call \in Connects \/ ran[r.call] > 0)
  <2>1. PostedOnce' /\ posted' = posted /\ AnsweredRan'
    <3>1. CASE Lost
      BY <1>1, <1>3, <3>1 DEF Lost, PostedOnce, AnsweredRan
    <3>2. CASE \E output, b \in BOOLEAN :
                 Receive(r, output, b) /\ (output => r.call \in Connects \/ ran[r.call] > 0)
      BY <1>1, <1>3, <3>2, ReceiveKeeps
    <3> QED
      BY <1>3, <3>1, <3>2
  <2>2. StartsCounted'
    BY <1>1, <1>3, <2>1 DEF StartsCounted
  <2> QED
    BY <2>1, <2>2 DEF CallsInv
<1>4. CASE Arrive(r)
  <2>1. CASE /\ r.call \notin Connects /\ Lost
             /\ running' = running \cup {r} /\ ran' = [ran EXCEPT ![r.call] = @ + 1]
    BY <1>2, <1>4, <2>1
  <2>2. CASE UNCHANGED <<running, ran>> /\ (Receive(r, r.call \in Connects, TRUE) \/ Lost)
    <3>1. (r.call \in Connects) \in BOOLEAN /\ TRUE \in BOOLEAN
      OBVIOUS
    <3>2. Receive(r, r.call \in Connects, TRUE) =>
            \E output, b \in BOOLEAN :
              Receive(r, output, b) /\ (output => r.call \in Connects \/ ran[r.call] > 0)
      BY <3>1, Zenon
    <3>3. seen' = seen \cup {r}
      BY <1>4 DEF Arrive
    <3> QED
      BY <1>3, <2>2, <3>2, <3>3
  <2> QED
    BY <1>4, <2>1, <2>2 DEF Arrive, Serve
<1>5. CASE ToolEnds(r)
  <2>1. r \in running /\ ran[r.call] > 0
    BY <1>1, <1>5 DEF ToolEnds, StartsCounted
  <2>2. /\ running' \subseteq running /\ seen' = seen /\ ran' = ran
        /\ Lost \/ \E output, b \in BOOLEAN : Receive(r, output, b)
    BY <1>5 DEF ToolEnds
  <2> QED
    BY <1>3, <2>1, <2>2
<1> QED
  BY <1>4, <1>5

LEMMA CallsKeep == CallsInv /\ [CallsNext]_callVars => CallsInv'
<1> SUFFICES ASSUME CallsInv, [CallsNext]_callVars PROVE CallsInv'
  OBVIOUS
<1>1. ASSUME UNCHANGED <<caller, posted, seen, running, ran>>
      PROVE  CallsInv'
  BY <1>1 DEF CallsInv, PostedOnce, StartsCounted, AnsweredRan
<1>2. ASSUME NEW a \in Agents, AddTool(a) \/ RemoveTool(a) \/ SessionGone(a)
      PROVE  CallsInv'
  BY <1>1, <1>2 DEF AddTool, RemoveTool, SessionGone, remoteVars
<1>3. ASSUME NEW c \in Callers, BeginInvoke(c) \/ BeginConnect(c) \/ BeginPlain(c)
      PROVE  CallsInv'
  BY <1>3, BeginStep DEF BeginInvoke, BeginConnect, BeginPlain
<1>4. CASE StartClient
  BY <1>1, <1>4 DEF StartClient, remoteVars
<1>5. CASE UNCHANGED callVars
  BY <1>1, <1>5 DEF callVars
<1> QED
  BY <1>2, <1>3, <1>4, <1>5, CallStep, StopClientStep, AgentStep DEF CallsNext

\* However often requests are sent again and arrive, a tool is started twice at
\* most for an invoke of the demo and once for another call, and an output is of
\* a tool that was (isDuplicate, the invoke route), whoever calls whom.
THEOREM CallsStarted == CallsInit /\ [][CallsNext]_callVars => []StartsBounded
<1>1. CallsInv => StartsBounded
  <2> SUFFICES ASSUME CallsInv, NEW c \in Callers \ Connects
               PROVE  /\ ran[c] <= IF c \in Invokes THEN 2 ELSE 1
                      /\ caller[c].step = "answered" => ran[c] > 0
    BY DEF StartsBounded
  <2>1. PostedOnce /\ StartsCounted /\ AnsweredRan
    BY DEF CallsInv
  <2>2. \/ ran[c] = 0
        \/ ran[c] = 1
        \/ ran[c] = 2 /\ \E q \in seen : q.call = c /\ q.try = 2
    BY <2>1 DEF StartsCounted
  <2>3. \A q \in seen : q.try = 2 => q.call \in Invokes
    BY <2>1 DEF StartsCounted, PostedOnce
  <2>4. ran[c] <= IF c \in Invokes THEN 2 ELSE 1
    BY <2>2, <2>3
  <2> QED
    BY <2>1, <2>4 DEF AnsweredRan
<1> QED
  BY <1>1, CallsStart, CallsKeep, PTL
-----------------------------------------------------------------------------
\* CREDENTIALS

Stores == {KeyFiles, CAFiles}
Made == 1..generated

CredentialsTypeOK ==
  /\ disk \in [Files -> 0..Empty]
  /\ generated \in 0..MaxMade
  /\ \/ work = Down
     \/ \E store \in Stores : work = Load(store)
     \/ work \in [do : {"open", "write"}, store : Stores, next : 1..3]

\* The file that is written last is there only when the others are of one identity.
StoresWhole ==
  \A store \in Stores :
    disk[store[3]] # Missing => disk[store[1]] \in Made /\ disk[store[2]] = disk[store[1]]

\* What is being written is not there as a whole, and what was written is new.
WritesNew ==
  work.do \in {"open", "write"} =>
    /\ generated \in Made
    /\ work.next < 3 \/ work.do = "open" => disk[work.store[3]] = Missing
    /\ \A i \in 1..2 : i < work.next => disk[work.store[i]] = generated

\* The process has what is on disk.
HasOnDisk ==
  /\ work.store = KeyFiles => identity = <<>>
  /\ work.store = CAFiles =>
       disk[KeyFiles[3]] # Missing /\ identity = <<disk[KeyFiles[1]], disk[KeyFiles[2]]>>

\* So has every agent that was constructed.
AgentsOnDisk ==
  \A id \in agents :
    /\ disk[KeyFiles[3]] # Missing /\ disk[CAFiles[3]] # Missing
    /\ id = <<disk[KeyFiles[1]], disk[KeyFiles[2]], disk[CAFiles[1]], disk[CAFiles[2]]>>

CredentialsInv == CredentialsTypeOK /\ StoresWhole /\ WritesNew /\ HasOnDisk /\ AgentsOnDisk

LEMMA StoreFacts ==
  /\ KeyFiles # CAFiles /\ <<>> \notin Stores /\ KeyFiles[1] = "agent.json"
  /\ \A store \in Stores : \A i \in 1..3 : store[i] \in Files
  /\ \A s, t \in Stores : \A i, j \in 1..3 : s[i] = t[j] => s = t /\ i = j
<1>1. /\ KeyFiles[1] = "agent.json" /\ KeyFiles[2] = "tls-private.pem" /\ KeyFiles[3] = "tls-public.pem"
      /\ CAFiles[1] = "ca.crt" /\ CAFiles[2] = "ca.key" /\ CAFiles[3] = "serial"
  BY DEF KeyFiles, CAFiles
<1>2. KeyFiles # CAFiles
  BY <1>1
<1>3. Len(KeyFiles) = 3 /\ Len(CAFiles) = 3
  BY DEF KeyFiles, CAFiles
<1>4. <<>> \notin Stores
  BY <1>3 DEF Stores
<1>5. \A store \in Stores : \A i \in 1..3 : store[i] \in Files
  BY <1>1 DEF Stores, Files
<1>6. \A s, t \in Stores : \A i, j \in 1..3 : s[i] = t[j] => s = t /\ i = j
  BY <1>1 DEF Stores
<1> QED
  BY <1>1, <1>2, <1>4, <1>5, <1>6

LEMMA FourParts == ASSUME NEW a, NEW b, NEW c, NEW d PROVE <<a, b>> \o <<c, d>> = <<a, b, c, d>>
<1> DEFINE S == {a, b, c, d}
           r == <<a, b>> \o <<c, d>>
<1>1. <<a, b>> \in Seq(S) /\ <<c, d>> \in Seq(S) /\ <<a, b, c, d>> \in Seq(S)
  OBVIOUS
<1>2. /\ r \in Seq(S) /\ Len(r) = 4
      /\ \A i \in 1..4 : r[i] = IF i <= 2 THEN <<a, b>>[i] ELSE <<c, d>>[i - 2]
  BY <1>1, ConcatProperties
<1>3. r[1] = a /\ r[2] = b /\ r[3] = c /\ r[4] = d
  BY <1>2
<1> HIDE DEF r, S
<1>4. \A i \in 1..4 : r[i] = <<a, b, c, d>>[i]
  BY <1>3
<1>5. r = <<a, b, c, d>>
  BY <1>1, <1>2, <1>4, SeqEqual
<1> QED
  BY <1>5 DEF r

LEMMA CredentialsStart == CredentialsInit => CredentialsInv
BY CredentialsAssumption, StoreFacts
DEF CredentialsInit, CredentialsInv, CredentialsTypeOK, StoresWhole, WritesNew, HasOnDisk,
    AgentsOnDisk, Down, Missing, Empty, Stores

\* A store is loaded only when it is there as a whole, and made anew otherwise.
LEMMA LoadableFacts ==
  ASSUME CredentialsInv, NEW store \in Stores
  PROVE  Loadable(store) <=> disk[store[3]] # Missing
<1>1. /\ disk \in [Files -> 0..Empty] /\ generated \in 0..MaxMade /\ MaxMade \in Nat
      /\ disk[store[3]] # Missing => disk[store[1]] \in 1..generated /\ disk[store[2]] = disk[store[1]]
  BY CredentialsAssumption DEF CredentialsInv, CredentialsTypeOK, StoresWhole, Made
<1>2. \A x \in 1..generated : x # Missing /\ x # Empty
  BY <1>1 DEF Missing, Empty
<1>3. store = KeyFiles => store[1] = "agent.json"
  BY StoreFacts
<1>4. disk[store[3]] # Missing => Loadable(store)
  BY <1>1, <1>2, <1>3, StoreFacts DEF Loadable
<1> QED
  BY <1>4 DEF Loadable

\* A store is at hand, on disk, where only the file written last may be new: the
\* certificate authority is next, or the agent is there.
LEMMA ObtainedKeeps ==
  ASSUME CredentialsInv, NEW store \in Stores, work.store = store,
         disk' \in [Files -> 0..Empty], StoresWhole', generated' = generated,
         disk'[store[3]] # Missing,
         \A f \in Files : f # store[3] => disk'[f] = disk[f],
         Obtained(store, <<disk'[store[1]], disk'[store[2]]>>)
  PROVE  CredentialsInv'
<1>1. /\ CredentialsTypeOK /\ HasOnDisk /\ AgentsOnDisk
      /\ generated \in 0..MaxMade
  BY DEF CredentialsInv, CredentialsTypeOK
<1>2. /\ \A s, t \in Stores : \A i, j \in 1..3 : s[i] = t[j] => s = t /\ i = j
      /\ \A s \in Stores : \A i \in 1..3 : s[i] \in Files
      /\ KeyFiles \in Stores /\ CAFiles \in Stores /\ KeyFiles # CAFiles /\ <<>> \notin Stores
  BY StoreFacts DEF Stores
<1>3. \A s \in Stores : \A i \in 1..2 : disk'[s[i]] = disk[s[i]]
  <2>1. \A s \in Stores : \A i \in 1..2 : s[i] \in Files /\ s[i] # store[3]
    BY <1>2
  <2> QED
    BY <2>1
<1>4. \A s \in Stores : disk[s[3]] # Missing => disk'[s[3]] # Missing
  BY <1>2
<1>5. AgentsOnDisk => \A id \in agents :
         /\ disk'[KeyFiles[3]] # Missing /\ disk'[CAFiles[3]] # Missing
         /\ id = <<disk'[KeyFiles[1]], disk'[KeyFiles[2]], disk'[CAFiles[1]], disk'[CAFiles[2]]>>
  BY <1>2, <1>3, <1>4 DEF AgentsOnDisk
<1>6. CASE store = KeyFiles
  <2>1. /\ identity = <<>> /\ agents' = agents /\ work' = Load(CAFiles)
        /\ identity' = identity \o <<disk'[KeyFiles[1]], disk'[KeyFiles[2]]>>
    BY <1>1, <1>6 DEF HasOnDisk, Obtained
  <2>2. identity' = <<disk'[KeyFiles[1]], disk'[KeyFiles[2]]>>
    BY <2>1
  <2>3. CredentialsTypeOK'
    BY <1>1, <1>2, <2>1 DEF CredentialsTypeOK
  <2>4. HasOnDisk'
    BY <1>2, <1>6, <2>1, <2>2 DEF HasOnDisk, Load
  <2>5. WritesNew'
    BY <2>1 DEF WritesNew, Load
  <2>6. AgentsOnDisk'
    BY <1>1, <1>5, <2>1 DEF AgentsOnDisk
  <2> QED
    BY <2>3, <2>4, <2>5, <2>6 DEF CredentialsInv
<1>7. CASE store = CAFiles
  <2>1. /\ disk[KeyFiles[3]] # Missing /\ identity = <<disk[KeyFiles[1]], disk[KeyFiles[2]]>>
        /\ work' = Down
        /\ agents' = agents \cup {identity \o <<disk'[CAFiles[1]], disk'[CAFiles[2]]>>}
    BY <1>1, <1>2, <1>7 DEF HasOnDisk, Obtained
  <2>2. identity \o <<disk'[CAFiles[1]], disk'[CAFiles[2]]>>
          = <<disk'[KeyFiles[1]], disk'[KeyFiles[2]], disk'[CAFiles[1]], disk'[CAFiles[2]]>>
    <3>1. /\ disk[KeyFiles[1]] = disk'[KeyFiles[1]] /\ disk[KeyFiles[2]] = disk'[KeyFiles[2]]
      BY <1>2, <1>3
    <3> QED
      BY <2>1, <3>1, FourParts
  <2>3. CredentialsTypeOK'
    BY <1>1, <2>1 DEF CredentialsTypeOK
  <2>4. HasOnDisk' /\ WritesNew'
    BY <1>2, <2>1 DEF HasOnDisk, WritesNew, Down
  <2>5. disk'[KeyFiles[3]] # Missing /\ disk'[CAFiles[3]] # Missing
    BY <1>2, <1>4, <1>7, <2>1
  <2>6. AgentsOnDisk'
    BY <1>1, <1>5, <2>1, <2>2, <2>5 DEF AgentsOnDisk
  <2> QED
    BY <2>3, <2>4, <2>6 DEF CredentialsInv
<1> QED
  BY <1>6, <1>7 DEF Stores

LEMMA LoadStoreStep == ASSUME CredentialsInv, LoadStore PROVE CredentialsInv'
<1> DEFINE store == work.store
<1>1. store \in Stores
  BY DEF CredentialsInv, CredentialsTypeOK, LoadStore, Down, Load
<1>2. /\ disk' = disk /\ generated' = generated /\ Loadable(store)
      /\ Obtained(store, <<disk[store[1]], disk[store[2]]>>)
  BY DEF LoadStore
<1>3. disk[store[3]] # Missing
  BY <1>1, <1>2, LoadableFacts
<1>4. disk' \in [Files -> 0..Empty] /\ StoresWhole'
  BY <1>2 DEF CredentialsInv, CredentialsTypeOK, StoresWhole, Made
<1> HIDE DEF store
<1>5. work.store = store
  BY DEF store
<1> QED
  BY <1>1, <1>2, <1>3, <1>4, <1>5, ObtainedKeeps

LEMMA RenewStep == ASSUME CredentialsInv, GenerateKeys \/ CreateCA PROVE CredentialsInv'
<1>1. PICK store \in Stores : work = Load(store) /\ Renew(store)
  BY DEF GenerateKeys, CreateCA, Renew, Stores
<1>2. work' = [do |-> "open", store |-> store, next |-> 1]
  <2>1. work' = [work EXCEPT !.do = "open", !.next = 1]
    BY <1>1 DEF Renew
  <2>2. work = [do |-> "load", store |-> store, next |-> 0]
    BY <1>1 DEF Load
  <2> QED
    BY <2>1, <2>2
<1>3. disk[store[3]] = Missing
  BY <1>1, LoadableFacts DEF Renew, Load
<1>4. /\ generated \in 0..MaxMade /\ generated' = generated + 1 /\ generated' \in 1..MaxMade
      /\ disk' = disk /\ identity' = identity /\ agents' = agents
  BY <1>1, CredentialsAssumption DEF CredentialsInv, CredentialsTypeOK, Renew
<1>5. CredentialsTypeOK'
  BY <1>2, <1>4 DEF CredentialsInv, CredentialsTypeOK
<1>6. StoresWhole'
  <2>1. \A x \in 1..generated : x \in 1..generated'
    BY <1>4
  <2> QED
    BY <1>4, <2>1 DEF CredentialsInv, StoresWhole, Made
<1>7. WritesNew'
  BY <1>2, <1>3, <1>4 DEF WritesNew, Made
<1>8. HasOnDisk' /\ AgentsOnDisk'
  BY <1>1, <1>2, <1>4 DEF CredentialsInv, HasOnDisk, AgentsOnDisk, Load
<1> QED
  BY <1>5, <1>6, <1>7, <1>8 DEF CredentialsInv

\* A file of a store is written anew while the store is not there as a whole.
LEMMA WrittenKeeps ==
  ASSUME CredentialsInv, work.do \in {"open", "write"}, NEW n \in 1..3, work.next = n,
         NEW x \in 0..Empty, x # Missing, n < 3 \/ work.do = "open",
         disk' = [disk EXCEPT ![work.store[n]] = x], generated' = generated,
         identity' = identity, agents' = agents, work'.store = work.store
  PROVE  StoresWhole' /\ HasOnDisk' /\ AgentsOnDisk'
<1> DEFINE store == work.store
<1>1. store \in Stores /\ disk \in [Files -> 0..Empty]
  BY DEF CredentialsInv, CredentialsTypeOK, Down, Load
<1>2. /\ generated \in Made /\ disk[store[3]] = Missing
      /\ n = 3 => \A i \in 1..2 : disk[store[i]] = generated
  BY DEF CredentialsInv, WritesNew
<1>3. /\ \A s, t \in Stores : \A i, j \in 1..3 : s[i] = t[j] => s = t /\ i = j
      /\ \A s \in Stores : \A i \in 1..3 : s[i] \in Files
      /\ KeyFiles \in Stores /\ CAFiles \in Stores /\ KeyFiles # CAFiles
  BY StoreFacts DEF Stores
<1>4. \A s \in Stores : \A i \in 1..3 :
        disk'[s[i]] = IF s = store /\ i = n THEN x ELSE disk[s[i]]
  BY <1>1, <1>3
<1>5. StoresWhole'
  <2> SUFFICES ASSUME NEW s \in Stores, disk'[s[3]] # Missing
               PROVE  disk'[s[1]] \in Made' /\ disk'[s[2]] = disk'[s[1]]
    BY DEF StoresWhole
  <2>1. CASE s # store
    BY <1>4, <2>1 DEF CredentialsInv, StoresWhole, Made
  <2>2. CASE s = store
    BY <1>2, <1>4, <2>2 DEF Made
  <2> QED
    BY <2>1, <2>2
<1>6. agents = {}
  BY <1>1, <1>2 DEF CredentialsInv, AgentsOnDisk, Stores
<1>7. HasOnDisk'
  <2>1. work'.store = KeyFiles => identity' = <<>>
    BY DEF CredentialsInv, HasOnDisk
  <2>2. ASSUME work'.store = CAFiles
        PROVE  disk'[KeyFiles[3]] # Missing /\ identity' = <<disk'[KeyFiles[1]], disk'[KeyFiles[2]]>>
    <3>1. disk[KeyFiles[3]] # Missing /\ identity = <<disk[KeyFiles[1]], disk[KeyFiles[2]]>>
      BY <2>2 DEF CredentialsInv, HasOnDisk
    <3>2. \A i \in 1..3 : disk'[KeyFiles[i]] = disk[KeyFiles[i]]
      BY <1>3, <1>4, <2>2
    <3> QED
      BY <3>1, <3>2
  <2> QED
    BY <2>1, <2>2 DEF HasOnDisk
<1> QED
  BY <1>5, <1>6, <1>7 DEF AgentsOnDisk

LEMMA OpenFileStep == ASSUME CredentialsInv, OpenFile PROVE CredentialsInv'
<1>1. PICK store \in Stores, n \in 1..3 : work = [do |-> "open", store |-> store, next |-> n]
  BY DEF CredentialsInv, CredentialsTypeOK, OpenFile, Down, Load
<1>2. /\ work' = [do |-> "write", store |-> store, next |-> n]
      /\ disk' = [disk EXCEPT ![store[n]] = Empty]
      /\ generated' = generated /\ identity' = identity /\ agents' = agents
  BY <1>1 DEF OpenFile
<1>3. /\ Empty \in 0..Empty /\ Empty # Missing
      /\ disk \in [Files -> 0..Empty] /\ generated \in 0..MaxMade
  BY CredentialsAssumption DEF Empty, Missing, CredentialsInv, CredentialsTypeOK
<1>4. StoresWhole' /\ HasOnDisk' /\ AgentsOnDisk'
  BY <1>1, <1>2, <1>3, WrittenKeeps
<1>5. CredentialsTypeOK'
  BY <1>2, <1>3 DEF CredentialsTypeOK
<1>6. WritesNew'
  <2>1. /\ generated \in Made /\ disk[store[3]] = Missing
        /\ \A i \in 1..2 : i < n => disk[store[i]] = generated
    BY <1>1 DEF CredentialsInv, WritesNew
  <2>2. \A i \in 1..3 : i # n => disk'[store[i]] = disk[store[i]]
    BY <1>2, <1>3, StoreFacts
  <2>3. work'.next < 3 \/ work'.do = "open" => disk'[work'.store[3]] = Missing
    BY <1>2, <2>1, <2>2
  <2>4. \A i \in 1..2 : i < work'.next => disk'[work'.store[i]] = generated'
    BY <1>2, <2>1, <2>2
  <2> QED
    BY <1>2, <2>1, <2>3, <2>4 DEF WritesNew, Made
<1> QED
  BY <1>4, <1>5, <1>6 DEF CredentialsInv

LEMMA WriteFileStep == ASSUME CredentialsInv, WriteFile PROVE CredentialsInv'
<1>1. PICK store \in Stores, n \in 1..3 : work = [do |-> "write", store |-> store, next |-> n]
  BY DEF CredentialsInv, CredentialsTypeOK, WriteFile, Down, Load
<1>2. disk' = [disk EXCEPT ![store[n]] = generated] /\ generated' = generated
  BY <1>1 DEF WriteFile
<1>3. /\ generated \in Made /\ (n < 3 => disk[store[3]] = Missing)
      /\ \A i \in 1..2 : i < n => disk[store[i]] = generated
  BY <1>1 DEF CredentialsInv, WritesNew
<1>4. /\ generated \in 0..MaxMade /\ generated # Missing /\ generated \in 0..Empty
      /\ disk \in [Files -> 0..Empty]
  BY <1>3, CredentialsAssumption DEF Empty, Missing, Made, CredentialsInv, CredentialsTypeOK
<1>5. \A i \in 1..3 : disk'[store[i]] = IF i = n THEN generated ELSE disk[store[i]]
  BY <1>2, <1>4, StoreFacts
<1>6. CASE n < 3
  <2>1. /\ work' = [do |-> "open", store |-> store, next |-> n + 1]
        /\ identity' = identity /\ agents' = agents
    BY <1>1, <1>6 DEF WriteFile
  <2>2. StoresWhole' /\ HasOnDisk' /\ AgentsOnDisk'
    BY <1>1, <1>2, <1>4, <1>6, <2>1, WrittenKeeps
  <2>3. CredentialsTypeOK'
    <3>1. work' \in [do : {"open", "write"}, store : Stores, next : 1..3]
      BY <1>6, <2>1
    <3> QED
      BY <1>2, <1>4, <3>1 DEF CredentialsTypeOK
  <2>4. WritesNew'
    <3>1. disk'[store[3]] = Missing
      BY <1>3, <1>5, <1>6
    <3>2. \A i \in 1..2 : i < n + 1 => disk'[store[i]] = generated
      BY <1>3, <1>5
    <3> QED
      BY <1>2, <1>3, <2>1, <3>1, <3>2 DEF WritesNew, Made
  <2> QED
    BY <2>2, <2>3, <2>4 DEF CredentialsInv
<1>7. CASE n = 3
  <2>1. \A i \in 1..2 : disk[store[i]] = generated /\ disk'[store[i]] = generated
    BY <1>3, <1>5, <1>7
  <2>2. Obtained(store, <<disk'[store[1]], disk'[store[2]]>>)
    <3>1. Obtained(store, <<generated, generated>>)
      BY <1>1, <1>7 DEF WriteFile
    <3> QED
      BY <2>1, <3>1
  <2>3. \A f \in Files : f # store[3] => disk'[f] = disk[f]
    BY <1>2, <1>4, <1>7
  <2>4. disk' \in [Files -> 0..Empty] /\ disk'[store[3]] # Missing
    BY <1>2, <1>4, <1>5, <1>7
  <2>5. StoresWhole'
    <3> SUFFICES ASSUME NEW s \in Stores, disk'[s[3]] # Missing
                 PROVE  disk'[s[1]] \in Made' /\ disk'[s[2]] = disk'[s[1]]
      BY DEF StoresWhole
    <3>1. CASE s = store
      BY <1>2, <1>3, <2>1, <3>1 DEF Made
    <3>2. CASE s # store
      <4>1. \A i \in 1..3 : disk'[s[i]] = disk[s[i]]
        BY <2>3, <3>2, StoreFacts
      <4> QED
        BY <1>2, <4>1 DEF CredentialsInv, StoresWhole, Made
    <3> QED
      BY <3>1, <3>2
  <2>6. work.store = store
    BY <1>1
  <2> QED
    BY <1>2, <2>2, <2>3, <2>4, <2>5, <2>6, ObtainedKeeps
<1> QED
  BY <1>6, <1>7

LEMMA CredentialsKeep == CredentialsInv /\ [CredentialsNext]_credentialVars => CredentialsInv'
<1> SUFFICES ASSUME CredentialsInv, [CredentialsNext]_credentialVars PROVE CredentialsInv'
  OBVIOUS
<1>1. CASE Construct
  <2>1. /\ work' = Load(KeyFiles) /\ identity' = <<>>
        /\ disk' = disk /\ generated' = generated /\ agents' = agents
    BY <1>1 DEF Construct
  <2>2. CredentialsTypeOK' /\ StoresWhole' /\ AgentsOnDisk'
    BY <2>1 DEF CredentialsInv, CredentialsTypeOK, StoresWhole, AgentsOnDisk, Made, Stores
  <2>3. WritesNew' /\ HasOnDisk'
    BY <2>1, StoreFacts DEF WritesNew, HasOnDisk, Load
  <2> QED
    BY <2>2, <2>3 DEF CredentialsInv
<1>2. CASE Die
  <2>1. work' = Down /\ disk' = disk /\ generated' = generated /\ agents' = agents
    BY <1>2 DEF Die
  <2>2. CredentialsTypeOK' /\ StoresWhole' /\ AgentsOnDisk'
    BY <2>1 DEF CredentialsInv, CredentialsTypeOK, StoresWhole, AgentsOnDisk, Made
  <2>3. WritesNew' /\ HasOnDisk'
    BY <2>1, StoreFacts DEF WritesNew, HasOnDisk, Down, Stores
  <2> QED
    BY <2>2, <2>3 DEF CredentialsInv
<1>3. CASE UNCHANGED credentialVars
  BY <1>3 DEF credentialVars, CredentialsInv, CredentialsTypeOK, StoresWhole, WritesNew, HasOnDisk,
              AgentsOnDisk, Made
<1> QED
  BY <1>1, <1>2, <1>3, LoadStoreStep, RenewStep, OpenFileStep, WriteFileStep DEF CredentialsNext

\* However often the process dies while it writes, every agent it constructs has the
\* one identity that is on disk (initializeKeys, initializeCA), whatever the limits.
THEOREM SameIdentity == CredentialsInit /\ [][CredentialsNext]_credentialVars => []OneIdentity
<1>1. CredentialsInv => OneIdentity
  <2> SUFFICES ASSUME CredentialsInv PROVE OneIdentity
    OBVIOUS
  <2> DEFINE it == <<disk[KeyFiles[1]], disk[KeyFiles[2]], disk[CAFiles[1]], disk[CAFiles[2]]>>
  <2>1. agents \subseteq {it}
    BY DEF CredentialsInv, AgentsOnDisk
  <2>2. Cardinality(agents) <= 1
    <3>1. agents = {} \/ agents = {it}
      BY <2>1
    <3> QED
      <4>1. Cardinality({}) = 0
        BY FS_EmptySet
      <4>2. Cardinality({it}) = 1
        BY FS_Singleton
      <4> HIDE DEF it
      <4> QED
        BY <3>1, <4>1, <4>2
  <2>3. ASSUME NEW id \in agents
        PROVE  id[1] = id[2] /\ id[3] = id[4] /\ Empty \notin {id[1], id[3]}
    <3>1. /\ id[1] = disk[KeyFiles[1]] /\ id[2] = disk[KeyFiles[2]]
          /\ id[3] = disk[CAFiles[1]] /\ id[4] = disk[CAFiles[2]]
          /\ disk[KeyFiles[3]] # Missing /\ disk[CAFiles[3]] # Missing
      BY DEF CredentialsInv, AgentsOnDisk
    <3>2. \A store \in Stores :
            disk[store[3]] # Missing => disk[store[1]] \in 1..generated /\ disk[store[2]] = disk[store[1]]
      BY DEF CredentialsInv, StoresWhole, Made
    <3>3. KeyFiles \in Stores /\ CAFiles \in Stores
      BY DEF Stores
    <3>4. Empty \notin 1..generated
      BY CredentialsAssumption DEF Empty, CredentialsInv, CredentialsTypeOK
    <3> QED
      BY <3>1, <3>2, <3>3, <3>4
  <2> QED
    BY <2>2, <2>3 DEF OneIdentity
<1> QED
  BY <1>1, CredentialsStart, CredentialsKeep, PTL

-----------------------------------------------------------------------------
\* THE SHUTDOWN MANAGER

\* The loop goes on past this hook.
Over(h) == hook[h] \in {"done", "failed"} \/ h \in timedOut

\* A hook has been called only if all of a lower priority number have ended or lost
\* their race.
CalledInTurn ==
  \A i, j \in DOMAIN hooks :
    hooks[i].priority < hooks[j].priority /\ hook[hooks[j].name] # "idle" => Over(hooks[i].name)

Entries == [name : Hooks, priority : Priorities]
HookStates == {"none", "idle", "running", "done", "failed"}

ShutdownTypeOK ==
  /\ hooks \in Seq(Entries)
  /\ hook \in [Hooks -> HookStates]
  /\ at \in Nat
  /\ process \in {"up", "closing", "complete", "exited", "forced"}

\* Each registered hook has one place, in the order of the priorities.
Sorted ==
  /\ \A i, j \in DOMAIN hooks : i < j => /\ hooks[i].name # hooks[j].name
                                        /\ hooks[i].priority <= hooks[j].priority
  /\ \A h \in Hooks : hook[h] # "none" <=> \E i \in DOMAIN hooks : hooks[i].name = h

\* The loop is at its place: over with all before it, and none after it is called.
Looping ==
  /\ \A i \in DOMAIN hooks : (i < at => Over(hooks[i].name)) /\ (i > at => hook[hooks[i].name] = "idle")
  /\ \A h \in timedOut : \E i \in DOMAIN hooks : i < at /\ hooks[i].name = h
  /\ process = "up" => at = 0
  /\ process = "closing" => at \in DOMAIN hooks /\ hook[hooks[at].name] = "running"
  /\ process = "complete" => at = Len(hooks) + 1
  /\ at <= Len(hooks) + 1

ShutdownInv == ShutdownTypeOK /\ Sorted /\ Looping

LEMMA ShutdownStarts == ShutdownInit => ShutdownInv
BY DEF ShutdownInit, ShutdownInv, ShutdownTypeOK, HookStates, Sorted, Looping, Over

\* The list of the hooks.
LEMMA HooksTyped ==
  ASSUME ShutdownInv
  PROVE  /\ hooks \in Seq(Entries) /\ Len(hooks) \in Nat /\ DOMAIN hooks = 1..Len(hooks)
         /\ at \in Nat /\ at <= Len(hooks) + 1
         /\ \A i \in DOMAIN hooks : /\ i \in Nat \ {0} /\ hooks[i].name \in Hooks
                                   /\ hooks[i].priority \in Nat
<1>1. hooks \in Seq(Entries) /\ at \in Nat
  BY DEF ShutdownInv, ShutdownTypeOK
<1>2. Len(hooks) \in Nat /\ DOMAIN hooks = 1..Len(hooks) /\ \A i \in DOMAIN hooks : hooks[i] \in Entries
  BY <1>1
<1>3. \A e \in Entries : e.name \in Hooks /\ e.priority \in Nat
  BY ShutdownAssumption DEF Entries
<1>4. at <= Len(hooks) + 1
  BY DEF ShutdownInv, Looping
<1>5. \A i \in DOMAIN hooks : i \in Nat \ {0}
  BY <1>2
<1> QED
  BY <1>1, <1>2, <1>3, <1>4, <1>5

Placed(s, n, x) == SubSeq(s, 1, n) \o <<x>> \o SubSeq(s, n + 1, Len(s))

\* What an insertion gives: all before the new element, it, and all after it.
LEMMA Inserted ==
  ASSUME NEW S, NEW s \in Seq(S), NEW n \in 0..Len(s), NEW x \in S
  PROVE  /\ Placed(s, n, x) \in Seq(S) /\ Len(Placed(s, n, x)) = Len(s) + 1
         /\ \A i \in 1..(Len(s) + 1) :
              Placed(s, n, x)[i] = IF i <= n THEN s[i] ELSE IF i = n + 1 THEN x ELSE s[i - 1]
<1> DEFINE a == SubSeq(s, 1, n)
           b == SubSeq(s, n + 1, Len(s))
           u == a \o <<x>>
           t == u \o b
<1>1. a \in Seq(S) /\ Len(a) = n /\ \A i \in 1..n : a[i] = s[i]
  BY SubSeqProperties
<1>2. b \in Seq(S) /\ Len(b) = Len(s) - n /\ \A i \in 1..(Len(s) - n) : b[i] = s[n + i]
  BY SubSeqProperties
<1>3. <<x>> \in Seq(S) /\ Len(<<x>>) = 1 /\ <<x>>[1] = x
  OBVIOUS
<1> HIDE DEF a, b
<1>4. u \in Seq(S) /\ Len(u) = n + 1 /\ u[n + 1] = x /\ \A i \in 1..n : u[i] = s[i]
  BY <1>1, <1>3, ConcatProperties
<1> HIDE DEF u
<1>b. u \in Seq(S) /\ b \in Seq(S)
  BY <1>2, <1>4
<1>5. /\ t \in Seq(S) /\ Len(t) = Len(u) + Len(b)
      /\ \A i \in 1..Len(u) : t[i] = u[i]
      /\ \A i \in 1..Len(b) : t[Len(u) + i] = b[i]
  BY <1>b, ConcatProperties
<1> HIDE DEF t
<1>6. \A i \in 1..Len(t) : t[i] = IF i <= n THEN s[i] ELSE IF i = n + 1 THEN x ELSE s[i - 1]
  <2> TAKE i \in 1..Len(t)
  <2>1. CASE i <= n + 1
    BY <1>4, <1>5, <2>1
  <2>2. CASE i > n + 1
    <3>1. i - (n + 1) \in 1..Len(b) /\ (n + 1) + (i - (n + 1)) = i /\ n + (i - (n + 1)) = i - 1
      BY <1>2, <1>4, <1>5, <2>2
    <3>2. t[i] = b[i - (n + 1)]
      BY <1>4, <1>5, <3>1
    <3>3. b[i - (n + 1)] = s[i - 1]
      BY <1>2, <3>1
    <3> QED
      BY <2>2, <3>2, <3>3
  <2> QED
    BY <2>1, <2>2
<1>7. Len(t) = Len(s) + 1
  BY <1>2, <1>4, <1>5
<1> QED
  BY <1>5, <1>6, <1>7 DEF Placed, t, u, a, b

\* A new hook is put between those of its priority and less, and the others.
LEMMA RegisterKeeps ==
  ASSUME ShutdownInv, NEW h \in Hooks, NEW p \in Priorities, Register(h, p)
  PROVE  ShutdownInv'
<1> DEFINE new == [name |-> h, priority |-> p]
<1>1. PICK n \in 0..Len(hooks) :
        /\ \A i \in DOMAIN hooks : i <= n <=> hooks[i].priority <= p
        /\ hooks' = Placed(hooks, n, new)
  BY DEF Register, Placed
<1>2. /\ process = "up" /\ hook[h] = "none" /\ hook' = [hook EXCEPT ![h] = "idle"]
      /\ UNCHANGED <<at, timedOut, process>>
  BY DEF Register
<1>3. /\ hooks \in Seq(Entries) /\ Len(hooks) \in Nat /\ DOMAIN hooks = 1..Len(hooks)
      /\ new \in Entries
  BY HooksTyped DEF Entries
<1>4. /\ hooks' \in Seq(Entries)
      /\ Len(hooks') = Len(hooks) + 1 /\ DOMAIN hooks' = 1..(Len(hooks) + 1)
      /\ \A i \in DOMAIN hooks' :
           hooks'[i] = IF i <= n THEN hooks[i] ELSE IF i = n + 1 THEN new ELSE hooks[i - 1]
  <2> HIDE DEF new
  <2>1. /\ Placed(hooks, n, new) \in Seq(Entries) /\ Len(Placed(hooks, n, new)) = Len(hooks) + 1
        /\ \A i \in 1..(Len(hooks) + 1) : Placed(hooks, n, new)[i] =
             IF i <= n THEN hooks[i] ELSE IF i = n + 1 THEN new ELSE hooks[i - 1]
    <3>1. hooks \in Seq(Entries) /\ new \in Entries /\ n \in 0..Len(hooks)
      BY <1>3
    <3> QED
      BY <3>1, Inserted
  <2>2. DOMAIN hooks' = 1..(Len(hooks) + 1)
    BY <1>1, <2>1
  <2> QED
    BY <1>1, <2>1, <2>2
<1>5. \A i \in DOMAIN hooks' :
        \/ i = n + 1 /\ hooks'[i] = new
        \/ i <= n /\ i \in DOMAIN hooks /\ hooks'[i] = hooks[i] /\ hooks[i].priority <= p
        \/ /\ i > n + 1 /\ i - 1 \in DOMAIN hooks /\ hooks'[i] = hooks[i - 1]
           /\ ~(hooks[i - 1].priority <= p)
  BY <1>1, <1>3, <1>4
<1>6. \A i \in DOMAIN hooks : /\ hooks[i].name \in Hooks \ {h} /\ hook[hooks[i].name] = "idle"
                              /\ hooks[i].priority \in Nat
  BY <1>2, HooksTyped DEF ShutdownInv, Sorted, Looping
<1>7. ShutdownTypeOK'
  BY <1>2, <1>4 DEF ShutdownInv, ShutdownTypeOK, HookStates
<1>8. Sorted'
  <2>1. ASSUME NEW i \in DOMAIN hooks', NEW j \in DOMAIN hooks', i < j
        PROVE  hooks'[i].name # hooks'[j].name /\ hooks'[i].priority <= hooks'[j].priority
    <3>1. p \in Nat /\ i \in Nat /\ j \in Nat
      BY <1>4, ShutdownAssumption
    <3>2. \A k, l \in DOMAIN hooks : k < l => /\ hooks[k].name # hooks[l].name
                                             /\ hooks[k].priority <= hooks[l].priority
      BY DEF ShutdownInv, Sorted
    <3>3. CASE i = n + 1 \/ j = n + 1
      BY <1>5, <1>6, <2>1, <3>1, <3>3
    <3>4. CASE i # n + 1 /\ j # n + 1
      <4>1. PICK k \in DOMAIN hooks : hooks'[i] = hooks[k] /\ k = IF i <= n THEN i ELSE i - 1
        <5>1. CASE i <= n
          BY <1>5, <3>1, <3>4, <5>1
        <5>2. CASE ~(i <= n)
          BY <1>5, <3>1, <3>4, <5>2
        <5> QED
          BY <5>1, <5>2
      <4>2. PICK l \in DOMAIN hooks : hooks'[j] = hooks[l] /\ l = IF j <= n THEN j ELSE j - 1
        <5>1. CASE j <= n
          BY <1>5, <3>1, <3>4, <5>1
        <5>2. CASE ~(j <= n)
          BY <1>5, <3>1, <3>4, <5>2
        <5> QED
          BY <5>1, <5>2
      <4>3. k < l
        BY <2>1, <3>1, <3>4, <4>1, <4>2
      <4> QED
        BY <3>2, <4>1, <4>2, <4>3
    <3> QED
      BY <3>3, <3>4
  <2>2. ASSUME NEW g \in Hooks
        PROVE  hook'[g] # "none" <=> \E i \in DOMAIN hooks' : hooks'[i].name = g
    <3>1. CASE g = h
      <4>1. n + 1 \in DOMAIN hooks' /\ hooks'[n + 1] = new
        BY <1>3, <1>4
      <4> QED
        BY <1>2, <3>1, <4>1 DEF ShutdownInv, ShutdownTypeOK
    <3>2. CASE g # h
      <4>1. hook'[g] = hook[g] /\ (hook[g] # "none" <=> \E i \in DOMAIN hooks : hooks[i].name = g)
        BY <1>2, <3>2 DEF ShutdownInv, ShutdownTypeOK, Sorted
      <4>2. ASSUME NEW i \in DOMAIN hooks PROVE \E j \in DOMAIN hooks' : hooks'[j] = hooks[i]
        <5>1. i <= n => i \in DOMAIN hooks' /\ hooks'[i] = hooks[i]
          BY <1>3, <1>4
        <5>2. ~(i <= n) => i + 1 \in DOMAIN hooks' /\ hooks'[i + 1] = hooks[i]
          BY <1>3, <1>4
        <5> QED
          BY <5>1, <5>2
      <4>3. ASSUME NEW i \in DOMAIN hooks', hooks'[i].name = g
            PROVE  \E j \in DOMAIN hooks : hooks[j].name = g
        BY <1>5, <3>2, <4>3
      <4> QED
        BY <4>1, <4>2, <4>3
    <3> QED
      BY <3>1, <3>2
  <2> QED
    BY <2>1, <2>2 DEF Sorted
<1>9. Looping'
  <2>1. at = 0 /\ timedOut = {}
    BY <1>2, <1>3 DEF ShutdownInv, Looping
  <2>2. \A i \in DOMAIN hooks' : hook'[hooks'[i].name] = "idle" /\ ~(i < 0)
    BY <1>2, <1>4, <1>5, <1>6 DEF ShutdownInv, ShutdownTypeOK
  <2> QED
    BY <1>2, <2>1, <2>2 DEF Looping
<1> QED
  BY <1>7, <1>8, <1>9 DEF ShutdownInv

\* The loop goes on once the hook it is at is over, whatever ended it.
LEMMA ProceedKeeps ==
  ASSUME ShutdownInv, process \in {"up", "closing"}, UNCHANGED hooks,
         NEW ended \in [Hooks -> HookStates], Proceed(ended),
         timedOut \subseteq timedOut',
         \A h \in timedOut' : h \in timedOut \/ (at # 0 /\ h = hooks[at].name),
         \A h \in Hooks : ended[h] = hook[h] \/ (at # 0 /\ h = hooks[at].name),
         at # 0 => ended[hooks[at].name] \in {"done", "failed"} \/ hooks[at].name \in timedOut',
         at # 0 => ended[hooks[at].name] \notin {"none", "idle"}
  PROVE  ShutdownInv'
<1>1. /\ Len(hooks) \in Nat /\ DOMAIN hooks = 1..Len(hooks) /\ at \in 0..Len(hooks) /\ hooks' = hooks
      /\ \A i \in DOMAIN hooks : hooks[i].name \in Hooks
  BY HooksTyped DEF ShutdownInv, Looping
<1>2. /\ at' = at + 1
      /\ at = Len(hooks) => hook' = ended /\ process' = "complete"
      /\ at # Len(hooks) => /\ hook' = [ended EXCEPT ![hooks[at + 1].name] = "running"]
                            /\ process' = "closing" /\ at + 1 \in DOMAIN hooks
  BY <1>1 DEF Proceed
<1>3. \A i, j \in DOMAIN hooks : i # j => hooks[i].name # hooks[j].name
  BY <1>1 DEF ShutdownInv, Sorted
<1>4. \A i \in DOMAIN hooks : /\ i # at => ended[hooks[i].name] = hook[hooks[i].name]
                              /\ i # at + 1 => hook'[hooks[i].name] = ended[hooks[i].name]
                              /\ i = at + 1 => hook'[hooks[i].name] = "running"
  BY <1>1, <1>2, <1>3
<1>5. ShutdownTypeOK'
  <2>1. hook' \in [Hooks -> HookStates]
    BY <1>1, <1>2 DEF HookStates
  <2>2. at' \in Nat
    BY HooksTyped DEF Proceed
  <2>3. process' \in {"closing", "complete"}
    BY <1>2, Zenon
  <2> QED
    BY <1>1, <2>1, <2>2, <2>3 DEF ShutdownInv, ShutdownTypeOK
<1>6. Sorted'
  <2>1. ASSUME NEW h \in Hooks PROVE hook'[h] # "none" <=> hook[h] # "none"
    <3>1. CASE \E i \in DOMAIN hooks : hooks[i].name = h
      <4>1. PICK i \in DOMAIN hooks : hooks[i].name = h
        BY <3>1
      <4>2. hook[h] # "none"
        BY <4>1 DEF ShutdownInv, Sorted
      <4> QED
        BY <1>1, <1>4, <4>1, <4>2
    <3>2. CASE ~\E i \in DOMAIN hooks : hooks[i].name = h
      <4>1. ended[h] = hook[h]
        BY <1>1, <3>2
      <4>2. hook'[h] = ended[h]
        BY <1>1, <1>2, <3>2
      <4> QED
        BY <4>1, <4>2
    <3> QED
      BY <3>1, <3>2
  <2> QED
    BY <1>1, <2>1 DEF ShutdownInv, Sorted
<1>7. Looping'
  <2>1. ASSUME NEW i \in DOMAIN hooks, i < at' PROVE Over(hooks[i].name)'
    <3>1. CASE i = at
      BY <1>1, <1>4, <3>1 DEF Over
    <3>2. CASE i < at
      BY <1>1, <1>4, <3>2 DEF ShutdownInv, Looping, Over
    <3> QED
      BY <1>1, <1>2, <2>1, <3>1, <3>2
  <2>2. ASSUME NEW i \in DOMAIN hooks, i > at' PROVE hook'[hooks[i].name] = "idle"
    <3>1. i \in 1..Len(hooks) /\ Len(hooks) \in Nat /\ at \in 0..Len(hooks)
      BY <1>1, <2>2
    <3>2. i \in Nat /\ at \in Nat /\ at' = at + 1
      BY <1>2, <3>1
    <3>3. i # at /\ i # at + 1 /\ i > at
      BY <3>2, <2>2
    <3> QED
      BY <1>4, <3>3 DEF ShutdownInv, Looping
  <2>3. ASSUME NEW h \in timedOut' PROVE \E i \in DOMAIN hooks : i < at' /\ hooks[i].name = h
    <3>1. ASSUME NEW i \in DOMAIN hooks, i <= at PROVE i < at'
      <4>1. i \in 1..Len(hooks) /\ Len(hooks) \in Nat /\ at \in 0..Len(hooks)
        BY <1>1, <3>1
      <4>2. i \in Nat /\ at \in Nat /\ at' = at + 1
        BY <1>2, <4>1
      <4> QED
        BY <3>1, <4>2
    <3>2. CASE h \in timedOut
      <4>1. PICK i \in DOMAIN hooks : i < at /\ hooks[i].name = h
        BY <3>2 DEF ShutdownInv, Looping
      <4>2. i <= at
        BY <1>1, <4>1
      <4> QED
        BY <3>1, <4>1, <4>2
    <3>3. CASE at # 0 /\ h = hooks[at].name
      <4>1. at \in DOMAIN hooks /\ at <= at
        BY <1>1, <3>3
      <4> QED
        BY <3>1, <3>3, <4>1
    <3> QED
      BY <3>2, <3>3
  <2>4. /\ process' # "up"
        /\ process' = "closing" => at' \in DOMAIN hooks /\ hook'[hooks[at'].name] = "running"
        /\ process' = "complete" => at' = Len(hooks) + 1
        /\ at' <= Len(hooks) + 1
    <3>1. CASE at = Len(hooks)
      BY <1>1, <1>2, <3>1
    <3>2. CASE at # Len(hooks)
      <4>1. at' = at + 1 /\ at + 1 \in DOMAIN hooks /\ process' = "closing"
        BY <1>2, <3>2, Zenon
      <4>2. at + 1 <= Len(hooks) + 1
        BY <1>1
      <4> QED
        BY <1>4, <4>1, <4>2
    <3> QED
      BY <3>1, <3>2
  <2> QED
    BY <1>1, <2>1, <2>2, <2>3, <2>4 DEF Looping
<1> QED
  BY <1>5, <1>6, <1>7 DEF ShutdownInv

LEMMA ShutdownKeeps == ShutdownInv /\ [ShutdownNext]_shutdownVars => ShutdownInv'
<1> SUFFICES ASSUME ShutdownInv, [ShutdownNext]_shutdownVars PROVE ShutdownInv'
  OBVIOUS
<1>0. hook \in [Hooks -> HookStates] /\ \A how \in {"done", "failed"} : how \in HookStates
  BY DEF ShutdownInv, ShutdownTypeOK, HookStates
<1>1. ASSUME NEW h \in Hooks, HookEnds(h) PROVE ShutdownInv'
  <2>1. PICK how \in {"done", "failed"} :
          IF h \in timedOut THEN hook' = [hook EXCEPT ![h] = how] /\ UNCHANGED <<process, at>>
          ELSE Proceed([hook EXCEPT ![h] = how])
    BY <1>1 DEF HookEnds
  <2>2. UNCHANGED <<hooks, timedOut>> /\ process \in {"closing", "complete"} /\ hook[h] = "running"
    BY <1>1 DEF HookEnds
  <2>3. PICK i \in DOMAIN hooks : hooks[i].name = h
    BY <2>2 DEF ShutdownInv, Sorted
  <2>4. CASE h \in timedOut
    <3>1. hook' = [hook EXCEPT ![h] = how] /\ UNCHANGED <<process, at, hooks, timedOut>>
      BY <2>1, <2>2, <2>4
    <3>2. PICK k \in DOMAIN hooks : k < at /\ hooks[k].name = h
      BY <2>4 DEF ShutdownInv, Looping
    <3>3. \A j \in DOMAIN hooks : j >= at => hooks[j].name # h
      BY <1>0, HooksTyped, <3>2 DEF ShutdownInv, Sorted
    <3>4. ShutdownTypeOK' /\ Sorted'
      BY <1>0, <2>2, <3>1 DEF ShutdownInv, ShutdownTypeOK, Sorted
    <3>5. \A g \in Hooks : g # h => hook'[g] = hook[g]
      BY <1>0, <3>1
    <3>6. Looping'
      BY <1>0, <2>4, <3>1, <3>3, <3>5 DEF ShutdownInv, ShutdownTypeOK, Looping, Over
    <3> QED
      BY <3>4, <3>6 DEF ShutdownInv
  <2>5. CASE h \notin timedOut
    <3>1. i = at /\ process = "closing"
      BY <1>0, HooksTyped, <2>2, <2>3, <2>5 DEF ShutdownInv, Looping, Over
    <3>2. Proceed([hook EXCEPT ![h] = how])
      BY <2>1, <2>5
    <3> QED
      BY <1>0, <2>2, <2>3, <3>1, <3>2, HooksTyped, ProceedKeeps
  <2> QED
    BY <2>4, <2>5
<1>2. ASSUME NEW h \in Hooks, NEW p \in Priorities, Register(h, p) PROVE ShutdownInv'
  BY <1>2, RegisterKeeps
<1>3. CASE Signal
  <2>1. CASE process = "up"
    <3>1. at = 0 /\ Proceed(hook) /\ UNCHANGED <<hooks, timedOut>>
      BY <1>3, <2>1 DEF Signal, ShutdownInv, Looping
    <3> QED
      BY <1>0, <2>1, <3>1, ProceedKeeps
  <2>2. CASE process # "up"
    BY <1>3, <2>2 DEF Signal, ShutdownInv, ShutdownTypeOK, Sorted, Looping, Over
  <2> QED
    BY <2>1, <2>2
<1>4. CASE HookTimeout
  <2>1. /\ process = "closing" /\ timedOut' = timedOut \cup {hooks[at].name} /\ Proceed(hook)
        /\ hooks' = hooks
    BY <1>4 DEF HookTimeout, Current
  <2>2. at \in DOMAIN hooks /\ hook[hooks[at].name] = "running"
    BY <2>1 DEF ShutdownInv, Looping
  <2> QED
    BY <1>0, <2>1, <2>2, HooksTyped, ProceedKeeps
<1>5. CASE Exit
  BY <1>5 DEF Exit, ShutdownInv, ShutdownTypeOK, Sorted, Looping, Over
<1>6. CASE UNCHANGED shutdownVars
  BY <1>6 DEF shutdownVars, ShutdownInv, ShutdownTypeOK, Sorted, Looping, Over
<1> QED
  BY <1>1, <1>2, <1>3, <1>4, <1>5, <1>6 DEF ShutdownNext

\* Though hooks fail, hang or end late, one is called only when all of a lower priority
\* number are over: the database is not closed before the outbox was flushed or given
\* its time (shutdown), for any hooks and priorities.
THEOREM InTurn == ShutdownInit /\ [][ShutdownNext]_shutdownVars => []CalledInTurn
<1>1. ShutdownInv => CalledInTurn
  <2> SUFFICES ASSUME ShutdownInv, NEW i \in DOMAIN hooks, NEW j \in DOMAIN hooks,
                      hooks[i].priority < hooks[j].priority, hook[hooks[j].name] # "idle"
               PROVE  Over(hooks[i].name)
    BY DEF CalledInTurn
  <2>1. /\ DOMAIN hooks \subseteq Nat /\ at \in Nat
        /\ hooks[i].priority \in Nat /\ hooks[j].priority \in Nat
    BY HooksTyped
  <2>2. i < j
    BY <2>1 DEF ShutdownInv, Sorted
  <2>3. j <= at
    BY <2>1 DEF ShutdownInv, Looping
  <2> QED
    BY <2>1, <2>2, <2>3 DEF ShutdownInv, Looping
<1> QED
  BY <1>1, ShutdownStarts, ShutdownKeeps, PTL
=============================================================================
