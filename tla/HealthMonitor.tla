--------------------------- MODULE HealthMonitor ---------------------------
(***************************************************************************)
(* The api-health agent (blueprints/api-health-monitor/agent.ts): endpoints *)
(* that are added and removed while probes of them are under way.  Removing *)
(* a URL and adding it again makes another endpoint, with its own history.  *)
(* The URLs of ENDPOINTS are monitored from the start, without the look     *)
(* at what is monitored already that add takes.                             *)
(***************************************************************************)
EXTENDS Naturals, Sequences

CONSTANTS
  Urls,
  MaxEndpoints,  \* bound: endpoints made, numbered as they are made
  MaxProbes,     \* bound: probes under way
  MaxHistory

ASSUME MonitorAssumption ==
  /\ {MaxEndpoints, MaxProbes} \subseteq Nat
  /\ MaxHistory \in Nat \ {0}

VARIABLES
  monitored,  \* endpoints: the endpoint of each URL, or 0
  made,       \* how many endpoints were made, and how many of them at the start
  listed,
  address,    \* of each endpoint made
  timers,     \* endpoints with an interval timer
  probes,     \* probes under way: for an endpoint, or by check for a URL
  history,    \* of each endpoint: for whom each result was probed, 0 for check
  phase       \* "starting", "running", "quitting"

monitorVars == <<monitored, made, listed, address, timers, probes, history, phase>>

Endpoints == 1..MaxEndpoints
Slots == 1..MaxProbes

Free == [url |-> "none", of |-> 0]

MonitorInit ==
  /\ monitored = [u \in Urls |-> 0]
  /\ made = 0
  /\ listed = 0
  /\ address = [e \in Endpoints |-> "none"]
  /\ timers = {}
  /\ probes = [p \in Slots |-> Free]
  /\ history = [e \in Endpoints |-> <<>>]
  /\ phase = "starting"

\* The loop over DEFAULT_ENDPOINTS, of which "urls" are valid: each becomes an
\* endpoint with a probe and a timer, and replaces one of the same URL in the map.
StartUp(n, urls) ==
  /\ phase = "starting"
  /\ phase' = "running"
  /\ made' = n
  /\ listed' = n
  /\ address' = [e \in Endpoints |-> IF e <= n THEN urls[e] ELSE "none"]
  /\ monitored' \in [Urls -> 0..n]
  /\ \A u \in Urls : /\ monitored'[u] # 0 => urls[monitored'[u]] = u
                     /\ \A e \in (monitored'[u] + 1)..n : urls[e] # u
  /\ timers' = 1..n
  /\ probes' = [p \in Slots |-> IF p <= n THEN [url |-> urls[p], of |-> p] ELSE Free]
  /\ UNCHANGED history

Probe(u, e) ==
  \E p \in Slots :
    /\ probes[p] = Free /\ \A q \in 1..(p - 1) : probes[q] # Free
    /\ probes' = [probes EXCEPT ![p] = [url |-> u, of |-> e]]

\* add: the endpoint, its first probe and its timer.
Add(u) ==
  /\ phase # "starting"
  /\ monitored[u] = 0
  /\ made < MaxEndpoints
  /\ made' = made + 1
  /\ address' = [address EXCEPT ![made + 1] = u]
  /\ monitored' = [monitored EXCEPT ![u] = made + 1]
  /\ timers' = timers \cup {made + 1}
  /\ Probe(u, made + 1)
  /\ UNCHANGED <<listed, history, phase>>

\* The interval timer: it does not wait for the probe before.
Interval(e) ==
  /\ e \in timers
  /\ Probe(address[e], e)
  /\ UNCHANGED <<monitored, made, listed, address, timers, history, phase>>

Check(u) ==
  /\ phase # "starting"
  /\ Probe(u, 0)
  /\ UNCHANGED <<monitored, made, listed, address, timers, history, phase>>

\* addHistory.
Added(h, x) ==
  LET all == Append(h, x)
  IN  IF Len(all) > MaxHistory THEN SubSeq(all, Len(all) - MaxHistory + 1, Len(all)) ELSE all

\* Faulty variant of Probed: the endpoint is looked up by its URL.
ProbedByUrl(p) ==
  /\ probes[p] # Free
  /\ LET e == monitored[probes[p].url]
     IN  history' = IF e = 0 THEN history ELSE [history EXCEPT ![e] = Added(@, probes[p].of)]
  /\ probes' = [probes EXCEPT ![p] = Free]
  /\ UNCHANGED <<monitored, made, listed, address, timers, phase>>

\* The continuation of probeUrl: a check adds to whatever is monitored by then.
Probed(p) ==
  /\ probes[p] # Free
  /\ LET e == IF probes[p].of = 0 THEN monitored[probes[p].url] ELSE probes[p].of
     IN  history' = IF e = 0 THEN history ELSE [history EXCEPT ![e] = Added(@, probes[p].of)]
  /\ probes' = [probes EXCEPT ![p] = Free]
  /\ UNCHANGED <<monitored, made, listed, address, timers, phase>>

\* remove and stopMonitoring.
RemoveUrl(u) ==
  /\ monitored[u] # 0
  /\ timers' = timers \ {monitored[u]}
  /\ monitored' = [monitored EXCEPT ![u] = 0]
  /\ UNCHANGED <<made, listed, address, probes, history, phase>>

Monitored == {monitored[u] : u \in Urls} \ {0}

\* SIGINT, SIGTERM: what is in the map stops; the agent takes calls until it stops.
QuitMonitor ==
  /\ phase = "running"
  /\ phase' = "quitting"
  /\ timers' = timers \ Monitored
  /\ UNCHANGED <<monitored, made, listed, address, probes, history>>

MonitorNext ==
  \/ \E n \in Endpoints \cup {0} : n <= MaxProbes /\ \E urls \in [1..n -> Urls] : StartUp(n, urls)
  \/ \E u \in Urls : Add(u) \/ Check(u) \/ RemoveUrl(u)
  \/ \E e \in Endpoints : Interval(e)
  \/ \E p \in Slots : Probed(p)
  \/ QuitMonitor
-----------------------------------------------------------------------------
\* While the agent runs, what it monitors has a timer; a timer of anything else
\* is of an endpoint that the list of the start replaced by a later one of the
\* same URL; and no probe made for one endpoint is counted in another's history,
\* however long it takes and whatever was removed and added meanwhile
\* (startMonitoring, add, remove, and the loop at the start).
OwnResults ==
  /\ phase = "running" => Monitored \subseteq timers
  /\ \A e \in timers : e \in Monitored \/ \E f \in (e + 1)..listed : address[f] = address[e]
  /\ \A e \in Endpoints : \A i \in DOMAIN history[e] : history[e][i] \in {0, e}
=============================================================================
