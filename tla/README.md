# Agenium: verification models

TLA+ models of the agent runtime in this repository, TLC runs that check them on
small instances, and TLAPS proofs of what matters most for every value of the
constants. Paths below are relative to the repository.

## 1. The system

An Agenium agent is one Node.js process. Its public face is `Agent`
(`src/agent.ts`), which owns the parts below. Everything runs on one event loop:
a step of a model is what runs between two `await`s, and the interesting
concurrency is the interleaving of those steps, of timers and of callbacks, plus
what other processes and the network do.

| component | source | state | operations | hard behaviour | what makes it correct |
|---|---|---|---|---|---|
| Outbox | `src/persistence/outbox.ts`, `database.ts` (outbox_messages) | rows with status, attempts, nextAttemptAt; `processing` set; timer | enqueue, processOutbox, processMessage, ack, prune, start, stop | overlapping invocations each with its own snapshot; retries; lost ACKs; process dies between send and update | no concurrent send of one message, SENT only if delivered, given up only for cause, everything settles |
| Dispatcher | `src/protocol/dispatcher.ts` | pending map with timers, queue per session, processing set, handlers | request, event, handleIncoming, clearSession, shutdown | timeouts against late answers, retries re-registering an id, a queue dropped under its processor | each promise settled once, nobody forgotten, limits hold |
| Session manager | `src/state/session-manager.ts` | map of sessions, each a small state machine | create, transition, touch, delete, cleanup, checkTimeouts, export/import, eviction | eviction while a connect awaits; insertion order; import past the limit | map keyed by id and bounded, ACTIVE only after a handshake |
| Session persistence and resume | `src/persistence/database.ts` (sessions), `resume.ts` | rows of sessions; resume queue with attempt counts and times | loadAndQueueSessions, processRetries, attemptResume, queueResume, cancelResume | a tick of the retry timer while attempts are in flight | attempts bounded, concurrency bounded, row agrees with the session |
| Deduplication | `database.ts` (dedupe_cache), `agent.ts` `/message` | rows of processed ids | isDuplicate, markProcessed, pruneDedupe | marked before it is handled; crash between | each message handled at most once, and not lost |
| Agent | `src/agent.ts` | started flag, session connections, wiring of the rest | start, stop, connect, resumeSession, request, event, handleRequest, DNS registration | two connects to one peer, an incoming handshake during a connect, stop with sends in flight | a session returned to the caller is usable |
| Handshake | `src/transport/handshake.ts`, `agent.ts` (connect, handleRequest) | pending handshakes by initiator and nonce, the responder's sessions | createInit, processInit, processResponse, processComplete, cleanup | requests lost, late or repeated; pending entries expire or are replaced; restart | opened at most once, success only if opened, same capabilities |
| HTTP/2 client and connection pool | `src/transport/client.ts` | HTTP/2 connections per endpoint, active streams | getConnection, createConnection, cleanup, request, stop | await inside getConnection; connections that die with streams on them | every request is answered or rejected |
| HTTP/2 server | `src/transport/server.ts` | listening server, sessions, streams with a timer for their body | start, stop, handleStream | the timer against the body, a handler that outlives its stream, a handler that hangs, stop during a TLS handshake | answered or gone in the end, unless its handler hangs |
| DNS resolver | `src/dns/resolver.ts` | cache with expiry, pending requests | resolve, invalidate, clearCache, pruneCache | shared lookups; invalidation and expiry while one is in flight | answers never go back in time, every waiter is answered |
| Registration | `agent.ts` (register, syncTools, unregister); the directory is external | API key, requests to the directory, the record | register, syncTools, unregister | overlapping calls, requests that land after they were given up | |
| Bug reporter | `src/bug-report/reporter.ts` | queue of reports, batches under way, timer | report, processBatch, start, stop | batches overlap; the queue overflows while failed reports are to come back | a report is in one place, sent means stored, everything settles |
| Shutdown manager | `src/shutdown.ts` | hooks by priority, flag | register, shutdown | hook racing its timeout, second signal | hooks in the order of their priorities, the process ends |
| Remote tool calls | `agent.ts` (callTool, callToolOnAgent), `src/tools/registry.ts`, `web-demo/server.ts`, `packages/mcp-bridge/src/discovery.ts` | registered tools, the demo's client sessions, the agents' marks | tool, removeTool, callTool, the demo's routes, MCPAgentClient | a request re-sent at each timeout, the demo's own retry, sessions that vanish | a tool starts at most once per request, an output is of this call |
| Keys and certificates | `src/crypto/keys.ts`, `src/crypto/certs.ts` | six files in the key directory | initializeKeys, initializeCA | the process dies between two files or in one | an agent always has one, complete identity |
| MCP bridge | `packages/mcp-bridge/src/` | one transport, agent, state | start, stop, withReconnect, tool calls | reconnects beside each other, stop during start | no call carried out more than twice, every call returns |
| Bug report server | `bug-report-server/src/` | rate limiter, SQLite database | ingest, start, stop | window boundary, cleanup, a statement that throws or a crash between the three writes | limit per window, tables agree but for that |
| Blueprints | `blueprints/` | monitored endpoints and probes; a log file loaded in memory; a buffer of webhooks | add, remove, check; load, reload; ingest, replay | probes that outlive their endpoint; the file is written or replaced during a load; webhooks side by side | results of this endpoint, nothing in the file is missed, a webhook can be replayed |

How they interact: `Agent.request` and `Agent.event` hand frames to the
dispatcher, whose `sendFn` is `Agent.sendFrame`: with persistence it puts the
frame in the outbox, which calls `Agent.sendFrameDirect` later; without, it
sends at once. `sendFrameDirect` looks up the connection of the session and posts
the frame to the peer's `/message` endpoint through the connection pool; the
answer of a REQUEST is fed back to `dispatcher.handleIncoming`. The peer's
`handleRequest` deduplicates, dispatches, and for an EVENT sends an ACK event
back, whose handler calls `outbox.ack`. `connect` resolves the name, runs the
three handshake messages and moves the session through its states; `start`
loads the persisted sessions into the resume manager, which calls
`Agent.resumeSession`. `callToolOnAgent` is `connect` and then `callTool`, a
request for the method `tool.invoke`, which the peer's tool registry answers. The
web demo and the MCP bridge's client call it; the bridge itself offers the tools
of an MCP server as an agent. `register`, `syncTools` and `unregister` keep the
agent's record in the directory, which `DNSResolver` asks when another agent
connects by name. The bug reporter posts to the bug report server. Shutdown,
credentials, blueprints and the rate limiter share no state with the rest.

## 2. How the models are written

One module per component, with its state as variables and one action per
operation, timer callback or continuation. **A step is what the event loop runs
between two `await`s**: an `async` method is split exactly where it awaits
something that is not already settled, and only there. Everything a handler does
in that stretch, including what it calls, is in the one action. Data is cut to
what a property tells apart: messages, sessions and peers are model values, time
is the order of events or a "has its time come" flag, an error text is the set of
patterns `isRetryableError` finds in it.

Operators whose comment begins with "Faulty variant of" are not part of a
specification. Each is the operation with a plausible bug, kept so that the
property it should break can be shown to notice: a dropped guard, a claim that is
not released, a step in the wrong order.

| module | models | composed of |
|---|---|---|
| `Outbox` | `OutboxManager` over `outbox_messages` | |
| `Calls` | abstract: a promise is settled at most once | |
| `Dispatcher` | the caller side of `MessageDispatcher` | implements `Calls` |
| `Resume` | `ResumeManager` over `sessions`, with the agent's routes | |
| `SessionTable` | the session map, its transitions and eviction | |
| `SessionManager` | `SessionManager` driven by arbitrary callers | `SessionTable` |
| `AgentSessions` | overlapping `connect`, accept, `resumeSession`, restarts | `SessionTable` |
| `Exchanges` | abstract: what two agents owe each other for a message | |
| `Delivery` | one session end to end: dispatcher, outbox, network, peer | implements `Exchanges` |
| `Pairings` | abstract: what a handshake promises | |
| `Handshake` | initiators, responder and network of the handshake | implements `Pairings` |
| `Resolver` | `DNSResolver` for one name, and the (external) directory it asks | |
| `Registration` | `register`, `syncTools`, `unregister` of the agent | |
| `Client` | `TransportClient` and `ConnectionPool` | |
| `Discovery` | from a name to an answer | `Resolver`, `Registration`, `Client` |
| `BugReporter` | `BugReporter`'s queue and batches | |
| `BugServer` | `BugReportServer`'s life and `ingest` | |
| `BugReports` | reporter, network and server | `BugReporter`, `BugServer` |
| `McpTransport` | `MCPTransportManager` | |
| `Bridge` | `MCPBridge`: start, stop, requests | `McpTransport` |
| `RateLimiter` | `RateLimiter` of the bug report server | |
| `Shutdown` | `ShutdownManager` | |
| `HealthMonitor`, `LogAnalyzer`, `WebhookRelay` | the three blueprint agents | |
| `TransportServer` | `TransportServer` | |
| `RemoteCalls` | tools called on other agents, the web demo's routes, `MCPAgentClient`, the tool registry | |
| `Credentials` | the key and certificate stores on disk | |
| `OutboxProofs`, `DispatcherProofs`, `ResumeProofs`, `DeliveryProofs`, `HandshakeProofs` | theorems | the module each is named after |
| `SessionProofs` | theorems | `AgentSessions`, `SessionManager` |
| `PartsProofs` | theorems | the components of `MCParts` but `TransportServer` |
| `ServicesProofs` | theorems | `BugReports`; `McpTransport` within `Bridge`; `Resolver` within `Discovery` |
| `MCParts` | instance for TLC of eight components that share nothing | `RateLimiter`, `Shutdown`, the blueprints, `TransportServer`, `RemoteCalls`, `Credentials` |
| other `MC...` | instances for TLC | the module each is named after |

### Outbox

State: the columns of a row (`status`, `attempts`, `due` for
`nextAttemptAt <= now`, `lastError`, `createdAt`), the `processing` set, and for
each live `processOutbox` invocation (a *loop*) the message it is sending, the
rest of its snapshot and the attempts that snapshot showed. `Wake` is a new
invocation up to its first send; `Reach` the arrival at the peer, which answers
an EVENT it has not seen with an ACK; `SendSucceeds` and `SendFails` the
continuation of `processMessage`, its `finally` and the `for` loop up to the next
send (`Continue`). `UpdateRow` is `updateMessageStatus`: unconditional, one
attempt more each time, so a stale decision can write over a newer status, which
is what makes the component hard. `Stop`, `Crash`, `Boot` and `Start` are the
lifecycle; a stop leaves invocations running, a crash keeps only the rows.

### Dispatcher

State: the `pending` map, the attempts it holds, the queues, and for each session
the processor that runs and the call that awaits it. `processQueue` holds the
*array* over its await, while `clearSession` and `shutdown` take it out of the
map: `orphan` is such an array, and `Local` what the processor works on. An
event's promise waits for the processor it started and only for that one. The
promise `outcome` of every call maps to `Calls` unchanged.

### Resume

State: the rows, the routes (`sessionConnections`), `pendingResumes` with its
insertion order, failures and waits, and the attempts in flight, those on the
entry now in the map (`flights`) apart from those on an entry that was replaced
(`stale`): both call `attemptResume`'s continuation, on different objects. `Tick`
is the five-second timer; `Process` takes the first `MaxConcurrent` due entries.
`wait` counts ticks, and a failed attempt leaves an entry out for a number of
ticks from `Waits`, a set per failure count, as delay and tick are not aligned.

### SessionTable, SessionManager, AgentSessions

The map has a key for every session and the object an `id`; only `resumeSession`
makes them differ, by assigning the saved id after `create`. `Put` is `create`
with eviction plus what the caller does to the new session in the same step.
`lastActivity` is an order (`older`). `SessionManager` lets callers do anything;
`AgentSessions` has the calls the agent makes: `Begin`, `InitReply`, `Complete`
and `Fail` are the stretches of `connect` between its two requests, `Accept` the
end of a peer's handshake, `Resume` the end of `resumeSession`. A session's name
is the pair of the peer and how it was named: by agent name, or by address until
a handshake tells the name.

### Delivery

The composition, for one session and every message on it: `request`/`event` with
the dispatcher's queue and retry, the outbox row, the posts, the peer's
`dedupe_cache` and handler, and the reply that settles the call and the row. Each
part is the corresponding component with what does not matter between them left
out, namely
 - the dispatcher's pending and queue limits (`Dispatcher` has them);
 - overlapping `processOutbox` invocations: at most one sends a given message,
   which is `OutboxProofs!ExclusiveClaims`, so a message has one awaited post;
 - retry delays (any order of retries is allowed), and `prune`/`pruneDedupe`,
   which the agent never calls;
 - the ACK of an event: the acceptor of a session keeps no route for it, so
   `sendFrame` of the ACK fails; see section 7.

With the outbox behind it the dispatcher's `sendFn` is synchronous up to its
result, so `Process` drains the queue in one step. A process that dies keeps its
rows or its dedupe cache; posts under way may still arrive after their sender
died or timed out. At the peer, `isDuplicate`, `markProcessed` and the start of
`handleIncoming` are one synchronous stretch, so `Arrive` is one step of a process
that lives on; but the mark is committed before the handler starts, and a process
may die between the two (`DieMarked`): the message is then marked, "dropped", and
never begun.

### Handshake

A handshake is named by the nonce of its init message, and several of them may be
of one initiator. `net` holds what is under way: a request that is delivered may
stay to be delivered again, anything may be lost, and an initiator may give up
while its request is still on the way (`Fail`). The responder keeps the nonce it
answered with (`pending`), which a second delivery of the init replaces. A
signature is modelled by what it is over: a completion verifies against the nonce
now pending and no other (`Verified`). Signatures are checked, that is,
`AGENIUM_SKIP_SIGNATURE` is not set, and nobody forges them. `Cleanup` removes
any entries, as the age it goes by is of the initiator's clock. `Restart` is another
process with other capabilities and neither entries nor sessions.

### Resolver, Registration, Client, Discovery

The directory is a service that is not in the repository: the agent posts to and
deletes `/agent/endpoint` of it, and the resolver asks `/agent/lookup/:name`. The
mock of `src/dns/server.ts` has neither route. What it does
(`Absent`, `Land`, `Answer`) is therefore external, read from the calls. Its record
has a version, which counts the writes, and an endpoint.
`Registration` has the three calls; one that is given up may still land. A
successful `unregister` forgets whatever key the agent has by then. `Resolver`
is the cache, its expiry, and the lookup that callers of one name share; `newest`
remembers the version that was answered last. `Client` names a connection after
the request that made it, and has the pool as the code has it: the new connection
is pushed to an array that is no longer in the map (section 7). Connecting and
requests have timers that reject the promise and leave connection and stream as
they are. `Discovery` lets every caller that found an endpoint send a request
there.

### BugReporter, BugServer, BugReports

The queue, the batches (each with what it has still to upload and what it will put
back), and the two ways a batch starts: the timer and the `setImmediate` of a
crash report. `fate` is what becomes of a report. `BugServer` writes a report in
three statements that are committed separately, and may throw or die between them
(`IngestFails`, `DieWriting`); after a throw the earlier statements stay and an error
is answered, so the report is posted again. A post may be given up and ingested later. All reports are of one agent and one error,
as others have rows of their own.

### McpTransport, Bridge

Each call goes through `withReconnect`: a first try, an error that says the
connection broke, the delay, a new connection, one more try. Calls share
`connected` and `reconnectAttempts`, and do all of this beside each other.
Whether a request is carried out, answered or cut off is free, so which client
object it is on makes no difference and is left out. `Bridge` is `start` with its
stages, `stop` at any time, and remote agents' requests. `start` is called again
only after a call of it has returned, as its callers do.

### The eight components of MCParts

 - `RateLimiter`: one key, a clock, the cleanup timer. `admitted` remembers when
   requests were allowed.
 - `Shutdown`: hooks in order of priority, each racing its timer, signals, exit.
 - `HealthMonitor`: the URLs listed for the start, one of them twice perhaps
   (`StartUp`), then endpoints that are removed and added again while probes of them
   are under way; a result carries the endpoint it was probed for.
 - `LogAnalyzer`: the log file grows or is replaced between the `stat` and the read
   of a load; a reload compares sizes.
 - `WebhookRelay`: bodies that are read side by side, ids from a counter, a bounded
   buffer.
 - `TransportServer`: connections through TLS handshake and session, streams whose
   body is read under a timer and which are then handled without one, resets, `stop`.
 - `RemoteCalls`: a call is an invoke or a connect of the web demo, or a plain call;
   a request is the call, its try and the session it is in, and may arrive any
   number of times, because the dispatcher re-sends it at each timeout. The demo
   calls once more if an error text has "session" or "not found" in it. `connect`
   is one step, `AgentSessions` having the stretches of it; the called agent is one
   with persistence, as the demo's agents are.
 - `Credentials`: six files, each missing, empty, or of one generated identity;
   writing one truncates it first; the process may die anywhere and start again.

`MCParts` runs one of them in each behaviour (`part`), so that its state space is
the sum and not the product of theirs.

## 3. The runs

`tlc -config <run>.cfg <module>`; the configuration has the name of the run (the module of MCBugReports is `BugReports` itself). Deadlock is
not checked in any of them: when every message is settled, every call returned
and nobody calls again, the system has nothing left to do.

| run | instance | shows |
|---|---|---|
| MCOutbox | a request and an event, 2 overlapping invocations, 2 attempts, 1 stop or crash | `ClaimsAreExclusive`, `SentWasDelivered`, `GivenUpForCause`, `EventuallySettled` |
| MCDispatcher | 3 requests and an event on 2 sessions, limits of 2, 2 retries | `NoCallerForgotten`, `PendingBounded`, `ProcessorHoldsWork`, each promise settled once (`CallsSpec`), `EventsReturn` |
| MCResume | 2 sessions, one of which never answers, 2 attempts in flight on each, 2 outages | `ActiveRowsHaveRoute`, `NoSessionForgotten`, `ReachableResumed` |
| MCSessionManager | 4 sessions created, 2 kept, any operations | `SizeBounded`, `ActiveWasHandshaken`, `EvictionSparesUseful` |
| MCAgentSessions | 2 peers, 2 concurrent connects, 3 sessions created, 2 kept, 1 crash | `NoSessionStuck`, `ConnectedToTarget`, `OwnSessionsRouted` |
| MCDelivery | 2 requests and an event, 1 in flight, 2 attempts, 1 resend, 1 crash of either side | handled and answered at most once (`ExchangesSpec`), `RowsSettled`; a row is SENT only of a message the peer took: its handler began, or the peer died with only the mark made (`SentWasTaken`) |
| MCDeliveryLost | 1 request, 1 event, 1 crash | **violated** (`AtLeastOnce`): a message marked whose handler never began or never ended is lost although SENT |
| MCHandshake | 2 handshakes, 2 repeated requests, 1 restart | opened at most once and success only if opened (`PairingsSpec`), `CapabilitiesAgreed` |
| MCDiscovery | 2 callers, 2 directory requests, 1 connection per host | `NeverOlder`, `CallsReturn` |
| MCBugReports | 3 reports, one a crash, 2 overlapping batches, a queue of 2, 1 late post, 1 ingest that throws or dies half-way | `OnePlace`, `SentWasStored`, `ReportsSettle` |
| MCBridge | 2 starts, a request, 2 reconnects in a row, stops at any time | `AtMostTwice`, `CallsEnd` |
| MCParts | windows of 2 requests; 3 hooks; 2 URLs and 3 endpoints; a file replaced twice; 4 webhooks for a buffer of 2; a stream and 2 connections; an invoke, a connect and a plain call; 5 identities and 6 starts | `WindowBound`, `ShutdownEnds`, `OwnResults`, `UnchangedIsLoaded`, `Replayable`, `StreamsSettle` (a stream is answered or gone in the end, whenever its body comes, is reset or fails, or else its handler never returns), `StartsBounded`, `OneIdentity` |

Each property is stated in words above its definition.

### Why the bounds suffice

Two of everything that can collide: two invocations that can hold the same row in
their snapshots, two connects to one session, two attempts on one entry, two
processors. The code never compares more than two of them at a time. Limits are
as small as they can be with room for one more (2 kept of 3 or 4 sessions, 2
pending of 3 requests, a queue of 2 for 3 reports, a buffer of 2 for 4 webhooks),
so both the full and the not-full case happen. Two attempts give a first failure
that is retried and a last one that is given up.

The bounds that cut behaviour, by name:
 - `Outbox`: `Loops` (live invocations), `MaxOutages`;
 - `Dispatcher`: `MaxTries`. With `MaxRetries` of 2 or more a request that times
   out is retried without end (section 7), so TLC needs the cut; the branch that
   rejects the caller is the one with `MaxRetries = 1`, which the theorems cover
   along with all other values;
 - `Resume`: `MaxFlights`. An attempt lasts at most until the transport's
   timeouts, so ticks can start only so many meanwhile; `MaxOutages`. `MaxFails`
   is no cut: from there on the delay is `maxBackoffMs`;
 - `SessionTable`: `MaxKeys` (sessions created); `AgentSessions`: `MaxCrashes`;
 - `Delivery`: `MaxResends`, `MaxCrashes`. `Posts` has as many posts as attempts
   and crashes together, which never cuts: part of `TypeOK`, and proved;
 - `Handshake`: `MaxRepeats` (requests delivered again: one of each kind, or two of
   one), `MaxRestarts`;
 - `Registration`: `Operations`, two, so that a late one can land after a newer;
   `Resolver` and `Client`: `Calls`, two: one that starts a lookup or a connection
   and one that joins it;
 - `BugReporter`: `MaxReports`, `MaxBatches` (a batch ends by its uploads' timers, so
   only so many overlap); `BugServer`: `MaxBroken`; `BugReports`: `MaxLate`;
 - `Bridge`: `Starts`, one after the other; two, as the second finds what the first
   and a stop left; `Requests`, one, as the starts' own calls run beside it;
 - `RateLimiter`: `MaxTime`, three windows, as `WindowBound` spans two;
 - `HealthMonitor`: `MaxEndpoints` (one more than URLs, so that one is added again),
   `MaxProbes`; its `MaxHistory` is a limit of the code, 1 in the run: a list of 1 is
   overfull with every second result; `LogAnalyzer`: `MaxSize`, `MaxRotations`;
 - `RemoteCalls`: `MaxSessions`; `Credentials`: `MaxMade`, `MaxStarts`: enough for a
   death in each store twice and a start that finds what they left.

MCAgentSessions uses symmetry over the two calls and the two peers: it checks
invariants only, and nothing distinguishes them. The runs with liveness use none.
`ReachableResumed` is conditional on there being no more failing sessions than a
tick attempts; without that it does not hold (section 7).

### Fairness

Assumed, weakly, is only what the runtime does by itself:
 - interval timers and due delays happen (`Wake`, `Tick`, `BecomeDue`, `Timeout`);
 - every send, post or attempt ends in one way or the other, as the HTTP/2 client
   has a timeout on connecting and on each request (`SendSucceeds \/ SendFails`,
   `SendDone`, `Succeed \/ Fail`, `Fail \/ Reply`). The same holds of a lookup, a
   connection and a request of `Discovery`, of an upload of `BugReports`, of a call,
   a connect and the delay before a reconnect of `Bridge`, and of the body of a
   stream of `TransportServer` (`BodyTimeout`). Where an answer and a timer may end the same thing,
   fairness is of the disjunction, or of the timer alone;
 - a continuation whose promise is settled runs (`Reach` of `Discovery`, `Exit` of
   `Shutdown` after the last hook);
 - the bug reporter's interval timer ticks while it runs (`Timer`), and a hook's
   timeout fires (`HookTimeout`);
 - whoever stopped the process starts it again (`Start`, `Boot`). Outages are
   bounded, so this is "the process is up in the end".

Nothing is assumed to make a message arrive, an ACK come back, a peer answer, or
a caller call: those may happen or not, and the outcome of an attempt is free,
except that `Reachable` sessions of `Resume` do answer, which is what the word
means in its property. Nothing makes a hook of `Shutdown` or the handler of a
stream of `TransportServer` end (it awaits the user's tool, which has no timer), a server of
`BugReports` or `Bridge` answer, or the reporter run: `ReportsSettle` is about a
reporter that does. `AgentSessions`, `SessionManager`, `Handshake` and the other
components of `MCParts` state no fairness.

## 4. What is proved

Every safety property that a run checks is a theorem. TLAPS proves them for every
value of the constants that satisfies the module's one assumption
(`OutboxAssumption`, `DispatcherAssumption`, `ResumeAssumption`, `TableAssumption`
with `AgentAssumption` for the agent, `DeliveryAssumption`, `HandshakeAssumption`,
`LimiterAssumption`, `MonitorAssumption`, `RelayAssumption`,
`CredentialsAssumption`, `ReporterAssumption`, `BridgeAssumption`,
`ResolverAssumption`; `LogAnalyzer` and `RemoteCalls` need none):
sets of messages, sessions, peers and calls may be infinite unless their size is
limited by the code (the dispatcher's requests are finite, for the cardinality of
`pending`), limits are any positive numbers, and all the bounds of section 3 are
arbitrary.

`TypeOK` of the modules that state one is proved for all values and so is no run's
property; for the others the types a proof needs are part of its invariant.

Each proof has the form Init => IInv, IInv /\ [Next]_vars => IInv', IInv => the
property, with one lemma per action (a smaller number where actions share one).
Fairness is never used: where a module states none of its own, the theorem is about
its initial predicate and its steps.

 - **OutboxProofs**: `TypeOK`, `ClaimsAreExclusive`, `SentWasDelivered`,
   `GivenUpForCause`. `ClaimsAreExclusive` needs that a loop holds a message
   exactly when it is not idle (`Claims`). `SentWasDelivered` needs what is known
   of the peer: a send that was answered reached it, and ACKs come from arrivals
   (`Delivery`). `GivenUpForCause` looks false at first, as the decision uses the
   snapshot's attempts and the row may have changed since; what saves it is that
   the snapshot never shows *more* attempts than the row (`Counting`).
 - **DispatcherProofs**: `TypeOK`, `NoCallerForgotten`, `PendingBounded`,
   `ProcessorHoldsWork`, and Spec => CallsSpec. The refinement needs `RunnerWaits`:
   the event that awaits a processor has not been settled before. `PendingBounded`
   rests on a retry replacing the entry it removed, hence adding none.
 - **ResumeProofs**: `TypeOK`, `ActiveRowsHaveRoute`, `NoSessionForgotten`. The
   strengthening `FlightsHaveEntry` ties an attempt to its entry and its row, so a
   success that removes the entry cannot touch another session's.
 - **SessionProofs**, the manager: `ManagerTypeOK`, `SizeBounded`,
   `ActiveWasHandshaken` and the action property `EvictionSparesUseful`. They rest
   on every session's id being its key (`IdsAreKeys`), by which an eviction at the
   limit always removes an entry; that holds of the manager by itself and not of
   the agent, whose `resumeSession` changes the id.
 - **SessionProofs**, the agent: `TypeOK`, `NoSessionStuck`, `ConnectedToTarget`,
   `OwnSessionsRouted`. A stuck session would be one whose last connect ended
   without moving it; the proof needs that a waiting call holds a generated key
   (`CallsHold`), that keys not generated yet are absent (`Fresh`), and, for every
   action, which sessions can *become* CONNECTING or HANDSHAKING (`PutFacts`,
   `TransitionFacts`, `StuckStep`). The other two need `PeersInv`: that ids and keys
   differ only for resumed sessions, which stay IDLE (`Ids`), that the name, the
   saved row and the route of a session are of one peer, and so are a session's key
   and its id (`NamesAgree`), and that a call under way holds a session of its
   target for as long as that exists (`CallsAligned`). The last is what makes
   sharing a session sound: a name can only change to another of the same peer.
 - **DeliveryProofs**: `TypeOK` (with it, that posts never run past attempts and
   crashes), `SentWasTaken`, and Spec => ExchangesSpec: every step of the
   composition is a step of `Exchanges` or changes nothing it sees. The
   invariant: what the sender knows of its rows (`Sender`), that every frame, row,
   post and handler comes from a call (`Called`), and that the dedupe cache holds
   exactly the messages whose handler began or that a death left with the mark
   alone (`Peer`).
 - **HandshakeProofs**: `TypeOK`, `CapabilitiesAgreed`, and Spec => PairingsSpec.
   A completion that verifies carries the nonce this process generated last for
   that init, hence its capabilities (`Carried`); and once a handshake was opened,
   no completion under way is acceptable again (`OpenedOnce`), neither a repeated
   one nor one of an answer to a repeated init, as nonces are never reused.
 - **PartsProofs**: one invariant for each of seven components.
   - `WindowBound`: windows are disjoint, hold no more than the limit each, and the
     entry counts the last of them (`LimiterInv`); a span of a window's length meets
     two windows at most.
   - `OwnResults`: inductive once an endpoint is known to be monitored for one URL
     at a time (`OneUrl`). The list of the start is the one source of a timer that is
     of nothing monitored (`StartUpStep`); all other steps keep the two together.
   - `UnchangedIsLoaded`: what was found by a stat, what was read and what is there
     are states of the file in that order (`LogInv`). It rests on the stat coming
     before the read.
   - `Replayable`: the buffer holds the ids generated last, in order (`RelayInv`).
   - `StartsBounded`: a try is posted in one session only (`PostedOnce`), so that the
     marks of the called agent stop a second start of it, and every start is of one
     try (`StartsCounted`).
   - `OneIdentity`: the file written last of each store is there only when the others
     are, all of one identity (`StoresWhole`), what is being written is new
     (`WritesNew`), and a process that has loaded or written has what is on disk.
   - `InTurn`: a hook of the shutdown has been called only if all of a lower priority
     number have ended or lost their race (`CalledInTurn`): the list stays sorted,
     `at` is over with all before it and has called none after it (`ShutdownInv`).
     The 5 seconds of a hook's race, not its end, are what the next one waits for.
 - **ServicesProofs**: lemmas about lists without repetition (cut, joined, beheaded,
   filtered), then
   - `OnePlace`: the queue and the batches are disjoint lists whose elements are what
     is kept; every step of a batch moves reports between its own lists and the
     queue, or takes them out (`BatchMoves`);
   - `SentWasStored`: an answer that is under way is of a stored report
     (`AnswersTrue`), and each ingest that throws or dies leaves one row short in each
     table at most (`TablesOK`);
   - `AtMostTwice`: what was carried out is bounded by where the call is (`Counted`),
     as only the first try is followed by another;
   - `NeverOlder`: one lookup is in flight at a time, none while the cache has an
     entry that is not expired, and its answer and that entry are no older than what
     was answered last (`OneLookup`, `CacheFresh`);
   - `Served`, the safety half of `CallsReturn`: whoever waits does so for the lookup
     in flight, as a new one begins when nobody waits (`PendingSent`) and the end of
     one is told to all who do.

## 5. What is only model-checked

 - Liveness (`EventuallySettled`, `EventsReturn`, `ReachableResumed`,
   `RowsSettled`, `CallsReturn`, `ReportsSettle`, `CallsEnd`, `ShutdownEnds`,
   `StreamsSettle`): ENABLED and fairness are out of the prover's reach.
 - `AtLeastOnce`, which does not hold (section 6).

## 6. A disagreement between the code and what it says of itself

*MCDeliveryLost*: a message is marked as processed before it is handled; the death
of the process between the two, or while the handler runs, loses it, and its row
becomes SENT when the retry is answered as a duplicate, against "at-least-once".

## 7. Found while modelling, and part of the models, but no runs

Messages and sessions:

 - `dispatcher.ts:412` says "will retry later" of a frame whose send failed; nothing
   does until another call of that session comes.
 - A stale snapshot can put a FAILED row back to PENDING: the in-flight limit and
   `maxAttempts` can be exceeded (`outbox.ts:17,19` against `:216,:225`).
 - The pattern `4` makes an error non-retryable if a 4 occurs anywhere in its
   text, as in a port or in "timed out after 4000ms" (`outbox.ts:48`, `:263`).
 - "REQUEST is implicitly ACKed by RESPONSE" (`outbox.ts:200`), but no code does
   that: an answered request keeps its place in the in-flight limit for ever.
 - A request that is re-registered starts again at one attempt, so `maxRetries`
   of 2 or more means retried for ever (`dispatcher.ts:37`, `:318`).
 - With persistence, the retry is enqueued under the id it already has; the insert
   throws on the primary key and the frame blocks the head of its session's queue
   (`dispatcher.ts:319`, `database.ts:279`). `Delivery` has this in `Accepted`.
 - A duplicate is answered without its response (`agent.ts:1166`), so a caller
   whose first answer was lost waits until its own timeout.
 - Ticks do not count attempts that are still in flight, so there can be more than
   `maxConcurrent` (`resume.ts:16`, `:149`). Sessions whose peers are down, ahead in
   the map, can keep every tick busy; with the default limits, delays and timeouts
   this takes a few dozen of them.
 - The transition at the end of `connect` is refused, and the refusal ignored, when
   another connect put the shared session in ERROR: success is returned with a
   session in ERROR (`agent.ts:836`).
 - After a restart the transitions of a resumed session go to an id the map does not
   have: it stays IDLE and cannot be found by its id (`agent.ts:948`).
 - `evictOldest` deletes by id; a resumed session has another key, so eviction can
   delete nothing and the map grow past its limit (`agent.ts:948`,
   `session-manager.ts:61`). `SessionManager` alone, where ids are keys, is bounded.
 - `checkTimeouts` reports IDLE and ERROR sessions it cannot move
   (`session-manager.ts:250`, `:259`), and the agent never calls it or `cleanup`.
 - The acceptor's ACTIVE session has no route (`agent.ts:1140`): it can answer but
   not send, so EVENT ACKs are never delivered, and EVENT rows stay SENT.
   `Outbox` models `ack` nevertheless, as the component offers it.
 - `sessionConnections` is never pruned. The database reopens lazily after
   `stop`, so `stop` and `start` of the same agent works.

Transport, directory, tools:

 - The pool is always empty: `getConnection` replaces the host's array in the map
   and pushes the new connection to the one it took out (`client.ts:110`, `:120`).
   Connections are not reused, not limited, and not closed by `stop`.
 - `syncTools` registers without a host, which makes the endpoint `localhost`;
   its comment says "without changing endpoint" (`agent.ts:631`).
 - A tool that hangs leaves its request's stream open and unanswered: the body's
   timer is cleared before the handler runs (`server.ts:194`, `:212`), none of the
   awaits from there to the tool has one (`agent.ts:1176`, `dispatcher.ts:231`,
   `registry.ts:99`), and the client's timeout rejects its promise without resetting
   the stream (`client.ts:268`). `StreamsSettle` says so: settled, or in its handler
   for ever.
 - A body that comes after its 408 is handled all the same, and the answer dropped.
   A TLS handshake in progress at `stop` is no session yet, and can keep
   `server.close` from calling back (`server.ts`). `start` on a taken port never ends.
 - The web demo's invoke ignores the agent named in the path when it is given a known
   session id. A request to an agent that never answers is re-sent for ever
   (`dispatcher.ts:318`), so such an invoke may never be answered. Without
   persistence the called agent has no marks, and each copy would run the tool again.
 - `initializeKeys` takes PEM files as they are: a `tls-public.pem` or `serial` torn
   by a crash is loaded at every later start (`keys.ts:142`). `OneIdentity` is about
   the files that are used for more than that. `loadKeys` and `loadCA` take any error
   of a read for "not there", so one that is transient makes another identity over a
   whole one; the models have deaths, and no reads that fail.
 - `resumeSession` does not look at the status of its completion (`agent.ts:935`): a
   session the peer refused is taken for resumed. `Handshake` is about `connect`.
 - The monitor's start-up loop does not look whether a URL is monitored already
   (`api-health-monitor/agent.ts:359`, unlike `add`, `:273`): of a URL listed twice in
   ENDPOINTS, the first endpoint is lost with its timer running, which neither
   `remove` nor the signal handler stops. `OwnResults` allows for just these timers.

Bug reports, shutdown, bridge:

 - The shutdown hook waits a second, as "the reporter's processBatch is already
   called" (`shutdown.ts:125`), but nothing has called it, and what is queued is
   lost. So is a crash report: the uncaught exception is thrown again before its
   batch starts (`Die`).
 - `ingest` is no transaction: a statement that throws leaves those before it, and the
   report, refused with 400, is sent again and counted again (`db.ts:90`,
   `server.ts:452`). `SentWasStored` counts such ingests in `broken`.
 - What failed is put back in front of a queue that may be full, which exceeds
   `maxQueueSize` until the next `enqueue`. `response.json()` of an upload has no
   timer of its own. A post that is retried after its answer was lost counts twice.
 - Two calls that reconnect at once open two clients and leave one open. A `stop`
   during `start` or a reconnect may leave the agent or the MCP client running;
   `disconnect` does nothing without a connection; an agent that is still starting
   ignores its stop. A port that is taken leaves `start` waiting for ever. Cached
   tool validators go by name and outlive a changed tool. The SDK's "Not connected"
   does not match the pattern `not connected`.
 - A shutdown hook that registers another while it runs could be run twice, as the
   list is sorted in place; nobody does this.

## 8. Not modelled, and the plan

Not modelled, because there is no behaviour to check beyond a unit test, or it is
input and output: metrics, CLI and configuration (with a circuit breaker that
nothing uses), project generator, demos other than the web demo's tool routes, the
mock DNS server (it has no route that the agent or the resolver asks for), the signing and certificate building of `crypto`, validators. Not modelled of modelled
components:

 - dispatcher: registration of handlers and their lookup for incoming frames;
 - session manager: export and import, which have no caller;
 - agent: `discover` and the getters;
 - bug report server: queries and status updates of the dashboard;
 - bridge: the conversion of MCP results, resource subscriptions;
 - blueprints: handlers that only read.

Theorems to add, the most important first:

1. `Outbox`: what a row may do in a step when no two invocations overlap, which is
   the abstraction `Delivery` makes of it (section 2).  With two it does not hold: a
   stale snapshot puts a FAILED row back (section 7).
2. The safety halves of the other liveness properties of section 5, as `Served` is of
   `CallsReturn`: that what waits always has a timer or a message that ends the wait.
