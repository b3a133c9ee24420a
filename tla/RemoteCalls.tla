---------------------------- MODULE RemoteCalls ----------------------------
(***************************************************************************)
(* Tools called on other agents: callTool and callToolOnAgent (agent.ts),   *)
(* the routes of the web demo, which keep sessions for their clients and    *)
(* call once more when an error is about a session (web-demo/server.ts),    *)
(* and the MCP bridge's client (mcp-bridge/src/discovery.ts).  At the other *)
(* end, an agent with its marks of processed requests and its tools         *)
(* (tools/registry.ts).  An agent's connect is one step here, one tool      *)
(* stands for the tools of an agent, and one agent for the demo's and the   *)
(* client's own.                                                            *)
(***************************************************************************)
EXTENDS Naturals

CONSTANTS
  Agents,
  Invokes,      \* POST /api/agents/:name/invoke
  Connects,     \* POST /api/agents/:name/connect
  PlainCalls,   \* callTool, readResource and getPrompt of MCPAgentClient
  MaxSessions   \* bound: sessions made with one agent

Callers == Invokes \cup Connects \cup PlainCalls

VARIABLES
  started,  \* whether the MCPAgentClient is
  session,  \* with each agent: the number of the last, and whether it is ACTIVE
  clients,  \* clientSessions: the agents' sessions the clients may use
  tools,    \* the agents where the tool is registered
  caller,   \* of each call: its step, the agent named, and which try it is
  posted,   \* requests (call, try, session) that were sent, some of them repeatedly
  seen,     \* those an agent has marked as processed
  running,  \* those whose tool runs
  ran       \* how often the tool was started for a call

callVars == <<started, session, clients, tools, caller, posted, seen, running, ran>>
remoteVars == <<tools, seen, running, ran>>

CallsInit ==
  /\ started = FALSE
  /\ session = [a \in Agents |-> [agent |-> a, nr |-> 0, active |-> FALSE]]
  /\ clients = {}
  /\ tools = {}
  /\ caller \in [Callers -> [step : {"idle"}, named : Agents, try : {1}]]
  /\ posted = {}
  /\ seen = {}
  /\ running = {}
  /\ ran = [c \in Callers |-> 0]

\* tool; register throws if there is one of that name.
AddTool(a) ==
  /\ a \notin tools
  /\ tools' = tools \cup {a}
  /\ UNCHANGED <<started, session, clients, caller, posted, seen, running, ran>>

RemoveTool(a) ==
  /\ a \in tools
  /\ tools' = tools \ {a}
  /\ UNCHANGED <<started, session, clients, caller, posted, seen, running, ran>>

\* A session is evicted, or moved to ERROR.
SessionGone(a) ==
  /\ session[a].active
  /\ session' = [session EXCEPT ![a].active = FALSE]
  /\ UNCHANGED <<started, clients, caller, posted, remoteVars>>

\* A call has failed: the invoke route tries once more if the text of the first
\* error has "session" or "not found" in it; all else is reported.
Fail(c, try, aboutSession) ==
  /\ caller' = [caller EXCEPT
       ![c].step = IF c \in Invokes /\ try = 1 /\ aboutSession THEN "reconnecting" ELSE "failed",
       ![c].try = try]
  /\ UNCHANGED posted

\* callTool or listRemoteTools in session s: an ACTIVE session and the
\* dispatcher's limits let the request pass.
Ask(c, s, try) ==
  \/ /\ session'[s.agent] = s
     /\ caller' = [caller EXCEPT ![c].step = "asking", ![c].try = try]
     /\ posted' = posted \cup {[call |-> c, try |-> try, in |-> s]}
  \/ session'[s.agent] = s /\ \E aboutSession \in BOOLEAN : Fail(c, try, aboutSession)
  \/ session'[s.agent] # s /\ Fail(c, try, TRUE)

\* The routes and the calls begin.  An invoke with a known client id asks in that
\* session, whichever agent it is with; everything else connects first.
InvokeInSession(c) ==
  /\ c \in Invokes
  /\ caller[c].step = "idle"
  /\ UNCHANGED <<started, session, clients, remoteVars>>
  /\ \E s \in clients : Ask(c, s, 1)

Begin(c) ==
  /\ caller[c].step = "idle"
  /\ caller' = [caller EXCEPT ![c].step = "connecting"]
  /\ UNCHANGED <<started, session, clients, posted, remoteVars>>

BeginInvoke(c) == c \in Invokes /\ Begin(c)

BeginConnect(c) == c \in Connects /\ Begin(c)

BeginPlain(c) == c \in PlainCalls /\ started /\ Begin(c)

\* start and stop of the MCPAgentClient: its agent's dispatcher rejects what is
\* pending when it stops.
StartClient ==
  /\ ~started
  /\ started' = TRUE
  /\ UNCHANGED <<session, clients, caller, posted, remoteVars>>

StopClient ==
  /\ started
  /\ started' = FALSE
  /\ caller' = [c \in Callers |->
       IF c \in PlainCalls /\ caller[c].step = "asking" THEN [caller[c] EXCEPT !.step = "failed"] ELSE caller[c]]
  /\ UNCHANGED <<session, clients, posted, remoteVars>>

\* connect to the agent named has found an ACTIVE session, or made one.
Joined(a) ==
  IF session[a].active THEN session[a] ELSE [agent |-> a, nr |-> session[a].nr + 1, active |-> TRUE]

Connect(c, try) ==
  LET s == Joined(caller[c].named) IN
  /\ s.nr <= MaxSessions
  /\ session' = [session EXCEPT ![s.agent] = s]
  /\ Ask(c, s, try)
  /\ UNCHANGED <<started, remoteVars>>

Connected(c) ==
  /\ caller[c].step = "connecting"
  /\ c \in PlainCalls
  /\ Connect(c, 1)
  /\ UNCHANGED clients

\* The connect route goes on with listRemoteTools.
ListRemoteTools(c) ==
  /\ caller[c].step = "connecting"
  /\ c \in Connects
  /\ Connect(c, 1)
  /\ UNCHANGED clients

\* An invoke keeps the session for a client, but not the one of its second try.
InvokeConnected(c) ==
  /\ caller[c].step = "connecting"
  /\ c \in Invokes
  /\ Connect(c, 1)
  /\ clients' = clients \cup {Joined(caller[c].named)}

Reconnected(c) ==
  /\ caller[c].step = "reconnecting"
  /\ Connect(c, 2)
  /\ UNCHANGED clients

ConnectFails(c) ==
  /\ \/ caller[c].step = "connecting" /\ \E aboutSession \in BOOLEAN : Fail(c, 1, aboutSession)
     \/ caller[c].step = "reconnecting" /\ Fail(c, 2, FALSE)
  /\ UNCHANGED <<started, session, clients, remoteVars>>

\* The request is sent again at each timeout; when the session's queue is full
\* of such copies, it fails, whatever became of those.
QueueFull(c) ==
  /\ caller[c].step = "asking"
  /\ Fail(c, caller[c].try, TRUE)
  /\ UNCHANGED <<started, session, clients, remoteVars>>

\* The answer to r reaches a caller that waits for it.  The connect route keeps
\* the session for a client, and forgets sessions that are half an hour old.
Receive(r, output, aboutSession) ==
  /\ caller[r.call].step = "asking" /\ caller[r.call].try = r.try
  /\ \/ ~output /\ Fail(r.call, r.try, aboutSession) /\ UNCHANGED clients
     \/ /\ output
        /\ caller' = [caller EXCEPT ![r.call].step = "answered"]
        /\ \E kept \in SUBSET clients :
             clients' = IF r.call \in Connects THEN kept \cup {r.in} ELSE clients
        /\ UNCHANGED posted
  /\ UNCHANGED <<started, session>>

Lost == UNCHANGED <<started, session, clients, caller, posted>>

\* Faulty variant of Arrive: a request that comes again is handled again.
ArriveAgain(r) ==
  /\ r.call \notin Connects
  /\ seen' = seen \cup {r}
  /\ running' = running \cup {r}
  /\ ran' = [ran EXCEPT ![r.call] = @ + 1]
  /\ UNCHANGED tools
  /\ Lost

\* tool.invoke of a tool that is there calls its handler; of another, and
\* tool.list, it is answered at once.
Serve(r) ==
  \/ /\ r.call \notin Connects /\ r.in.agent \in tools
     /\ running' = running \cup {r}
     /\ ran' = [ran EXCEPT ![r.call] = @ + 1]
     /\ Lost
  \/ /\ r.call \in Connects \/ r.in.agent \notin tools
     /\ UNCHANGED <<running, ran>>
     /\ Receive(r, r.call \in Connects, TRUE) \/ Lost

\* A request reaches the agent, which answers a copy of one it has seen without
\* a response.
Arrive(r) ==
  /\ r \notin seen
  /\ seen' = seen \cup {r}
  /\ Serve(r)
  /\ UNCHANGED tools

\* The handler returns or throws, and the answer arrives or is lost.
ToolEnds(r) ==
  /\ r \in running
  /\ running' = running \ {r}
  /\ \/ \E output, aboutSession \in BOOLEAN : Receive(r, output, aboutSession)
     \/ Lost
  /\ UNCHANGED <<tools, seen, ran>>

CallsNext ==
  \/ \E a \in Agents : AddTool(a) \/ RemoveTool(a) \/ SessionGone(a)
  \/ \E c \in Callers :
       \/ InvokeInSession(c) \/ BeginInvoke(c) \/ BeginConnect(c) \/ BeginPlain(c)
       \/ Connected(c) \/ ListRemoteTools(c) \/ InvokeConnected(c) \/ Reconnected(c)
       \/ ConnectFails(c) \/ QueueFull(c)
  \/ StartClient \/ StopClient
  \/ \E r \in posted : Arrive(r) \/ ToolEnds(r)
-----------------------------------------------------------------------------
\* Although requests are sent again until they are answered, and the demo calls
\* again on some errors, a tool is started no more than twice for an invoke of
\* the demo and once for any other call, and an output is answered only if it
\* was started for that call (isDuplicate, the invoke route).
StartsBounded ==
  \A c \in Callers \ Connects :
    /\ ran[c] <= IF c \in Invokes THEN 2 ELSE 1
    /\ caller[c].step = "answered" => ran[c] > 0
=============================================================================
