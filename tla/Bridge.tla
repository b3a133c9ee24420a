------------------------------- MODULE Bridge -------------------------------
(***************************************************************************)
(* MCPBridge (mcp-bridge/src/bridge.ts): start, stop, and the requests of   *)
(* remote agents, which it passes to the MCP server.  A stop may come while *)
(* a start is under way, neither of which knows of the other.               *)
(***************************************************************************)
EXTENDS McpTransport

CONSTANTS
  Starts,     \* calls of start; each makes an agent, which has its name
  NoAgent

ASSUME BridgeAssumption ==
  /\ McpCalls = Starts \cup Requests
  /\ Starts \cap Requests = {}
  /\ NoAgent \notin McpCalls
  /\ MaxReconnectAttempts \in Nat

VARIABLES
  state,      \* BridgeState
  at,         \* where each start is
  agent,      \* the agent, named by its start
  agentState, \* of each agent: "none", "starting", "up", "stopping", "stopped"
  stop        \* where stop is: "no", "agent", "closing"

bridgeVars == <<state, at, agent, agentState, stop>>
vars == <<transportVars, bridgeVars>>

Init ==
  /\ TransportInit
  /\ state = "IDLE"
  /\ at = [s \in Starts |-> "none"]
  /\ agent = NoAgent
  /\ agentState = [s \in Starts |-> "none"]
  /\ stop = "no"

\* start: "Bridge already started", or a connect.  Callers await it.
Start(s) ==
  /\ at[s] = "none"
  /\ \A t \in Starts : at[t] \in {"none", "done", "failed"}
  /\ IF state \in {"READY", "REGISTERED"}
     THEN at' = [at EXCEPT ![s] = "failed"] /\ UNCHANGED <<state, transportVars>>
     ELSE /\ at' = [at EXCEPT ![s] = "connect"]
          /\ state' = "CONNECTING"
          /\ Connect(s)
  /\ UNCHANGED <<agent, agentState, stop>>

Following == [connect |-> "tools", tools |-> "resources", resources |-> "prompts", prompts |-> "agent"]

\* listResources and listPrompts of a server that has none fail, and return none.
StageDone(s) ==
  \/ call[s] = "ok"
  \/ call[s] = "failed" /\ at[s] \in {"resources", "prompts"}

\* discoverCapabilities: the next list is asked for.
Discover(s) ==
  /\ at[s] \in {"connect", "tools", "resources"}
  /\ StageDone(s)
  /\ at' = [at EXCEPT ![s] = Following[@]]
  /\ Issue(s)
  /\ UNCHANGED <<state, agent, agentState, stop>>

\* startAgent: a new agent takes the place of any other.
StartAgent(s) ==
  /\ at[s] = "prompts"
  /\ StageDone(s)
  /\ at' = [at EXCEPT ![s] = "agent"]
  /\ agent' = s
  /\ agentState' = [agentState EXCEPT ![s] = "starting"]
  /\ UNCHANGED <<transportVars, state, stop>>

StageFails(s) ==
  /\ at[s] \in {"connect", "tools", "resources", "prompts"}
  /\ call[s] \in {"failed", "refused"} /\ ~StageDone(s)
  /\ at' = [at EXCEPT ![s] = "failed"]
  /\ state' = "ERROR"
  /\ UNCHANGED <<transportVars, agent, agentState, stop>>

\* The agent listens; registerTools; register, if there is an agent still.  An
\* agent whose port is taken emits an error, and its start never ends.
AgentStarted(s) ==
  /\ at[s] = "agent"
  /\ agentState' = [agentState EXCEPT ![s] = "up"]
  /\ state' = "READY"
  /\ at' = [at EXCEPT ![s] = IF agent = NoAgent THEN "done" ELSE "register"]
  /\ UNCHANGED <<transportVars, agent, stop>>

\* register: done, refused, or without a public host.
Register(s) ==
  /\ at[s] = "register"
  /\ at' = [at EXCEPT ![s] = "done"]
  /\ state' \in {state, "REGISTERED"}
  /\ UNCHANGED <<transportVars, agent, agentState, stop>>

\* The rest of stop: disconnect, which does nothing without a connection.
StopMcp ==
  IF connected
  THEN stop' = "closing" /\ UNCHANGED state
  ELSE state' = "STOPPED" /\ stop' = "no"

\* stop: an agent that has not started yet ignores its stop.
StopCalled ==
  /\ stop = "no" /\ state # "IDLE" /\ state # "STOPPED"
  /\ IF agent # NoAgent /\ agentState[agent] = "up"
     THEN /\ agentState' = [agentState EXCEPT ![agent] = "stopping"]
          /\ stop' = "agent"
          /\ UNCHANGED <<state, agent>>
     ELSE /\ agent' = NoAgent
          /\ StopMcp
          /\ UNCHANGED agentState
  /\ UNCHANGED <<transportVars, at>>

AgentStopped ==
  /\ stop = "agent"
  /\ agentState' = [s \in Starts |-> IF agentState[s] = "stopping" THEN "stopped" ELSE agentState[s]]
  /\ agent' = NoAgent
  /\ StopMcp
  /\ UNCHANGED <<transportVars, at>>

McpClosed ==
  /\ stop = "closing"
  /\ connected' = FALSE
  /\ state' = "STOPPED"
  /\ stop' = "no"
  /\ UNCHANGED <<reconnectAttempts, call, ran, executed, at, agent, agentState>>

\* A remote agent asks an agent that listens.
Request(k) ==
  /\ call[k] = "none"
  /\ \E s \in Starts : agentState[s] \in {"up", "stopping"}
  /\ Issue(k)
  /\ UNCHANGED bridgeVars

Next ==
  \/ TransportNext /\ UNCHANGED bridgeVars
  \/ \E s \in Starts : \/ Start(s) \/ Discover(s) \/ StartAgent(s) \/ StageFails(s)
                       \/ AgentStarted(s) \/ Register(s)
  \/ StopCalled \/ AgentStopped \/ McpClosed
  \/ \E k \in Requests : Request(k)

\* McpCalls, connects and the delay of a reconnect have timers.
Fairness ==
  \A k \in McpCalls :
    WF_vars((Expires(k) \/ Reconnect(k) \/ OpenFails(k)) /\ UNCHANGED bridgeVars)

Spec == Init /\ [][Next]_vars /\ Fairness
-----------------------------------------------------------------------------
\* Every call returns: with a result, an error or a refusal (withReconnect,
\* reconnect, connect).
CallsEnd ==
  \A k \in McpCalls :
    call[k] # "none" ~> call[k] \in {"ok", "failed", "refused"}
=============================================================================
