---------------------------- MODULE McpTransport ----------------------------
(***************************************************************************)
(* MCPTransportManager (mcp-bridge/src/mcp-transport.ts): calls that find   *)
(* the connection broken replace its client, while others do the same.      *)
(* What the server and the SDK do is free: a request may be carried out and *)
(* its answer lost, a connection may break or never open.  So it makes no   *)
(* difference which client a request is on, and clients are left out.       *)
(***************************************************************************)
EXTENDS Naturals

CONSTANTS
  McpCalls,
  Requests,  \* those of remote agents: tools/call, resources/read, prompts/get
  MaxReconnectAttempts

VARIABLES
  connected,
  reconnectAttempts,
  call,      \* where each call is
  ran,       \* whether its current try has been carried out
  executed   \* how often its request has been carried out

transportVars == <<connected, reconnectAttempts, call, ran, executed>>

TransportInit ==
  /\ connected = FALSE
  /\ reconnectAttempts = 0
  /\ call = [k \in McpCalls |-> "none"]
  /\ ran = [k \in McpCalls |-> FALSE]
  /\ executed = [k \in McpCalls |-> 0]

Goes(k, where) ==
  /\ call' = [call EXCEPT ![k] = where]
  /\ ran' = [ran EXCEPT ![k] = FALSE]

\* connect: at once if there is a connection, else it opens one.
Connect(k) ==
  /\ Goes(k, IF connected THEN "ok" ELSE "opening")
  /\ UNCHANGED <<connected, reconnectAttempts, executed>>

\* listTools, callTool and the others: ensureConnected and the first try.
Issue(k) ==
  /\ Goes(k, IF connected THEN "first" ELSE "refused")
  /\ executed' = [executed EXCEPT ![k] = 0]
  /\ UNCHANGED <<connected, reconnectAttempts>>

Trying(k) == call[k] \in {"first", "retry"}

Execute(k) ==
  /\ Trying(k) /\ ~ran[k]
  /\ ran' = [ran EXCEPT ![k] = TRUE]
  /\ executed' = [executed EXCEPT ![k] = @ + 1]
  /\ UNCHANGED <<connected, reconnectAttempts, call>>

End(k, how) ==
  /\ Goes(k, how)
  /\ UNCHANGED <<connected, reconnectAttempts, executed>>

Answered(k) == Trying(k) /\ ran[k] /\ End(k, "ok")

\* Faulty variant of Expires: the retry has no timer.
ExpiresFirst(k) == call[k] = "first" /\ End(k, "failed")

\* The call's timer, or an error that withReconnect does not take for a broken
\* connection.
Expires(k) == Trying(k) /\ End(k, "failed")

\* Faulty variant of Broken: a retry is retried.
BrokenAgain(k) ==
  /\ Trying(k)
  /\ connected' = FALSE
  /\ IF reconnectAttempts < MaxReconnectAttempts
     THEN reconnectAttempts' = reconnectAttempts + 1 /\ Goes(k, "delay")
     ELSE UNCHANGED reconnectAttempts /\ Goes(k, "failed")
  /\ UNCHANGED executed

\* withReconnect, when the error says that the connection broke: the first try
\* goes on to reconnect, which may refuse.
Broken(k) ==
  /\ call[k] = "first"
  /\ connected' = FALSE
  /\ IF reconnectAttempts < MaxReconnectAttempts
     THEN reconnectAttempts' = reconnectAttempts + 1 /\ Goes(k, "delay")
     ELSE UNCHANGED reconnectAttempts /\ Goes(k, "failed")
  /\ UNCHANGED executed

\* reconnect after its delay: a new client, which connect opens.
Reconnect(k) ==
  /\ call[k] = "delay"
  /\ connected' = FALSE
  /\ Goes(k, "reopening")
  /\ UNCHANGED <<reconnectAttempts, executed>>

\* The continuation of connect; after a reconnect the call is tried again.
Opened(k) ==
  /\ call[k] \in {"opening", "reopening"}
  /\ connected' = TRUE
  /\ reconnectAttempts' = 0
  /\ Goes(k, IF call[k] = "opening" THEN "ok" ELSE "retry")
  /\ UNCHANGED executed

\* connect fails, or is given up by its timer.
OpenFails(k) ==
  /\ call[k] \in {"opening", "reopening"}
  /\ End(k, "failed")

TransportNext ==
  \E k \in McpCalls : \/ Execute(k) \/ Answered(k) \/ Expires(k) \/ Broken(k)
                   \/ Reconnect(k) \/ Opened(k) \/ OpenFails(k)
-----------------------------------------------------------------------------
\* The MCP server never carries a call out more than twice, however often
\* connections break under it and others reconnect, and has carried out what
\* is answered (withReconnect, callTool).
AtMostTwice ==
  \A k \in Requests :
    /\ executed[k] <= 2
    /\ call[k] = "ok" => executed[k] >= 1
=============================================================================
