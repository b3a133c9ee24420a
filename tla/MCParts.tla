------------------------------ MODULE MCParts ------------------------------
(***************************************************************************)
(* An instance for TLC of eight small components that have nothing to do    *)
(* with each other.  A behaviour is one of one of them, while the others    *)
(* stay in their first state.                                               *)
(***************************************************************************)
EXTENDS RateLimiter, Shutdown, HealthMonitor, LogAnalyzer, WebhookRelay,
        TransportServer, RemoteCalls, Credentials

CONSTANTS h1, h2, h3, w1, w2, w3, w4

VARIABLE part  \* the component that runs

vars == <<part, limiterVars, shutdownVars, monitorVars, logVars, relayVars, serverVars, callVars, credentialVars>>

Init ==
  /\ part \in {"limiter", "shutdown", "monitor", "log", "relay", "transport", "calls", "credentials"}
  /\ LimiterInit /\ ShutdownInit /\ MonitorInit /\ LogInit
  /\ RelayInit /\ TransportInit /\ CallsInit /\ CredentialsInit

LimiterRuns ==
  /\ part = "limiter"
  /\ LimiterNext
  /\ UNCHANGED <<part, shutdownVars, monitorVars, logVars, relayVars, serverVars, callVars, credentialVars>>

ShutdownRuns ==
  /\ part = "shutdown"
  /\ ShutdownNext
  /\ UNCHANGED <<part, limiterVars, monitorVars, logVars, relayVars, serverVars, callVars, credentialVars>>

MonitorRuns ==
  /\ part = "monitor"
  /\ MonitorNext
  /\ UNCHANGED <<part, limiterVars, shutdownVars, logVars, relayVars, serverVars, callVars, credentialVars>>

LogRuns ==
  /\ part = "log"
  /\ LogNext
  /\ UNCHANGED <<part, limiterVars, shutdownVars, monitorVars, relayVars, serverVars, callVars, credentialVars>>

RelayRuns ==
  /\ part = "relay"
  /\ RelayNext
  /\ UNCHANGED <<part, limiterVars, shutdownVars, monitorVars, logVars, serverVars, callVars, credentialVars>>

TransportRuns ==
  /\ part = "transport"
  /\ TransportNext
  /\ UNCHANGED <<part, limiterVars, shutdownVars, monitorVars, logVars, relayVars, callVars, credentialVars>>

CallsRuns ==
  /\ part = "calls"
  /\ CallsNext
  /\ UNCHANGED <<part, limiterVars, shutdownVars, monitorVars, logVars, relayVars, serverVars, credentialVars>>

CredentialsRuns ==
  /\ part = "credentials"
  /\ CredentialsNext
  /\ UNCHANGED <<part, limiterVars, shutdownVars, monitorVars, logVars, relayVars, serverVars, callVars>>

Next ==
  \/ LimiterRuns \/ ShutdownRuns \/ MonitorRuns \/ LogRuns
  \/ RelayRuns \/ TransportRuns \/ CallsRuns \/ CredentialsRuns

Spec == Init /\ [][Next]_vars /\ ShutdownFairness /\ TransportFairness
=============================================================================
