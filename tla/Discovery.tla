------------------------------ MODULE Discovery ------------------------------
(***************************************************************************)
(* From a name to an answer: an agent keeps its record in the directory     *)
(* (Registration), callers resolve the name (Resolver) and send a request   *)
(* to the endpoint they are given (Client), as connect of agent.ts does.    *)
(***************************************************************************)
EXTENDS Resolver, FiniteSets

CONSTANTS Operations, Host, Localhost, Hosts, MaxConnectionsPerHost

VARIABLES
  apiKey, op,                         \* Registration
  pool, conn, request, on, stream  \* Client

INSTANCE Registration
INSTANCE Client

provider  == <<apiKey, op>>
transport == <<pool, conn, request, on, stream>>
vars      == <<record, dnsVars, provider, transport>>

Init == ResolverInit /\ RegistrationInit /\ ClientInit

\* connect with what resolve returned.
Reach(c) ==
  /\ asked[c] = "found"
  /\ Request(c, result[c])

Next ==
  \/ ResolverNext /\ UNCHANGED <<provider, transport>>
  \/ RegistrationNext /\ UNCHANGED <<dnsVars, transport>>
  \/ (ClientNext \/ \E c \in Calls : Reach(c)) /\ UNCHANGED <<record, dnsVars, provider>>

\* A lookup is aborted by its timer, and by fetch's own limit once the headers
\* are there; connecting and the request have timers.  connect calls at once.
Fairness ==
  \A c \in Calls :
    /\ WF_vars((Arrive(c) \/ Break(c)) /\ UNCHANGED <<provider, transport>>)
    /\ WF_vars((ConnectTimeout(c) \/ RequestTimeout(c) \/ Reach(c)) /\ UNCHANGED <<record, dnsVars, provider>>)

Spec == Init /\ [][Next]_vars /\ Fairness
-----------------------------------------------------------------------------
\* Whoever asks for a name is told that it is missing or unreachable, or has
\* its request answered or rejected, in the end (resolve, getConnection, request).
CallsReturn ==
  \A c \in Calls :
    asked[c] # "none" ~> asked[c] \in {"missing", "failed"} \/ request[c] \in {"ok", "failed"}
=============================================================================
