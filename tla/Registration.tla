---------------------------- MODULE Registration ----------------------------
(***************************************************************************)
(* An agent's record in the directory: register, syncTools and unregister   *)
(* (agent.ts), whose calls overlap, and whose requests may be refused, be   *)
(* lost, or arrive after the call has given up.  The directory is a service *)
(* outside of the repository; its record of the agent and what a request    *)
(* does to it (Absent, Land) are taken from these calls: POST puts a record *)
(* in the place of the one before, DELETE takes it out.                     *)
(***************************************************************************)
EXTENDS Naturals

CONSTANTS
  Operations,  \* calls of register, syncTools and unregister
  Host,        \* the host the agent is registered with
  Localhost,   \* getEndpoint's default
  NoHost       \* no endpoint

VARIABLES
  apiKey,  \* whether dnsApiKey is set
  op,      \* of each call: what it asks for, and where its request is
  record   \* the directory's record of the agent

agentVars == <<apiKey, op>>

Unused == [kind |-> "none", at |-> "none", endpoint |-> NoHost]
Absent == [version |-> 0, listed |-> FALSE, endpoint |-> NoHost]

RegistrationInit ==
  /\ apiKey = FALSE
  /\ op = [o \in Operations |-> Unused]
  /\ record = Absent

Post(o, kind, endpoint) ==
  /\ op[o] = Unused
  /\ op' = [op EXCEPT ![o] = [kind |-> kind, at |-> "sent", endpoint |-> endpoint]]

\* register: the key is kept whatever becomes of the request.
Register(o) ==
  /\ Post(o, "register", Host)
  /\ apiKey' = TRUE
  /\ UNCHANGED record

\* syncTools: registers again, with no host.
Sync(o) ==
  /\ apiKey
  /\ Post(o, "sync", Localhost)
  /\ UNCHANGED <<apiKey, record>>

Unregister(o) ==
  /\ apiKey
  /\ Post(o, "unregister", NoHost)
  /\ UNCHANGED <<apiKey, record>>

\* External: a request arrives at the directory, which overwrites or deletes.
Land(o) ==
  /\ op[o].at \in {"sent", "late"}
  /\ record' = [version  |-> record.version + 1,
                listed   |-> op[o].kind # "unregister",
                endpoint |-> op[o].endpoint]
  /\ op' = [op EXCEPT ![o].at = IF @ = "sent" THEN "landed" ELSE "ended"]
  /\ UNCHANGED apiKey

\* The answer arrives: an unregistered agent forgets the key it has by then.
Succeed(o) ==
  /\ op[o].at = "landed"
  /\ op' = [op EXCEPT ![o].at = "ended"]
  /\ apiKey' = (apiKey /\ op[o].kind # "unregister")
  /\ UNCHANGED record

\* The request is refused or times out; one that was sent may still arrive.
GiveUp(o) ==
  /\ op[o].at \in {"sent", "landed"}
  /\ \E at \in {"ended"} \cup (IF op[o].at = "sent" THEN {"late"} ELSE {}) :
       op' = [op EXCEPT ![o].at = at]
  /\ UNCHANGED <<apiKey, record>>

RegistrationNext ==
  \E o \in Operations : Register(o) \/ Sync(o) \/ Unregister(o) \/ Land(o) \/ Succeed(o) \/ GiveUp(o)
=============================================================================
