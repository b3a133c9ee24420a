-------------------------------- MODULE Calls --------------------------------
(***************************************************************************)
(* What the message dispatcher promises its callers: a call of request() or *)
(* event() returns a promise that is settled at most once, and never again  *)
(* changes; closing a session or shutting down may settle many at once.     *)
(***************************************************************************)
CONSTANT Call

VARIABLE outcome   \* outcome[c]: "none" before the call, then the promise's state

Settled == {"resolved", "rejected"}

Init == outcome = [c \in Call |-> "none"]

\* The call is made; its promise may be settled at once.
Make(c) ==
  /\ outcome[c] = "none"
  /\ \E o \in Settled \cup {"waiting"} : outcome' = [outcome EXCEPT ![c] = o]

\* Some waiting calls are settled with the same outcome.
Settle(S) ==
  /\ \A c \in S : outcome[c] = "waiting"
  /\ \E o \in Settled : outcome' = [c \in Call |-> IF c \in S THEN o ELSE outcome[c]]

Next ==
  \/ \E c \in Call : Make(c)
  \/ \E S \in SUBSET Call : Settle(S)

Spec == Init /\ [][Next]_outcome
=============================================================================
