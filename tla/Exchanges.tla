------------------------------ MODULE Exchanges ------------------------------
(***************************************************************************)
(* What two agents owe each other for every message: its handler at the     *)
(* peer runs at most once, an answer reaches the caller at most once, only  *)
(* while it waits, and only after the handler has finished.                 *)
(***************************************************************************)
CONSTANT Msgs

VARIABLES
  call,   \* the caller's side: "none", "open", "answered", "closed" (without an answer)
  work    \* the peer's side: "none", "begun", "done", "dropped" (its process
          \* died with the handler running, or about to start it)

Init ==
  /\ call = [m \in Msgs |-> "none"]
  /\ work = [m \in Msgs |-> "none"]

\* The caller sends a message; an event is not waited for.
Open(m) ==
  /\ call[m] = "none"
  /\ \E c \in {"open", "closed"} : call' = [call EXCEPT ![m] = c]
  /\ UNCHANGED work

\* The handler of a message starts, and may return at once.
Begin(m) ==
  /\ call[m] # "none"
  /\ work[m] = "none"
  /\ \E w \in {"begun", "done"} : work' = [work EXCEPT ![m] = w]
  /\ UNCHANGED call

Finish(m) ==
  /\ work[m] = "begun"
  /\ work' = [work EXCEPT ![m] = "done"]
  /\ UNCHANGED call

\* The peer's process dies with these handlers running, or about to start.
Drop(S) ==
  /\ \A m \in S : call[m] # "none" /\ work[m] \in {"none", "begun"}
  /\ work' = [m \in Msgs |-> IF m \in S THEN "dropped" ELSE work[m]]
  /\ UNCHANGED call

Answer(m) ==
  /\ call[m] = "open"
  /\ work[m] = "done"
  /\ call' = [call EXCEPT ![m] = "answered"]
  /\ UNCHANGED work

\* Some callers stop waiting.
Close(S) ==
  /\ \A m \in S : call[m] = "open"
  /\ call' = [m \in Msgs |-> IF m \in S THEN "closed" ELSE call[m]]
  /\ UNCHANGED work

Next ==
  \/ \E m \in Msgs : Open(m) \/ Begin(m) \/ Finish(m) \/ Answer(m)
  \/ \E S \in SUBSET Msgs : Close(S) \/ Drop(S)

Spec == Init /\ [][Next]_<<call, work>>
==============================================================================
