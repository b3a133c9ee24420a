------------------------------ MODULE Shutdown ------------------------------
(***************************************************************************)
(* ShutdownManager (shutdown.ts): hooks in the order of their priorities,   *)
(* each racing a timeout, and the signals that start it or cut it short.    *)
(***************************************************************************)
EXTENDS Naturals, Sequences

CONSTANTS
  Hooks,
  Priorities

ASSUME ShutdownAssumption == Priorities \subseteq Nat

VARIABLES
  hooks,      \* registered hooks with their priorities, sorted
  hook,       \* of each: "none", "idle", "running", "done", "failed"
  at,         \* the hook that shutdown awaits
  timedOut,   \* hooks that lost their race
  process     \* "up", "closing", "complete", "exited", "forced"

shutdownVars == <<hooks, hook, at, timedOut, process>>

ShutdownInit ==
  /\ hooks = <<>>
  /\ hook = [h \in Hooks |-> "none"]
  /\ at = 0
  /\ timedOut = {}
  /\ process = "up"

\* register: push and a stable sort, which put the hook before the first of a higher
\* priority.  The entry points register before any signal comes.
Register(h, p) ==
  /\ process = "up"
  /\ hook[h] = "none"
  /\ \E n \in 0..Len(hooks) :
       /\ \A i \in DOMAIN hooks : i <= n <=> hooks[i].priority <= p
       /\ hooks' = SubSeq(hooks, 1, n) \o <<[name |-> h, priority |-> p]>> \o SubSeq(hooks, n + 1, Len(hooks))
  /\ hook' = [hook EXCEPT ![h] = "idle"]
  /\ UNCHANGED <<at, timedOut, process>>

\* The loop of shutdown: the next hook is called, or it is complete.
Proceed(ended) ==
  /\ at' = at + 1
  /\ hook' = IF at = Len(hooks) THEN ended ELSE [ended EXCEPT ![hooks[at + 1].name] = "running"]
  /\ process' = IF at = Len(hooks) THEN "complete" ELSE "closing"

\* A signal: the first starts the shutdown, another one exits at once.
Signal ==
  /\ process \in {"up", "closing", "complete"}
  /\ IF process = "up" THEN Proceed(hook)
     ELSE process' = "forced" /\ UNCHANGED <<hook, at>>
  /\ UNCHANGED <<hooks, timedOut>>

Current == hooks[at].name

\* Faulty variant of HookTimeout: a hook is awaited for as long as it runs.
HookTimeoutIgnored ==
  /\ process = "closing"
  /\ timedOut' = timedOut \cup {Current}
  /\ UNCHANGED <<hooks, hook, at, process>>

\* The race is decided by the timer: the hook goes on beside the next ones.
HookTimeout ==
  /\ process = "closing"
  /\ timedOut' = timedOut \cup {Current}
  /\ Proceed(hook)
  /\ UNCHANGED hooks

\* A hook ends; whether it failed makes no difference to the loop.
HookEnds(h) ==
  /\ process \in {"closing", "complete"}
  /\ hook[h] = "running"
  /\ \E how \in {"done", "failed"} :
       LET ended == [hook EXCEPT ![h] = how]
       IN  IF h \in timedOut THEN hook' = ended /\ UNCHANGED <<process, at>> ELSE Proceed(ended)
  /\ UNCHANGED <<hooks, timedOut>>

Exit ==
  /\ process = "complete"
  /\ process' = "exited"
  /\ UNCHANGED <<hooks, hook, at, timedOut>>

ShutdownNext ==
  \/ \E h \in Hooks : HookEnds(h) \/ \E p \in Priorities : Register(h, p)
  \/ Signal \/ HookTimeout \/ Exit

\* Each hook races a timer, and the process exits once the shutdown is complete.
ShutdownFairness == WF_shutdownVars(HookTimeout \/ Exit)

Exited == process \in {"exited", "forced"}
-----------------------------------------------------------------------------
\* After a signal the process ends, though hooks fail or never end (shutdown).
ShutdownEnds == process = "closing" ~> Exited
=============================================================================
