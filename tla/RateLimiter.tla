---------------------------- MODULE RateLimiter ----------------------------
(***************************************************************************)
(* RateLimiter (bug-report-server/src/server.ts) for one key: a window that *)
(* opens with the first request after the last one closed, and the cleanup  *)
(* of the interval timer.                                                   *)
(***************************************************************************)
EXTENDS Integers, Sequences

CONSTANTS
  Window,       \* windowMs
  MaxRequests,
  MaxTime       \* bound: the clock

ASSUME LimiterAssumption ==
  /\ Window \in Nat
  /\ MaxRequests \in Nat \ {0}
  /\ MaxTime \in Nat

VARIABLES
  now,
  entry,    \* of the key in requests: whether there is one, count, resetAt
  admitted  \* when each allowed request came, and when its window opened

limiterVars == <<now, entry, admitted>>

NoEntry == [present |-> FALSE, count |-> 0, resetAt |-> 0]

LimiterInit ==
  /\ now = 0
  /\ entry = NoEntry
  /\ admitted = <<>>

Tick ==
  /\ now < MaxTime
  /\ now' = now + 1
  /\ UNCHANGED <<entry, admitted>>

Admit(e) ==
  /\ entry' = e
  /\ admitted' = Append(admitted, [at |-> now, opened |-> e.resetAt - Window])
  /\ UNCHANGED now

\* isAllowed: the first of a window.
Reset ==
  /\ ~entry.present \/ now > entry.resetAt
  /\ Admit([present |-> TRUE, count |-> 1, resetAt |-> now + Window])

\* isAllowed: one more in the window.
Allow ==
  /\ entry.present /\ now <= entry.resetAt
  /\ entry.count < MaxRequests
  /\ Admit([entry EXCEPT !.count = @ + 1])

\* Faulty variant of Cleanup: entries are deleted at the end of their window.
CleanupEarly ==
  /\ entry.present /\ now >= entry.resetAt
  /\ entry' = NoEntry
  /\ UNCHANGED <<now, admitted>>

Cleanup ==
  /\ entry.present /\ now > entry.resetAt
  /\ entry' = NoEntry
  /\ UNCHANGED <<now, admitted>>

LimiterNext == Tick \/ Reset \/ Allow \/ Cleanup

LimiterSpec == LimiterInit /\ [][LimiterNext]_limiterVars
-----------------------------------------------------------------------------
\* A key gets no more than twice the limit in any span of a window's length,
\* wherever it lies and whenever the cleanup runs (isAllowed, cleanup).
WindowBound ==
  \A i \in DOMAIN admitted :
    i + 2 * MaxRequests \in DOMAIN admitted
      => admitted[i + 2 * MaxRequests].at > admitted[i].at + Window
=============================================================================
