\* Two sessions, one that keeps failing, overlapping attempts, two outages.
SPECIFICATION FairSpec
CONSTANTS
  a = a
  b = b
  c = c
  Sessions = {a, b}
  Reachable = {b}
  MaxConcurrent = 1
  MaxFails = 2
  Waits <- MCWaits
  MaxFlights = 2
  MaxOutages = 2
INVARIANTS ActiveRowsHaveRoute NoSessionForgotten
PROPERTIES ReachableResumed
CHECK_DEADLOCK FALSE
