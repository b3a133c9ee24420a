\* The peer dies while it handles a request.
SPECIFICATION Spec
CONSTANTS
  r1 = r1
  r2 = r2
  e1 = e1
  Msgs = {r1, e1}
  Requests = {r1}
  MaxInFlight = 2
  MaxAttempts = 2
  MaxRetries = 2
  MaxResends = 1
  MaxCrashes = 1
INVARIANTS AtLeastOnce
CHECK_DEADLOCK FALSE
