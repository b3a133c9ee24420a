\* Three requests and an event on two sessions.
SPECIFICATION FairSpec
CONSTANTS
  r1 = r1
  r2 = r2
  r3 = r3
  e1 = e1
  s1 = s1
  s2 = s2
  Requests = {r1, r2, r3}
  Events = {e1}
  Sessions = {s1, s2}
  SessionOf <- MCSessionOf
  MaxPendingPerSession = 2
  MaxPendingTotal = 2
  MaxQueue = 2
  MaxRetries = 2
  MaxTries = 2
  NoCall = NoCall
INVARIANTS NoCallerForgotten PendingBounded ProcessorHoldsWork
PROPERTIES CallsSpec EventsReturn
CHECK_DEADLOCK FALSE
