\* Two requests and an event, one of them in flight at a time, one crash of either side.
SPECIFICATION FairSpec
CONSTANTS
  r1 = r1
  r2 = r2
  e1 = e1
  Msgs = {r1, r2, e1}
  Requests = {r1, r2}
  MaxInFlight = 1
  MaxAttempts = 2
  MaxRetries = 2
  MaxResends = 1
  MaxCrashes = 1
INVARIANTS SentWasTaken
PROPERTIES ExchangesSpec RowsSettled
CHECK_DEADLOCK FALSE
