\* The outbox: a request and an event, two invocations, one outage.
SPECIFICATION FairSpec
CONSTANTS
  m1 = m1
  m2 = m2
  s1 = s1
  Msgs = {m1, m2}
  Sessions = {s1}
  SessionOf <- MCSessionOf
  Kind <- MCKind
  Loops = {l1, l2}
  Errors <- MCErrors
  MaxInFlight = 2
  MaxAttempts = 2
  BatchSize = 2
  MaxOutages = 1
  None = None
INVARIANTS ClaimsAreExclusive SentWasDelivered GivenUpForCause
PROPERTIES EventuallySettled
CHECK_DEADLOCK FALSE
