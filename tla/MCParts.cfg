\* Windows of two requests; three hooks with two priorities; two URLs and three
\* endpoints; a file that is replaced twice; four webhooks for a buffer of two;
\* a stream on one of two connections; an invoke, a connect and a plain call; five
\* identities and six starts.
SPECIFICATION Spec
CONSTANTS
  h1 = h1
  h2 = h2
  h3 = h3
  w1 = w1
  w2 = w2
  w3 = w3
  w4 = w4
  Window = 3
  MaxRequests = 2
  MaxTime = 10
  Hooks = {h1, h2, h3}
  Priorities = {1, 2}
  Urls = {"u", "v"}
  MaxEndpoints = 3
  MaxProbes = 2
  MaxHistory = 1
  MaxSize = 4
  MaxRotations = 2
  Webhooks = {w1, w2, w3, w4}
  MaxEvents = 2
  Connections = {"c", "d"}
  Streams = {"s"}
  NoConnection = "none"
  Agents = {"a"}
  Invokes = {"i"}
  Connects = {"k"}
  PlainCalls = {"p"}
  MaxSessions = 2
  MaxMade = 5
  MaxStarts = 6
INVARIANTS WindowBound OwnResults UnchangedIsLoaded Replayable StartsBounded OneIdentity
PROPERTIES ShutdownEnds StreamsSettle
CHECK_DEADLOCK FALSE
