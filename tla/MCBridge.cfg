\* Two starts, one after the other, a request, stops at any time, and two
\* reconnects in a row.
SPECIFICATION Spec
CONSTANTS
  s1 = s1
  s2 = s2
  k1 = k1
  NoAgent = NoAgent
  Starts = {s1, s2}
  Requests = {k1}
  McpCalls = {s1, s2, k1}
  MaxReconnectAttempts = 2
INVARIANT AtMostTwice
PROPERTIES CallsEnd
CHECK_DEADLOCK FALSE
