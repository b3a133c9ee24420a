\* Two handshakes, two repeated requests, one restart.
SPECIFICATION Spec
CONSTANTS
  h1 = h1
  h2 = h2
  c1 = c1
  c2 = c2
  Handshakes = {h1, h2}
  Compatible = {h1, h2}
  Capabilities = {c1, c2}
  Offer <- OneAndTwo
  MaxRepeats = 2
  MaxRestarts = 1
INVARIANT CapabilitiesAgreed
PROPERTIES PairingsSpec
CHECK_DEADLOCK FALSE
