\* Two connect calls, two peers, three sessions created, two kept.
SPECIFICATION Spec
CONSTANTS
  p = p
  q = q
  c = c
  d = d
  NoPeer = NoPeer
  NoKey = NoKey
  Names <- MCNames
  Peers = {p, q}
  Conns = {c, d}
  MaxKeys = 3
  MaxSessions = 2
  MaxCrashes = 1
INVARIANTS NoSessionStuck ConnectedToTarget OwnSessionsRouted
SYMMETRY MCSymmetry
CHECK_DEADLOCK FALSE
