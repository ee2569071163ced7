CONSTANTS
  App = {a1, a2}
  kMaxPending = 2
  Heartbeat = TRUE
  PeerMoves = {"babble", "closed"}
  MaxInFlight = 1
SPECIFICATION Spec
SYMMETRY AppSymmetry
INVARIANTS
  TableAccounted
  NoWaiterLost
  DescriptorUnused
