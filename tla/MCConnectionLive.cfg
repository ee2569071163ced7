CONSTANTS
  App = {a1}
  kMaxPending = 2
  Heartbeat = TRUE
  PeerMoves = {"silent", "clogged", "closed"}
  MaxInFlight = 1
SPECIFICATION FairSpec
PROPERTIES
  SilenceIsNoticed
  CallersReturn
