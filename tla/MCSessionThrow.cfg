SPECIFICATION FairSpec
CONSTANTS
  Kinds <- MainKinds
  MaxMessages = 3
  MayThrow = TRUE
  Queues = {q1}
  NoLane = NoLane
  Workers = {w1, w2}
  kMaxJobs = 3
PROPERTIES
  ServeReturns
