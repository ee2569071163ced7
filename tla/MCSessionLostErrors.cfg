SPECIFICATION Spec
CONSTANTS
  Kinds <- ErrorKinds
  MaxMessages = 5
  MayThrow = FALSE
  Queues = {q1}
  NoLane = NoLane
  Workers = {w1, w2}
  kMaxJobs = 2
INVARIANT ReportedAtNextWait
