CONSTANTS
  Ids = {r1, r2, r3, r4}
  Lanes = {q1, q2}
  NoLane = NoLane
  Workers = {w1, w2}
  kMaxJobs = 3
SPECIFICATION FairSpec
INVARIANTS
  TypeOK
  QuietAfterStop
  LaneExclusive
  LaneNotStranded
  NothingForgotten
PROPERTIES
  RunsLanesInOrder
  PoolProgresses
