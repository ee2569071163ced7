SPECIFICATION FairSpec
CONSTANTS
  Kinds <- MainKinds
  MaxMessages = 4
  MayThrow = TRUE
  Queues = {q1}
  NoLane = NoLane
  Workers = {w1, w2}
  kMaxJobs = 2
INVARIANTS
  RequestsAccounted
  ObjectsOutliveJobs
  ErrorsConserved
PROPERTIES
  TeardownCompletes
  AnswerableIsAnswered
