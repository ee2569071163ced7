SPECIFICATION Spec
CONSTANTS
  m1 = m1
  T = T
  U = U
  H = H
  B = B
  Threads = {t1}
  Queues = {q1, q2}
  Fences = {f1}
  Timelines = {T}
  Binaries = {}
  Memories = {m1}
  Batches <- StepBatches
  EarlyBatches <- StepBatches
  MaxSubmits = 3
SYMMETRY Symmetry
CHECK_DEADLOCK FALSE
INVARIANTS
  ObservedIsVisible
