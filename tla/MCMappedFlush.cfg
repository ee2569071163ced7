SPECIFICATION Spec
CONSTANTS
  Threads = {t1}
  Size = 4
  Values = {0, 1}
  Outputs = {0}
  MapRanges <- WholeOrTail
  Batches = {c1, c2}
  kMaxMappedChunk = 3
  Atom = 2
  Gap = 2
  Usage = {"flush coherent memory"}
SYMMETRY BatchSymmetry
INVARIANT InputsPublished
