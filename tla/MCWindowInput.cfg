SPECIFICATION Spec
CONSTANTS
  Keys = {k1}
  Buttons = {b1}
  Places = {1, 2}
  kMaxInputEvents = 2
  Batch = 1
  Pollers = {p1}
INVARIANTS
  NothingStuck
  PointerAgrees
PROPERTIES
  KeysComeUp
