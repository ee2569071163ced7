SPECIFICATION Spec
CONSTANTS
  MaxId = 5
  MaxEvents = 3
  Sessions = {1, 2}
  App = 1
  Handles = {h1, h2}
  Windows = {w1, w2}
  MaxSurfaces = 2
  Waits = TRUE
  EarlyReuse = FALSE
  NoHandle = NoHandle
SYMMETRY Interchangeable
CHECK_DEADLOCK FALSE
INVARIANTS
  RelayAgrees
  NativeAlive
  NoWindowLeftBehind
PROPERTIES
  CloseIsOwn
