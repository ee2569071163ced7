SPECIFICATION Spec
CONSTANTS
  Exercised = {"command_pools", "fences"}
  Handles = {1, 2}
  MaxObjects = 5
INVARIANT CleanRefusal
CHECK_DEADLOCK FALSE
