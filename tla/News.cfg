SPECIFICATION Spec
CONSTANTS
  Orders = {1, 2}
  Sizes = {1, 2}
  MaxDrops = 1
  MaxFollows = 1
  MaxRows = 3
  MaxAttempts = 2
  MaxFaults = 2
  MaxCrashes = 1
INVARIANTS TypesOK NewsIsToldOnce
PROPERTIES NewsSettles
CHECK_DEADLOCK FALSE
