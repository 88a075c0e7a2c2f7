SPECIFICATION Spec
CONSTANTS
  None = None
  Agents = {a1}
  Validities = {5}
  MaxDays = 5
  Grace = 3
  Retry = 2
  Probe = 0
  MaxTime = 7
  MaxKeks = 1
  MaxUpsets = 2
INVARIANTS StartsWithinOneInterval
CHECK_DEADLOCK FALSE
