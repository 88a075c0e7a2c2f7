SPECIFICATION Spec
CONSTANTS
  Others = {"disk"}
  Interval = 2
  Reminder = 6
  Stale = 1
  Unverified = 2
  MaxFaults = 0
INVARIANTS DownIsPaged
CHECK_DEADLOCK FALSE
