SPECIFICATION ExchangeSpec
CONSTANTS
  None = None
  Lanes = {"execution", "ingest"}
  Reserve <- Floors
  Weights = {2, 4}
  Burst = 6
  Rate = 1
  Pace = 2
  MaxLag = 1
  MaxTime = 4
  Horizon = 12
  Reprobe = 14
  Ceiling = 2
  BeatCeiling = 1
  PulseRefill = 2
  StepBound = 3
  Durations = {0, 1, 2, 3, 5}
  MaxCalls = 2
  MaxCrashes = 1
  Clocks = {1, 2}
  MaxTries = 2
  Cap = 30
  Total = 35
  Timeout = 30
  Agents = {a1, a2}
  Validities = {2, 9}
  MaxDays = 5
  Grace = 1
  Retry = 1
  Probe = 1
  MaxStart = 4
  MaxKeks = 2
  MaxUpsets = 2
  Held <- ShortOrLong
  MaxFills = 3
  MaxInstant = 4
  Margin = 1
  Skew = 0
  PageSize = 1
  Others = {"disk"}
  Interval = 2
  Reminder = 3
  Stale = 1
  Unverified = 2
  MaxFaults = 1
SYMMETRY Symmetry
INVARIANTS TypesOK SpendIsBounded WriteIsHonest ColdStartIsSound RecordIsTrue FailureIsTold
PROPERTIES SwitchHolds PagesArePaced
CHECK_DEADLOCK FALSE
