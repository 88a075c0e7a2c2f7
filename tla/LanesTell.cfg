SPECIFICATION FairSpec
CONSTANTS
  Positions <- Sizes
  Starts = {0, 4}
  Standby = 2
  Grace = 1
  JoinGrace = 2
  RecoverAfter = 2
  LaneKnows = {TRUE, FALSE}
  Horizon = 7
  MaxMoves = 2
  MaxUpsets = 1
INVARIANTS TypeOK
PROPERTIES StrandedIsTold PollOpensOnce SideIsTold DoubtSettles
