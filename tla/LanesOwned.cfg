SPECIFICATION FairSpec
CONSTANTS
  w1 = w1
  w2 = w2
  Wallets <- TwoWallets
  Cap = 1
  StaleAfter = 1
  RecoverAfter = 2
  TickGap = 1
  RefreshAfter = 1
  MaxUpsets = 2
INVARIANTS TypeOK FailoverBounded
PROPERTIES HandbackEarned HealthyLaneRegains
