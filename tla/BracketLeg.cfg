SPECIFICATION FairSpec
CONSTANTS
  MaxPlaced = 4
  MaxFaults = 2
PROPERTIES LegReturns
