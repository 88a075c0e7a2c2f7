SPECIFICATION FairSpec
CONSTANTS
  i1 = i1
  i2 = i2
  Instance <- OneInstance
  MaxEvents = 2
  Lot = 1
  MaxSize = 2
  ExitTries = 2
  MaxUpsets = 2
  Faults = {"crash", "halt", "manual", "unreadable"}
PROPERTIES DoneExitEndsEpisode NeverDoubles BacklogDrains
