SPECIFICATION Spec
CONSTANTS
  i1 = i1
  i2 = i2
  Instance <- TwoInstances
  MaxEvents = 2
  Lot = 1
  MaxSize = 2
  ExitTries = 2
  MaxUpsets = 1
  Faults = {"crash", "halt", "lost"}
SYMMETRY Symmetry
INVARIANTS TypeOK HandledInOrder AtMostOneEntryOrder OneSignatureOutlivesHalt FlipOpensOnlyWhenOut
PROPERTY PromiseKept
