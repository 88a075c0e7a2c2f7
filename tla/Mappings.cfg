SPECIFICATION Spec
CONSTANTS
  Leaders = {l1, l2}
  Accounts = {a1, a2}
  Orphans = {}
  MaxDollars = 2
  Budgets = {0, 4, 5}
  Alloc = 5
  Worths = {1, 5}
  MaxPlaced = 4
  Watched = l1
  MaxReissues = 1
  MaxEdits = 2
  MaxFaults = 1
INVARIANTS TypesOK SubsAreKept BooksAreTrue
PROPERTIES WindDownHolds MappingsSettle
CHECK_DEADLOCK FALSE
