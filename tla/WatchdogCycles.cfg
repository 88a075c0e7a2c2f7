SPECIFICATION FairSpec
CONSTANTS
  s1 = s1
  s2 = s2
  Sub <- TwoSubs
  BlindAfter = 1
  MaxHalts = 2
  MaxUpsets = 2
INVARIANTS TypeOK SweptWasSeenEmpty OneStrayAtMost
PROPERTIES HaltIsSwept OutageEmptiesBook StallEmptiesBook
