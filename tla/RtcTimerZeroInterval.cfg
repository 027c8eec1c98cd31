CONSTANTS
  NumSlots = 3
  Configs <- ZeroInterval
  Day = 4
  MaxTime = 2
  MaxSets = 0
SPECIFICATION FairSpec
PROPERTY SkippingEnds
CHECK_DEADLOCK FALSE
