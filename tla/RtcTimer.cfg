CONSTANTS
  NumSlots = 3
  Configs <- SomeConfigs
  Day = 4
  MaxTime = 5
  MaxSets = 1
SPECIFICATION FairSpec
INVARIANTS TableMatchesConfig NoLastTimeAhead NeverTooOften OneReportPerUpdate
PROPERTIES DueIsServed SkippingEnds
CHECK_DEADLOCK FALSE
