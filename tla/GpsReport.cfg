SPECIFICATION FairSpec
CONSTANTS
  Size = 4
  Fixes <- MCFixes
  NoFix = 0
  Garbage = Garbage
  ClockMod = 6
  GpsTimeout = 2
  NoTimeToFix = 5
  MaxOffset = 1
  UploadCounts = {1, 2, 4}
  MaxFixes = 5
  MaxReports = 5
INVARIANTS PositionsSent FixIsOfThisReport TimeToFixIsElapsed
PROPERTIES RingKeepsLatest AcquisitionEnds
CHECK_DEADLOCK FALSE
