CONSTANTS
  MaxCnt = 3
  RepeatCount = 1
  AckEnabled = FALSE
  OtaaEnabled = TRUE
  SlowModule = TRUE
  Configs = {c1}
  Offsets = {0}
  MaxMsgs = 2
  MaxPowerLosses = 1
  MaxWatchdogs = 1
SPECIFICATION FairSpec
PROPERTIES TransmitTerminates
CHECK_DEADLOCK FALSE
