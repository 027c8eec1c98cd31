CONSTANTS
  MaxCnt = 3
  RepeatCount = 1
  AckEnabled = TRUE
  OtaaEnabled = FALSE
  SlowModule = FALSE
  Configs = {c1, c2}
  Offsets = {0, 1}
  MaxMsgs = 3
  MaxPowerLosses = 2
  MaxWatchdogs = 1
SPECIFICATION FairSpec
INVARIANTS TrueMeansSent FlashHoldsRam OnlyPowerLossDeprovisions
PROPERTIES RecordedNeverReused ReportsDelivered
CHECK_DEADLOCK FALSE
