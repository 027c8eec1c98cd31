CONSTANTS
  NumSwitches = 2
  NumAccels = 1
  GpsEnabled = FALSE
  DbgEnabled = FALSE
  MaxRestarts = 1
SPECIFICATION FairSpec
INVARIANTS NoChangeForgotten AlarmMirrored
PROPERTIES SleepsWhenIdle FlagServed
