CONSTANTS
  DebounceCount = 2
  AliveInterval = 3
  NumTxRetries = 1
  Wrap = 6
  OkTimeout = 1
  ReceiveTimeout = 3
  ReadTimeout = 2
  TimeoutDelay = 1
  BusyDelay = 1
  Fields <- MCFields
  Offset = 1
SPECIFICATION WanSpec
INVARIANTS NoSilence
PROPERTIES SwitchSettles
