SPECIFICATION FairSpec
CONSTANTS
  Downlinks <- MCDownlinks
  PayloadCap = 2
  RecvSize = 2
  Channels = 2
  DeviceTypes = {"RN2483", "RN2903"}
  MaxMissed = 1
  MaxCalls = 3
INVARIANTS NoTableOverrun
PROPERTIES PromiseKept DownlinkOnce CallReturns
