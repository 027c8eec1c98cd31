SPECIFICATION UbloxFairSpec
CONSTANTS
  PvtPayload <- MCPvtPayload
  PvtLength = 2
  PrtPayload <- MCPrtPayload
  Chunk = 4
  BusError = 7
  BufferSize = 4
  Piece = 3
  MaxFrames = 3
  MaxFaults = 1
INVARIANTS TakenAsSent NoneSkipped
PROPERTIES ReadingEnds
CHECK_DEADLOCK FALSE
