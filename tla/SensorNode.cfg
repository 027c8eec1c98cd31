CONSTANTS
  Byte = 16
  Digit = 8
  Bits = 3
  N32 = 2
  N64 = 4
  Descriptors <- MCDescriptors
  Messages <- MCMessages
  MaxDrawn = 2
  MaxMishaps = 2
  BufferSize = 128
  RepeatCount = 1
  Climates <- MCClimates
  Volts = {5}
  Amps <- MCAmps
  Thousand = 10
  Arrives <- Arrived
SPECIFICATION MessagesSpec
INVARIANTS ArrivedChargeIsTotal FaultsReported RoundTrip UnknownSkipped
PROPERTIES ChargeNeverFalls
