\* Frames written to the device, one by one or together.
CONSTANTS
  Capacity = 4
  BufLen = 4
  ChanCap = 1
  U16Max = 4
  PktLen <- FrameLengths
  MaxBytes = 6
SPECIFICATION Spec
INVARIANT OneFramePerWrite
CHECK_DEADLOCK FALSE
