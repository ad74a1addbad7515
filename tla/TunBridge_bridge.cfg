\* Up to 6 bytes each way, on both platforms.
CONSTANTS
  Capacity = 4
  BufLen = 4
  ChanCap = 1
  U16Max = 3
  PktLen <- FrameLengths
  MaxBytes = 6
SPECIFICATION FairSpec
INVARIANTS TypeOK StreamIntact CutOnlyWhenFull
PROPERTIES EventuallyThrough FailureReachesPumps
CHECK_DEADLOCK FALSE
