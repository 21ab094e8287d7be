SPECIFICATION Spec
CONSTANTS
  Servers <- Version5
  Accesses = {"Low", "High", "Fm"}
  MaxDelay = 16
  FrameCycles = 5
  Big <- BigDelays
  Threshold <- Thresholds
  MaxFrames <- FrameLimits
  MaxEntries = 3
  MaxClock = 36
  MaxAccesses = 4
INVARIANTS TypeOK OneStream OnTime PacketIsWhole NothingStale
CHECK_DEADLOCK FALSE
