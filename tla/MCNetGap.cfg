SPECIFICATION Spec
CONSTANTS
  Servers <- Version4
  Accesses = {"Low", "High", "Fm"}
  MaxDelay = 16
  FrameCycles = 5
  Big <- BigDelays
  Threshold <- Thresholds
  MaxFrames <- FrameLimits
  MaxEntries = 3
  MaxClock = 36
  MaxAccesses = 2
INVARIANT OnTime
CHECK_DEADLOCK FALSE
