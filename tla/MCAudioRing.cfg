CONSTANTS
  Size = 4
  Frame = 4
  Fills <- MCFills
  Numbers = 7
  StallTicks = 2
SPECIFICATION Spec
INVARIANT TypeOK
PROPERTIES
  IsAQueue
  FrameDoneReturns
CHECK_DEADLOCK FALSE
