SPECIFICATION FairSpec
CONSTANTS
  Counts = {2, 4}
  Fallback = {1, 3}
  Kinds <- OnAndBetweenTheSteps
  PacketCycles = {2}
  MaxInflight = 2
  MaxCalls = 4
INVARIANTS TypeOK InflightExact SetupBeforeUse FmStaysOn CountIsAccepted
PROPERTIES CallsReturn
CHECK_DEADLOCK FALSE
