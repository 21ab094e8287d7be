SPECIFICATION Spec
CONSTANTS
  Counts = {2, 4}
  Fallback = {1, 3}
  Kinds <- BetweenTheSteps
  PacketCycles = {2}
  MaxInflight = 2
  MaxCalls = 4
INVARIANT CountDropsToAccepted
CHECK_DEADLOCK FALSE
