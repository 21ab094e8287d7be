SPECIFICATION ShownSpec
CONSTANTS
  ByteSize = 3
  Forever = 1000
  Period50 = 5
  Period60 = 14
  SerialSteps = 2
  Tenths = 2
  Rests = 2
  Starts <- TodCascadeStarts
  Reads <- NoReads
  Writes <- TodCascadeWrites
  Inputs <- NoInputs
  MaxAccesses = 2
PROPERTY EveryCycle
