SPECIFICATION ShownSpec
CONSTANTS
  ByteSize = 3
  Forever = 1000
  Period50 = 5
  Period60 = 41
  SerialSteps = 2
  Tenths = 2
  Rests = 2
  Starts <- RestartStarts
  Reads <- NoReads
  Writes <- RestartWrites
  Inputs <- NoInputs
  MaxAccesses = 4
PROPERTY EveryCycle
