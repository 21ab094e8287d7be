SPECIFICATION ShownSpec
CONSTANTS
  ByteSize = 3
  Forever = 1000
  Period50 = 5
  Period60 = 17
  SerialSteps = 2
  Tenths = 2
  Rests = 2
  Starts <- CascadeStarts
  Reads <- IcrReads
  Writes <- CascadeWrites
  Inputs <- CntInputs
  MaxAccesses = 3
PROPERTY EveryCycle
