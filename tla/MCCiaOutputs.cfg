SPECIFICATION ShownSpec
CONSTANTS
  ByteSize = 3
  Forever = 1000
  Period50 = 5
  Period60 = 7
  SerialSteps = 2
  Tenths = 2
  Rests = 2
  Starts <- OutputStarts
  Reads <- OutputReads
  Writes <- OutputWrites
  Inputs <- NoInputs
  MaxAccesses = 3
PROPERTY EveryCycle
