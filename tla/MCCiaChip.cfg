SPECIFICATION Spec
CONSTANTS
  ByteSize = 2
  Forever = 1000
  Period50 = 5
  Period60 = 6
  SerialSteps = 2
  Tenths = 2
  Rests = 2
  Starts <- ChipStarts
  Reads <- ChipReads
  Writes <- ChipWrites
  Inputs <- ChipInputs
  MaxAccesses = 3
INVARIANTS
  TypeOK
  NoLostInterrupt
  NoSpuriousInterrupt
  Pb7PulsesOneClock
PROPERTY InterruptArrives
