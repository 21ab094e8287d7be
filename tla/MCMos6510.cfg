CONSTANTS
  IrqSources <- MCIrqSources
  NmiSources <- MCNmiSources
SPECIFICATION Spec
INVARIANTS
  TypeOK
  CycleExact
  OffTheBusInThree
  IrqOnlyWhileEnabled
PROPERTIES
  NmiServedOnce
  InterruptsAreTaken
