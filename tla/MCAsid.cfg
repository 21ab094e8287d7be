CONSTANTS
  Chips <- MCChips
  Writes <- MCWrites
  FmWrites <- MCFmWrites
  MaxPairs = 2
SPECIFICATION Spec
INVARIANTS
  TypeOK
  FrameCarriesEveryWrite
  FmCarriesEveryPair
