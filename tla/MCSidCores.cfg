CONSTANTS
  sid1 = sid1
  sid2 = sid2
  Chips <- MCChips
SPECIFICATION Spec
INVARIANT MutedIsSilent
