CONSTANTS
  sid1 = sid1
  Chips <- MCChips
  Asked <- MCAsked
  Songs = 2
  FirstSong = 1
  SongLength = 3
  MaxPos = 3
  MaxQueue = 1
SPECIFICATION Spec
INVARIANT MutedStaysSilent
CHECK_DEADLOCK FALSE
