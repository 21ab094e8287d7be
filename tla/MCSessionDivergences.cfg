CONSTANTS
  sid1 = sid1
  Chips <- MCChips
  Asked <- MCAsked
  Songs = 2
  FirstSong = 1
  SongLength = 3
  MaxPos = 3
  MaxQueue = 1
SPECIFICATION Spec
\* Each of them is violated: keep the one to see
INVARIANTS
  PausedIsSilent
  SeekEndsHeard
  StoppedIsSilent
  BackendIsAlive
CHECK_DEADLOCK FALSE
