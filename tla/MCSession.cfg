CONSTANTS
  sid1 = sid1
  Chips <- MCChips
  Asked <- MCAsked
  Songs = 2
  FirstSong = 1
  SongLength = 3
  MaxPos = 3
  MaxQueue = 1
SPECIFICATION FairSpec
INVARIANTS
  TypeOK
  BackendFollowsSeek
  HeardAsWritten
  NothingLeftWaiting
PROPERTY StopReturns
CHECK_DEADLOCK FALSE
