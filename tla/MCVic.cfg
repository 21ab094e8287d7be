CONSTANTS
  LineLength = 12
  Lines = 5
  LowLines = 4
  FirstLine = 2
  LastLine = 3
  Scrolls = 2
  BadFirst = 4
  BadLast = 6
  SpriteFirst = 10
  DmaCycle = 7
  CountCycle = 5
  Height = 2
  Sprites <- MCSprites
  Starts <- MCStarts
  Writes <- MCWrites
SPECIFICATION Spec
INVARIANT TypeOK
PROPERTIES
  EveryCycle
  LandsOnFrameEnd
