SPECIFICATION FlightSpec
CONSTANTS
  Veggies = {1}
  Bomb = 9
  Menu = {1}
  MenuX <- MCMenuX
  MenuY <- MCMenuY
  WIDTH = 640
  HEIGHT = 480
  XS <- MCX
  VXS <- MCVX
  VYS <- MCVY
  MAXVY = 30
  FALL = 31
  BOX = 75
  BELOW = 60
  ABOVE = 15
  UINT = 1073741824
  Cursors <- MCCursors
  COMBO = 1
  MAXTHROWS = 2
INVARIANTS
  BelowTheTop
  FlightEnds
  ScoreSentNotNegative
  CutOnce
PROPERTY CutFromHeight
