SPECIFICATION FairCursorSpec
CONSTANTS
  Readings <- MCReadings
  NoReading = NoReading
  WIDTH = 640
  HEIGHT = 480
  JUMPX = 64
  JUMPY = 48
  GRAVJUMP = 6000
  ROLL = 60
  MOVE = 6
  STREAK = 50
  Steps = {25}
  PATIENCE = 25
  SketchReadings <- MCSketchReadings
  SKETCHSTREAK = 100
  SketchSteps = {50}
  MAXMILLIS = 250
  MAXPACKETS = 3
  PINS = 2
  Packages <- MCPackages
  Boot <- MCBoot
  FIFO = 2
  MAXREAD = 3
INVARIANTS
  CursorArrives
  SketchesSound
  CoordinatesWhole
  StreakNotAhead
PROPERTIES
  LeapsRare
  CursorCatchesUp
