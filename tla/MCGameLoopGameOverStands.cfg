SPECIFICATION Spec
CONSTANTS
  NVEG = 4
  SECOND = 2
  ROUND = 2
  DELAY = 2
  MAXSTEP = 1
  MEDIUMLIVES = 1
  HARDLIVES = 1
PROPERTY GameOverStands
