SPECIFICATION Spec
CONSTANTS
  TOP = 20
  UINT = 64
  Starts = {0, 1, 7, 20}
  PACE = 1
  SMOKE = 2
  SpawnTimes = {0, 1}
  MAXSPAWN = 1
  DELAY = 2
  SECOND = 2
  ROUND = 2
  MAXTRIP = 2
  OLD = 11
INVARIANTS
  GatesOpen
PROPERTY NotEarly
