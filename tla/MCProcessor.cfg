SPECIFICATION BothSpec
CONSTANTS
  BUF_LEN = 3
  FIFO = 1
  DEFAULT_TIMEOUT = 1
  INT_MAX = 3
  MAXCALL = 2
  MAXIN = 3
  MAXOUT = 3
  ALT_NIRQ = 3
  MAXSECTION = 1
INVARIANTS
  InOrder
  InterruptDiscipline
PROPERTIES
  HeldOnlyByHost
CHECK_DEADLOCK FALSE
