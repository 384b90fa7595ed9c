SPECIFICATION FairSpec
CONSTANTS
  ALT_NIRQ = 3
  MAXSECTION = 1
PROPERTY Served
CHECK_DEADLOCK FALSE
