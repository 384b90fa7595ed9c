SPECIFICATION FairSpec
CONSTANTS
  NVEG = 4
  SECOND = 2
  ROUND = 1
  DELAY = 2
  MAXSTEP = 2
  MEDIUMLIVES = 1
  HARDLIVES = 2
INVARIANTS
  LivesNeverNegative
  VerdictEarned
  EndScreenAtRest
  RoundBounded
PROPERTIES
  NothingThrownAfterVerdict
  RoundsEndByVerdict
  RoundEnds
  ImplementsGameFlow
