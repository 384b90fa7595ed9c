SPECIFICATION FairSpec
CONSTANTS
  LAST = 2
  Frames <- MCFrames
INVARIANTS
  FrameDelivered
  TearingBounded
  EmptyStaysInvisible
  AckFresh
PROPERTY FramesArrive
