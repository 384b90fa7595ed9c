SPECIFICATION Spec
CONSTANTS
  Frames <- MCFrames
  Clear <- MCClear
  StartLines <- MCStartLines
  Lines <- MCLines
INVARIANTS
  PictureTwoLate
  WrongColourAtEdges
