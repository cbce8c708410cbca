\* A frame that ends early is followed by another.
SPECIFICATION Spec
CONSTANTS
  RxSize = 4
  MaxFrames = 2
  MaxParts = 2
  ReadParts = 3
INVARIANTS FramesWhole
CHECK_DEADLOCK FALSE
