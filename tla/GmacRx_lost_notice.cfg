\* A frame arrives while the poll handler clears PENDING_TX.
SPECIFICATION Spec
CONSTANTS
  RxSize = 4
  MaxFrames = 2
  MaxParts = 2
  ReadParts = 3
INVARIANTS ClearingIsSafe
CHECK_DEADLOCK FALSE
