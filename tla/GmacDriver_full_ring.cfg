\* One frame more than the ring holds.
SPECIFICATION Spec
CONSTANTS
  TxSize = 3
  MaxFrames = 4
  Env = {}
  PoolSize = 3
  MaxOutstanding = 3
  MaxRxQueue = 1
INVARIANTS EmptyRingIsIdle
\* A failed assertion stops the program, and so does the bound on the frames.
CHECK_DEADLOCK FALSE
