\* No reception; two frames outstanding.
SPECIFICATION FairSpec
CONSTANTS
  TxSize = 3
  MaxFrames = 5
  Env = {}
  PoolSize = 2
  MaxOutstanding = 2
  MaxRxQueue = 1
INVARIANTS NoLostWakeup
PROPERTIES EveryFrameReported
\* A failed assertion stops the program, and so does the bound on the frames.
CHECK_DEADLOCK FALSE
