\* A completion arrives while the poll handler reports another.
SPECIFICATION Spec
CONSTANTS
  TxSize = 3
  MaxFrames = 3
  Env = {}
  PoolSize = 2
  MaxOutstanding = 2
  MaxRxQueue = 1
INVARIANTS PollFindsAcked
\* A failed assertion stops the program, and so does the bound on the frames.
CHECK_DEADLOCK FALSE
