\* Reception and restarts, and no more frames outstanding than the ring holds.
SPECIFICATION Spec
CONSTANTS
  TxSize = 3
  MaxFrames = 5
  Env = {"rx", "exit"}
  PoolSize = 3
  MaxOutstanding = 2
  MaxRxQueue = 1
INVARIANTS RingMatchesList OnlySpuriousPolls
PROPERTIES ServiceSpec
\* A failed assertion stops the program, and so does the bound on the frames.
CHECK_DEADLOCK FALSE
