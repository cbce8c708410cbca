\* Completion and reception interrupts around the update of state.
SPECIFICATION Spec
CONSTANTS
  TxSize = 3
  MaxFrames = 3
  Env = {"rx"}
  PoolSize = 2
  MaxOutstanding = 1
  MaxRxQueue = 1
INVARIANTS NoLostWakeup
\* A failed assertion stops the program, and so does the bound on the frames.
CHECK_DEADLOCK FALSE
