\* Everything the surroundings may do but restart the driver, and more frames
\* than ring and pool hold.
SPECIFICATION Spec
CONSTANTS
  TxSize = 3
  MaxFrames = 4
  Env = {"RLE", "UND", "fastWire", "rx", "rxAtBoot"}
  PoolSize = 3
  MaxOutstanding = 4
  MaxRxQueue = 1
INVARIANTS TypeOK AckedPrefix PoolAccounting SubmissionOrder FrameConservation
           SentNeverReportedFailed
\* A failed assertion stops the program, and so does the bound on the frames.
CHECK_DEADLOCK FALSE
