\* Frames of up to four buffers, one more than the read takes and as many as
\* the ring has.
SPECIFICATION Spec
CONSTANTS
  RxSize = 4
  MaxFrames = 3
  MaxParts = 4
  ReadParts = 3
INVARIANTS TypeOK DescriptorsInStep FramesWholeUnlessSkipped DeliveryOrder
INVARIANTS StrandedOnlyIfUnnoticed
CHECK_DEADLOCK FALSE
