SPECIFICATION Spec
CONSTANTS
  HdrSize = 2
  BufSize = 3
  Neighbours = {"a"}
  Groups = {"g"}
  NearGroups = {"n"}
  UipSizes = {1, 3}
  Lengths = {1, 3}
  PoolSize = 2
  MaxFrames = 3
  MaxRx = 1
  Period = 4
  Latency = 1
  MaxWraps = 3
  CountMod = 6
  ClockSecond = 3
  Intervals = {0, 1, 4}
  NewSeconds = {0, 5}
  MaxTicks = 9
  Slots = {0, 1}
  NbrTables = {"routes", "neighbours", "default"}
  Notified = {"routes", "default"}
  MaxTables = 2
  LlAddrs = {"null", "a", "b"}
  NullAddr = "null"
  NumBufs = 3
  RamNum = 1
  Files = 2
  PerFile = 2
  Packets = {"x", "y"}
  Attrs = {"s"}
  MaxFaults = 1
  Size = 4
  Byte = {b1, b2, b3}
  NoByte = NoByte
  MemSize = 8
  Lens = {0, 1, 3, 6}
  Tags = {t1, t2}
  NullPtr = NullPtr
INVARIANTS
  ServicesTypeOK
  FramesAsAsked ReceiverPrepared
  TimeOfTheCall
  SecondsMatchTicks OnlyLateExpirationsMissed NoEarlyReturn
  KeysName ItemsOfTheirNeighbour
  ReadsBackAsStored FilesKept
  ChecksStayTrue
  BlocksIntact NoRoomWasted
PROPERTIES
  DeliversExactly RefusedForCause IpServiceSpec
  EvictionAnnounced LeastUsedOldestFirst
  FifoSpec
  OldestFirst
CHECK_DEADLOCK FALSE
