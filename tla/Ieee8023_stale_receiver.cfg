SPECIFICATION NetSpec
CONSTANTS
  HdrSize = 2
  BufSize = 2
  Neighbours = {"a", "b"}
  Groups = {"g"}
  NearGroups = {}
  UipSizes = {1}
  Lengths = {1}
  PoolSize = 2
  MaxFrames = 2
  MaxRx = 1
INVARIANT ReportsNameReceiver
CHECK_DEADLOCK FALSE
