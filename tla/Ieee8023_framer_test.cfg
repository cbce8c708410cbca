SPECIFICATION NetSpec
CONSTANTS
  HdrSize = 2
  BufSize = 2
  Neighbours = {"a"}
  Groups = {"g"}
  NearGroups = {"n"}
  UipSizes = {1}
  Lengths = {1}
  PoolSize = 1
  MaxFrames = 1
  MaxRx = 1
PROPERTY OnlyGroupsConverted
CHECK_DEADLOCK FALSE
