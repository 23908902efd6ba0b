SPECIFICATION FairSpec
CONSTANTS
  Tiles = 2
  ClustersPerTile = 2
  CoresPerCluster = 1
  ThreadsPerCore = 1
  FifoDepth = 2
  Words = {"w"}
  WordSize = 3
  Requests <- MCRequests
  SyncWords = {}
  MaxRequests = 2
  Halts = FALSE
CHECK_DEADLOCK FALSE
INVARIANTS
  PacketInOnePlace
  ReplyFindsItsRequest
PROPERTIES
  ServiceSpec
