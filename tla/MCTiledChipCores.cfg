SPECIFICATION FairSpec
CONSTANTS
  Tiles = 1
  ClustersPerTile = 1
  CoresPerCluster = 2
  ThreadsPerCore = 2
  FifoDepth = 2
  Words = {"w"}
  WordSize = 3
  Requests <- MCIncrements
  SyncWords = {}
  MaxRequests = 3
  Halts = TRUE
CHECK_DEADLOCK FALSE
PROPERTIES
  RequestsAnswered
  ThreadsRun
