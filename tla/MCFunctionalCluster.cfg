SPECIFICATION MachineSpec
CONSTANTS
  Threads <- MCThreads
  ThreadsPerCluster = 2
  NumCores = 2
  Latencies = {0, 2}
  QueueDepth = 2
  Statuses <- MCAck
  Words = {"w", "x"}
  WordSize = 3
  Requests <- MCRequests
  SyncWords = {"w"}
  MaxRequests = 3
CHECK_DEADLOCK FALSE
INVARIANTS
  LinkMeansUntouched
PROPERTIES
  ServiceSpec
