CONSTANTS
  Cores = {c1, c2, c3}
  DefaultSize = 2
  QueueSizes = {2}
  LatencyDequeue = 2
  LatencyBlockedSync = 2
  LoopShapes <- MCLoops
  MaxTasks = 3
  Reinit = FALSE
  Ends = FALSE
  Asserts = FALSE
SPECIFICATION FairSpec
INVARIANT NoTaskLost
PROPERTY BarrierMeansDry
PROPERTY PoolSpec
PROPERTY NoCommonStall
PROPERTY BarrierReleases
