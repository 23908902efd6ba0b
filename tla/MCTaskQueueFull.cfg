CONSTANTS
  Cores = {c1, c2}
  DefaultSize = 2
  QueueSizes = {1, 2}
  LatencyDequeue = 2
  LatencyBlockedSync = 2
  LoopShapes <- MCLoops
  MaxTasks = 3
  Reinit = TRUE
  Ends = TRUE
  Asserts = TRUE
SYMMETRY CoreSymmetry
SPECIFICATION Spec
INVARIANT WorkKeepsSomeCoreAwake
INVARIANT NoTaskTwice
CHECK_DEADLOCK FALSE
