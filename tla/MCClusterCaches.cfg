SPECIFICATION Spec
CONSTANTS
  lineA = lineA
  lineB = lineB
  NumCores = 2
  Lines = {lineA, lineB}
  Offered <- MCOffered
  L1Ways = 1
  L2Ways = 1
  Entries = 4
  EvictionBuffer = 1
  BcastCount = 1
  Latency = 2
  Sleepy = {TRUE, FALSE}
  NonBlocking = FALSE
INVARIANTS
  SleepersAreWaited
  EvictionsHaveRoom
  FetchesOnceInOrder
PROPERTIES
  BarrierFences
  DirtyNotDropped
  PendedAccessEnds
