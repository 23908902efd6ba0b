SPECIFICATION FairSpec
CONSTANTS
  c1 = c1
  c2 = c2
  c3 = c3
  x = x
  y = y
  Clusters = {c1, c2, c3}
  Ways = {w1}
  Lines = {x, y}
  Accesses <- MCAccesses
  PointerCounts = {1, 3}
INVARIANTS
  SingleWriter
  CopiesTracked
  ReleaseExpected
  NoPendingCopy
  FreshData
  ReservedForWaiter
PROPERTIES
  LockReleased
