SPECIFICATION Spec
CONSTANTS
  NumLines = 4
  Clusters = {1, 2}
  Offered <- MCOffered
  NumWays = 1
  Entries = 3
  EvictionBuffer = 1
  RequestPorts = 1
  ReplyPorts = 1
  ReplyRoom = 1
  PrefetchSize = 1
  Bulk = TRUE
  MemoryRoom = 1
PROPERTIES
  OwedUntilWritten
  BankServes
