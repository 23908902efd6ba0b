SPECIFICATION Spec
CONSTANTS
  NumTiles = 2
  ClustersPerTile = 2
  ClustersPerRouter = 2
  NumBanks = 2
  Home <- MCHome
  Misses <- MCMisses
  Holders <- MCHolders
  Owners <- MCOwners
  Asking <- MCAsking
  Probed <- MCProbed
  Writing <- MCWriting
  L1Entries = 1
  L2Entries = 1
  L1Rate = 1
  L2Rate = 1
  TileRequestEntries = 1
  TileReplyEntries = 1
  BankEntries = 1
  UpIn = 1
  UpOut = 1
  DownIn = 1
  DownOut = 1
  SplitRate = 1
  ClusterLatency = 1
  TileLatency = 1
  GnetLatency = 1
  MaxSent = 2
INVARIANTS
  FlowsInOrder
  TileAnswersForAll
PROPERTY
  EverythingArrives
