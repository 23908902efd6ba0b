SPECIFICATION FairSpec
CONSTANTS
  BANKS = 2
  PENDING_PER_BANK = 3
  Offered <- MCOffered
  Endless <- MCEndless
  RAS = 5
  RC = 8
  RRD = 1
  FAW = 4
  RCDR = 3
  RCDW = 2
  RP = 3
  CL = 3
  WR = 3
  WTR = 2
  WL = 1
  RTP = 1
  CCD = 1
  Burst = 2
  MC_FORCE_SCHEDULE_SOFT = 4
  MC_FORCE_SCHEDULE_HARD = 8
  MaxRequests = 1
INVARIANTS
  ChannelModelAccepts
PROPERTIES
  OnlyRowHitsStarve
