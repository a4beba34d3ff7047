SPECIFICATION FairSpec
CONSTANTS
  BANKS = 2
  BanksPerRefresh = 2
  ROWS = 2
  queueSize = 3
  starvationThreshold = 1
  DelayedRefreshThreshold = 1
  tRCD = 1
  tRAS = 2
  tRP = 1
  tCCD = 1
  tRTP = 1
  tRRD = 1
  tRFC = 1
  tREFI = 14
  MaxRequests = 4
INVARIANTS
  RowsPredicted
  RefreshGate
  NoReadyCycleMissed
  OvertakingBounded
PROPERTIES
  EveryRequestServed
