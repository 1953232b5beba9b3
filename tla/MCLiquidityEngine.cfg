SPECIFICATION FairSpec
CONSTANTS
  Low = 0
  Mid = 0
  High = 1
  QtyPerLevel = 2
  MinOrderSize = 1
  LotSize = 1
  MaxAskExposure = 2
  MinBase = 0
  CriticalBase = 0
  Base = 50
  RefPrices = {1000, 1010}
  SmallBps = 10
  LargeBps = 100
  MaxBatch = 1
  CancelRetryLimit = 0
  LivenessThreshold = 1
  Window = 100
  MaxGen = 2
  MaxUpsets = 2
  MaxQueue = 0
PROPERTIES   StrayEnds
CHECK_DEADLOCK FALSE
