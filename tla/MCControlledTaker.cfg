SPECIFICATION FairSpec
CONSTANTS
  Books <- MCBooks
  MinQty = 2
  LotSize = 2
  SlippageBps = 500
  MaxSweepLevels = 3
  Ceiling = 90
  MaxSpread = 50
  MaxNotional = 86
  MaxHourly = 90
  MaxDaily = 100
  MaxTrades = 2
  MaxFailures = 2
  MaxUpsets = 3
INVARIANTS  FailsClosed
PROPERTIES BreakerRecovers
CHECK_DEADLOCK FALSE
