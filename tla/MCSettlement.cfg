SPECIFICATION FairSpec
CONSTANTS
  good = good
  refused = refused
  released = released
  self = self
  Trades <- MCTrades
  SelfTrades = {self}
  Refused = {refused}
  Released = {released}
  RetryLimit = 2
  Log <- MCLog
  MaxFaults = 3
INVARIANTS StatusTruthful
PROPERTIES PendingResolves
CHECK_DEADLOCK FALSE
