SPECIFICATION Spec
CONSTANTS
  good = good
  refused = refused
  released = released
  self = self
  Trades <- MCTrades
  SelfTrades = {self}
  Refused = {refused}
  Released = {released}
  RetryLimit = 2
  Log <- MCLog
  MaxFaults = 1
INVARIANT CommittedIsRegistered
CHECK_DEADLOCK FALSE
