SPECIFICATION Spec
CONSTANTS
  mm = mm
  u1 = u1
  u2 = u2
  o1 = o1
  o2 = o2
  o3 = o3
  t1 = t1
  t2 = t2
  t3 = t3
  d1 = d1
  base = base
  quote = quote
  MM = mm
  Base = base
  Quote = quote
  Users <- MCUsers
  Orders <- MCOrders
  TradeIds <- MCTradeIds
  DepositIds = {d1}
  Seed <- MCSeed
  MMSeed <- MCMMSeed
  QuoteScale = 2
  ReserveReqs <- MCReserveReqs
  DepositReqs <- MCDepositReqs
  SettleReqs <- MCSettleReqs
  FreezeReqs <- MCFreezeReqs
INVARIANTS Conserved SuccessMeansSettled
PROPERTIES FundsFollowOrders
CHECK_DEADLOCK FALSE
