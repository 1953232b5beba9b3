SPECIFICATION FairSpec
CONSTANTS
  bid = bid
  retry = retry
  ask = ask
  Orders <- MCPair
  Key <- MCPairKey
  Side <- MCPairSide
  Qty <- MCPairQty
  MMOrders = {ask}
  Registered = {ask}
  Immediate = {}
  Instances = {i1}
  MayReject = FALSE
  MaxFaults = 1
INVARIANTS FilledOnce ReleasesTruthful
PROPERTIES OrdersProgress
CHECK_DEADLOCK FALSE
