SPECIFICATION Spec
CONSTANTS
  bid = bid
  retry = retry
  ask = ask
  Orders <- MCTwins
  Key <- MCTwinsKey
  Side <- MCTwinsSide
  Qty <- MCTwinsQty
  MMOrders = {}
  Registered = {}
  Immediate = {bid}
  Instances = {i1}
  MayReject = TRUE
  MaxFaults = 2
INVARIANT OneOrderPerKey
CHECK_DEADLOCK FALSE
