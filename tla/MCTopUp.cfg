SPECIFICATION TopUpSpec
CONSTANTS
  o1 = o1
  o2 = o2
  again = again
  w1 = w1
  w2 = w2
  None = None
  Orders <- MCOrders
  Key <- MCOrdersKey
  Amount <- MCOrdersAmount
  Limit = 10
  Workers = {w1, w2}
  LastTime = 2
  MaxFaults = 1
INVARIANTS QuotaBacked CreditedOrRefunded
 
CHECK_DEADLOCK FALSE
