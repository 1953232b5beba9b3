SPECIFICATION BookSpec
CONSTANTS
  o1 = o1
  o2 = o2
  o3 = o3
  NoOrder = NoOrder
  Orders <- MCOrders
  Specs <- MCSpecs
  TickSize = 2
  LotSize = 1
  RingCapacity = 2
  MaxRedeliveries = 1
  MaxRestarts = 1
SYMMETRY MCSymmetry
INVARIANTS BookSound
PROPERTIES FillsInOrder
CHECK_DEADLOCK FALSE
