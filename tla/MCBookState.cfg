\* Four orders of two participants on two prices; room for three of them.  One
\* round of repair: one that must discard two levels gives up with the book
\* crossed, and the next event has it go on.
CONSTANTS
  o1 = o1
  o2 = o2
  o3 = o3
  o4 = o4
  p1 = p1
  p2 = p2
  NoPrice = NoPrice
  OrderId = {o1, o2, o3, o4}
  Participant = {p1, p2}
  Price = {1, 2}
  Quantity <- SignedQuantity
  MaxOrders = 3
  RepairRounds = 1
  MaxTs = 1
  MaxEvents = 4
SYMMETRY BookSymmetry
SPECIFICATION BookSpec
INVARIANTS
  BookTypeOK
  AggregatesAgree
  CrossedOnlyWhenExhausted
  OrdersAccounted
  FillsWithinOriginal
  CapRespected
PROPERTIES
  FreshOrderSurvives
\* The tape ends.
CHECK_DEADLOCK FALSE
