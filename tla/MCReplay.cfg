\* Lost and swapped lines.
CONSTANTS
  Tapes <- MCTapes
  Rates = {"drop", "transpose"}
  Skews = {}
  Tolerance = 1
  Capacity = 2
  DegradeNs = 2
  DedupCapacity = 2
  OrderId = {1, 2, 3}
  Participant = {1}
  Price = {1, 2}
  NoPrice = NoPrice
  RepairRounds = 64
  MaxOrders = 3
  ReplayOrders = 3
  Requests <- MCRequests
  MaxTs = 3
  MaxLines = 4
  Watched = "A"
SPECIFICATION ConsoleSpec
INVARIANTS
  SameBookAsDetectors
  WindowsAreSampled
\* The request has been answered.
CHECK_DEADLOCK FALSE
