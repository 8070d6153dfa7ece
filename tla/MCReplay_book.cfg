\* Doubled lines: the replay shows them twice, the engine does not apply them twice.
CONSTANTS
  Tapes <- MCTapes
  Rates = {"duplicate"}
  Skews = {}
  Tolerance = 1
  Capacity = 2
  DegradeNs = 2
  DedupCapacity = 2
  OrderId = {1, 2, 3}
  Participant = {1}
  Price = {1, 2}
  NoPrice = NoPrice
  RepairRounds = 64
  MaxOrders = 3
  ReplayOrders = 3
  Requests <- MCRequests
  MaxTs = 3
  MaxLines = 8
  Watched = "A"
SPECIFICATION ConsoleSpec
INVARIANTS
  SameBookAsDetectors
\* The request has been answered.
CHECK_DEADLOCK FALSE
