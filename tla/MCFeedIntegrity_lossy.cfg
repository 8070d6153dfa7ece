\* Lost, doubled and swapped lines, with the least memory there is.
CONSTANTS
  Length = 4
  MaxTs = 3
  Rates = {"drop", "duplicate", "transpose"}
  Tolerance = 1
  Capacity = 1
  DegradeNs = 2
  DedupCapacity = 1
  Tapes <- MCTapes
  Skews <- MCSkews
SPECIFICATION FeedSpec
INVARIANTS
  MissingIsExact
PROPERTIES
  AppliesSurvivorsInOrder
\* The program ends when the tape has been flushed.
CHECK_DEADLOCK FALSE
