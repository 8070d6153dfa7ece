\* All four defects: timestamps contradict sequence numbers too.  The memory is
\* the least that reaches a copy, Capacity + 2; with one id less TLC finds an
\* event applied twice.
CONSTANTS
  Length = 4
  MaxTs = 1
  Rates = {"drop", "duplicate", "transpose", "skew"}
  Tolerance = 1
  Capacity = 1
  DegradeNs = 2
  DedupCapacity = 3
  Tapes <- MCTapes
  Skews <- MCSkews
SPECIFICATION FeedFairSpec
INVARIANTS
  DamageIsReported
  NeverAppliedTwice
PROPERTIES
  EveryLineIsSettled
\* The program ends when the tape has been flushed.
CHECK_DEADLOCK FALSE
