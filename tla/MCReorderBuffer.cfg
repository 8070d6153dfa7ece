\* Four lines, timestamps 0..3 around a tolerance of 2, room for two.
CONSTANTS
  MaxTs = 3
  MaxSeq = 2
  Tolerance = 2
  Capacity = 2
  MaxLines = 4
  Event <- MCEvent
SPECIFICATION FairSpec
INVARIANTS
  TypeOK
  ReleasedInOrder
  EachLineOnce
  Bounded
PROPERTIES
  ToleranceHonoured
  HeldIsReleased
\* The program ends when the tape has been flushed.
CHECK_DEADLOCK FALSE
