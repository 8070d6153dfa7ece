\* The claim of feed_integrity.hpp:11-13, which a later gap after a quiet spell breaks.
CONSTANTS
  e1 = e1
  e2 = e2
  e3 = e3
  Eids = {e1, e2, e3}
  Symbols = {"A"}
  p1 = p1
  Participant = {p1}
  MaxTs = 8
  MaxSeq = 3
  Wait = 1
  Pause = 3
  DegradeNs = 1
  DedupCapacity = 2
  ScanInterval = 1
  History = 3
  MaxEvents = 3
  Event <- MCEvent
  Detector <- MCDetector
  Delay <- MCDelay
  Cooldown <- MCCooldown
SYMMETRY EidSymmetry
SPECIFICATION PipeSpec
INVARIANTS
  GapsMark
CHECK_DEADLOCK FALSE
