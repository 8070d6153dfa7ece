\* The contract of detector.hpp:130-134, which an event on a scan boundary breaks.
CONSTANTS
  e1 = e1
  e2 = e2
  e3 = e3
  Eids = {e1, e2, e3}
  Symbols = {"A"}
  p1 = p1
  Participant = {p1}
  MaxTs = 4
  MaxSeq = 3
  Wait = 1
  Pause = 3
  DegradeNs = 1
  DedupCapacity = 2
  ScanInterval = 2
  History = 5
  MaxEvents = 2
  Event <- MCEvent
  Detector <- MCDetector
  Delay <- MCDelay
  Cooldown <- MCCooldown
SYMMETRY EidSymmetry
SPECIFICATION PipeSpec
INVARIANTS
  EveryEventIsJudged
CHECK_DEADLOCK FALSE
