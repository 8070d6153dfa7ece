\* Three events of two symbols, a scan every two ticks, a memory of one id.
CONSTANTS
  e1 = e1
  e2 = e2
  Eids = {e1, e2}
  Symbols = {"A", "B"}
  p1 = p1
  Participant = {p1}
  MaxTs = 4
  MaxSeq = 3
  Wait = 1
  Pause = 3
  DegradeNs = 1
  DedupCapacity = 1
  ScanInterval = 2
  History = 5
  MaxEvents = 3
  Event <- MCEvent
  Detector <- MCDetector
  Delay <- MCDelay
  Cooldown <- MCCooldown
SYMMETRY EidSymmetry
SPECIFICATION PipeSpec
INVARIANTS
  GuardTypeOK
  NoDuplicateInHorizon
  SequenceAccounted
  CooldownSpacing
  DeferredAreJudged
  MarksAreEarned
  ScanSeesThePast
PROPERTIES
  DegradedExactly
  JudgedAtMostOnce
\* The tape ends.
CHECK_DEADLOCK FALSE
