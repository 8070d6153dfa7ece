\* Two threads, three requests, two rebuilds that may be slow, a crash.
CONSTANTS
  t1 = t1
  t2 = t2
  Thread = {t1, t2}
  Run = {1, 2}
  AlertsOf <- MCAlertsOf
  Request <- AllRequests
  FaultyKinds = {"state", "insert", "link", "update", "attach", "commit"}
  SlowRebuild = TRUE
  MaxRequests = 3
  MaxRebuilds = 2
  MaxCrashes = 1
SYMMETRY ThreadSymmetry
SPECIFICATION StoreSpec
INVARIANTS
  AnsweredWritesLast
  LinksHaveTheirCase
  AnswersShowTheWrite
  NoLockLeftBehind
PROPERTIES
  CommittedWorkStays
\* The analysts may go home.
CHECK_DEADLOCK FALSE
