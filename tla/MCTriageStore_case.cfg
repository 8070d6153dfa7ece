\* Case creation against a rebuild that outlasts the busy timeout, and a crash.
CONSTANTS
  t1 = t1
  t2 = t2
  Thread = {t1, t2}
  Run = {1, 2}
  AlertsOf <- MCAlertsOf
  Request <- CaseRequests
  FaultyKinds = {}
  SlowRebuild = TRUE
  MaxRequests = 1
  MaxRebuilds = 2
  MaxCrashes = 1
SYMMETRY ThreadSymmetry
SPECIFICATION StoreSpec
INVARIANTS
  CasesAreWhole
\* The analysts may go home.
CHECK_DEADLOCK FALSE
