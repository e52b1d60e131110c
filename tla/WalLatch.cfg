SPECIFICATION Spec
CONSTANTS
  Threads = {t1, t2}
  Cap = 4
  MaxRecs = 2
  MaxCrash = 0
  LiveReads = FALSE
INVARIANTS
  AssertsHold
CHECK_DEADLOCK FALSE
