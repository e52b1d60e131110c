SPECIFICATION Spec
CONSTANTS
  Threads = {t1}
  Cap = 20
  MaxRecs = 3
  MaxCrash = 2
  LiveReads = FALSE
INVARIANTS
  LogIsReadable
CHECK_DEADLOCK FALSE
