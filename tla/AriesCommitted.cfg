SPECIFICATION CommitSpec

CONSTANTS
  NPages   = 2
  Vals     = {v1}
  InitVal  = v0
  MaxTid   = 4
  MaxLog   = 13
  MaxCrash = 1

INVARIANT
  CommittedStays

CHECK_DEADLOCK FALSE
