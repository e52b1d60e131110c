SPECIFICATION CkptSpec

CONSTANTS
  NPages   = 2
  Vals     = {v1}
  InitVal  = v0
  MaxTid   = 4
  MaxLog   = 12
  MaxCrash = 1

INVARIANT
  OpenSucceeds

CHECK_DEADLOCK FALSE
