SPECIFICATION Spec

CONSTANTS
  NPages   = 2
  Vals     = {v1}
  InitVal  = v0
  MaxTid   = 3
  MaxLog   = 13
  MaxCrash = 1

INVARIANT
  LosersUndone

CHECK_DEADLOCK FALSE
