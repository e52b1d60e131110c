\* Two pages; the closed database of Init has 9 records.
SPECIFICATION CkptSpec
CONSTRAINT Explored
ACTION_CONSTRAINT AgainInUndo
CONSTANTS
  NPages   = 2
  Vals     = {v1}
  InitVal  = v0
  MaxTid   = 4
  MaxLog   = 14
  MaxCrash = 2
PROPERTY
  UndoRestores
\* Crashes and room in the log run out.
CHECK_DEADLOCK FALSE
