\* Two pages; one client transaction besides those of the restarts.
SPECIFICATION FairSpec
CONSTANTS
  NPages   = 2
  Vals     = {v1}
  InitVal  = v0
  MaxTid   = 3
  MaxLog   = 13
  MaxCrash = 2
PROPERTIES
  ImplementsStore
  RestartTerminates
\* Crashes and room in the log run out.
CHECK_DEADLOCK FALSE
