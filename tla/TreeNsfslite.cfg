\* The requests of MCRptCursor as nsfslite makes them.
SPECIFICATION MCSpec
CONSTANTS
  MaxKeys = 6
  LeafSize = 4
  StackSize = 5
  NupdSize = 16
  Nsfslite = TRUE
  NoRequest = NoRequest
  MaxOps = 3
  MaxSteps = 250
  Requests <- MCRequests
INVARIANT
  RequestsFinish
