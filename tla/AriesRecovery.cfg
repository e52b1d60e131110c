\* Three pages; the closed database of Init has 11 records, so 17 leave room for six calls
\* (for four in the scenes with more actions).
SPECIFICATION RecoverySpec
CONSTANTS
  NPages   = 3
  Vals     = {v1}
  InitVal  = v0
  MaxTid   = 4
  MaxLog   = 17
  MaxCrash = 2
INVARIANTS
  TypeOK
  WalRule
  PageLsnNamesContent
  HistoryRepeated
  CommitDurable
  RollbackChain
PROPERTY
  RollbackRestores
\* Crashes and room in the log run out.
CHECK_DEADLOCK FALSE
