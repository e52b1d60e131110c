\* No upgrades and no failing i_thread_create: everyone who waits comes back.
SPECIFICATION SyncFairSpec
CONSTANTS
  Latchers = {t1, t2, t3}
  Upgraders = {}
  CountMask = 7
  Lockers = {g1, g2, g3}
  MaxCalls = 1
  Workers = {w1, w2}
  Producers = {p1, p2}
  Size = 1
  MaxAdds = 1
  MaxSpins = 1
  CreateCanFail = FALSE
PROPERTIES
  PendingGetsLatch
  LockReturns
  QueuedTaskRuns
  StopReturns
\* The calls of the lock and the tasks of the pool run out.
CHECK_DEADLOCK FALSE
