\* A transaction of one client: an edit that succeeds, then one that fails.
SPECIFICATION NsfsSpec
CONSTANTS
 Threads = {t1}
 Ops = {"write", "begin_txn", "commit"}
 Trouble = {}
 NCursors = 2
 MaxCalls = 3
 MaxUpdates = 2
INVARIANTS FailedEditUndone
CHECK_DEADLOCK FALSE
