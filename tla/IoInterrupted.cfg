SPECIFICATION StructuresSpec
CONSTANTS
  b1 = b1
  b2 = b2
  f1 = f1
  f2 = f2
  Rings = {b1, b2}
  RingCap <- MCRingCap
  RingBytes = {0, 1}
  MaxBytes = 3
  DptCap = 3
  DptPages = {0, 1, 3, 5}
  Lsns = {5, 6}
  Tids = {1, 2, 3, 4}
  MinSize = 1
  MaxSize = 4
  MinLoad = 1
  MaxLoad = 2
  Work = 1
  BankCap = 9
  MaxNoMem = 1
  MaxScanned = 2
  IoThreads = {f1, f2}
  Base <- MCBase
  LoopsOf <- MCLoopsOf
  MaxLen = 3
  Interruptible = {"pread", "pwrite", "read", "write", "readv", "writev"}
  MaxTrouble = 1
  MaxTransfers = 2
  Word = 8
INVARIANT LoopAssertsHold
CHECK_DEADLOCK FALSE
