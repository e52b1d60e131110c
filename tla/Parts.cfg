\* Three latch calls that may all upgrade; three threads with two calls of
\* the granular lock each; a pool of two workers and two producers; three records
\* of five cells, with room for all of them in the buffer of "threads" and for
\* little more than one in that of "alone"; four frames, which two handles and
\* the root page fill, and a file of up to four pages.
SPECIFICATION PartsSpec
CONSTANTS
  Latchers = {t1, t2, t3}
  Upgraders = {t1, t2, t3}
  CountMask = 7
  Lockers = {g1, g2, g3}
  MaxCalls = 2
  Workers = {w1, w2}
  Producers = {p1, p2}
  Size = 2
  MaxAdds = 2
  MaxSpins = 2
  CreateCanFail = TRUE
  Threads = {t1, t2}
  Cap = 20
  MaxRecs = 3
  MaxCrash = 1
  LiveReads = FALSE
  SmallCap = 6
  Alone = t1
  NFrames = 4
  Handles = {h1, h2}
  MaxPages = 4
  MaxRecords = 4
  MaxBufFails = 1
  MaxPageCalls = 12
INVARIANTS
  PartsTypeOK
  Exclusion
  HoldersCompatible
  NoLostWakeup
  LsnOfOneThread
  StopDrains
  LogKept
  FramesAccounted
  PagesServed
  FreeListExact
\* Calls, tasks, records, crashes and failures run out.
CHECK_DEADLOCK FALSE
