\* Text of five characters in rings of two and words of three; builders of two
\* members and types of two levels; three calls of two threads, any of which may
\* fail, of which fsize is like read, and insert and remove are like write.
SPECIFICATION FrontSpec
CONSTANTS
 Chars = {"i", "x", "1", ".", "quote", "!", "=", ";", " "}
 CharCap = 2
 TokenCap = 2
 MaxStr = 3
 QSpace = 3
 MaxInt = 11
 OpCodes <- MCOpCodes
 Magic <- MCMagic
 FirstText <- MCFirstText
 MaxTyped = 5
 Prims = {23}
 Junk = {1, 5}
 LastPrim = 23
 Keys <- MCKeys
 Dims = {0, 300}
 BuilderCap = 2
 TypeBytes = 60
 MaxHeld = 4
 MaxBuilt = 2
 Threads = {t1, t2}
 Ops = {"get_id", "read", "write", "new", "delete", "begin_txn", "commit"}
 Trouble = {"io", "unflushed"}
 NCursors = 2
 MaxCalls = 3
 MaxUpdates = 2
SYMMETRY MCThreads
INVARIANTS
 FrontTypeOK
 ScansTokens
 TypesKept
 CursorsReturned
 EndedStays

\* Characters, types and calls run out.
CHECK_DEADLOCK FALSE
