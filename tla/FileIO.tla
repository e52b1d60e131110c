------------------------------ MODULE FileIO ------------------------------
(***************************************************************************)
(* The transfer loops of os_posix.c over a file that threads share: a      *)
(* system call moves any number of bytes up to what was asked for, meets   *)
(* the end of the file, is interrupted or fails, and the loop goes on      *)
(* until the whole buffer, or both buffers of an I/O vector, went through. *)
(* Threads keep to regions of their own, as pages do, and have descriptors *)
(* of their own; the file, its length included, is common.                 *)
(***************************************************************************)
EXTENDS SequencesExt

CONSTANTS IoThreads,      \* the callers
          Base,           \* thread -> where its region starts
          LoopsOf,        \* thread -> the loops it calls
          MaxLen,         \* length of a region and of the longest transfer
          Interruptible,  \* loops a signal may hit
          MaxTrouble,     \* interrupts and errors in a behaviour
          MaxTransfers,   \* transfers in a behaviour
          Word            \* 2^64 of the build, at a size TLC can count to

Loops       == {"pread", "pwrite", "read", "write", "readv", "writev"}
WriteLoops  == {"pwrite", "write", "writev"}
Positional  == {"pread", "pwrite"}
Vectored    == {"readv", "writev"}

ASSUME IoAssumption == /\ Base \in [IoThreads -> Nat] /\ MaxLen \in Nat \ {0} /\ Word > MaxLen
                       /\ Interruptible \subseteq Loops /\ LoopsOf \in [IoThreads -> SUBSET Loops]
                       /\ \A t, u \in IoThreads :
                            t # u => Base[t] + MaxLen <= Base[u] \/ Base[u] + MaxLen <= Base[t]

VARIABLES disk,    \* the bytes of the file
          pos,     \* thread -> file position of its descriptor
          io,      \* thread -> its transfer
          trouble, \* interrupts and errors still to come
          budget   \* transfers still to come

ioVars == <<disk, pos, io, trouble, budget>>

Old  == 9   \* a byte of the file from before
Hole == 0   \* a byte nobody wrote

\* The buffer of a vector is two pieces, the second in front of the first,
\* as a ring that wraps hands them over.
Vector(n, k) == <<[at |-> k + 1, len |-> n - k], [at |-> 1, len |-> k]>>
CellsIn(v)   == [j \in 1..v.len |-> v.at + j - 1]
CellsOf(iov) == CellsIn(iov[1]) \o CellsIn(iov[2])

\* The vector without its first k bytes: a piece that is used up stays, empty,
\* where the code drops it.
Cut(v, k) == [at |-> v.at + k, len |-> v.len - k]
Skip(iov, k) == IF k <= iov[1].len THEN <<Cut(iov[1], k), iov[2]>>
                ELSE <<Cut(iov[1], iov[1].len), Cut(iov[2], k - iov[1].len)>>

Busy(t)   == io[t].st = "run"
StartOf(t)  == io[t].start
Offset(t) == IF io[t].op \in Positional THEN StartOf(t) + io[t].done ELSE pos[t]
LeftOf(t)   == io[t].n - io[t].done

\* Memory cells the next k bytes are taken from or put in.
NextCells(t, k) == IF io[t].op \in Vectored THEN SubSeq(CellsOf(io[t].iov), 1, k)
              ELSE [j \in 1..k |-> io[t].done + j]

Region(t) == Base[t]..(Base[t] + MaxLen - 1)

StartTransfer(t, op, n, k) ==
  /\ ~Busy(t) /\ budget > 0 /\ budget' = budget - 1
  /\ op \notin Positional => pos[t] \in Region(t) /\ pos[t] + n <= Base[t] + MaxLen
  /\ op \in Vectored \/ k = 0
  /\ io' = [io EXCEPT ![t] =
       [op |-> op, n |-> n, done |-> 0, iov |-> Vector(n, k), plan |-> CellsOf(Vector(n, k)),
        start |-> IF op \in Positional THEN Base[t] ELSE pos[t],
        mem |-> [i \in 1..n |-> IF op \in WriteLoops THEN i ELSE Hole],
        st |-> "run", ret |-> 0]]
  /\ UNCHANGED <<disk, pos, trouble>>

\* Mutant: the vector starts over after a short transfer.
Bug_VectorStays(c, k) ==
  [c EXCEPT !.done = @ + k, !.st = IF c.done + k < c.n THEN "run" ELSE "done", !.ret = c.done + k]

\* The loop test: the call returns when everything went through.
Went(c, k) ==
  [c EXCEPT !.done = @ + k,
            !.iov  = IF c.op \in Vectored THEN Skip(@, k) ELSE @,
            !.st   = IF c.done + k < c.n THEN "run" ELSE "done",
            !.ret  = c.done + k]
Returns(c, value) == [c EXCEPT !.st = "done", !.ret = value]

Advance(t, k) == pos' = IF io[t].op \in Positional THEN pos ELSE [pos EXCEPT ![t] = @ + k]

\* The file after the bytes of s were written at an offset.
AfterWrite(off, s) ==
  [i \in 1..Max({Len(disk), off + Len(s)}) |->
     IF i \in (off + 1)..(off + Len(s)) THEN s[i - off] ELSE IF i <= Len(disk) THEN disk[i] ELSE Hole]

WriteSome(t) == \E k \in 1..LeftOf(t) :
  /\ Busy(t) /\ io[t].op \in WriteLoops
  /\ disk' = AfterWrite(Offset(t), [j \in 1..k |-> io[t].mem[NextCells(t, k)[j]]])
  /\ io' = [io EXCEPT ![t] = Went(@, k)]
  /\ Advance(t, k) /\ UNCHANGED <<trouble, budget>>

Received(t, k) ==
  [i \in DOMAIN io[t].mem |-> IF \E j \in 1..k : NextCells(t, k)[j] = i
                              THEN disk[Offset(t) + CHOOSE j \in 1..k : NextCells(t, k)[j] = i] ELSE io[t].mem[i]]

ReadSome(t) == \E k \in 1..LeftOf(t) :
  /\ Busy(t) /\ io[t].op \notin WriteLoops /\ Offset(t) + k <= Len(disk)
  /\ io' = [io EXCEPT ![t] = Went([@ EXCEPT !.mem = Received(t, k)], k)]
  /\ Advance(t, k) /\ UNCHANGED <<disk, trouble, budget>>

EndOfFile(t) ==
  /\ Busy(t) /\ io[t].op \notin WriteLoops /\ Offset(t) >= Len(disk)
  /\ io' = [io EXCEPT ![t] = Returns(@, @.done)]
  /\ UNCHANGED <<disk, pos, trouble, budget>>

\* EINTR: the vectored loops try again, i_read_all returns 0, and the others
\* add the -1 of the system call to an unsigned count.
CountedBack(c) == (c.done - 1) % Word
AfterSignal(c) ==
  IF c.op \in Vectored THEN c
  ELSE IF c.op = "read" THEN Returns(c, 0)
  ELSE IF CountedBack(c) < c.n THEN [c EXCEPT !.done = CountedBack(c)]
  ELSE [Returns(c, CountedBack(c)) EXCEPT !.done = CountedBack(c)]

Interrupted(t) ==
  /\ Busy(t) /\ io[t].op \in Interruptible /\ trouble > 0 /\ trouble' = trouble - 1
  /\ io' = [io EXCEPT ![t] = AfterSignal(@)]
  /\ UNCHANGED <<disk, pos, budget>>

Failed(t) ==
  /\ Busy(t) /\ trouble > 0 /\ trouble' = trouble - 1
  /\ io' = [io EXCEPT ![t] = Returns(@, -1)]
  /\ UNCHANGED <<disk, pos, budget>>

i_seek(t) ==
  /\ ~Busy(t)
  /\ \E p \in {Base[t], Len(disk)} \cap Region(t) : pos' = [pos EXCEPT ![t] = p]
  /\ io' = [io EXCEPT ![t].st = "idle"] /\ UNCHANGED <<disk, trouble, budget>>

\* Between the calls of every thread, as the restart and the log reader do.
i_truncate(len) ==
  /\ \A t \in IoThreads : ~Busy(t)
  /\ disk' = [i \in 1..len |-> IF i <= Len(disk) THEN disk[i] ELSE Hole]
  /\ io' = [t \in IoThreads |-> [io[t] EXCEPT !.st = "idle"]]
  /\ UNCHANGED <<pos, trouble, budget>>

FileInit ==
  /\ \E t \in IoThreads, len \in 0..MaxLen : disk = [i \in 1..(Base[t] + len) |-> Old]
  /\ pos = Base
  /\ io = [t \in IoThreads |-> [op |-> "pread", n |-> 0, done |-> 0, iov |-> << >>, plan |-> << >>,
                                start |-> 0, mem |-> << >>, st |-> "idle", ret |-> 0]]
  /\ trouble = MaxTrouble /\ budget = MaxTransfers

FileNext ==
  \/ \E t \in IoThreads :
       \/ \E op \in LoopsOf[t], n \in 1..MaxLen : \E k \in 0..(n - 1) : StartTransfer(t, op, n, k)
       \/ WriteSome(t) \/ ReadSome(t) \/ EndOfFile(t) \/ Interrupted(t) \/ Failed(t) \/ i_seek(t)
  \/ \E len \in {0} \cup {Base[t] + MaxLen - 1 : t \in IoThreads} : i_truncate(len)

FileSpec == FileInit /\ [][FileNext]_ioVars
-----------------------------------------------------------------------------
FileTypeOK ==
  /\ disk \in Seq(0..9) /\ pos \in [IoThreads -> Nat] /\ trouble \in 0..MaxTrouble
  /\ budget \in 0..MaxTransfers
  /\ \A t \in IoThreads : io[t].op \in Loops /\ io[t].st \in {"idle", "run", "done"}

Returned(t) == io[t].st = "done" /\ io[t].ret >= 0

\* A transfer that returned moved each byte once, to its place, however the
\* system calls cut it, whatever the other threads did, and with a vector in
\* two pieces: a write left the whole buffer in the file, a read that returns
\* n filled exactly the first n cells and left the position behind them.
TransfersAreWhole ==
  \A t \in IoThreads : Returned(t) =>
    /\ \A i \in 1..io[t].n :
         IF io[t].op \in WriteLoops \/ i <= io[t].ret
         THEN io[t].mem[io[t].plan[i]] = disk[StartOf(t) + i]
         ELSE io[t].mem[io[t].plan[i]] = Hole
    /\ io[t].op \notin Positional => pos[t] = StartOf(t) + io[t].ret

\* ASSERT (nread == n) and ASSERT (nwrite == n) behind the loops.
LoopAssertsHold ==
  \A t \in IoThreads : Returned(t) /\ io[t].op \in WriteLoops \cup {"pread"} => io[t].ret <= io[t].n
=============================================================================
