------------------------------ MODULE WalStream ------------------------------
(***************************************************************************)
(* The bytes of the write-ahead log (wal.c, wal_file.c, wal_ostream.c,     *)
(* wal_istream.c): threads append records field by field to a buffer that  *)
(* is written to the file when it is full or flushed, a reader cuts what   *)
(* it takes for a torn tail off the file, and a crash keeps any prefix     *)
(* that contains what was synced.                                          *)
(*                                                                         *)
(* A record is a type, a body of two cells and a checksum of two; a cell   *)
(* is <<record, index>>.  The writer appends the fields 1, 2, 3 and 4..5;  *)
(* the reader reads 1, then 2..3, then 4..5.  A cell is the unit a crash   *)
(* can tear a write at, and a checksum that fits fits its record.          *)
(***************************************************************************)
EXTENDS Integers, Sequences, FiniteSets

CONSTANTS Threads,   \* threads that append to the log and flush it
          Cap,       \* WAL_BUFFER_CAP, in cells
          MaxRecs,   \* records appended in all
          MaxCrash,  \* crashes
          LiveReads  \* whether records are read while the log is open (pgr_rollback)

ASSUME ThreadsAssumption == IsFiniteSet(Threads)
ASSUME CapAssumption     == Cap \in Nat /\ Cap >= 2
ASSUME BoundsAssumption  == MaxRecs \in Nat /\ MaxCrash \in Nat
ASSUME ReadsAssumption   == LiveReads \in BOOLEAN

RecLen == 5
Recs   == 1..MaxRecs
Hole   == <<0, 0>>      \* a byte that was never written
Fields == << <<1>>, <<2>>, <<3>>, <<4, 5>> >>

VARIABLES file,     \* the cells of the log file
          synced,   \* how many of them are on the disk
          offset,   \* file offset of w->fd of the output stream
          buffer,   \* w->buffer
          flushed,  \* w->flushed_lsn
          latched,  \* w->l of the output stream is taken
          wpc,       \* thread -> what it does next
          next,     \* thread -> the field it writes next
          target,   \* thread -> the lsn it flushes to
          towrite,  \* thread -> cells it has written to the file and not yet consumed
          writer,   \* the thread in walf_write (it has the latch of struct wal) or <<>>
          record,   \* the last record begun
          lsnOf,    \* record -> what walf_write returns for it, or -1
          log,      \* cells that were found in the file or appended, in order
          durable,  \* records appended before a wal_flush_all that returned
          promised, \* thread -> records appended when it called wal_flush_all
          crashes,
          failed    \* "no", or why the log cannot be used: "assert", "corrupt"

stream == <<file, synced, offset, buffer, flushed, latched>>
local  == <<wpc, next, target, towrite, promised>>
vars   == <<stream, local, writer, record, lsnOf, log, durable, crashes, failed>>

Init ==
  /\ file = <<>> /\ synced = 0 /\ offset = 0
  /\ buffer = <<>> /\ flushed = 0 /\ latched = FALSE
  /\ wpc = [t \in Threads |-> "idle"]
  /\ next = [t \in Threads |-> 1]
  /\ target = [t \in Threads |-> 0]
  /\ towrite = [t \in Threads |-> 0]
  /\ promised = [t \in Threads |-> {}]
  /\ writer = <<>> /\ record = 0
  /\ lsnOf = [r \in Recs |-> -1]
  /\ log = <<>> /\ durable = {}
  /\ crashes = 0 /\ failed = "no"

Running == failed = "no"

\* walos_get_next_lsn: it takes no latch.
Bug_FlushedOnly == flushed
NextLsn         == flushed + Len(buffer)

-----------------------------------------------------------------------------
(* walf_write, under the latch of struct wal *)

WriteCall(t) ==
  /\ Running
  /\ wpc[t] = "idle" /\ writer = <<>>
  /\ record < MaxRecs
  /\ writer' = <<t>>
  /\ record' = record + 1
  /\ lsnOf' = [lsnOf EXCEPT ![record + 1] = NextLsn]
  /\ wpc' = [wpc EXCEPT ![t] = "field"]
  /\ next' = [next EXCEPT ![t] = 1]
  /\ UNCHANGED <<stream, target, towrite, promised, log, durable, crashes, failed>>

Bug_NextRecord(f) == [i \in DOMAIN Fields[f] |-> <<record + 1, Fields[f][i]>>]
Cells(f)          == [i \in DOMAIN Fields[f] |-> <<record, Fields[f][i]>>]

Fits(f) == Cap - Len(buffer) >= Len(Fields[f])

\* walos_write_all with no room left: it flushes what there is, under its latch.
Overflow(t) ==
  /\ Running
  /\ wpc[t] = "field" /\ ~latched
  /\ ~Fits(next[t])
  /\ latched' = TRUE
  /\ target' = [target EXCEPT ![t] = NextLsn]
  /\ wpc' = [wpc EXCEPT ![t] = "write_inner"]
  /\ UNCHANGED <<file, synced, offset, buffer, flushed, next, towrite, promised, writer,
                 record, lsnOf, log, durable, crashes, failed>>

\* The field goes to the buffer and the latch is released.  The thread has the
\* latch, or had it until its own flush released it ("store").
PutField(t) ==
  /\ Running
  /\ \/ wpc[t] = "field" /\ ~latched
     \/ wpc[t] = "store"
  /\ Fits(next[t])
  /\ buffer' = buffer \o Cells(next[t])
  /\ log' = log \o Cells(next[t])
  /\ latched' = FALSE
  /\ IF next[t] < Len(Fields)
       THEN /\ next' = [next EXCEPT ![t] = @ + 1]
            /\ wpc' = [wpc EXCEPT ![t] = "field"]
            /\ UNCHANGED writer
       ELSE /\ wpc' = [wpc EXCEPT ![t] = "idle"]
            /\ writer' = <<>>
            /\ UNCHANGED next
  /\ UNCHANGED <<file, synced, offset, flushed, target, towrite, promised, record, lsnOf,
                 durable, crashes, failed>>

-----------------------------------------------------------------------------
(* walos_flush_to_impl *)

\* The records of this run of the program that are complete.
Appended == {r \in Recs : lsnOf[r] >= 0 /\ (writer # <<>> => r # record)}

\* walos_flush_all computes what to flush to before it asks for the latch.  As a
\* bound, it is called only when a record is left to be made durable.
FlushCall(t) ==
  /\ Running
  /\ wpc[t] = "idle"
  /\ Appended \ durable # {}
  /\ target' = [target EXCEPT ![t] = NextLsn]
  /\ promised' = [promised EXCEPT ![t] = Appended]
  /\ wpc' = [wpc EXCEPT ![t] = "lock"]
  /\ UNCHANGED <<stream, next, towrite, writer, record, lsnOf, log, durable, crashes,
                 failed>>

FlushLock(t) ==
  /\ Running
  /\ wpc[t] = "lock" /\ ~latched
  /\ latched' = TRUE
  /\ wpc' = [wpc EXCEPT ![t] = "write"]
  /\ failed' = IF target[t] > NextLsn THEN "assert" ELSE failed
  /\ UNCHANGED <<file, synced, offset, buffer, flushed, next, target, towrite, promised,
                 writer, record, lsnOf, log, durable, crashes>>

\* What a write of cells at the offset of the descriptor makes of the file.
Overwrite(cells) ==
  [i \in 1..(IF offset + Len(cells) > Len(file) THEN offset + Len(cells) ELSE Len(file)) |->
     IF i > offset /\ i <= offset + Len(cells) THEN cells[i - offset]
     ELSE IF i <= Len(file) THEN file[i] ELSE Hole]

Inner(t) == wpc[t] \in {"write_inner", "consume_inner", "count_inner", "sync_inner"}
Then(t, outer, inner) == [wpc EXCEPT ![t] = IF Inner(t) THEN inner ELSE outer]

\* cbuffer_write_to_file_1_expect
FlushWrite(t) ==
  /\ Running
  /\ wpc[t] \in {"write", "write_inner"}
  /\ IF target[t] > flushed
       THEN /\ file' = Overwrite(buffer)
            /\ offset' = offset + Len(buffer)
            /\ towrite' = [towrite EXCEPT ![t] = Len(buffer)]
            /\ wpc' = Then(t, "consume", "consume_inner")
       ELSE /\ wpc' = Then(t, "sync", "sync_inner")
            /\ UNCHANGED <<file, offset, towrite>>
  /\ UNCHANGED <<synced, buffer, flushed, latched, next, target, promised, writer, record,
                 lsnOf, log, durable, crashes, failed>>

\* cbuffer_write_to_file_2, which asserts that so much is in the buffer.
FlushConsume(t) ==
  /\ Running
  /\ wpc[t] \in {"consume", "consume_inner"}
  /\ IF towrite[t] > Len(buffer)
       THEN /\ failed' = "assert"
            /\ UNCHANGED buffer
       ELSE /\ buffer' = SubSeq(buffer, towrite[t] + 1, Len(buffer))
            /\ UNCHANGED failed
  /\ wpc' = Then(t, "count", "count_inner")
  /\ UNCHANGED <<file, synced, offset, flushed, latched, next, target, towrite, promised,
                 writer, record, lsnOf, log, durable, crashes>>

Bug_CountsTarget(t) == target[t]
NewFlushed(t)       == flushed + towrite[t]

FlushCount(t) ==
  /\ Running
  /\ wpc[t] \in {"count", "count_inner"}
  /\ flushed' = NewFlushed(t)
  /\ wpc' = Then(t, "sync", "sync_inner")
  /\ UNCHANGED <<file, synced, offset, buffer, latched, next, target, towrite, promised,
                 writer, record, lsnOf, log, durable, crashes, failed>>

Bug_NoSync == synced
Synced     == Len(file)

\* i_fsync, and the latch is released: also when walos_write_all had taken it.
FlushSync(t) ==
  /\ Running
  /\ wpc[t] \in {"sync", "sync_inner"}
  /\ synced' = Synced
  /\ latched' = FALSE
  /\ wpc' = Then(t, "idle", "store")
  /\ durable' = IF Inner(t) THEN durable ELSE durable \cup promised[t]
  /\ UNCHANGED <<file, offset, buffer, flushed, next, target, towrite, promised, writer,
                 record, lsnOf, log, crashes, failed>>

-----------------------------------------------------------------------------
(* The reader *)

RecordAt(f, p) ==
  /\ p + RecLen <= Len(f)
  /\ f[p + 1][2] = 1
  /\ \A i \in 1..RecLen : f[p + i] = <<f[p + 1][1], i>>

\* What walf_read and walf_pread make of the file from offset p on: "eof" leaves
\* the file as it is, "torn" cuts it at p.  A short read of nothing at all is
\* "eof", wherever in the record it comes.
ReadAt(f, p) ==
  LET left == Len(f) - p IN
  IF RecordAt(f, p) THEN "record"
  ELSE IF left > 0 /\ f[p + 1][2] # 1 THEN "corrupt"
  ELSE IF left \in {0, 1, 3} THEN "eof"
  ELSE IF left < RecLen THEN "torn"
  ELSE "corrupt"

\* Record r is whole in the file f.
Holds(f, r) == \E p \in 0..Len(f) : RecordAt(f, p) /\ f[p + 1][1] = r

Cut(f, p) == IF ReadAt(f, p) = "torn" THEN SubSeq(f, 1, p) ELSE f

\* The record that pgr_rollback undoes is read back through another descriptor.
LiveRead(t, r) ==
  /\ LiveReads /\ Running
  /\ wpc[t] = "idle" /\ writer = <<>>
  /\ r \in Appended /\ lsnOf[r] <= Len(file)
  /\ file' = Cut(file, lsnOf[r])
  /\ synced' = IF file' = file THEN synced ELSE Len(file')
  /\ UNCHANGED <<offset, buffer, flushed, latched, local, writer, record, lsnOf, log,
                 durable, crashes, failed>>

\* A crash keeps what was synced and perhaps more.  The restart reads the log
\* from its start; its first write opens the output stream at the end of the file.
Kept(n) == SubSeq(file, 1, n)

FirstBad(f) ==
  CHOOSE p \in {RecLen * k : k \in 0..Len(f)} :
     /\ ~RecordAt(f, p)
     /\ \A k \in 0..Len(f) : RecLen * k < p => RecordAt(f, RecLen * k)

Crash(n) ==
  /\ Running
  /\ crashes < MaxCrash
  /\ n \in synced..Len(file)
  /\ LET end  == FirstBad(Kept(n))
         read == ReadAt(Kept(n), end)
         cut  == Cut(Kept(n), end)
     IN /\ file' = cut
        /\ log' = cut
        /\ synced' = Len(cut) /\ offset' = Len(cut) /\ flushed' = Len(cut)
        /\ failed' = IF read = "corrupt" THEN "corrupt" ELSE "no"
        /\ lsnOf' = [r \in Recs |-> IF Holds(cut, r) THEN lsnOf[r] ELSE -1]
  /\ buffer' = <<>> /\ latched' = FALSE /\ writer' = <<>>
  /\ wpc' = [t \in Threads |-> "idle"]
  /\ crashes' = crashes + 1
  /\ UNCHANGED <<next, target, towrite, promised, record, durable>>

-----------------------------------------------------------------------------
Step(t) == \/ WriteCall(t) \/ Overflow(t) \/ PutField(t)
           \/ FlushCall(t) \/ FlushLock(t) \/ FlushWrite(t) \/ FlushConsume(t)
           \/ FlushCount(t) \/ FlushSync(t)
           \/ \E r \in Recs : LiveRead(t, r)

Next == \/ \E t \in Threads : Step(t)
        \/ \E n \in 0..Len(file) : Crash(n)

Spec == Init /\ [][Next]_vars

TypeOK ==
  /\ file \in Seq((0..MaxRecs) \X (0..RecLen)) /\ buffer \in Seq(Recs \X (1..RecLen))
  /\ log \in Seq(Recs \X (1..RecLen))
  /\ Len(buffer) <= Cap
  /\ synced \in 0..Len(file) /\ offset \in Nat /\ flushed \in Nat
  /\ latched \in BOOLEAN
  /\ wpc \in [Threads -> {"idle", "field", "store", "lock", "write", "consume", "count",
                         "sync", "write_inner", "consume_inner", "count_inner",
                         "sync_inner"}]
  /\ next \in [Threads -> 1..Len(Fields)]
  /\ target \in [Threads -> Nat] /\ towrite \in [Threads -> 0..Cap]
  /\ promised \in [Threads -> SUBSET Recs] /\ durable \subseteq Recs
  /\ writer \in {<<>>} \cup {<<t>> : t \in Threads}
  /\ record \in 0..MaxRecs
  /\ lsnOf \in [Recs -> Nat \cup {-1}]
  /\ crashes \in 0..MaxCrash
  /\ failed \in {"no", "assert", "corrupt"}

\* Between two flushes the file and the buffer hold what was appended, each cell
\* once and in order, however appends and flushes interleave.
LogIsWhatWasAppended ==
  (~latched /\ Running) => SubSeq(file, 1, flushed) \o buffer = log

\* A record that was appended before a wal_flush_all that returned SUCCESS is
\* whole on the disk, before and after a crash (pgr_commit relies on it).
FlushedStays == \A r \in durable : Holds(SubSeq(file, 1, synced), r)

\* walf_write returns the offset at which the record is: page LSNs, prev LSNs and
\* the master LSN are made of it ("Append that update to the wal and get it's
\* lsn", pager.c:1227).
LsnIsPosition ==
  \A r \in Recs : \A p \in 1..Len(log) : log[p] = <<r, 1>> /\ lsnOf[r] >= 0 => lsnOf[r] = p - 1

\* The log is what was appended, in order, and what a flush reported written stays
\* through a crash (wal_ostream.c:139, pgr_commit).
LogKept == LogIsWhatWasAppended /\ FlushedStays

\* cbuffer_write_to_file_2 and walos_flush_to_impl find in the buffer what they
\* assert is there.
AssertsHold == failed # "assert"

\* A restart can read the log again: what a crash tore is cut off ("Truncate to
\* where this record started", wal_istream.c:135).
LogIsReadable == failed # "corrupt"
===============================================================================
