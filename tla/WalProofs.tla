------------------------------ MODULE WalProofs ------------------------------
(***************************************************************************)
(* Theorems about the stream of the write-ahead log, for any number of     *)
(* threads, records, crashes and cells of buffer.                          *)
(*                                                                         *)
(* They assume that one thread at a time uses the log, as the callers of   *)
(* nsfslite do, or that the buffer has room for all that is appended:      *)
(* otherwise an append that overflows the buffer releases the latch that   *)
(* another thread has taken since, and the assertions of the flush fail.   *)
(* A record that is read back while the log is open is another matter: the *)
(* reader may cut the file at what another thread is still writing, or at  *)
(* what an overflow left half written.  One thread with room in the buffer *)
(* does neither.                                                           *)
(***************************************************************************)
EXTENDS WalStream, SequenceTheorems, WellFoundedInduction, TLAPS

Sole  == \E t \in Threads : Threads = {t}
Roomy == Cap >= RecLen * MaxRecs

Cell == Recs \X (1..RecLen)

\* Where a thread is in walos_flush_to_impl.
Writing   == {"write", "write_inner"}
Consuming == {"consume", "consume_inner"}
Counting  == {"count", "count_inner"}
Flushing  == Writing \cup Consuming \cup Counting \cup {"sync", "sync_inner"}
Inside    == {"store", "write_inner", "consume_inner", "count_inner", "sync_inner"}
Written   == {"consume", "count", "sync"}

\* One thread at a time flushes, with the latch, and one appends; an append that
\* overflows is never beside another thread.
Places ==
  /\ \A t \in Threads : wpc[t] \in Flushing => latched
  /\ \A t, u \in Threads : wpc[t] \in Flushing /\ wpc[u] \in Flushing => t = u
  /\ \A t \in Threads : wpc[t] \in Inside \cup {"field"} <=> writer = <<t>>
  /\ \A t \in Threads : wpc[t] \in Inside => Sole

\* The file is the beginning of the log and the buffer its end.
Parts ==
  /\ file \in Seq(Cell) /\ buffer \in Seq(Cell) /\ log \in Seq(Cell)
  /\ offset = Len(file) /\ synced <= Len(file)
  /\ Len(file) <= Len(log) /\ Len(buffer) <= Len(log)
  /\ \A i \in 1..Len(file) : file[i] = log[i]
  /\ \A i \in 1..Len(buffer) : buffer[i] = log[Len(log) - Len(buffer) + i]

\* They meet at flushed_lsn, but for a thread in the middle of a flush.
Meet ==
  /\ (\A t \in Threads : wpc[t] \notin Consuming \cup Counting)
       => flushed = Len(file) /\ Len(file) + Len(buffer) = Len(log)
  /\ \A t \in Threads : wpc[t] \in Consuming =>
       /\ Len(file) = Len(log) /\ towrite[t] = Len(buffer)
       /\ flushed + Len(buffer) = Len(log)
  /\ \A t \in Threads : wpc[t] \in Counting =>
       /\ Len(file) = Len(log) /\ buffer = <<>> /\ flushed + towrite[t] = Len(log)

\* Record r begins at p in the cells f, and is whole in the first n of them.
Begins(f, r, p)   == \A i \in 1..RecLen : f[p + i] = <<r, i>>
WholeIn(f, r, n) == \E p \in 0..Len(f) :
                       p + RecLen <= n /\ p + RecLen <= Len(f) /\ Begins(f, r, p)
Whole(r, n)      == WholeIn(log, r, n)

\* The record under way is at the end of the log, as far as it was put.
UnderWay(t) ==
  writer = <<t>> =>
    /\ record \in Recs
    /\ next[t] - 1 <= Len(log)
    /\ \A i \in 1..(next[t] - 1) : log[Len(log) - (next[t] - 1) + i] = <<record, i>>

\* What a flush has promised is before its target or in the file, and in the file
\* when it has written; what it reported is synced.
Records ==
  /\ \A t \in Threads : UnderWay(t)
  /\ \A r \in Appended : Whole(r, Len(log))
  /\ \A t \in Threads : wpc[t] \in {"lock", "write"} =>
       \A r \in promised[t] : Whole(r, target[t]) \/ Whole(r, Len(file))
  /\ \A t \in Threads : wpc[t] \in Written => \A r \in promised[t] : Whole(r, Len(file))
  /\ \A r \in durable : Whole(r, synced)

\* No more is in the buffer than was begun.
Room == /\ writer = <<>> => Len(buffer) <= RecLen * record
        /\ \A t \in Threads :
             writer = <<t>> => Len(buffer) <= RecLen * (record - 1) + (next[t] - 1)

Targets == \A t \in Threads : wpc[t] = "lock" => target[t] <= Len(log)

WInv == TypeOK /\ Places /\ Parts /\ Meet /\ Records /\ Room /\ Targets /\ AssertsHold

\* Of one thread: an LSN is where its record is, or will be.
Positions ==
  /\ \A p \in 1..Len(log) : log[p][1] <= record
  /\ \A t \in Threads : writer = <<t>> /\ next[t] = 1 =>
       /\ lsnOf[record] = Len(log)
       /\ \A p \in 1..Len(log) : log[p][1] # record

SoleInv == WInv /\ Positions /\ LsnIsPosition

-----------------------------------------------------------------------------
(* Lemmas: prefixes, and records in sequences of cells. *)

LEMMA Prefix ==
  ASSUME NEW S, NEW s \in Seq(S), NEW n \in 0..Len(s)
  PROVE  /\ SubSeq(s, 1, n) \in Seq(S)
         /\ Len(SubSeq(s, 1, n)) = n
         /\ \A i \in 1..n : SubSeq(s, 1, n)[i] = s[i]
<1>1. Len(s) \in Nat
  BY LenProperties
<1>2. \A i \in 1..n : s[i] \in S
  <2>1. TAKE i \in 1..n
  <2>2. i \in 1..Len(s)
    BY <1>1
  <2>3. QED BY <2>2, ElementOfSeq
<1>3. /\ SubSeq(s, 1, n) \in Seq(S)
      /\ Len(SubSeq(s, 1, n)) = IF 1 <= n THEN n - 1 + 1 ELSE 0
      /\ \A i \in 1..n - 1 + 1 : SubSeq(s, 1, n)[i] = s[1 + i - 1]
  BY <1>1, <1>2, SubSeqProperties
<1>4. \A i \in 1..n : SubSeq(s, 1, n)[i] = s[i]
  <2>1. TAKE i \in 1..n
  <2>2. i \in 1..n - 1 + 1 /\ 1 + i - 1 = i
    BY <1>1
  <2>3. QED BY <1>3, <2>2
<1>5. QED BY <1>1, <1>3, <1>4

\* A set of numbers that is not empty has a least one.
LEMMA LeastNat ==
  ASSUME NEW B \in SUBSET Nat, B # {}
  PROVE  \E k \in B : \A j \in B : k <= j
<1> DEFINE R == OpToRel(<, Nat)
<1>1. R = {ss \in Nat \X Nat : ss[1] < ss[2]}
  BY DEF OpToRel
<1>2. PICK k \in B : \A j \in B : ~ (<<j, k>> \in R)
  BY NatLessThanWellFounded, WFMin
<1> HIDE DEF R
<1>3. \A i, j \in Nat : i < j => <<i, j>> \in R
  BY <1>1
<1>4. \A j \in B : k <= j
  <2>1. TAKE j \in B
  <2>2. ~(j < k)
    BY <1>2, <1>3, Zenon
  <2>3. QED BY <2>2
<1>5. QED BY <1>4

\* A record that is whole stays whole when cells are appended or more are counted.
LEMMA WholeStays ==
  ASSUME NEW S, NEW f \in Seq(S), NEW g \in Seq(S), NEW r, NEW n \in Int, NEW m \in Int,
         Len(f) <= Len(g), \A i \in 1..Len(f) : g[i] = f[i],
         n <= m \/ Len(f) <= m,
         WholeIn(f, r, n)
  PROVE  WholeIn(g, r, m)
<1>1. Len(f) \in Nat /\ Len(g) \in Nat
  BY LenProperties
<1>2. PICK p \in 0..Len(f) : p + RecLen <= n /\ p + RecLen <= Len(f) /\ Begins(f, r, p)
  BY DEF WholeIn
<1>3. Begins(g, r, p)
  <2>1. SUFFICES ASSUME NEW i \in 1..RecLen PROVE g[p + i] = <<r, i>>
    BY DEF Begins
  <2>2. f[p + i] = <<r, i>>
    BY <1>2 DEF Begins
  <2>3. p + i \in 1..Len(f)
    BY <1>1, <1>2 DEF RecLen
  <2>4. QED BY <2>2, <2>3
<1>4. p + RecLen <= m /\ p + RecLen <= Len(g) /\ p \in 0..Len(g)
  BY <1>1, <1>2 DEF RecLen
<1>5. QED BY <1>3, <1>4 DEF WholeIn

\* What the reader takes for a record is one.
LEMMA RecordBegins ==
  ASSUME NEW f, NEW p \in Nat
  PROVE  RecordAt(f, p) <=> p + RecLen <= Len(f) /\ Begins(f, f[p + 1][1], p)
<1>1. Begins(f, f[p + 1][1], p) => f[p + 1][2] = 1
  <2>1. SUFFICES ASSUME Begins(f, f[p + 1][1], p) PROVE f[p + 1][2] = 1
    OBVIOUS
  <2>2. f[p + 1] = <<f[p + 1][1], 1>>
    BY <2>1 DEF Begins, RecLen
  <2>3. QED BY <2>2
<1>2. QED BY <1>1 DEF RecordAt, Begins

LEMMA BeginsRecord ==
  ASSUME NEW f, NEW p \in Nat, NEW r, Begins(f, r, p)
  PROVE  f[p + 1] = <<r, 1>> /\ f[p + 1][1] = r
BY DEF Begins, RecLen

\* The restart looks for the first record that is not whole, and finds one.
LEMMA FirstBadFound ==
  ASSUME NEW S, NEW f \in Seq(S)
  PROVE  \E k \in Nat :
           /\ FirstBad(f) = RecLen * k /\ RecLen * k <= Len(f)
           /\ ~RecordAt(f, RecLen * k)
           /\ \A j \in Nat : j < k => RecordAt(f, RecLen * j)
<1> DEFINE Bad == {k \in 0..Len(f) : ~RecordAt(f, RecLen * k)}
           Is(p) == /\ p \in {RecLen * k : k \in 0..Len(f)}
                    /\ ~RecordAt(f, p)
                    /\ \A k \in 0..Len(f) : RecLen * k < p => RecordAt(f, RecLen * k)
<1>1. Len(f) \in Nat
  BY LenProperties
<1>2. Len(f) \in Bad
  BY <1>1 DEF RecordAt, RecLen
<1>3. PICK k \in Bad : \A j \in Bad : k <= j
  <2>1. Bad \in SUBSET Nat /\ Bad # {}
    BY <1>1, <1>2
  <2>2. QED BY <2>1, LeastNat
<1>4. Is(RecLen * k)
  BY <1>1, <1>3 DEF RecLen
<1>5. Is(FirstBad(f))
  BY <1>4 DEF FirstBad
<1>6. PICK m \in 0..Len(f) : FirstBad(f) = RecLen * m
  BY <1>5
<1>7. \A j \in Nat : j < m => RecordAt(f, RecLen * j)
  BY <1>1, <1>5, <1>6 DEF RecLen
<1>8. RecLen * m <= Len(f)
  <2>1. CASE m = 0
    BY <1>1, <2>1 DEF RecLen
  <2>2. CASE m >= 1
    <3>1. m - 1 \in Nat /\ RecLen * (m - 1) + RecLen = RecLen * m
      BY <1>1, <2>2 DEF RecLen
    <3>2. RecordAt(f, RecLen * (m - 1))
      BY <1>1, <1>7, <2>2, <3>1
    <3>3. QED BY <3>1, <3>2 DEF RecordAt
  <2>3. QED BY <1>1, <2>1, <2>2
<1>9. QED BY <1>1, <1>5, <1>6, <1>7, <1>8

-----------------------------------------------------------------------------
(* What the conjuncts of the invariant come to for a thread that moves. *)

LEMMA Lengths ==
  ASSUME Parts
  PROVE  Len(file) \in Nat /\ Len(buffer) \in Nat /\ Len(log) \in Nat
BY LenProperties DEF Parts

LEMMA TheWriter ==
  ASSUME TypeOK, Places, NEW t \in Threads
  PROVE  /\ writer = <<>> => wpc[t] \notin Inside \cup {"field"}
         /\ writer = <<t>> => \A u \in Threads : writer = <<u>> => u = t
BY DEF Places

\* Nobody is in the middle of a flush when the latch is free or t alone flushes.
LEMMA Unlatched ==
  ASSUME Places, Meet, ~latched
  PROVE  flushed = Len(file) /\ Len(file) + Len(buffer) = Len(log)
BY DEF Places, Meet, Flushing, Writing, Consuming, Counting

LEMMA Alone ==
  ASSUME Places, Meet, NEW t \in Threads, wpc[t] \in Inside, wpc[t] \notin Consuming \cup Counting
  PROVE  flushed = Len(file) /\ Len(file) + Len(buffer) = Len(log)
<1>1. \A u \in Threads : u = t
  BY DEF Places, Sole
<1>2. QED BY <1>1 DEF Meet

LEMMA TheFlusher ==
  ASSUME Places, NEW t \in Threads, wpc[t] \in Flushing
  PROVE  latched /\ \A u \in Threads : u # t => wpc[u] \notin Flushing
BY DEF Places

\* A record that is whole in the log stays so when more of it is counted.
LEMMA CountsMore ==
  ASSUME Parts, NEW r, NEW n \in Int, NEW m \in Int,
         n <= m \/ Len(log) <= m, Whole(r, n)
  PROVE  Whole(r, m)
BY WholeStays DEF Parts, Whole

-----------------------------------------------------------------------------
(* Every action keeps the invariant. *)

LEMMA WriteCallKeeps ==
  ASSUME WInv, NEW t \in Threads, WriteCall(t)
  PROVE  WInv'
<1> USE DEF WInv
<1>1. TypeOK'
  <2>1. NextLsn \in Nat
    BY Lengths DEF TypeOK, NextLsn
  <2>2. record + 1 \in Recs /\ record' \in 0..MaxRecs
    BY BoundsAssumption DEF TypeOK, WriteCall, Recs
  <2>3. lsnOf' \in [Recs -> Nat \cup {-1}]
    BY <2>1, <2>2 DEF TypeOK, WriteCall
  <2>4. QED BY <2>2, <2>3 DEF TypeOK, WriteCall, stream, Fields
<1>2. Places'
  BY TheWriter DEF TypeOK, Places, WriteCall, stream, Inside, Flushing, Writing, Consuming, Counting
<1>3. Parts'
  BY DEF Parts, WriteCall, stream
<1>4. Meet'
  BY DEF TypeOK, Meet, WriteCall, stream, Consuming, Counting
<1>5. Records'
  <2>1. \A u \in Threads : UnderWay(u)'
    BY Lengths, BoundsAssumption DEF TypeOK, UnderWay, WriteCall, stream, Recs
  <2>2. \A r \in Appended' : Whole(r, Len(log))'
    <3>1. Appended' \subseteq Appended
      BY DEF TypeOK, Appended, WriteCall, Recs
    <3>2. QED BY <3>1 DEF Records, Whole, WriteCall
  <2>3. \A u \in Threads : wpc'[u] \in {"lock", "write"} \cup Written => wpc'[u] = wpc[u]
    BY DEF TypeOK, WriteCall, Written
  <2>4. \A r \in durable' : Whole(r, synced)'
    BY DEF Records, Whole, WriteCall, stream
  <2>5. QED BY <2>1, <2>2, <2>3, <2>4 DEF Records, Whole, WriteCall, stream
<1>6. Room'
  BY TheWriter, Lengths DEF TypeOK, Room, WriteCall, stream, RecLen
<1>7. Targets'
  BY DEF TypeOK, Targets, WriteCall, stream
<1>8. AssertsHold'
  BY DEF AssertsHold, WriteCall
<1>9. QED BY <1>1, <1>2, <1>3, <1>4, <1>5, <1>6, <1>7, <1>8

\* The fields of a record that are not written yet have room in the rest of it.
LEMMA FieldLengths ==
  ASSUME NEW f \in 1..4
  PROVE  Len(Fields[f]) \in Nat /\ Len(Fields[f]) <= RecLen - (f - 1)
<1>1. CASE f < 4
  <2>1. Fields[f] = <<f>>
    BY <1>1 DEF Fields
  <2>2. Len(Fields[f]) = 1
    BY <2>1
  <2>3. QED BY <1>1, <2>2 DEF RecLen
<1>2. CASE f = 4
  <2>1. Fields[f] = <<4, 5>>
    BY <1>2 DEF Fields
  <2>2. Len(Fields[f]) = 2
    BY <2>1
  <2>3. QED BY <1>2, <2>2 DEF RecLen
<1>3. QED BY <1>1, <1>2

LEMMA NoOverflow ==
  ASSUME WInv, Roomy, NEW t \in Threads
  PROVE  ~Overflow(t)
<1> SUFFICES ASSUME Overflow(t) PROVE FALSE
  OBVIOUS
<1> USE DEF WInv
<1>1. writer = <<t>>
  BY DEF Places, Overflow
<1>2. QED
  <2>1. next[t] \in 1..4 /\ Cap \in Nat /\ MaxRecs \in Nat /\ record \in 0..MaxRecs
    BY CapAssumption, BoundsAssumption DEF TypeOK, Fields
  <2>2. Len(buffer) <= RecLen * (record - 1) + (next[t] - 1)
    BY <1>1 DEF Room
  <2>3. Len(Fields[next[t]]) <= RecLen - (next[t] - 1)
    BY <2>1, FieldLengths
  <2>4. Len(Fields[next[t]]) \in Nat
    BY <2>1, FieldLengths
  <2>5. Cap - Len(buffer) < Len(Fields[next[t]])
    BY <2>1, <2>4, Lengths DEF Overflow, Fits
  <2>6. Cap < RecLen * MaxRecs
    BY <2>1, <2>2, <2>3, <2>4, <2>5, Lengths DEF RecLen
  <2>7. QED BY <2>1, <2>6 DEF Roomy, RecLen

LEMMA OverflowKeeps ==
  ASSUME WInv, Sole \/ Roomy, NEW t \in Threads, Overflow(t)
  PROVE  WInv'
<1> USE DEF WInv
<1>1. writer = <<t>>
  BY DEF Places, Overflow
<1>2. Sole
  BY NoOverflow
<1>3. \A u \in Threads : u = t
  BY <1>2 DEF Sole
<1>4. flushed = Len(file) /\ Len(file) + Len(buffer) = Len(log)
  BY Unlatched DEF Overflow
<1>5. TypeOK'
  <2>1. NextLsn \in Nat
    BY Lengths DEF TypeOK, NextLsn
  <2>2. QED BY <2>1 DEF TypeOK, Overflow
<1>6. Places'
  BY <1>1, <1>2, <1>3 DEF TypeOK, Places, Overflow, Sole, Inside, Flushing, Writing, Consuming,
                          Counting
<1>7. Parts'
  BY DEF Parts, Overflow
<1>8. Meet'
  BY <1>3, <1>4 DEF TypeOK, Meet, Overflow, Consuming, Counting
<1>9. Records'
  <2>1. \A u \in Threads : UnderWay(u)'
    BY DEF UnderWay, Records, Overflow
  <2>2. Appended' = Appended
    BY DEF Appended, Overflow
  <2>3. \A u \in Threads : wpc'[u] \notin {"lock", "write"} \cup Written
    BY <1>3 DEF TypeOK, Overflow, Written
  <2>4. QED BY <2>1, <2>2, <2>3 DEF Records, Whole, Overflow, Written
<1>10. Room'
  BY DEF Room, Overflow
<1>11. Targets'
  BY <1>3 DEF TypeOK, Targets, Overflow
<1>12. AssertsHold'
  BY DEF AssertsHold, Overflow
<1>13. QED BY <1>5, <1>6, <1>7, <1>8, <1>9, <1>10, <1>11, <1>12

\* The cells of a field continue the record.
LEMMA FieldCells ==
  ASSUME NEW f \in 1..4, record \in Recs
  PROVE  \E n \in 1..2 :
           /\ Len(Cells(f)) = n /\ Len(Fields[f]) = n
           /\ (f < 4 => n = 1) /\ (f = 4 => n = 2)
           /\ Cells(f) \in Seq(Cell)
           /\ \A i \in 1..n : Cells(f)[i] = <<record, f - 1 + i>>
<1>1. CASE f < 4
  <2>1. Fields[f] = <<f>>
    BY <1>1 DEF Fields
  <2>2. DOMAIN Fields[f] = 1..1 /\ Fields[f][1] = f
    BY <2>1
  <2>3. Cells(f) = [i \in 1..1 |-> <<record, f>>]
    BY <2>2 DEF Cells
  <2>4. <<record, f>> \in Cell
    BY <1>1 DEF Cell, RecLen
  <2>5. Cells(f) \in Seq(Cell) /\ Len(Cells(f)) = 1
    BY <2>3, <2>4
  <2>6. \A i \in 1..1 : Cells(f)[i] = <<record, f - 1 + i>>
    BY <1>1, <2>3
  <2>7. Len(Fields[f]) = 1
    BY <2>1
  <2>8. QED BY <1>1, <2>5, <2>6, <2>7
<1>2. CASE f = 4
  <2>1. Fields[f] = <<4, 5>>
    BY <1>2 DEF Fields
  <2>2. DOMAIN Fields[f] = 1..2 /\ Fields[f][1] = 4 /\ Fields[f][2] = 5
    BY <2>1
  <2>3. Cells(f) = [i \in 1..2 |-> <<record, 3 + i>>]
    BY <2>2 DEF Cells
  <2>4. \A i \in 1..2 : <<record, 3 + i>> \in Cell
    BY DEF Cell, RecLen
  <2>5. Cells(f) \in Seq(Cell) /\ Len(Cells(f)) = 2
    BY <2>3, <2>4
  <2>6. \A i \in 1..2 : Cells(f)[i] = <<record, f - 1 + i>>
    BY <1>2, <2>3
  <2>7. Len(Fields[f]) = 2
    BY <2>1
  <2>8. QED BY <1>2, <2>5, <2>6, <2>7
<1>3. QED BY <1>1, <1>2

\* Appending keeps what there was and puts the rest after it.
LEMMA Joined ==
  ASSUME NEW S, NEW s \in Seq(S), NEW c \in Seq(S), NEW n \in Nat, Len(c) = n
  PROVE  /\ s \o c \in Seq(S)
         /\ Len(s \o c) = Len(s) + n
         /\ \A i \in 1..Len(s) : (s \o c)[i] = s[i]
         /\ \A i \in 1..n : (s \o c)[Len(s) + i] = c[i]
<1>1. /\ s \o c \in Seq(S) /\ Len(s \o c) = Len(s) + Len(c)
      /\ \A i \in 1..Len(s) + Len(c) : (s \o c)[i] = IF i <= Len(s) THEN s[i] ELSE c[i - Len(s)]
  BY ConcatProperties
<1>2. Len(s) \in Nat
  BY LenProperties
<1>3. QED BY <1>1, <1>2

LEMMA PutFieldKeeps ==
  ASSUME WInv, NEW t \in Threads, PutField(t)
  PROVE  WInv'
<1> USE DEF WInv
<1>1. writer = <<t>> /\ \A u \in Threads : u # t => writer # <<u>>
  BY TheWriter DEF Places, PutField, Inside
<1>2. flushed = Len(file) /\ Len(file) + Len(buffer) = Len(log)
  BY Unlatched, Alone DEF PutField, Inside, Consuming, Counting
<1>3. next[t] \in 1..4 /\ record \in Recs /\ UnderWay(t)
  BY <1>1 DEF TypeOK, Records, UnderWay, Fields
<1>4. PICK f \in 1..4, l \in Nat, b \in Nat, k \in Nat :
        f = next[t] /\ l = Len(log) /\ b = Len(buffer) /\ k = Len(file)
  BY <1>3, Lengths
<1>5. PICK n \in 1..2, c \in Seq(Cell) :
        /\ c = Cells(f) /\ Len(c) = n /\ Len(Fields[f]) = n
        /\ (f < 4 => n = 1) /\ (f = 4 => n = 2)
        /\ \A i \in 1..n : c[i] = <<record, f - 1 + i>>
  BY <1>3, FieldCells
<1>6. f - 1 <= l /\ \A i \in 1..f - 1 : log[l - (f - 1) + i] = <<record, i>>
  BY <1>1, <1>3, <1>4 DEF UnderWay
<1>7. /\ log' \in Seq(Cell) /\ Len(log') = l + n
      /\ \A i \in 1..l : log'[i] = log[i]
      /\ \A i \in 1..n : log'[l + i] = <<record, f - 1 + i>>
  <2>1. log \in Seq(Cell) /\ log' = log \o c
    BY <1>4, <1>5 DEF Parts, PutField
  <2>2. /\ log \o c \in Seq(Cell) /\ Len(log \o c) = Len(log) + n
        /\ \A i \in 1..Len(log) : (log \o c)[i] = log[i]
        /\ \A i \in 1..n : (log \o c)[Len(log) + i] = c[i]
    BY <1>5, <2>1, Joined
  <2>3. QED BY <1>4, <1>5, <2>1, <2>2
<1>8. /\ buffer' \in Seq(Cell) /\ Len(buffer') = b + n /\ b + n <= Cap
      /\ \A i \in 1..b : buffer'[i] = buffer[i]
      /\ \A i \in 1..n : buffer'[b + i] = <<record, f - 1 + i>>
  <2>1. buffer \in Seq(Cell) /\ buffer' = buffer \o c
    BY <1>4, <1>5 DEF Parts, PutField
  <2>2. b + n <= Cap
    BY <1>4, <1>5, CapAssumption DEF PutField, Fits
  <2>3. /\ buffer \o c \in Seq(Cell) /\ Len(buffer \o c) = Len(buffer) + n
        /\ \A i \in 1..Len(buffer) : (buffer \o c)[i] = buffer[i]
        /\ \A i \in 1..n : (buffer \o c)[Len(buffer) + i] = c[i]
    BY <1>5, <2>1, Joined
  <2>4. QED BY <1>4, <1>5, <2>1, <2>2, <2>3
<1>9. /\ UNCHANGED <<file, synced, offset, flushed, target, towrite, promised, record, lsnOf,
                     durable, crashes, failed>>
      /\ latched' = FALSE
  BY DEF PutField
<1>10. \/ /\ f = 4 /\ n = 2 /\ writer' = <<>> /\ next' = next
          /\ wpc' = [wpc EXCEPT ![t] = "idle"]
       \/ /\ f < 4 /\ n = 1 /\ writer' = <<t>> /\ next' = [next EXCEPT ![t] = f + 1]
          /\ wpc' = [wpc EXCEPT ![t] = "field"]
  <2>1. Len(Fields) = 4
    BY DEF Fields
  <2>2. CASE f = 4
    BY <1>4, <1>5, <2>1, <2>2 DEF PutField
  <2>3. CASE f < 4
    BY <1>1, <1>4, <1>5, <2>1, <2>3 DEF PutField
  <2>4. QED BY <2>2, <2>3
<1>11. /\ \A u \in Threads : u # t => wpc'[u] = wpc[u] /\ next'[u] = next[u]
       /\ wpc'[t] \in {"idle", "field"}
       /\ f < 4 => wpc'[t] = "field" /\ next'[t] = f + 1
       /\ f = 4 => wpc'[t] = "idle"
  BY <1>10 DEF TypeOK
<1>12. wpc[t] \notin Flushing
  <2>1. wpc[t] = "store" \/ wpc[t] = "field"
    BY DEF PutField
  <2>2. QED BY <2>1 DEF Flushing, Writing, Consuming, Counting
<1>13. \A u \in Threads : wpc[u] \notin Flushing
  <2>1. CASE wpc[t] = "store"
    <3>1. \A u \in Threads : u = t
      BY <2>1 DEF Places, Sole, Inside
    <3>2. QED BY <3>1, <1>12
  <2>2. CASE ~latched
    BY <2>2 DEF Places
  <2>3. QED BY <2>1, <2>2 DEF PutField
<1>14. TypeOK'
  <2>1. log' \in Seq(Recs \X (1..RecLen)) /\ buffer' \in Seq(Recs \X (1..RecLen))
    BY <1>7, <1>8 DEF Cell
  <2>2. next' \in [Threads -> 1..Len(Fields)]
    <3>1. Len(Fields) = 4
      BY DEF Fields
    <3>2. CASE next' = next
      BY <3>2 DEF TypeOK
    <3>3. CASE f < 4 /\ next' = [next EXCEPT ![t] = f + 1]
      <4>1. f + 1 \in 1..4
        BY <3>3
      <4>2. next \in [Threads -> 1..4]
        BY <3>1 DEF TypeOK
      <4>3. QED BY <3>1, <3>3, <4>1, <4>2
    <3>4. QED BY <1>10, <3>2, <3>3
  <2>3. wpc' \in [Threads -> {"idle", "field", "store", "lock", "write", "consume", "count",
                         "sync", "write_inner", "consume_inner", "count_inner",
                         "sync_inner"}]
    BY <1>10 DEF TypeOK
  <2>4. Len(buffer') <= Cap
    BY <1>8
  <2>5. writer' \in {<<>>} \cup {<<u>> : u \in Threads}
    BY <1>10
  <2>6. QED BY <1>9, <2>1, <2>2, <2>3, <2>4, <2>5 DEF TypeOK
<1>15. Places'
  <2>1. \A u \in Threads : wpc'[u] \notin Flushing
    BY <1>11, <1>13 DEF Flushing, Writing, Consuming, Counting
  <2>2. \A u \in Threads : wpc'[u] \in Inside \cup {"field"} <=> writer' = <<u>>
    BY <1>1, <1>10, <1>11 DEF Places, Inside
  <2>3. \A u \in Threads : wpc'[u] \in Inside => Sole
    BY <1>11 DEF Places, Inside
  <2>4. QED BY <2>1, <2>2, <2>3 DEF Places, Sole
<1>16. Parts'
  <2>1. file \in Seq(Cell) /\ synced \in Nat /\ k <= l /\ b <= l
    BY <1>4 DEF Parts, TypeOK
  <2>2. \A i \in 1..Len(file) : file[i] = log'[i]
    BY <1>4, <1>7, <2>1 DEF Parts
  <2>3. \A i \in 1..(b + n) : buffer'[i] = log'[(l + n) - (b + n) + i]
    <3>1. SUFFICES ASSUME NEW i \in 1..(b + n) PROVE buffer'[i] = log'[l - b + i]
      BY <1>4, <1>5
    <3>2. CASE i <= b
      <4>1. i \in 1..b /\ l - b + i \in 1..l
        BY <2>1, <3>2
      <4>2. buffer[i] = log[l - b + i]
        BY <1>4, <4>1 DEF Parts
      <4>3. QED BY <1>7, <1>8, <4>1, <4>2
    <3>3. CASE i > b
      <4>1. PICK j \in 1..n : i = b + j
        <5>1. i - b \in 1..n /\ i = b + (i - b)
          BY <3>3
        <5>2. QED BY <5>1
      <4>2. l - b + i = l + j
        BY <4>1
      <4>3. QED BY <1>7, <1>8, <4>1, <4>2
    <3>4. QED BY <3>2, <3>3
  <2>4. Len(file) <= Len(log') /\ Len(buffer') <= Len(log')
    BY <1>4, <1>7, <1>8, <2>1
  <2>5. QED BY <1>7, <1>8, <1>9, <2>1, <2>2, <2>3, <2>4 DEF Parts
<1>17. Meet'
  <2>1. \A u \in Threads : wpc'[u] \notin Consuming \cup Counting
    BY <1>11, <1>13 DEF Flushing, Consuming, Counting
  <2>2. flushed' = Len(file') /\ Len(file') + Len(buffer') = Len(log')
    BY <1>2, <1>4, <1>7, <1>8, <1>9
  <2>3. QED BY <2>1, <2>2 DEF Meet
<1>18. Records'
  <2>1. \A r : \A i, j \in Int : (i <= j \/ l <= j) /\ Whole(r, i) => WholeIn(log', r, j)
    <3>1. log \in Seq(Cell) /\ Len(log) <= Len(log') /\ \A i \in 1..Len(log) : log'[i] = log[i]
      BY <1>4, <1>7 DEF Parts
    <3>2. QED BY <1>4, <1>7, <3>1, WholeStays DEF Whole
  <2>2. \A i \in 1..(f - 1 + n) : log'[l - (f - 1) + i] = <<record, i>>
    <3>1. TAKE i \in 1..(f - 1 + n)
    <3>2. CASE i <= f - 1
      <4>1. i \in 1..(f - 1) /\ l - (f - 1) + i \in 1..l
        BY <1>6, <3>2
      <4>2. QED BY <1>6, <1>7, <4>1
    <3>3. CASE i > f - 1
      <4>1. PICK j \in 1..n : i = f - 1 + j
        <5>1. i - (f - 1) \in 1..n /\ i = f - 1 + (i - (f - 1))
          BY <3>3
        <5>2. QED BY <5>1
      <4>2. l - (f - 1) + i = l + j
        BY <4>1
      <4>3. QED BY <1>7, <4>1, <4>2
    <3>4. QED BY <3>2, <3>3
  <2>3. \A u \in Threads : UnderWay(u)'
    <3>1. SUFFICES ASSUME f < 4, NEW u \in Threads, writer' = <<u>> PROVE UnderWay(u)'
      <4>1. CASE writer' = <<>>
        BY <4>1 DEF UnderWay
      <4>2. CASE f < 4
        BY <3>1, <4>2 DEF UnderWay
      <4>3. QED BY <1>10, <4>1, <4>2
    <3>2. u = t /\ n = 1 /\ next'[u] = f + 1
      BY <1>10, <1>11, <3>1
    <3>3. next'[u] - 1 = f /\ f <= l + n /\ l + n - f = l - (f - 1) /\ f - 1 + n = f
      BY <1>6, <3>2
    <3>4. \A i \in 1..f : log'[(l + n) - f + i] = <<record, i>>
      <4>1. TAKE i \in 1..f
      <4>2. i \in 1..(f - 1 + n) /\ (l + n) - f + i = l - (f - 1) + i
        BY <3>2
      <4>3. QED BY <2>2, <4>2
    <3>5. record' \in Recs /\ Len(log') = l + n /\ record' = record
      BY <1>3, <1>7, <1>9
    <3>6. /\ next'[u] - 1 <= Len(log')
          /\ \A i \in 1..(next'[u] - 1) : log'[Len(log') - (next'[u] - 1) + i] = <<record', i>>
      BY <3>3, <3>4, <3>5
    <3>7. QED BY <3>5, <3>6 DEF UnderWay
  <2>4. \A r \in Appended' : WholeIn(log', r, Len(log'))
    <3>1. SUFFICES ASSUME NEW r \in Appended' PROVE WholeIn(log', r, Len(log'))
      OBVIOUS
    <3>2. CASE r \in Appended
      <4>1. Whole(r, l) /\ l + n \in Int /\ l <= l + n
        BY <1>4, <3>2 DEF Records
      <4>2. QED BY <1>7, <2>1, <4>1
    <3>3. CASE r \notin Appended
      <4>1. f = 4 /\ n = 2 /\ r = record
        BY <1>1, <1>9, <1>10, <3>1, <3>3 DEF Appended
      <4>2. l - 3 \in 0..(l + n) /\ (l - 3) + RecLen = l + n /\ f - 1 + n = RecLen
        BY <1>6, <4>1 DEF RecLen
      <4>3. Begins(log', r, l - 3)
        BY <2>2, <4>1, <4>2 DEF Begins
      <4>4. QED BY <1>7, <4>2, <4>3 DEF WholeIn
    <3>4. QED BY <3>2, <3>3
  <2>5. \A u \in Threads : wpc'[u] \in {"lock", "write"} \cup Written => wpc'[u] = wpc[u]
    BY <1>11 DEF Written
  <2>6. \A u \in Threads : target[u] \in Int
    BY DEF TypeOK
  <2>7. \A u \in Threads : wpc'[u] \in {"lock", "write"} =>
          \A r \in promised[u] : WholeIn(log', r, target[u]) \/ WholeIn(log', r, Len(file))
    BY <1>4, <2>1, <2>5, <2>6 DEF Records
  <2>8. \A u \in Threads : wpc'[u] \in Written => \A r \in promised[u] : WholeIn(log', r, Len(file))
    BY <1>4, <2>1, <2>5 DEF Records
  <2>9. \A r \in durable : WholeIn(log', r, synced)
    <3>1. synced \in Int
      BY <1>4 DEF TypeOK
    <3>2. QED BY <2>1, <3>1 DEF Records
  <2>10. QED BY <1>9, <2>3, <2>4, <2>7, <2>8, <2>9 DEF Records, Whole
<1>19. Room'
  <2>1. b <= RecLen * (record - 1) + (f - 1) /\ record \in Nat
    BY <1>1, <1>4 DEF Room, TypeOK
  <2>2. CASE f = 4
    <3>1. b + n <= RecLen * record
      BY <1>5, <2>1, <2>2 DEF RecLen
    <3>2. writer' = <<>>
      BY <1>10, <2>2
    <3>3. QED BY <1>8, <1>9, <3>1, <3>2 DEF Room
  <2>3. CASE f < 4
    <3>1. b + n <= RecLen * (record - 1) + (f + 1 - 1)
      BY <1>5, <2>1, <2>3 DEF RecLen
    <3>2. writer' = <<t>> /\ next'[t] = f + 1 /\ \A u \in Threads : writer' = <<u>> => u = t
      BY <1>10, <1>11, <2>3
    <3>3. QED BY <1>8, <1>9, <3>1, <3>2 DEF Room
  <2>4. QED BY <2>2, <2>3
<1>20. Targets'
  <2>1. \A u \in Threads : target[u] \in Nat
    BY DEF TypeOK
  <2>2. \A u \in Threads : wpc'[u] = "lock" => target[u] <= l
    BY <1>4, <1>11 DEF Targets
  <2>3. QED BY <1>7, <1>9, <2>1, <2>2 DEF Targets
<1>21. AssertsHold'
  BY <1>9 DEF AssertsHold
<1>22. QED BY <1>14, <1>15, <1>16, <1>17, <1>18, <1>19, <1>20, <1>21

LEMMA FlushCallKeeps ==
  ASSUME WInv, NEW t \in Threads, FlushCall(t)
  PROVE  WInv'
<1> USE DEF WInv
<1>1. UNCHANGED <<stream, next, towrite, writer, record, lsnOf, log, durable, crashes, failed>>
  BY DEF FlushCall
<1>2. /\ wpc[t] = "idle" /\ wpc'[t] = "lock" /\ target'[t] = NextLsn /\ promised'[t] = Appended
      /\ \A u \in Threads : u # t => /\ wpc'[u] = wpc[u] /\ target'[u] = target[u]
                                     /\ promised'[u] = promised[u]
  BY DEF TypeOK, FlushCall
<1>3. NextLsn \in Nat /\ NextLsn <= Len(log) /\ (Len(log) <= NextLsn \/ Len(log) <= Len(file))
  <2>1. CASE \A u \in Threads : wpc[u] \notin Consuming \cup Counting
    BY <2>1, Lengths DEF Meet, NextLsn
  <2>2. CASE \E u \in Threads : wpc[u] \in Consuming
    BY <2>2, Lengths DEF Meet, NextLsn, TypeOK
  <2>3. CASE \E u \in Threads : wpc[u] \in Counting
    <3>1. PICK u \in Threads : wpc[u] \in Counting
      BY <2>3
    <3>2. /\ Len(file) = Len(log) /\ buffer = <<>> /\ flushed + towrite[u] = Len(log)
          /\ flushed \in Nat /\ towrite[u] \in Nat
      BY <3>1, CapAssumption DEF Meet, TypeOK
    <3>3. Len(buffer) = 0
      BY <3>2
    <3>4. QED BY <3>2, <3>3, Lengths DEF NextLsn
  <2>4. QED BY <2>1, <2>2, <2>3
<1>4. TypeOK'
  <2>1. target' \in [Threads -> Nat]
    BY <1>3 DEF TypeOK, FlushCall
  <2>2. Appended \subseteq Recs
    BY DEF Appended
  <2>3. QED BY <1>1, <2>1, <2>2 DEF TypeOK, FlushCall, stream
<1>5. Places'
  BY <1>1, <1>2 DEF Places, Sole, stream, Inside, Flushing, Writing, Consuming, Counting
<1>6. Parts'
  BY <1>1 DEF Parts, stream
<1>7. Meet'
  <2>1. \A u \in Threads : wpc'[u] \in Consuming \cup Counting
                             <=> wpc[u] \in Consuming \cup Counting
    BY <1>2 DEF Consuming, Counting
  <2>2. \A u \in Threads : /\ wpc'[u] \in Consuming => wpc[u] \in Consuming
                           /\ wpc'[u] \in Counting => wpc[u] \in Counting
    BY <1>2 DEF Consuming, Counting
  <2>3. QED BY <1>1, <2>1, <2>2 DEF Meet, stream
<1>8. Records'
  <2>1. \A u \in Threads : UnderWay(u)'
    BY <1>1 DEF UnderWay, Records
  <2>2. \A r \in Appended' : Whole(r, Len(log))'
    BY <1>1 DEF Appended, Records, Whole
  <2>3. \A r \in Appended : Whole(r, NextLsn) \/ Whole(r, Len(file))
    <3>1. Len(log) \in Int /\ Len(file) \in Int
      BY Lengths
    <3>2. QED BY <1>3, <3>1, CountsMore DEF Records
  <2>4. \A u \in Threads : wpc'[u] \in {"lock", "write"} =>
          \A r \in promised'[u] : Whole(r, target'[u]) \/ Whole(r, Len(file))
    BY <1>2, <2>3 DEF Records
  <2>5. \A u \in Threads : wpc'[u] \in Written => \A r \in promised'[u] : Whole(r, Len(file))
    BY <1>2 DEF Records, Written
  <2>6. QED BY <1>1, <2>1, <2>2, <2>4, <2>5 DEF Records, Whole, stream
<1>9. Room'
  BY <1>1 DEF Room, stream
<1>10. Targets'
  BY <1>1, <1>2, <1>3 DEF Targets
<1>11. AssertsHold'
  BY <1>1 DEF AssertsHold
<1>12. QED BY <1>4, <1>5, <1>6, <1>7, <1>8, <1>9, <1>10, <1>11

LEMMA FlushLockKeeps ==
  ASSUME WInv, NEW t \in Threads, FlushLock(t)
  PROVE  WInv'
<1> USE DEF WInv
<1>1. UNCHANGED <<file, synced, offset, buffer, flushed, next, target, towrite, promised,
                  writer, record, lsnOf, log, durable, crashes>>
  BY DEF FlushLock
<1>2. /\ wpc[t] = "lock" /\ wpc'[t] = "write"
      /\ \A u \in Threads : u # t => wpc'[u] = wpc[u]
  BY DEF TypeOK, FlushLock
<1>3. flushed = Len(file) /\ Len(file) + Len(buffer) = Len(log)
  BY Unlatched DEF FlushLock
<1>4. failed' = failed
  <2>1. target[t] <= Len(log) /\ target[t] \in Nat
    BY <1>2 DEF Targets, TypeOK
  <2>2. ~(target[t] > NextLsn)
    BY <1>3, <2>1, Lengths DEF NextLsn
  <2>3. QED BY <2>2 DEF FlushLock
<1>5. \A u \in Threads : wpc[u] \notin Flushing
  BY DEF Places, FlushLock
<1>6. TypeOK'
  BY <1>1, <1>4 DEF TypeOK, FlushLock
<1>7. Places'
  <2>1. \A u \in Threads : u # t => wpc'[u] \notin Flushing
    BY <1>2, <1>5
  <2>2. \A u \in Threads : wpc'[u] \in Inside \cup {"field"} <=> writer' = <<u>>
    BY <1>1, <1>2 DEF Places, Inside
  <2>3. \A u \in Threads : wpc'[u] \in Inside => Sole
    BY <1>2 DEF Places, Inside
  <2>4. QED BY <2>1, <2>2, <2>3 DEF Places, Sole, FlushLock
<1>8. Parts'
  BY <1>1 DEF Parts
<1>9. Meet'
  <2>1. \A u \in Threads : wpc'[u] \notin Consuming \cup Counting
    BY <1>2, <1>5 DEF Flushing, Consuming, Counting
  <2>2. QED BY <1>1, <1>3, <2>1 DEF Meet
<1>10. Records'
  <2>1. \A u \in Threads : UnderWay(u)'
    BY <1>1 DEF UnderWay, Records
  <2>2. \A r \in Appended' : Whole(r, Len(log))'
    BY <1>1 DEF Appended, Records, Whole
  <2>3. \A u \in Threads : /\ wpc'[u] \in {"lock", "write"} => wpc[u] \in {"lock", "write"}
                           /\ wpc'[u] \in Written => wpc[u] \in Written
    BY <1>2 DEF Written
  <2>4. QED BY <1>1, <2>1, <2>2, <2>3 DEF Records, Whole
<1>11. Room'
  BY <1>1 DEF Room
<1>12. Targets'
  BY <1>1, <1>2 DEF Targets
<1>13. AssertsHold'
  BY <1>4 DEF AssertsHold
<1>14. QED BY <1>6, <1>7, <1>8, <1>9, <1>10, <1>11, <1>12, <1>13

\* A beginning and an end that meet make the whole.
LEMMA Spliced ==
  ASSUME NEW S, NEW f \in Seq(S), NEW g \in Seq(S), NEW h \in Seq(S),
         Len(f) + Len(g) = Len(h),
         \A i \in 1..Len(f) : f[i] = h[i],
         \A i \in 1..Len(g) : g[i] = h[Len(h) - Len(g) + i]
  PROVE  f \o g = h
<1>1. PICK k \in Nat, n \in Nat : k = Len(f) /\ n = Len(g)
  BY LenProperties
<1>2. PICK j \in Seq(S) : j = f \o g
  BY ConcatProperties
<1>3. /\ Len(j) = k + n
      /\ \A i \in 1..k : j[i] = f[i]
      /\ \A i \in 1..n : j[k + i] = g[i]
  BY <1>1, <1>2, Joined
<1>4. Len(h) = k + n
  BY <1>1
<1>5. \A i \in 1..(k + n) : j[i] = h[i]
  <2>1. TAKE i \in 1..(k + n)
  <2>2. CASE i <= k
    BY <1>1, <1>3, <2>2
  <2>3. CASE i > k
    <3>1. PICK m \in 1..n : i = k + m
      <4>1. i - k \in 1..n /\ i = k + (i - k)
        BY <2>3
      <4>2. QED BY <4>1
    <3>2. g[m] = h[(k + n) - n + m] /\ (k + n) - n + m = k + m
      BY <1>1, <1>4
    <3>3. QED BY <1>3, <3>1, <3>2
  <2>4. QED BY <2>2, <2>3
<1>6. j = h
  BY <1>3, <1>4, <1>5, SeqEqual
<1>7. QED BY <1>2, <1>6

\* A write at the end of the file appends to it.
LEMMA Overwritten ==
  ASSUME NEW S, NEW s \in Seq(S), file \in Seq(S), offset = Len(file)
  PROVE  Overwrite(s) = file \o s
<1>1. /\ file \o s \in Seq(S) /\ Len(file \o s) = Len(file) + Len(s)
      /\ \A i \in 1..Len(file) + Len(s) :
           (file \o s)[i] = IF i <= Len(file) THEN file[i] ELSE s[i - Len(file)]
  BY ConcatProperties
<1>2. PICK k \in Nat, n \in Nat : k = Len(file) /\ n = Len(s)
  BY LenProperties
<1>3. Overwrite(s) = [i \in 1..(k + n) |-> IF i <= k THEN file[i] ELSE s[i - k]]
  <2>1. (IF offset + Len(s) > Len(file) THEN offset + Len(s) ELSE Len(file)) = k + n
    BY <1>2
  <2>2. \A i \in 1..(k + n) :
          (IF i > offset /\ i <= offset + Len(s) THEN s[i - offset]
           ELSE IF i <= Len(file) THEN file[i] ELSE Hole)
          = IF i <= k THEN file[i] ELSE s[i - k]
    BY <1>2
  <2>3. QED BY <2>1, <2>2 DEF Overwrite
<1>4. DOMAIN (file \o s) = 1..(k + n)
  BY <1>1, <1>2, LenProperties
<1>5. file \o s = [i \in 1..(k + n) |-> (file \o s)[i]]
  <2>1. file \o s \in [1..(k + n) -> S]
    BY <1>1, <1>2, LenProperties
  <2>2. QED BY <2>1
<1>6. QED BY <1>1, <1>2, <1>3, <1>5

LEMMA FlushWriteKeeps ==
  ASSUME WInv, NEW t \in Threads, FlushWrite(t)
  PROVE  WInv'
<1> USE DEF WInv
<1>1. /\ UNCHANGED <<synced, buffer, flushed, latched, next, target, promised, writer, record,
                     lsnOf, log, durable, crashes, failed>>
      /\ wpc[t] \in Writing
  BY DEF FlushWrite, Writing
<1>2. \A u \in Threads : u # t => wpc[u] \notin Flushing
  BY <1>1, TheFlusher DEF Flushing
<1>3. flushed = Len(file) /\ Len(file) + Len(buffer) = Len(log)
  <2>1. \A u \in Threads : wpc[u] \notin Consuming \cup Counting
    BY <1>1, <1>2 DEF Flushing, Writing, Consuming, Counting
  <2>2. QED BY <2>1 DEF Meet
<1>4. /\ wpc' \in [Threads -> {"idle", "field", "store", "lock", "write", "consume", "count",
                         "sync", "write_inner", "consume_inner", "count_inner",
                         "sync_inner"}]
      /\ \A u \in Threads : u # t => wpc'[u] = wpc[u]
      /\ wpc[t] = "write" => wpc'[t] \in {"consume", "sync"}
      /\ wpc[t] = "write_inner" => wpc'[t] \in {"consume_inner", "sync_inner"}
      /\ wpc'[t] \in Consuming <=> target[t] > flushed
  BY DEF TypeOK, FlushWrite, Then, Inner, Consuming
<1>5. /\ wpc'[t] \in Flushing /\ wpc'[t] \notin Counting
      /\ wpc'[t] \in Inside \cup {"field"} <=> wpc[t] \in Inside \cup {"field"}
      /\ wpc'[t] \in Inside <=> wpc[t] \in Inside
      /\ wpc'[t] \in Written => wpc[t] = "write"
      /\ wpc'[t] \notin {"lock", "write"}
  BY <1>1, <1>4 DEF Flushing, Writing, Consuming, Counting, Inside, Written
<1>6. Places'
  <2>1. latched' /\ \A u \in Threads : wpc'[u] \in Flushing => u = t
    <3>1. latched
      BY <1>1 DEF Places, Flushing
    <3>2. QED BY <1>1, <1>2, <1>4, <3>1
  <2>2. \A u \in Threads : wpc'[u] \in Inside \cup {"field"} <=> writer' = <<u>>
    BY <1>1, <1>4, <1>5 DEF Places
  <2>3. \A u \in Threads : wpc'[u] \in Inside => Sole
    BY <1>4, <1>5 DEF Places
  <2>4. QED BY <2>1, <2>2, <2>3 DEF Places, Sole
<1>7. \A r : \A i, j \in Int : (i <= j \/ Len(log) <= j) /\ Whole(r, i) => Whole(r, j)
  BY CountsMore
<1>8. CASE target[t] > flushed
  <2>1. PICK k \in Nat, b \in Nat, l \in Nat : k = Len(file) /\ b = Len(buffer) /\ l = Len(log)
    BY Lengths
  <2>2. k + b = l /\ flushed = k /\ offset = k /\ synced \in Nat /\ synced <= k
    BY <1>3, <2>1 DEF Parts, TypeOK
  <2>3. file \in Seq(Cell) /\ buffer \in Seq(Cell) /\ log \in Seq(Cell)
    BY DEF Parts
  <2>4. file \o buffer = log
    BY <1>3, <2>3, Spliced DEF Parts
  <2>5. file' \in Seq(Cell) /\ Len(file') = l /\ \A i \in 1..l : file'[i] = log[i]
    <3>1. file' = Overwrite(buffer) /\ Overwrite(buffer) = file \o buffer
      BY <1>8, <2>1, <2>2, <2>3, Overwritten DEF FlushWrite
    <3>2. QED BY <2>1, <2>3, <2>4, <3>1
  <2>6. offset' = l /\ towrite' = [towrite EXCEPT ![t] = b]
    BY <1>8, <2>1, <2>2 DEF FlushWrite
  <2>7. b <= Cap /\ b \in 0..Cap
    BY <2>1, CapAssumption DEF TypeOK
  <2>8. TypeOK'
    <3>1. file' \in Seq((0..MaxRecs) \X (0..RecLen))
      <4>1. Cell \subseteq (0..MaxRecs) \X (0..RecLen)
        BY BoundsAssumption DEF Cell, Recs, RecLen
      <4>2. QED BY <2>5, <4>1, SeqMonotonic
    <3>2. synced' \in 0..Len(file') /\ offset' \in Nat
      BY <1>1, <2>2, <2>5, <2>6
    <3>3. towrite' \in [Threads -> 0..Cap]
      BY <2>6, <2>7 DEF TypeOK
    <3>4. QED BY <1>1, <1>4, <3>1, <3>2, <3>3 DEF TypeOK
  <2>9. Parts'
    <3>1. synced' <= Len(file') /\ Len(file') <= Len(log') /\ Len(buffer') <= Len(log')
      BY <1>1, <2>1, <2>2, <2>5
    <3>2. QED BY <1>1, <2>1, <2>5, <2>6, <3>1 DEF Parts
  <2>10. Meet'
    <3>1. wpc'[t] \in Consuming
      BY <1>4, <1>8
    <3>2. \A u \in Threads : u # t => wpc'[u] \notin Consuming \cup Counting
      BY <1>2, <1>4 DEF Flushing
    <3>3. towrite'[t] = b
      BY <2>6 DEF TypeOK
    <3>4. /\ Len(file') = Len(log') /\ towrite'[t] = Len(buffer')
          /\ flushed' + Len(buffer') = Len(log')
      BY <1>1, <2>1, <2>2, <2>5, <3>3
    <3>5. QED BY <1>5, <3>1, <3>2, <3>4 DEF Meet
  <2>11. Records'
    <3>1. \A u \in Threads : UnderWay(u)'
      BY <1>1 DEF UnderWay, Records
    <3>2. \A r \in Appended' : Whole(r, Len(log))'
      BY <1>1 DEF Appended, Records, Whole
    <3>3. \A u \in Threads : wpc[u] \in {"lock", "write"} => \A r \in promised[u] : Whole(r, l)
      <4>1. \A u \in Threads : target[u] \in Int
        BY DEF TypeOK
      <4>2. QED BY <1>7, <2>1, <4>1 DEF Records
    <3>4. \A u \in Threads : wpc[u] \in Written => \A r \in promised[u] : Whole(r, l)
      BY <1>7, <2>1, <2>2 DEF Records
    <3>5. \A u \in Threads : /\ wpc'[u] \in {"lock", "write"} => wpc[u] \in {"lock", "write"}
                             /\ wpc'[u] \in Written => wpc[u] \in Written \cup {"write"}
      BY <1>4, <1>5
    <3>6. QED BY <1>1, <2>5, <3>1, <3>2, <3>3, <3>4, <3>5 DEF Records, Whole
  <2>12. Targets'
    BY <1>1, <1>4, <1>5 DEF Targets
  <2>13. QED BY <1>1, <1>6, <2>8, <2>9, <2>10, <2>11, <2>12 DEF Room, AssertsHold
<1>9. CASE ~(target[t] > flushed)
  <2>1. file' = file /\ offset' = offset /\ towrite' = towrite
    BY <1>9 DEF FlushWrite
  <2>2. wpc'[t] \notin Consuming \cup Counting
    BY <1>4, <1>5, <1>9
  <2>3. TypeOK'
    BY <1>1, <1>4, <2>1 DEF TypeOK
  <2>4. Parts'
    BY <1>1, <2>1 DEF Parts
  <2>5. Meet'
    <3>1. \A u \in Threads : wpc'[u] \notin Consuming \cup Counting
      BY <1>2, <1>4, <2>2 DEF Flushing
    <3>2. QED BY <1>1, <1>3, <2>1, <3>1 DEF Meet
  <2>6. Records'
    <3>1. \A u \in Threads : UnderWay(u)'
      BY <1>1 DEF UnderWay, Records
    <3>2. \A r \in Appended' : Whole(r, Len(log))'
      BY <1>1 DEF Appended, Records, Whole
    <3>3. wpc[t] = "write" => \A r \in promised[t] : Whole(r, Len(file))
      <4>1. target[t] \in Int /\ target[t] <= Len(file) /\ Len(file) \in Int
        BY <1>3, <1>9, Lengths DEF TypeOK
      <4>2. QED BY <1>7, <4>1 DEF Records
    <3>4. \A u \in Threads : wpc'[u] \in Written => \A r \in promised[u] : Whole(r, Len(file))
      BY <1>4, <1>5, <3>3 DEF Records
    <3>5. \A u \in Threads : wpc'[u] \in {"lock", "write"} => wpc[u] \in {"lock", "write"}
      BY <1>4, <1>5
    <3>6. QED BY <1>1, <2>1, <3>1, <3>2, <3>4, <3>5 DEF Records, Whole
  <2>7. Targets'
    BY <1>1, <1>4, <1>5 DEF Targets
  <2>8. QED BY <1>1, <1>6, <2>3, <2>4, <2>5, <2>6, <2>7 DEF Room, AssertsHold
<1>10. QED BY <1>8, <1>9

LEMMA FlushConsumeKeeps ==
  ASSUME WInv, NEW t \in Threads, FlushConsume(t)
  PROVE  WInv'
<1> USE DEF WInv
<1>1. /\ UNCHANGED <<file, synced, offset, flushed, latched, next, target, towrite, promised,
                     writer, record, lsnOf, log, durable, crashes>>
      /\ wpc[t] \in Consuming
  BY DEF FlushConsume, Consuming
<1>2. \A u \in Threads : u # t => wpc[u] \notin Flushing
  BY <1>1, TheFlusher DEF Flushing
<1>3. /\ Len(file) = Len(log) /\ towrite[t] = Len(buffer)
      /\ flushed + Len(buffer) = Len(log) /\ Len(buffer) \in Nat
  BY <1>1, Lengths DEF Meet
<1>4. failed' = failed /\ buffer' = <<>>
  <2>1. failed' = failed /\ buffer' = SubSeq(buffer, Len(buffer) + 1, Len(buffer))
    BY <1>3 DEF FlushConsume
  <2>2. Len(buffer) + 1 \in Int /\ Len(buffer) \in Int /\ Len(buffer) < Len(buffer) + 1
    BY <1>3
  <2>3. QED BY <2>1, <2>2, SubSeqEmpty
<1>5. /\ wpc' \in [Threads -> {"idle", "field", "store", "lock", "write", "consume", "count",
                         "sync", "write_inner", "consume_inner", "count_inner",
                         "sync_inner"}]
      /\ \A u \in Threads : u # t => wpc'[u] = wpc[u]
      /\ wpc[t] = "consume" => wpc'[t] = "count"
      /\ wpc[t] = "consume_inner" => wpc'[t] = "count_inner"
  BY DEF TypeOK, FlushConsume, Then, Inner
<1>6. /\ wpc'[t] \in Counting /\ wpc'[t] \in Flushing /\ wpc'[t] \notin Consuming
      /\ wpc'[t] \in Inside \cup {"field"} <=> wpc[t] \in Inside \cup {"field"}
      /\ wpc'[t] \in Inside <=> wpc[t] \in Inside
      /\ wpc'[t] \in Written <=> wpc[t] \in Written
      /\ wpc'[t] \notin {"lock", "write"}
  BY <1>1, <1>5 DEF Flushing, Writing, Consuming, Counting, Inside, Written
<1>7. TypeOK'
  <2>1. buffer' \in Seq(Recs \X (1..RecLen)) /\ Len(buffer') = 0
    BY <1>4
  <2>2. QED BY <1>1, <1>4, <1>5, <2>1, CapAssumption DEF TypeOK
<1>8. Places'
  <2>1. latched' /\ \A u \in Threads : wpc'[u] \in Flushing => u = t
    <3>1. latched
      BY <1>1 DEF Places, Flushing
    <3>2. QED BY <1>1, <1>2, <1>5, <3>1
  <2>2. \A u \in Threads : wpc'[u] \in Inside \cup {"field"} <=> writer' = <<u>>
    BY <1>1, <1>5, <1>6 DEF Places
  <2>3. \A u \in Threads : wpc'[u] \in Inside => Sole
    BY <1>5, <1>6 DEF Places
  <2>4. QED BY <2>1, <2>2, <2>3 DEF Places, Sole
<1>9. Parts'
  <2>1. buffer' \in Seq(Cell) /\ Len(buffer') = 0
    BY <1>4
  <2>2. QED BY <1>1, <2>1, Lengths DEF Parts
<1>10. Meet'
  <2>1. \A u \in Threads : u # t => wpc'[u] \notin Consuming \cup Counting
    BY <1>2, <1>5 DEF Flushing
  <2>2. flushed' + towrite'[t] = Len(log') /\ Len(file') = Len(log')
    BY <1>1, <1>3
  <2>3. QED BY <1>4, <1>6, <2>1, <2>2 DEF Meet
<1>11. Records'
  <2>1. \A u \in Threads : UnderWay(u)'
    BY <1>1 DEF UnderWay, Records
  <2>2. \A r \in Appended' : Whole(r, Len(log))'
    BY <1>1 DEF Appended, Records, Whole
  <2>3. \A u \in Threads : /\ wpc'[u] \in {"lock", "write"} => wpc[u] \in {"lock", "write"}
                           /\ wpc'[u] \in Written => wpc[u] \in Written
    BY <1>5, <1>6
  <2>4. QED BY <1>1, <2>1, <2>2, <2>3 DEF Records, Whole
<1>12. Room'
  <2>1. Len(buffer') = 0 /\ record \in Nat
    BY <1>4 DEF TypeOK
  <2>2. \A u \in Threads : writer' = <<u>> => 0 <= RecLen * (record - 1) + (next[u] - 1)
    <3>1. SUFFICES ASSUME NEW u \in Threads, writer = <<u>>
                   PROVE  0 <= RecLen * (record - 1) + (next[u] - 1)
      BY <1>1
    <3>2. Len(buffer) <= RecLen * (record - 1) + (next[u] - 1) /\ next[u] \in Nat
      <4>1. next[u] \in Nat
        <5>1. Len(Fields) = 4
          BY DEF Fields
        <5>2. next \in [Threads -> 1..4]
          BY <5>1 DEF TypeOK
        <5>3. QED BY <5>2
      <4>2. QED BY <3>1, <4>1 DEF Room
    <3>3. QED BY <1>3, <2>1, <3>2 DEF RecLen
  <2>3. 0 <= RecLen * record
    BY <2>1 DEF RecLen
  <2>4. QED BY <1>1, <2>1, <2>2, <2>3 DEF Room
<1>13. Targets'
  BY <1>1, <1>5, <1>6 DEF Targets
<1>14. AssertsHold'
  BY <1>4 DEF AssertsHold
<1>15. QED BY <1>7, <1>8, <1>9, <1>10, <1>11, <1>12, <1>13, <1>14

LEMMA FlushCountKeeps ==
  ASSUME WInv, NEW t \in Threads, FlushCount(t)
  PROVE  WInv'
<1> USE DEF WInv
<1>1. /\ UNCHANGED <<file, synced, offset, buffer, latched, next, target, towrite, promised,
                     writer, record, lsnOf, log, durable, crashes, failed>>
      /\ wpc[t] \in Counting
  BY DEF FlushCount, Counting
<1>2. \A u \in Threads : u # t => wpc[u] \notin Flushing
  BY <1>1, TheFlusher DEF Flushing
<1>3. /\ Len(file) = Len(log) /\ buffer = <<>> /\ flushed + towrite[t] = Len(log)
      /\ flushed' = Len(log) /\ Len(buffer) = 0
  BY <1>1 DEF Meet, FlushCount, NewFlushed
<1>4. /\ wpc' \in [Threads -> {"idle", "field", "store", "lock", "write", "consume", "count",
                         "sync", "write_inner", "consume_inner", "count_inner",
                         "sync_inner"}]
      /\ \A u \in Threads : u # t => wpc'[u] = wpc[u]
      /\ wpc[t] = "count" => wpc'[t] = "sync"
      /\ wpc[t] = "count_inner" => wpc'[t] = "sync_inner"
  BY DEF TypeOK, FlushCount, Then, Inner
<1>5. /\ wpc'[t] \in Flushing /\ wpc'[t] \notin Consuming \cup Counting
      /\ wpc'[t] \in Inside \cup {"field"} <=> wpc[t] \in Inside \cup {"field"}
      /\ wpc'[t] \in Inside <=> wpc[t] \in Inside
      /\ wpc'[t] \in Written <=> wpc[t] \in Written
      /\ wpc'[t] \notin {"lock", "write"}
  BY <1>1, <1>4 DEF Flushing, Writing, Consuming, Counting, Inside, Written
<1>6. TypeOK'
  BY <1>1, <1>3, <1>4, Lengths DEF TypeOK
<1>7. Places'
  <2>1. latched' /\ \A u \in Threads : wpc'[u] \in Flushing => u = t
    <3>1. latched
      BY <1>1 DEF Places, Flushing
    <3>2. QED BY <1>1, <1>2, <1>4, <3>1
  <2>2. \A u \in Threads : wpc'[u] \in Inside \cup {"field"} <=> writer' = <<u>>
    BY <1>1, <1>4, <1>5 DEF Places
  <2>3. \A u \in Threads : wpc'[u] \in Inside => Sole
    BY <1>4, <1>5 DEF Places
  <2>4. QED BY <2>1, <2>2, <2>3 DEF Places, Sole
<1>8. Parts'
  BY <1>1 DEF Parts
<1>9. Meet'
  <2>1. \A u \in Threads : wpc'[u] \notin Consuming \cup Counting
    BY <1>2, <1>4, <1>5 DEF Flushing
  <2>2. flushed' = Len(file') /\ Len(file') + Len(buffer') = Len(log')
    BY <1>1, <1>3, Lengths
  <2>3. QED BY <2>1, <2>2 DEF Meet
<1>10. Records'
  <2>1. \A u \in Threads : UnderWay(u)'
    BY <1>1 DEF UnderWay, Records
  <2>2. \A r \in Appended' : Whole(r, Len(log))'
    BY <1>1 DEF Appended, Records, Whole
  <2>3. \A u \in Threads : /\ wpc'[u] \in {"lock", "write"} => wpc[u] \in {"lock", "write"}
                           /\ wpc'[u] \in Written => wpc[u] \in Written
    BY <1>4, <1>5
  <2>4. QED BY <1>1, <2>1, <2>2, <2>3 DEF Records, Whole
<1>11. Room' /\ AssertsHold'
  BY <1>1 DEF Room, AssertsHold
<1>12. Targets'
  BY <1>1, <1>4, <1>5 DEF Targets
<1>13. QED BY <1>6, <1>7, <1>8, <1>9, <1>10, <1>11, <1>12

LEMMA FlushSyncKeeps ==
  ASSUME WInv, NEW t \in Threads, FlushSync(t)
  PROVE  WInv'
<1> USE DEF WInv
<1>1. /\ UNCHANGED <<file, offset, buffer, flushed, next, target, towrite, promised, writer,
                     record, lsnOf, log, crashes, failed>>
      /\ synced' = Len(file) /\ latched' = FALSE
      /\ wpc[t] \in {"sync", "sync_inner"}
  BY DEF FlushSync, Synced
<1>2. \A u \in Threads : u # t => wpc[u] \notin Flushing
  BY <1>1, TheFlusher DEF Flushing
<1>3. /\ wpc' \in [Threads -> {"idle", "field", "store", "lock", "write", "consume", "count",
                         "sync", "write_inner", "consume_inner", "count_inner",
                         "sync_inner"}]
      /\ \A u \in Threads : u # t => wpc'[u] = wpc[u]
      /\ wpc[t] = "sync" => wpc'[t] = "idle" /\ durable' = durable \cup promised[t]
      /\ wpc[t] = "sync_inner" => wpc'[t] = "store" /\ durable' = durable
  BY DEF TypeOK, FlushSync, Then, Inner
<1>4. /\ wpc'[t] \notin Flushing
      /\ wpc'[t] \in Inside \cup {"field"} <=> wpc[t] \in Inside \cup {"field"}
      /\ wpc'[t] \in Inside <=> wpc[t] \in Inside
      /\ wpc'[t] \notin Written \cup {"lock", "write"}
  BY <1>1, <1>3 DEF Flushing, Writing, Consuming, Counting, Inside, Written
<1>5. flushed = Len(file) /\ Len(file) + Len(buffer) = Len(log)
  <2>1. \A u \in Threads : wpc[u] \notin Consuming \cup Counting
    BY <1>1, <1>2 DEF Flushing, Consuming, Counting
  <2>2. QED BY <2>1 DEF Meet
<1>6. TypeOK'
  <2>1. durable' \subseteq Recs
    BY <1>1, <1>3 DEF TypeOK
  <2>2. synced' \in 0..Len(file')
    BY <1>1, Lengths
  <2>3. QED BY <1>1, <1>3, <2>1, <2>2 DEF TypeOK
<1>7. Places'
  <2>1. \A u \in Threads : wpc'[u] \notin Flushing
    BY <1>2, <1>3, <1>4
  <2>2. \A u \in Threads : wpc'[u] \in Inside \cup {"field"} <=> writer' = <<u>>
    BY <1>1, <1>3, <1>4 DEF Places
  <2>3. \A u \in Threads : wpc'[u] \in Inside => Sole
    BY <1>3, <1>4 DEF Places
  <2>4. QED BY <2>1, <2>2, <2>3 DEF Places, Sole
<1>8. Parts'
  <2>1. Len(file) <= Len(file)
    BY Lengths
  <2>2. QED BY <1>1, <2>1 DEF Parts
<1>9. Meet'
  <2>1. \A u \in Threads : wpc'[u] \notin Consuming \cup Counting
    BY <1>2, <1>3, <1>4 DEF Flushing
  <2>2. QED BY <1>1, <1>5, <2>1 DEF Meet
<1>10. Records'
  <2>1. \A u \in Threads : UnderWay(u)'
    BY <1>1 DEF UnderWay, Records
  <2>2. \A r \in Appended' : Whole(r, Len(log))'
    BY <1>1 DEF Appended, Records, Whole
  <2>3. \A u \in Threads : /\ wpc'[u] \in {"lock", "write"} => wpc[u] \in {"lock", "write"}
                           /\ wpc'[u] \in Written => wpc[u] \in Written
    BY <1>3, <1>4
  <2>4. \A r \in durable' : Whole(r, Len(file))
    <3>1. \A r \in durable : Whole(r, Len(file))
      <4>1. synced \in Int /\ Len(file) \in Int /\ synced <= Len(file)
        BY Lengths DEF Parts, TypeOK
      <4>2. QED BY <4>1, CountsMore DEF Records
    <3>2. wpc[t] = "sync" => \A r \in promised[t] : Whole(r, Len(file))
      BY DEF Records, Written
    <3>3. QED BY <1>1, <1>3, <3>1, <3>2
  <2>5. QED BY <1>1, <2>1, <2>2, <2>3, <2>4 DEF Records, Whole
<1>11. Room' /\ AssertsHold'
  BY <1>1 DEF Room, AssertsHold
<1>12. Targets'
  BY <1>1, <1>3, <1>4 DEF Targets
<1>13. QED BY <1>6, <1>7, <1>8, <1>9, <1>10, <1>11, <1>12

\* What the restart cuts off holds no whole record.
LEMMA CutKeepsRecords ==
  ASSUME NEW S, NEW f \in Seq(S), NEW r, WholeIn(f, r, Len(f))
  PROVE  LET cut == Cut(f, FirstBad(f)) IN WholeIn(cut, r, Len(cut))
<1>1. PICK k \in Nat : /\ FirstBad(f) = RecLen * k /\ RecLen * k <= Len(f)
                       /\ \A j \in Nat : j < k => RecordAt(f, RecLen * j)
  BY FirstBadFound
<1>2. PICK e \in Nat : e = RecLen * k
  BY DEF RecLen
<1>3. PICK l \in Nat : l = Len(f)
  BY LenProperties
<1>4. CASE Cut(f, e) = f
  BY <1>1, <1>2, <1>4
<1>5. CASE Cut(f, e) # f
  <2>1. ReadAt(f, e) = "torn" /\ Cut(f, e) = SubSeq(f, 1, e)
    BY <1>5 DEF Cut
  <2>2. e < l /\ l - e < RecLen
    <3>1. e <= l
      BY <1>1, <1>2, <1>3
    <3>2. PICK m \in Nat : m = l - e
      BY <3>1
    <3>3. m \notin {0, 1, 3} /\ m < RecLen
      BY <1>3, <2>1, <3>2 DEF ReadAt
    <3>4. QED BY <3>1, <3>2, <3>3
  <2>3. PICK p \in 0..l : p + RecLen <= l /\ Begins(f, r, p)
    BY <1>3 DEF WholeIn
  <2>4. p + RecLen <= e
    <3>1. SUFFICES ASSUME p + RecLen > e PROVE FALSE
      BY <1>3, <2>3 DEF RecLen
    <3>2. p < e
      BY <2>2, <2>3 DEF RecLen
    <3>3. k >= 1 /\ k - 1 \in Nat /\ RecLen * (k - 1) = e - RecLen
      BY <1>2, <3>2 DEF RecLen
    <3>4. PICK q \in Nat : q = e - RecLen
      BY <3>3 DEF RecLen
    <3>5. Begins(f, f[q + 1][1], q)
      <4>1. RecordAt(f, q)
        BY <1>1, <3>3, <3>4
      <4>2. QED BY <4>1, RecordBegins
    <3>6. PICK i \in 2..RecLen : p + 1 = q + i
      <4>1. p + 1 - q \in 2..RecLen /\ p + 1 = q + (p + 1 - q)
        BY <3>1, <3>2, <3>4 DEF RecLen
      <4>2. QED BY <4>1
    <3>7. f[p + 1] = <<f[q + 1][1], i>>
      BY <3>5, <3>6 DEF Begins, RecLen
    <3>8. f[p + 1] = <<r, 1>>
      BY <2>3, BeginsRecord
    <3>9. i = 1
      BY <3>7, <3>8
    <3>10. QED BY <3>6, <3>9 DEF RecLen
  <2>5. PICK g \in Seq(S) : g = SubSeq(f, 1, e) /\ Len(g) = e /\ \A i \in 1..e : g[i] = f[i]
    <3>1. e \in 0..Len(f)
      BY <1>3, <2>2
    <3>2. QED BY <3>1, Prefix
  <2>6. Begins(g, r, p)
    <3>1. SUFFICES ASSUME NEW i \in 1..RecLen PROVE g[p + i] = <<r, i>>
      BY DEF Begins
    <3>2. p + i \in 1..e
      BY <2>4 DEF RecLen
    <3>3. f[p + i] = <<r, i>>
      BY <2>3 DEF Begins
    <3>4. QED BY <2>5, <3>2, <3>3
  <2>7. p \in 0..Len(g) /\ p + RecLen <= Len(g)
    BY <2>4, <2>5 DEF RecLen
  <2>8. WholeIn(g, r, Len(g))
    BY <2>6, <2>7 DEF WholeIn
  <2>9. Cut(f, FirstBad(f)) = g
    BY <1>1, <1>2, <2>1, <2>5
  <2>10. QED BY <2>8, <2>9
<1>6. QED BY <1>4, <1>5

\* It is cut off the end.
LEMMA CutIsPrefix ==
  ASSUME NEW S, NEW f \in Seq(S)
  PROVE  LET cut == Cut(f, FirstBad(f)) IN
         /\ cut \in Seq(S) /\ Len(cut) <= Len(f)
         /\ \A i \in 1..Len(cut) : cut[i] = f[i]
<1>1. PICK k \in Nat : FirstBad(f) = RecLen * k /\ RecLen * k <= Len(f)
  BY FirstBadFound
<1>2. PICK e \in Nat : e = RecLen * k
  BY DEF RecLen
<1>3. PICK l \in Nat : l = Len(f)
  BY LenProperties
<1>4. e <= l
  BY <1>1, <1>2, <1>3
<1>5. CASE Cut(f, e) = f
  BY <1>1, <1>2, <1>3, <1>5
<1>6. CASE Cut(f, e) = SubSeq(f, 1, e)
  <2>1. e \in 0..Len(f)
    BY <1>3, <1>4
  <2>2. /\ SubSeq(f, 1, e) \in Seq(S) /\ Len(SubSeq(f, 1, e)) = e
        /\ \A i \in 1..e : SubSeq(f, 1, e)[i] = f[i]
    BY <2>1, Prefix
  <2>3. QED BY <1>1, <1>2, <1>3, <1>4, <1>6, <2>2
<1>7. QED BY <1>5, <1>6 DEF Cut

\* What a crash and the restart leave of the log.
LEMMA AfterCrash ==
  ASSUME WInv, NEW n \in 0..Len(file), Crash(n)
  PROVE  /\ log' \in Seq(Cell) /\ file' = log' /\ buffer' = <<>>
         /\ synced' = Len(log') /\ offset' = Len(log') /\ flushed' = Len(log')
         /\ Len(log') <= Len(log) /\ \A i \in 1..Len(log') : log'[i] = log[i]
         /\ \A r : Whole(r, synced) => WholeIn(log', r, Len(log'))
         /\ lsnOf' = [r \in Recs |-> IF Holds(log', r) THEN lsnOf[r] ELSE -1]
         /\ failed' \in {"no", "corrupt"}
<1>1. PICK f \in Seq(Cell) : f = Kept(n) /\ Len(f) = n /\ \A i \in 1..n : f[i] = file[i]
  <2>1. file \in Seq(Cell)
    BY DEF WInv, Parts
  <2>2. /\ SubSeq(file, 1, n) \in Seq(Cell) /\ Len(SubSeq(file, 1, n)) = n
        /\ \A i \in 1..n : SubSeq(file, 1, n)[i] = file[i]
    BY <2>1, Prefix
  <2>3. QED BY <2>2 DEF Kept
<1>2. PICK cut : cut = Cut(f, FirstBad(f))
  OBVIOUS
<1>3. /\ file' = cut /\ log' = cut /\ buffer' = <<>>
      /\ synced' = Len(cut) /\ offset' = Len(cut) /\ flushed' = Len(cut)
      /\ failed' \in {"no", "corrupt"}
      /\ lsnOf' = [r \in Recs |-> IF Holds(cut, r) THEN lsnOf[r] ELSE -1]
      /\ synced <= n
  BY <1>1, <1>2 DEF Crash, WInv, TypeOK
<1>4. cut \in Seq(Cell) /\ Len(cut) <= n /\ \A i \in 1..Len(cut) : cut[i] = f[i]
  BY <1>1, <1>2, CutIsPrefix
<1>5. PICK c \in Nat, k \in Nat, l \in Nat : c = Len(cut) /\ k = Len(file) /\ l = Len(log)
  BY <1>4, LenProperties, Lengths DEF WInv
<1>6. c <= n /\ n <= k /\ k <= l /\ \A i \in 1..k : file[i] = log[i]
  BY <1>4, <1>5 DEF WInv, Parts
<1>7. c <= l /\ \A i \in 1..c : cut[i] = log[i]
  BY <1>1, <1>4, <1>5, <1>6
<1>8. ASSUME NEW r, Whole(r, synced) PROVE WholeIn(cut, r, Len(cut))
  <2>1. WholeIn(f, r, Len(f))
    <3>1. PICK p \in 0..l : p + RecLen <= synced /\ Begins(log, r, p)
      BY <1>5, <1>8 DEF Whole, WholeIn
    <3>2. synced \in Nat
      BY <1>5 DEF WInv, TypeOK
    <3>3. p \in 0..Len(f) /\ p + RecLen <= Len(f)
      BY <1>1, <1>3, <3>1, <3>2 DEF RecLen
    <3>4. Begins(f, r, p)
      <4>1. SUFFICES ASSUME NEW i \in 1..RecLen PROVE f[p + i] = <<r, i>>
        BY DEF Begins
      <4>2. p + i \in 1..n /\ p + i \in 1..k
        BY <1>3, <1>6, <3>1, <3>2 DEF RecLen
      <4>3. log[p + i] = <<r, i>>
        BY <3>1 DEF Begins
      <4>4. QED BY <1>1, <1>6, <4>2, <4>3
    <3>5. QED BY <3>3, <3>4 DEF WholeIn
  <2>2. QED BY <1>2, <2>1, CutKeepsRecords
<1>9. QED BY <1>3, <1>4, <1>5, <1>7, <1>8

LEMMA CrashKeeps ==
  ASSUME WInv, NEW n \in 0..Len(file), Crash(n)
  PROVE  WInv'
<1> USE DEF WInv
<1>1. /\ log' \in Seq(Cell) /\ file' = log' /\ buffer' = <<>>
      /\ synced' = Len(log') /\ offset' = Len(log') /\ flushed' = Len(log')
      /\ \A r : Whole(r, synced) => WholeIn(log', r, Len(log'))
      /\ lsnOf' = [r \in Recs |-> IF Holds(log', r) THEN lsnOf[r] ELSE -1]
      /\ failed' \in {"no", "corrupt"}
  BY AfterCrash
<1>2. /\ latched' = FALSE /\ writer' = <<>> /\ wpc' = [u \in Threads |-> "idle"]
      /\ UNCHANGED <<next, target, towrite, promised, record, durable>>
      /\ crashes' \in 0..MaxCrash
  BY BoundsAssumption DEF Crash, TypeOK
<1>3. Len(log') \in Nat /\ Len(buffer') = 0 /\ buffer' \in Seq(Cell)
  BY <1>1, LenProperties
<1>4. TypeOK'
  <2>1. file' \in Seq((0..MaxRecs) \X (0..RecLen))
    <3>1. Cell \subseteq (0..MaxRecs) \X (0..RecLen)
      BY BoundsAssumption DEF Cell, Recs, RecLen
    <3>2. QED BY <1>1, <3>1, SeqMonotonic
  <2>2. log' \in Seq(Recs \X (1..RecLen)) /\ buffer' \in Seq(Recs \X (1..RecLen))
    BY <1>1, <1>3 DEF Cell
  <2>3. lsnOf' \in [Recs -> Nat \cup {-1}]
    BY <1>1 DEF TypeOK
  <2>4. synced' \in 0..Len(file') /\ Len(buffer') <= Cap
    BY <1>1, <1>3, CapAssumption
  <2>5. offset' \in Nat /\ flushed' \in Nat
    BY <1>1, <1>3
  <2>6. QED BY <1>1, <1>2, <2>1, <2>2, <2>3, <2>4, <2>5 DEF TypeOK
<1>5. Places'
  BY <1>2 DEF Places, Sole, Inside, Flushing, Writing, Consuming, Counting
<1>6. Parts'
  BY <1>1, <1>3 DEF Parts
<1>7. Meet'
  <2>1. \A u \in Threads : wpc'[u] \notin Consuming \cup Counting
    BY <1>2 DEF Consuming, Counting
  <2>2. flushed' = Len(file') /\ Len(file') + Len(buffer') = Len(log')
    BY <1>1, <1>3
  <2>3. QED BY <2>1, <2>2 DEF Meet
<1>8. Records'
  <2>1. \A u \in Threads : UnderWay(u)'
    BY <1>2 DEF UnderWay
  <2>2. \A r \in Appended' : WholeIn(log', r, Len(log'))
    <3>1. SUFFICES ASSUME NEW r \in Appended' PROVE WholeIn(log', r, Len(log'))
      OBVIOUS
    <3>2. Holds(log', r)
      BY <1>1, <3>1 DEF Appended
    <3>3. PICK p \in 0..Len(log') : RecordAt(log', p) /\ log'[p + 1][1] = r
      BY <3>2 DEF Holds
    <3>4. p \in Nat
      BY <1>3
    <3>5. p + RecLen <= Len(log') /\ Begins(log', r, p)
      BY <3>3, <3>4, RecordBegins
    <3>6. QED BY <3>5 DEF WholeIn
  <2>3. \A u \in Threads : wpc'[u] \notin {"lock", "write"} \cup Written
    BY <1>2 DEF Written
  <2>4. \A r \in durable' : WholeIn(log', r, synced')
    BY <1>1, <1>2 DEF Records
  <2>5. QED BY <2>1, <2>2, <2>3, <2>4 DEF Records, Whole
<1>9. Room'
  BY <1>2, <1>3 DEF Room, TypeOK, RecLen
<1>10. Targets'
  BY <1>2 DEF Targets
<1>11. AssertsHold'
  BY <1>1 DEF AssertsHold
<1>12. QED BY <1>4, <1>5, <1>6, <1>7, <1>8, <1>9, <1>10, <1>11

LEMMA WInvInit == Init => WInv
<1> SUFFICES ASSUME Init PROVE WInv
  OBVIOUS
<1>1. TypeOK
  <2>1. <<>> \in Seq((0..MaxRecs) \X (0..RecLen)) /\ <<>> \in Seq(Recs \X (1..RecLen))
    OBVIOUS
  <2>2. Len(Fields) = 4 /\ Len(<<>>) = 0
    BY DEF Fields
  <2>3. /\ file \in Seq((0..MaxRecs) \X (0..RecLen)) /\ buffer \in Seq(Recs \X (1..RecLen))
        /\ log \in Seq(Recs \X (1..RecLen)) /\ Len(buffer) <= Cap /\ synced \in 0..Len(file)
    BY <2>1, <2>2, CapAssumption DEF Init
  <2>4. next \in [Threads -> 1..Len(Fields)] /\ towrite \in [Threads -> 0..Cap]
    BY <2>2, CapAssumption DEF Init
  <2>5. record \in 0..MaxRecs /\ crashes \in 0..MaxCrash
    BY BoundsAssumption DEF Init
  <2>6. /\ wpc \in [Threads -> {"idle", "field", "store", "lock", "write", "consume", "count",
                               "sync", "write_inner", "consume_inner", "count_inner",
                               "sync_inner"}]
        /\ target \in [Threads -> Nat] /\ promised \in [Threads -> SUBSET Recs]
        /\ durable \subseteq Recs /\ lsnOf \in [Recs -> Nat \cup {-1}]
        /\ writer \in {<<>>} \cup {<<t>> : t \in Threads}
        /\ offset \in Nat /\ flushed \in Nat /\ latched \in BOOLEAN
        /\ failed \in {"no", "assert", "corrupt"}
    BY DEF Init
  <2>7. QED BY <2>3, <2>4, <2>5, <2>6 DEF TypeOK
<1>2. Places
  BY DEF Init, Places, Inside, Flushing, Writing, Consuming, Counting
<1>3. Parts /\ Targets /\ AssertsHold
  BY DEF Init, Parts, Targets, AssertsHold
<1>4. Meet
  BY DEF Init, Meet, Consuming, Counting
<1>5. Records
  BY DEF Init, Records, UnderWay, Appended, Written
<1>6. Room
  BY DEF Init, Room, RecLen
<1>7. QED BY <1>1, <1>2, <1>3, <1>4, <1>5, <1>6 DEF WInv

\* No read of the open log changes it.
ReadsOnly == \A t \in Threads, r \in Recs : LiveRead(t, r) => UNCHANGED vars

LEMMA WInvStep ==
  ASSUME WInv, Sole \/ Roomy, ReadsOnly, [Next]_vars
  PROVE  WInv'
<1>1. ASSUME NEW t \in Threads, Step(t), ~UNCHANGED vars PROVE WInv'
  <2>1. \A r \in Recs : ~LiveRead(t, r)
    BY <1>1 DEF ReadsOnly
  <2>2. QED
    BY <1>1, <2>1, WriteCallKeeps, OverflowKeeps, PutFieldKeeps, FlushCallKeeps, FlushLockKeeps,
       FlushWriteKeeps, FlushConsumeKeeps, FlushCountKeeps, FlushSyncKeeps DEF Step
<1>2. ASSUME NEW n \in 0..Len(file), Crash(n) PROVE WInv'
  BY <1>2, CrashKeeps
<1>3. CASE UNCHANGED vars
  BY <1>3 DEF vars, stream, local, WInv, TypeOK, Places, Parts, Meet, Records, Room, Targets,
              AssertsHold, UnderWay, Appended, Whole
<1>4. QED BY <1>1, <1>2, <1>3 DEF Next

LEMMA WInvHolds ==
  ASSUME Sole \/ Roomy, ~LiveReads
  PROVE  Spec => []WInv
<1>1. WInv /\ [Next]_vars => WInv'
  <2>1. ReadsOnly
    BY DEF ReadsOnly, LiveRead
  <2>2. QED BY <2>1, WInvStep
<1>2. QED BY WInvInit, <1>1, PTL DEF Spec

LEMMA WInvKeepsLog == WInv => TypeOK /\ LogKept /\ AssertsHold
<1>1. WInv => LogIsWhatWasAppended
  <2>1. SUFFICES ASSUME WInv, ~latched PROVE SubSeq(file, 1, flushed) \o buffer = log
    BY DEF LogIsWhatWasAppended
  <2>2. flushed = Len(file) /\ Len(file) + Len(buffer) = Len(log)
    BY <2>1, Unlatched DEF WInv
  <2>3. SubSeq(file, 1, Len(file)) = file
    BY <2>1, SubSeqFull DEF WInv, Parts
  <2>4. file \o buffer = log
    BY <2>1, <2>2, Spliced DEF WInv, Parts
  <2>5. QED BY <2>2, <2>3, <2>4
<1>2. WInv => FlushedStays
  <2>1. SUFFICES ASSUME WInv, NEW r \in durable PROVE Holds(SubSeq(file, 1, synced), r)
    BY DEF FlushedStays
  <2>2. PICK k \in Nat, l \in Nat, s \in Nat : k = Len(file) /\ l = Len(log) /\ s = synced
    BY <2>1, Lengths DEF WInv, TypeOK
  <2>3. s <= k /\ k <= l /\ file \in Seq(Cell) /\ \A i \in 1..k : file[i] = log[i]
    BY <2>1, <2>2 DEF WInv, Parts
  <2>4. PICK g \in Seq(Cell) : /\ g = SubSeq(file, 1, s) /\ Len(g) = s
                               /\ \A i \in 1..s : g[i] = file[i]
    <3>1. s \in 0..Len(file)
      BY <2>2, <2>3
    <3>2. /\ SubSeq(file, 1, s) \in Seq(Cell) /\ Len(SubSeq(file, 1, s)) = s
          /\ \A i \in 1..s : SubSeq(file, 1, s)[i] = file[i]
      BY <2>3, <3>1, Prefix
    <3>3. QED BY <3>2
  <2>5. PICK p \in 0..l : p + RecLen <= s /\ Begins(log, r, p)
    BY <2>1, <2>2 DEF WInv, Records, Whole, WholeIn
  <2>6. Begins(g, r, p)
    <3>1. SUFFICES ASSUME NEW i \in 1..RecLen PROVE g[p + i] = <<r, i>>
      BY DEF Begins
    <3>2. p + i \in 1..s /\ p + i \in 1..k
      BY <2>3, <2>5 DEF RecLen
    <3>3. log[p + i] = <<r, i>>
      BY <2>5 DEF Begins
    <3>4. QED BY <2>3, <2>4, <3>2, <3>3
  <2>7. p \in Nat /\ g[p + 1][1] = r
    BY <2>6, BeginsRecord
  <2>8. RecordAt(g, p)
    BY <2>4, <2>5, <2>6, <2>7, RecordBegins
  <2>9. p \in 0..Len(g)
    BY <2>4, <2>5 DEF RecLen
  <2>10. QED BY <2>2, <2>4, <2>7, <2>8, <2>9 DEF Holds
<1>3. QED BY <1>1, <1>2 DEF LogKept, WInv

-----------------------------------------------------------------------------
\* Whatever the threads, the records, the crashes and the buffer, when one thread
\* at a time uses the log or the buffer has room: the file and the buffer hold what
\* was appended, in order, what a flush reported written is whole on the disk
\* through any number of crashes, and no assertion of the flush fails
\* (wal_ostream.c:139, wal_istream.c:135).
THEOREM LogIsKept ==
  ASSUME Sole \/ Roomy, ~LiveReads
  PROVE  Spec => [](TypeOK /\ LogKept /\ AssertsHold)
BY WInvHolds, WInvKeepsLog, PTL

-----------------------------------------------------------------------------
(* One thread: an LSN is the position of its record. *)

\* The cells that an action leaves alone keep the positions.
LEMMA PositionsStay ==
  ASSUME Positions, LsnIsPosition, UNCHANGED <<log, lsnOf, record, writer, next>>
  PROVE  Positions' /\ LsnIsPosition'
BY DEF Positions, LsnIsPosition

LEMMA WriteCallPlaces ==
  ASSUME SoleInv, Sole, NEW t \in Threads, WriteCall(t)
  PROVE  Positions' /\ LsnIsPosition'
<1> USE DEF SoleInv, WInv
<1>1. \A u \in Threads : u = t
  BY DEF Sole
<1>2. PICK l \in Nat : l = Len(log)
  BY Lengths
<1>3. NextLsn = l
  <2>1. wpc[t] = "idle"
    BY DEF WriteCall
  <2>2. flushed = Len(file) /\ Len(file) + Len(buffer) = Len(log)
    BY <1>1, <2>1 DEF Meet, Consuming, Counting
  <2>3. QED BY <1>2, <2>2 DEF NextLsn
<1>4. /\ log' = log /\ record' = record + 1 /\ record \in Nat /\ record + 1 \in Recs
      /\ lsnOf' = [lsnOf EXCEPT ![record + 1] = l] /\ lsnOf \in [Recs -> Nat \cup {-1}]
  BY <1>3, BoundsAssumption DEF WriteCall, TypeOK, Recs
<1>5. \A p \in 1..l : log[p][1] \in Nat /\ log[p][1] <= record
  <2>1. TAKE p \in 1..l
  <2>2. log[p] \in Cell
    BY <1>2, ElementOfSeq DEF Parts
  <2>3. QED BY <1>2, <2>2 DEF Cell, Recs, Positions
<1>6. \A p \in 1..l : log[p][1] <= record + 1 /\ log[p][1] # record + 1
  BY <1>4, <1>5
<1>7. Positions'
  <2>1. lsnOf'[record'] = l
    BY <1>4
  <2>2. QED BY <1>2, <1>4, <1>6, <2>1 DEF Positions
<1>8. LsnIsPosition'
  <2>1. SUFFICES ASSUME NEW r \in Recs, NEW p \in 1..l, log[p] = <<r, 1>>, lsnOf'[r] >= 0
                 PROVE  lsnOf'[r] = p - 1
    BY <1>2, <1>4 DEF LsnIsPosition
  <2>2. r # record + 1
    BY <1>6, <2>1
  <2>3. lsnOf'[r] = lsnOf[r]
    BY <1>4, <2>2
  <2>4. QED BY <1>2, <2>1, <2>3 DEF LsnIsPosition
<1>9. QED BY <1>7, <1>8

LEMMA PutFieldPlaces ==
  ASSUME SoleInv, NEW t \in Threads, PutField(t)
  PROVE  Positions' /\ LsnIsPosition'
<1> USE DEF SoleInv, WInv
<1>1. writer = <<t>> /\ \A u \in Threads : u # t => writer # <<u>>
  BY TheWriter DEF Places, PutField, Inside
<1>2. next[t] \in 1..4 /\ record \in Recs
  BY <1>1 DEF TypeOK, Records, UnderWay, Fields
<1>3. PICK f \in 1..4, l \in Nat : f = next[t] /\ l = Len(log)
  BY <1>2, Lengths
<1>4. PICK n \in 1..2, c \in Seq(Cell) :
        /\ c = Cells(f) /\ Len(c) = n
        /\ \A i \in 1..n : c[i] = <<record, f - 1 + i>>
  BY <1>2, FieldCells
<1>5. /\ Len(log') = l + n
      /\ \A i \in 1..l : log'[i] = log[i]
      /\ \A i \in 1..n : log'[l + i] = <<record, f - 1 + i>>
  <2>1. log \in Seq(Cell) /\ log' = log \o c
    BY <1>3, <1>4 DEF Parts, PutField
  <2>2. /\ log \o c \in Seq(Cell) /\ Len(log \o c) = Len(log) + n
        /\ \A i \in 1..Len(log) : (log \o c)[i] = log[i]
        /\ \A i \in 1..n : (log \o c)[Len(log) + i] = c[i]
    BY <1>4, <2>1, Joined
  <2>3. QED BY <1>3, <1>4, <2>1, <2>2
<1>6. UNCHANGED <<record, lsnOf>> /\ record \in Nat
  BY DEF PutField, TypeOK
<1>7. \A p \in 1..(l + n) : \/ p \in 1..l /\ log'[p] = log[p]
                            \/ \E i \in 1..n : p = l + i /\ log'[p] = <<record, f - 1 + i>>
  <2>1. TAKE p \in 1..(l + n)
  <2>2. CASE p <= l
    BY <1>5, <2>2
  <2>3. CASE p > l
    <3>1. p - l \in 1..n /\ p = l + (p - l)
      BY <2>3
    <3>2. QED BY <1>5, <3>1
  <2>4. QED BY <2>2, <2>3
<1>8. Positions'
  <2>1. \A p \in 1..(l + n) : log'[p][1] <= record
    <3>1. TAKE p \in 1..(l + n)
    <3>2. CASE p \in 1..l /\ log'[p] = log[p]
      BY <1>3, <3>2 DEF Positions
    <3>3. CASE \E i \in 1..n : p = l + i /\ log'[p] = <<record, f - 1 + i>>
      BY <1>6, <3>3
    <3>4. QED BY <1>7, <3>2, <3>3
  <2>2. \A u \in Threads : ~(writer' = <<u>> /\ next'[u] = 1)
    <3>1. Len(Fields) = 4
      BY DEF Fields
    <3>2. CASE f = 4
      BY <1>3, <3>1, <3>2 DEF PutField
    <3>3. CASE f < 4
      <4>1. writer' = <<t>> /\ next' = [next EXCEPT ![t] = f + 1]
        BY <1>1, <1>3, <3>1, <3>3 DEF PutField
      <4>2. next'[t] = f + 1 /\ f + 1 # 1
        BY <4>1 DEF TypeOK
      <4>3. QED BY <4>1, <4>2
    <3>4. QED BY <3>2, <3>3
  <2>3. QED BY <1>5, <1>6, <2>1, <2>2 DEF Positions
<1>9. LsnIsPosition'
  <2>1. SUFFICES ASSUME NEW r \in Recs, NEW p \in 1..(l + n), log'[p] = <<r, 1>>, lsnOf[r] >= 0
                 PROVE  lsnOf[r] = p - 1
    BY <1>5, <1>6 DEF LsnIsPosition
  <2>2. CASE p \in 1..l /\ log'[p] = log[p]
    BY <1>3, <2>1, <2>2 DEF LsnIsPosition
  <2>3. CASE \E i \in 1..n : p = l + i /\ log'[p] = <<record, f - 1 + i>>
    <3>1. PICK i \in 1..n : p = l + i /\ log'[p] = <<record, f - 1 + i>>
      BY <2>3
    <3>2. r = record /\ f - 1 + i = 1
      BY <2>1, <3>1
    <3>3. f = 1 /\ i = 1
      BY <3>2
    <3>4. lsnOf[record] = l
      BY <1>1, <1>3, <3>3 DEF Positions
    <3>5. QED BY <3>1, <3>2, <3>3, <3>4
  <2>4. QED BY <1>7, <2>2, <2>3
<1>10. QED BY <1>8, <1>9

LEMMA CrashPlaces ==
  ASSUME SoleInv, NEW n \in 0..Len(file), Crash(n)
  PROVE  Positions' /\ LsnIsPosition'
<1> USE DEF SoleInv
<1>1. /\ log' \in Seq(Cell) /\ Len(log') <= Len(log)
      /\ \A i \in 1..Len(log') : log'[i] = log[i]
      /\ lsnOf' = [r \in Recs |-> IF Holds(log', r) THEN lsnOf[r] ELSE -1]
  BY AfterCrash
<1>2. PICK c \in Nat, l \in Nat : c = Len(log') /\ l = Len(log)
  BY <1>1, LenProperties, Lengths DEF WInv
<1>3. writer' = <<>> /\ record' = record
  BY DEF Crash
<1>4. Positions'
  <2>1. \A p \in 1..c : log'[p][1] <= record
    BY <1>1, <1>2 DEF Positions
  <2>2. QED BY <1>2, <1>3, <2>1 DEF Positions
<1>5. LsnIsPosition'
  <2>1. SUFFICES ASSUME NEW r \in Recs, NEW p \in 1..c, log'[p] = <<r, 1>>, lsnOf'[r] >= 0
                 PROVE  lsnOf'[r] = p - 1
    BY <1>2 DEF LsnIsPosition
  <2>2. lsnOf'[r] = lsnOf[r]
    BY <1>1, <2>1
  <2>3. p \in 1..l /\ log[p] = <<r, 1>>
    BY <1>1, <1>2, <2>1
  <2>4. QED BY <1>2, <2>1, <2>2, <2>3 DEF LsnIsPosition
<1>6. QED BY <1>4, <1>5

LEMMA InitPlaces == Init => SoleInv
BY WInvInit DEF Init, SoleInv, Positions, LsnIsPosition

LEMMA SoleStep ==
  ASSUME SoleInv, Sole, ReadsOnly, [Next]_vars
  PROVE  SoleInv'
<1>1. SUFFICES Positions' /\ LsnIsPosition'
  BY WInvStep DEF SoleInv
<1>2. CASE UNCHANGED vars
  <2>1. UNCHANGED <<log, lsnOf, record, writer, next>>
    BY <1>2 DEF vars, local
  <2>2. QED BY <2>1, PositionsStay DEF SoleInv
<1>3. ASSUME NEW t \in Threads, Step(t), ~UNCHANGED vars PROVE Positions' /\ LsnIsPosition'
  <2>1. CASE WriteCall(t)
    BY <2>1, WriteCallPlaces
  <2>2. CASE PutField(t)
    BY <2>2, PutFieldPlaces
  <2>3. CASE \/ Overflow(t) \/ FlushCall(t) \/ FlushLock(t) \/ FlushWrite(t)
             \/ FlushConsume(t) \/ FlushCount(t) \/ FlushSync(t)
    <3>1. UNCHANGED <<log, lsnOf, record, writer, next>>
      BY <2>3 DEF Overflow, FlushCall, FlushLock, FlushWrite, FlushConsume, FlushCount, FlushSync
    <3>2. QED BY <3>1, PositionsStay DEF SoleInv
  <2>4. \A r \in Recs : ~LiveRead(t, r)
    BY <1>3 DEF ReadsOnly
  <2>5. QED BY <1>3, <2>1, <2>2, <2>3, <2>4 DEF Step
<1>4. ASSUME NEW n \in 0..Len(file), Crash(n) PROVE Positions' /\ LsnIsPosition'
  BY <1>4, CrashPlaces
<1>5. QED BY <1>2, <1>3, <1>4 DEF Next

\* When one thread at a time uses the log, with a buffer of any size: what walf_write
\* returns for a record is the offset at which the record is, in the file and the
\* buffer, also when the buffer overflows inside it and after crashes (pager.c:1227).
THEOREM LsnsArePositions ==
  ASSUME Sole, ~LiveReads
  PROVE  Spec => []LsnIsPosition
<1>1. SoleInv /\ [Next]_vars => SoleInv'
  <2>1. ReadsOnly
    BY DEF ReadsOnly, LiveRead
  <2>2. QED BY <2>1, SoleStep
<1>2. SoleInv => LsnIsPosition
  BY DEF SoleInv
<1>3. QED BY InitPlaces, <1>1, <1>2, PTL DEF Spec

-----------------------------------------------------------------------------
(* Records read back from the open log (pgr_rollback).                     *)

\* The file never ends inside a record that was appended: a flush comes between
\* two records, and no append overflows.
Edge ==
  /\ \A t \in Threads : wpc[t] \notin Inside
  /\ \A t \in Threads : writer = <<t>> => Len(file) + (next[t] - 1) <= Len(log)
  /\ \A r \in Recs, p \in 0..Len(log) :
       p + RecLen <= Len(log) /\ Begins(log, r, p) /\ p < Len(file) => p + RecLen <= Len(file)

\* So the reader finds the record whole, or nothing of it.
LEMMA ReadChangesNothing ==
  ASSUME SoleInv, Edge
  PROVE  ReadsOnly
<1> SUFFICES ASSUME NEW t \in Threads, NEW r \in Recs, LiveRead(t, r) PROVE UNCHANGED vars
  BY DEF ReadsOnly
<1>1. PICK k \in Nat, l \in Nat : k = Len(file) /\ l = Len(log)
  BY Lengths DEF SoleInv, WInv
<1>2. r \in Appended /\ lsnOf[r] <= k
  BY <1>1 DEF LiveRead
<1>3. PICK p \in 0..l : p + RecLen <= l /\ Begins(log, r, p)
  BY <1>1, <1>2 DEF SoleInv, WInv, Records, Whole, WholeIn
<1>4. lsnOf[r] = p
  <2>1. log[p + 1] = <<r, 1>> /\ p + 1 \in 1..l
    BY <1>3, BeginsRecord DEF RecLen
  <2>2. lsnOf[r] = (p + 1) - 1
    BY <1>1, <1>2, <2>1 DEF SoleInv, LsnIsPosition, Appended
  <2>3. QED BY <2>2
<1>5. Cut(file, p) = file
  <2>1. CASE p < k
    <3>1. p + RecLen <= k
      BY <1>1, <1>3, <2>1 DEF Edge
    <3>2. \A i \in 1..k : file[i] = log[i]
      BY <1>1 DEF SoleInv, WInv, Parts
    <3>3. Begins(file, r, p)
      <4>1. SUFFICES ASSUME NEW i \in 1..RecLen PROVE file[p + i] = <<r, i>>
        BY DEF Begins
      <4>2. p + i \in 1..k
        BY <3>1 DEF RecLen
      <4>3. log[p + i] = <<r, i>>
        BY <1>3 DEF Begins
      <4>4. QED BY <3>2, <4>2, <4>3
    <3>4. RecordAt(file, p)
      BY <1>1, <3>1, <3>3, RecordBegins, BeginsRecord
    <3>5. QED BY <3>4 DEF Cut, ReadAt
  <2>2. CASE p = k
    <3>1. ~RecordAt(file, p) /\ Len(file) - p = 0
      BY <1>1, <2>2 DEF RecordAt, RecLen
    <3>2. ReadAt(file, p) = "eof"
      BY <3>1 DEF ReadAt
    <3>3. QED BY <3>2 DEF Cut
  <2>3. QED BY <1>2, <1>4, <2>1, <2>2
<1>6. file' = file /\ synced' = synced
  BY <1>4, <1>5 DEF LiveRead
<1>7. QED BY <1>6 DEF LiveRead, vars, stream

\* A field that is put is behind the end of the file.
LEMMA PutFieldEdge ==
  ASSUME WInv, Edge, NEW t \in Threads, PutField(t)
  PROVE  Edge'
<1> USE DEF WInv
<1>0. wpc[t] = "field"
  BY DEF PutField, Edge, Inside
<1>1. /\ writer = <<t>> /\ \A u \in Threads : writer = <<u>> => u = t
  BY <1>0, TheWriter DEF Places
<1>2. PICK f \in 1..4 : f = next[t]
  BY DEF TypeOK, Fields
<1>3. PICK k \in Nat, l \in Nat : k = Len(file) /\ l = Len(log)
  BY Lengths
<1>4. k + (f - 1) <= l
  BY <1>1, <1>2, <1>3 DEF Edge
<1>5. PICK n \in 1..2 : /\ n = IF f = 4 THEN 2 ELSE 1
                        /\ Len(log') = l + n
                        /\ \A i \in 1..l : log'[i] = log[i]
                        /\ \A i \in 1..n : log'[l + i] = <<record, f - 1 + i>>
  <2>1. next[t] \in 1..4 /\ record \in Recs
    BY <1>1, <1>2 DEF Records, UnderWay
  <2>2. PICK n \in 1..2, c \in Seq(Cell) :
          /\ c = Cells(f) /\ Len(c) = n
          /\ \A i \in 1..n : c[i] = <<record, f - 1 + i>>
          /\ n = IF f = 4 THEN 2 ELSE 1
    BY <1>2, <2>1, FieldCells
  <2>3. log \in Seq(Cell) /\ log' = log \o c
    BY <1>2, <2>2 DEF Parts, PutField
  <2>4. /\ log \o c \in Seq(Cell) /\ Len(log \o c) = Len(log) + n
        /\ \A i \in 1..Len(log) : (log \o c)[i] = log[i]
        /\ \A i \in 1..n : (log \o c)[Len(log) + i] = c[i]
    <3>1. n \in Nat /\ Len(c) = n /\ log \in Seq(Cell) /\ c \in Seq(Cell)
      BY <2>2, <2>3
    <3>2. QED BY ONLY <3>1, Joined
  <2>5. QED BY <1>3, <2>2, <2>3, <2>4
<1>6. file' = file
  BY DEF PutField
<1>7. \A u \in Threads : wpc'[u] \notin Inside
  BY <1>0, <1>2 DEF PutField, Edge, Inside, TypeOK
<1>8. \A u \in Threads : writer' = <<u>> => k + (next'[u] - 1) <= l + n
  <2>1. Len(Fields) = 4
    BY DEF Fields
  <2>2. CASE f = 4
    BY <1>2, <2>1, <2>2 DEF PutField
  <2>3. CASE f < 4
    <3>1. writer' = <<t>> /\ next'[t] = f + 1
      BY <1>1, <1>2, <2>1, <2>3 DEF PutField, TypeOK
    <3>2. \A u \in Threads : writer' = <<u>> => u = t
      BY <1>1, <3>1
    <3>3. QED BY <1>4, <1>5, <2>3, <3>1, <3>2
  <2>4. QED BY <2>2, <2>3
<1>9. ASSUME NEW r \in Recs, NEW p \in 0..(l + n), p + RecLen <= l + n, Begins(log', r, p), p < k
      PROVE  p + RecLen <= k
  <2>1. CASE p + RecLen <= l
    <3>1. Begins(log, r, p)
      <4>1. SUFFICES ASSUME NEW i \in 1..RecLen PROVE log[p + i] = <<r, i>>
        BY DEF Begins
      <4>2. p + i \in 1..l
        BY <2>1 DEF RecLen
      <4>3. QED BY <1>5, <1>9, <4>2 DEF Begins
    <3>2. p \in 0..l
      BY <2>1 DEF RecLen
    <3>3. QED BY <1>3, <1>9, <2>1, <3>1, <3>2 DEF Edge
  <2>2. CASE p + RecLen > l
    <3>1. PICK i \in 1..n : p + RecLen = l + i
      BY <1>9, <2>2 DEF RecLen
    <3>2. log'[l + i] = <<r, 5>>
      BY <1>9, <3>1 DEF Begins, RecLen
    <3>3. f - 1 + i = 5
      BY <1>5, <3>1, <3>2
    <3>4. f = 4 /\ i = 2
      BY <1>5, <3>3
    <3>5. QED BY <1>4, <1>9, <3>1, <3>4 DEF RecLen
  <2>3. QED BY <2>1, <2>2 DEF RecLen
<1>10. QED BY <1>3, <1>5, <1>6, <1>7, <1>8, <1>9 DEF Edge

LEMMA EdgeKept ==
  ASSUME SoleInv, Edge, Sole, Roomy, [Next]_vars
  PROVE  Edge'
<1> USE DEF SoleInv
<1>0. ReadsOnly /\ WInv /\ WInv'
  BY ReadChangesNothing, WInvStep
<1>1. Len(file) \in Nat /\ Len(log) \in Nat /\ Len(file) <= Len(log)
  BY Lengths DEF WInv, Parts
<1>2. CASE UNCHANGED vars
  BY <1>2 DEF vars, stream, local, Edge
<1>3. ASSUME NEW t \in Threads, Step(t), ~UNCHANGED vars PROVE Edge'
  <2>0. \A u \in Threads : u = t
    BY DEF Sole
  <2>1. CASE WriteCall(t)
    <3>1. UNCHANGED <<file, log>> /\ next'[t] = 1 /\ wpc'[t] \notin Inside
      BY <1>0, <2>1 DEF WriteCall, stream, WInv, TypeOK, Inside
    <3>2. \A u \in Threads : writer' = <<u>> => Len(file') + (next'[u] - 1) <= Len(log')
      BY <1>1, <2>0, <3>1
    <3>3. QED BY <2>0, <3>1, <3>2 DEF Edge
  <2>2. CASE PutField(t)
    BY <1>0, <2>2, PutFieldEdge
  <2>3. CASE FlushCall(t) \/ FlushLock(t) \/ FlushConsume(t) \/ FlushCount(t) \/ FlushSync(t)
    <3>1. UNCHANGED <<file, log, writer, next>>
      BY <2>3 DEF FlushCall, FlushLock, FlushConsume, FlushCount, FlushSync, stream
    <3>2. wpc'[t] \notin Inside
      BY <1>0, <2>3 DEF FlushCall, FlushLock, FlushConsume, FlushCount, FlushSync, WInv, TypeOK,
                        Inside, Edge, Then, Inner
    <3>3. QED BY <2>0, <3>1, <3>2 DEF Edge
  <2>4. CASE FlushWrite(t)
    <3>1. wpc[t] = "write" /\ UNCHANGED <<log, writer, next>>
      BY <2>4 DEF FlushWrite, Edge, Inside
    <3>2. wpc'[t] \in {"consume", "sync"} /\ (wpc'[t] = "sync" => file' = file)
      BY <1>0, <2>4, <3>1 DEF FlushWrite, WInv, TypeOK, Then, Inner
    <3>3. \A u \in Threads : writer # <<u>>
      BY <1>0, <2>0, <3>1 DEF WInv, Places, Inside
    <3>4. CASE wpc'[t] = "sync"
      BY <2>0, <3>1, <3>2, <3>4 DEF Edge, Inside
    <3>5. CASE wpc'[t] = "consume"
      <4>1. Len(file') = Len(log')
        BY <1>0, <3>5 DEF WInv, Meet, Consuming
      <4>2. QED BY <2>0, <3>1, <3>3, <3>5, <4>1 DEF Edge, Inside
    <3>6. QED BY <3>2, <3>4, <3>5
  <2>5. ~Overflow(t)
    BY <1>0, NoOverflow
  <2>6. \A r \in Recs : ~LiveRead(t, r)
    BY <1>0, <1>3 DEF ReadsOnly
  <2>7. QED BY <1>3, <2>1, <2>2, <2>3, <2>4, <2>5, <2>6 DEF Step
<1>4. ASSUME NEW n \in 0..Len(file), Crash(n) PROVE Edge'
  <2>1. file' = log'
    BY <1>0, <1>4, AfterCrash
  <2>2. writer' = <<>> /\ \A u \in Threads : wpc'[u] = "idle"
    BY <1>4 DEF Crash
  <2>3. QED BY <2>1, <2>2 DEF Edge, Inside
<1>5. QED BY <1>2, <1>3, <1>4 DEF Next

\* When one thread uses the log, and the buffer has room for all that is appended,
\* reading records back while the log is open (pgr_rollback) does no harm: no
\* record is cut off, the log is kept, and a record is found at its LSN.
THEOREM ReadsKeepLog ==
  ASSUME Sole, Roomy
  PROVE  Spec => [](TypeOK /\ LogKept /\ AssertsHold /\ LsnIsPosition)
<1>1. Init => SoleInv /\ Edge
  BY InitPlaces DEF Init, Edge, Inside
<1>2. SoleInv /\ Edge /\ [Next]_vars => SoleInv' /\ Edge'
  BY ReadChangesNothing, SoleStep, EdgeKept
<1>3. SoleInv => TypeOK /\ LogKept /\ AssertsHold /\ LsnIsPosition
  BY WInvKeepsLog DEF SoleInv
<1>4. QED BY <1>1, <1>2, <1>3, PTL DEF Spec
=============================================================================
