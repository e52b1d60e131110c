------------------------------ MODULE CBuffer ------------------------------
(***************************************************************************)
(* The ring buffer (cbuffer.c, cbuffer.h): bytes in an array that is read  *)
(* at tail and written at head, with one flag to tell a full ring from an  *)
(* empty one.  A call is one step: a function from the ring before to the  *)
(* ring after.  Calls that read, write, push, pop or discard hold the      *)
(* latch of the ring.  Move and copy between two rings and the first half  *)
(* of a file transfer take no latch (cbuffer.h:149), so that they are one  *)
(* step says that the caller lets one thread at a time at their rings: the *)
(* stream of the log does, under its own latch, and the one program that   *)
(* moves between rings (compiler_example.c) has one thread.  A transfer    *)
(* from or to a file is two calls, and the other side of the ring is used  *)
(* in between.                                                             *)
(***************************************************************************)
EXTENDS SequencesExt

CONSTANTS Rings,     \* the buffers
          RingCap,   \* ring -> size of its array
          RingBytes, \* the values of a byte
          MaxBytes   \* bytes a call is given or asked for at most

ASSUME CapAssumption == RingCap \in [Rings -> Nat \ {0}] /\ MaxBytes \in Nat

VARIABLES ring,  \* ring -> [data, cap, head, tail, full]
          half   \* the file transfer between its two calls: [way, q, bytes]

ringVars == <<ring, half>>

RingLen(b) == IF b.full THEN b.cap
              ELSE IF b.head >= b.tail THEN b.head - b.tail
              ELSE b.cap - (b.tail - b.head)
RingAvail(b) == b.cap - RingLen(b)

\* Bytes from tail, or free cells from head, up to the end of the array.
DataRun(b) == IF ~b.full /\ b.head > b.tail THEN b.head - b.tail ELSE b.cap - b.tail
RoomRun(b) == IF b.head >= b.tail THEN b.cap - b.head ELSE b.tail - b.head

\* n cells from a position on: one stretch or, past the end, two.
Stretch(at, n) == [k \in 1..n |-> at + k - 1]
Cells(at, run, n) == IF n <= run THEN Stretch(at, n) ELSE Stretch(at, run) \o Stretch(0, n - run)

Gather(b, cells) == [k \in DOMAIN cells |-> b.data[cells[k]]]
Scatter(b, cells, s) ==
  [c \in DOMAIN b.data |-> IF \E k \in DOMAIN s : cells[k] = c
                           THEN s[CHOOSE k \in DOMAIN s : cells[k] = c] ELSE b.data[c]]

\* head past n more bytes, and tail past n bytes that were read.
Filled(b, n)  == [b EXCEPT !.head = (@ + n) % b.cap,
                           !.full = IF n > 0 THEN (b.head + n) % b.cap = b.tail ELSE @]
\* Mutant: tail runs past the end of the array.
Bug_NoWrap(b, n) == [b EXCEPT !.tail = @ + n, !.full = @ /\ n = 0]
Dropped(b, n) == [b EXCEPT !.tail = (@ + n) % b.cap, !.full = @ /\ n = 0]

Stored(b, s) == [b EXCEPT !.data = Scatter(b, Cells(b.head, RoomRun(b), Len(s)), s)]
Put(b, s)    == Filled(Stored(b, s), Len(s))
Oldest(b, n) == Gather(b, Cells(b.tail, DataRun(b), n))

Smaller(x, y) == IF x < y THEN x ELSE y
Whole(n, size, some) == Smaller(n, some \div size) * size

Written(b, size, s) == Put(b, SubSeq(s, 1, Whole(Len(s) \div size, size, RingAvail(b))))
ReadCount(b, size, n) == Whole(n, size, RingLen(b))
Emptied(b) == [b EXCEPT !.head = 0, !.tail = 0, !.full = FALSE]

\* Mutant: the room of the destination is not asked for.
Bug_IgnoresRoom(src, dst, size, n) == Smaller(n, RingLen(src) \div size) * size
MoveCount(src, dst, size, n) ==
  Smaller(n, Smaller(RingLen(src) \div size, RingAvail(dst) \div size)) * size

\* One element, which may lie across the end of the array.
ElementCells(b, at, size) == Cells(at, b.cap - at, size)
Element(b, size, i) == Gather(b, ElementCells(b, (b.tail + i * size) % b.cap, size))

PushedBack(b, s) ==
  IF RingAvail(b) < Len(s) THEN b
  ELSE [b EXCEPT !.data = Scatter(b, ElementCells(b, b.head, Len(s)), s),
                 !.head = (@ + Len(s)) % b.cap,
                 !.full = @ \/ (b.head + Len(s)) % b.cap = b.tail]

NewTail(b, size) == (b.tail + b.cap - size) % b.cap
PushedFront(b, s) ==
  IF RingAvail(b) < Len(s) THEN b
  ELSE [b EXCEPT !.data = Scatter(b, ElementCells(b, NewTail(b, Len(s)), Len(s)), s),
                 !.tail = NewTail(b, Len(s)),
                 !.full = @ \/ b.head = NewTail(b, Len(s))]

\* cbuffer_pop_front and cbuffer_pop_back have one body: both take the oldest.
Popped(b, size) == [b EXCEPT !.tail = (@ + size) % b.cap, !.full = FALSE]
-----------------------------------------------------------------------------
\* The callers' side: what may be called on a ring between the two calls of
\* a transfer is what the other end of the queue does.
MayAppend(r) == ~(half.way = "in" /\ half.q = r)
MayTake(r)   == ~(half.way = "out" /\ half.q = r)
Alone(r)     == MayAppend(r) /\ MayTake(r)
WholeElements(b, size) == RingLen(b) % size = 0 /\ RingLen(b) > 0

Chunks == UNION {[1..n -> RingBytes] : n \in 1..MaxBytes}
Become(r, b) == ring' = [ring EXCEPT ![r] = b] /\ UNCHANGED half

cbuffer_write(r, size, s) == MayAppend(r) /\ Len(s) % size = 0 /\ Become(r, Written(ring[r], size, s))
cbuffer_read(r, size, n)  == MayTake(r) /\ Become(r, Dropped(ring[r], ReadCount(ring[r], size, n)))
cbuffer_discard_all(r)    == Alone(r) /\ Become(r, Emptied(ring[r]))
cbuffer_push_back(r, s)   == MayAppend(r) /\ Become(r, PushedBack(ring[r], s))
cbuffer_push_front(r, s)  == Alone(r) /\ Become(r, PushedFront(ring[r], s))
cbuffer_pop(r, size)      == MayTake(r) /\ WholeElements(ring[r], size) /\ Become(r, Popped(ring[r], size))

\* Without a latch on either ring: one step for a caller that is alone at both.
cbuffer_cbuffer_move(src, dst, size, n) ==
  /\ src # dst /\ MayTake(src) /\ MayAppend(dst) /\ UNCHANGED half
  /\ \E k \in {MoveCount(ring[src], ring[dst], size, n)} :
       ring' = [ring EXCEPT ![dst] = Put(@, Oldest(ring[src], k)), ![src] = Dropped(@, k)]

\* The same.
cbuffer_cbuffer_copy(src, dst, size, n) ==
  /\ src # dst /\ MayAppend(dst)
  /\ Become(dst, Put(ring[dst], Oldest(ring[src], MoveCount(ring[src], ring[dst], size, n))))

Begin(way, r, bytes) == half' = [way |-> way, q |-> r, bytes |-> bytes]
End(way) == half.way = way /\ half' = [way |-> "none", q |-> half.q, bytes |-> << >>]

cbuffer_write_to_file_1(r, n) ==
  /\ half.way = "none" /\ UNCHANGED ring
  /\ Begin("out", r, Oldest(ring[r], Smaller(RingLen(ring[r]), n)))

cbuffer_write_to_file_2 ==
  /\ End("out")
  /\ ring' = [ring EXCEPT ![half.q] = Dropped(@, Len(half.bytes))]

\* Mutant: the first call already moves head.
Bug_MovesHead(r, s) ==
  /\ half.way = "none" /\ Len(s) <= RingAvail(ring[r])
  /\ ring' = [ring EXCEPT ![r] = Put(@, s)] /\ Begin("in", r, s)

\* The file has the bytes s left; they go behind head, which stays.
cbuffer_read_from_file_1(r, s) ==
  /\ half.way = "none" /\ Len(s) <= RingAvail(ring[r])
  /\ ring' = [ring EXCEPT ![r] = Stored(@, s)]
  /\ Begin("in", r, s)

cbuffer_read_from_file_2 ==
  /\ End("in")
  /\ ring' = [ring EXCEPT ![half.q] = Filled(@, Len(half.bytes))]

\* cbuffer_create_with on an array that holds len bytes.
Created(cap, len, byte) == [data |-> [c \in 0..(cap - 1) |-> byte], cap |-> cap,
                            head |-> len % cap, tail |-> 0, full |-> len = cap]

CBufferInit ==
  /\ \E len \in [Rings -> 0..MaxBytes], byte \in RingBytes :
       ring = [r \in Rings |-> Created(RingCap[r], Smaller(len[r], RingCap[r]), byte)]
  /\ \E r \in Rings : half = [way |-> "none", q |-> r, bytes |-> << >>]

RingNext(r) ==
  \/ \E size \in 1..2 :
       \/ \E s \in Chunks : cbuffer_write(r, size, s)
       \/ \E n \in 1..MaxBytes : \/ cbuffer_read(r, size, n)
                                 \/ \E d \in Rings : \/ cbuffer_cbuffer_move(r, d, size, n)
                                                     \/ cbuffer_cbuffer_copy(r, d, size, n)
       \/ cbuffer_pop(r, size)
  \/ \E s \in Chunks : \/ cbuffer_push_back(r, s) \/ cbuffer_push_front(r, s)
                       \/ cbuffer_read_from_file_1(r, s)
  \/ cbuffer_discard_all(r)
  \/ \E n \in 1..MaxBytes : cbuffer_write_to_file_1(r, n)

CBufferNext == (\E r \in Rings : RingNext(r)) \/ cbuffer_write_to_file_2 \/ cbuffer_read_from_file_2

CBufferSpec == CBufferInit /\ [][CBufferNext]_ringVars
-----------------------------------------------------------------------------
\* Types, and what the debug assertion of cbuffer.h demands of every ring.
CBufferTypeOK ==
  /\ \A r \in Rings :
       /\ ring[r].data \in [0..(RingCap[r] - 1) -> RingBytes]
       /\ {ring[r].head, ring[r].tail} \subseteq 0..(ring[r].cap - 1)
       /\ ring[r].full \in BOOLEAN /\ (ring[r].full => ring[r].head = ring[r].tail)
  /\ half.way \in {"none", "in", "out"} /\ half.q \in Rings

\* The queue a ring stands for, and the same calls on a queue.
Content(b) == [k \in 1..RingLen(b) |-> b.data[(b.tail + k - 1) % b.cap]]
First(s, n) == SubSeq(s, 1, n)
Rest(s, n)  == SubSeq(s, n + 1, Len(s))

AppendsLast(b, size, s) ==
  \E n \in {Whole(Len(s) \div size, size, b.cap - Len(Content(b)))} :
    Content(Written(b, size, s)) = Content(b) \o First(s, n)
TakesFirst(b, size, n) ==
  \E k \in {ReadCount(b, size, n)} : /\ Oldest(b, k) = First(Content(b), k)
                                     /\ Content(Dropped(b, k)) = Rest(Content(b), k)
PushesWhole(b, s) ==
  IF Len(Content(b)) + Len(s) <= b.cap
  THEN Content(PushedBack(b, s)) = Content(b) \o s /\ Content(PushedFront(b, s)) = s \o Content(b)
  ELSE PushedBack(b, s) = b /\ PushedFront(b, s) = b
PopsElement(b, size) ==
  /\ Content(Popped(b, size)) = Rest(Content(b), size)
  /\ \A i \in 0..(Len(Content(b)) \div size - 1) :
       Element(b, size, i) = First(Rest(Content(b), i * size), size)
MovesOldest(b, dst, size, n) ==
  \E k \in {MoveCount(b, dst, size, n)} :
    Content(Put(dst, Oldest(b, k))) = Content(dst) \o First(Content(b), k)

\* Every call on a ring, full, empty or wrapped, takes, returns and leaves
\* what the same call on a sequence would: the two branches of each copy loop
\* and the flag that tells full from empty agree with each other.
RingIsQueue == \A r \in Rings, size \in 1..2 :
  /\ \A s \in Chunks : (Len(s) % size = 0 => AppendsLast(ring[r], size, s)) /\ PushesWhole(ring[r], s)
  /\ \A n \in 1..MaxBytes : TakesFirst(ring[r], size, n)
  /\ WholeElements(ring[r], size) => PopsElement(ring[r], size)
  /\ \A d \in Rings \ {r}, n \in 1..MaxBytes : MovesOldest(ring[r], ring[d], size, n)

\* Between the two calls of a file transfer the other side runs, and still
\* the second call drops exactly the bytes the first one wrote out, or makes
\* exactly the bytes it read in the newest of the ring.
TransferIsOneCall ==
  /\ half.way = "out" => First(Content(ring[half.q]), Len(half.bytes)) = half.bytes
  /\ half.way = "in" => Content(Filled(ring[half.q], Len(half.bytes)))
                          = Content(ring[half.q]) \o half.bytes
=============================================================================
