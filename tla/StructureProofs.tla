-------------------------- MODULE StructureProofs --------------------------
(***************************************************************************)
(* Theorems about the data structures whose calls are no folds.            *)
(*                                                                         *)
(* A ring buffer is a queue, for any sizes and any calls (RingsQueue), and *)
(* a file transfer of it is one call although the other side runs between  *)
(* its halves. A position past the end of the array is turned back once    *)
(* (TurnIsMod), so that the content, the copies in one stretch or two and  *)
(* the two bounds are all facts about the same cells. What is inductive is *)
(* that a full ring has head at tail (RingsOf) and that the bytes of a     *)
(* transfer under way lie at tail, or behind head (OutHolds, InHolds).     *)
(*                                                                         *)
(* A file transfer is whole, for any threads and cuts (TransfersWhole).    *)
(* What is inductive is that the bytes moved so far are in their places,   *)
(* those to come are untouched, and what is left of the vector is the rest *)
(* of the buffer (MovedSoFar, Ahead); other threads write elsewhere.       *)
(***************************************************************************)
EXTENDS MCStructures, SequenceTheorems, TLAPS

-----------------------------------------------------------------------------
(* The ring buffer.                                                        *)

\* A ring of c bytes; a full one has head at tail.
RingsOf(c) == {b \in [data : [0..(c - 1) -> RingBytes], cap : {c}, head : 0..(c - 1),
                      tail : 0..(c - 1), full : BOOLEAN] : b.full => b.head = b.tail}

\* The cell that is x cells behind the first, for less than two rounds.
Turn(c, x) == IF x < c THEN x ELSE x - c

LEMMA TurnIsMod ==
  ASSUME NEW c \in Nat \ {0}, NEW x \in 0..(2 * c - 1)
  PROVE  x % c = Turn(c, x) /\ Turn(c, x) \in 0..(c - 1)
<1>1. CASE x < c
  BY <1>1 DEF Turn
<1>2. CASE x >= c
  <2>1. x = 1 * c + (x - c) /\ x - c \in 0..(c - 1)
    BY <1>2
  <2>2. x % c = x - c
    BY <2>1, <1>2
  <2> QED
    BY <2>1, <2>2, <1>2 DEF Turn
<1> QED
  BY <1>1, <1>2

LEMMA TurnTwice ==
  ASSUME NEW c \in Nat \ {0}, NEW at \in 0..(c - 1), NEW n \in 0..c, NEW k \in Nat \ {0}, n + k <= c
  PROVE  Turn(c, Turn(c, at + n) + k - 1) = Turn(c, at + (n + k) - 1)
BY DEF Turn

LEMMA FunIsSeq ==
  ASSUME NEW S, NEW n \in Nat, NEW f \in [1..n -> S]
  PROVE  f \in Seq(S) /\ Len(f) = n
OBVIOUS

\* How much a ring holds, and where its content ends.
LEMMA LenAndHead ==
  ASSUME NEW c \in Nat \ {0}, NEW b \in RingsOf(c)
  PROVE  /\ RingLen(b) \in 0..c /\ RingAvail(b) = c - RingLen(b)
         /\ b.head = Turn(c, b.tail + RingLen(b))
         /\ b.full <=> RingLen(b) = c
BY DEF RingsOf, RingLen, RingAvail, Turn

\* The n cells from at on, around the end of the array.
Around(c, at, n, cells) ==
  /\ cells \in Seq(0..(c - 1)) /\ Len(cells) = n /\ DOMAIN cells = 1..n
  /\ \A k \in 1..n : cells[k] = Turn(c, at + k - 1)

\* The cells of a copy, whether it wraps or not.
LEMMA CellsAre ==
  ASSUME NEW c \in Nat \ {0}, NEW at \in 0..(c - 1), NEW n \in 0..c, NEW run \in Nat,
         run = c - at \/ (n <= run /\ run <= c - at)
  PROVE  Around(c, at, n, Cells(at, run, n))
<1> DEFINE N == 0..(c - 1)
<1>1. CASE n <= run
  <2>1. Stretch(at, n) \in [1..n -> N]
    BY <1>1 DEF Stretch
  <2>2. Stretch(at, n) \in Seq(N) /\ Len(Stretch(at, n)) = n /\ DOMAIN Stretch(at, n) = 1..n
    BY <2>1, FunIsSeq
  <2>3. \A k \in 1..n : Stretch(at, n)[k] = Turn(c, at + k - 1)
    BY <1>1 DEF Stretch, Turn
  <2> QED
    BY <1>1, <2>2, <2>3 DEF Cells, Around
<1>2. CASE ~(n <= run)
  <2>0. run = c - at /\ n - run \in Nat /\ n - run <= at
    BY <1>2
  <2>1. Stretch(at, run) \in [1..run -> N] /\ Stretch(0, n - run) \in [1..(n - run) -> N]
    BY <2>0 DEF Stretch
  <2>2. Stretch(at, run) \in Seq(N) /\ Len(Stretch(at, run)) = run
    BY <2>1, FunIsSeq
  <2>3. Stretch(0, n - run) \in Seq(N) /\ Len(Stretch(0, n - run)) = n - run
    BY <2>0, <2>1, FunIsSeq
  <2> DEFINE s == Stretch(at, run) \o Stretch(0, n - run)
  <2> HIDE DEF N, s
  <2>a. s \in Seq(N) /\ Len(s) = run + (n - run)
    BY <2>2, <2>3, ConcatProperties DEF s
  <2>b. \A k \in 1..(run + (n - run)) :
           s[k] = IF k <= run THEN Stretch(at, run)[k] ELSE Stretch(0, n - run)[k - run]
    BY <2>2, <2>3, ConcatProperties DEF s
  <2>4. s \in Seq(N) /\ Len(s) = n /\ n = run + (n - run)
    BY <2>0, <2>a
  <2>5. \A k \in 1..n : s[k] = IF k <= run THEN Stretch(at, run)[k] ELSE Stretch(0, n - run)[k - run]
    BY <2>4, <2>b
  <2>6. \A k \in 1..n : s[k] = Turn(c, at + k - 1)
    <3> TAKE k \in 1..n
    <3>1. CASE k <= run
      <4>1. Stretch(at, run)[k] = at + k - 1
        BY <3>1, <2>0 DEF Stretch
      <4>2. s[k] = at + k - 1
        BY <3>1, <4>1, <2>5
      <4> QED
        BY <3>1, <4>2, <2>0 DEF Turn
    <3>2. CASE ~(k <= run)
      <4>1. k - run \in 1..(n - run)
        BY <3>2, <2>0
      <4>2. Stretch(0, n - run)[k - run] = k - run - 1
        BY <4>1, <2>0 DEF Stretch
      <4>3. s[k] = k - run - 1
        BY <3>2, <4>2, <2>5
      <4> QED
        BY <3>2, <4>3, <2>0 DEF Turn
    <3> QED
      BY <3>1, <3>2
  <2>7. DOMAIN s = 1..n
    BY <2>4, LenProperties
  <2>8. Cells(at, run, n) = s
    BY <1>2 DEF Cells, s
  <2> QED
    BY <2>4, <2>6, <2>7, <2>8 DEF N, Around
<1> QED
  BY <1>1, <1>2

\* No two of them are the same.
LEMMA TurnsApart ==
  ASSUME NEW c \in Nat \ {0}, NEW at \in 0..(c - 1), NEW j \in 1..c, NEW k \in 1..c,
         Turn(c, at + j - 1) = Turn(c, at + k - 1)
  PROVE  j = k
BY DEF Turn

\* The cells behind head hold nothing.
LEMMA FreshCells ==
  ASSUME NEW c \in Nat \ {0}, NEW at \in 0..(c - 1), NEW len \in 0..c, NEW n \in 0..(c - len),
         NEW k \in 1..len, NEW j \in 1..n
  PROVE  Turn(c, Turn(c, at + len) + j - 1) # Turn(c, at + k - 1)
<1>1. j \in Nat \ {0} /\ len + j <= c /\ k \in 1..c /\ len + j \in 1..c /\ k # len + j
  OBVIOUS
<1>2. Turn(c, Turn(c, at + len) + j - 1) = Turn(c, at + (len + j) - 1)
  BY <1>1, TurnTwice
<1> QED
  BY <1>1, <1>2, TurnsApart

\* The runs of a ring are long enough.
LEMMA RunsFit ==
  ASSUME NEW c \in Nat \ {0}, NEW b \in RingsOf(c)
  PROVE  /\ DataRun(b) \in Nat /\ RoomRun(b) \in Nat
         /\ DataRun(b) = c - b.tail \/ (RingLen(b) <= DataRun(b) /\ DataRun(b) <= c - b.tail)
         /\ RoomRun(b) = c - b.head \/ (RingAvail(b) <= RoomRun(b) /\ RoomRun(b) <= c - b.head)
BY DEF RingsOf, RingLen, RingAvail, DataRun, RoomRun

\* The content, cell by cell.
LEMMA ContentIs ==
  ASSUME NEW c \in Nat \ {0}, NEW b \in RingsOf(c)
  PROVE  /\ Content(b) \in Seq(RingBytes) /\ Len(Content(b)) = RingLen(b)
         /\ \A k \in 1..RingLen(b) : Content(b)[k] = b.data[Turn(c, b.tail + k - 1)]
<1>1. RingLen(b) \in 0..c /\ b.tail \in 0..(c - 1) /\ b.cap = c /\ b.data \in [0..(c - 1) -> RingBytes]
  BY LenAndHead DEF RingsOf
<1>2. \A k \in 1..RingLen(b) : /\ (b.tail + k - 1) % b.cap = Turn(c, b.tail + k - 1)
                               /\ Turn(c, b.tail + k - 1) \in 0..(c - 1)
  <2> TAKE k \in 1..RingLen(b)
  <2>1. b.tail + k - 1 \in 0..(2 * c - 1)
    BY <1>1
  <2> QED
    BY <2>1, <1>1, TurnIsMod
<1>3. Content(b) \in [1..RingLen(b) -> RingBytes]
  BY <1>1, <1>2 DEF Content
<1>4. \A k \in 1..RingLen(b) : Content(b)[k] = b.data[Turn(c, b.tail + k - 1)]
  BY <1>2 DEF Content
<1> QED
  BY <1>1, <1>3, <1>4, FunIsSeq

\* The bytes g are those of the n cells from at on.
Copied(c, b, at, n, g) ==
  g \in Seq(RingBytes) /\ Len(g) = n /\ \A k \in 1..n : g[k] = b.data[Turn(c, at + k - 1)]

\* What a copy out of the ring has.
LEMMA GatherIs ==
  ASSUME NEW c \in Nat \ {0}, NEW b \in RingsOf(c), NEW at \in 0..(c - 1), NEW n \in 0..c,
         NEW run \in Nat, run = c - at \/ (n <= run /\ run <= c - at)
  PROVE  Copied(c, b, at, n, Gather(b, Cells(at, run, n)))
<1> DEFINE cells == Cells(at, run, n)
<1>1. cells \in Seq(0..(c - 1)) /\ DOMAIN cells = 1..n /\ \A k \in 1..n : cells[k] = Turn(c, at + k - 1)
  <2>1. Around(c, at, n, cells)
    BY CellsAre
  <2> QED
    BY <2>1 DEF Around
<1>2. \A k \in 1..n : Turn(c, at + k - 1) \in 0..(c - 1)
  BY DEF Turn
<1>3. b.data \in [0..(c - 1) -> RingBytes]
  BY DEF RingsOf
<1>4. Gather(b, cells) = [k \in 1..n |-> b.data[cells[k]]]
  BY <1>1 DEF Gather
<1> HIDE DEF cells
<1>5. Gather(b, cells) \in [1..n -> RingBytes]
  BY <1>1, <1>2, <1>3, <1>4
<1>6. \A k \in 1..n : Gather(b, cells)[k] = b.data[Turn(c, at + k - 1)]
  BY <1>1, <1>4
<1>7. n \in Nat
  OBVIOUS
<1>8. Gather(b, cells) \in Seq(RingBytes) /\ Len(Gather(b, cells)) = n
  BY <1>5, <1>7, FunIsSeq
<1> QED
  BY <1>6, <1>8 DEF cells, Copied

LEMMA OldestIsFirst ==
  ASSUME NEW c \in Nat \ {0}, NEW b \in RingsOf(c), NEW n \in 0..RingLen(b)
  PROVE  Oldest(b, n) = First(Content(b), n) /\ Oldest(b, n) \in Seq(RingBytes) /\ Len(Oldest(b, n)) = n
<1>1. /\ RingLen(b) \in 0..c /\ b.tail \in 0..(c - 1) /\ DataRun(b) \in Nat
      /\ DataRun(b) = c - b.tail \/ (n <= DataRun(b) /\ DataRun(b) <= c - b.tail)
  BY LenAndHead, RunsFit DEF RingsOf
<1>2. n \in 0..c
  BY <1>1
<1> DEFINE at == b.tail  run == DataRun(b)
<1> HIDE DEF at, run
<1>a. at \in 0..(c - 1) /\ run \in Nat /\ (run = c - at \/ (n <= run /\ run <= c - at))
  BY <1>1 DEF at, run
<1>b. Copied(c, b, at, n, Gather(b, Cells(at, run, n)))
  BY <1>a, <1>2, GatherIs
<1>3. /\ Oldest(b, n) \in Seq(RingBytes) /\ Len(Oldest(b, n)) = n
      /\ \A k \in 1..n : Oldest(b, n)[k] = b.data[Turn(c, b.tail + k - 1)]
  BY <1>b DEF Copied, Oldest, at, run
<1>4. \A k \in 1..n : Content(b)[k] = b.data[Turn(c, b.tail + k - 1)] /\ Content(b)[k] \in RingBytes
  BY <1>1, ContentIs, LenProperties
<1>5. /\ First(Content(b), n) \in Seq(RingBytes) /\ Len(First(Content(b), n)) = n
      /\ \A k \in 1..n : First(Content(b), n)[k] = Content(b)[k]
  BY <1>2, <1>4, SubSeqProperties DEF First
<1>6. \A k \in 1..n : Oldest(b, n)[k] = First(Content(b), n)[k]
  BY <1>3, <1>4, <1>5
<1> HIDE DEF First, Oldest
<1> QED
  BY <1>3, <1>5, <1>6, SeqEqual

\* The array d has s in the cells from at on, and else what b has.
Landed(c, b, at, s, d) ==
  /\ d \in [0..(c - 1) -> RingBytes]
  /\ \A k \in 1..Len(s) : d[Turn(c, at + k - 1)] = s[k]
  /\ \A x \in 0..(c - 1) : (\A k \in 1..Len(s) : Turn(c, at + k - 1) # x) => d[x] = b.data[x]

\* What a copy into the ring leaves.
LEMMA ScatterIs ==
  ASSUME NEW c \in Nat \ {0}, NEW b \in RingsOf(c), NEW at \in 0..(c - 1),
         NEW s \in Seq(RingBytes), NEW n \in 0..c, n = Len(s),
         NEW run \in Nat, run = c - at \/ (n <= run /\ run <= c - at),
         NEW d, d = Scatter(b, Cells(at, run, n), s)
  PROVE  Landed(c, b, at, s, d)
<1> DEFINE cells == Cells(at, run, n)
           hit(x) == \E k \in DOMAIN s : cells[k] = x
           pick(x) == CHOOSE k \in DOMAIN s : cells[k] = x
<1>1. DOMAIN s = 1..n /\ \A k \in 1..n : s[k] \in RingBytes
  BY LenProperties
<1>2. \A k \in 1..n : cells[k] = Turn(c, at + k - 1) /\ cells[k] \in 0..(c - 1)
  <2>1. \A k \in 1..n : cells[k] = Turn(c, at + k - 1)
    <3>1. Around(c, at, n, cells)
      BY CellsAre
    <3> QED
      BY <3>1 DEF Around
  <2>2. \A k \in 1..n : Turn(c, at + k - 1) \in 0..(c - 1)
    BY DEF Turn
  <2> QED
    BY <2>1, <2>2
<1>3. b.data \in [0..(c - 1) -> RingBytes]
  BY DEF RingsOf
<1>4. d = [x \in 0..(c - 1) |-> IF hit(x) THEN s[pick(x)] ELSE b.data[x]]
  BY <1>3 DEF Scatter
<1> HIDE DEF cells
<1>5. \A x \in 0..(c - 1) : hit(x) => pick(x) \in 1..n /\ cells[pick(x)] = x
  BY <1>1
<1>6. \A k \in 1..n : hit(cells[k]) /\ pick(cells[k]) = k
  <2> TAKE k \in 1..n
  <2>1. hit(cells[k])
    BY <1>1
  <2>2. pick(cells[k]) \in 1..n /\ cells[pick(cells[k])] = cells[k]
    BY <1>2, <1>5, <2>1
  <2> DEFINE j == pick(cells[k])
  <2>3. j \in 1..c /\ k \in 1..c /\ Turn(c, at + j - 1) = Turn(c, at + k - 1)
    BY <2>2, <1>2
  <2>4. j = k
    <3> HIDE DEF j
    <3> QED
      BY <2>3, TurnsApart
  <2> QED
    BY <2>1, <2>4
<1> HIDE DEF hit, pick
<1>7. d \in [0..(c - 1) -> RingBytes]
  BY <1>1, <1>3, <1>4, <1>5
<1>8. \A k \in 1..n : d[Turn(c, at + k - 1)] = s[k]
  BY <1>2, <1>4, <1>6
<1>9. ASSUME NEW x \in 0..(c - 1), \A k \in 1..n : Turn(c, at + k - 1) # x
      PROVE  d[x] = b.data[x]
  <2>1. ~hit(x)
    BY <1>1, <1>2, <1>9 DEF hit
  <2> QED
    BY <2>1, <1>4
<1> QED
  BY <1>7, <1>8, <1>9 DEF Landed

\* A ring whose tail is another's and that has s behind the other's content.
LEMMA GrownBehind ==
  ASSUME NEW c \in Nat \ {0}, NEW b \in RingsOf(c), NEW d \in RingsOf(c), NEW s \in Seq(RingBytes),
         d.tail = b.tail, RingLen(d) = RingLen(b) + Len(s),
         \A k \in 1..RingLen(b) : d.data[Turn(c, b.tail + k - 1)] = b.data[Turn(c, b.tail + k - 1)],
         \A k \in 1..Len(s) : d.data[Turn(c, b.head + k - 1)] = s[k]
  PROVE  Content(d) = Content(b) \o s
<1>1. RingLen(b) \in 0..c /\ RingLen(d) \in 0..c /\ b.tail \in 0..(c - 1) /\ Len(s) \in Nat
      /\ b.head = Turn(c, b.tail + RingLen(b))
  BY LenAndHead, LenProperties DEF RingsOf
<1>2. /\ Content(b) \in Seq(RingBytes) /\ Len(Content(b)) = RingLen(b)
      /\ \A k \in 1..RingLen(b) : Content(b)[k] = b.data[Turn(c, b.tail + k - 1)]
  BY ContentIs
<1>3. /\ Content(d) \in Seq(RingBytes) /\ Len(Content(d)) = RingLen(d)
      /\ \A k \in 1..RingLen(d) : Content(d)[k] = d.data[Turn(c, b.tail + k - 1)]
  BY ContentIs
<1> DEFINE u == Content(b)  t == u \o s
<1>a. u \in Seq(RingBytes) /\ Len(u) = RingLen(b)
  BY <1>2
<1> HIDE DEF u
<1>b. /\ t \in Seq(RingBytes) /\ Len(t) = Len(u) + Len(s)
      /\ \A k \in 1..(Len(u) + Len(s)) : t[k] = IF k <= Len(u) THEN u[k] ELSE s[k - Len(u)]
  BY <1>a, ConcatProperties
<1>4. /\ t \in Seq(RingBytes) /\ Len(t) = RingLen(d)
      /\ \A k \in 1..RingLen(d) : t[k] = IF k <= RingLen(b) THEN Content(b)[k] ELSE s[k - RingLen(b)]
  BY <1>a, <1>b DEF u
<1> HIDE DEF t
<1>5. ASSUME NEW k \in 1..RingLen(d) PROVE Content(d)[k] = t[k]
  <2>1. CASE k <= RingLen(b)
    <3>1. k \in 1..RingLen(b)
      BY <2>1, <1>1
    <3> QED
      BY <2>1, <3>1, <1>2, <1>3, <1>4
  <2>2. CASE ~(k <= RingLen(b))
    <3> DEFINE j == k - RingLen(b)
    <3>1. j \in 1..Len(s)
      BY <2>2, <1>1
    <3>2. Turn(c, b.head + j - 1) = Turn(c, b.tail + k - 1)
      <4>1. RingLen(b) + j = k /\ RingLen(b) + j <= c /\ j \in Nat \ {0}
        BY <3>1, <2>2, <1>1
      <4> HIDE DEF j
      <4>2. Turn(c, Turn(c, b.tail + RingLen(b)) + j - 1) = Turn(c, b.tail + (RingLen(b) + j) - 1)
        BY <4>1, <1>1, TurnTwice
      <4> QED
        BY <4>1, <4>2, <1>1
    <3>3. d.data[Turn(c, b.head + j - 1)] = s[j]
      <4> HIDE DEF j
      <4> QED
        BY <3>1
    <3> QED
      BY <2>2, <3>2, <3>3, <1>3, <1>4
  <2> QED
    BY <2>1, <2>2
<1> QED
  BY <1>3, <1>4, <1>5, SeqEqual DEF t, u

\* The same in front.
LEMMA GrownInFront ==
  ASSUME NEW c \in Nat \ {0}, NEW b \in RingsOf(c), NEW d \in RingsOf(c), NEW s \in Seq(RingBytes),
         b.tail = Turn(c, d.tail + Len(s)), RingLen(d) = RingLen(b) + Len(s),
         \A k \in 1..RingLen(b) : d.data[Turn(c, b.tail + k - 1)] = b.data[Turn(c, b.tail + k - 1)],
         \A k \in 1..Len(s) : d.data[Turn(c, d.tail + k - 1)] = s[k]
  PROVE  Content(d) = s \o Content(b)
<1>1. RingLen(b) \in 0..c /\ RingLen(d) \in 0..c /\ d.tail \in 0..(c - 1) /\ Len(s) \in Nat
  BY LenAndHead, LenProperties DEF RingsOf
<1>2. /\ Content(b) \in Seq(RingBytes) /\ Len(Content(b)) = RingLen(b)
      /\ \A k \in 1..RingLen(b) : Content(b)[k] = b.data[Turn(c, b.tail + k - 1)]
  BY ContentIs
<1>3. /\ Content(d) \in Seq(RingBytes) /\ Len(Content(d)) = RingLen(d)
      /\ \A k \in 1..RingLen(d) : Content(d)[k] = d.data[Turn(c, d.tail + k - 1)]
  BY ContentIs
<1> DEFINE u == Content(b)  t == s \o u
<1>a. u \in Seq(RingBytes) /\ Len(u) = RingLen(b)
  BY <1>2
<1> HIDE DEF u
<1>b. /\ t \in Seq(RingBytes) /\ Len(t) = Len(s) + Len(u)
      /\ \A k \in 1..(Len(s) + Len(u)) : t[k] = IF k <= Len(s) THEN s[k] ELSE u[k - Len(s)]
  BY <1>a, ConcatProperties
<1>4. /\ t \in Seq(RingBytes) /\ Len(t) = Len(s) + RingLen(b)
      /\ \A k \in 1..(Len(s) + RingLen(b)) : t[k] = IF k <= Len(s) THEN s[k] ELSE Content(b)[k - Len(s)]
  BY <1>a, <1>b DEF u
<1> HIDE DEF t
<1>5. ASSUME NEW k \in 1..RingLen(d) PROVE Content(d)[k] = t[k]
  <2>0. k \in 1..(Len(s) + RingLen(b))
    BY <1>1
  <2>1. CASE k <= Len(s)
    <3>1. k \in 1..Len(s)
      BY <2>1, <1>1
    <3> QED
      BY <2>0, <2>1, <3>1, <1>3, <1>4
  <2>2. CASE ~(k <= Len(s))
    <3> DEFINE j == k - Len(s)
    <3>1. j \in 1..RingLen(b)
      BY <2>2, <1>1
    <3>2. Turn(c, b.tail + j - 1) = Turn(c, d.tail + k - 1)
      BY <3>1, <1>1 DEF Turn
    <3>3. t[k] = Content(b)[j]
      BY <2>0, <2>2, <1>4
    <3>4. d.data[Turn(c, b.tail + j - 1)] = b.data[Turn(c, b.tail + j - 1)]
      <4> HIDE DEF j
      <4> QED
        BY <3>1
    <3> QED
      BY <3>1, <3>2, <3>3, <3>4, <1>2, <1>3
  <2> QED
    BY <2>1, <2>2
<1>6. Len(t) = RingLen(d)
  BY <1>1, <1>4
<1> QED
  BY <1>3, <1>4, <1>5, <1>6, SeqEqual DEF t, u

\* head past n more bytes.
LEMMA FilledIs ==
  ASSUME NEW c \in Nat \ {0}, NEW b \in RingsOf(c), NEW n \in 0..RingAvail(b)
  PROVE  /\ Filled(b, n) \in RingsOf(c) /\ RingLen(Filled(b, n)) = RingLen(b) + n
         /\ Filled(b, n).tail = b.tail /\ Filled(b, n).data = b.data
<1>1. /\ RingLen(b) \in 0..c /\ RingAvail(b) = c - RingLen(b) /\ b.head = Turn(c, b.tail + RingLen(b))
      /\ b.head \in 0..(c - 1) /\ b.tail \in 0..(c - 1) /\ b.cap = c /\ b.full \in BOOLEAN
      /\ (b.full <=> RingLen(b) = c)
  BY LenAndHead DEF RingsOf
<1>2. (b.head + n) % b.cap = Turn(c, b.head + n) /\ Turn(c, b.head + n) \in 0..(c - 1)
  <2>1. b.head + n \in 0..(2 * c - 1)
    BY <1>1
  <2> QED
    BY <2>1, <1>1, TurnIsMod
<1> DEFINE d == Filled(b, n)
<1>3. d = [b EXCEPT !.head = Turn(c, b.head + n), !.full = IF n > 0 THEN Turn(c, b.head + n) = b.tail ELSE @]
  BY <1>2 DEF Filled, RingsOf
<1>4. /\ d.head = Turn(c, b.head + n) /\ d.tail = b.tail /\ d.data = b.data /\ d.cap = c
      /\ d.full = (IF n > 0 THEN Turn(c, b.head + n) = b.tail ELSE b.full)
  BY <1>1, <1>3 DEF RingsOf
<1>5. d.full => d.head = d.tail
  BY <1>1, <1>4 DEF Turn
<1>6. d \in RingsOf(c)
  <2>1. d \in [data : [0..(c - 1) -> RingBytes], cap : {c}, head : 0..(c - 1), tail : 0..(c - 1), full : BOOLEAN]
    BY <1>1, <1>2, <1>3 DEF RingsOf
  <2> HIDE DEF d
  <2> QED
    BY <2>1, <1>5 DEF RingsOf
<1>7. RingLen(d) = RingLen(b) + n
  <2>1. RingLen(d) = IF d.full THEN c ELSE IF d.head >= b.tail THEN d.head - b.tail ELSE c - (b.tail - d.head)
    BY <1>4 DEF RingLen
  <2> HIDE DEF d
  <2>2. CASE n = 0
    <3>1. d.head = b.head
      BY <2>2, <1>1, <1>4 DEF Turn
    <3>2. d.full = b.full
      BY <2>2, <1>4
    <3> QED
      BY <2>1, <2>2, <3>1, <3>2, <1>1 DEF RingLen
  <2>3. CASE n > 0
    <3>1. d.full <=> Turn(c, b.head + n) = b.tail
      BY <2>3, <1>4
    <3> QED
      BY <2>1, <2>3, <3>1, <1>1, <1>4 DEF Turn
  <2> QED
    BY <2>2, <2>3
<1> QED
  BY <1>4, <1>6, <1>7

\* tail past n bytes that were read.
LEMMA DroppedIs ==
  ASSUME NEW c \in Nat \ {0}, NEW b \in RingsOf(c), NEW n \in 0..RingLen(b)
  PROVE  /\ Dropped(b, n) \in RingsOf(c) /\ RingLen(Dropped(b, n)) = RingLen(b) - n
         /\ Dropped(b, n).tail = Turn(c, b.tail + n)
         /\ Dropped(b, n).head = b.head /\ Dropped(b, n).data = b.data
<1>1. /\ RingLen(b) \in 0..c /\ b.head = Turn(c, b.tail + RingLen(b))
      /\ b.head \in 0..(c - 1) /\ b.tail \in 0..(c - 1) /\ b.cap = c /\ b.full \in BOOLEAN
      /\ (b.full <=> RingLen(b) = c)
  BY LenAndHead DEF RingsOf
<1>2. (b.tail + n) % b.cap = Turn(c, b.tail + n) /\ Turn(c, b.tail + n) \in 0..(c - 1)
  <2>1. b.tail + n \in 0..(2 * c - 1)
    BY <1>1
  <2> QED
    BY <2>1, <1>1, TurnIsMod
<1> DEFINE d == Dropped(b, n)
<1>3. d = [b EXCEPT !.tail = Turn(c, b.tail + n), !.full = b.full /\ n = 0]
  BY <1>2 DEF Dropped, RingsOf
<1>4. /\ d.tail = Turn(c, b.tail + n) /\ d.head = b.head /\ d.data = b.data /\ d.cap = c
      /\ d.full = (b.full /\ n = 0)
  BY <1>1, <1>3 DEF RingsOf
<1>5. d.full => d.head = d.tail
  <2>1. d.full => b.full /\ n = 0
    BY <1>4
  <2>2. n = 0 => Turn(c, b.tail + n) = b.tail
    BY <1>1 DEF Turn
  <2>3. b.full => b.head = b.tail
    BY DEF RingsOf
  <2> QED
    BY <2>1, <2>2, <2>3, <1>4
<1>6. d \in RingsOf(c)
  <2>1. d \in [data : [0..(c - 1) -> RingBytes], cap : {c}, head : 0..(c - 1), tail : 0..(c - 1), full : BOOLEAN]
    BY <1>1, <1>2, <1>3 DEF RingsOf
  <2> HIDE DEF d
  <2> QED
    BY <2>1, <1>5 DEF RingsOf
<1>7. RingLen(d) = RingLen(b) - n
  <2>1. RingLen(d) = IF d.full THEN c ELSE IF b.head >= d.tail THEN b.head - d.tail ELSE c - (d.tail - b.head)
    BY <1>4 DEF RingLen
  <2> HIDE DEF d
  <2>2. d.full <=> b.full /\ n = 0
    BY <1>4
  <2> QED
    BY <2>1, <2>2, <1>1, <1>4 DEF Turn
<1> QED
  BY <1>4, <1>6, <1>7

\* Bytes behind head: the content stays, and head comes to them.
LEMMA StoredIs ==
  ASSUME NEW c \in Nat \ {0}, NEW b \in RingsOf(c), NEW s \in Seq(RingBytes), Len(s) <= RingAvail(b)
  PROVE  /\ Stored(b, s) \in RingsOf(c) /\ RingLen(Stored(b, s)) = RingLen(b)
         /\ Stored(b, s).tail = b.tail /\ Stored(b, s).head = b.head
         /\ \A k \in 1..RingLen(b) : Stored(b, s).data[Turn(c, b.tail + k - 1)] = b.data[Turn(c, b.tail + k - 1)]
         /\ \A k \in 1..Len(s) : Stored(b, s).data[Turn(c, b.head + k - 1)] = s[k]
<1> DEFINE n == Len(s)  run == RoomRun(b)  at == b.head
           D == Scatter(b, Cells(at, run, n), s)
           d == Stored(b, s)
<1>1. /\ RingLen(b) \in 0..c /\ RingAvail(b) = c - RingLen(b) /\ at = Turn(c, b.tail + RingLen(b))
      /\ at \in 0..(c - 1) /\ b.tail \in 0..(c - 1) /\ n \in 0..c /\ n <= RingAvail(b)
  BY LenAndHead, LenProperties DEF RingsOf
<1>2. run \in Nat /\ (run = c - at \/ (n <= run /\ run <= c - at))
  BY <1>1, RunsFit
<1>3. d = [b EXCEPT !.data = D]
  BY DEF Stored
<1>4. n = Len(s)
  OBVIOUS
<1>a. D = Scatter(b, Cells(at, run, n), s)
  OBVIOUS
<1> HIDE DEF D, n, run, at
<1>5. /\ D \in [0..(c - 1) -> RingBytes]
      /\ \A k \in 1..n : D[Turn(c, at + k - 1)] = s[k]
      /\ \A x \in 0..(c - 1) : (\A k \in 1..n : Turn(c, at + k - 1) # x) => D[x] = b.data[x]
  <2>1. n \in 0..c /\ at \in 0..(c - 1)
    BY <1>1
  <2>2. Landed(c, b, at, s, D)
    BY <2>1, <1>2, <1>4, <1>a, ScatterIs
  <2> QED
    BY <2>2, <1>4 DEF Landed
<1>6. d \in RingsOf(c) /\ d.data = D /\ d.tail = b.tail /\ d.head = b.head /\ d.full = b.full /\ d.cap = b.cap
  BY <1>3, <1>5 DEF RingsOf
<1>7. RingLen(d) = RingLen(b)
  BY <1>6 DEF RingLen
<1>8. ASSUME NEW k \in 1..RingLen(b) PROVE D[Turn(c, b.tail + k - 1)] = b.data[Turn(c, b.tail + k - 1)]
  <2>1. Turn(c, b.tail + k - 1) \in 0..(c - 1)
    BY <1>1 DEF Turn
  <2>2. ASSUME NEW j \in 1..n PROVE Turn(c, at + j - 1) # Turn(c, b.tail + k - 1)
    <3>1. /\ n \in 0..(c - RingLen(b)) /\ b.tail \in 0..(c - 1) /\ RingLen(b) \in 0..c
          /\ at = Turn(c, b.tail + RingLen(b))
      BY <1>1
    <3>2. Turn(c, Turn(c, b.tail + RingLen(b)) + j - 1) # Turn(c, b.tail + k - 1)
      BY <3>1, FreshCells
    <3> QED
      BY <3>1, <3>2
  <2> QED
    BY <2>1, <2>2, <1>5
<1> QED
  BY <1>5, <1>6, <1>7, <1>8 DEF n, at

LEMMA PutAppends ==
  ASSUME NEW c \in Nat \ {0}, NEW b \in RingsOf(c), NEW s \in Seq(RingBytes), Len(s) <= RingAvail(b)
  PROVE  Put(b, s) \in RingsOf(c) /\ Content(Put(b, s)) = Content(b) \o s
<1> DEFINE m == Stored(b, s)  d == Put(b, s)
<1>1. /\ m \in RingsOf(c) /\ RingLen(m) = RingLen(b) /\ m.tail = b.tail /\ m.head = b.head
      /\ \A k \in 1..RingLen(b) : m.data[Turn(c, b.tail + k - 1)] = b.data[Turn(c, b.tail + k - 1)]
      /\ \A k \in 1..Len(s) : m.data[Turn(c, b.head + k - 1)] = s[k]
  BY StoredIs
<1>2. RingAvail(m) = RingAvail(b) /\ Len(s) \in 0..RingAvail(m)
  BY <1>1, LenAndHead, LenProperties
<1>3. d = Filled(m, Len(s))
  BY DEF Put
<1> HIDE DEF m, d
<1>4. d \in RingsOf(c) /\ RingLen(d) = RingLen(b) + Len(s) /\ d.tail = b.tail /\ d.data = m.data
  BY <1>1, <1>2, <1>3, FilledIs
<1>5. Content(d) = Content(b) \o s
  <2>1. /\ \A k \in 1..RingLen(b) : d.data[Turn(c, b.tail + k - 1)] = b.data[Turn(c, b.tail + k - 1)]
        /\ \A k \in 1..Len(s) : d.data[Turn(c, b.head + k - 1)] = s[k]
    BY <1>1, <1>4
  <2> QED
    BY <2>1, <1>4, GrownBehind
<1> QED
  BY <1>4, <1>5 DEF d

LEMMA DroppedLeavesRest ==
  ASSUME NEW c \in Nat \ {0}, NEW b \in RingsOf(c), NEW d \in RingsOf(c), NEW n \in 0..RingLen(b),
         RingLen(d) = RingLen(b) - n, d.tail = Turn(c, b.tail + n), d.data = b.data
  PROVE  Content(d) = Rest(Content(b), n)
<1>1. RingLen(b) \in 0..c /\ RingLen(d) \in 0..c /\ b.tail \in 0..(c - 1)
  BY LenAndHead DEF RingsOf
<1>2. /\ Content(b) \in Seq(RingBytes) /\ Len(Content(b)) = RingLen(b)
      /\ \A k \in 1..RingLen(b) : Content(b)[k] = b.data[Turn(c, b.tail + k - 1)] /\ Content(b)[k] \in RingBytes
  BY ContentIs, LenProperties
<1>3. /\ Content(d) \in Seq(RingBytes) /\ Len(Content(d)) = RingLen(d)
      /\ \A k \in 1..RingLen(d) : Content(d)[k] = b.data[Turn(c, d.tail + k - 1)]
  BY ContentIs
<1> DEFINE t == SubSeq(Content(b), n + 1, RingLen(b))
<1>4. n + 1 \in Int /\ RingLen(b) \in Int /\ \A i \in (n + 1)..RingLen(b) : Content(b)[i] \in RingBytes
  BY <1>1, <1>2
<1>5. /\ t \in Seq(RingBytes) /\ Len(t) = (IF n + 1 <= RingLen(b) THEN RingLen(b) - (n + 1) + 1 ELSE 0)
      /\ \A i \in 1..(RingLen(b) - (n + 1) + 1) : t[i] = Content(b)[(n + 1) + i - 1]
  BY <1>4, SubSeqProperties
<1> HIDE DEF t
<1>6. Len(t) = RingLen(d)
  BY <1>1, <1>5
<1>7. ASSUME NEW k \in 1..RingLen(d) PROVE Content(d)[k] = t[k]
  <2>1. k \in 1..(RingLen(b) - (n + 1) + 1) /\ n + k \in 1..RingLen(b) /\ (n + 1) + k - 1 = n + k
    BY <1>1
  <2>2. t[k] = Content(b)[n + k]
    BY <2>1, <1>5
  <2>3. Turn(c, d.tail + k - 1) = Turn(c, b.tail + (n + k) - 1)
    BY <1>1, <2>1 DEF Turn
  <2> QED
    BY <2>1, <2>2, <2>3, <1>2, <1>3
<1>8. Content(d) = t
  BY <1>3, <1>5, <1>6, <1>7, SeqEqual
<1> QED
  BY <1>2, <1>8 DEF t, Rest

\* How many bytes whole elements have.
LEMMA WholeFits ==
  ASSUME NEW size \in 1..2, NEW n \in Nat, NEW some \in Nat
  PROVE  /\ Whole(n, size, some) \in 0..some /\ Whole(n, size, some) <= n * size
         /\ (some \div size) * size <= some /\ some \div size \in Nat
         /\ Smaller(n, some) \in 0..some /\ Smaller(n, some) <= n
<1>1. CASE size = 1
  BY <1>1 DEF Whole, Smaller
<1>2. CASE size = 2
  BY <1>2 DEF Whole, Smaller
<1> QED
  BY <1>1, <1>2

LEMMA FirstBytes ==
  ASSUME NEW s \in Seq(RingBytes), NEW n \in 0..Len(s)
  PROVE  First(s, n) \in Seq(RingBytes) /\ Len(First(s, n)) = n /\ \A k \in 1..n : First(s, n)[k] = s[k]
<1>1. \A i \in 1..n : s[i] \in RingBytes
  BY LenProperties
<1>2. 1 \in Int /\ n \in Int /\ n \in Nat
  BY LenProperties
<1>3. /\ SubSeq(s, 1, n) \in Seq(RingBytes) /\ Len(SubSeq(s, 1, n)) = (IF 1 <= n THEN n - 1 + 1 ELSE 0)
      /\ \A i \in 1..(n - 1 + 1) : SubSeq(s, 1, n)[i] = s[1 + i - 1]
  BY <1>1, <1>2, SubSeqProperties
<1> QED
  BY <1>2, <1>3 DEF First

\* What either side of a transfer does to the ring.
Appended(b, d) == \E s \in Seq(RingBytes) : Content(d) = Content(b) \o s
Taken(b, d)    == d.head = b.head /\ d.data = b.data /\ RingLen(d) <= RingLen(b)

LEMMA WritesAppend ==
  ASSUME NEW c \in Nat \ {0}, NEW b \in RingsOf(c), NEW size \in 1..2, NEW s \in Seq(RingBytes)
  PROVE  /\ AppendsLast(b, size, s) /\ Written(b, size, s) \in RingsOf(c)
         /\ Appended(b, Written(b, size, s))
<1> DEFINE m == Len(s) \div size
           n == Whole(m, size, RingAvail(b))
<1>1. RingLen(b) \in 0..c /\ RingAvail(b) = c - RingLen(b) /\ Len(s) \in Nat /\ b.cap = c
  BY LenAndHead, LenProperties DEF RingsOf
<1>2. m \in Nat /\ m * size <= Len(s)
  BY <1>1, WholeFits
<1> HIDE DEF m
<1> DEFINE room == RingAvail(b)
<1>a. m \in Nat /\ room \in Nat
  BY <1>1, <1>2
<1> HIDE DEF room
<1>b. Whole(m, size, room) \in 0..room /\ Whole(m, size, room) <= m * size
  BY <1>a, WholeFits
<1>3. n \in 0..RingAvail(b) /\ n <= m * size
  BY <1>b DEF room
<1> HIDE DEF n
<1>4. m * size \in Int
  BY <1>2
<1>5. n \in 0..Len(s)
  BY <1>1, <1>2, <1>3, <1>4
<1>6. First(s, n) \in Seq(RingBytes) /\ Len(First(s, n)) = n
  BY <1>5, FirstBytes
<1>7. Written(b, size, s) = Put(b, First(s, n))
  BY DEF Written, First, n, m
<1>8. Len(First(s, n)) <= RingAvail(b)
  BY <1>1, <1>3, <1>6
<1>9. Put(b, First(s, n)) \in RingsOf(c) /\ Content(Put(b, First(s, n))) = Content(b) \o First(s, n)
  BY <1>6, <1>8, PutAppends
<1>10. Len(Content(b)) = RingLen(b)
  BY ContentIs
<1>11. n = Whole(Len(s) \div size, size, b.cap - Len(Content(b)))
  BY <1>1, <1>10 DEF n, m
<1> QED
  BY <1>6, <1>7, <1>9, <1>11 DEF AppendsLast, Appended

LEMMA DropsTakeFirst ==
  ASSUME NEW c \in Nat \ {0}, NEW b \in RingsOf(c), NEW n \in 0..RingLen(b)
  PROVE  /\ Oldest(b, n) = First(Content(b), n) /\ Content(Dropped(b, n)) = Rest(Content(b), n)
         /\ Dropped(b, n) \in RingsOf(c)
<1> DEFINE d == Dropped(b, n)
<1>1. /\ d \in RingsOf(c) /\ RingLen(d) = RingLen(b) - n /\ d.tail = Turn(c, b.tail + n) /\ d.data = b.data
  BY DroppedIs
<1> HIDE DEF d
<1>2. Content(d) = Rest(Content(b), n)
  BY <1>1, DroppedLeavesRest
<1> QED
  BY <1>1, <1>2, OldestIsFirst DEF d

LEMMA ReadsTakeFirst ==
  ASSUME NEW c \in Nat \ {0}, NEW b \in RingsOf(c), NEW size \in 1..2, NEW n \in Nat
  PROVE  TakesFirst(b, size, n) /\ ReadCount(b, size, n) \in 0..RingLen(b)
<1>1. RingLen(b) \in Nat
  BY LenAndHead
<1>2. ReadCount(b, size, n) \in 0..RingLen(b)
  BY <1>1, WholeFits DEF ReadCount
<1> QED
  BY <1>2, DropsTakeFirst DEF TakesFirst

LEMMA MovesTakeOldest ==
  ASSUME NEW c \in Nat \ {0}, NEW b \in RingsOf(c), NEW e \in Nat \ {0}, NEW d \in RingsOf(e),
         NEW size \in 1..2, NEW n \in Nat
  PROVE  /\ MovesOldest(b, d, size, n) /\ MoveCount(b, d, size, n) \in 0..RingLen(b)
         /\ Put(d, Oldest(b, MoveCount(b, d, size, n))) \in RingsOf(e)
<1> DEFINE k == MoveCount(b, d, size, n)  s == Oldest(b, k)
<1>1. RingLen(b) \in Nat /\ RingAvail(d) \in Nat
  BY LenAndHead
<1>2. k \in 0..RingLen(b) /\ k <= RingAvail(d)
  <2>1. CASE size = 1
    BY <2>1, <1>1 DEF MoveCount, Smaller
  <2>2. CASE size = 2
    BY <2>2, <1>1 DEF MoveCount, Smaller
  <2> QED
    BY <2>1, <2>2
<1> HIDE DEF k
<1>3. s = First(Content(b), k) /\ s \in Seq(RingBytes) /\ Len(s) = k
  BY <1>2, OldestIsFirst
<1> HIDE DEF s
<1>4. Put(d, s) \in RingsOf(e) /\ Content(Put(d, s)) = Content(d) \o s
  BY <1>2, <1>3, PutAppends
<1> QED
  BY <1>2, <1>3, <1>4 DEF MovesOldest, k, s

LEMMA PushBackAppends ==
  ASSUME NEW c \in Nat \ {0}, NEW b \in RingsOf(c), NEW s \in Seq(RingBytes),
         Len(s) > 0, Len(s) <= RingAvail(b)
  PROVE  PushedBack(b, s) \in RingsOf(c) /\ Content(PushedBack(b, s)) = Content(b) \o s
<1> DEFINE n == Len(s)  at == b.head  run == c - at
           D == Scatter(b, Cells(at, run, n), s)
           m == [b EXCEPT !.data = D]
           d == PushedBack(b, s)
<1>1. /\ RingLen(b) \in 0..c /\ RingAvail(b) = c - RingLen(b) /\ at = Turn(c, b.tail + RingLen(b))
      /\ at \in 0..(c - 1) /\ b.tail \in 0..(c - 1) /\ n \in 0..c /\ n <= RingAvail(b) /\ b.cap = c
      /\ ~b.full /\ b.full \in BOOLEAN /\ n > 0
  BY LenAndHead, LenProperties DEF RingsOf
<1>2. run \in Nat /\ run = c - at
  BY <1>1
<1>3. n = Len(s)
  OBVIOUS
<1>4. D = Scatter(b, Cells(at, run, n), s)
  OBVIOUS
<1>5. d = [b EXCEPT !.data = D, !.head = (@ + n) % c, !.full = @ \/ (b.head + n) % c = b.tail]
  BY <1>1 DEF PushedBack, ElementCells
<1> HIDE DEF D, n, run, at
<1>6. Landed(c, b, at, s, D)
  BY <1>1, <1>2, <1>3, <1>4, ScatterIs
<1>7. D \in [0..(c - 1) -> RingBytes]
  BY <1>6 DEF Landed
<1>8. m \in RingsOf(c) /\ m.data = D /\ m.tail = b.tail /\ m.head = at /\ m.full = FALSE /\ m.cap = c
  BY <1>1, <1>7 DEF RingsOf, at
<1>9. RingLen(m) = RingLen(b)
  BY <1>1, <1>8 DEF RingLen, at
<1>10. d = Filled(m, n)
  <2>1. Filled(m, n) = [m EXCEPT !.head = (@ + n) % c, !.full = (at + n) % c = b.tail]
    BY <1>1, <1>8 DEF Filled
  <2> QED
    BY <2>1, <1>1, <1>5, <1>7 DEF RingsOf, at
<1>11. n \in 0..RingAvail(m)
  BY <1>1, <1>8, <1>9, LenAndHead
<1> HIDE DEF m, d
<1>12. d \in RingsOf(c) /\ RingLen(d) = RingLen(b) + n /\ d.tail = b.tail /\ d.data = D
  BY <1>8, <1>9, <1>10, <1>11, FilledIs
<1>13. ASSUME NEW k \in 1..RingLen(b) PROVE D[Turn(c, b.tail + k - 1)] = b.data[Turn(c, b.tail + k - 1)]
  <2>1. Turn(c, b.tail + k - 1) \in 0..(c - 1)
    BY <1>1 DEF Turn
  <2>2. ASSUME NEW j \in 1..n PROVE Turn(c, at + j - 1) # Turn(c, b.tail + k - 1)
    <3>1. /\ n \in 0..(c - RingLen(b)) /\ b.tail \in 0..(c - 1) /\ RingLen(b) \in 0..c
          /\ at = Turn(c, b.tail + RingLen(b))
      BY <1>1
    <3>2. Turn(c, Turn(c, b.tail + RingLen(b)) + j - 1) # Turn(c, b.tail + k - 1)
      BY <3>1, FreshCells
    <3> QED
      BY <3>1, <3>2
  <2> QED
    BY <2>1, <2>2, <1>3, <1>6 DEF Landed
<1>14. \A k \in 1..Len(s) : d.data[Turn(c, b.head + k - 1)] = s[k]
  BY <1>6, <1>12 DEF Landed, at
<1>15. \A k \in 1..RingLen(b) : d.data[Turn(c, b.tail + k - 1)] = b.data[Turn(c, b.tail + k - 1)]
  BY <1>12, <1>13
<1>16. Content(d) = Content(b) \o s
  BY <1>12, <1>14, <1>15, <1>3, GrownBehind
<1> QED
  BY <1>12, <1>16 DEF d

LEMMA PushFrontPrepends ==
  ASSUME NEW c \in Nat \ {0}, NEW b \in RingsOf(c), NEW s \in Seq(RingBytes),
         Len(s) > 0, Len(s) <= RingAvail(b)
  PROVE  PushedFront(b, s) \in RingsOf(c) /\ Content(PushedFront(b, s)) = s \o Content(b)
<1> DEFINE n == Len(s)  at == NewTail(b, n)  run == c - at
           D == Scatter(b, Cells(at, run, n), s)
           d == PushedFront(b, s)
<1>1. /\ RingLen(b) \in 0..c /\ RingAvail(b) = c - RingLen(b) /\ b.head = Turn(c, b.tail + RingLen(b))
      /\ b.head \in 0..(c - 1) /\ b.tail \in 0..(c - 1) /\ n \in 0..c /\ n <= RingAvail(b) /\ b.cap = c
      /\ ~b.full /\ b.full \in BOOLEAN /\ n > 0
  BY LenAndHead, LenProperties DEF RingsOf
<1>2. at = Turn(c, b.tail + c - n) /\ at \in 0..(c - 1)
  <2>1. b.tail + c - n \in 0..(2 * c - 1)
    BY <1>1
  <2>2. (b.tail + c - n) % c = Turn(c, b.tail + c - n) /\ Turn(c, b.tail + c - n) \in 0..(c - 1)
    BY <2>1, TurnIsMod
  <2> QED
    BY <2>2, <1>1 DEF NewTail
<1>3. n = Len(s) /\ run \in Nat /\ run = c - at /\ D = Scatter(b, Cells(at, run, n), s)
  BY <1>2
<1>4. d = [b EXCEPT !.data = D, !.tail = at, !.full = b.head = at]
  <2>1. d = [b EXCEPT !.data = D, !.tail = at, !.full = @ \/ b.head = at]
    BY <1>1 DEF PushedFront, ElementCells
  <2> QED
    BY <2>1, <1>1 DEF RingsOf
<1>5. b.tail = Turn(c, at + n)
  <2> HIDE DEF at, n
  <2> QED
    BY <1>1, <1>2 DEF Turn
<1> HIDE DEF D, n, run, at
<1>6. Landed(c, b, at, s, D)
  BY <1>1, <1>2, <1>3, ScatterIs
<1>7. D \in [0..(c - 1) -> RingBytes]
  BY <1>6 DEF Landed
<1>8. d \in RingsOf(c) /\ d.data = D /\ d.tail = at /\ d.head = b.head /\ d.full = (b.head = at) /\ d.cap = c
  BY <1>1, <1>2, <1>4, <1>7 DEF RingsOf
<1> HIDE DEF d
<1>9. RingLen(d) = RingLen(b) + n
  <2>1. RingLen(d) = IF b.head = at THEN c ELSE IF b.head >= at THEN b.head - at ELSE c - (at - b.head)
    BY <1>8 DEF RingLen
  <2> DEFINE a == b.tail  l == RingLen(b)  h == b.head
  <2>2. /\ a \in 0..(c - 1) /\ l \in 0..c /\ n \in 1..(c - l) /\ h = Turn(c, a + l)
        /\ at = Turn(c, a + c - n) /\ a = Turn(c, at + n) /\ at \in 0..(c - 1) /\ h \in 0..(c - 1)
    BY <1>1, <1>2, <1>5
  <2> HIDE DEF a, l, h
  <2>3. (IF h = at THEN c ELSE IF h >= at THEN h - at ELSE c - (at - h)) = l + n
    BY <2>2 DEF Turn
  <2> QED
    BY <2>1, <2>3 DEF l, h
<1>10. ASSUME NEW k \in 1..RingLen(b) PROVE D[Turn(c, b.tail + k - 1)] = b.data[Turn(c, b.tail + k - 1)]
  <2>1. Turn(c, b.tail + k - 1) \in 0..(c - 1)
    BY <1>1 DEF Turn
  <2>2. ASSUME NEW j \in 1..n PROVE Turn(c, at + j - 1) # Turn(c, b.tail + k - 1)
    <3>1. k \in Nat \ {0} /\ n + k <= c
      BY <1>1
    <3>2. n \in 0..c /\ at \in 0..(c - 1)
      BY <1>1, <1>2
    <3>4. Turn(c, Turn(c, at + n) + k - 1) = Turn(c, at + (n + k) - 1)
      BY <3>1, <3>2, TurnTwice
    <3>3. j \in 1..c /\ n + k \in 1..c /\ j # n + k
      BY <3>1, <1>1
    <3> QED
      BY <3>2, <3>3, <3>4, <1>5, TurnsApart
  <2> QED
    BY <2>1, <2>2, <1>3, <1>6 DEF Landed
<1>11. \A k \in 1..Len(s) : d.data[Turn(c, d.tail + k - 1)] = s[k]
  BY <1>6, <1>8 DEF Landed
<1>12. \A k \in 1..RingLen(b) : d.data[Turn(c, b.tail + k - 1)] = b.data[Turn(c, b.tail + k - 1)]
  BY <1>8, <1>10
<1>13. Content(d) = s \o Content(b)
  BY <1>3, <1>5, <1>8, <1>9, <1>11, <1>12, GrownInFront
<1> QED
  BY <1>8, <1>13 DEF d

LEMMA RestBytes ==
  ASSUME NEW s \in Seq(RingBytes), NEW n \in 0..Len(s)
  PROVE  /\ Rest(s, n) \in Seq(RingBytes) /\ Len(Rest(s, n)) = Len(s) - n
         /\ \A k \in 1..(Len(s) - n) : Rest(s, n)[k] = s[n + k]
<1>1. Len(s) \in Nat /\ \A i \in (n + 1)..Len(s) : s[i] \in RingBytes
  BY LenProperties
<1>2. n + 1 \in Int /\ Len(s) \in Int
  BY <1>1
<1>3. /\ SubSeq(s, n + 1, Len(s)) \in Seq(RingBytes)
      /\ Len(SubSeq(s, n + 1, Len(s))) = (IF n + 1 <= Len(s) THEN Len(s) - (n + 1) + 1 ELSE 0)
      /\ \A i \in 1..(Len(s) - (n + 1) + 1) : SubSeq(s, n + 1, Len(s))[i] = s[(n + 1) + i - 1]
  BY <1>1, <1>2, SubSeqProperties
<1> DEFINE t == SubSeq(s, n + 1, Len(s))
<1> HIDE DEF t
<1>4. t \in Seq(RingBytes) /\ Len(t) = Len(s) - n
  BY <1>1, <1>3 DEF t
<1>5. ASSUME NEW i \in 1..(Len(s) - n) PROVE t[i] = s[n + i]
  <2>1. i \in 1..(Len(s) - (n + 1) + 1) /\ (n + 1) + i - 1 = n + i
    BY <1>1
  <2>2. t[i] = s[(n + 1) + i - 1]
    BY <2>1, <1>3 DEF t
  <2> QED
    BY <2>1, <2>2
<1>6. Rest(s, n) = t
  BY DEF Rest, t
<1> QED
  BY <1>4, <1>5, <1>6

\* One element, across the end of the array or not.
LEMMA ElementAt ==
  ASSUME NEW c \in Nat \ {0}, NEW b \in RingsOf(c), NEW size \in 1..2, NEW n \in Nat,
         n + size <= RingLen(b)
  PROVE  Gather(b, ElementCells(b, (b.tail + n) % b.cap, size)) = First(Rest(Content(b), n), size)
<1> DEFINE at == (b.tail + n) % b.cap  run == c - at
           e == Gather(b, ElementCells(b, at, size))  f == First(Rest(Content(b), n), size)
<1>1. /\ RingLen(b) \in 0..c /\ b.tail \in 0..(c - 1) /\ b.cap = c
      /\ b.data \in [0..(c - 1) -> RingBytes]
  BY LenAndHead DEF RingsOf
<1>2. n + size <= c /\ size \in 0..c /\ n \in 0..c /\ n \in 0..RingLen(b)
  BY <1>1
<1>3. at = Turn(c, b.tail + n) /\ at \in 0..(c - 1)
  <2>1. b.tail + n \in 0..(2 * c - 1)
    BY <1>1, <1>2
  <2> QED
    BY <2>1, <1>1, TurnIsMod
<1>4. e = Gather(b, Cells(at, run, size))
  BY <1>1 DEF ElementCells
<1> HIDE DEF at
<1>5. run \in Nat /\ run = c - at
  BY <1>3
<1> HIDE DEF run, e
<1>6. /\ e \in Seq(RingBytes) /\ Len(e) = size
      /\ \A k \in 1..size : e[k] = b.data[Turn(c, at + k - 1)]
  <2>1. Copied(c, b, at, size, Gather(b, Cells(at, run, size)))
    BY <1>2, <1>3, <1>5, GatherIs
  <2> QED
    BY <2>1, <1>4 DEF Copied
<1> DEFINE u == Content(b)
<1>7. /\ u \in Seq(RingBytes) /\ Len(u) = RingLen(b)
      /\ \A k \in 1..RingLen(b) : u[k] = b.data[Turn(c, b.tail + k - 1)]
  BY ContentIs
<1> HIDE DEF u
<1> DEFINE t == Rest(u, n)
<1>8. t \in Seq(RingBytes) /\ Len(t) = RingLen(b) - n /\ \A k \in 1..(RingLen(b) - n) : t[k] = u[n + k]
  <2>1. n \in 0..Len(u)
    BY <1>2, <1>7
  <2>2. t \in Seq(RingBytes) /\ Len(t) = Len(u) - n /\ \A k \in 1..(Len(u) - n) : t[k] = u[n + k]
    BY <2>1, <1>7, RestBytes
  <2> QED
    BY <2>2, <1>7
<1> HIDE DEF t
<1>9. size \in 0..Len(t)
  BY <1>1, <1>2, <1>8
<1>10. f \in Seq(RingBytes) /\ Len(f) = size /\ \A k \in 1..size : f[k] = t[k]
  BY <1>8, <1>9, FirstBytes DEF t, u
<1> HIDE DEF f
<1>11. ASSUME NEW k \in 1..size PROVE e[k] = f[k]
  <2>1. k \in Nat \ {0} /\ n + k <= c /\ n + k \in 1..RingLen(b) /\ k \in 1..(RingLen(b) - n)
    BY <1>1, <1>2
  <2>2. Turn(c, at + k - 1) = Turn(c, b.tail + (n + k) - 1)
    <3>1. b.tail \in 0..(c - 1) /\ n \in 0..c /\ k \in Nat \ {0} /\ n + k <= c
      BY <2>1, <1>1, <1>2
    <3>2. Turn(c, Turn(c, b.tail + n) + k - 1) = Turn(c, b.tail + (n + k) - 1)
      BY <3>1, TurnTwice
    <3> QED
      BY <3>2, <1>3
  <2> QED
    BY <2>1, <2>2, <1>6, <1>7, <1>8, <1>10
<1>12. e = f
  BY <1>6, <1>10, <1>11, SeqEqual
<1> QED
  BY <1>12 DEF e, f, at

LEMMA ElementIs ==
  ASSUME NEW c \in Nat \ {0}, NEW b \in RingsOf(c), NEW size \in 1..2, NEW i \in Nat,
         i * size + size <= RingLen(b)
  PROVE  Element(b, size, i) = First(Rest(Content(b), i * size), size)
<1>1. i * size \in Nat
  OBVIOUS
<1> QED
  BY <1>1, ElementAt DEF Element

\* Taking whole elements off is dropping bytes.
LEMMA PopIsDrop ==
  ASSUME NEW c \in Nat \ {0}, NEW b \in RingsOf(c), NEW size \in 1..2, WholeElements(b, size)
  PROVE  size \in 0..RingLen(b) /\ Popped(b, size) = Dropped(b, size)
<1>1. RingLen(b) \in Nat
  BY LenAndHead
<1>2. size \in 0..RingLen(b)
  <2>1. CASE size = 1
    BY <2>1, <1>1 DEF WholeElements
  <2>2. CASE size = 2
    <3>1. RingLen(b) # 1
      BY <2>2 DEF WholeElements
    <3> QED
      BY <2>2, <3>1, <1>1 DEF WholeElements
  <2> QED
    BY <2>1, <2>2
<1>3. (b.full /\ size = 0) = FALSE
  OBVIOUS
<1> QED
  BY <1>2, <1>3 DEF Popped, Dropped

LEMMA PopsTakeElement ==
  ASSUME NEW c \in Nat \ {0}, NEW b \in RingsOf(c), NEW size \in 1..2, WholeElements(b, size)
  PROVE  PopsElement(b, size)
<1>1. size \in 0..RingLen(b) /\ Content(Popped(b, size)) = Rest(Content(b), size)
  BY PopIsDrop, DropsTakeFirst
<1>2. Len(Content(b)) = RingLen(b) /\ RingLen(b) \in Nat
  BY ContentIs, LenAndHead
<1>3. ASSUME NEW i \in 0..(Len(Content(b)) \div size - 1)
      PROVE  Element(b, size, i) = First(Rest(Content(b), i * size), size)
  <2>1. i \in Nat /\ i * size + size <= RingLen(b)
    <3>1. CASE size = 1
      BY <3>1, <1>2
    <3>2. CASE size = 2
      BY <3>2, <1>2
    <3> QED
      BY <3>1, <3>2
  <2> QED
    BY <2>1, ElementIs
<1> QED
  BY <1>1, <1>3 DEF PopsElement

LEMMA PushesKeepWhole ==
  ASSUME NEW c \in Nat \ {0}, NEW b \in RingsOf(c), NEW s \in Seq(RingBytes), Len(s) > 0
  PROVE  PushesWhole(b, s) /\ PushedBack(b, s) \in RingsOf(c) /\ PushedFront(b, s) \in RingsOf(c)
<1>1. /\ RingLen(b) \in 0..c /\ RingAvail(b) = c - RingLen(b) /\ b.cap = c /\ Len(s) \in Nat
      /\ Len(Content(b)) = RingLen(b)
  BY LenAndHead, ContentIs, LenProperties DEF RingsOf
<1>2. CASE Len(s) <= RingAvail(b)
  <2>1. Len(Content(b)) + Len(s) <= b.cap
    BY <1>1, <1>2
  <2> QED
    BY <1>2, <2>1, PushBackAppends, PushFrontPrepends DEF PushesWhole
<1>3. CASE ~(Len(s) <= RingAvail(b))
  <2>1. ~(Len(Content(b)) + Len(s) <= b.cap) /\ RingAvail(b) < Len(s)
    BY <1>1, <1>3
  <2>2. PushedBack(b, s) = b /\ PushedFront(b, s) = b
    BY <2>1 DEF PushedBack, PushedFront
  <2> QED
    BY <2>1, <2>2 DEF PushesWhole
<1> QED
  BY <1>2, <1>3

LEMMA ChunksAreBytes ==
  ASSUME NEW s \in Chunks
  PROVE  s \in Seq(RingBytes) /\ Len(s) > 0
<1>1. PICK n \in 1..MaxBytes : s \in [1..n -> RingBytes]
  BY DEF Chunks
<1>2. n \in Nat /\ n > 0
  BY CapAssumption
<1> QED
  BY <1>1, <1>2, FunIsSeq

LEMMA RingOfCapIsQueue ==
  ASSUME \A r \in Rings : ring[r] \in RingsOf(RingCap[r])
  PROVE  RingIsQueue
<1> SUFFICES ASSUME NEW r \in Rings, NEW size \in 1..2
             PROVE  /\ \A s \in Chunks : (Len(s) % size = 0 => AppendsLast(ring[r], size, s)) /\ PushesWhole(ring[r], s)
                    /\ \A n \in 1..MaxBytes : TakesFirst(ring[r], size, n)
                    /\ WholeElements(ring[r], size) => PopsElement(ring[r], size)
                    /\ \A d \in Rings \ {r}, n \in 1..MaxBytes : MovesOldest(ring[r], ring[d], size, n)
  BY DEF RingIsQueue
<1>1. RingCap[r] \in Nat \ {0} /\ ring[r] \in RingsOf(RingCap[r])
  BY CapAssumption
<1>2. \A n \in 1..MaxBytes : n \in Nat
  BY CapAssumption
<1>3. \A s \in Chunks : AppendsLast(ring[r], size, s) /\ PushesWhole(ring[r], s)
  BY <1>1, ChunksAreBytes, WritesAppend, PushesKeepWhole
<1>4. \A n \in 1..MaxBytes : TakesFirst(ring[r], size, n)
  BY <1>1, <1>2, ReadsTakeFirst
<1>5. WholeElements(ring[r], size) => PopsElement(ring[r], size)
  BY <1>1, PopsTakeElement
<1>6. ASSUME NEW d \in Rings, NEW n \in 1..MaxBytes PROVE MovesOldest(ring[r], ring[d], size, n)
  <2>1. RingCap[d] \in Nat \ {0} /\ ring[d] \in RingsOf(RingCap[d])
    BY CapAssumption
  <2> QED
    BY <2>1, <1>1, <1>2, MovesTakeOldest
<1> QED
  BY <1>3, <1>4, <1>5, <1>6

-----------------------------------------------------------------------------
(* Rings, and the transfer between its two calls.                          *)

\* The bytes that went out are still the oldest; those that came in are
\* behind head, and there is room for them.
OutHolds(b, s) == Len(s) <= RingLen(b) /\ First(Content(b), Len(s)) = s
InHolds(c, b, s) ==
  Len(s) <= RingAvail(b) /\ \A k \in 1..Len(s) : b.data[Turn(c, b.head + k - 1)] = s[k]

RingInv ==
  /\ DOMAIN ring = Rings /\ \A r \in Rings : ring[r] \in RingsOf(RingCap[r])
  /\ half \in [way : {"none", "in", "out"}, q : Rings, bytes : Seq(RingBytes)]
  /\ half.way = "out" => OutHolds(ring[half.q], half.bytes)
  /\ half.way = "in" => InHolds(RingCap[half.q], ring[half.q], half.bytes)

LEMMA OutStays ==
  ASSUME NEW c \in Nat \ {0}, NEW b \in RingsOf(c), NEW d \in RingsOf(c), NEW s \in Seq(RingBytes),
         OutHolds(b, s), Appended(b, d)
  PROVE  OutHolds(d, s)
<1>1. PICK t \in Seq(RingBytes) : Content(d) = Content(b) \o t
  BY DEF Appended
<1> DEFINE u == Content(b)  v == Content(d)  n == Len(s)
<1>2. u \in Seq(RingBytes) /\ Len(u) = RingLen(b) /\ v \in Seq(RingBytes) /\ Len(v) = RingLen(d)
  BY ContentIs
<1>3. v = u \o t /\ n <= RingLen(b) /\ First(u, n) = s /\ n \in Nat /\ RingLen(b) \in Nat /\ Len(t) \in Nat
  BY <1>1, LenAndHead, LenProperties DEF OutHolds
<1> HIDE DEF u, v
<1>4. Len(v) = Len(u) + Len(t) /\ \A k \in 1..(Len(u) + Len(t)) : v[k] = IF k <= Len(u) THEN u[k] ELSE t[k - Len(u)]
  BY <1>2, <1>3, ConcatProperties
<1>5. n <= RingLen(d) /\ n \in 0..Len(u) /\ n \in 0..Len(v)
  BY <1>2, <1>3, <1>4
<1>6. \A k \in 1..n : v[k] = u[k]
  BY <1>2, <1>3, <1>4
<1>7. First(u, n) \in Seq(RingBytes) /\ Len(First(u, n)) = n /\ \A k \in 1..n : First(u, n)[k] = u[k]
  BY <1>2, <1>5, FirstBytes
<1>8. First(v, n) \in Seq(RingBytes) /\ Len(First(v, n)) = n /\ \A k \in 1..n : First(v, n)[k] = v[k]
  BY <1>2, <1>5, FirstBytes
<1> HIDE DEF n
<1>9. First(v, n) = First(u, n)
  <2>1. \A k \in 1..Len(First(v, n)) : First(v, n)[k] = First(u, n)[k]
    BY <1>6, <1>7, <1>8
  <2> HIDE DEF First
  <2> QED
    BY <2>1, <1>7, <1>8, SeqEqual
<1> QED
  BY <1>3, <1>5, <1>9 DEF OutHolds, v, n

LEMMA InStays ==
  ASSUME NEW c \in Nat \ {0}, NEW b \in RingsOf(c), NEW d \in RingsOf(c), NEW s \in Seq(RingBytes),
         InHolds(c, b, s), Taken(b, d)
  PROVE  InHolds(c, d, s)
<1>1. RingLen(b) \in Nat /\ RingLen(d) \in Nat /\ RingAvail(b) = c - RingLen(b) /\ RingAvail(d) = c - RingLen(d)
  BY LenAndHead
<1>2. Len(s) \in Nat
  BY LenProperties
<1> QED
  BY <1>1, <1>2 DEF InHolds, Taken

\* A call beside a transfer keeps the invariant, if it keeps to its end.
LEMMA BesideTransfer ==
  ASSUME RingInv, half' = half,
         DOMAIN ring' = Rings, \A r \in Rings : ring'[r] \in RingsOf(RingCap[r]),
         half.way = "out" => ring'[half.q] = ring[half.q] \/ Appended(ring[half.q], ring'[half.q]),
         half.way = "in"  => ring'[half.q] = ring[half.q] \/ Taken(ring[half.q], ring'[half.q])
  PROVE  RingInv'
<1> DEFINE q == half.q
<1>1. /\ q \in Rings /\ RingCap[q] \in Nat \ {0} /\ half.bytes \in Seq(RingBytes)
      /\ ring[q] \in RingsOf(RingCap[q]) /\ ring'[q] \in RingsOf(RingCap[q])
  BY CapAssumption DEF RingInv
<1>2. half.way = "out" => OutHolds(ring'[q], half.bytes)
  BY <1>1, OutStays DEF RingInv
<1>3. half.way = "in" => InHolds(RingCap[q], ring'[q], half.bytes)
  BY <1>1, InStays DEF RingInv
<1> QED
  BY <1>2, <1>3 DEF RingInv

\* The same for one ring.
LEMMA BecomeKeeps ==
  ASSUME RingInv, NEW r \in Rings, NEW d \in RingsOf(RingCap[r]), Become(r, d),
         ~MayTake(r)   => d = ring[r] \/ Appended(ring[r], d),
         ~MayAppend(r) => d = ring[r] \/ Taken(ring[r], d)
  PROVE  RingInv'
<1>1. ring' = [ring EXCEPT ![r] = d] /\ half' = half /\ DOMAIN ring = Rings
  BY DEF Become, RingInv
<1>2. DOMAIN ring' = Rings /\ ring'[r] = d /\ \A p \in Rings \ {r} : ring'[p] = ring[p]
  BY <1>1
<1>3. \A p \in Rings : ring'[p] \in RingsOf(RingCap[p])
  BY <1>2 DEF RingInv
<1>4. half.q \in Rings
  BY DEF RingInv
<1>5. half.way = "out" => ring'[half.q] = ring[half.q] \/ Appended(ring[half.q], ring'[half.q])
  BY <1>2, <1>4 DEF MayTake
<1>6. half.way = "in" => ring'[half.q] = ring[half.q] \/ Taken(ring[half.q], ring'[half.q])
  BY <1>2, <1>4 DEF MayAppend
<1> QED
  BY <1>1, <1>2, <1>3, <1>5, <1>6, BesideTransfer

LEMMA AppendsAre ==
  ASSUME NEW b, NEW d, NEW s \in Seq(RingBytes), Content(d) = Content(b) \o s
  PROVE  Appended(b, d)
BY DEF Appended

LEMMA DropsAreTaken ==
  ASSUME NEW c \in Nat \ {0}, NEW b \in RingsOf(c), NEW n \in 0..RingLen(b)
  PROVE  Taken(b, Dropped(b, n)) /\ Dropped(b, n) \in RingsOf(c)
<1>1. RingLen(b) \in Nat
  BY LenAndHead
<1> QED
  BY <1>1, DroppedIs DEF Taken

LEMMA EmptiedIs ==
  ASSUME NEW c \in Nat \ {0}, NEW b \in RingsOf(c)
  PROVE  Emptied(b) \in RingsOf(c)
<1> DEFINE d == Emptied(b)
<1>1. b \in [data : [0..(c - 1) -> RingBytes], cap : {c}, head : 0..(c - 1), tail : 0..(c - 1), full : BOOLEAN]
  BY DEF RingsOf
<1>2. 0 \in 0..(c - 1)
  OBVIOUS
<1>3. /\ d \in [data : [0..(c - 1) -> RingBytes], cap : {c}, head : 0..(c - 1), tail : 0..(c - 1), full : BOOLEAN]
      /\ d.head = d.tail
  BY <1>1, <1>2 DEF Emptied
<1> QED
  BY <1>3 DEF RingsOf

LEMMA ConstantsOfRing ==
  ASSUME RingInv, NEW r \in Rings
  PROVE  RingCap[r] \in Nat \ {0} /\ ring[r] \in RingsOf(RingCap[r])
BY CapAssumption DEF RingInv

LEMMA WriteStep ==
  ASSUME RingInv, NEW r \in Rings, NEW size \in 1..2, NEW s \in Chunks, cbuffer_write(r, size, s)
  PROVE  RingInv'
<1> DEFINE b == ring[r]  d == Written(b, size, s)
<1>1. RingCap[r] \in Nat \ {0} /\ b \in RingsOf(RingCap[r]) /\ s \in Seq(RingBytes)
  BY ConstantsOfRing, ChunksAreBytes
<1>2. Appended(b, d) /\ d \in RingsOf(RingCap[r])
  BY <1>1, WritesAppend
<1>3. Become(r, d) /\ MayAppend(r)
  BY DEF cbuffer_write
<1> QED
  BY <1>2, <1>3, BecomeKeeps

LEMMA ReadStep ==
  ASSUME RingInv, NEW r \in Rings, NEW size \in 1..2, NEW n \in 1..MaxBytes, cbuffer_read(r, size, n)
  PROVE  RingInv'
<1> DEFINE b == ring[r]  d == Dropped(b, ReadCount(b, size, n))
<1>1. RingCap[r] \in Nat \ {0} /\ b \in RingsOf(RingCap[r]) /\ n \in Nat
  BY ConstantsOfRing, CapAssumption
<1>2. ReadCount(b, size, n) \in 0..RingLen(b)
  BY <1>1, ReadsTakeFirst
<1>3. Taken(b, d) /\ d \in RingsOf(RingCap[r])
  BY <1>1, <1>2, DropsAreTaken
<1>4. Become(r, d) /\ MayTake(r)
  BY DEF cbuffer_read
<1> QED
  BY <1>3, <1>4, BecomeKeeps

LEMMA PopStep ==
  ASSUME RingInv, NEW r \in Rings, NEW size \in 1..2, cbuffer_pop(r, size)
  PROVE  RingInv'
<1> DEFINE b == ring[r]  d == Popped(b, size)
<1>1. RingCap[r] \in Nat \ {0} /\ b \in RingsOf(RingCap[r])
  BY ConstantsOfRing
<1>2. WholeElements(b, size) /\ Become(r, d) /\ MayTake(r)
  BY DEF cbuffer_pop
<1>3. Taken(b, d) /\ d \in RingsOf(RingCap[r])
  BY <1>1, <1>2, PopIsDrop, DropsAreTaken
<1> QED
  BY <1>2, <1>3, BecomeKeeps

LEMMA PushStep ==
  ASSUME RingInv, NEW r \in Rings, NEW s \in Chunks,
         cbuffer_push_back(r, s) \/ cbuffer_push_front(r, s)
  PROVE  RingInv'
<1> DEFINE b == ring[r]
<1>1. RingCap[r] \in Nat \ {0} /\ b \in RingsOf(RingCap[r]) /\ s \in Seq(RingBytes) /\ Len(s) > 0
  BY ConstantsOfRing, ChunksAreBytes
<1>2. PushesWhole(b, s) /\ PushedBack(b, s) \in RingsOf(RingCap[r]) /\ PushedFront(b, s) \in RingsOf(RingCap[r])
  BY <1>1, PushesKeepWhole
<1>3. CASE cbuffer_push_back(r, s)
  <2>1. PushedBack(b, s) = b \/ Appended(b, PushedBack(b, s))
    BY <1>1, <1>2, AppendsAre DEF PushesWhole
  <2>2. Become(r, PushedBack(b, s)) /\ MayAppend(r)
    BY <1>3 DEF cbuffer_push_back
  <2> QED
    BY <2>1, <2>2, <1>2, BecomeKeeps
<1>4. CASE cbuffer_push_front(r, s)
  <2>1. Become(r, PushedFront(b, s)) /\ MayAppend(r) /\ MayTake(r)
    BY <1>4 DEF cbuffer_push_front, Alone
  <2> QED
    BY <2>1, <1>2, BecomeKeeps
<1> QED
  BY <1>3, <1>4

LEMMA DiscardStep ==
  ASSUME RingInv, NEW r \in Rings, cbuffer_discard_all(r)
  PROVE  RingInv'
<1>1. Emptied(ring[r]) \in RingsOf(RingCap[r])
  BY ConstantsOfRing, EmptiedIs
<1>2. Become(r, Emptied(ring[r])) /\ MayAppend(r) /\ MayTake(r)
  BY DEF cbuffer_discard_all, Alone
<1> QED
  BY <1>1, <1>2, BecomeKeeps

LEMMA MoveStep ==
  ASSUME RingInv, NEW src \in Rings, NEW dst \in Rings, NEW size \in 1..2, NEW n \in 1..MaxBytes,
         cbuffer_cbuffer_move(src, dst, size, n) \/ cbuffer_cbuffer_copy(src, dst, size, n)
  PROVE  RingInv'
<1> DEFINE b == ring[src]  d == ring[dst]  k == MoveCount(b, d, size, n)
           put == Put(d, Oldest(b, k))  drop == Dropped(b, k)
<1>1. /\ RingCap[src] \in Nat \ {0} /\ b \in RingsOf(RingCap[src]) /\ n \in Nat
      /\ RingCap[dst] \in Nat \ {0} /\ d \in RingsOf(RingCap[dst])
  BY ConstantsOfRing, CapAssumption
<1>2. MovesOldest(b, d, size, n) /\ k \in 0..RingLen(b) /\ put \in RingsOf(RingCap[dst])
  BY <1>1, MovesTakeOldest
<1>3. Oldest(b, k) = First(Content(b), k) /\ Oldest(b, k) \in Seq(RingBytes)
  BY <1>1, <1>2, OldestIsFirst
<1>4. Appended(d, put)
  BY <1>2, <1>3, AppendsAre DEF MovesOldest
<1>5. Taken(b, drop) /\ drop \in RingsOf(RingCap[src])
  BY <1>1, <1>2, DropsAreTaken
<1>6. CASE cbuffer_cbuffer_copy(src, dst, size, n)
  <2>1. Become(dst, put) /\ MayAppend(dst)
    BY <1>6 DEF cbuffer_cbuffer_copy
  <2> QED
    BY <2>1, <1>2, <1>4, BecomeKeeps
<1>7. CASE cbuffer_cbuffer_move(src, dst, size, n)
  <2>1. /\ src # dst /\ MayTake(src) /\ MayAppend(dst) /\ half' = half
        /\ ring' = [ring EXCEPT ![dst] = Put(@, Oldest(ring[src], k)), ![src] = Dropped(@, k)]
    BY <1>7 DEF cbuffer_cbuffer_move
  <2>2. DOMAIN ring = Rings
    BY DEF RingInv
  <2> HIDE DEF k
  <2>3. /\ DOMAIN ring' = Rings /\ ring'[dst] = put /\ ring'[src] = drop
        /\ \A r \in Rings \ {src, dst} : ring'[r] = ring[r]
    BY <2>1, <2>2
  <2> HIDE DEF put, drop
  <2>4. \A r \in Rings : ring'[r] \in RingsOf(RingCap[r])
    BY <2>3, <1>2, <1>5 DEF RingInv
  <2>5. half.q \in Rings
    BY DEF RingInv
  <2>6. half.way = "out" => ring'[half.q] = ring[half.q] \/ Appended(ring[half.q], ring'[half.q])
    BY <2>1, <2>3, <2>5, <1>4 DEF MayTake
  <2>7. half.way = "in" => ring'[half.q] = ring[half.q] \/ Taken(ring[half.q], ring'[half.q])
    BY <2>1, <2>3, <2>5, <1>5 DEF MayAppend
  <2> QED
    BY <2>1, <2>3, <2>4, <2>6, <2>7, BesideTransfer
<1> QED
  BY <1>6, <1>7

LEMMA OutBegins ==
  ASSUME RingInv, NEW r \in Rings, NEW n \in 1..MaxBytes, cbuffer_write_to_file_1(r, n)
  PROVE  RingInv'
<1> DEFINE b == ring[r]  k == Smaller(RingLen(b), n)  s == Oldest(b, k)
<1>1. RingCap[r] \in Nat \ {0} /\ b \in RingsOf(RingCap[r]) /\ RingLen(b) \in Nat /\ n \in Nat
  BY ConstantsOfRing, CapAssumption, LenAndHead
<1>2. k \in 0..RingLen(b)
  BY <1>1 DEF Smaller
<1> HIDE DEF k
<1>3. s = First(Content(b), k) /\ s \in Seq(RingBytes) /\ Len(s) = k
  BY <1>1, <1>2, OldestIsFirst
<1>4. OutHolds(b, s)
  BY <1>1, <1>2, <1>3 DEF OutHolds
<1>5. ring' = ring /\ half' = [way |-> "out", q |-> r, bytes |-> s]
  BY DEF cbuffer_write_to_file_1, Begin, k
<1> HIDE DEF s, b
<1> QED
  BY <1>3, <1>4, <1>5 DEF RingInv, b

LEMMA InBegins ==
  ASSUME RingInv, NEW r \in Rings, NEW s \in Chunks, cbuffer_read_from_file_1(r, s)
  PROVE  RingInv'
<1> DEFINE b == ring[r]  d == Stored(b, s)  c == RingCap[r]
<1>1. c \in Nat \ {0} /\ b \in RingsOf(c) /\ s \in Seq(RingBytes) /\ Len(s) <= RingAvail(b)
  BY ConstantsOfRing, ChunksAreBytes DEF cbuffer_read_from_file_1
<1>2. /\ d \in RingsOf(c) /\ RingLen(d) = RingLen(b) /\ d.head = b.head
      /\ \A k \in 1..Len(s) : d.data[Turn(c, b.head + k - 1)] = s[k]
  <2> HIDE DEF c
  <2> QED
    BY <1>1, StoredIs
<1>3. RingAvail(d) = RingAvail(b)
  BY <1>1, <1>2, LenAndHead
<1>4. InHolds(c, d, s)
  BY <1>1, <1>2, <1>3 DEF InHolds
<1>5. ring' = [ring EXCEPT ![r] = d] /\ half' = [way |-> "in", q |-> r, bytes |-> s]
  BY DEF cbuffer_read_from_file_1, Begin
<1> HIDE DEF d
<1>6. ring'[r] = d /\ DOMAIN ring' = Rings /\ \A p \in Rings \ {r} : ring'[p] = ring[p]
  BY <1>5 DEF RingInv
<1> QED
  BY <1>1, <1>2, <1>4, <1>5, <1>6 DEF RingInv

LEMMA TransferEnds ==
  ASSUME RingInv, cbuffer_write_to_file_2 \/ cbuffer_read_from_file_2
  PROVE  RingInv'
<1> DEFINE q == half.q  b == ring[q]  c == RingCap[q]  n == Len(half.bytes)
<1>1. q \in Rings /\ c \in Nat \ {0} /\ b \in RingsOf(c) /\ n \in Nat
  BY ConstantsOfRing, LenProperties DEF RingInv
<1>2. half' = [way |-> "none", q |-> q, bytes |-> << >>]
  BY DEF cbuffer_write_to_file_2, cbuffer_read_from_file_2, End
<1>3. PICK d \in RingsOf(c) : ring' = [ring EXCEPT ![q] = d]
  <2>1. CASE cbuffer_write_to_file_2
    <3>1. n \in 0..RingLen(b)
      BY <1>1, <2>1, LenAndHead DEF cbuffer_write_to_file_2, End, RingInv, OutHolds
    <3>2. Dropped(b, n) \in RingsOf(c)
      BY <1>1, <3>1, DroppedIs
    <3>3. ring' = [ring EXCEPT ![q] = Dropped(b, n)]
      BY <2>1 DEF cbuffer_write_to_file_2
    <3> QED
      BY <3>2, <3>3
  <2>2. CASE cbuffer_read_from_file_2
    <3>1. n \in 0..RingAvail(b)
      BY <1>1, <2>2, LenAndHead DEF cbuffer_read_from_file_2, End, RingInv, InHolds
    <3>2. Filled(b, n) \in RingsOf(c)
      BY <1>1, <3>1, FilledIs
    <3>3. ring' = [ring EXCEPT ![q] = Filled(b, n)]
      BY <2>2 DEF cbuffer_read_from_file_2
    <3> QED
      BY <3>2, <3>3
  <2> QED
    BY <2>1, <2>2
<1>4. ring'[q] = d /\ DOMAIN ring' = Rings /\ \A p \in Rings \ {q} : ring'[p] = ring[p]
  BY <1>1, <1>3 DEF RingInv
<1>5. << >> \in Seq(RingBytes)
  OBVIOUS
<1> HIDE DEF q
<1> QED
  BY <1>1, <1>2, <1>3, <1>4, <1>5 DEF RingInv

LEMMA RingStart == CBufferInit => RingInv
<1> SUFFICES ASSUME CBufferInit PROVE RingInv
  OBVIOUS
<1>1. PICK len \in [Rings -> 0..MaxBytes], byte \in RingBytes :
        ring = [r \in Rings |-> Created(RingCap[r], Smaller(len[r], RingCap[r]), byte)]
  BY DEF CBufferInit
<1>2. PICK r \in Rings : half = [way |-> "none", q |-> r, bytes |-> << >>]
  BY DEF CBufferInit
<1>3. ASSUME NEW p \in Rings PROVE ring[p] \in RingsOf(RingCap[p])
  <2> DEFINE c == RingCap[p]  n == Smaller(len[p], c)
  <2>1. c \in Nat \ {0} /\ len[p] \in Nat
    BY CapAssumption
  <2>2. n \in 0..c
    BY <2>1 DEF Smaller
  <2> HIDE DEF n, c
  <2>3. n % c = Turn(c, n) /\ Turn(c, n) \in 0..(c - 1)
    <3>1. n \in 0..(2 * c - 1)
      BY <2>1, <2>2
    <3> QED
      BY <3>1, <2>1, TurnIsMod
  <2>4. n = c => Turn(c, n) = 0
    BY <2>1 DEF Turn
  <2>5. Created(c, n, byte) \in RingsOf(c)
    <3> DEFINE d == Created(c, n, byte)
    <3>1. d = [data |-> [x \in 0..(c - 1) |-> byte], cap |-> c, head |-> Turn(c, n), tail |-> 0, full |-> n = c]
      BY <2>3 DEF Created
    <3>2. 0 \in 0..(c - 1) /\ [x \in 0..(c - 1) |-> byte] \in [0..(c - 1) -> RingBytes]
      BY <2>1
    <3>3. d \in [data : [0..(c - 1) -> RingBytes], cap : {c}, head : 0..(c - 1), tail : 0..(c - 1), full : BOOLEAN]
      BY <3>1, <3>2, <2>3
    <3> HIDE DEF d
    <3>6. d.head = Turn(c, n) /\ d.tail = 0 /\ d.full = (n = c)
      BY <3>1
    <3>4. d.full => d.head = d.tail
      BY <3>6, <2>4
    <3>5. d \in RingsOf(c)
      BY <3>3, <3>4 DEF RingsOf
    <3> QED
      BY <3>5 DEF d
  <2> QED
    BY <2>5, <1>1 DEF n, c
<1>4. << >> \in Seq(RingBytes)
  OBVIOUS
<1> QED
  BY <1>1, <1>2, <1>3, <1>4 DEF RingInv

LEMMA RingStep == RingInv /\ [CBufferNext]_ringVars => RingInv'
<1> SUFFICES ASSUME RingInv, [CBufferNext]_ringVars PROVE RingInv'
  OBVIOUS
<1>1. CASE UNCHANGED ringVars
  BY <1>1 DEF ringVars, RingInv
<1>2. ASSUME NEW r \in Rings, RingNext(r) PROVE RingInv'
  <2>1. ASSUME NEW size \in 1..2, NEW s \in Chunks, cbuffer_write(r, size, s) PROVE RingInv'
    BY <2>1, WriteStep
  <2>2. ASSUME NEW size \in 1..2, NEW n \in 1..MaxBytes, cbuffer_read(r, size, n) PROVE RingInv'
    BY <2>2, ReadStep
  <2>3. ASSUME NEW size \in 1..2, NEW n \in 1..MaxBytes, NEW d \in Rings,
               cbuffer_cbuffer_move(r, d, size, n) \/ cbuffer_cbuffer_copy(r, d, size, n)
        PROVE RingInv'
    BY <2>3, MoveStep
  <2>4. ASSUME NEW size \in 1..2, cbuffer_pop(r, size) PROVE RingInv'
    BY <2>4, PopStep
  <2>5. ASSUME NEW s \in Chunks, cbuffer_push_back(r, s) \/ cbuffer_push_front(r, s) PROVE RingInv'
    BY <2>5, PushStep
  <2>6. ASSUME NEW s \in Chunks, cbuffer_read_from_file_1(r, s) PROVE RingInv'
    BY <2>6, InBegins
  <2>7. CASE cbuffer_discard_all(r)
    BY <2>7, DiscardStep
  <2>8. ASSUME NEW n \in 1..MaxBytes, cbuffer_write_to_file_1(r, n) PROVE RingInv'
    BY <2>8, OutBegins
  <2> QED
    BY <1>2, <2>1, <2>2, <2>3, <2>4, <2>5, <2>6, <2>7, <2>8 DEF RingNext
<1>3. CASE cbuffer_write_to_file_2 \/ cbuffer_read_from_file_2
  BY <1>3, TransferEnds
<1> QED
  BY <1>1, <1>2, <1>3 DEF CBufferNext

LEMMA InvIsOneCall == RingInv => TransferIsOneCall
<1> SUFFICES ASSUME RingInv PROVE TransferIsOneCall
  OBVIOUS
<1> DEFINE q == half.q  b == ring[q]  c == RingCap[q]  s == half.bytes  d == Filled(b, Len(s))
<1>1. q \in Rings /\ c \in Nat \ {0} /\ b \in RingsOf(c) /\ s \in Seq(RingBytes) /\ Len(s) \in Nat
  BY ConstantsOfRing, LenProperties DEF RingInv
<1>2. half.way = "out" => First(Content(b), Len(s)) = s
  BY DEF RingInv, OutHolds
<1>3. ASSUME half.way = "in" PROVE Content(d) = Content(b) \o s
  <2>1. Len(s) <= RingAvail(b) /\ \A k \in 1..Len(s) : b.data[Turn(c, b.head + k - 1)] = s[k]
    BY <1>3 DEF RingInv, InHolds
  <2> HIDE DEF q, b, c, s
  <2>2. Len(s) \in 0..RingAvail(b)
    BY <1>1, <2>1, LenAndHead
  <2>3. d \in RingsOf(c) /\ RingLen(d) = RingLen(b) + Len(s) /\ d.tail = b.tail /\ d.data = b.data
    BY <1>1, <2>2, FilledIs
  <2> HIDE DEF d
  <2>4. /\ \A k \in 1..RingLen(b) : d.data[Turn(c, b.tail + k - 1)] = b.data[Turn(c, b.tail + k - 1)]
        /\ \A k \in 1..Len(s) : d.data[Turn(c, b.head + k - 1)] = s[k]
    BY <2>1, <2>3
  <2> QED
    BY <1>1, <2>3, <2>4, GrownBehind
<1> QED
  BY <1>2, <1>3 DEF TransferIsOneCall

LEMMA InvIsQueue == RingInv => RingIsQueue /\ TransferIsOneCall
<1> SUFFICES ASSUME RingInv PROVE RingIsQueue /\ TransferIsOneCall
  OBVIOUS
<1>1. RingIsQueue
  BY RingOfCapIsQueue DEF RingInv
<1> QED
  BY <1>1, InvIsOneCall

\* A ring is a queue of bytes, and the two halves of a file transfer of it are
\* one call, for any sizes of rings, values of bytes and lengths of calls
\* (cbuffer.c).
THEOREM RingsQueue == CBufferSpec => [](RingIsQueue /\ TransferIsOneCall)
BY InvIsQueue, RingStart, RingStep, PTL DEF CBufferSpec

\* The same of a behaviour that is about any of the structures (cbuffer.c).
THEOREM RingsQueueAlways == StructuresSpec => []RingsAreQueues
<1>1. StructuresInit => RingInv
  BY RingStart DEF StructuresInit
<1>2. [RingPart \/ DirtyPart \/ TxnPart \/ IoPart]_<<structVars, struct>> => [CBufferNext]_ringVars
  BY DEF RingPart, DirtyPart, TxnPart, IoPart, structVars
<1>3. RingInv => RingsAreQueues
  BY InvIsQueue DEF RingsAreQueues
<1> QED
  BY <1>1, <1>2, <1>3, RingStep, PTL DEF StructuresSpec

-----------------------------------------------------------------------------
(* Transfers.                                                              *)

Pieces    == [at : Nat, len : Nat]
Vectors   == (Pieces \X Pieces) \cup {<< >>}
IoRecords == [op : Loops, n : Nat, done : Nat, iov : Vectors,
              plan : Seq(Nat), start : Nat, mem : Seq(Nat), st : {"idle", "run", "done"}, ret : Int]

\* The buffer a vector stands for has every cell once.
Once(n, plan) == plan \in [1..n -> 1..n] /\ \A i, j \in 1..n : plan[i] = plan[j] => i = j

\* The bytes moved so far are where they belong: d is the file, p the position of
\* the descriptor, the region begins at base.
MovedSoFar(c, base, p, d) ==
  /\ c.n \in 1..MaxLen /\ c.done \in 0..c.n /\ Once(c.n, c.plan) /\ Len(c.mem) = c.n
  /\ base <= c.start /\ c.start + c.n <= base + MaxLen
  /\ c.op \notin Positional => p = c.start + c.done
  /\ c.done > 0 => c.start + c.done <= Len(d)
  /\ \A i \in 1..c.done : c.mem[c.plan[i]] = d[c.start + i]
  /\ c.op \notin WriteLoops => \A i \in (c.done + 1)..c.n : c.mem[c.plan[i]] = Hole

\* What is left of the buffer.
Ahead(c) ==
  /\ c.done < c.n
  /\ IF c.op \in Vectored
     THEN /\ c.iov \in Pieces \X Pieces /\ Len(CellsOf(c.iov)) = c.n - c.done
          /\ \A j \in 1..(c.n - c.done) : CellsOf(c.iov)[j] = c.plan[c.done + j]
     ELSE \A j \in 1..c.n : c.plan[j] = j

\* A call that returned says what it moved.
Back(c) == c.ret = c.done /\ (c.op \in WriteLoops => c.done = c.n)

TransferOK(c, base, p, d) ==
  /\ c.st = "run" => MovedSoFar(c, base, p, d) /\ Ahead(c)
  /\ c.st = "done" /\ c.ret >= 0 => MovedSoFar(c, base, p, d) /\ Back(c)

IoInv ==
  /\ disk \in Seq(Nat) /\ pos \in [IoThreads -> Nat] /\ io \in [IoThreads -> IoRecords]
  /\ \A t \in IoThreads : TransferOK(io[t], Base[t], pos[t], disk)

\* The cells of two pieces.
LEMMA CellsAt ==
  ASSUME NEW v \in Pieces, NEW w \in Pieces
  PROVE  /\ CellsOf(<<v, w>>) \in Seq(Nat) /\ Len(CellsOf(<<v, w>>)) = v.len + w.len
         /\ \A j \in 1..(v.len + w.len) :
              CellsOf(<<v, w>>)[j] = IF j <= v.len THEN v.at + j - 1 ELSE w.at + (j - v.len) - 1
<1> DEFINE a == CellsIn(v)  b == CellsIn(w)
<1>1. v.len \in Nat /\ w.len \in Nat /\ v.at \in Nat /\ w.at \in Nat
  BY DEF Pieces
<1>2. a \in [1..v.len -> Nat] /\ b \in [1..w.len -> Nat]
  BY <1>1 DEF CellsIn
<1>3. a \in Seq(Nat) /\ Len(a) = v.len /\ b \in Seq(Nat) /\ Len(b) = w.len
  BY <1>1, <1>2, FunIsSeq
<1>4. CellsOf(<<v, w>>) = a \o b
  BY DEF CellsOf
<1>5. (\A j \in 1..v.len : a[j] = v.at + j - 1) /\ (\A j \in 1..w.len : b[j] = w.at + j - 1)
  BY DEF CellsIn
<1> HIDE DEF a, b
<1> DEFINE s == a \o b
<1>6. s \in Seq(Nat) /\ Len(s) = Len(a) + Len(b)
      /\ \A j \in 1..(Len(a) + Len(b)) : s[j] = IF j <= Len(a) THEN a[j] ELSE b[j - Len(a)]
  BY <1>3, ConcatProperties
<1> HIDE DEF s
<1>7. ASSUME NEW j \in 1..(v.len + w.len)
      PROVE  s[j] = IF j <= v.len THEN v.at + j - 1 ELSE w.at + (j - v.len) - 1
  <2>1. CASE j <= v.len
    <3>1. j \in 1..v.len
      BY <2>1, <1>1
    <3> QED
      BY <2>1, <3>1, <1>3, <1>5, <1>6
  <2>2. CASE ~(j <= v.len)
    <3>1. j - v.len \in 1..w.len
      BY <2>2, <1>1
    <3>2. s[j] = b[j - v.len]
      BY <2>2, <1>3, <1>6
    <3>3. b[j - v.len] = w.at + (j - v.len) - 1
      BY <3>1, <1>5
    <3> QED
      BY <2>2, <3>2, <3>3
  <2> QED
    BY <2>1, <2>2
<1> QED
  BY <1>3, <1>4, <1>6, <1>7 DEF s

\* A buffer in one piece or two has every cell once.
LEMMA VectorIs ==
  ASSUME NEW n \in Nat \ {0}, NEW k \in 0..(n - 1)
  PROVE  /\ Vector(n, k) \in Pieces \X Pieces
         /\ CellsOf(Vector(n, k)) \in Seq(Nat) /\ Len(CellsOf(Vector(n, k))) = n
         /\ Once(n, CellsOf(Vector(n, k)))
         /\ k = 0 => \A j \in 1..n : CellsOf(Vector(n, k))[j] = j
<1> DEFINE v == [at |-> k + 1, len |-> n - k]  w == [at |-> 1, len |-> k]  s == CellsOf(<<v, w>>)
<1>1. v \in Pieces /\ w \in Pieces /\ Vector(n, k) = <<v, w>>
  BY DEF Pieces, Vector
<1>2. v.len = n - k /\ w.len = k /\ v.at = k + 1 /\ w.at = 1
  OBVIOUS
<1> HIDE DEF v, w
<1>3. /\ s \in Seq(Nat) /\ Len(s) = v.len + w.len
      /\ \A j \in 1..(v.len + w.len) : s[j] = IF j <= v.len THEN v.at + j - 1 ELSE w.at + (j - v.len) - 1
  BY <1>1, CellsAt
<1> HIDE DEF s
<1>4. Len(s) = n /\ \A j \in 1..n : s[j] = IF j <= n - k THEN k + j ELSE j - (n - k)
  BY <1>2, <1>3
<1>5. s \in [1..n -> 1..n]
  <2>1. DOMAIN s = 1..n /\ s \in [1..n -> Nat]
    BY <1>3, <1>4, LenProperties
  <2>2. \A j \in 1..n : s[j] \in 1..n
    BY <1>4
  <2> QED
    BY <2>1, <2>2
<1>6. \A i, j \in 1..n : s[i] = s[j] => i = j
  BY <1>4
<1>7. k = 0 => \A j \in 1..n : s[j] = j
  BY <1>4
<1>8. CellsOf(Vector(n, k)) = s
  BY <1>1 DEF s
<1>9. Vector(n, k) \in Pieces \X Pieces
  BY <1>1
<1> QED
  BY <1>3, <1>4, <1>5, <1>6, <1>7, <1>8, <1>9 DEF Once

LEMMA CutIs ==
  ASSUME NEW v \in Pieces, NEW k \in 0..v.len
  PROVE  Cut(v, k) \in Pieces
<1>1. v.len \in Nat /\ v.at \in Nat
  BY DEF Pieces
<1>2. v.at + k \in Nat /\ v.len - k \in Nat
  BY <1>1
<1> QED
  BY <1>2 DEF Cut, Pieces

\* A vector without its first k bytes has the cells behind them.
LEMMA SkipIs ==
  ASSUME NEW iov \in Pieces \X Pieces, NEW k \in Nat, k <= Len(CellsOf(iov))
  PROVE  /\ Skip(iov, k) \in Pieces \X Pieces
         /\ Len(CellsOf(Skip(iov, k))) = Len(CellsOf(iov)) - k
         /\ \A j \in 1..(Len(CellsOf(iov)) - k) : CellsOf(Skip(iov, k))[j] = CellsOf(iov)[k + j]
<1> PICK v \in Pieces, w \in Pieces : iov = <<v, w>>
  OBVIOUS
<1> DEFINE s == CellsOf(iov)
<1>1. v.len \in Nat /\ w.len \in Nat /\ v.at \in Nat /\ w.at \in Nat
  BY DEF Pieces
<1>2. /\ s \in Seq(Nat) /\ Len(s) = v.len + w.len
      /\ \A j \in 1..(v.len + w.len) : s[j] = IF j <= v.len THEN v.at + j - 1 ELSE w.at + (j - v.len) - 1
  BY CellsAt
<1>0. k <= Len(s)
  OBVIOUS
<1> HIDE DEF s
<1> DEFINE x == IF k <= v.len THEN Cut(v, k) ELSE Cut(v, v.len)
           y == IF k <= v.len THEN w ELSE Cut(w, k - v.len)
           t == CellsOf(<<x, y>>)
<1>3. Skip(iov, k) = <<x, y>>
  BY DEF Skip
<1>4. x \in Pieces /\ y \in Pieces
  <2>1. k <= v.len + w.len
    BY <1>0, <1>2
  <2>2. CASE k <= v.len
    <3>1. k \in 0..v.len
      BY <2>2, <1>1
    <3> QED
      BY <2>2, <3>1, CutIs
  <2>3. CASE ~(k <= v.len)
    <3>1. k - v.len \in 0..w.len /\ v.len \in 0..v.len
      BY <2>1, <2>3, <1>1
    <3> QED
      BY <2>3, <3>1, CutIs
  <2> QED
    BY <2>2, <2>3
<1>5. /\ x.len = IF k <= v.len THEN v.len - k ELSE 0
      /\ x.at = IF k <= v.len THEN v.at + k ELSE v.at + v.len
      /\ y.len = IF k <= v.len THEN w.len ELSE w.len - (k - v.len)
      /\ y.at = IF k <= v.len THEN w.at ELSE w.at + (k - v.len)
  BY <1>1 DEF Cut
<1> HIDE DEF x, y
<1>6. /\ t \in Seq(Nat) /\ Len(t) = x.len + y.len
      /\ \A j \in 1..(x.len + y.len) : t[j] = IF j <= x.len THEN x.at + j - 1 ELSE y.at + (j - x.len) - 1
  BY <1>4, CellsAt
<1> HIDE DEF t
<1>7. x.len + y.len = Len(s) - k /\ x.len \in Nat /\ y.len \in Nat
  BY <1>0, <1>1, <1>2, <1>5
<1>8. ASSUME NEW j \in 1..(Len(s) - k) PROVE t[j] = s[k + j]
  <2>1. j \in 1..(x.len + y.len) /\ k + j \in 1..(v.len + w.len)
    BY <1>1, <1>2, <1>7
  <2>2. t[j] = IF j <= x.len THEN x.at + j - 1 ELSE y.at + (j - x.len) - 1
    BY <2>1, <1>6
  <2>3. s[k + j] = IF k + j <= v.len THEN v.at + (k + j) - 1 ELSE w.at + ((k + j) - v.len) - 1
    BY <2>1, <1>2
  <2>4. j \in Nat /\ 1 <= j
    BY <2>1
  <2>5. CASE k <= v.len
    <3>1. x.len = v.len - k /\ x.at = v.at + k /\ y.len = w.len /\ y.at = w.at
      BY <1>5, <2>5
    <3> QED
      BY <2>2, <2>3, <2>4, <2>5, <3>1, <1>1
  <2>6. CASE ~(k <= v.len)
    <3>1. x.len = 0 /\ y.at = w.at + (k - v.len)
      BY <1>5, <2>6
    <3>2. t[j] = y.at + (j - 0) - 1 /\ s[k + j] = w.at + ((k + j) - v.len) - 1
      BY <2>2, <2>3, <2>4, <2>6, <3>1, <1>1
    <3> QED
      BY <2>4, <2>6, <3>1, <3>2, <1>1
  <2> QED
    BY <2>5, <2>6
<1>9. Skip(iov, k) \in Pieces \X Pieces
  BY <1>3, <1>4
<1> QED
  BY <1>3, <1>6, <1>7, <1>8, <1>9 DEF s, t

\* The cells of the next k bytes are those that come next in the buffer.
LEMMA NextIs ==
  ASSUME IoInv, NEW t \in IoThreads, Busy(t), NEW k \in 1..LeftOf(t)
  PROVE  \A j \in 1..k : NextCells(t, k)[j] = io[t].plan[io[t].done + j]
<1> DEFINE c == io[t]
<1>1. c \in IoRecords /\ MovedSoFar(c, Base[t], pos[t], disk) /\ Ahead(c) /\ LeftOf(t) = c.n - c.done
  BY DEF IoInv, TransferOK, Busy, LeftOf
<1>2. c.n \in Nat /\ c.done \in Nat /\ k \in 1..(c.n - c.done)
  BY <1>1 DEF MovedSoFar
<1>3. CASE c.op \in Vectored
  <2> DEFINE s == CellsOf(c.iov)
  <2>1. c.iov \in Pieces \X Pieces /\ Len(s) = c.n - c.done
        /\ \A j \in 1..(c.n - c.done) : s[j] = c.plan[c.done + j]
    BY <1>1, <1>3 DEF Ahead
  <2>2. s \in Seq(Nat)
    <3> PICK v \in Pieces, w \in Pieces : c.iov = <<v, w>>
      BY <2>1
    <3> QED
      BY CellsAt
  <2> HIDE DEF s
  <2>3. \A i \in 1..k : s[i] \in Nat
    BY <2>1, <2>2, <1>2, LenProperties
  <2>4. \A i \in 1..(k - 1 + 1) : SubSeq(s, 1, k)[i] = s[1 + i - 1]
    <3>1. 1 \in Int /\ k \in Int
      BY <1>2
    <3> QED
      BY <2>3, <3>1, SubSeqProperties
  <2>5. NextCells(t, k) = SubSeq(s, 1, k)
    BY <1>3 DEF NextCells, s
  <2> QED
    BY <2>1, <2>4, <2>5, <1>2
<1>4. CASE c.op \notin Vectored
  <2>1. NextCells(t, k) = [j \in 1..k |-> c.done + j]
    BY <1>4 DEF NextCells
  <2>2. \A j \in 1..c.n : c.plan[j] = j
    BY <1>1, <1>4 DEF Ahead
  <2> QED
    BY <2>1, <2>2, <1>2
<1> QED
  BY <1>3, <1>4

\* What a write leaves of the file.
LEMMA AfterWriteIs ==
  ASSUME disk \in Seq(Nat), NEW off \in Nat, NEW s \in Seq(Nat)
  PROVE  /\ AfterWrite(off, s) \in Seq(Nat)
         /\ Len(AfterWrite(off, s)) >= Len(disk) /\ Len(AfterWrite(off, s)) >= off + Len(s)
         /\ \A j \in 1..Len(s) : AfterWrite(off, s)[off + j] = s[j]
         /\ \A i \in 1..Len(disk) : i \notin (off + 1)..(off + Len(s)) => AfterWrite(off, s)[i] = disk[i]
<1> DEFINE len == Max({Len(disk), off + Len(s)})  d == AfterWrite(off, s)
<1>1. Len(disk) \in Nat /\ Len(s) \in Nat
  BY LenProperties
<1>2. len \in {Len(disk), off + Len(s)} /\ len >= Len(disk) /\ len >= off + Len(s)
  <2>1. \E m \in {Len(disk), off + Len(s)} : \A y \in {Len(disk), off + Len(s)} : m >= y
    BY <1>1
  <2> QED
    BY <2>1, <1>1 DEF Max
<1>3. len \in Nat
  BY <1>1, <1>2
<1> HIDE DEF len
<1>4. d = [i \in 1..len |-> IF i \in (off + 1)..(off + Len(s)) THEN s[i - off]
                            ELSE IF i <= Len(disk) THEN disk[i] ELSE Hole]
  BY DEF AfterWrite, len
<1>5. (\A i \in 1..Len(disk) : disk[i] \in Nat) /\ \A j \in 1..Len(s) : s[j] \in Nat
  BY LenProperties
<1>6. d \in [1..len -> Nat]
  <2>1. \A i \in 1..len : i \in (off + 1)..(off + Len(s)) => i - off \in 1..Len(s)
    BY <1>1
  <2>2. \A i \in 1..len : i <= Len(disk) => i \in 1..Len(disk)
    BY <1>1
  <2> QED
    BY <2>1, <2>2, <1>4, <1>5 DEF Hole
<1>7. d \in Seq(Nat) /\ Len(d) = len
  BY <1>3, <1>6, FunIsSeq
<1>8. \A j \in 1..Len(s) : d[off + j] = s[j]
  <2> TAKE j \in 1..Len(s)
  <2>1. off + j \in 1..len /\ off + j \in (off + 1)..(off + Len(s)) /\ (off + j) - off = j
    BY <1>1, <1>2, <1>3
  <2> QED
    BY <2>1, <1>4
<1>9. \A i \in 1..Len(disk) : i \notin (off + 1)..(off + Len(s)) => d[i] = disk[i]
  <2> TAKE i \in 1..Len(disk)
  <2>1. i \in 1..len /\ i <= Len(disk)
    BY <1>1, <1>2, <1>3
  <2> QED
    BY <2>1, <1>4
<1> QED
  BY <1>2, <1>7, <1>8, <1>9

LEMMA InRegion ==
  ASSUME NEW start \in Nat, NEW done \in Nat, NEW n \in Nat, NEW base \in Nat, NEW len \in Nat,
         done <= n, base <= start, start + n <= base + MaxLen, done > 0 => start + done <= len
  PROVE  \A i \in 1..done : start + i \in 1..len /\ start + i \in (base + 1)..(base + MaxLen)
<1>1. MaxLen \in Nat
  BY IoAssumption
<1> QED
  BY <1>1

\* What others write changes nothing in the region of a transfer.
LEMMA OthersStay ==
  ASSUME NEW c \in IoRecords, NEW base \in Nat, NEW p, NEW d \in Seq(Nat), NEW e \in Seq(Nat),
         Len(e) >= Len(d), \A i \in 1..Len(d) : i \in (base + 1)..(base + MaxLen) => e[i] = d[i],
         TransferOK(c, base, p, d)
  PROVE  TransferOK(c, base, p, e)
<1>1. MaxLen \in Nat /\ c.n \in Nat /\ c.done \in Nat /\ c.start \in Nat /\ Len(d) \in Nat /\ Len(e) \in Nat
  BY IoAssumption, LenProperties DEF IoRecords
<1>2. ASSUME MovedSoFar(c, base, p, d) PROVE MovedSoFar(c, base, p, e)
  <2>0. c.start + c.n <= base + MaxLen /\ base <= c.start /\ c.done <= c.n
        /\ (c.done > 0 => c.start + c.done <= Len(d))
    BY <1>1, <1>2 DEF MovedSoFar
  <2>1. \A i \in 1..c.done : c.start + i \in 1..Len(d) /\ c.start + i \in (base + 1)..(base + MaxLen)
    BY <1>1, <2>0, InRegion
  <2>2. \A i \in 1..c.done : e[c.start + i] = d[c.start + i]
    BY <2>1
  <2>3. c.done > 0 => c.start + c.done <= Len(e)
    <3>1. Len(d) <= Len(e)
      OBVIOUS
    <3>2. c.start + c.done \in Nat
      BY <1>1
    <3> QED
      BY <1>1, <2>0, <3>1, <3>2
  <2> QED
    BY <1>2, <2>2, <2>3 DEF MovedSoFar
<1> QED
  BY <1>2 DEF TransferOK

\* A transfer that got further: k more bytes are done.
Further(c, e, k) ==
  /\ e.op = c.op /\ e.n = c.n /\ e.plan = c.plan /\ e.start = c.start /\ e.mem = c.mem
  /\ e.done = c.done + k /\ e.st \in {"run", "done"}
  /\ (e.st = "run" => Ahead(e)) /\ (e.st = "done" => Back(e))

LEMMA GoesOn ==
  ASSUME NEW c \in IoRecords, NEW x \in Nat, NEW v \in Vectors, NEW st \in {"idle", "run", "done"}
  PROVE  [c EXCEPT !.done = x, !.iov = v, !.st = st, !.ret = x] \in IoRecords
<1>1. [c EXCEPT !.done = x] \in IoRecords
  BY DEF IoRecords
<1>2. \A d \in IoRecords : [d EXCEPT !.iov = v] \in IoRecords
  BY DEF IoRecords
<1>3. \A d \in IoRecords : [d EXCEPT !.st = st] \in IoRecords
  BY DEF IoRecords
<1>4. \A d \in IoRecords : [d EXCEPT !.ret = x] \in IoRecords
  <2>1. \A d \in IoRecords, r \in Int : [d EXCEPT !.ret = r] \in IoRecords
    BY DEF IoRecords
  <2>2. x \in Int
    OBVIOUS
  <2> QED
    BY <2>1, <2>2
<1>5. [c EXCEPT !.done = x, !.iov = v, !.st = st, !.ret = x]
        = [[[[c EXCEPT !.done = x] EXCEPT !.iov = v] EXCEPT !.st = st] EXCEPT !.ret = x]
  BY DEF IoRecords
<1> QED
  BY <1>1, <1>2, <1>3, <1>4, <1>5

LEMMA WentIs ==
  ASSUME NEW c \in IoRecords, Ahead(c), NEW k \in 1..(c.n - c.done)
  PROVE  Went(c, k) \in IoRecords /\ Further(c, Went(c, k), k)
<1> DEFINE e == Went(c, k)
           v == IF c.op \in Vectored THEN Skip(c.iov, k) ELSE c.iov
           st == IF c.done + k < c.n THEN "run" ELSE "done"
<1>1. c.n \in Nat /\ c.done \in Nat /\ k \in Nat /\ k >= 1 /\ c.done + k <= c.n /\ c.done + k \in Nat
  <2>1. c.n \in Nat /\ c.done \in Nat
    BY DEF IoRecords
  <2> QED
    BY <2>1
<1>2. e = [c EXCEPT !.done = c.done + k, !.iov = v, !.st = st, !.ret = c.done + k]
  BY DEF Went
<1>3. c.op \in Vectored =>
        /\ v \in Pieces \X Pieces /\ Len(CellsOf(v)) = c.n - (c.done + k)
        /\ \A j \in 1..(c.n - (c.done + k)) : CellsOf(v)[j] = c.plan[(c.done + k) + j]
  <2> SUFFICES ASSUME c.op \in Vectored
               PROVE  /\ v \in Pieces \X Pieces /\ Len(CellsOf(v)) = c.n - (c.done + k)
                      /\ \A j \in 1..(c.n - (c.done + k)) : CellsOf(v)[j] = c.plan[(c.done + k) + j]
    OBVIOUS
  <2>1. /\ c.iov \in Pieces \X Pieces /\ Len(CellsOf(c.iov)) = c.n - c.done
        /\ \A j \in 1..(c.n - c.done) : CellsOf(c.iov)[j] = c.plan[c.done + j]
    BY DEF Ahead
  <2>2. k <= Len(CellsOf(c.iov))
    BY <1>1, <2>1
  <2>3. /\ v \in Pieces \X Pieces /\ Len(CellsOf(v)) = Len(CellsOf(c.iov)) - k
        /\ \A j \in 1..(Len(CellsOf(c.iov)) - k) : CellsOf(v)[j] = CellsOf(c.iov)[k + j]
    BY <1>1, <2>1, <2>2, SkipIs
  <2> HIDE DEF v
  <2>4. (c.n - c.done) - k = c.n - (c.done + k)
    BY <1>1
  <2>5. ASSUME NEW j \in 1..(c.n - (c.done + k)) PROVE CellsOf(v)[j] = c.plan[(c.done + k) + j]
    <3>1. k + j \in 1..(c.n - c.done) /\ c.done + (k + j) = (c.done + k) + j
      BY <1>1
    <3> QED
      BY <2>1, <2>3, <2>4, <3>1
  <2> QED
    BY <2>1, <2>3, <2>4, <2>5
<1>4. v \in Vectors
  <2>1. c.iov \in Vectors
    BY DEF IoRecords
  <2> QED
    BY <1>3, <2>1 DEF Vectors
<1> HIDE DEF v, st
<1>5. st \in {"run", "done"} /\ (st = "run" => c.done + k < c.n) /\ (st = "done" => c.done + k = c.n)
  BY <1>1 DEF st
<1>6. e \in IoRecords
  <2>1. st \in {"idle", "run", "done"}
    BY <1>5
  <2> DEFINE x == c.done + k
  <2>2. x \in Nat
    BY <1>1
  <2>3. e = [c EXCEPT !.done = x, !.iov = v, !.st = st, !.ret = x]
    BY <1>2
  <2> HIDE DEF e, x
  <2>4. [c EXCEPT !.done = x, !.iov = v, !.st = st, !.ret = x] \in IoRecords
    BY <1>4, <2>1, <2>2, GoesOn
  <2> QED
    BY <2>3, <2>4
<1>7. /\ e.op = c.op /\ e.n = c.n /\ e.plan = c.plan /\ e.start = c.start /\ e.mem = c.mem
      /\ e.done = c.done + k /\ e.st = st /\ e.iov = v /\ e.ret = c.done + k
  BY <1>2 DEF IoRecords
<1> HIDE DEF e
<1>8. e.st = "run" => Ahead(e)
  BY <1>3, <1>5, <1>7 DEF Ahead
<1>9. e.st = "done" => Back(e)
  BY <1>5, <1>7 DEF Back
<1> QED
  BY <1>5, <1>6, <1>7, <1>8, <1>9 DEF Further, e

\* Where the next bytes go or come from.
LEMMA OffsetIs ==
  ASSUME IoInv, NEW t \in IoThreads, Busy(t)
  PROVE  /\ Offset(t) = io[t].start + io[t].done /\ Offset(t) \in Nat
         /\ Base[t] \in Nat /\ Base[t] <= Offset(t)
         /\ \A k \in 1..LeftOf(t) : Offset(t) + k <= Base[t] + MaxLen
<1> DEFINE c == io[t]
<1>1. c \in IoRecords /\ MovedSoFar(c, Base[t], pos[t], disk) /\ LeftOf(t) = c.n - c.done /\ Base[t] \in Nat
  BY IoAssumption DEF IoInv, TransferOK, Busy, LeftOf
<1>2. c.n \in Nat /\ c.done \in Nat /\ c.start \in Nat /\ MaxLen \in Nat
  BY <1>1, IoAssumption DEF IoRecords
<1>3. Offset(t) = c.start + c.done
  BY <1>1 DEF Offset, StartOf, MovedSoFar
<1>4. Base[t] <= c.start /\ c.start + c.n <= Base[t] + MaxLen
  BY <1>1 DEF MovedSoFar
<1> HIDE DEF c
<1>5. c.start + c.done \in Nat /\ Base[t] <= c.start + c.done
      /\ \A k \in 1..(c.n - c.done) : (c.start + c.done) + k <= Base[t] + MaxLen
  BY <1>1, <1>2, <1>4
<1> QED
  BY <1>1, <1>3, <1>5 DEF c

\* A step that leaves the other threads' transfers, and moves no byte of theirs.
LEMMA StepKeeps ==
  ASSUME IoInv, NEW t \in IoThreads, NEW e, io' = [io EXCEPT ![t] = e], e \in IoRecords,
         NEW p \in Nat, pos' = [pos EXCEPT ![t] = p], disk' \in Seq(Nat), Len(disk') >= Len(disk),
         \A u \in IoThreads \ {t} : \A i \in 1..Len(disk) :
           i \in (Base[u] + 1)..(Base[u] + MaxLen) => disk'[i] = disk[i],
         TransferOK(e, Base[t], p, disk')
  PROVE  IoInv'
<1>1. io \in [IoThreads -> IoRecords] /\ pos \in [IoThreads -> Nat] /\ disk \in Seq(Nat)
  BY DEF IoInv
<1>2. io' \in [IoThreads -> IoRecords] /\ pos' \in [IoThreads -> Nat]
  BY <1>1
<1>3. ASSUME NEW u \in IoThreads PROVE TransferOK(io'[u], Base[u], pos'[u], disk')
  <2>1. CASE u = t
    BY <2>1, <1>1
  <2>2. CASE u # t
    <3>1. io'[u] = io[u] /\ pos'[u] = pos[u] /\ io[u] \in IoRecords /\ Base[u] \in Nat
      BY <2>2, <1>1, IoAssumption
    <3>2. TransferOK(io[u], Base[u], pos[u], disk)
      BY DEF IoInv
    <3>3. \A i \in 1..Len(disk) : i \in (Base[u] + 1)..(Base[u] + MaxLen) => disk'[i] = disk[i]
      BY <2>2
    <3> HIDE DEF IoInv
    <3>4. TransferOK(io[u], Base[u], pos[u], disk')
      BY <1>1, <3>1, <3>2, <3>3, OthersStay
    <3> QED
      BY <3>1, <3>4
  <2> QED
    BY <2>1, <2>2
<1> QED
  BY <1>2, <1>3 DEF IoInv

LEMMA StartStep ==
  ASSUME IoInv, NEW t \in IoThreads, NEW op \in LoopsOf[t], NEW n \in 1..MaxLen, NEW k \in 0..(n - 1),
         StartTransfer(t, op, n, k)
  PROVE  IoInv'
<1> DEFINE vec == Vector(n, k)  plan == CellsOf(vec)
           start == IF op \in Positional THEN Base[t] ELSE pos[t]
           mem == [i \in 1..n |-> IF op \in WriteLoops THEN i ELSE Hole]
           e == [op |-> op, n |-> n, done |-> 0, iov |-> vec, plan |-> plan, start |-> start,
                 mem |-> mem, st |-> "run", ret |-> 0]
<1>1. n \in Nat \ {0} /\ n \in 1..MaxLen /\ MaxLen \in Nat /\ Base[t] \in Nat /\ pos[t] \in Nat /\ op \in Loops
  BY IoAssumption DEF IoInv
<1>2. io' = [io EXCEPT ![t] = e] /\ pos' = pos /\ disk' = disk
  BY DEF StartTransfer
<1>3. (op \notin Positional => pos[t] \in Region(t) /\ pos[t] + n <= Base[t] + MaxLen)
      /\ (op \in Vectored \/ k = 0)
  BY DEF StartTransfer
<1>4. /\ vec \in Pieces \X Pieces /\ plan \in Seq(Nat) /\ Len(plan) = n /\ Once(n, plan)
      /\ (k = 0 => \A j \in 1..n : plan[j] = j)
  BY <1>1, VectorIs
<1>5. start \in Nat /\ Base[t] <= start /\ start + n <= Base[t] + MaxLen /\ (op \notin Positional => pos[t] = start)
  BY <1>1, <1>3 DEF Region
<1>6. mem \in Seq(Nat) /\ Len(mem) = n
  <2>1. mem \in [1..n -> Nat]
    BY DEF Hole
  <2> QED
    BY <1>1, <2>1, FunIsSeq
<1>7. op \notin WriteLoops => \A i \in 1..n : mem[plan[i]] = Hole
  BY <1>4 DEF Once
<1> HIDE DEF vec, plan, start, mem
<1>8. e.op = op /\ e.n = n /\ e.done = 0 /\ e.iov = vec /\ e.plan = plan /\ e.start = start /\ e.mem = mem
      /\ e.st = "run" /\ e.ret = 0
  OBVIOUS
<1>9. e \in IoRecords
  <2>1. vec \in Vectors
    BY <1>4 DEF Vectors
  <2> QED
    BY <1>1, <1>4, <1>5, <1>6, <2>1 DEF IoRecords
<1> HIDE DEF e
<1>10. MovedSoFar(e, Base[t], pos[t], disk)
  <2>1. 0 \in 0..n /\ (\A i \in 1..0 : mem[plan[i]] = disk[start + i])
    BY <1>1
  <2>2. op \notin Positional => pos[t] = start + 0
    BY <1>5
  <2>3. op \notin WriteLoops => \A i \in (0 + 1)..n : mem[plan[i]] = Hole
    BY <1>7
  <2> QED
    BY <1>1, <1>4, <1>5, <1>6, <1>8, <2>1, <2>2, <2>3 DEF MovedSoFar
<1>11. Ahead(e)
  <2>1. 0 < n /\ n - 0 = n /\ \A j \in 1..n : plan[0 + j] = plan[j]
    BY <1>1
  <2> QED
    BY <1>3, <1>4, <1>8, <2>1 DEF Ahead, plan
<1>12. TransferOK(e, Base[t], pos[t], disk')
  BY <1>2, <1>8, <1>10, <1>11 DEF TransferOK
<1>13. /\ disk' \in Seq(Nat) /\ Len(disk') >= Len(disk) /\ pos' = [pos EXCEPT ![t] = pos[t]]
       /\ \A u \in IoThreads \ {t} : \A i \in 1..Len(disk) :
           i \in (Base[u] + 1)..(Base[u] + MaxLen) => disk'[i] = disk[i]
  <2>1. disk \in Seq(Nat) /\ pos \in [IoThreads -> Nat]
    BY DEF IoInv
  <2>2. Len(disk) \in Nat
    BY <2>1, LenProperties
  <2> QED
    BY <1>2, <2>1, <2>2
<1> QED
  BY <1>1, <1>2, <1>9, <1>12, <1>13, StepKeeps

\* The buffer m and the file d have k more bytes in common.
Arrived(c, m, d, k) ==
  /\ (c.start + c.done) + k <= Len(d)
  /\ \A i \in 1..c.done : m[c.plan[i]] = d[c.start + i]
  /\ \A j \in 1..k : m[c.plan[c.done + j]] = d[(c.start + c.done) + j]
  /\ c.op \notin WriteLoops => \A i \in (c.done + k + 1)..c.n : m[c.plan[i]] = Hole

LEMMA MovedOn ==
  ASSUME NEW c \in IoRecords, NEW base \in Nat, NEW p, NEW q, NEW d \in Seq(Nat), NEW old,
         MovedSoFar(c, base, p, old), NEW k \in 1..(c.n - c.done), NEW e,
         e.op = c.op, e.n = c.n, e.plan = c.plan, e.start = c.start, e.done = c.done + k,
         Len(e.mem) = c.n, c.op \notin Positional => q = p + k, Arrived(c, e.mem, d, k)
  PROVE  MovedSoFar(e, base, q, d)
<1>1. c.n \in Nat /\ c.done \in Nat /\ c.start \in Nat /\ k \in Nat /\ k >= 1 /\ c.done + k <= c.n
  <2>1. c.n \in Nat /\ c.done \in Nat /\ c.start \in Nat
    BY DEF IoRecords
  <2> QED
    BY <2>1
<1>2. c.done + k \in 0..c.n /\ c.start + (c.done + k) <= Len(d)
  <2>1. Len(d) \in Nat
    BY LenProperties
  <2>2. (c.start + c.done) + k <= Len(d)
    BY DEF Arrived
  <2> QED
    BY <2>1, <2>2, <1>1
<1>3. \A i \in 1..(c.done + k) : e.mem[c.plan[i]] = d[c.start + i]
  <2> TAKE i \in 1..(c.done + k)
  <2>1. CASE i <= c.done
    <3>1. i \in 1..c.done
      BY <1>1, <2>1
    <3> QED
      BY <3>1 DEF Arrived
  <2>2. CASE i > c.done
    <3> DEFINE j == i - c.done
    <3>1. j \in 1..k /\ c.done + j = i /\ (c.start + c.done) + j = c.start + i
      BY <1>1, <2>2
    <3> HIDE DEF j
    <3>2. e.mem[c.plan[c.done + j]] = d[(c.start + c.done) + j]
      BY <3>1 DEF Arrived
    <3> QED
      BY <3>1, <3>2
  <2> QED
    BY <1>1, <2>1, <2>2
<1>4. c.op \notin Positional => q = c.start + (c.done + k)
  <2>1. c.op \notin Positional => p = c.start + c.done
    BY DEF MovedSoFar
  <2> QED
    BY <1>1, <2>1
<1>5. /\ c.n \in 1..MaxLen /\ Once(c.n, c.plan) /\ base <= c.start /\ c.start + c.n <= base + MaxLen
  BY DEF MovedSoFar
<1>6. c.op \notin WriteLoops => \A i \in ((c.done + k) + 1)..c.n : e.mem[c.plan[i]] = Hole
  BY DEF Arrived
<1> QED
  BY <1>2, <1>3, <1>4, <1>5, <1>6 DEF MovedSoFar

\* A system call that moved k bytes, between the buffer m and the file disk'.
LEMMA GoStep ==
  ASSUME IoInv, NEW t \in IoThreads, Busy(t), NEW k \in 1..LeftOf(t),
         NEW m \in Seq(Nat), Len(m) = io[t].n, disk' \in Seq(Nat), Len(disk') >= Len(disk),
         \A u \in IoThreads \ {t} : \A i \in 1..Len(disk) :
           i \in (Base[u] + 1)..(Base[u] + MaxLen) => disk'[i] = disk[i],
         io' = [io EXCEPT ![t] = Went([io[t] EXCEPT !.mem = m], k)], Advance(t, k),
         Arrived(io[t], m, disk', k)
  PROVE  IoInv'
<1> DEFINE c == io[t]  c0 == [c EXCEPT !.mem = m]  e == Went(c0, k)
           p == IF c.op \in Positional THEN pos[t] ELSE pos[t] + k
<1>1. c \in IoRecords /\ MovedSoFar(c, Base[t], pos[t], disk) /\ Ahead(c) /\ Base[t] \in Nat /\ pos[t] \in Nat
      /\ k \in 1..(c.n - c.done)
  BY IoAssumption DEF IoInv, TransferOK, Busy, LeftOf
<1>2. c0 \in IoRecords
  BY <1>1 DEF IoRecords
<1>3. c0.op = c.op /\ c0.n = c.n /\ c0.plan = c.plan /\ c0.start = c.start /\ c0.done = c.done
      /\ c0.iov = c.iov /\ c0.mem = m
  BY <1>1 DEF IoRecords
<1> HIDE DEF c0
<1>4. Ahead(c0)
  BY <1>1, <1>3 DEF Ahead
<1>5. e \in IoRecords /\ Further(c0, e, k)
  BY <1>1, <1>2, <1>3, <1>4, WentIs
<1>6. io' = [io EXCEPT ![t] = e]
  BY DEF c0
<1> HIDE DEF e
<1>7. e.op = c.op /\ e.n = c.n /\ e.plan = c.plan /\ e.start = c.start /\ e.mem = m /\ e.done = c.done + k
      /\ (e.st = "run" => Ahead(e)) /\ (e.st = "done" => Back(e))
  BY <1>3, <1>5 DEF Further
<1>8. p \in Nat /\ pos' = [pos EXCEPT ![t] = p] /\ (c.op \notin Positional => p = pos[t] + k)
  <2>1. pos \in [IoThreads -> Nat] /\ k \in Nat
    BY <1>1 DEF IoInv
  <2>2. pos' = IF c.op \in Positional THEN pos ELSE [pos EXCEPT ![t] = @ + k]
    BY DEF Advance
  <2>3. pos = [pos EXCEPT ![t] = pos[t]] /\ pos[t] + k \in Nat
    BY <1>1, <2>1
  <2> QED
    BY <1>1, <2>2, <2>3
<1> HIDE DEF p
<1>9. MovedSoFar(e, Base[t], p, disk')
  <2>1. Arrived(c, e.mem, disk', k) /\ Len(e.mem) = c.n
    BY <1>7
  <2> HIDE DEF c
  <2> QED
    BY <1>1, <1>7, <1>8, <2>1, MovedOn
<1>10. TransferOK(e, Base[t], p, disk')
  BY <1>7, <1>9 DEF TransferOK
<1> QED
  BY <1>5, <1>6, <1>8, <1>10, StepKeeps

LEMMA Before ==
  ASSUME NEW start \in Nat, NEW done \in Nat, NEW len \in Nat, NEW k \in Nat, NEW off,
         off = start + done, done > 0 => start + done <= len
  PROVE  \A i \in 1..done : start + i \in 1..len /\ start + i \notin (off + 1)..(off + k)
OBVIOUS

LEMMA FileWriteStep ==
  ASSUME IoInv, NEW t \in IoThreads, WriteSome(t)
  PROVE  IoInv'
<1> DEFINE c == io[t]  off == Offset(t)
<1>1. PICK k \in 1..LeftOf(t) :
        /\ Busy(t) /\ c.op \in WriteLoops
        /\ disk' = AfterWrite(off, [j \in 1..k |-> c.mem[NextCells(t, k)[j]]])
        /\ io' = [io EXCEPT ![t] = Went(c, k)]
        /\ Advance(t, k)
  BY DEF WriteSome
<1> DEFINE s == [j \in 1..k |-> c.mem[NextCells(t, k)[j]]]
<1>2. c \in IoRecords /\ MovedSoFar(c, Base[t], pos[t], disk) /\ disk \in Seq(Nat) /\ LeftOf(t) = c.n - c.done
  BY <1>1 DEF IoInv, TransferOK, Busy, LeftOf
<1>3. c.n \in Nat /\ c.done \in Nat /\ c.start \in Nat /\ c.mem \in Seq(Nat) /\ Len(disk) \in Nat
  BY <1>2, LenProperties DEF IoRecords
<1>4. k \in Nat /\ k >= 1 /\ c.done + k <= c.n
  BY <1>2, <1>3
<1>5. off = c.start + c.done /\ off \in Nat /\ Base[t] <= off /\ off + k <= Base[t] + MaxLen /\ Base[t] \in Nat
  BY <1>1, OffsetIs
<1>6. /\ Once(c.n, c.plan) /\ Len(c.mem) = c.n /\ (c.done > 0 => c.start + c.done <= Len(disk))
      /\ \A i \in 1..c.done : c.mem[c.plan[i]] = disk[c.start + i]
  BY <1>2 DEF MovedSoFar
<1>7. \A j \in 1..k : c.done + j \in 1..c.n /\ s[j] = c.mem[c.plan[c.done + j]]
  <2>1. \A j \in 1..k : NextCells(t, k)[j] = c.plan[c.done + j]
    BY <1>1, NextIs
  <2>2. \A j \in 1..k : c.done + j \in 1..c.n
    BY <1>3, <1>4
  <2> QED
    BY <2>1, <2>2
<1>8. s \in Seq(Nat) /\ Len(s) = k
  <2>1. \A j \in 1..k : c.plan[c.done + j] \in 1..Len(c.mem)
    BY <1>6, <1>7 DEF Once
  <2>2. \A j \in 1..k : s[j] \in Nat
    <3>1. \A x \in 1..Len(c.mem) : c.mem[x] \in Nat
      BY <1>3, LenProperties
    <3> QED
      BY <1>7, <2>1, <3>1
  <2>3. s \in [1..k -> Nat]
    BY <2>2
  <2> HIDE DEF s
  <2> QED
    BY <1>4, <2>3, FunIsSeq
<1>9. disk' = AfterWrite(off, s)
  BY <1>1
<1> HIDE DEF s, off
<1>10. /\ disk' \in Seq(Nat) /\ Len(disk') >= Len(disk) /\ Len(disk') >= off + k
       /\ \A j \in 1..k : disk'[off + j] = s[j]
       /\ \A i \in 1..Len(disk) : i \notin (off + 1)..(off + k) => disk'[i] = disk[i]
  BY <1>2, <1>5, <1>8, <1>9, AfterWriteIs
<1>11. ASSUME NEW u \in IoThreads \ {t}, NEW i \in 1..Len(disk), i \in (Base[u] + 1)..(Base[u] + MaxLen)
       PROVE  disk'[i] = disk[i]
  <2>1. Base[u] \in Nat /\ MaxLen \in Nat
    BY IoAssumption
  <2>2. Base[t] + MaxLen <= Base[u] \/ Base[u] + MaxLen <= Base[t]
    BY IoAssumption
  <2>3. i \notin (off + 1)..(off + k)
    BY <1>4, <1>5, <1>11, <2>1, <2>2
  <2> QED
    BY <1>10, <2>3
<1>12. Arrived(c, c.mem, disk', k)
  <2>1. \A i \in 1..c.done : c.start + i \in 1..Len(disk) /\ c.start + i \notin (off + 1)..(off + k)
    <3>1. c.done > 0 => c.start + c.done <= Len(disk)
      BY <1>6
    <3>2. c.start \in Nat /\ c.done \in Nat /\ Len(disk) \in Nat /\ k \in Nat
      BY <1>3, <1>4
    <3>3. off = c.start + c.done
      BY <1>5
    <3> HIDE DEF c
    <3> QED
      BY <3>1, <3>2, <3>3, Before
  <2>2. \A i \in 1..c.done : c.mem[c.plan[i]] = disk'[c.start + i]
    BY <1>6, <1>10, <2>1
  <2>3. \A j \in 1..k : c.mem[c.plan[c.done + j]] = disk'[(c.start + c.done) + j]
    BY <1>5, <1>7, <1>10
  <2>4. (c.start + c.done) + k <= Len(disk')
    BY <1>5, <1>10
  <2> QED
    BY <1>1, <2>2, <2>3, <2>4 DEF Arrived
<1>13. [c EXCEPT !.mem = c.mem] = c
  BY <1>2 DEF IoRecords
<1> QED
  BY <1>1, <1>3, <1>6, <1>10, <1>11, <1>12, <1>13, GoStep

LEMMA FileReadStep ==
  ASSUME IoInv, NEW t \in IoThreads, ReadSome(t)
  PROVE  IoInv'
<1> DEFINE c == io[t]  off == Offset(t)
<1>1. PICK k \in 1..LeftOf(t) :
        /\ Busy(t) /\ c.op \notin WriteLoops /\ off + k <= Len(disk)
        /\ io' = [io EXCEPT ![t] = Went([c EXCEPT !.mem = Received(t, k)], k)]
        /\ Advance(t, k) /\ disk' = disk
  BY DEF ReadSome
<1> DEFINE m == Received(t, k)
<1>2. c \in IoRecords /\ MovedSoFar(c, Base[t], pos[t], disk) /\ disk \in Seq(Nat) /\ LeftOf(t) = c.n - c.done
  BY <1>1 DEF IoInv, TransferOK, Busy, LeftOf
<1>3. c.n \in Nat /\ c.done \in Nat /\ c.start \in Nat /\ c.mem \in Seq(Nat) /\ Len(disk) \in Nat
  BY <1>2, LenProperties DEF IoRecords
<1>4. k \in Nat /\ k >= 1 /\ c.done + k <= c.n
  BY <1>2, <1>3
<1>5. off = c.start + c.done /\ off \in Nat
  BY <1>1, OffsetIs
<1>6. /\ c.plan \in [1..c.n -> 1..c.n] /\ (\A i, j \in 1..c.n : c.plan[i] = c.plan[j] => i = j)
      /\ Len(c.mem) = c.n /\ (\A i \in 1..c.done : c.mem[c.plan[i]] = disk[c.start + i])
      /\ \A i \in (c.done + 1)..c.n : c.mem[c.plan[i]] = Hole
  BY <1>1, <1>2 DEF MovedSoFar, Once
<1>7. DOMAIN c.mem = 1..c.n /\ (\A x \in 1..c.n : c.mem[x] \in Nat) /\ \A x \in 1..Len(disk) : disk[x] \in Nat
  <2>1. Len(c.mem) = c.n
    BY <1>6
  <2>2. DOMAIN c.mem = 1..Len(c.mem) /\ \A x \in 1..Len(c.mem) : c.mem[x] \in Nat
    BY <1>3, LenProperties
  <2>3. \A x \in 1..Len(disk) : disk[x] \in Nat
    BY <1>2, LenProperties
  <2> QED
    BY <2>1, <2>2, <2>3
<1>8. \A j \in 1..k : NextCells(t, k)[j] = c.plan[c.done + j]
  BY <1>1, NextIs
<1>9. \A j \in 1..k : c.done + j \in 1..c.n /\ off + j \in 1..Len(disk)
  <2>1. off + k <= Len(disk)
    BY <1>1
  <2>2. c.n \in Nat /\ c.done \in Nat /\ Len(disk) \in Nat
    BY <1>3
  <2> HIDE DEF c, off
  <2>3. ASSUME NEW j \in 1..k PROVE c.done + j \in 1..c.n
    BY <1>4, <2>2
  <2>4. ASSUME NEW j \in 1..k PROVE off + j \in 1..Len(disk)
    BY <1>4, <1>5, <2>1, <2>2
  <2> QED
    BY <2>3, <2>4
<1> DEFINE Meets(x) == \E j \in 1..k : c.plan[c.done + j] = x
           Of(x)  == CHOOSE j \in 1..k : NextCells(t, k)[j] = x
<1>10. m = [x \in 1..c.n |-> IF Meets(x) THEN disk[off + Of(x)] ELSE c.mem[x]]
  BY <1>7, <1>8 DEF Received
<1>11. \A x : Meets(x) => Of(x) \in 1..k /\ c.plan[c.done + Of(x)] = x
  BY <1>8
<1> HIDE DEF m, Of, off
<1>12. m \in Seq(Nat) /\ Len(m) = c.n
  <2>1. \A x \in 1..c.n : m[x] \in Nat
    BY <1>7, <1>9, <1>10, <1>11
  <2>2. m \in [1..c.n -> Nat]
    BY <1>10, <2>1
  <2> QED
    BY <1>3, <2>2, FunIsSeq
<1>13. ASSUME NEW j \in 1..k PROVE m[c.plan[c.done + j]] = disk[(c.start + c.done) + j]
  <2> DEFINE x == c.plan[c.done + j]
  <2>1. Meets(x) /\ c.done + j \in 1..c.n /\ x \in 1..c.n
    BY <1>6, <1>9
  <2>2. Of(x) \in 1..k /\ c.plan[c.done + Of(x)] = c.plan[c.done + j] /\ c.done + Of(x) \in 1..c.n
    BY <1>9, <1>11, <2>1
  <2>3. c.done + Of(x) = c.done + j
    BY <1>6, <2>1, <2>2
  <2>4. Of(x) = j
    BY <1>3, <2>2, <2>3
  <2> QED
    BY <1>5, <1>10, <2>1, <2>4
<1>14. ASSUME NEW i \in 1..c.n, \A j \in 1..k : i # c.done + j
       PROVE  m[c.plan[i]] = c.mem[c.plan[i]]
  <2>1. c.plan[i] \in 1..c.n /\ ~Meets(c.plan[i])
    BY <1>6, <1>9, <1>14
  <2> QED
    BY <1>10, <2>1
<1>15. Arrived(c, m, disk', k)
  <2>1. ASSUME NEW i \in 1..c.done PROVE m[c.plan[i]] = disk[c.start + i]
    <3>1. i \in 1..c.n /\ \A j \in 1..k : i # c.done + j
      BY <1>3, <1>4
    <3> QED
      BY <1>6, <1>14, <3>1
  <2>2. ASSUME NEW i \in (c.done + k + 1)..c.n PROVE m[c.plan[i]] = Hole
    <3>1. i \in 1..c.n /\ i \in (c.done + 1)..c.n /\ \A j \in 1..k : i # c.done + j
      BY <1>3, <1>4
    <3> QED
      BY <1>6, <1>14, <3>1
  <2>3. (c.start + c.done) + k <= Len(disk')
    BY <1>1, <1>5
  <2> QED
    BY <1>1, <1>13, <2>1, <2>2, <2>3 DEF Arrived
<1>16. io' = [io EXCEPT ![t] = Went([io[t] EXCEPT !.mem = m], k)]
  BY <1>1 DEF m
<1>17. /\ disk' \in Seq(Nat) /\ Len(disk') >= Len(disk)
       /\ \A u \in IoThreads \ {t} : \A i \in 1..Len(disk) :
           i \in (Base[u] + 1)..(Base[u] + MaxLen) => disk'[i] = disk[i]
  BY <1>1, <1>2, <1>3
<1> QED
  BY <1>1, <1>12, <1>15, <1>16, <1>17, GoStep

\* The call returns: ret is what the loop reports, or -1.
LEMMA ReturnStep ==
  ASSUME IoInv, NEW t \in IoThreads, Busy(t), NEW r \in Int, r >= 0 => r = io[t].done /\ io[t].op \notin WriteLoops,
         io' = [io EXCEPT ![t] = Returns(io[t], r)], pos' = pos, disk' = disk
  PROVE  IoInv'
<1> DEFINE c == io[t]  e == Returns(c, r)
<1>1. c \in IoRecords /\ MovedSoFar(c, Base[t], pos[t], disk) /\ pos \in [IoThreads -> Nat] /\ disk \in Seq(Nat)
  BY DEF IoInv, TransferOK, Busy
<1>2. e \in IoRecords
  <2>1. [c EXCEPT !.st = "done"] \in IoRecords
    BY <1>1 DEF IoRecords
  <2>2. \A d \in IoRecords : [d EXCEPT !.ret = r] \in IoRecords
    BY DEF IoRecords
  <2>3. e = [[c EXCEPT !.st = "done"] EXCEPT !.ret = r]
    BY <1>1 DEF Returns, IoRecords
  <2> QED
    BY <2>1, <2>2, <2>3
<1>3. /\ e.op = c.op /\ e.n = c.n /\ e.plan = c.plan /\ e.start = c.start /\ e.mem = c.mem
      /\ e.done = c.done /\ e.st = "done" /\ e.ret = r
  BY <1>1 DEF IoRecords, Returns
<1> HIDE DEF e
<1>4. MovedSoFar(e, Base[t], pos[t], disk)
  BY <1>1, <1>3 DEF MovedSoFar
<1>5. r >= 0 => Back(e)
  BY <1>3 DEF Back
<1>6. TransferOK(e, Base[t], pos[t], disk')
  BY <1>3, <1>4, <1>5 DEF TransferOK
<1>7. Len(disk) \in Nat
  BY <1>1, LenProperties
<1>8. /\ disk' \in Seq(Nat) /\ Len(disk') >= Len(disk) /\ pos' = [pos EXCEPT ![t] = pos[t]] /\ pos[t] \in Nat
      /\ \A u \in IoThreads \ {t} : \A i \in 1..Len(disk) :
           i \in (Base[u] + 1)..(Base[u] + MaxLen) => disk'[i] = disk[i]
  BY <1>1, <1>7
<1> QED
  BY <1>2, <1>6, <1>8, StepKeeps DEF e

LEMMA EndStep ==
  ASSUME IoInv, NEW t \in IoThreads, EndOfFile(t)
  PROVE  IoInv'
<1>1. io[t].done \in Int
  BY DEF IoInv, IoRecords
<1>2. Busy(t) /\ io[t].op \notin WriteLoops /\ io' = [io EXCEPT ![t] = Returns(io[t], io[t].done)]
      /\ disk' = disk /\ pos' = pos
  BY DEF EndOfFile
<1> QED
  BY <1>1, <1>2, ReturnStep

LEMMA FailStep ==
  ASSUME IoInv, NEW t \in IoThreads, Failed(t)
  PROVE  IoInv'
<1>1. Busy(t) /\ io' = [io EXCEPT ![t] = Returns(io[t], -1)] /\ disk' = disk /\ pos' = pos
  BY DEF Failed
<1>2. -1 \in Int /\ ~(-1 >= 0)
  OBVIOUS
<1> QED
  BY <1>1, <1>2, ReturnStep

LEMMA SignalStep ==
  ASSUME Interruptible \subseteq Vectored, IoInv, NEW t \in IoThreads, Interrupted(t)
  PROVE  IoInv'
<1>1. io' = [io EXCEPT ![t] = AfterSignal(io[t])] /\ io[t].op \in Vectored /\ disk' = disk /\ pos' = pos
  BY DEF Interrupted
<1>2. AfterSignal(io[t]) = io[t]
  BY <1>1 DEF AfterSignal
<1>3. io' = io
  BY <1>1, <1>2 DEF IoInv
<1> QED
  BY <1>1, <1>3 DEF IoInv

LEMMA SeekStep ==
  ASSUME IoInv, NEW t \in IoThreads, i_seek(t)
  PROVE  IoInv'
<1> DEFINE e == [io[t] EXCEPT !.st = "idle"]
<1>1. PICK p \in {Base[t], Len(disk)} : pos' = [pos EXCEPT ![t] = p]
  BY DEF i_seek
<1>2. io' = [io EXCEPT ![t] = e] /\ disk' = disk
  BY DEF i_seek
<1>3. io[t] \in IoRecords /\ disk \in Seq(Nat) /\ Base[t] \in Nat
  BY IoAssumption DEF IoInv
<1>4. Len(disk) \in Nat
  BY <1>3, LenProperties
<1>5. e \in IoRecords /\ e.st = "idle"
  BY <1>3 DEF IoRecords
<1> HIDE DEF e
<1>6. TransferOK(e, Base[t], p, disk')
  BY <1>5 DEF TransferOK
<1>7. /\ disk' \in Seq(Nat) /\ Len(disk') >= Len(disk) /\ p \in Nat
      /\ \A u \in IoThreads \ {t} : \A i \in 1..Len(disk) :
           i \in (Base[u] + 1)..(Base[u] + MaxLen) => disk'[i] = disk[i]
  BY <1>2, <1>3, <1>4
<1> QED
  BY <1>1, <1>2, <1>5, <1>6, <1>7, StepKeeps

LEMMA TruncateStep ==
  ASSUME IoInv, NEW len \in Nat, i_truncate(len)
  PROVE  IoInv'
<1>1. /\ disk' = [i \in 1..len |-> IF i <= Len(disk) THEN disk[i] ELSE Hole]
      /\ io' = [t \in IoThreads |-> [io[t] EXCEPT !.st = "idle"]] /\ pos' = pos
  BY DEF i_truncate
<1>2. disk \in Seq(Nat) /\ pos \in [IoThreads -> Nat] /\ io \in [IoThreads -> IoRecords]
  BY DEF IoInv
<1>3. Len(disk) \in Nat /\ \A i \in 1..Len(disk) : disk[i] \in Nat
  BY <1>2, LenProperties
<1>4. disk' \in Seq(Nat)
  <2>1. \A i \in 1..len : i <= Len(disk) => i \in 1..Len(disk)
    BY <1>3
  <2>2. disk' \in [1..len -> Nat]
    BY <1>1, <1>3, <2>1 DEF Hole
  <2> QED
    BY <2>2, FunIsSeq
<1>5. ASSUME NEW t \in IoThreads PROVE io'[t] \in IoRecords /\ io'[t].st = "idle"
  <2>1. io'[t] = [io[t] EXCEPT !.st = "idle"] /\ io[t] \in IoRecords
    BY <1>1, <1>2
  <2> QED
    BY <2>1 DEF IoRecords
<1>6. io' \in [IoThreads -> IoRecords]
  <2>1. io' = [t \in IoThreads |-> io'[t]]
    BY <1>1
  <2> QED
    BY <1>5, <2>1
<1>7. \A t \in IoThreads : TransferOK(io'[t], Base[t], pos'[t], disk')
  BY <1>5 DEF TransferOK
<1> QED
  BY <1>1, <1>2, <1>4, <1>6, <1>7 DEF IoInv

LEMMA FileStart == FileInit => IoInv
<1> SUFFICES ASSUME FileInit PROVE IoInv
  OBVIOUS
<1>1. disk \in Seq(Nat)
  <2>1. PICK t \in IoThreads, len \in 0..MaxLen : disk = [i \in 1..(Base[t] + len) |-> Old]
    BY DEF FileInit
  <2> DEFINE n == Base[t] + len
  <2>2. n \in Nat
    BY IoAssumption
  <2>3. disk = [i \in 1..n |-> Old]
    BY <2>1
  <2> HIDE DEF n
  <2>4. disk \in [1..n -> Nat]
    BY <2>3 DEF Old
  <2> QED
    BY <2>2, <2>4, FunIsSeq
<1>2. pos \in [IoThreads -> Nat]
  BY IoAssumption DEF FileInit
<1> DEFINE c == [op |-> "pread", n |-> 0, done |-> 0, iov |-> << >>, plan |-> << >>,
                 start |-> 0, mem |-> << >>, st |-> "idle", ret |-> 0]
<1>3. c \in IoRecords /\ c.st = "idle"
  <2>1. << >> \in Vectors /\ << >> \in Seq(Nat)
    BY DEF Vectors
  <2>2. c.op \in Loops
    BY DEF Loops
  <2> QED
    BY <2>1, <2>2 DEF IoRecords
<1>4. io = [t \in IoThreads |-> c]
  BY DEF FileInit
<1> HIDE DEF c
<1>5. io \in [IoThreads -> IoRecords] /\ \A t \in IoThreads : io[t] = c
  BY <1>3, <1>4
<1>6. \A t \in IoThreads : TransferOK(io[t], Base[t], pos[t], disk)
  BY <1>3, <1>5 DEF TransferOK
<1> QED
  BY <1>1, <1>2, <1>5, <1>6 DEF IoInv

LEMMA FileStep ==
  ASSUME Interruptible \subseteq Vectored, IoInv, [FileNext]_ioVars
  PROVE  IoInv'
<1>1. ASSUME NEW t \in IoThreads, NEW op \in LoopsOf[t], NEW n \in 1..MaxLen, NEW k \in 0..(n - 1),
             StartTransfer(t, op, n, k)
      PROVE  IoInv'
  BY <1>1, StartStep
<1>2. ASSUME NEW t \in IoThreads,
             WriteSome(t) \/ ReadSome(t) \/ EndOfFile(t) \/ Interrupted(t) \/ Failed(t) \/ i_seek(t)
      PROVE  IoInv'
  BY <1>2, FileWriteStep, FileReadStep, EndStep, SignalStep, FailStep, SeekStep
<1>3. ASSUME NEW len \in {0} \cup {Base[t] + MaxLen - 1 : t \in IoThreads}, i_truncate(len)
      PROVE  IoInv'
  <2>1. len \in Nat
    BY IoAssumption
  <2> QED
    BY <1>3, <2>1, TruncateStep
<1>4. CASE UNCHANGED ioVars
  <2>1. disk' = disk /\ pos' = pos /\ io' = io
    BY <1>4 DEF ioVars
  <2> QED
    BY <2>1 DEF IoInv
<1> QED
  BY <1>1, <1>2, <1>3, <1>4 DEF FileNext

LEMMA InvIsWhole == IoInv => TransfersAreWhole
<1> SUFFICES ASSUME IoInv, NEW t \in IoThreads, Returned(t)
             PROVE  /\ \A i \in 1..io[t].n :
                         IF io[t].op \in WriteLoops \/ i <= io[t].ret
                         THEN io[t].mem[io[t].plan[i]] = disk[StartOf(t) + i]
                         ELSE io[t].mem[io[t].plan[i]] = Hole
                    /\ io[t].op \notin Positional => pos[t] = StartOf(t) + io[t].ret
  BY DEF TransfersAreWhole
<1> DEFINE c == io[t]
<1>1. MovedSoFar(c, Base[t], pos[t], disk) /\ Back(c) /\ StartOf(t) = c.start
  BY DEF IoInv, TransferOK, Returned, StartOf
<1>2. c.ret = c.done /\ (c.op \in WriteLoops => c.done = c.n)
  BY <1>1 DEF Back
<1>3. c.n \in Nat /\ c.done \in Nat
  BY DEF IoInv, IoRecords
<1>4. /\ c.op \notin Positional => pos[t] = c.start + c.done
      /\ \A i \in 1..c.done : c.mem[c.plan[i]] = disk[c.start + i]
      /\ c.op \notin WriteLoops => \A i \in (c.done + 1)..c.n : c.mem[c.plan[i]] = Hole
  BY <1>1 DEF MovedSoFar
<1> HIDE DEF c
<1>5. ASSUME NEW i \in 1..c.n
      PROVE  IF c.op \in WriteLoops \/ i <= c.ret
             THEN c.mem[c.plan[i]] = disk[c.start + i] ELSE c.mem[c.plan[i]] = Hole
  <2>1. CASE c.op \in WriteLoops \/ i <= c.ret
    <3>1. i \in 1..c.done
      BY <1>2, <1>3, <2>1
    <3> QED
      BY <1>4, <2>1, <3>1
  <2>2. CASE ~(c.op \in WriteLoops \/ i <= c.ret)
    <3>1. i \in (c.done + 1)..c.n
      BY <1>2, <1>3, <2>2
    <3> QED
      BY <1>4, <2>2, <3>1
  <2> QED
    BY <2>1, <2>2
<1> QED
  BY <1>1, <1>2, <1>4, <1>5 DEF c

\* A transfer that reports success moved every byte once, to its place, for any
\* threads, regions, lengths and cuts, when signals hit only the loops that try
\* again after one (os_posix.c, i_readv_all and i_writev_all).
THEOREM TransfersWhole ==
  ASSUME Interruptible \subseteq Vectored
  PROVE  FileSpec => []TransfersAreWhole
<1>1. IoInv /\ [FileNext]_ioVars => IoInv'
  BY FileStep
<1> QED
  BY <1>1, FileStart, InvIsWhole, PTL DEF FileSpec
=============================================================================
