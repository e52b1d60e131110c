----------------------------- MODULE BufferProofs -----------------------------
(***************************************************************************)
(* Theorems about the buffer pool and the pages of the file, for any       *)
(* number of frames, pages and handles, any limit of failing calls and any *)
(* set of values: the types (BufTyped) and that every frame and every pin  *)
(* is accounted for (FramesAreAccounted).                                  *)
(*                                                                         *)
(* FramesAccounted is not inductive, and a call is many steps: pgr_new     *)
(* alone reads the root page, upgrades two handles, may evict a frame for  *)
(* each, saves twice and may fail at every point. So the proof is about    *)
(* the state of the pager in the middle of a call, p, and about the set o  *)
(* of frames that the call has in its hands and that belong to no handle   *)
(* yet. Sound(p, o) says that the table finds what is present, that a      *)
(* handle has its frame and a writer the one copy of it, that no two       *)
(* handles share a writer's page, and that pins are counted, those left on *)
(* the root page included; what a client sees of p is stated beside. Each  *)
(* primitive (Fetch, Upgrade, Save, Release, Evict) keeps Sound, and every *)
(* call is a sequence of them that leaves o empty. The invariant is        *)
(* BufInv, which also has the clients between calls and the history of the *)
(* log.                                                                    *)
(***************************************************************************)
EXTENDS BufferPool, FiniteSetTheorems, WellFoundedInduction, TLAPS

-----------------------------------------------------------------------------
(* What a call works on: the state of the pager in the middle of a call.   *)

Kinds     == {"zero", "tombstone", "root", "data"}
Outcomes  == {"ok", "full", "would block", "invalid page", "out of range", "corrupt", "io",
              "crashed"}
Page      == [kind : {"data"}, val : {0, 1}] \cup [kind : Kinds \ {"data"}, val : Nat]
Hands     == Handles \cup {RootHandle}
FrameRec  == [present : BOOLEAN, access : BOOLEAN, dirty : BOOLEAN, pin : Nat,
              wsibling : Frames \cup {None}, pg : Nat, page : Page]
HandleRec == [mode : {"none", "S", "X"}, r : Frames \cup {None}, w : Frames \cup {None}]
LogRec    == [pg : Nat, undo : Page, redo : Page]
Tables    == UNION {[D -> Frames] : D \in SUBSET Nat}
Stores    == UNION {[0..n -> Page] : n \in Nat}
State     == [frames : [Frames -> FrameRec], table : Tables, clock : Frames, store : Stores,
              records : Seq(LogRec), safe : Nat, handles : [Hands -> HandleRec],
              outcome : Outcomes, leaks : Nat]

\* A frame that the table finds, and one that holds the copy of a writer.
Found(F, T, i) == F[i].present /\ F[i].pg \in DOMAIN T /\ T[F[i].pg] = i
CopyIn(H, i)   == \E h \in Hands : H[h].mode = "X" /\ H[h].w = i

\* The handles on the page of a frame.
UsersOf(H, i) == {h \in Hands : H[h].mode # "none" /\ H[h].r = i}

TableOK(F, T) == \A pg \in DOMAIN T : F[T[pg]].present /\ F[T[pg]].pg = pg

\* A handle is on a page that the table finds; a writer also has a copy of it.
HandleOK(F, T, x) ==
  /\ x.mode = "none" => x = NoHandle
  /\ x.mode = "S" => x.w = None
  /\ x.mode # "none" => x.r \in Frames /\ Found(F, T, x.r)
  /\ x.mode = "X" =>
       /\ x.w \in Frames /\ ~Found(F, T, x.w)
       /\ F[x.w].present /\ F[x.w].pin > 0 /\ F[x.w].wsibling = None
       /\ F[x.w].pg = F[x.r].pg
       /\ F[x.r].wsibling = x.w /\ F[x.r].dirty
HandlesOK(F, T, H) == \A h \in Hands : HandleOK(F, T, H[h])

\* A writer shares neither its page nor its copy.
ApartOK(H) ==
  \A g, h \in Hands : g # h /\ H[g].mode = "X" =>
    /\ H[h].mode # "none" => H[h].r # H[g].r
    /\ H[h].mode = "X" => H[h].w # H[g].w

\* Every frame in use is found, a copy, or one of those a call has reserved (o).
FramesOK(F, T, H, o) ==
  \A i \in Frames :
    /\ F[i].present => i \in o \/ Found(F, T, i) \/ CopyIn(H, i)
    /\ ~F[i].present => F[i].wsibling = None
    /\ F[i].wsibling # None =>
         \E h \in Hands : H[h].mode = "X" /\ H[h].r = i /\ H[h].w = F[i].wsibling
    /\ i \in o => /\ F[i].present /\ F[i].pin > 0 /\ F[i].wsibling = None
                  /\ ~Found(F, T, i) /\ ~CopyIn(H, i)

\* A frame has a pin for every handle, and that of the root page L more, which
\* keep it in the pool.
Extra(L, pg) == IF pg = 0 THEN L ELSE 0
PinsOK(F, T, H, L) ==
  /\ L \in Nat /\ (L = 0 \/ 0 \in DOMAIN T)
  /\ \A pg \in DOMAIN T : F[T[pg]].pin = Cardinality(UsersOf(H, T[pg])) + Extra(L, pg)

Acc(F, T, H, o, L) ==
  TableOK(F, T) /\ HandlesOK(F, T, H) /\ ApartOK(H) /\ FramesOK(F, T, H, o) /\ PinsOK(F, T, H, L)

\* One frame, or one handle, is changed.
FrameSet(F, G, i, f) == G \in [Frames -> FrameRec] /\ G[i] = f /\ \A j \in Frames \ {i} : G[j] = F[j]
TwoSet(F, G, i, f, j, g) == /\ G \in [Frames -> FrameRec] /\ G[i] = f /\ G[j] = g
                            /\ \A k \in Frames \ {i, j} : G[k] = F[k]
HandleSet(H, K, h, x) == K \in [Hands -> HandleRec] /\ K[h] = x /\ \A g \in Hands \ {h} : K[g] = H[g]
TableSet(T, U, pg, i) == /\ U \in Tables /\ DOMAIN U = DOMAIN T \cup {pg} /\ U[pg] = i
                         /\ \A q \in DOMAIN T \ {pg} : U[q] = T[q]
TableDrop(T, U, pg) == /\ U \in Tables /\ DOMAIN U = DOMAIN T \ {pg}
                       /\ \A q \in DOMAIN U : U[q] = T[q]

-----------------------------------------------------------------------------
(* The changes of frames, table and handles that calls are made of.        *)

LEMMA FrameFacts ==
  /\ None \notin Frames /\ 0 \in Frames /\ NoHandle \in HandleRec /\ Empty \in FrameRec
  /\ Empty.wsibling = None /\ ~Empty.present /\ NoHandle.mode = "none"
  /\ \A c \in Frames : /\ SHandle(c) \in HandleRec /\ SHandle(c).mode = "S"
                       /\ SHandle(c).r = c /\ SHandle(c).w = None
                       /\ \A d \in Frames : /\ XHandle(c, d) \in HandleRec /\ XHandle(c, d).mode = "X"
                                            /\ XHandle(c, d).r = c /\ XHandle(c, d).w = d
<1>1. None \notin Frames /\ 0 \in Frames
  BY BufAssumption DEF Frames, None
<1>2. Zero \in Page
  BY DEF Zero, Content, Page, Kinds
<1>3. Empty \in FrameRec /\ Empty.wsibling = None /\ ~Empty.present
  BY <1>2 DEF Empty, FrameRec
<1>4. NoHandle \in HandleRec /\ NoHandle.mode = "none"
  BY DEF NoHandle, HandleRec
<1>5. ASSUME NEW c \in Frames
      PROVE  SHandle(c) \in HandleRec /\ SHandle(c).mode = "S" /\ SHandle(c).r = c /\ SHandle(c).w = None
  BY DEF SHandle, HandleRec
<1>6. ASSUME NEW c \in Frames, NEW d \in Frames
      PROVE  /\ XHandle(c, d) \in HandleRec /\ XHandle(c, d).mode = "X"
             /\ XHandle(c, d).r = c /\ XHandle(c, d).w = d
  BY DEF XHandle, HandleRec
<1> QED
  BY <1>1, <1>3, <1>4, <1>5, <1>6

LEMMA TableType ==
  ASSUME NEW T \in Tables
  PROVE  /\ DOMAIN T \in SUBSET Nat
         /\ \A pg \in DOMAIN T : T[pg] \in Frames /\ pg \in Nat
<1>1. PICK D \in SUBSET Nat : T \in [D -> Frames]
  BY DEF Tables
<1> QED
  BY <1>1

LEMMA UsersFinite ==
  ASSUME NEW H, NEW i
  PROVE  IsFiniteSet(UsersOf(H, i)) /\ Cardinality(UsersOf(H, i)) \in Nat
<1>1. IsFiniteSet(Hands)
  BY BufAssumption, FS_AddElement DEF Hands
<1>2. UsersOf(H, i) \in SUBSET Hands
  BY DEF UsersOf
<1> QED
  BY <1>1, <1>2, FS_Subset, FS_CardinalityType

LEMMA ExtraType ==
  ASSUME NEW L \in Nat, NEW pg
  PROVE  Extra(L, pg) \in Nat
BY DEF Extra

LEMMA NoUsers ==
  ASSUME NEW H, NEW i, Cardinality(UsersOf(H, i)) = 0, NEW h \in Hands, H[h].mode # "none"
  PROVE  H[h].r # i
<1>1. UsersOf(H, i) = {}
  BY UsersFinite, FS_EmptySet
<1> QED
  BY <1>1 DEF UsersOf

\* A handle that is taken is one user more of its frame.
LEMMA UserAdded ==
  ASSUME NEW H, NEW G, NEW h \in Hands, NEW c,
         H[h].mode = "none", G[h].mode # "none", G[h].r = c,
         \A g \in Hands \ {h} : G[g] = H[g]
  PROVE  /\ Cardinality(UsersOf(G, c)) = Cardinality(UsersOf(H, c)) + 1
         /\ \A i \in Frames \ {c} : UsersOf(G, i) = UsersOf(H, i)
<1>1. UsersOf(G, c) = UsersOf(H, c) \cup {h} /\ h \notin UsersOf(H, c)
  BY DEF UsersOf
<1>2. Cardinality(UsersOf(G, c)) = Cardinality(UsersOf(H, c)) + 1
  BY <1>1, UsersFinite, FS_AddElement
<1>3. \A i \in Frames \ {c} : UsersOf(G, i) = UsersOf(H, i)
  BY DEF UsersOf
<1> QED
  BY <1>2, <1>3

\* What no frame says of itself but whether it was accessed, and what is on its
\* page, makes no difference.
LEMMA SameFrames ==
  ASSUME NEW F \in [Frames -> FrameRec], NEW G \in [Frames -> FrameRec], NEW T \in Tables,
         NEW H \in [Hands -> HandleRec], NEW o, NEW L, Acc(F, T, H, o, L),
         \A i \in Frames : /\ G[i].present = F[i].present /\ G[i].dirty = F[i].dirty
                           /\ G[i].pin = F[i].pin /\ G[i].wsibling = F[i].wsibling
                           /\ G[i].pg = F[i].pg
  PROVE  Acc(G, T, H, o, L)
<1>1. \A pg \in DOMAIN T : T[pg] \in Frames
  BY TableType
<1>2. \A i \in Frames : Found(G, T, i) = Found(F, T, i)
  BY DEF Found
<1>3. TableOK(G, T)
  BY <1>1 DEF Acc, TableOK
<1>4. HandlesOK(G, T, H)
  BY <1>2 DEF Acc, HandlesOK, HandleOK
<1>5. ApartOK(H)
  BY DEF Acc
<1>6. FramesOK(G, T, H, o)
  BY <1>2 DEF Acc, FramesOK
<1>7. PinsOK(G, T, H, L)
  BY <1>1 DEF Acc, PinsOK
<1> QED
  BY <1>3, <1>4, <1>5, <1>6, <1>7 DEF Acc

\* A frame without a pin is found, and no handle is on its page: it can be evicted.
LEMMA Idle ==
  ASSUME NEW F \in [Frames -> FrameRec], NEW T \in Tables,
         NEW H \in [Hands -> HandleRec], NEW o, NEW L, Acc(F, T, H, o, L),
         NEW i \in Frames, F[i].present, F[i].pin = 0
  PROVE  /\ Found(F, T, i) /\ F[i].wsibling = None
         /\ \A h \in Hands : H[h].mode # "none" => H[h].r # i
         /\ \A h \in Hands : H[h].mode = "X" => H[h].w # i
<1>1. Found(F, T, i)
  BY DEF Acc, FramesOK, HandlesOK, HandleOK, CopyIn
<1>2. Cardinality(UsersOf(H, i)) = 0
  <2>1. 0 = Cardinality(UsersOf(H, i)) + Extra(L, F[i].pg) /\ L \in Nat
    BY <1>1 DEF Acc, PinsOK, Found
  <2> QED
    BY <2>1, UsersFinite, ExtraType
<1>3. \A h \in Hands : H[h].mode # "none" => H[h].r # i
  BY <1>2, NoUsers
<1>4. F[i].wsibling = None
  BY <1>3 DEF Acc, FramesOK
<1> QED
  BY <1>1, <1>3, <1>4 DEF Acc, HandlesOK, HandleOK

LEMMA Evicted ==
  ASSUME NEW F \in [Frames -> FrameRec], NEW T \in Tables,
         NEW H \in [Hands -> HandleRec], NEW o, NEW L, Acc(F, T, H, o, L),
         NEW i \in Frames, F[i].present, F[i].pin = 0,
         NEW G, FrameSet(F, G, i, Empty),
         NEW U, TableDrop(T, U, F[i].pg)
  PROVE  Acc(G, U, H, o, L)
<1>1. /\ \A pg \in DOMAIN T : T[pg] \in Frames
      /\ DOMAIN T \in SUBSET Nat
  BY TableType
<1>2. /\ Found(F, T, i) /\ F[i].wsibling = None
      /\ \A h \in Hands : H[h].mode # "none" => H[h].r # i
      /\ \A h \in Hands : H[h].mode = "X" => H[h].w # i
  BY Idle
<1>3. /\ G \in [Frames -> FrameRec] /\ G[i] = Empty
      /\ \A j \in Frames \ {i} : G[j] = F[j]
      /\ Empty.wsibling = None /\ ~Empty.present
  BY FrameFacts DEF FrameSet
<1>4. /\ U \in Tables /\ DOMAIN U = DOMAIN T \ {F[i].pg}
      /\ \A pg \in DOMAIN U : U[pg] = T[pg] /\ U[pg] \in Frames
  BY <1>1 DEF TableDrop
<1>5. \A pg \in DOMAIN U : U[pg] # i
  BY <1>2, <1>4 DEF Acc, TableOK, Found
<1>6. ~Found(G, U, i)
  BY <1>3 DEF Found
<1>7. \A j \in Frames \ {i} : Found(G, U, j) = Found(F, T, j)
  BY <1>2, <1>3, <1>4 DEF Found
<1>8. TableOK(G, U)
  BY <1>3, <1>4, <1>5 DEF Acc, TableOK
<1>9. HandlesOK(G, U, H)
  <2>1. SUFFICES ASSUME NEW h \in Hands PROVE HandleOK(G, U, H[h])
    BY DEF HandlesOK
  <2>2. HandleOK(F, T, H[h])
    BY DEF Acc, HandlesOK
  <2>3. H[h].mode # "none" => H[h].r \in Frames \ {i} /\ (H[h].mode = "X" => H[h].w \in Frames \ {i})
    BY <2>2, <1>2 DEF HandleOK
  <2> QED
    BY <1>3, <1>7, <2>2, <2>3 DEF HandleOK
<1>10. FramesOK(G, U, H, o)
  <2>1. i \notin o
    BY DEF Acc, FramesOK
  <2>2. ~CopyIn(H, i)
    BY <1>2 DEF CopyIn
  <2>3. FramesOK(F, T, H, o)
    BY DEF Acc
  <2> QED
    BY <1>3, <1>7, <2>1, <2>2, <2>3 DEF FramesOK
<1>11. PinsOK(G, U, H, L)
  <2>1. PinsOK(F, T, H, L)
    BY DEF Acc
  <2>2. \A pg \in DOMAIN U : G[U[pg]].pin = Cardinality(UsersOf(H, U[pg])) + Extra(L, pg)
    BY <1>3, <1>4, <1>5, <2>1 DEF PinsOK
  <2>3. F[i].pg = 0 => L = 0
    <3>1. 0 = Cardinality(UsersOf(H, i)) + Extra(L, F[i].pg) /\ L \in Nat
      BY <1>2, <2>1 DEF PinsOK, Found
    <3> QED
      BY <3>1, UsersFinite, ExtraType DEF Extra
  <2> QED
    BY <1>4, <2>1, <2>2, <2>3 DEF PinsOK
<1>12. ApartOK(H)
  BY DEF Acc
<1> QED
  BY <1>3, <1>4, <1>8, <1>9, <1>10, <1>11, <1>12 DEF Acc

\* A frame that is not present is filled for a call that goes on.
LEMMA Reserved ==
  ASSUME NEW F \in [Frames -> FrameRec], NEW T \in Tables,
         NEW H \in [Hands -> HandleRec], NEW o \in SUBSET Frames, NEW L, Acc(F, T, H, o, L),
         NEW c \in Frames, ~F[c].present,
         NEW f \in FrameRec, f.present, f.pin > 0, f.wsibling = None,
         NEW G, FrameSet(F, G, c, f)
  PROVE  Acc(G, T, H, o \cup {c}, L)
<1>1. \A pg \in DOMAIN T : T[pg] \in Frames /\ T[pg] # c
  BY TableType DEF Acc, TableOK
<1>2. /\ G \in [Frames -> FrameRec] /\ G[c] = f
      /\ \A j \in Frames \ {c} : G[j] = F[j]
  BY DEF FrameSet
<1>3. ~Found(F, T, c) /\ ~Found(G, T, c) /\ ~CopyIn(H, c)
  BY <1>1 DEF Found, CopyIn, Acc, HandlesOK, HandleOK
<1>4. \A j \in Frames \ {c} : Found(G, T, j) = Found(F, T, j)
  BY <1>2 DEF Found
<1>5. \A h \in Hands : /\ H[h].mode # "none" => H[h].r # c
                       /\ H[h].mode = "X" => H[h].w # c
  BY <1>3 DEF Acc, HandlesOK, HandleOK, CopyIn
<1>6. TableOK(G, T)
  BY <1>1, <1>2 DEF Acc, TableOK
<1>7. HandlesOK(G, T, H)
  BY <1>2, <1>4, <1>5 DEF Acc, HandlesOK, HandleOK
<1>8. FramesOK(G, T, H, o \cup {c})
  BY <1>2, <1>3, <1>4 DEF Acc, FramesOK
<1>9. PinsOK(G, T, H, L)
  BY <1>1, <1>2 DEF Acc, PinsOK
<1> QED
  BY <1>2, <1>6, <1>7, <1>8, <1>9 DEF Acc

\* A reserved frame enters the table, with a reader.
LEMMA Published ==
  ASSUME NEW F \in [Frames -> FrameRec], NEW T \in Tables,
         NEW H \in [Hands -> HandleRec], NEW o \in SUBSET Frames, NEW L, Acc(F, T, H, o, L),
         NEW c \in o, F[c].pin = 1, F[c].pg \notin DOMAIN T,
         NEW h \in Hands, H[h].mode = "none",
         NEW U, TableSet(T, U, F[c].pg, c),
         NEW K, HandleSet(H, K, h, SHandle(c))
  PROVE  Acc(F, U, K, o \ {c}, L)
<1> DEFINE pg == F[c].pg
<1>1. c \in Frames /\ pg \in Nat
  BY DEF FrameRec
<1>2. /\ U \in Tables /\ DOMAIN U = DOMAIN T \cup {pg} /\ U[pg] = c
      /\ \A q \in DOMAIN T : U[q] = T[q] /\ T[q] \in Frames
  BY TableType DEF TableSet
<1>3. /\ K \in [Hands -> HandleRec] /\ K[h] = SHandle(c)
      /\ \A g \in Hands \ {h} : K[g] = H[g]
      /\ SHandle(c) \in HandleRec /\ SHandle(c).mode = "S" /\ SHandle(c).r = c /\ SHandle(c).w = None
  BY <1>1, FrameFacts DEF HandleSet
<1>4. /\ F[c].present /\ F[c].wsibling = None /\ ~Found(F, T, c) /\ ~CopyIn(H, c)
  BY <1>1 DEF Acc, FramesOK
<1>5. Found(F, U, c)
  BY <1>1, <1>2, <1>4 DEF Found
<1>6. \A j \in Frames \ {c} : Found(F, U, j) = Found(F, T, j)
  BY <1>1, <1>2 DEF Found
<1>7. \A q \in DOMAIN T : T[q] # c
  BY <1>4 DEF Acc, TableOK, Found
<1>8. \A g \in Hands : H[g].mode # "none" => H[g].r # c
  BY <1>4 DEF Acc, HandlesOK, HandleOK
<1>9. TableOK(F, U)
  BY <1>1, <1>2, <1>4 DEF Acc, TableOK
<1>10. HandlesOK(F, U, K)
  <2>1. SUFFICES ASSUME NEW g \in Hands PROVE HandleOK(F, U, K[g])
    BY DEF HandlesOK
  <2>2. HandleOK(F, T, H[g])
    BY DEF Acc, HandlesOK
  <2>3. CASE g = h
    BY <1>1, <1>3, <1>5, <2>3 DEF HandleOK
  <2>4. CASE g # h
    <3>1. H[g].mode = "X" => H[g].w # c
      BY <1>4 DEF CopyIn
    <3> QED
      BY <1>3, <1>6, <1>8, <2>2, <2>4, <3>1 DEF HandleOK
  <2> QED
    BY <2>3, <2>4
<1>11. ApartOK(K)
  BY <1>3, <1>8 DEF Acc, ApartOK
<1>12. \A j \in Frames : CopyIn(K, j) = CopyIn(H, j)
  BY <1>3 DEF CopyIn
<1>13. FramesOK(F, U, K, o \ {c})
  <2>1. \A j \in Frames : F[j].wsibling # None =>
           \E g \in Hands : K[g].mode = "X" /\ K[g].r = j /\ K[g].w = F[j].wsibling
    BY <1>3 DEF Acc, FramesOK
  <2> QED
    BY <1>5, <1>6, <1>12, <2>1 DEF Acc, FramesOK
<1>14. PinsOK(F, U, K, L)
  <2>1. UsersOf(H, c) = {}
    BY <1>8 DEF UsersOf
  <2>2. Cardinality(UsersOf(H, c)) = 0
    BY <2>1, FS_EmptySet
  <2>3. /\ Cardinality(UsersOf(K, c)) = 1
        /\ \A i \in Frames \ {c} : UsersOf(K, i) = UsersOf(H, i)
    BY <1>3, <2>2, UserAdded
  <2>4. PinsOK(F, T, H, L)
    BY DEF Acc
  <2> QED
    BY <1>2, <1>7, <2>3, <2>4 DEF PinsOK, Extra
<1> QED
  BY <1>2, <1>3, <1>9, <1>10, <1>11, <1>13, <1>14 DEF Acc

\* A reader more of a page nobody writes.
LEMMA Shared ==
  ASSUME NEW F \in [Frames -> FrameRec], NEW T \in Tables,
         NEW H \in [Hands -> HandleRec], NEW o, NEW L, Acc(F, T, H, o, L),
         NEW i \in Frames, Found(F, T, i), F[i].wsibling = None,
         NEW h \in Hands, H[h].mode = "none",
         NEW G, FrameSet(F, G, i, [F[i] EXCEPT !.pin = @ + 1]),
         NEW K, HandleSet(H, K, h, SHandle(i))
  PROVE  Acc(G, T, K, o, L)
<1>1. /\ G \in [Frames -> FrameRec] /\ G[i].pin = F[i].pin + 1
      /\ G[i].present = F[i].present /\ G[i].dirty = F[i].dirty
      /\ G[i].wsibling = F[i].wsibling /\ G[i].pg = F[i].pg
      /\ \A j \in Frames \ {i} : G[j] = F[j]
      /\ F[i].pin \in Nat
  BY DEF FrameRec, FrameSet
<1>2. /\ K \in [Hands -> HandleRec] /\ K[h] = SHandle(i)
      /\ \A g \in Hands \ {h} : K[g] = H[g]
      /\ SHandle(i) \in HandleRec /\ SHandle(i).mode = "S" /\ SHandle(i).r = i /\ SHandle(i).w = None
  BY FrameFacts DEF HandleSet
<1>0. \A j \in Frames : /\ G[j].present = F[j].present /\ G[j].dirty = F[j].dirty
                        /\ G[j].wsibling = F[j].wsibling /\ G[j].pg = F[j].pg
                        /\ j # i => G[j].pin = F[j].pin
  BY <1>1
<1>3. \A j \in Frames : Found(G, T, j) = Found(F, T, j)
  BY <1>1 DEF Found
<1>4. \A j \in Frames : CopyIn(K, j) = CopyIn(H, j)
  BY <1>2 DEF CopyIn
<1>5. TableOK(G, T)
  BY <1>1, TableType DEF Acc, TableOK
<1>6. HandlesOK(G, T, K)
  <2>1. SUFFICES ASSUME NEW g \in Hands PROVE HandleOK(G, T, K[g])
    BY DEF HandlesOK
  <2>2. HandleOK(F, T, H[g])
    BY DEF Acc, HandlesOK
  <2>3. CASE g = h
    BY <1>2, <1>3, <2>3 DEF HandleOK
  <2>4. CASE g # h
    <3>1. H[g].mode = "X" => H[g].w # i
      BY <2>2 DEF HandleOK
    <3>2. K[g] = H[g]
      BY <1>2, <2>4
    <3> QED
      BY <1>0, <1>3, <2>2, <3>1, <3>2 DEF HandleOK
  <2> QED
    BY <2>3, <2>4
<1>7. ApartOK(K)
  <2>1. \A g \in Hands : H[g].mode = "X" => H[g].r # i
    BY FrameFacts DEF Acc, HandlesOK, HandleOK
  <2> QED
    BY <1>2, <2>1 DEF Acc, ApartOK
<1>8. FramesOK(G, T, K, o)
  <2>1. \A j \in Frames : G[j].wsibling # None =>
           \E g \in Hands : K[g].mode = "X" /\ K[g].r = j /\ K[g].w = G[j].wsibling
    BY <1>0, <1>2 DEF Acc, FramesOK
  <2>2. i \notin o
    BY DEF Acc, FramesOK
  <2>3. SUFFICES ASSUME NEW j \in Frames
                 PROVE  /\ G[j].present => j \in o \/ Found(G, T, j) \/ CopyIn(K, j)
                        /\ ~G[j].present => G[j].wsibling = None
                        /\ j \in o => /\ G[j].present /\ G[j].pin > 0 /\ G[j].wsibling = None
                                      /\ ~Found(G, T, j) /\ ~CopyIn(K, j)
    BY <2>1 DEF FramesOK
  <2> QED
    BY <1>0, <1>3, <1>4, <2>2 DEF Acc, FramesOK
<1>9. PinsOK(G, T, K, L)
  <2>1. /\ Cardinality(UsersOf(K, i)) = Cardinality(UsersOf(H, i)) + 1
        /\ \A j \in Frames \ {i} : UsersOf(K, j) = UsersOf(H, j)
    BY <1>2, UserAdded
  <2>2. Cardinality(UsersOf(H, i)) \in Nat
    BY UsersFinite
  <2>3. PinsOK(F, T, H, L)
    BY DEF Acc
  <2>4. ASSUME NEW pg \in DOMAIN T
        PROVE  G[T[pg]].pin = Cardinality(UsersOf(K, T[pg])) + Extra(L, pg)
    <3>1. T[pg] \in Frames /\ Extra(L, pg) \in Nat
      BY <2>3, TableType, ExtraType DEF PinsOK
    <3> QED
      BY <1>1, <2>1, <2>2, <2>3, <2>4, <3>1 DEF PinsOK
  <2> QED
    BY <2>3, <2>4 DEF PinsOK
<1> QED
  BY <1>1, <1>2, <1>5, <1>6, <1>7, <1>8, <1>9 DEF Acc

\* A copy is made for the only user of a page.
LEMMA Copied ==
  ASSUME NEW F \in [Frames -> FrameRec], NEW T \in Tables,
         NEW H \in [Hands -> HandleRec], NEW o, NEW L, Acc(F, T, H, o, L),
         NEW h \in Hands, H[h].mode = "S",
         \A g \in Hands \ {h} : H[g].mode # "none" => H[g].r # H[h].r,
         NEW c \in Frames, ~F[c].present,
         NEW f \in FrameRec, f.present, f.pin > 0, f.wsibling = None, f.pg = F[H[h].r].pg,
         NEW G, TwoSet(F, G, c, f, H[h].r, [F[H[h].r] EXCEPT !.dirty = TRUE, !.wsibling = c]),
         NEW K, HandleSet(H, K, h, XHandle(H[h].r, c))
  PROVE  Acc(G, T, K, o, L)
<1> DEFINE r == H[h].r
<1>1. HandlesOK(F, T, H) /\ TableOK(F, T) /\ ApartOK(H) /\ FramesOK(F, T, H, o) /\ PinsOK(F, T, H, L)
  BY DEF Acc
<1>2. r \in Frames /\ Found(F, T, r) /\ F[r].present /\ r # c
  BY <1>1 DEF HandlesOK, HandleOK, Found
<1>3. F[r].wsibling = None
  BY <1>1, <1>2 DEF FramesOK
<1>4. /\ G \in [Frames -> FrameRec] /\ G[c] = f
      /\ G[r].present = F[r].present /\ G[r].dirty /\ G[r].pin = F[r].pin
      /\ G[r].wsibling = c /\ G[r].pg = F[r].pg
      /\ \A j \in Frames \ {c, r} : G[j] = F[j]
  BY <1>2, ZenonT(40) DEF TwoSet, FrameRec
<1>5. /\ K \in [Hands -> HandleRec] /\ K[h] = XHandle(r, c)
      /\ \A g \in Hands \ {h} : K[g] = H[g]
      /\ XHandle(r, c) \in HandleRec /\ XHandle(r, c).mode = "X"
      /\ XHandle(r, c).r = r /\ XHandle(r, c).w = c
  BY <1>2, FrameFacts DEF HandleSet
<1>6. \A q \in DOMAIN T : T[q] \in Frames /\ T[q] # c
  BY <1>1, TableType DEF TableOK
<1>7. ~Found(F, T, c) /\ ~Found(G, T, c)
  BY <1>6 DEF Found
<1>8. \A j \in Frames : Found(G, T, j) = Found(F, T, j)
  BY <1>4, <1>7 DEF Found
<1>9. \A g \in Hands : /\ H[g].mode # "none" => H[g].r \in Frames /\ H[g].r # c
                       /\ H[g].mode = "X" => H[g].w \in Frames /\ H[g].w # c /\ H[g].w # r
  BY <1>1, <1>2, <1>7 DEF HandlesOK, HandleOK, Found
<1>10. \A j \in Frames \ {c} : CopyIn(K, j) = CopyIn(H, j)
  BY <1>5 DEF CopyIn
<1>11. TableOK(G, T)
  BY <1>1, <1>2, <1>4, <1>6, ZenonT(40) DEF TableOK
<1>12. HandlesOK(G, T, K)
  <2>1. SUFFICES ASSUME NEW g \in Hands PROVE HandleOK(G, T, K[g])
    BY DEF HandlesOK
  <2>2. CASE g = h
    BY <1>2, <1>4, <1>5, <1>7, <1>8, <2>2 DEF HandleOK
  <2>3. CASE g # h
    <3>1. HandleOK(F, T, H[g]) /\ K[g] = H[g]
      BY <1>1, <1>5, <2>3 DEF HandlesOK
    <3>2. H[g].mode # "none" => H[g].r \in Frames \ {c, r}
      BY <1>9, <2>3
    <3>3. H[g].mode = "X" => H[g].w \in Frames \ {c, r}
      BY <1>9
    <3> QED
      BY <1>4, <1>8, <3>1, <3>2, <3>3 DEF HandleOK
  <2> QED
    BY <2>2, <2>3
<1>13. ApartOK(K)
  BY <1>1, <1>5, <1>9 DEF ApartOK
<1>14. FramesOK(G, T, K, o)
  <2>1. \A j \in Frames : G[j].wsibling # None =>
           \E g \in Hands : K[g].mode = "X" /\ K[g].r = j /\ K[g].w = G[j].wsibling
    <3>1. SUFFICES ASSUME NEW j \in Frames, G[j].wsibling # None
                   PROVE  \E g \in Hands : K[g].mode = "X" /\ K[g].r = j /\ K[g].w = G[j].wsibling
      OBVIOUS
    <3>2. CASE j = r
      BY <1>4, <1>5, <3>2
    <3>3. CASE j # r
      <4>1. j # c
        BY <1>4, <3>1
      <4>2. G[j] = F[j]
        BY <1>4, <3>3, <4>1
      <4>3. PICK g \in Hands : H[g].mode = "X" /\ H[g].r = j /\ H[g].w = F[j].wsibling
        BY <1>1, <3>1, <4>2 DEF FramesOK
      <4> QED
        BY <1>5, <3>3, <4>2, <4>3
    <3> QED
      BY <3>2, <3>3
  <2>2. CopyIn(K, c)
    BY <1>5 DEF CopyIn
  <2>3. c \notin o
    BY <1>1 DEF FramesOK
  <2>4. SUFFICES ASSUME NEW j \in Frames
                 PROVE  /\ G[j].present => j \in o \/ Found(G, T, j) \/ CopyIn(K, j)
                        /\ ~G[j].present => G[j].wsibling = None
                        /\ j \in o => /\ G[j].present /\ G[j].pin > 0 /\ G[j].wsibling = None
                                      /\ ~Found(G, T, j) /\ ~CopyIn(K, j)
    BY <2>1 DEF FramesOK
  <2>5. CASE j = c
    BY <1>4, <2>2, <2>3, <2>5
  <2>6. CASE j = r
    BY <1>1, <1>2, <1>4, <1>8, <2>6 DEF FramesOK
  <2>7. CASE j # c /\ j # r
    BY <1>1, <1>4, <1>8, <1>10, <2>7 DEF FramesOK
  <2> QED
    BY <2>5, <2>6, <2>7
<1>15. PinsOK(G, T, K, L)
  <2>1. \A j \in Frames : UsersOf(K, j) = UsersOf(H, j)
    BY <1>5 DEF UsersOf
  <2>2. \A j \in Frames \ {c} : G[j].pin = F[j].pin
    BY <1>4
  <2> QED
    BY <1>1, <1>6, <2>1, <2>2 DEF PinsOK
<1> QED
  BY <1>11, <1>12, <1>13, <1>14, <1>15 DEF Acc

\* A writer gives its copy back and goes on as a reader.
LEMMA CopyGivenBack ==
  ASSUME NEW F \in [Frames -> FrameRec], NEW T \in Tables,
         NEW H \in [Hands -> HandleRec], NEW o, NEW L, Acc(F, T, H, o, L),
         NEW h \in Hands, H[h].mode = "X",
         NEW G, TwoSet(F, G, H[h].w, Empty, H[h].r, [F[H[h].r] EXCEPT !.wsibling = None]),
         NEW K, HandleSet(H, K, h, SHandle(H[h].r))
  PROVE  Acc(G, T, K, o, L)
<1> DEFINE r == H[h].r
           c == H[h].w
<1>1. HandlesOK(F, T, H) /\ TableOK(F, T) /\ ApartOK(H) /\ FramesOK(F, T, H, o) /\ PinsOK(F, T, H, L)
  BY DEF Acc
<1>2. r \in Frames /\ Found(F, T, r) /\ F[r].present /\ c \in Frames /\ ~Found(F, T, c) /\ r # c
  BY <1>1 DEF HandlesOK, HandleOK, Found
<1>3. /\ G \in [Frames -> FrameRec] /\ G[c] = Empty
      /\ G[r].present = F[r].present /\ G[r].dirty = F[r].dirty /\ G[r].pin = F[r].pin
      /\ G[r].wsibling = None /\ G[r].pg = F[r].pg
      /\ \A j \in Frames \ {c, r} : G[j] = F[j]
      /\ ~G[c].present /\ G[c].wsibling = None
  <2>1. /\ G \in [Frames -> FrameRec] /\ G[c] = Empty /\ G[r] = [F[r] EXCEPT !.wsibling = None]
        /\ \A j \in Frames \ {c, r} : G[j] = F[j]
    BY DEF TwoSet
  <2>2. F[r] \in FrameRec
    BY <1>2
  <2>3. /\ G[r].present = F[r].present /\ G[r].dirty = F[r].dirty /\ G[r].pin = F[r].pin
        /\ G[r].wsibling = None /\ G[r].pg = F[r].pg
    BY <2>1, <2>2 DEF FrameRec
  <2> QED
    BY <2>1, <2>3, FrameFacts
<1>4. /\ K \in [Hands -> HandleRec] /\ K[h] = SHandle(r)
      /\ \A g \in Hands \ {h} : K[g] = H[g]
      /\ SHandle(r) \in HandleRec /\ SHandle(r).mode = "S"
      /\ SHandle(r).r = r /\ SHandle(r).w = None
  BY <1>2, FrameFacts DEF HandleSet
<1>5. \A q \in DOMAIN T : T[q] \in Frames /\ T[q] # c
  BY <1>1, <1>2, TableType DEF TableOK, Found
<1>6. ~Found(G, T, c)
  BY <1>3 DEF Found
<1>7. \A j \in Frames : Found(G, T, j) = Found(F, T, j)
  BY <1>2, <1>3, <1>6 DEF Found
<1>8. \A g \in Hands \ {h} : /\ H[g].mode # "none" => H[g].r \in Frames \ {c, r}
                             /\ H[g].mode = "X" => H[g].w \in Frames \ {c, r}
  BY <1>1, <1>2 DEF HandlesOK, HandleOK, ApartOK
<1>9. \A j \in Frames \ {c} : CopyIn(K, j) = CopyIn(H, j)
  BY <1>4 DEF CopyIn
<1>10. ~CopyIn(K, c)
  BY <1>4, <1>8 DEF CopyIn
<1>11. TableOK(G, T)
  BY <1>1, <1>2, <1>3, <1>5 DEF TableOK
<1>12. HandlesOK(G, T, K)
  <2>1. SUFFICES ASSUME NEW g \in Hands PROVE HandleOK(G, T, K[g])
    BY DEF HandlesOK
  <2>2. CASE g = h
    BY <1>2, <1>3, <1>4, <1>7, <2>2 DEF HandleOK
  <2>3. CASE g # h
    <3>1. HandleOK(F, T, H[g]) /\ K[g] = H[g]
      BY <1>1, <1>4, <2>3 DEF HandlesOK
    <3> QED
      BY <1>3, <1>7, <1>8, <2>3, <3>1 DEF HandleOK
  <2> QED
    BY <2>2, <2>3
<1>13. ApartOK(K)
  BY <1>1, <1>4, <1>8 DEF ApartOK
<1>14. FramesOK(G, T, K, o)
  <2>1. \A j \in Frames : G[j].wsibling # None =>
           \E g \in Hands : K[g].mode = "X" /\ K[g].r = j /\ K[g].w = G[j].wsibling
    <3>1. SUFFICES ASSUME NEW j \in Frames, G[j].wsibling # None
                   PROVE  \E g \in Hands : K[g].mode = "X" /\ K[g].r = j /\ K[g].w = G[j].wsibling
      OBVIOUS
    <3>2. j # c /\ j # r
      BY <1>3, <3>1
    <3>3. G[j] = F[j]
      BY <1>3, <3>2
    <3>4. PICK g \in Hands : H[g].mode = "X" /\ H[g].r = j /\ H[g].w = F[j].wsibling
      BY <1>1, <3>1, <3>3 DEF FramesOK
    <3> QED
      BY <1>4, <3>2, <3>3, <3>4
  <2>2. CopyIn(H, c)
    BY DEF CopyIn
  <2>3. SUFFICES ASSUME NEW j \in Frames
                 PROVE  /\ G[j].present => j \in o \/ Found(G, T, j) \/ CopyIn(K, j)
                        /\ ~G[j].present => G[j].wsibling = None
                        /\ j \in o => /\ G[j].present /\ G[j].pin > 0 /\ G[j].wsibling = None
                                      /\ ~Found(G, T, j) /\ ~CopyIn(K, j)
    BY <2>1 DEF FramesOK
  <2>4. CASE j = c
    BY <1>1, <1>2, <1>3, <2>2, <2>4 DEF FramesOK
  <2>5. CASE j = r
    BY <1>1, <1>2, <1>3, <1>7, <2>5 DEF FramesOK
  <2>6. CASE j # c /\ j # r
    BY <1>1, <1>3, <1>7, <1>9, <2>6 DEF FramesOK
  <2> QED
    BY <2>4, <2>5, <2>6
<1>15. PinsOK(G, T, K, L)
  <2>1. \A j \in Frames : UsersOf(K, j) = UsersOf(H, j)
    BY <1>4 DEF UsersOf
  <2>2. \A j \in Frames \ {c} : G[j].pin = F[j].pin
    BY <1>3
  <2> QED
    BY <1>1, <1>5, <2>1, <2>2 DEF PinsOK
<1> QED
  BY <1>11, <1>12, <1>13, <1>14, <1>15 DEF Acc

\* The page of a handle has a pin.
LEMMA HasPin ==
  ASSUME NEW F \in [Frames -> FrameRec], NEW T \in Tables,
         NEW H \in [Hands -> HandleRec], NEW o, NEW L, Acc(F, T, H, o, L),
         NEW h \in Hands, H[h].mode # "none"
  PROVE  H[h].r \in Frames /\ Found(F, T, H[h].r) /\ F[H[h].r].pin \in Nat \ {0}
<1>1. H[h].r \in Frames /\ Found(F, T, H[h].r)
  BY DEF Acc, HandlesOK, HandleOK
<1>2. h \in UsersOf(H, H[h].r)
  BY DEF UsersOf
<1>3. Cardinality(UsersOf(H, H[h].r)) # 0 /\ Cardinality(UsersOf(H, H[h].r)) \in Nat
  BY <1>2, UsersFinite, FS_EmptySet
<1>4. F[H[h].r].pin = Cardinality(UsersOf(H, H[h].r)) + Extra(L, F[H[h].r].pg) /\ L \in Nat
  BY <1>1 DEF Acc, PinsOK, Found
<1>5. F[H[h].r].pin \in Nat
  BY <1>1 DEF FrameRec
<1> QED
  BY <1>1, <1>3, <1>4, <1>5, ExtraType

\* A reader gives its page back; its pin goes with it, or stays on the root page.
LEMMA ReaderLeaves ==
  ASSUME NEW F \in [Frames -> FrameRec], NEW T \in Tables,
         NEW H \in [Hands -> HandleRec], NEW o, NEW L, Acc(F, T, H, o, L),
         NEW h \in Hands, H[h].mode = "S",
         NEW G, NEW K, HandleSet(H, K, h, NoHandle), NEW M,
         \/ FrameSet(F, G, H[h].r, [F[H[h].r] EXCEPT !.pin = @ - 1]) /\ M = L
         \/ G = F /\ F[H[h].r].pg = 0 /\ M = L + 1
  PROVE  Acc(G, T, K, o, M)
<1> DEFINE r == H[h].r
<1>1. HandlesOK(F, T, H) /\ TableOK(F, T) /\ ApartOK(H) /\ FramesOK(F, T, H, o) /\ PinsOK(F, T, H, L)
  BY DEF Acc
<1>2. r \in Frames /\ Found(F, T, r) /\ F[r].pin \in Nat \ {0}
  BY HasPin
<1>3. /\ G \in [Frames -> FrameRec] /\ \A j \in Frames \ {r} : G[j] = F[j]
      /\ G[r].present = F[r].present /\ G[r].dirty = F[r].dirty
      /\ G[r].wsibling = F[r].wsibling /\ G[r].pg = F[r].pg
      /\ \/ G[r].pin = F[r].pin - 1 /\ M = L
         \/ G[r].pin = F[r].pin /\ F[r].pg = 0 /\ M = L + 1
  <2>1. F[r] \in FrameRec
    BY <1>2
  <2>2. CASE FrameSet(F, G, r, [F[r] EXCEPT !.pin = @ - 1]) /\ M = L
    BY <2>1, <2>2 DEF FrameSet, FrameRec
  <2>3. CASE G = F /\ F[r].pg = 0 /\ M = L + 1
    BY <2>3
  <2> QED
    BY <2>2, <2>3
<1>4. /\ K \in [Hands -> HandleRec] /\ K[h] = NoHandle /\ NoHandle.mode = "none"
      /\ \A g \in Hands \ {h} : K[g] = H[g]
  BY FrameFacts DEF HandleSet
<1>5. \A q \in DOMAIN T : T[q] \in Frames
  BY TableType
<1>0. \A j \in Frames : /\ G[j].present = F[j].present /\ G[j].dirty = F[j].dirty
                        /\ G[j].wsibling = F[j].wsibling /\ G[j].pg = F[j].pg
                        /\ j # r => G[j].pin = F[j].pin
  BY <1>3
<1>6. \A j \in Frames : Found(G, T, j) = Found(F, T, j)
  BY <1>0 DEF Found
<1>7. \A j \in Frames : CopyIn(K, j) = CopyIn(H, j)
  BY <1>4 DEF CopyIn
<1>8. TableOK(G, T)
  BY <1>1, <1>0, <1>5 DEF TableOK
<1>9. HandlesOK(G, T, K)
  <2>1. SUFFICES ASSUME NEW g \in Hands PROVE HandleOK(G, T, K[g])
    BY DEF HandlesOK
  <2>2. CASE g = h
    BY <1>4, <2>2 DEF HandleOK
  <2>3. CASE g # h
    <3>1. HandleOK(F, T, H[g]) /\ K[g] = H[g]
      BY <1>1, <1>4, <2>3 DEF HandlesOK
    <3>2. H[g].mode = "X" => H[g].w # r
      BY <1>2, <3>1 DEF HandleOK
    <3> QED
      BY <1>0, <1>6, <3>1, <3>2 DEF HandleOK
  <2> QED
    BY <2>2, <2>3
<1>10. ApartOK(K)
  BY <1>1, <1>4 DEF ApartOK
<1>11. FramesOK(G, T, K, o)
  <2>1. \A j \in Frames : G[j].wsibling # None =>
           \E g \in Hands : K[g].mode = "X" /\ K[g].r = j /\ K[g].w = G[j].wsibling
    BY <1>0, <1>1, <1>4 DEF FramesOK
  <2>2. r \notin o
    BY <1>1, <1>2 DEF FramesOK
  <2>3. SUFFICES ASSUME NEW j \in Frames
                 PROVE  /\ G[j].present => j \in o \/ Found(G, T, j) \/ CopyIn(K, j)
                        /\ ~G[j].present => G[j].wsibling = None
                        /\ j \in o => /\ G[j].present /\ G[j].pin > 0 /\ G[j].wsibling = None
                                      /\ ~Found(G, T, j) /\ ~CopyIn(K, j)
    BY <2>1 DEF FramesOK
  <2> QED
    BY <1>0, <1>1, <1>6, <1>7, <2>2 DEF FramesOK
<1>12. PinsOK(G, T, K, M)
  <2>1. /\ Cardinality(UsersOf(H, r)) = Cardinality(UsersOf(K, r)) + 1
        /\ \A j \in Frames \ {r} : UsersOf(H, j) = UsersOf(K, j)
    BY <1>4, UserAdded
  <2>2. Cardinality(UsersOf(K, r)) \in Nat
    BY UsersFinite
  <2>3. L \in Nat /\ M \in Nat /\ (L = 0 \/ 0 \in DOMAIN T) /\ F[r].pg \in DOMAIN T
    BY <1>1, <1>2, <1>3 DEF PinsOK, Found
  <2>4. ASSUME NEW q \in DOMAIN T
        PROVE  G[T[q]].pin = Cardinality(UsersOf(K, T[q])) + Extra(M, q)
    <3>1. F[T[q]].pin = Cardinality(UsersOf(H, T[q])) + Extra(L, q) /\ F[T[q]].pg = q
      BY <1>1 DEF PinsOK, TableOK
    <3>2. CASE T[q] # r
      <4>1. q = 0 => M = L
        BY <1>2, <1>3, <3>2 DEF Found
      <4> QED
        BY <1>0, <1>5, <2>1, <3>1, <3>2, <4>1 DEF Extra
    <3>3. CASE T[q] = r
      BY <1>2, <1>3, <2>1, <2>2, <2>3, <3>1, <3>3 DEF Extra
    <3> QED
      BY <3>2, <3>3
  <2>5. M = 0 \/ 0 \in DOMAIN T
    BY <1>3, <2>3
  <2> QED
    BY <2>3, <2>4, <2>5 DEF PinsOK
<1> QED
  BY <1>8, <1>9, <1>10, <1>11, <1>12 DEF Acc

\* A reserved frame is given back.
LEMMA ReservedGivenBack ==
  ASSUME NEW F \in [Frames -> FrameRec], NEW T \in Tables,
         NEW H \in [Hands -> HandleRec], NEW o, NEW L, Acc(F, T, H, o, L),
         NEW c \in o, c \in Frames, NEW G, FrameSet(F, G, c, Empty)
  PROVE  Acc(G, T, H, o \ {c}, L)
<1>1. HandlesOK(F, T, H) /\ TableOK(F, T) /\ ApartOK(H) /\ FramesOK(F, T, H, o) /\ PinsOK(F, T, H, L)
  BY DEF Acc
<1>2. /\ G \in [Frames -> FrameRec] /\ \A j \in Frames \ {c} : G[j] = F[j]
      /\ ~G[c].present /\ G[c].wsibling = None
  BY FrameFacts DEF FrameSet
<1>3. ~Found(F, T, c) /\ ~CopyIn(H, c) /\ F[c].present /\ F[c].wsibling = None
  BY <1>1 DEF FramesOK
<1>4. \A q \in DOMAIN T : T[q] \in Frames /\ T[q] # c
  BY <1>1, <1>3, TableType DEF TableOK, Found
<1>5. \A j \in Frames : Found(G, T, j) = Found(F, T, j)
  BY <1>2, <1>3 DEF Found
<1>6. \A g \in Hands : /\ H[g].mode # "none" => H[g].r # c
                       /\ H[g].mode = "X" => H[g].w # c
  BY <1>1, <1>3 DEF HandlesOK, HandleOK, CopyIn
<1>7. TableOK(G, T)
  BY <1>1, <1>2, <1>4 DEF TableOK
<1>8. HandlesOK(G, T, H)
  <2>1. SUFFICES ASSUME NEW g \in Hands PROVE HandleOK(G, T, H[g])
    BY DEF HandlesOK
  <2>2. HandleOK(F, T, H[g])
    BY <1>1 DEF HandlesOK
  <2> QED
    BY <1>2, <1>5, <1>6, <2>2 DEF HandleOK
<1>9. FramesOK(G, T, H, o \ {c})
  BY <1>1, <1>2, <1>3, <1>5 DEF FramesOK
<1>10. PinsOK(G, T, H, L)
  BY <1>1, <1>2, <1>4 DEF PinsOK
<1> QED
  BY <1>1, <1>7, <1>8, <1>9, <1>10 DEF Acc

-----------------------------------------------------------------------------
(* The state in the middle of a call, and what a client can see of it: the *)
(* pages as they are served, and for each handle its mode, its page and    *)
(* the copy it writes.                                                     *)

\* No frame holds a page that was never written, and a clean one is as on disk.
ContentOK(F, T, D) ==
  \A i \in Frames : F[i].present =>
    /\ F[i].page.kind # "zero"
    /\ Found(F, T, i) /\ ~F[i].dirty => D[F[i].pg] = F[i].page

Sound(p, o) ==
  /\ p \in State /\ o \subseteq Frames
  /\ p.safe <= Len(p.records) /\ DOMAIN p.table \subseteq DOMAIN p.store
  /\ Acc(p.frames, p.table, p.handles, o, p.leaks)
  /\ ContentOK(p.frames, p.table, p.store)

View(p, pg)  == IF pg \in DOMAIN p.table THEN p.frames[p.table[pg]].page ELSE p.store[pg]
PageNo(p, h) == Readable(p, h).pg
Mode(p, h)   == p.handles[h].mode

SameView(p, q) == /\ DOMAIN q.store = DOMAIN p.store
                  /\ \A pg \in DOMAIN p.store : View(q, pg) = View(p, pg)
SameHand(p, q, h) == /\ Mode(q, h) = Mode(p, h)
                     /\ Mode(p, h) # "none" => PageNo(q, h) = PageNo(p, h)
                     /\ Mode(p, h) = "X" => Copy(q, h) = Copy(p, h)
SameHands(p, q) == \A h \in Hands : SameHand(p, q, h)

Others(p, q, h) == \A g \in Hands \ {h} : SameHand(p, q, g)

\* Nothing is logged or served differently.
Kept(p, q) == SameView(p, q) /\ q.records = p.records

LEMMA StoreType ==
  ASSUME NEW D \in Stores
  PROVE  \E n \in Nat : D \in [0..n -> Page]
BY DEF Stores

\* The same frames but for what SameFrames ignores.
LEMMA Alike ==
  ASSUME NEW p, NEW o, Sound(p, o), NEW q \in State,
         q.table = p.table, q.store = p.store, q.records = p.records, q.safe = p.safe,
         q.handles = p.handles, q.leaks = p.leaks,
         \A i \in Frames : /\ q.frames[i].present = p.frames[i].present
                           /\ q.frames[i].dirty = p.frames[i].dirty
                           /\ q.frames[i].pin = p.frames[i].pin
                           /\ q.frames[i].wsibling = p.frames[i].wsibling
                           /\ q.frames[i].pg = p.frames[i].pg
                           /\ q.frames[i].page = p.frames[i].page
  PROVE  Sound(q, o) /\ Kept(p, q) /\ SameHands(p, q)
<1>1. /\ p.frames \in [Frames -> FrameRec] /\ q.frames \in [Frames -> FrameRec]
      /\ p.table \in Tables /\ p.handles \in [Hands -> HandleRec]
  BY DEF Sound, State
<1>2. Acc(q.frames, q.table, q.handles, o, q.leaks)
  BY <1>1, SameFrames DEF Sound
<1>3. \A i \in Frames : Found(q.frames, q.table, i) = Found(p.frames, p.table, i)
  BY DEF Found
<1>4. ContentOK(q.frames, q.table, q.store)
  BY <1>3 DEF Sound, ContentOK
<1>5. Sound(q, o)
  BY <1>2, <1>4 DEF Sound
<1>6. SameView(p, q)
  BY <1>1, TableType DEF SameView, View
<1>7. SameHands(p, q)
  <2>1. SUFFICES ASSUME NEW h \in Hands PROVE SameHand(p, q, h)
    BY DEF SameHands
  <2>2. HandleOK(p.frames, p.table, p.handles[h])
    BY DEF Sound, Acc, HandlesOK
  <2>3. p.handles[h] \in HandleRec
    BY <1>1
  <2>4. p.handles[h].mode # "none" => p.handles[h].r \in Frames
    BY <2>2 DEF HandleOK
  <2>5. p.handles[h].mode = "X" => p.handles[h].w \in Frames
    BY <2>2 DEF HandleOK
  <2> QED
    BY <2>4, <2>5 DEF SameHand, Mode, PageNo, Copy, Readable
<1> QED
  BY <1>5, <1>6, <1>7 DEF Kept

\* pgr_evict of a frame nobody uses changes nothing that is served.
Evicts(p, q, o, i) ==
  /\ Sound(q, o) /\ Kept(p, q) /\ SameHands(p, q)
  /\ q.handles = p.handles /\ q.outcome = p.outcome /\ q.clock = p.clock
  /\ DOMAIN q.table \subseteq DOMAIN p.table
  /\ ~q.frames[i].present /\ \A j \in Frames \ {i} : q.frames[j] = p.frames[j]

LEMMA EvictDoes ==
  ASSUME NEW p, NEW o, Sound(p, o), NEW i \in Frames, Unpinned(p, i)
  PROVE  Evicts(p, pgr_evict(p, i), o, i)
<1> DEFINE q == pgr_evict(p, i)
           f == p.frames[i]
<1>1. /\ p \in State /\ p.frames \in [Frames -> FrameRec] /\ f \in FrameRec
      /\ p.table \in Tables /\ p.handles \in [Hands -> HandleRec] /\ p.store \in Stores
      /\ p.records \in Seq(LogRec) /\ p.safe \in Nat /\ Len(p.records) \in Nat
      /\ Acc(p.frames, p.table, p.handles, o, p.leaks)
  BY DEF Sound, State
<1>2. f.present /\ f.pin = 0
  BY DEF Unpinned
<1>3. /\ Found(p.frames, p.table, i) /\ f.wsibling = None
      /\ \A h \in Hands : p.handles[h].mode # "none" => p.handles[h].r # i
      /\ \A h \in Hands : p.handles[h].mode = "X" => p.handles[h].w # i
  BY <1>1, <1>2, Idle
<1>4. /\ q.safe = IF f.dirty THEN Len(p.records) ELSE p.safe
      /\ q.store = IF f.dirty THEN [p.store EXCEPT ![f.pg] = f.page] ELSE p.store
      /\ q.table = [pg \in DOMAIN p.table \ {f.pg} |-> p.table[pg]]
      /\ q.frames = [p.frames EXCEPT ![i] = Empty]
      /\ q.records = p.records /\ q.handles = p.handles /\ q.outcome = p.outcome
      /\ q.clock = p.clock /\ q.leaks = p.leaks
  BY <1>1 DEF pgr_evict, State
<1>5. PICK n \in Nat : p.store \in [0..n -> Page]
  BY <1>1, StoreType
<1>6. f.pg \in DOMAIN p.table /\ f.pg \in 0..n /\ f.page \in Page
  BY <1>1, <1>3, <1>5 DEF Found, Sound, FrameRec
<1>7. /\ q.store \in [0..n -> Page] /\ q.store \in Stores
      /\ q.store[f.pg] = f.page
      /\ \A pg \in 0..n : pg # f.pg => q.store[pg] = p.store[pg]
  <2>1. ~f.dirty => p.store[f.pg] = f.page
    BY <1>2, <1>3 DEF Sound, ContentOK
  <2>2. q.store \in [0..n -> Page]
    BY <1>4, <1>5, <1>6
  <2>3. q.store \in Stores
    BY <2>2 DEF Stores
  <2> QED
    BY <1>4, <1>5, <1>6, <2>1, <2>2, <2>3
<1>8. TableDrop(p.table, q.table, f.pg)
  <2>1. q.table \in [DOMAIN p.table \ {f.pg} -> Frames]
    BY <1>1, <1>4, TableType
  <2>2. DOMAIN p.table \ {f.pg} \in SUBSET Nat
    BY <1>1, TableType
  <2>3. q.table \in Tables
    BY <2>1, <2>2 DEF Tables
  <2> QED
    BY <1>4, <2>3 DEF TableDrop
<1>9. FrameSet(p.frames, q.frames, i, Empty)
  BY <1>1, <1>4, FrameFacts DEF FrameSet
<1>10. Acc(q.frames, q.table, q.handles, o, q.leaks)
  BY <1>1, <1>2, <1>4, <1>8, <1>9, Evicted
<1>11. q \in State
  <2>1. q.safe \in Nat
    BY <1>1, <1>4
  <2>2. q.frames \in [Frames -> FrameRec] /\ q.table \in Tables
    BY <1>8, <1>9 DEF TableDrop, FrameSet
  <2> QED
    BY <1>1, <1>7, <2>1, <2>2 DEF State, pgr_evict
<1>12. q.safe <= Len(q.records) /\ DOMAIN q.table \subseteq DOMAIN q.store
  BY <1>1, <1>4, <1>5, <1>7 DEF Sound
<1>13. \A pg \in DOMAIN q.table : /\ pg \in DOMAIN p.table /\ q.table[pg] = p.table[pg]
                                  /\ q.table[pg] \in Frames \ {i}
  BY <1>1, <1>3, <1>8, TableType DEF TableDrop, Acc, TableOK, Found
<1>14. ContentOK(q.frames, q.table, q.store)
  <2>1. SUFFICES ASSUME NEW j \in Frames, q.frames[j].present
                 PROVE  /\ q.frames[j].page.kind # "zero"
                        /\ Found(q.frames, q.table, j) /\ ~q.frames[j].dirty =>
                             q.store[q.frames[j].pg] = q.frames[j].page
    BY DEF ContentOK
  <2>2. j # i /\ q.frames[j] = p.frames[j]
    BY <1>9, <2>1, FrameFacts DEF FrameSet
  <2>3. Found(q.frames, q.table, j) =>
          Found(p.frames, p.table, j) /\ p.frames[j].pg # f.pg /\ p.frames[j].pg \in 0..n
    BY <1>5, <1>8, <2>2 DEF Found, TableDrop, Sound
  <2> QED
    BY <1>7, <2>1, <2>2, <2>3 DEF Sound, ContentOK
<1>15. Sound(q, o)
  BY <1>10, <1>11, <1>12, <1>14 DEF Sound
<1>16. SameView(p, q)
  <2>1. ASSUME NEW pg \in 0..n PROVE View(q, pg) = View(p, pg)
    <3>1. CASE pg = f.pg
      BY <1>3, <1>7, <1>8, <3>1 DEF View, Found, TableDrop
    <3>2. CASE pg # f.pg
      BY <1>7, <1>8, <1>9, <1>13, <3>2 DEF View, TableDrop, FrameSet
    <3> QED
      BY <3>1, <3>2
  <2> QED
    BY <1>5, <1>7, <2>1 DEF SameView
<1>17. SameHands(p, q)
  <2>1. SUFFICES ASSUME NEW h \in Hands PROVE SameHand(p, q, h)
    BY DEF SameHands
  <2>2. HandleOK(p.frames, p.table, p.handles[h])
    BY <1>1 DEF Acc, HandlesOK
  <2>3. /\ p.handles[h].mode # "none" => p.handles[h].r \in Frames \ {i}
        /\ p.handles[h].mode = "X" => p.handles[h].w \in Frames \ {i}
    BY <1>3, <2>2 DEF HandleOK
  <2> QED
    BY <1>4, <1>9, <2>3 DEF SameHand, Mode, PageNo, Copy, Readable, FrameSet
<1> QED
  BY <1>4, <1>9, <1>15, <1>16, <1>17, FrameFacts DEF Kept, FrameSet, Evicts

LEMMA HasLeast ==
  ASSUME NEW S \in SUBSET Nat, S # {}
  PROVE  \E m \in S : \A x \in S : m <= x
<1> DEFINE R == OpToRel(<, Nat)
<1>1. \A x, y \in Nat : x < y => <<x, y>> \in R
  BY DEF OpToRel
<1>2. IsWellFoundedOn(R, Nat)
  BY NatLessThanWellFounded DEF OpToRel
<1> HIDE DEF R
<1>3. PICK m \in S : \A x \in S : ~ (<<x, m>> \in R)
  BY <1>2, WFMin
<1>4. \A x \in S : m <= x
  <2>1. TAKE x \in S
  <2>2. ~(x < m)
    BY <1>1, <1>3, Zenon
  <2> QED
    BY <2>2
<1> QED
  BY <1>4

LEMMA LeastMember ==
  ASSUME NEW S \in SUBSET Nat, S # {}
  PROVE  Min(S) \in S
BY HasLeast DEF Min

LEMMA AtIsFrame ==
  ASSUME NEW p \in State, NEW k \in Nat
  PROVE  At(p, k) \in Frames
BY BufAssumption DEF At, State, Frames

\* The clock passing over frames only forgets which were accessed.
LEMMA TurnedDoes ==
  ASSUME NEW p, NEW o, Sound(p, o), NEW passed,
         NEW q \in State, q.frames = Turned(p, passed).frames,
         q.table = p.table, q.store = p.store, q.records = p.records, q.safe = p.safe,
         q.handles = p.handles, q.leaks = p.leaks
  PROVE  /\ Sound(q, o) /\ Kept(p, q) /\ SameHands(p, q)
         /\ \A i \in Frames : /\ q.frames[i].present = p.frames[i].present
                              /\ q.frames[i].pin = p.frames[i].pin
                              /\ p.frames[i].pin > 0 => q.frames[i] = p.frames[i]
<1>1. p \in State /\ p.frames \in [Frames -> FrameRec]
  BY DEF Sound, State
<1>2. q.frames = [i \in Frames |-> IF i \in passed /\ Unpinned(p, i)
                                   THEN [p.frames[i] EXCEPT !.access = FALSE] ELSE p.frames[i]]
  BY <1>1 DEF Turned, State
<1>3. \A i \in Frames : /\ q.frames[i].present = p.frames[i].present
                        /\ q.frames[i].dirty = p.frames[i].dirty
                        /\ q.frames[i].pin = p.frames[i].pin
                        /\ q.frames[i].wsibling = p.frames[i].wsibling
                        /\ q.frames[i].pg = p.frames[i].pg
                        /\ q.frames[i].page = p.frames[i].page
                        /\ p.frames[i].pin > 0 => q.frames[i] = p.frames[i]
  <2>1. TAKE i \in Frames
  <2>2. p.frames[i] \in FrameRec
    BY <1>1
  <2>3. p.frames[i].pin > 0 => ~Unpinned(p, i)
    BY DEF Unpinned
  <2> QED
    BY <1>2, <2>2, <2>3 DEF FrameRec
<1> QED
  BY <1>3, Alike

LEMMA TurnedState ==
  ASSUME NEW p \in State, NEW passed, NEW c \in Frames
  PROVE  /\ [Turned(p, passed) EXCEPT !.clock = c] \in State
         /\ [Turned(p, passed) EXCEPT !.outcome = "full"] \in State
<1>1. p.frames \in [Frames -> FrameRec]
  BY DEF State
<1> DEFINE G == [i \in Frames |-> IF i \in passed /\ Unpinned(p, i)
                                  THEN [p.frames[i] EXCEPT !.access = FALSE] ELSE p.frames[i]]
<1>2. G \in [Frames -> FrameRec]
  BY <1>1 DEF FrameRec
<1>3. Turned(p, passed) = [p EXCEPT !.frames = G]
  BY DEF Turned, State
<1> HIDE DEF G
<1>4. Turned(p, passed) \in State
  BY <1>2, <1>3 DEF State
<1> QED
  BY <1>4 DEF State, Outcomes

LEMMA KeptOn ==
  ASSUME NEW p, NEW q, NEW r, Kept(p, q), Kept(q, r)
  PROVE  Kept(p, r)
BY DEF Kept, SameView

LEMMA SameHandOn ==
  ASSUME NEW p, NEW q, NEW r, NEW h, SameHand(p, q, h), SameHand(q, r, h)
  PROVE  SameHand(p, r, h)
BY DEF SameHand

\* pgr_reserve either finds all frames pinned, or the clock on a free frame; what
\* it evicts is served from the disk as it was from the frame.
Reserves(p, q, o) ==
  /\ Sound(q, o) /\ Kept(p, q) /\ SameHands(p, q) /\ q.handles = p.handles
  /\ DOMAIN q.table \subseteq DOMAIN p.table
  /\ \/ q.outcome = "full"
     \/ q.outcome = p.outcome /\ ~q.frames[q.clock].present
  /\ \A i \in Frames : p.frames[i].pin > 0 => q.frames[i] = p.frames[i]

LEMMA ReserveDoes ==
  ASSUME NEW p, NEW o, Sound(p, o)
  PROVE  Reserves(p, pgr_reserve(p), o)
<1> DEFINE stops == Stops(p)
           q == pgr_reserve(p)
<1>1. /\ p \in State /\ p.frames \in [Frames -> FrameRec]
      /\ p.handles \in [Hands -> HandleRec] /\ p.clock \in Frames
  BY DEF Sound, State
<1>2. CASE stops = {}
  <2> DEFINE t == [Turned(p, Frames) EXCEPT !.outcome = "full"]
  <2>1. q = t
    BY <1>2 DEF pgr_reserve, ReserveFirst
  <2>2. t \in State
    BY <1>1, TurnedState
  <2>3. /\ t.frames = Turned(p, Frames).frames /\ t.outcome = "full"
        /\ t.table = p.table /\ t.store = p.store /\ t.records = p.records /\ t.safe = p.safe
        /\ t.handles = p.handles /\ t.leaks = p.leaks
    BY <1>1 DEF Turned, State
  <2> HIDE DEF t
  <2> QED
    BY <2>1, <2>2, <2>3, TurnedDoes DEF Reserves
<1>3. CASE stops # {}
  <2> DEFINE m == Min(stops)
             c == At(p, m)
             passed == {At(p, j) : j \in 0..(Min(stops) - 1)}
             t == [Turned(p, passed) EXCEPT !.clock = c]
  <2>1. m \in stops /\ m \in Nat
    <3>1. stops \in SUBSET Nat
      BY BufAssumption DEF Stops
    <3> QED
      BY <1>3, <3>1, LeastMember
  <2>2. /\ c \in Frames
        /\ ~p.frames[c].present \/ Unpinned(p, c)
    <3>1. c \in Frames
      BY <1>1, <2>1, AtIsFrame
    <3> QED
      BY <2>1, <3>1 DEF Stops
  <2>3. q = Vacated(t)
    BY <1>3 DEF pgr_reserve, ReserveFirst
  <2> HIDE DEF m, stops
  <2>4. t \in State
    BY <1>1, <2>2, TurnedState
  <2>5. /\ t.frames = Turned(p, passed).frames /\ t.clock = c
        /\ t.table = p.table /\ t.store = p.store /\ t.records = p.records /\ t.safe = p.safe
        /\ t.handles = p.handles /\ t.leaks = p.leaks /\ t.outcome = p.outcome
    BY <1>1 DEF Turned, State
  <2> HIDE DEF t, c
  <2>6. /\ Sound(t, o) /\ Kept(p, t) /\ SameHands(p, t)
        /\ \A i \in Frames : /\ t.frames[i].present = p.frames[i].present
                             /\ t.frames[i].pin = p.frames[i].pin
                             /\ p.frames[i].pin > 0 => t.frames[i] = p.frames[i]
    BY <2>4, <2>5, TurnedDoes
  <2>7. CASE ~t.frames[c].present
    <3>1. q = t
      BY <2>3, <2>5, <2>7 DEF Vacated
    <3> QED
      BY <2>5, <2>6, <2>7, <3>1 DEF Reserves
  <2>8. CASE t.frames[c].present
    <3>1. q = pgr_evict(t, c)
      BY <2>3, <2>5, <2>8 DEF Vacated
    <3>2. Unpinned(t, c)
      BY <2>2, <2>6, <2>8 DEF Unpinned
    <3> HIDE DEF q
    <3>3. /\ Sound(q, o) /\ Kept(t, q) /\ SameHands(t, q)
          /\ q.handles = t.handles /\ q.outcome = t.outcome /\ q.clock = t.clock
          /\ DOMAIN q.table \subseteq DOMAIN t.table
          /\ ~q.frames[c].present /\ \A j \in Frames \ {c} : q.frames[j] = t.frames[j]
      BY <2>2, <2>6, <3>1, <3>2, EvictDoes DEF Evicts
    <3>4. Kept(p, q)
      BY <2>6, <3>3, KeptOn
    <3>5. SameHands(p, q)
      BY <2>6, <3>3, SameHandOn DEF SameHands
    <3>6. p.frames[c].pin = 0
      BY <2>2, <2>6, <3>2 DEF Unpinned
    <3>7. \A i \in Frames : p.frames[i].pin > 0 => q.frames[i] = p.frames[i]
      BY <2>6, <3>3, <3>6
    <3> QED
      BY <2>5, <3>3, <3>4, <3>5, <3>7 DEF q, Reserves
  <2> QED
    BY <2>7, <2>8
<1> QED
  BY <1>2, <1>3

-----------------------------------------------------------------------------
(* What the operations do, in terms of what a client can see.              *)

\* What is known of a handle in use.
LEMMA HandFacts ==
  ASSUME NEW p, NEW o, Sound(p, o), NEW g \in Hands, Mode(p, g) # "none"
  PROVE  /\ p.handles[g] \in HandleRec /\ Mode(p, g) \in {"S", "X"}
         /\ p.handles[g].r \in Frames /\ p.frames[p.handles[g].r] \in FrameRec
         /\ Found(p.frames, p.table, p.handles[g].r)
         /\ PageNo(p, g) \in DOMAIN p.table /\ PageNo(p, g) \in DOMAIN p.store
         /\ p.table[PageNo(p, g)] = p.handles[g].r
         /\ View(p, PageNo(p, g)) = PageOf(p, g)
         /\ Mode(p, g) = "X" => /\ p.handles[g].w \in Frames /\ p.handles[g].w # p.handles[g].r
                                /\ p.frames[p.handles[g].r].wsibling = p.handles[g].w
                                /\ p.frames[p.handles[g].r].dirty
                                /\ p.frames[p.handles[g].w] \in FrameRec
                                /\ p.frames[p.handles[g].w].present
                                /\ ~Found(p.frames, p.table, p.handles[g].w)
<1>1. /\ p.frames \in [Frames -> FrameRec] /\ p.handles \in [Hands -> HandleRec]
      /\ DOMAIN p.table \subseteq DOMAIN p.store
      /\ HandleOK(p.frames, p.table, p.handles[g])
  BY DEF Sound, State, Acc, HandlesOK
<1>2. p.handles[g] \in HandleRec /\ Mode(p, g) \in {"S", "X"}
  BY <1>1 DEF HandleRec, Mode
<1>3. p.handles[g].r \in Frames /\ Found(p.frames, p.table, p.handles[g].r)
  BY <1>1 DEF HandleOK, Mode
<1>4. /\ PageNo(p, g) \in DOMAIN p.table /\ PageNo(p, g) \in DOMAIN p.store
      /\ p.table[PageNo(p, g)] = p.handles[g].r
  BY <1>1, <1>3 DEF Found, PageNo, Readable
<1>5. View(p, PageNo(p, g)) = PageOf(p, g)
  BY <1>4 DEF View, PageOf, Readable
<1>6. Mode(p, g) = "X" => /\ p.handles[g].w \in Frames /\ p.handles[g].w # p.handles[g].r
                          /\ p.frames[p.handles[g].r].wsibling = p.handles[g].w
                          /\ p.frames[p.handles[g].r].dirty
                          /\ p.frames[p.handles[g].w].present
                          /\ ~Found(p.frames, p.table, p.handles[g].w)
  BY <1>1, <1>3 DEF HandleOK, Mode
<1> QED
  BY <1>1, <1>2, <1>3, <1>4, <1>5, <1>6

\* A handle whose frames are not touched (X are those that are) is the same.
LEMMA Untouched ==
  ASSUME NEW p, NEW o, Sound(p, o), NEW q, NEW g \in Hands, q.handles[g] = p.handles[g], NEW X,
         Mode(p, g) # "none" => p.handles[g].r \notin X,
         Mode(p, g) = "X" => p.handles[g].w \notin X,
         \A i \in Frames \ X : q.frames[i].pg = p.frames[i].pg /\ q.frames[i].page = p.frames[i].page
  PROVE  SameHand(p, q, g)
<1>1. CASE Mode(p, g) = "none"
  BY <1>1 DEF SameHand, Mode
<1>2. CASE Mode(p, g) = "S"
  <2>1. p.handles[g].r \in Frames \ X
    BY <1>2, HandFacts
  <2> QED
    BY <1>2, <2>1 DEF SameHand, Mode, PageNo, Readable
<1>3. CASE Mode(p, g) = "X"
  <2>1. p.handles[g].r \in Frames \ X /\ p.handles[g].w \in Frames \ X
    BY <1>3, HandFacts
  <2> QED
    BY <1>3, <2>1 DEF SameHand, Mode, PageNo, Readable, Copy
<1> QED
  BY <1>1, <1>2, <1>3, HandFacts

Blocked(p, pg) == \E g \in Hands : Mode(p, g) = "X" /\ PageNo(p, g) = pg

\* Why a page is not given: there is no frame, somebody writes it, or it is not
\* what the caller asked for.
Refused(p, why, kinds, pg) ==
  \/ why = "full"
  \/ why = "would block" /\ Blocked(p, pg)
  \/ why = "invalid page" /\ pg \in DOMAIN p.store /\ View(p, pg).kind \notin kinds \cup {"zero"}
  \/ why = "out of range" /\ pg \notin DOMAIN p.store
  \/ why = "corrupt" /\ pg \in DOMAIN p.store /\ View(p, pg).kind \notin kinds

\* The page was given to h, or not.
Given(p, q, h, kinds, pg) ==
  /\ q.outcome = p.outcome /\ Mode(q, h) = "S" /\ PageNo(q, h) = pg
  /\ pg \in DOMAIN p.store /\ View(p, pg).kind \in kinds /\ ~Blocked(p, pg)
NotGiven(p, q, h, kinds, pg) == Mode(q, h) = "none" /\ Refused(p, q.outcome, kinds, pg)
Gets(p, q, o, h, kinds, pg) ==
  /\ Sound(q, o) /\ Kept(p, q) /\ Others(p, q, h)
  /\ Given(p, q, h, kinds, pg) \/ NotGiven(p, q, h, kinds, pg)

\* Another outcome is all that is different.
LEMMA OutcomeOnly ==
  ASSUME NEW p, NEW o, Sound(p, o), NEW r \in Outcomes
  PROVE  LET q == [p EXCEPT !.outcome = r]
         IN  Sound(q, o) /\ Kept(p, q) /\ SameHands(p, q) /\ q.handles = p.handles /\ q.outcome = r
<1> DEFINE q == [p EXCEPT !.outcome = r]
<1>1. p \in State
  BY DEF Sound
<1>2. /\ q \in State /\ q.outcome = r
      /\ q.frames = p.frames /\ q.table = p.table /\ q.store = p.store /\ q.records = p.records
      /\ q.safe = p.safe /\ q.handles = p.handles /\ q.leaks = p.leaks
  BY <1>1 DEF State
<1> HIDE DEF q
<1>3. Sound(q, o) /\ Kept(p, q) /\ SameHands(p, q)
  BY <1>2, Alike
<1> QED
  BY <1>2, <1>3 DEF q

\* Everything but the table, the handles and the pins: what calls do to pages.
LEMMA HitDoes ==
  ASSUME NEW p, NEW o, Sound(p, o), NEW h \in Hands, Mode(p, h) = "none", NEW kinds,
         NEW pg \in DOMAIN p.table
  PROVE  Gets(p, Hit(p, h, kinds, p.table[pg]), o, h, kinds, pg)
<1> DEFINE i == p.table[pg]
           q == Hit(p, h, kinds, i)
<1>1. /\ p \in State /\ p.frames \in [Frames -> FrameRec] /\ p.table \in Tables
      /\ p.handles \in [Hands -> HandleRec] /\ DOMAIN p.table \subseteq DOMAIN p.store
      /\ Acc(p.frames, p.table, p.handles, o, p.leaks)
  BY DEF Sound, State
<1>2. /\ i \in Frames /\ p.frames[i].present /\ p.frames[i].pg = pg /\ p.frames[i] \in FrameRec
      /\ Found(p.frames, p.table, i) /\ p.frames[i].page.kind # "zero"
      /\ View(p, pg) = p.frames[i].page
  BY <1>1, TableType DEF Acc, TableOK, Found, Sound, ContentOK, View
<1>3. CASE p.frames[i].wsibling # None
  <2>1. PICK g \in Hands : p.handles[g].mode = "X" /\ p.handles[g].r = i
    BY <1>1, <1>2, <1>3 DEF Acc, FramesOK
  <2>2. Blocked(p, pg)
    BY <1>2, <2>1 DEF Blocked, Mode, PageNo, Readable
  <2>3. q = [p EXCEPT !.outcome = "would block"]
    BY <1>3 DEF Hit
  <2>4. "would block" \in Outcomes
    BY DEF Outcomes
  <2> HIDE DEF q
  <2>5. /\ Sound(q, o) /\ Kept(p, q) /\ SameHands(p, q) /\ q.handles = p.handles
        /\ q.outcome = "would block"
    BY <2>3, <2>4, OutcomeOnly
  <2>6. Others(p, q, h) /\ NotGiven(p, q, h, kinds, pg)
    BY <2>2, <2>5 DEF Others, SameHands, NotGiven, Refused, Mode
  <2> QED
    BY <2>5, <2>6 DEF q, Gets
<1>4. CASE p.frames[i].wsibling = None /\ p.frames[i].page.kind \notin kinds
  <2>1. q = [p EXCEPT !.outcome = "invalid page"]
    BY <1>4 DEF Hit
  <2>2. "invalid page" \in Outcomes
    BY DEF Outcomes
  <2> HIDE DEF q
  <2>3. /\ Sound(q, o) /\ Kept(p, q) /\ SameHands(p, q) /\ q.handles = p.handles
        /\ q.outcome = "invalid page"
    BY <2>1, <2>2, OutcomeOnly
  <2>4. Others(p, q, h) /\ NotGiven(p, q, h, kinds, pg)
    BY <1>1, <1>2, <1>4, <2>3 DEF Others, SameHands, NotGiven, Refused, Mode
  <2> QED
    BY <2>3, <2>4 DEF q, Gets
<1>5. CASE p.frames[i].wsibling = None /\ p.frames[i].page.kind \in kinds
  <2>1. q = [p EXCEPT !.frames[i].pin = @ + 1, !.handles[h] = SHandle(i)]
    BY <1>5 DEF Hit
  <2>2. /\ q.frames = [p.frames EXCEPT ![i] = [p.frames[i] EXCEPT !.pin = @ + 1]]
        /\ q.handles = [p.handles EXCEPT ![h] = SHandle(i)]
        /\ q.table = p.table /\ q.store = p.store /\ q.records = p.records /\ q.safe = p.safe
        /\ q.leaks = p.leaks /\ q.outcome = p.outcome
    BY <1>1, <1>2, <2>1 DEF State
  <2>3. FrameSet(p.frames, q.frames, i, [p.frames[i] EXCEPT !.pin = @ + 1])
    BY <1>1, <1>2, <2>2 DEF FrameSet, FrameRec
  <2>4. HandleSet(p.handles, q.handles, h, SHandle(i))
    BY <1>1, <1>2, <2>2, FrameFacts DEF HandleSet
  <2>5. q \in State
    BY <1>1, <2>1, <2>3, <2>4 DEF State, FrameSet, HandleSet
  <2> HIDE DEF q
  <2>6. Acc(q.frames, q.table, q.handles, o, q.leaks)
    BY <1>1, <1>2, <1>5, <2>2, <2>3, <2>4, Shared DEF Mode
  <2>7. \A j \in Frames : /\ q.frames[j].present = p.frames[j].present
                          /\ q.frames[j].dirty = p.frames[j].dirty
                          /\ q.frames[j].pg = p.frames[j].pg
                          /\ q.frames[j].page = p.frames[j].page
    BY <1>2, <2>2, <1>1 DEF FrameRec
  <2>8. \A j \in Frames : Found(q.frames, q.table, j) = Found(p.frames, p.table, j)
    BY <2>2, <2>7 DEF Found
  <2>9. ContentOK(q.frames, q.table, q.store)
    BY <2>2, <2>7, <2>8 DEF Sound, ContentOK
  <2>10. Sound(q, o)
    BY <2>2, <2>5, <2>6, <2>9 DEF Sound
  <2>11. Kept(p, q)
    BY <1>1, <2>2, <2>7, TableType DEF Kept, SameView, View
  <2>12. Others(p, q, h)
    <3>1. SUFFICES ASSUME NEW g \in Hands \ {h} PROVE SameHand(p, q, g)
      BY DEF Others
    <3>2. q.handles[g] = p.handles[g]
      BY <2>4 DEF HandleSet
    <3>3. \A j \in Frames \ {None} : q.frames[j].pg = p.frames[j].pg /\ q.frames[j].page = p.frames[j].page
      BY <2>7
    <3>4. /\ Mode(p, g) # "none" => p.handles[g].r \notin {None}
          /\ Mode(p, g) = "X" => p.handles[g].w \notin {None}
      BY HandFacts, FrameFacts
    <3> QED
      BY <3>2, <3>3, <3>4, Untouched
  <2>13. ~Blocked(p, pg)
    <3>1. SUFFICES ASSUME NEW g \in Hands, Mode(p, g) = "X", PageNo(p, g) = pg PROVE FALSE
      BY DEF Blocked
    <3>2. p.handles[g].w \in Frames /\ p.frames[i].wsibling = p.handles[g].w
      BY <3>1, HandFacts
    <3> QED
      BY <1>5, <3>2, FrameFacts
  <2>14. Mode(q, h) = "S" /\ PageNo(q, h) = pg
    BY <1>2, <2>4, <2>7, FrameFacts DEF Mode, PageNo, Readable, HandleSet
  <2>15. Given(p, q, h, kinds, pg)
    BY <1>1, <1>2, <1>5, <2>2, <2>13, <2>14 DEF Given
  <2> QED
    BY <2>10, <2>11, <2>12, <2>15 DEF q, Gets
<1> QED
  BY <1>3, <1>4, <1>5

LEMMA StoreFacts ==
  ASSUME NEW p \in State
  PROVE  /\ npages(p) \in Nat \ {0} /\ DOMAIN p.store = 0..(npages(p) - 1)
         /\ p.store \in [0..(npages(p) - 1) -> Page]
<1>1. PICK n \in Nat : p.store \in [0..n -> Page]
  BY StoreType DEF State
<1>2. Cardinality(0..n) = n + 1
  <2>1. n >= 0
    BY <1>1
  <2> QED
    BY <2>1, FS_Interval
<1> QED
  BY <1>1, <1>2 DEF npages

\* What a frame is filled with.
Filling == [pin : Nat \ {0}, access : BOOLEAN, pg : Nat, page : Page]

\* A free frame is filled: nobody sees it.
Filled(p, q, o, c, f) ==
  /\ Sound(q, o \cup {c}) /\ Kept(p, q) /\ SameHands(p, q)
  /\ q.frames[c].present /\ q.frames[c].pin = f.pin /\ q.frames[c].pg = f.pg
  /\ q.frames[c].page = f.page /\ ~q.frames[c].dirty
  /\ \A j \in Frames \ {c} : q.frames[j] = p.frames[j]
  /\ q.table = p.table /\ q.store = p.store /\ q.records = p.records
  /\ q.safe = p.safe /\ q.leaks = p.leaks /\ q.handles = p.handles
  /\ q.outcome = p.outcome /\ q.clock = p.clock

LEMMA FillDoes ==
  ASSUME NEW p, NEW o, Sound(p, o), NEW c \in Frames, ~p.frames[c].present,
         NEW f \in Filling, f.page.kind # "zero"
  PROVE  Filled(p, Fill(p, c, f), o, c, f)
<1> DEFINE q == Fill(p, c, f)
           g == [Empty EXCEPT !.present = TRUE, !.pin = f.pin,
                              !.access = f.access, !.pg = f.pg, !.page = f.page]
<1>1. /\ p \in State /\ p.frames \in [Frames -> FrameRec] /\ p.table \in Tables
      /\ p.handles \in [Hands -> HandleRec] /\ o \in SUBSET Frames
      /\ Acc(p.frames, p.table, p.handles, o, p.leaks)
  BY DEF Sound, State
<1>2. /\ g \in FrameRec /\ g.present /\ g.pin = f.pin /\ g.wsibling = None /\ g.pg = f.pg
      /\ g.page = f.page /\ ~g.dirty
  BY FrameFacts DEF Empty, FrameRec, Filling
<1> HIDE DEF g
<1>3. /\ q.frames = [p.frames EXCEPT ![c] = g]
      /\ q.table = p.table /\ q.store = p.store /\ q.records = p.records
      /\ q.safe = p.safe /\ q.leaks = p.leaks /\ q.handles = p.handles
      /\ q.outcome = p.outcome /\ q.clock = p.clock
  BY <1>1 DEF Fill, State, g
<1>4. FrameSet(p.frames, q.frames, c, g)
  BY <1>1, <1>2, <1>3 DEF FrameSet
<1>5. q \in State
  BY <1>1, <1>4 DEF Fill, State, FrameSet
<1> HIDE DEF q
<1>6. g.pin > 0
  BY <1>2 DEF Filling
<1>7. Acc(q.frames, q.table, q.handles, o \cup {c}, q.leaks)
  BY <1>1, <1>2, <1>3, <1>4, <1>6, Reserved
<1>8. \A pg \in DOMAIN p.table : p.table[pg] \in Frames \ {c}
  BY <1>1, TableType DEF Acc, TableOK
<1>9. /\ q.frames[c] = g /\ \A j \in Frames \ {c} : q.frames[j] = p.frames[j]
  BY <1>4 DEF FrameSet
<1>10. ~Found(q.frames, q.table, c) /\ \A j \in Frames \ {c} : Found(q.frames, q.table, j) = Found(p.frames, p.table, j)
  BY <1>3, <1>8, <1>9 DEF Found
<1>11. ContentOK(q.frames, q.table, q.store)
  BY <1>2, <1>3, <1>9, <1>10 DEF Sound, ContentOK
<1>12. Sound(q, o \cup {c})
  BY <1>1, <1>3, <1>5, <1>7, <1>11 DEF Sound
<1>13. Kept(p, q)
  BY <1>3, <1>8, <1>9 DEF Kept, SameView, View
<1>14. SameHands(p, q)
  <2>1. SUFFICES ASSUME NEW h \in Hands PROVE SameHand(p, q, h)
    BY DEF SameHands
  <2>2. Mode(p, h) # "none" => p.handles[h].r \notin {c}
    BY HandFacts DEF Found
  <2>3. Mode(p, h) = "X" => p.handles[h].w \notin {c}
    BY HandFacts
  <2>4. q.handles[h] = p.handles[h]
    BY <1>3
  <2>5. \A i \in Frames \ {c} : q.frames[i].pg = p.frames[i].pg /\ q.frames[i].page = p.frames[i].page
    BY <1>9
  <2> QED
    BY <2>2, <2>3, <2>4, <2>5, Untouched
<1>15. /\ q.frames[c].present /\ q.frames[c].pin = f.pin /\ q.frames[c].pg = f.pg
       /\ q.frames[c].page = f.page /\ ~q.frames[c].dirty
  BY <1>2, <1>9
<1> QED
  BY <1>3, <1>9, <1>12, <1>13, <1>14, <1>15 DEF q, Filled

LEMMA NextIsFrame ==
  ASSUME NEW c \in Frames
  PROVE  Next1(c) \in Frames
BY BufAssumption DEF Next1, Frames

LEMMA MissDoes ==
  ASSUME NEW p, NEW o, Sound(p, o), p.outcome = "ok", NEW h \in Hands, Mode(p, h) = "none",
         NEW kinds, "zero" \notin kinds, NEW pg \in Nat, pg \notin DOMAIN p.table,
         ~p.frames[p.clock].present
  PROVE  Gets(p, Miss(p, h, kinds, pg), o, h, kinds, pg)
<1> DEFINE c == p.clock
           f == [pin |-> 1, access |-> TRUE, pg |-> pg, page |-> p.store[pg]]
           t == Fill(p, c, f)
           q == Miss(p, h, kinds, pg)
<1>1. /\ p \in State /\ c \in Frames /\ p.table \in Tables /\ o \in SUBSET Frames
      /\ p.handles \in [Hands -> HandleRec] /\ p.frames \in [Frames -> FrameRec]
      /\ Acc(p.frames, p.table, p.handles, o, p.leaks)
  BY DEF Sound, State
<1>1c. c = p.clock /\ ~p.frames[c].present
  OBVIOUS
<1>2. /\ pg >= npages(p) <=> pg \notin DOMAIN p.store
      /\ pg \in DOMAIN p.store => p.store[pg] \in Page
      /\ View(p, pg) = p.store[pg]
  BY <1>1, StoreFacts DEF View
<1>3. ~Failed(p)
  BY DEF Failed
<1>4. CASE pg \notin DOMAIN p.store
  <2>1. q = [p EXCEPT !.outcome = "out of range"]
    BY <1>2, <1>3, <1>4 DEF Miss
  <2>2. "out of range" \in Outcomes
    BY DEF Outcomes
  <2> HIDE DEF q
  <2>3. /\ Sound(q, o) /\ Kept(p, q) /\ SameHands(p, q) /\ q.handles = p.handles
        /\ q.outcome = "out of range"
    BY <2>1, <2>2, OutcomeOnly
  <2>4. Others(p, q, h) /\ NotGiven(p, q, h, kinds, pg)
    BY <1>4, <2>3 DEF Others, SameHands, NotGiven, Refused, Mode
  <2> QED
    BY <2>3, <2>4 DEF q, Gets
<1>5. CASE pg \in DOMAIN p.store /\ p.store[pg].kind \notin kinds
  <2>1. q = [p EXCEPT !.outcome = "corrupt"]
    BY <1>2, <1>3, <1>5 DEF Miss
  <2>2. "corrupt" \in Outcomes
    BY DEF Outcomes
  <2> HIDE DEF q
  <2>3. /\ Sound(q, o) /\ Kept(p, q) /\ SameHands(p, q) /\ q.handles = p.handles
        /\ q.outcome = "corrupt"
    BY <2>1, <2>2, OutcomeOnly
  <2>4. Others(p, q, h) /\ NotGiven(p, q, h, kinds, pg)
    BY <1>2, <1>5, <2>3 DEF Others, SameHands, NotGiven, Refused, Mode
  <2> QED
    BY <2>3, <2>4 DEF q, Gets
<1>6. CASE pg \in DOMAIN p.store /\ p.store[pg].kind \in kinds
  <2>0. /\ f \in Filling /\ f.pin = 1 /\ f.pg = pg /\ f.page = p.store[pg] /\ f.page.kind # "zero"
    BY <1>2, <1>6 DEF Filling
  <2>1. q = [t EXCEPT !.table = Enter(@, pg, c), !.handles[h] = SHandle(c), !.clock = Next1(@)]
    BY <1>2, <1>3, <1>6 DEF Miss
  <2>1a. t = Fill(p, c, f)
    OBVIOUS
  <2> HIDE DEF f, q, c, t
  <2>2a. Filled(p, t, o, c, f)
    <3>1. c \in Frames /\ ~p.frames[c].present /\ f \in Filling /\ f.page.kind # "zero"
      BY <1>1, <1>1c, <2>0
    <3> QED
      BY <2>1a, <3>1, FillDoes
  <2>2. /\ Sound(t, o \cup {c}) /\ Kept(p, t) /\ SameHands(p, t)
        /\ t.frames[c].present /\ t.frames[c].pin = f.pin /\ t.frames[c].pg = f.pg
        /\ t.frames[c].page = f.page /\ ~t.frames[c].dirty
        /\ \A j \in Frames \ {c} : t.frames[j] = p.frames[j]
        /\ t.table = p.table /\ t.store = p.store /\ t.records = p.records
        /\ t.safe = p.safe /\ t.leaks = p.leaks /\ t.handles = p.handles
        /\ t.outcome = p.outcome /\ t.clock = p.clock
    BY <2>2a DEF Filled
  <2>3. /\ t \in State /\ t.frames \in [Frames -> FrameRec] /\ o \cup {c} \in SUBSET Frames
        /\ Acc(t.frames, t.table, t.handles, o \cup {c}, t.leaks)
    BY <2>2 DEF Sound, State
  <2>4. /\ q.frames = t.frames /\ q.store = t.store /\ q.records = t.records /\ q.safe = t.safe
        /\ q.leaks = t.leaks /\ q.outcome = t.outcome /\ q.clock = Next1(c)
        /\ q.table = Enter(t.table, pg, c)
        /\ q.handles = [t.handles EXCEPT ![h] = SHandle(c)]
    BY <1>1c, <2>1, <2>2, <2>3 DEF State
  <2>5. TableSet(t.table, q.table, pg, c)
    <3>1. q.table \in [DOMAIN t.table \cup {pg} -> Frames]
      BY <1>1, <2>2, <2>4, TableType DEF Enter
    <3>2. DOMAIN t.table \cup {pg} \in SUBSET Nat
      BY <1>1, <2>2, TableType
    <3>3. q.table \in Tables
      BY <3>1, <3>2 DEF Tables
    <3> QED
      BY <2>4, <3>3 DEF TableSet, Enter
  <2>6. HandleSet(t.handles, q.handles, h, SHandle(c))
    BY <1>1, <2>2, <2>4, FrameFacts DEF HandleSet
  <2>7. q \in State
    <3>1. q.table \in Tables /\ q.handles \in [Hands -> HandleRec] /\ q.clock \in Frames
      BY <1>1, <2>4, <2>5, <2>6, NextIsFrame DEF TableSet, HandleSet
    <3> QED
      BY <2>1, <2>3, <3>1 DEF State
  <2>8. o \ {c} = o /\ c \notin o
    BY <1>1, <1>1c DEF Acc, FramesOK
  <2>8a. (o \cup {c}) \ {c} = o /\ c \in o \cup {c}
    BY <2>8
  <2>9. Acc(t.frames, q.table, q.handles, (o \cup {c}) \ {c}, t.leaks)
    <3>1. t.frames[c].pin = 1 /\ t.frames[c].pg = pg /\ pg \notin DOMAIN t.table /\ t.handles[h].mode = "none"
      BY <2>0, <2>2 DEF Mode
    <3>2. TableSet(t.table, q.table, t.frames[c].pg, c)
      BY <2>5, <3>1
    <3>3. t.frames[c].pg \notin DOMAIN t.table /\ c \in o \cup {c}
          /\ t.table \in Tables /\ t.handles \in [Hands -> HandleRec]
      BY <1>1, <2>2, <3>1
    <3> QED
      BY <2>3, <2>6, <3>1, <3>2, <3>3, Published
  <2>10. Acc(q.frames, q.table, q.handles, o, q.leaks)
    BY <2>4, <2>8a, <2>9
  <2>11. /\ q.table[pg] = c /\ DOMAIN q.table = DOMAIN p.table \cup {pg}
         /\ \A i \in DOMAIN p.table : q.table[i] = p.table[i] /\ p.table[i] \in Frames
    BY <1>1, <2>2, <2>5, TableType DEF TableSet
  <2>12. \A j \in Frames \ {c} : Found(q.frames, q.table, j) => Found(t.frames, t.table, j)
    BY <2>2, <2>4, <2>11 DEF Found
  <2>13. ContentOK(q.frames, q.table, q.store)
    <3>1. ContentOK(t.frames, t.table, t.store)
      BY <2>2 DEF Sound
    <3>2. q.store[t.frames[c].pg] = t.frames[c].page
      BY <2>0, <2>2, <2>4
    <3>3. SUFFICES ASSUME NEW j \in Frames, q.frames[j].present
                   PROVE  /\ q.frames[j].page.kind # "zero"
                          /\ Found(q.frames, q.table, j) /\ ~q.frames[j].dirty =>
                               q.store[q.frames[j].pg] = q.frames[j].page
      BY DEF ContentOK
    <3>4. CASE j = c
      BY <2>4, <3>1, <3>2, <3>3, <3>4 DEF ContentOK
    <3>5. CASE j # c
      BY <2>4, <2>12, <3>1, <3>3, <3>5 DEF ContentOK
    <3> QED
      BY <3>4, <3>5
  <2>14. Sound(q, o)
    <3>1. DOMAIN q.table \subseteq DOMAIN q.store
      BY <1>6, <2>2, <2>4, <2>11 DEF Sound
    <3>2. q.safe <= Len(q.records) /\ o \subseteq Frames
      BY <1>1, <2>2, <2>4 DEF Sound
    <3> QED
      BY <2>7, <2>10, <2>13, <3>1, <3>2 DEF Sound
  <2>15. Kept(p, q)
    <3>1. SUFFICES ASSUME NEW i \in DOMAIN p.store PROVE View(q, i) = View(p, i)
      BY <2>2, <2>4 DEF Kept, SameView
    <3>2. CASE i = pg
      BY <2>0, <2>2, <2>4, <2>11, <3>2 DEF View
    <3>3. CASE i # pg
      <4>1. View(t, i) = View(p, i)
        BY <2>2 DEF Kept, SameView
      <4> QED
        BY <2>2, <2>4, <2>11, <3>3, <4>1 DEF View
    <3> QED
      BY <3>2, <3>3
  <2>16. Others(p, q, h)
    <3>1. SUFFICES ASSUME NEW g \in Hands \ {h} PROVE SameHand(p, q, g)
      BY DEF Others
    <3>2. q.handles[g] = t.handles[g]
      BY <2>6 DEF HandleSet
    <3>3. SameHand(p, t, g)
      BY <2>2 DEF SameHands
    <3> QED
      BY <2>4, <3>2, <3>3 DEF SameHand, Mode, PageNo, Readable, Copy
  <2>17. Mode(q, h) = "S" /\ PageNo(q, h) = pg
    BY <1>1, <2>0, <2>2, <2>4, <2>6, FrameFacts DEF Mode, PageNo, Readable, HandleSet
  <2>18. ~Blocked(p, pg)
    BY HandFacts DEF Blocked
  <2>19. Given(p, q, h, kinds, pg)
    BY <1>2, <1>6, <2>2, <2>4, <2>17, <2>18 DEF Given
  <2> QED
    BY <2>14, <2>15, <2>16, <2>19 DEF q, Gets
<1> QED
  BY <1>4, <1>5, <1>6

\* pgr_get gives the page, or says why not; nothing else is seen of it.
LEMMA GetDoes ==
  ASSUME NEW p, NEW o, Sound(p, o), p.outcome = "ok", NEW h \in Hands, Mode(p, h) = "none",
         NEW kinds, "zero" \notin kinds, NEW pg \in Nat
  PROVE  Gets(p, pgr_get(p, h, kinds, pg), o, h, kinds, pg)
<1>1. CASE pg \in DOMAIN p.table
  <2>1. pgr_get(p, h, kinds, pg) = Hit(p, h, kinds, p.table[pg])
    BY <1>1 DEF pgr_get
  <2> QED
    BY <1>1, <2>1, HitDoes
<1>2. CASE pg \notin DOMAIN p.table
  <2> DEFINE t == pgr_reserve(p)
             q == Miss(t, h, kinds, pg)
  <2>1. pgr_get(p, h, kinds, pg) = q
    BY <1>2 DEF pgr_get
  <2>2. Reserves(p, t, o)
    BY ReserveDoes
  <2> HIDE DEF t, q
  <2>3. /\ Sound(t, o) /\ Kept(p, t) /\ SameHands(p, t) /\ pg \notin DOMAIN t.table
        /\ t.outcome = "full" \/ (t.outcome = "ok" /\ ~t.frames[t.clock].present)
        /\ Mode(t, h) = "none"
    BY <1>2, <2>2 DEF Reserves, Mode
  <2>4. CASE t.outcome = "full"
    <3>1. q = t
      BY <2>4 DEF q, Miss, Failed
    <3>2. Others(p, q, h) /\ NotGiven(p, q, h, kinds, pg)
      BY <2>3, <2>4, <3>1 DEF Others, SameHands, NotGiven, Refused
    <3>3. Gets(p, q, o, h, kinds, pg)
      BY <2>3, <3>1, <3>2 DEF Gets
    <3> QED
      BY <2>1, <3>3
  <2>5. CASE t.outcome = "ok" /\ ~t.frames[t.clock].present
    <3>1. Gets(t, q, o, h, kinds, pg)
      BY <2>3, <2>5, MissDoes DEF q
    <3>2. Kept(p, q)
      BY <2>3, <3>1, KeptOn DEF Gets
    <3>3. Others(p, q, h)
      BY <2>3, <3>1, SameHandOn DEF Gets, Others, SameHands
    <3>4. Blocked(t, pg) = Blocked(p, pg)
      BY <2>3 DEF Blocked, SameHands, SameHand
    <3>5. DOMAIN t.store = DOMAIN p.store /\ (pg \in DOMAIN p.store => View(t, pg) = View(p, pg))
      BY <2>3 DEF Kept, SameView
    <3>6. Given(t, q, h, kinds, pg) => Given(p, q, h, kinds, pg)
      BY <2>5, <3>4, <3>5 DEF Given
    <3>7. NotGiven(t, q, h, kinds, pg) => NotGiven(p, q, h, kinds, pg)
      BY <3>4, <3>5 DEF NotGiven, Refused
    <3>8. Gets(p, q, o, h, kinds, pg)
      BY <3>1, <3>2, <3>3, <3>6, <3>7 DEF Gets
    <3> QED
      BY <2>1, <3>8
  <2> QED
    BY <2>3, <2>4, <2>5
<1> QED
  BY <1>1, <1>2

\* Nobody else has the page of h.
Alone(p, h) == \A g \in Hands \ {h} : Mode(p, g) # "none" => PageNo(p, g) # PageNo(p, h)

\* h may write a copy of its page, or not.
Writes(p, q, h) == /\ q.outcome = p.outcome /\ Mode(q, h) = "X" /\ PageNo(q, h) = PageNo(p, h)
                   /\ Copy(q, h) = View(p, PageNo(p, h))
MadeWritable(p, q, o, h) ==
  /\ Sound(q, o) /\ Kept(p, q) /\ Others(p, q, h)
  /\ Writes(p, q, h) \/ (q.outcome = "full" /\ SameHand(p, q, h))

LEMMA CopyDoes ==
  ASSUME NEW p, NEW o, Sound(p, o), p.outcome = "ok", NEW h \in Hands, Mode(p, h) = "S", Alone(p, h),
         ~p.frames[p.clock].present
  PROVE  MadeWritable(p, CopyOf(p, h, p.handles[h].r), o, h)
<1> DEFINE c == p.clock
           r == p.handles[h].r
           e == [pin |-> 2, access |-> FALSE, pg |-> p.frames[r].pg, page |-> p.frames[r].page]
           f == [Empty EXCEPT !.present = TRUE, !.pin = e.pin, !.access = e.access,
                              !.pg = e.pg, !.page = e.page]
           q == CopyOf(p, h, r)
<1>1. /\ p \in State /\ c \in Frames /\ p.table \in Tables /\ o \in SUBSET Frames
      /\ p.handles \in [Hands -> HandleRec] /\ p.frames \in [Frames -> FrameRec]
      /\ Acc(p.frames, p.table, p.handles, o, p.leaks)
  BY DEF Sound, State
<1>2. /\ r \in Frames /\ Found(p.frames, p.table, r) /\ p.frames[r] \in FrameRec
      /\ p.frames[r].present /\ p.frames[c] \in FrameRec
      /\ View(p, PageNo(p, h)) = p.frames[r].page /\ PageNo(p, h) = p.frames[r].pg
  BY <1>1, HandFacts DEF Found, PageOf, PageNo, Readable
<1>3. r # c
  BY <1>2
<1>4. /\ f \in FrameRec /\ f.present /\ f.pin > 0 /\ f.wsibling = None
      /\ f.pg = p.frames[r].pg /\ f.page = p.frames[r].page
  <2>1. e \in Filling /\ e.pg = p.frames[r].pg /\ e.page = p.frames[r].page
    BY <1>2 DEF FrameRec, Filling
  <2> HIDE DEF e, q, r
  <2>2. /\ f \in FrameRec /\ f.present /\ f.pin = e.pin /\ f.wsibling = None
        /\ f.pg = e.pg /\ f.page = e.page
    BY <2>1, FrameFacts DEF Empty, FrameRec, Filling
  <2> HIDE DEF f
  <2> QED
    BY <2>1, <2>2 DEF Filling
<1> HIDE DEF f
<1> DEFINE g == [p.frames[r] EXCEPT !.dirty = TRUE, !.wsibling = c]
<1>5. /\ q.frames = [[p.frames EXCEPT ![c] = f] EXCEPT ![r] = g]
      /\ q.handles = [p.handles EXCEPT ![h] = XHandle(r, c)]
      /\ q.table = p.table /\ q.store = p.store /\ q.records = p.records /\ q.safe = p.safe
      /\ q.leaks = p.leaks /\ q.outcome = p.outcome /\ q.clock = Next1(c)
  <2>1. p.outcome = "ok"
    OBVIOUS
  <2>2. q = [Fill(p, c, e) EXCEPT !.frames[r].dirty = TRUE, !.frames[r].wsibling = c,
                                  !.handles[h] = XHandle(r, c), !.clock = Next1(@)]
    BY <2>1 DEF CopyOf, Failed
  <2>3. Fill(p, c, e) = [p EXCEPT !.frames[c] = f]
    BY DEF Fill, f
  <2> HIDE DEF q, e
  <2> QED
    BY <1>1, <1>2, <1>3, <2>2, <2>3, ZenonT(40) DEF State
<1>6. /\ g \in FrameRec /\ g.page = p.frames[r].page /\ g.pg = p.frames[r].pg /\ g.present
      /\ g.dirty /\ g.wsibling = c
  BY <1>1, <1>2 DEF FrameRec
<1> HIDE DEF g
<1>7. TwoSet(p.frames, q.frames, c, f, r, g)
  BY <1>1, <1>2, <1>3, <1>4, <1>5, <1>6 DEF TwoSet
<1>8. HandleSet(p.handles, q.handles, h, XHandle(r, c))
  BY <1>1, <1>2, <1>5, FrameFacts DEF HandleSet
<1>9. q \in State
  <2>1. q.frames \in [Frames -> FrameRec] /\ q.handles \in [Hands -> HandleRec] /\ q.clock \in Frames
    BY <1>1, <1>5, <1>7, <1>8, NextIsFrame DEF TwoSet, HandleSet
  <2> QED
    BY <1>1, <2>1 DEF CopyOf, Failed, Fill, State
<1> HIDE DEF q
<1>10. Acc(q.frames, q.table, q.handles, o, q.leaks)
  <2>1. \A k \in Hands \ {h} : p.handles[k].mode # "none" => p.handles[k].r # r
    BY <1>2 DEF Alone, Mode, PageNo, Readable
  <2>2. p.handles[h].mode = "S" /\ ~p.frames[c].present
    BY DEF Mode
  <2>3. TwoSet(p.frames, q.frames, c, f, p.handles[h].r,
               [p.frames[p.handles[h].r] EXCEPT !.dirty = TRUE, !.wsibling = c])
    BY <1>7 DEF g
  <2>4. HandleSet(p.handles, q.handles, h, XHandle(p.handles[h].r, c))
    BY <1>8
  <2>5. f.pg = p.frames[p.handles[h].r].pg
    BY <1>4
  <2> QED
    BY <1>1, <1>4, <1>5, <2>1, <2>2, <2>3, <2>4, <2>5, Copied
<1>11. /\ q.frames[c] = f /\ q.frames[r] = g /\ q.handles[h] = XHandle(r, c)
       /\ \A j \in Frames \ {c, r} : q.frames[j] = p.frames[j]
       /\ \A k \in Hands \ {h} : q.handles[k] = p.handles[k]
  BY <1>7, <1>8 DEF TwoSet, HandleSet
<1>12. \A i \in DOMAIN p.table : p.table[i] \in Frames \ {c}
  BY <1>1, TableType DEF Acc, TableOK
<1>13. ~Found(q.frames, q.table, c)
  BY <1>5, <1>12 DEF Found
<1>14. ContentOK(q.frames, q.table, q.store)
  <2>1. SUFFICES ASSUME NEW j \in Frames, q.frames[j].present
                 PROVE  /\ q.frames[j].page.kind # "zero"
                        /\ Found(q.frames, q.table, j) /\ ~q.frames[j].dirty =>
                             q.store[q.frames[j].pg] = q.frames[j].page
    BY DEF ContentOK
  <2>2. ContentOK(p.frames, p.table, p.store)
    BY DEF Sound
  <2>3. CASE j = c
    BY <1>2, <1>4, <1>11, <1>13, <2>2, <2>3 DEF ContentOK
  <2>4. CASE j = r
    BY <1>2, <1>6, <1>11, <2>2, <2>4 DEF ContentOK
  <2>5. CASE j # c /\ j # r
    <3>1. q.frames[j] = p.frames[j]
      BY <1>11, <2>5
    <3>2. Found(q.frames, q.table, j) = Found(p.frames, p.table, j)
      BY <1>5, <3>1 DEF Found
    <3> QED
      BY <1>5, <2>1, <2>2, <3>1, <3>2 DEF ContentOK
  <2> QED
    BY <2>3, <2>4, <2>5
<1>15. Sound(q, o)
  BY <1>1, <1>5, <1>9, <1>10, <1>14 DEF Sound
<1>16. Kept(p, q)
  <2>1. \A j \in Frames \ {c} : q.frames[j].page = p.frames[j].page
    BY <1>6, <1>11
  <2> QED
    BY <1>5, <1>12, <2>1 DEF Kept, SameView, View
<1>17. Others(p, q, h)
  <2>1. SUFFICES ASSUME NEW k \in Hands \ {h} PROVE SameHand(p, q, k)
    BY DEF Others
  <2>2. \A i \in Frames \ {c} : q.frames[i].pg = p.frames[i].pg /\ q.frames[i].page = p.frames[i].page
    BY <1>6, <1>11
  <2>3. Mode(p, k) # "none" => p.handles[k].r \notin {c}
    BY HandFacts DEF Found
  <2>4. Mode(p, k) = "X" => p.handles[k].w \notin {c}
    BY HandFacts
  <2> QED
    BY <1>11, <2>2, <2>3, <2>4, Untouched
<1>18. Writes(p, q, h)
  BY <1>1, <1>2, <1>4, <1>5, <1>6, <1>11, FrameFacts DEF Writes, Mode, PageNo, Readable, Copy
<1>19. MadeWritable(p, q, o, h)
  BY <1>15, <1>16, <1>17, <1>18 DEF MadeWritable
<1> QED
  BY <1>19 DEF q

LEMMA MakeWritableDoes ==
  ASSUME NEW p, NEW o, Sound(p, o), p.outcome = "ok", NEW h \in Hands, Mode(p, h) = "S", Alone(p, h)
  PROVE  MadeWritable(p, pgr_make_writable(p, h), o, h)
<1> DEFINE t == pgr_reserve(p)
           q == pgr_make_writable(p, h)
<1>1. Reserves(p, t, o)
  BY ReserveDoes
<1>2. q = CopyOf(t, h, p.handles[h].r)
  BY DEF pgr_make_writable
<1> HIDE DEF t, q
<1>3. /\ Sound(t, o) /\ Kept(p, t) /\ SameHands(p, t) /\ t.handles = p.handles
      /\ t.outcome = "full" \/ (t.outcome = "ok" /\ ~t.frames[t.clock].present)
      /\ Mode(t, h) = "S"
  BY <1>1 DEF Reserves, Mode
<1>4. CASE t.outcome = "full"
  <2>1. q = t
    BY <1>2, <1>4 DEF CopyOf, Failed
  <2>2. MadeWritable(p, q, o, h)
    BY <1>3, <1>4, <2>1 DEF MadeWritable, Others, SameHands
  <2> QED
    BY <2>2 DEF q
<1>5. CASE t.outcome = "ok" /\ ~t.frames[t.clock].present
  <2>1. Alone(t, h) /\ PageNo(t, h) = PageNo(p, h)
    BY <1>3 DEF Alone, SameHands, SameHand
  <2>2. q = CopyOf(t, h, t.handles[h].r)
    BY <1>2, <1>3
  <2>3. MadeWritable(t, q, o, h)
    BY <1>3, <1>5, <2>1, <2>2, CopyDoes
  <2>4. Kept(p, q)
    BY <1>3, <2>3, KeptOn DEF MadeWritable
  <2>5. Others(p, q, h)
    BY <1>3, <2>3, SameHandOn DEF MadeWritable, Others, SameHands
  <2>6. PageNo(p, h) \in DOMAIN p.store
    BY HandFacts
  <2>7. View(t, PageNo(p, h)) = View(p, PageNo(p, h))
    BY <1>3, <2>6 DEF Kept, SameView
  <2>8. Writes(t, q, h) => Writes(p, q, h)
    BY <1>5, <2>1, <2>7 DEF Writes
  <2>9. SameHand(t, q, h) => SameHand(p, q, h)
    BY <1>3, SameHandOn DEF SameHands
  <2>10. MadeWritable(p, q, o, h)
    BY <2>3, <2>4, <2>5, <2>8, <2>9 DEF MadeWritable
  <2> QED
    BY <2>10 DEF q
<1> QED
  BY <1>3, <1>4, <1>5

\* Only the page in frame i is another one.
PageIsPut(F, G, i, page) ==
  /\ G \in [Frames -> FrameRec]
  /\ \A j \in Frames : /\ G[j].present = F[j].present /\ G[j].dirty = F[j].dirty
                       /\ G[j].pin = F[j].pin /\ G[j].wsibling = F[j].wsibling
                       /\ G[j].pg = F[j].pg
                       /\ j # i => G[j].page = F[j].page
  /\ G[i].page = page

LEMMA PutPage ==
  ASSUME NEW F \in [Frames -> FrameRec], NEW i \in Frames, NEW page \in Page
  PROVE  PageIsPut(F, [F EXCEPT ![i].page = page], i, page)
<1> DEFINE f == F[i]
           g == [f EXCEPT !.page = page]
           G == [F EXCEPT ![i] = g]
<1>1. f \in FrameRec
  OBVIOUS
<1>2. /\ g \in FrameRec /\ g.present = f.present /\ g.dirty = f.dirty /\ g.pin = f.pin
      /\ g.wsibling = f.wsibling /\ g.pg = f.pg /\ g.page = page
  <2> HIDE DEF f
  <2> QED
    BY <1>1 DEF FrameRec
<1>3. G = [F EXCEPT ![i].page = page]
  OBVIOUS
<1> HIDE DEF g
<1>4. G \in [Frames -> FrameRec] /\ G[i] = g /\ \A j \in Frames \ {i} : G[j] = F[j]
  BY <1>2
<1> HIDE DEF G
<1>5. PageIsPut(F, G, i, page)
  <2>1. \A j \in Frames : j = i \/ j \in Frames \ {i}
    OBVIOUS
  <2> QED
    BY <1>2, <1>4, <2>1 DEF PageIsPut
<1> QED
  BY <1>3, <1>5

\* h writes its copy.
CopySet(p, q, o, h, page) ==
  /\ Sound(q, o) /\ Kept(p, q) /\ Others(p, q, h) /\ q.outcome = p.outcome
  /\ Mode(q, h) = "X" /\ PageNo(q, h) = PageNo(p, h) /\ Copy(q, h) = page

LEMMA SetCopyDoes ==
  ASSUME NEW p, NEW o, Sound(p, o), NEW h \in Hands, Mode(p, h) = "X",
         NEW page \in Page, page.kind # "zero"
  PROVE  CopySet(p, SetCopy(p, h, page), o, h, page)
<1> DEFINE q == SetCopy(p, h, page)
           r == p.handles[h].r
           w == p.handles[h].w
<1>1. /\ p \in State /\ p.table \in Tables /\ p.handles \in [Hands -> HandleRec]
      /\ p.frames \in [Frames -> FrameRec] /\ Acc(p.frames, p.table, p.handles, o, p.leaks)
  BY DEF Sound, State
<1>2. /\ r \in Frames /\ w \in Frames /\ r # w /\ ~Found(p.frames, p.table, w)
      /\ p.frames[w] \in FrameRec
  BY HandFacts
<1>3. q.frames = [p.frames EXCEPT ![w].page = page]
      /\ q.table = p.table /\ q.store = p.store /\ q.records = p.records /\ q.safe = p.safe
      /\ q.handles = p.handles /\ q.leaks = p.leaks /\ q.outcome = p.outcome
  BY <1>1 DEF SetCopy, State
<1>p. PageIsPut(p.frames, q.frames, w, page)
  BY <1>1, <1>2, <1>3, PutPage
<1>4. q.frames \in [Frames -> FrameRec] /\ q \in State
  <2>1. q.frames \in [Frames -> FrameRec]
    BY <1>p DEF PageIsPut
  <2> QED
    BY <1>1, <2>1 DEF SetCopy, State
<1>5. /\ \A i \in Frames : /\ q.frames[i].present = p.frames[i].present
                           /\ q.frames[i].dirty = p.frames[i].dirty
                           /\ q.frames[i].pin = p.frames[i].pin
                           /\ q.frames[i].wsibling = p.frames[i].wsibling
                           /\ q.frames[i].pg = p.frames[i].pg
                           /\ i # w => q.frames[i].page = p.frames[i].page
      /\ q.frames[w].page = page
  BY <1>p DEF PageIsPut
<1> HIDE DEF q
<1>6. Acc(q.frames, q.table, q.handles, o, q.leaks)
  BY <1>1, <1>3, <1>4, <1>5, SameFrames
<1>7. \A i \in Frames : Found(q.frames, q.table, i) = Found(p.frames, p.table, i)
  BY <1>3, <1>5 DEF Found
<1>8. ContentOK(q.frames, q.table, q.store)
  BY <1>2, <1>3, <1>5, <1>7, ZenonT(40) DEF Sound, ContentOK
<1>9. Sound(q, o)
  BY <1>3, <1>4, <1>6, <1>8 DEF Sound
<1>10. \A i \in DOMAIN p.table : p.table[i] \in Frames \ {w}
  BY <1>1, <1>2, TableType DEF Acc, TableOK, Found
<1>11. Kept(p, q)
  <2>1. SUFFICES ASSUME NEW i \in DOMAIN p.store PROVE View(q, i) = View(p, i)
    BY <1>3 DEF Kept, SameView
  <2>2. CASE i \in DOMAIN p.table
    <3>1. q.frames[p.table[i]].page = p.frames[p.table[i]].page
      BY <1>5, <1>10, <2>2
    <3> QED
      BY <1>3, <2>2, <3>1 DEF View
  <2>3. CASE i \notin DOMAIN p.table
    BY <1>3, <2>3 DEF View
  <2> QED
    BY <2>2, <2>3
<1>12. Others(p, q, h)
  <2>1. SUFFICES ASSUME NEW k \in Hands \ {h} PROVE SameHand(p, q, k)
    BY DEF Others
  <2>2. \A i \in Frames \ {w} : q.frames[i].pg = p.frames[i].pg /\ q.frames[i].page = p.frames[i].page
    BY <1>5
  <2>3. Mode(p, k) # "none" => p.handles[k].r \notin {w}
    BY <1>2, HandFacts
  <2>4. Mode(p, k) = "X" => p.handles[k].w \notin {w}
    BY <1>1 DEF Acc, ApartOK, Mode
  <2>5. q.handles[k] = p.handles[k]
    BY <1>3
  <2> QED
    BY <2>2, <2>3, <2>4, <2>5, Untouched
<1>13. CopySet(p, q, o, h, page)
  BY <1>2, <1>3, <1>5, <1>9, <1>11, <1>12 DEF CopySet, Mode, PageNo, Readable, Copy
<1> QED
  BY <1>13 DEF q

\* h gives its copy back and reads on.
Dropped(p, q, o, h) ==
  /\ Sound(q, o) /\ Kept(p, q) /\ Others(p, q, h) /\ q.outcome = p.outcome
  /\ Mode(q, h) = "S" /\ PageNo(q, h) = PageNo(p, h) /\ q.handles[h].r = p.handles[h].r

LEMMA ReaderAgain ==
  ASSUME NEW x \in HandleRec
  PROVE  [x EXCEPT !.mode = "S", !.w = None] = SHandle(x.r)
<1> DEFINE y == [x EXCEPT !.mode = "S", !.w = None]
<1>1. y \in HandleRec /\ y.mode = "S" /\ y.r = x.r /\ y.w = None
  BY DEF HandleRec
<1> HIDE DEF y
<1>2. y = [mode |-> y.mode, r |-> y.r, w |-> y.w]
  BY <1>1 DEF HandleRec
<1>3. y = SHandle(x.r)
  BY <1>1, <1>2 DEF SHandle
<1> QED
  BY <1>3 DEF y

LEMMA DropDoes ==
  ASSUME NEW p, NEW o, Sound(p, o), NEW h \in Hands, Mode(p, h) = "X"
  PROVE  Dropped(p, DropCopy(p, h), o, h)
<1> DEFINE q == DropCopy(p, h)
           r == p.handles[h].r
           w == p.handles[h].w
           g == [p.frames[r] EXCEPT !.wsibling = None]
<1>1. /\ p \in State /\ p.table \in Tables /\ p.handles \in [Hands -> HandleRec]
      /\ p.frames \in [Frames -> FrameRec] /\ Acc(p.frames, p.table, p.handles, o, p.leaks)
  BY DEF Sound, State
<1>2. /\ r \in Frames /\ w \in Frames /\ r # w /\ ~Found(p.frames, p.table, w)
      /\ Found(p.frames, p.table, r) /\ p.frames[r] \in FrameRec /\ p.frames[r].dirty
      /\ p.handles[h] \in HandleRec /\ p.frames[w] \in FrameRec
  BY HandFacts
<1>3. /\ q.frames = [[p.frames EXCEPT ![w] = Empty] EXCEPT ![r] = g]
      /\ q.handles = [p.handles EXCEPT ![h] = SHandle(r)]
      /\ q.table = p.table /\ q.store = p.store /\ q.records = p.records /\ q.safe = p.safe
      /\ q.leaks = p.leaks /\ q.outcome = p.outcome /\ q.clock = p.clock
  <2>1. [p.handles[h] EXCEPT !.mode = "S", !.w = None] = SHandle(r)
    BY <1>2, ReaderAgain
  <2>2. q.handles = [p.handles EXCEPT ![h] = [p.handles[h] EXCEPT !.mode = "S", !.w = None]]
    BY <1>1 DEF DropCopy, State
  <2> QED
    BY <1>1, <1>2, <2>1, <2>2 DEF DropCopy, State
<1>4. /\ g \in FrameRec /\ g.page = p.frames[r].page /\ g.pg = p.frames[r].pg
      /\ g.present = p.frames[r].present /\ g.dirty
  BY <1>2, FrameFacts DEF FrameRec
<1> HIDE DEF g
<1>5. TwoSet(p.frames, q.frames, w, Empty, r, g)
  <2>1. Empty \in FrameRec
    BY FrameFacts
  <2> HIDE DEF q, r, w
  <2> QED
    BY <1>1, <1>2, <1>3, <1>4, <2>1 DEF TwoSet
<1>6. HandleSet(p.handles, q.handles, h, SHandle(r))
  BY <1>1, <1>2, <1>3, FrameFacts DEF HandleSet
<1>7. q \in State
  <2>1. q.frames \in [Frames -> FrameRec] /\ q.handles \in [Hands -> HandleRec]
    BY <1>5, <1>6 DEF TwoSet, HandleSet
  <2> QED
    BY <1>1, <2>1 DEF DropCopy, State
<1> HIDE DEF q
<1>8. Acc(q.frames, q.table, q.handles, o, q.leaks)
  <2>1. TwoSet(p.frames, q.frames, p.handles[h].w, Empty, p.handles[h].r,
               [p.frames[p.handles[h].r] EXCEPT !.wsibling = None])
    BY <1>5 DEF g
  <2>2. HandleSet(p.handles, q.handles, h, SHandle(p.handles[h].r)) /\ p.handles[h].mode = "X"
    BY <1>6 DEF Mode
  <2> QED
    BY <1>1, <1>3, <2>1, <2>2, CopyGivenBack
<1>9. /\ q.frames[w] = Empty /\ q.frames[r] = g /\ q.handles[h] = SHandle(r) /\ ~Empty.present
      /\ \A j \in Frames \ {w, r} : q.frames[j] = p.frames[j]
      /\ \A k \in Hands \ {h} : q.handles[k] = p.handles[k]
  BY <1>5, <1>6, FrameFacts DEF TwoSet, HandleSet
<1>10. \A i \in DOMAIN p.table : p.table[i] \in Frames \ {w}
  BY <1>1, <1>2, TableType DEF Acc, TableOK, Found
<1>11. ContentOK(q.frames, q.table, q.store)
  <2>1. SUFFICES ASSUME NEW j \in Frames, q.frames[j].present
                 PROVE  /\ q.frames[j].page.kind # "zero"
                        /\ Found(q.frames, q.table, j) /\ ~q.frames[j].dirty =>
                             q.store[q.frames[j].pg] = q.frames[j].page
    BY DEF ContentOK
  <2>2. ContentOK(p.frames, p.table, p.store)
    BY DEF Sound
  <2>3. CASE j = r
    BY <1>2, <1>4, <1>9, <2>1, <2>2, <2>3 DEF ContentOK
  <2>4. CASE j # r
    <3>1. q.frames[j] = p.frames[j]
      BY <1>9, <2>1, <2>4
    <3>2. Found(q.frames, q.table, j) = Found(p.frames, p.table, j)
      BY <1>3, <3>1 DEF Found
    <3> QED
      BY <1>3, <2>1, <2>2, <3>1, <3>2 DEF ContentOK
  <2> QED
    BY <2>3, <2>4
<1>12. Sound(q, o)
  BY <1>3, <1>7, <1>8, <1>11 DEF Sound
<1>13. Kept(p, q)
  <2>1. \A j \in Frames \ {w} : q.frames[j].page = p.frames[j].page
    BY <1>4, <1>9
  <2> QED
    BY <1>3, <1>10, <2>1 DEF Kept, SameView, View
<1>14. Others(p, q, h)
  <2>1. SUFFICES ASSUME NEW k \in Hands \ {h} PROVE SameHand(p, q, k)
    BY DEF Others
  <2>2. \A i \in Frames \ {w} : q.frames[i].pg = p.frames[i].pg /\ q.frames[i].page = p.frames[i].page
    BY <1>4, <1>9
  <2>3. Mode(p, k) # "none" => p.handles[k].r \notin {w}
    BY <1>2, HandFacts
  <2>4. Mode(p, k) = "X" => p.handles[k].w \notin {w}
    BY <1>1 DEF Acc, ApartOK, Mode
  <2>5. q.handles[k] = p.handles[k]
    BY <1>9
  <2> QED
    BY <2>2, <2>3, <2>4, <2>5, Untouched
<1>15. Mode(q, h) = "S" /\ PageNo(q, h) = PageNo(p, h) /\ q.handles[h].r = r
  BY <1>2, <1>4, <1>9, FrameFacts DEF Mode, PageNo, Readable
<1>16. Dropped(p, q, o, h)
  BY <1>3, <1>12, <1>13, <1>14, <1>15 DEF Dropped
<1> QED
  BY <1>16 DEF q

\* A page is logged and served anew.
Logged(p, q, pg, page) ==
  /\ q.records = Append(p.records, [pg |-> pg, undo |-> View(p, pg), redo |-> page])
  /\ DOMAIN q.store = DOMAIN p.store
  /\ View(q, pg) = page
  /\ \A i \in DOMAIN p.store \ {pg} : View(q, i) = View(p, i)

Saved(p, q, o, h) ==
  /\ Sound(q, o) /\ Others(p, q, h) /\ q.outcome = p.outcome
  /\ Logged(p, q, PageNo(p, h), Copy(p, h))
  /\ Mode(q, h) = "S" /\ PageNo(q, h) = PageNo(p, h) /\ q.handles[h].r = p.handles[h].r

LEMMA SaveDoes ==
  ASSUME NEW p, NEW o, Sound(p, o), NEW h \in Hands, Mode(p, h) = "X"
  PROVE  Saved(p, pgr_save(p, h), o, h)
<1> DEFINE r == p.handles[h].r
           w == p.handles[h].w
           pg == PageNo(p, h)
           rec == [pg |-> Readable(p, h).pg, undo |-> PageOf(p, h), redo |-> Copy(p, h)]
           t == [p EXCEPT !.records = Append(@, rec), !.frames[r].page = Copy(p, h)]
           q == pgr_save(p, h)
<1>1. /\ p \in State /\ p.table \in Tables /\ p.handles \in [Hands -> HandleRec]
      /\ p.frames \in [Frames -> FrameRec] /\ Acc(p.frames, p.table, p.handles, o, p.leaks)
      /\ p.records \in Seq(LogRec) /\ p.safe \in Nat /\ p.safe <= Len(p.records)
  BY DEF Sound, State
<1>2. /\ r \in Frames /\ w \in Frames /\ r # w /\ ~Found(p.frames, p.table, w)
      /\ Found(p.frames, p.table, r) /\ p.frames[r] \in FrameRec /\ p.frames[r].dirty
      /\ p.frames[w] \in FrameRec /\ p.frames[w].present /\ p.frames[r].present
      /\ pg \in DOMAIN p.table /\ p.table[pg] = r
  BY HandFacts DEF Found
<1>3. /\ Copy(p, h) = p.frames[w].page /\ Copy(p, h) \in Page /\ Copy(p, h).kind # "zero"
      /\ PageOf(p, h) = p.frames[r].page /\ View(p, pg) = PageOf(p, h) /\ PageOf(p, h) \in Page
      /\ Readable(p, h).pg = pg /\ pg \in Nat
  BY <1>2, HandFacts DEF Copy, PageOf, Readable, PageNo, FrameRec, Sound, ContentOK
<1>4. rec \in LogRec /\ rec = [pg |-> pg, undo |-> View(p, pg), redo |-> Copy(p, h)]
  BY <1>3 DEF LogRec
<1> HIDE DEF rec
<1>5. /\ Append(p.records, rec) \in Seq(LogRec)
      /\ Len(Append(p.records, rec)) = Len(p.records) + 1 /\ Len(p.records) \in Nat
  BY <1>1, <1>4
<1>6. q = DropCopy(t, h)
  BY DEF pgr_save, rec
<1>7. /\ t.frames = [p.frames EXCEPT ![r].page = Copy(p, h)] /\ t.records = Append(p.records, rec)
      /\ t.table = p.table /\ t.store = p.store /\ t.safe = p.safe /\ t.handles = p.handles
      /\ t.leaks = p.leaks /\ t.outcome = p.outcome
  BY <1>1 DEF State
<1>p. PageIsPut(p.frames, t.frames, r, Copy(p, h))
  BY <1>1, <1>2, <1>3, <1>7, PutPage
<1>8. t.frames \in [Frames -> FrameRec] /\ t \in State
  <2>1. t.frames \in [Frames -> FrameRec]
    BY <1>p DEF PageIsPut
  <2> QED
    BY <1>1, <1>5, <2>1 DEF State
<1> HIDE DEF t, q
<1>9. /\ \A i \in Frames : /\ t.frames[i].present = p.frames[i].present
                           /\ t.frames[i].dirty = p.frames[i].dirty
                           /\ t.frames[i].pin = p.frames[i].pin
                           /\ t.frames[i].wsibling = p.frames[i].wsibling
                           /\ t.frames[i].pg = p.frames[i].pg
                           /\ i # r => t.frames[i].page = p.frames[i].page
      /\ t.frames[r].page = Copy(p, h)
  BY <1>p DEF PageIsPut
<1>10. Acc(t.frames, t.table, t.handles, o, t.leaks)
  BY <1>1, <1>7, <1>8, <1>9, SameFrames
<1>11. \A i \in Frames : Found(t.frames, t.table, i) = Found(p.frames, p.table, i)
  BY <1>7, <1>9 DEF Found
<1>12. ContentOK(t.frames, t.table, t.store)
  <2>1. SUFFICES ASSUME NEW j \in Frames, t.frames[j].present
                 PROVE  /\ t.frames[j].page.kind # "zero"
                        /\ Found(t.frames, t.table, j) /\ ~t.frames[j].dirty =>
                             t.store[t.frames[j].pg] = t.frames[j].page
    BY DEF ContentOK
  <2>2. ContentOK(p.frames, p.table, p.store)
    BY DEF Sound
  <2> HIDE DEF r, w, pg
  <2>3. CASE j = r
    BY <1>2, <1>3, <1>9, <2>3
  <2>4. CASE j # r
    BY <1>7, <1>9, <1>11, <2>1, <2>2, <2>4 DEF ContentOK
  <2> QED
    BY <2>3, <2>4
<1>13. Sound(t, o)
  <2>1. t.safe <= Len(t.records) /\ DOMAIN t.table \subseteq DOMAIN t.store /\ o \subseteq Frames
    BY <1>1, <1>5, <1>7 DEF Sound
  <2> QED
    BY <1>8, <1>10, <1>12, <2>1 DEF Sound
<1>14. Others(p, t, h)
  <2>1. SUFFICES ASSUME NEW k \in Hands \ {h} PROVE SameHand(p, t, k)
    BY DEF Others
  <2>2. \A i \in Frames \ {r} : t.frames[i].pg = p.frames[i].pg /\ t.frames[i].page = p.frames[i].page
    BY <1>9
  <2>3. Mode(p, k) # "none" => p.handles[k].r \notin {r}
    BY <1>1 DEF Acc, ApartOK, Mode
  <2>4. Mode(p, k) = "X" => p.handles[k].w \notin {r}
    BY <1>2, HandFacts
  <2>5. t.handles[k] = p.handles[k]
    BY <1>7
  <2> QED
    BY <2>2, <2>3, <2>4, <2>5, Untouched
<1>15. Mode(t, h) = "X" /\ PageNo(t, h) = pg
  <2>1. Mode(t, h) = "X"
    BY <1>7 DEF Mode
  <2>2. t.frames[r].pg = p.frames[r].pg
    BY <1>2, <1>9
  <2>3. PageNo(t, h) = t.frames[r].pg
    BY <1>7 DEF PageNo, Readable
  <2> QED
    BY <2>1, <2>2, <2>3 DEF PageNo, Readable
<1>16. Dropped(t, q, o, h)
  BY <1>6, <1>13, <1>15, DropDoes
<1>17. Others(p, q, h)
  BY <1>14, <1>16, SameHandOn DEF Dropped, Others
<1>18. Logged(p, t, pg, Copy(p, h))
  <2>1. View(t, pg) = Copy(p, h)
    <3>1. t.table = p.table /\ p.table[pg] = r /\ pg \in DOMAIN p.table /\ t.frames[r].page = Copy(p, h)
      BY <1>2, <1>7, <1>9
    <3> QED
      BY <3>1 DEF View
  <2>2. ASSUME NEW i \in DOMAIN p.table, i # pg PROVE p.table[i] \in Frames \ {r}
    <3>1. TableOK(p.frames, p.table) /\ p.table[i] \in Frames
      BY <1>1, TableType DEF Acc
    <3>2. p.frames[p.table[i]].pg = i /\ p.frames[p.table[pg]].pg = pg
      BY <1>2, <2>2, <3>1 DEF TableOK
    <3> QED
      BY <1>2, <2>2, <3>1, <3>2
  <2>3. ASSUME NEW i \in DOMAIN p.store \ {pg} PROVE View(t, i) = View(p, i)
    <3>1. CASE i \in DOMAIN p.table
      <4>1. t.frames[p.table[i]].page = p.frames[p.table[i]].page
        BY <1>9, <2>2, <2>3, <3>1
      <4> QED
        BY <1>7, <3>1, <4>1 DEF View
    <3>2. CASE i \notin DOMAIN p.table
      BY <1>7, <3>2 DEF View
    <3> QED
      BY <3>1, <3>2
  <2> QED
    BY <1>4, <1>7, <2>1, <2>3 DEF Logged
<1>19. pg \in DOMAIN p.store
  BY HandFacts
<1>20. Logged(p, q, pg, Copy(p, h))
  BY <1>7, <1>16, <1>18, <1>19 DEF Logged, Dropped, Kept, SameView
<1>21. Saved(p, q, o, h)
  BY <1>7, <1>15, <1>16, <1>17, <1>20 DEF Saved, Dropped
<1> QED
  BY <1>21 DEF q

\* A reader is gone.
Left(p, q, o, h) ==
  /\ Sound(q, o) /\ Kept(p, q) /\ Others(p, q, h) /\ q.outcome = p.outcome /\ Mode(q, h) = "none"

LEMMA LeaveDoes ==
  ASSUME NEW p, NEW o, Sound(p, o), NEW h \in Hands, Mode(p, h) = "S", NEW q,
         \/ q = [p EXCEPT !.frames[p.handles[h].r].pin = @ - 1, !.handles[h] = NoHandle]
         \/ q = [p EXCEPT !.leaks = @ + 1, !.handles[h] = NoHandle] /\ PageNo(p, h) = 0
  PROVE  Left(p, q, o, h)
<1> DEFINE r == p.handles[h].r
           g == [p.frames[r] EXCEPT !.pin = @ - 1]
<1>1. /\ p \in State /\ p.table \in Tables /\ p.handles \in [Hands -> HandleRec]
      /\ p.frames \in [Frames -> FrameRec] /\ Acc(p.frames, p.table, p.handles, o, p.leaks)
      /\ p.leaks \in Nat
  BY DEF Sound, State
<1>2. /\ r \in Frames /\ p.frames[r] \in FrameRec /\ p.frames[r].pin \in Nat \ {0}
  BY <1>1, HandFacts, HasPin DEF Mode
<1>3. /\ g \in FrameRec /\ g.present = p.frames[r].present /\ g.dirty = p.frames[r].dirty
      /\ g.pg = p.frames[r].pg /\ g.page = p.frames[r].page /\ g.wsibling = p.frames[r].wsibling
  BY <1>2 DEF FrameRec
<1> HIDE DEF g
<1>4. /\ \/ q.frames = [p.frames EXCEPT ![r] = g] /\ q.leaks = p.leaks
         \/ q.frames = p.frames /\ q.leaks = p.leaks + 1 /\ PageNo(p, h) = 0
      /\ q.handles = [p.handles EXCEPT ![h] = NoHandle]
      /\ q.table = p.table /\ q.store = p.store /\ q.records = p.records /\ q.safe = p.safe
      /\ q.outcome = p.outcome
  BY <1>1, <1>2 DEF State, g
<1>5. HandleSet(p.handles, q.handles, h, NoHandle)
  BY <1>1, <1>4, FrameFacts DEF HandleSet
<1>6. /\ q.frames \in [Frames -> FrameRec] /\ q.leaks \in Nat
      /\ q.handles \in [Hands -> HandleRec]
  BY <1>1, <1>2, <1>3, <1>4, <1>5 DEF HandleSet
<1>7. q \in State
  BY <1>1, <1>6 DEF State
<1>8. \/ FrameSet(p.frames, q.frames, r, g) /\ q.leaks = p.leaks
      \/ q.frames = p.frames /\ p.frames[r].pg = 0 /\ q.leaks = p.leaks + 1
  <2>1. CASE q.frames = [p.frames EXCEPT ![r] = g] /\ q.leaks = p.leaks
    BY <1>1, <1>2, <1>3, <1>6, <2>1 DEF FrameSet
  <2>2. CASE q.frames = p.frames /\ q.leaks = p.leaks + 1 /\ PageNo(p, h) = 0
    BY <2>2 DEF PageNo, Readable
  <2> QED
    BY <1>4, <2>1, <2>2
<1>9. Acc(q.frames, q.table, q.handles, o, q.leaks)
  <2>1. \/ /\ FrameSet(p.frames, q.frames, p.handles[h].r, [p.frames[p.handles[h].r] EXCEPT !.pin = @ - 1])
           /\ q.leaks = p.leaks
        \/ q.frames = p.frames /\ p.frames[p.handles[h].r].pg = 0 /\ q.leaks = p.leaks + 1
    BY <1>8 DEF g
  <2> QED
    BY <1>1, <1>4, <1>5, <1>6, <2>1, ReaderLeaves DEF Mode
<1>10. \A j \in Frames : /\ q.frames[j].present = p.frames[j].present
                         /\ q.frames[j].dirty = p.frames[j].dirty
                         /\ q.frames[j].pg = p.frames[j].pg
                         /\ q.frames[j].page = p.frames[j].page
  <2>1. CASE q.frames = p.frames
    BY <2>1
  <2>2. CASE FrameSet(p.frames, q.frames, r, g)
    BY <1>3, <2>2 DEF FrameSet
  <2> QED
    BY <1>8, <2>1, <2>2
<1>11. \A j \in Frames : Found(q.frames, q.table, j) = Found(p.frames, p.table, j)
  BY <1>4, <1>10 DEF Found
<1>12. ContentOK(q.frames, q.table, q.store)
  BY <1>4, <1>10, <1>11 DEF Sound, ContentOK
<1>13. Sound(q, o)
  BY <1>4, <1>7, <1>9, <1>12 DEF Sound
<1>14. Kept(p, q)
  BY <1>1, <1>4, <1>10, TableType DEF Kept, SameView, View
<1>15. Others(p, q, h)
  <2>1. SUFFICES ASSUME NEW k \in Hands \ {h} PROVE SameHand(p, q, k)
    BY DEF Others
  <2>2. \A i \in Frames \ {None} : q.frames[i].pg = p.frames[i].pg /\ q.frames[i].page = p.frames[i].page
    BY <1>10
  <2>3. /\ Mode(p, k) # "none" => p.handles[k].r \notin {None}
        /\ Mode(p, k) = "X" => p.handles[k].w \notin {None}
    BY HandFacts, FrameFacts
  <2>4. q.handles[k] = p.handles[k]
    BY <1>5 DEF HandleSet
  <2> QED
    BY <2>2, <2>3, <2>4, Untouched
<1>16. Mode(q, h) = "none"
  BY <1>5, FrameFacts DEF Mode, HandleSet
<1> QED
  BY <1>4, <1>13, <1>14, <1>15, <1>16 DEF Left

\* A page is given back, and saved if it was written.
Released(p, q, o, h) ==
  /\ Sound(q, o) /\ Others(p, q, h) /\ q.outcome = p.outcome /\ Mode(q, h) = "none"
  /\ Mode(p, h) = "S" => Kept(p, q)
  /\ Mode(p, h) = "X" => Logged(p, q, PageNo(p, h), Copy(p, h))

LEMMA ReleaseDoes ==
  ASSUME NEW p, NEW o, Sound(p, o), NEW h \in Hands, Mode(p, h) # "none"
  PROVE  Released(p, pgr_release(p, h), o, h)
<1> DEFINE q == pgr_release(p, h)
<1>1. CASE Mode(p, h) = "S"
  <2>1. q = [p EXCEPT !.frames[p.handles[h].r].pin = @ - 1, !.handles[h] = NoHandle]
    BY <1>1 DEF pgr_release, Mode
  <2> HIDE DEF q
  <2>2. Left(p, q, o, h)
    BY <1>1, <2>1, LeaveDoes
  <2>3. Released(p, q, o, h)
    BY <1>1, <2>2 DEF Left, Released
  <2> QED
    BY <2>3 DEF q
<1>2. CASE Mode(p, h) = "X"
  <2> DEFINE t == pgr_save(p, h)
  <2>1. Saved(p, t, o, h)
    BY <1>2, SaveDoes
  <2>2. q = [t EXCEPT !.frames[p.handles[h].r].pin = @ - 1, !.handles[h] = NoHandle]
    BY <1>2 DEF pgr_release, Mode
  <2> HIDE DEF q, t
  <2>3. q = [t EXCEPT !.frames[t.handles[h].r].pin = @ - 1, !.handles[h] = NoHandle]
    BY <2>1, <2>2 DEF Saved
  <2>4. Sound(t, o) /\ Mode(t, h) = "S" /\ Others(p, t, h) /\ t.outcome = p.outcome
        /\ Logged(p, t, PageNo(p, h), Copy(p, h))
    BY <2>1 DEF Saved
  <2>5. Left(t, q, o, h)
    BY <2>3, <2>4, LeaveDoes
  <2>6. Others(p, q, h)
    BY <2>4, <2>5, SameHandOn DEF Left, Others
  <2>7. PageNo(p, h) \in DOMAIN p.store
    BY <1>2, HandFacts
  <2>8. Logged(p, q, PageNo(p, h), Copy(p, h))
    BY <2>4, <2>5, <2>7 DEF Logged, Left, Kept, SameView
  <2>9. Released(p, q, o, h)
    BY <1>2, <2>4, <2>5, <2>6, <2>8 DEF Left, Released
  <2> QED
    BY <2>9 DEF q
<1> QED
  BY <1>1, <1>2, HandFacts

\* Whatever h had is given back, and nothing is saved.
Gone(p, q, o, h) ==
  /\ Sound(q, o) /\ Kept(p, q) /\ Others(p, q, h) /\ q.outcome = p.outcome /\ Mode(q, h) = "none"

LEMMA GiveBackDoes ==
  ASSUME NEW p, NEW o, Sound(p, o), NEW h \in Hands, Mode(p, h) # "none"
  PROVE  /\ Mode(p, h) = "S" => Gone(p, pgr_release(p, h), o, h)
         /\ Mode(p, h) = "X" => Gone(p, pgr_release(pgr_cancel_w(p, h), h), o, h)
<1>1. ASSUME NEW t, Sound(t, o), Mode(t, h) = "S"
      PROVE  Gone(t, pgr_release(t, h), o, h)
  <2>1. Released(t, pgr_release(t, h), o, h)
    BY <1>1, ReleaseDoes
  <2> QED
    BY <1>1, <2>1 DEF Released, Gone
<1>2. ASSUME Mode(p, h) = "X"
      PROVE  Gone(p, pgr_release(pgr_cancel_w(p, h), h), o, h)
  <2> DEFINE t == pgr_cancel_w(p, h)
             q == pgr_release(t, h)
  <2>1. Dropped(p, t, o, h)
    BY <1>2, DropDoes DEF pgr_cancel_w
  <2>2. Gone(t, q, o, h)
    BY <1>1, <2>1 DEF Dropped
  <2> HIDE DEF t, q
  <2>3. Kept(p, q)
    BY <2>1, <2>2, KeptOn DEF Dropped, Gone
  <2>4. Others(p, q, h)
    BY <2>1, <2>2, SameHandOn DEF Dropped, Gone, Others
  <2>5. Gone(p, q, o, h)
    BY <2>1, <2>2, <2>3, <2>4 DEF Dropped, Gone
  <2> QED
    BY <2>5 DEF q, t
<1> QED
  BY <1>1, <1>2

\* A reserved frame is given back: nobody saw it.
Forgotten(p, q, o) ==
  Sound(q, o) /\ Kept(p, q) /\ SameHands(p, q) /\ q.handles = p.handles /\ q.outcome = p.outcome

LEMMA ForgetDoes ==
  ASSUME NEW p, NEW o, Sound(p, o), NEW c \in o
  PROVE  Forgotten(p, Drop(p, c), o \ {c})
<1> DEFINE q == Drop(p, c)
<1>1. /\ p \in State /\ p.table \in Tables /\ p.handles \in [Hands -> HandleRec] /\ c \in Frames
      /\ p.frames \in [Frames -> FrameRec] /\ Acc(p.frames, p.table, p.handles, o, p.leaks)
      /\ o \ {c} \subseteq Frames
  BY DEF Sound, State
<1>2. /\ q.frames = [p.frames EXCEPT ![c] = Empty]
      /\ q.table = p.table /\ q.store = p.store /\ q.records = p.records /\ q.safe = p.safe
      /\ q.handles = p.handles /\ q.leaks = p.leaks /\ q.outcome = p.outcome
  BY <1>1 DEF Drop, State
<1>3. FrameSet(p.frames, q.frames, c, Empty)
  BY <1>1, <1>2, FrameFacts DEF FrameSet
<1>4. q \in State
  BY <1>1, <1>3 DEF Drop, State, FrameSet
<1> HIDE DEF q
<1>5. Acc(q.frames, q.table, q.handles, o \ {c}, q.leaks)
  BY <1>1, <1>2, <1>3, ReservedGivenBack
<1>6. ~Found(p.frames, p.table, c) /\ ~CopyIn(p.handles, c) /\ p.frames[c].present
  BY <1>1 DEF Acc, FramesOK
<1>7. /\ q.frames[c] = Empty /\ ~Empty.present
      /\ \A j \in Frames \ {c} : q.frames[j] = p.frames[j]
  BY <1>3, FrameFacts DEF FrameSet
<1>8. \A i \in DOMAIN p.table : p.table[i] \in Frames \ {c}
  BY <1>1, <1>6, TableType DEF Acc, TableOK, Found
<1>9. ContentOK(q.frames, q.table, q.store)
  <2>1. SUFFICES ASSUME NEW j \in Frames, q.frames[j].present
                 PROVE  /\ q.frames[j].page.kind # "zero"
                        /\ Found(q.frames, q.table, j) /\ ~q.frames[j].dirty =>
                             q.store[q.frames[j].pg] = q.frames[j].page
    BY DEF ContentOK
  <2>2. q.frames[j] = p.frames[j]
    BY <1>7, <2>1
  <2>3. Found(q.frames, q.table, j) = Found(p.frames, p.table, j)
    BY <1>2, <2>2 DEF Found
  <2> QED
    BY <1>2, <2>1, <2>2, <2>3 DEF Sound, ContentOK
<1>10. Sound(q, o \ {c})
  BY <1>1, <1>2, <1>4, <1>5, <1>9 DEF Sound
<1>11. Kept(p, q)
  BY <1>2, <1>7, <1>8 DEF Kept, SameView, View
<1>12. SameHands(p, q)
  <2>1. SUFFICES ASSUME NEW k \in Hands PROVE SameHand(p, q, k)
    BY DEF SameHands
  <2>2. \A i \in Frames \ {c} : q.frames[i].pg = p.frames[i].pg /\ q.frames[i].page = p.frames[i].page
    BY <1>7
  <2>3. Mode(p, k) # "none" => p.handles[k].r \notin {c}
    BY <1>6, HandFacts
  <2>4. Mode(p, k) = "X" => p.handles[k].w \notin {c}
    BY <1>6 DEF CopyIn, Mode
  <2>5. q.handles[k] = p.handles[k]
    BY <1>2
  <2> QED
    BY <2>2, <2>3, <2>4, <2>5, Untouched
<1>13. Forgotten(p, q, o \ {c})
  BY <1>2, <1>10, <1>11, <1>12 DEF Forgotten
<1> QED
  BY <1>13 DEF q

\* The file has one page more, which h writes.
Grown(p, q, h) ==
  /\ q.records = p.records /\ Mode(q, h) = "X" /\ PageNo(q, h) = npages(p)
  /\ DOMAIN q.store = DOMAIN p.store \cup {npages(p)}
  /\ View(q, npages(p)) = Tombstone(npages(p) + 1)
  /\ \A i \in DOMAIN p.store : View(q, i) = View(p, i)

\* The frame c is reserved for the page behind the end, and the clock is on a
\* free frame for its copy.
LEMMA GrowDoes ==
  ASSUME NEW p, NEW o, Sound(p, o), p.outcome = "ok", NEW h \in Hands, Mode(p, h) = "none",
         NEW c \in o, p.frames[c].pin = 1, p.frames[c].pg = npages(p),
         p.frames[c].page = Tombstone(npages(p) + 1), ~p.frames[p.clock].present
  PROVE  LET q == ExtendFile(p, h, c, TRUE)
         IN  Sound(q, o \ {c}) /\ Others(p, q, h) /\ q.outcome = "ok" /\ Grown(p, q, h)
<1> DEFINE np == npages(p)
           w == p.clock
           e == [pin |-> 1, access |-> FALSE, pg |-> np, page |-> p.frames[c].page]
           f == [Empty EXCEPT !.present = TRUE, !.pin = e.pin, !.access = e.access,
                              !.pg = e.pg, !.page = e.page]
           g == [p.frames[c] EXCEPT !.dirty = TRUE, !.wsibling = w]
           S == [i \in DOMAIN p.store \cup {np} |-> IF i = np THEN Zero ELSE p.store[i]]
           K == [p.handles EXCEPT ![h] = SHandle(c)]
           q == ExtendFile(p, h, c, TRUE)
<1>1. /\ p \in State /\ w \in Frames /\ p.table \in Tables /\ o \in SUBSET Frames /\ c \in Frames
      /\ p.handles \in [Hands -> HandleRec] /\ p.frames \in [Frames -> FrameRec]
      /\ Acc(p.frames, p.table, p.handles, o, p.leaks) /\ DOMAIN p.table \subseteq DOMAIN p.store
      /\ o \ {c} \subseteq Frames
  BY DEF Sound, State
<1>2. /\ np \in Nat \ {0} /\ DOMAIN p.store = 0..(np - 1) /\ p.store \in [0..(np - 1) -> Page]
      /\ np \notin DOMAIN p.store /\ DOMAIN p.store \cup {np} = 0..np
  <2>1. /\ np \in Nat \ {0} /\ DOMAIN p.store = 0..(np - 1) /\ p.store \in [0..(np - 1) -> Page]
    BY <1>1, StoreFacts
  <2> HIDE DEF np
  <2> QED
    BY <2>1
<1>3. /\ p.frames[c] \in FrameRec /\ p.frames[c].present /\ p.frames[c].wsibling = None
      /\ ~Found(p.frames, p.table, c) /\ ~CopyIn(p.handles, c) /\ c # w
      /\ p.frames[c].pg = np /\ p.frames[c].pin = 1 /\ p.frames[c].page = Tombstone(np + 1)
      /\ p.outcome = "ok" /\ ~p.frames[w].present /\ np \notin DOMAIN p.table
      /\ p.handles[h].mode = "none"
  BY <1>1, <1>2 DEF Acc, FramesOK, Mode
<1> HIDE DEF np, w
<1>4. e \in Filling /\ e.pg = np /\ e.page = p.frames[c].page
  BY <1>2, <1>3 DEF FrameRec, Filling
<1>5. q = [Fill(p, w, e) EXCEPT !.store = S, !.frames[c].dirty = TRUE, !.frames[c].wsibling = w,
                                !.table = Enter(@, np, c), !.handles[h] = XHandle(c, w)]
  <2>1. Fill(p, w, e).store = p.store
    BY <1>1 DEF Fill, State
  <2> QED
    BY <1>3, <2>1 DEF ExtendFile, Failed, np, w
<1> HIDE DEF e, q, S
<1>6. /\ f \in FrameRec /\ f.present /\ f.pin > 0 /\ f.wsibling = None
      /\ f.pg = np /\ f.page = p.frames[c].page
  <2>1. /\ f \in FrameRec /\ f.present /\ f.pin = e.pin /\ f.wsibling = None
        /\ f.pg = e.pg /\ f.page = e.page
    BY <1>4, FrameFacts DEF Empty, FrameRec, Filling
  <2> HIDE DEF f
  <2> QED
    BY <1>4, <2>1 DEF Filling
<1>7. Fill(p, w, e) = [p EXCEPT !.frames[w] = f]
  BY DEF Fill
<1> HIDE DEF f
<1>8. /\ q.frames = [[p.frames EXCEPT ![w] = f] EXCEPT ![c] = g]
      /\ q.handles = [p.handles EXCEPT ![h] = XHandle(c, w)]
      /\ q.table = Enter(p.table, np, c) /\ q.store = S /\ q.records = p.records
      /\ q.safe = p.safe /\ q.leaks = p.leaks /\ q.outcome = p.outcome /\ q.clock = p.clock
  BY <1>1, <1>3, <1>5, <1>7 DEF State
<1>9. /\ g \in FrameRec /\ g.page = p.frames[c].page /\ g.pg = np /\ g.present
      /\ g.dirty /\ g.wsibling = w
  BY <1>1, <1>3 DEF FrameRec
<1> HIDE DEF g
<1>10. TwoSet(p.frames, q.frames, w, f, c, g)
  BY <1>1, <1>3, <1>6, <1>8, <1>9 DEF TwoSet
<1>11. HandleSet(p.handles, K, h, SHandle(c)) /\ K[h].r = c /\ K[h].mode = "S"
  BY <1>1, FrameFacts DEF HandleSet
<1>12. HandleSet(K, q.handles, h, XHandle(c, w))
  BY <1>1, <1>8, FrameFacts DEF HandleSet
<1>13. TableSet(p.table, q.table, np, c)
  <2>1. q.table \in [DOMAIN p.table \cup {np} -> Frames]
    BY <1>1, <1>8, TableType DEF Enter
  <2>2. DOMAIN p.table \cup {np} \in SUBSET Nat
    BY <1>1, <1>2, TableType
  <2>3. q.table \in Tables
    BY <2>1, <2>2 DEF Tables
  <2> QED
    BY <1>8, <2>3 DEF TableSet, Enter
<1>14. K \in [Hands -> HandleRec] /\ q.table \in Tables
  BY <1>11, <1>13 DEF HandleSet, TableSet
<1> HIDE DEF K
<1>15. Acc(p.frames, q.table, K, o \ {c}, p.leaks)
  <2>1. TableSet(p.table, q.table, p.frames[c].pg, c) /\ p.frames[c].pg \notin DOMAIN p.table
    BY <1>3, <1>13
  <2> QED
    BY <1>1, <1>3, <1>11, <2>1, Published
<1>16. Acc(q.frames, q.table, q.handles, o \ {c}, q.leaks)
  <2>1. TwoSet(p.frames, q.frames, w, f, K[h].r, [p.frames[K[h].r] EXCEPT !.dirty = TRUE, !.wsibling = w])
    BY <1>10, <1>11 DEF g
  <2>2. HandleSet(K, q.handles, h, XHandle(K[h].r, w))
    BY <1>11, <1>12
  <2>3. \A k \in Hands \ {h} : K[k].mode # "none" => K[k].r # K[h].r
    <3>1. \A k \in Hands : p.handles[k].mode # "none" => p.handles[k].r # c
      BY <1>3, HandFacts DEF Mode
    <3> QED
      BY <1>11, <3>1 DEF HandleSet
  <2>4. f.pg = p.frames[K[h].r].pg
    BY <1>3, <1>6, <1>11
  <2> QED
    BY <1>1, <1>3, <1>6, <1>8, <1>11, <1>14, <1>15, <2>1, <2>2, <2>3, <2>4, Copied
<1>17. S \in [0..np -> Page] /\ S \in Stores /\ \A i \in DOMAIN p.store : S[i] = p.store[i]
  <2>1. Zero \in Page
    BY DEF Zero, Content, Page, Kinds
  <2>2. S \in [0..np -> Page] /\ \A i \in DOMAIN p.store : S[i] = p.store[i]
    BY <1>2, <2>1 DEF S
  <2> QED
    BY <1>2, <2>2 DEF Stores
<1>18. q \in State
  <2>1. q.frames \in [Frames -> FrameRec] /\ q.handles \in [Hands -> HandleRec]
    BY <1>10, <1>12 DEF TwoSet, HandleSet
  <2> QED
    BY <1>1, <1>5, <1>7, <1>8, <1>14, <1>17, <2>1 DEF State
<1>19. /\ q.frames[w] = f /\ q.frames[c] = g /\ q.handles[h] = XHandle(c, w)
       /\ \A j \in Frames \ {w, c} : q.frames[j] = p.frames[j]
       /\ \A k \in Hands \ {h} : q.handles[k] = p.handles[k]
       /\ DOMAIN q.table = DOMAIN p.table \cup {np} /\ q.table[np] = c
       /\ \A i \in DOMAIN p.table : q.table[i] = p.table[i]
  BY <1>3, <1>10, <1>11, <1>12, <1>13 DEF TwoSet, HandleSet, TableSet
<1>20. \A i \in DOMAIN p.table : p.table[i] \in Frames \ {w, c}
  BY <1>1, <1>3, TableType DEF Acc, TableOK, Found
<1>21. \A j \in Frames \ {w, c} : Found(q.frames, q.table, j) => Found(p.frames, p.table, j)
  BY <1>3, <1>19 DEF Found
<1>22. ~Found(q.frames, q.table, w)
  BY <1>3, <1>19, <1>20 DEF Found
<1>23. ContentOK(q.frames, q.table, q.store)
  <2>1. SUFFICES ASSUME NEW j \in Frames, q.frames[j].present
                 PROVE  /\ q.frames[j].page.kind # "zero"
                        /\ Found(q.frames, q.table, j) /\ ~q.frames[j].dirty =>
                             q.store[q.frames[j].pg] = q.frames[j].page
    BY DEF ContentOK
  <2>2. ContentOK(p.frames, p.table, p.store)
    BY DEF Sound
  <2>3. CASE j = w
    BY <1>1, <1>3, <1>6, <1>19, <1>22, <2>2, <2>3 DEF ContentOK
  <2>4. CASE j = c
    BY <1>3, <1>9, <1>19, <2>2, <2>4 DEF ContentOK
  <2>5. CASE j # c /\ j # w
    <3>1. q.frames[j] = p.frames[j]
      BY <1>19, <2>5
    <3>2. Found(q.frames, q.table, j) => Found(p.frames, p.table, j) /\ p.frames[j].pg \in DOMAIN p.store
      BY <1>1, <1>21, <2>5 DEF Found
    <3> QED
      BY <1>8, <1>17, <2>1, <2>2, <3>1, <3>2 DEF ContentOK
  <2> QED
    BY <2>3, <2>4, <2>5
<1>24. DOMAIN q.store = DOMAIN p.store \cup {np}
  BY <1>8 DEF S
<1>25. Sound(q, o \ {c})
  BY <1>1, <1>8, <1>16, <1>18, <1>19, <1>23, <1>24 DEF Sound
<1>26. /\ View(q, np) = Tombstone(np + 1)
       /\ \A i \in DOMAIN p.store : View(q, i) = View(p, i)
  <2>1. View(q, np) = Tombstone(np + 1)
    BY <1>3, <1>9, <1>19 DEF View
  <2>2. ASSUME NEW i \in DOMAIN p.store PROVE View(q, i) = View(p, i)
    BY <1>2, <1>8, <1>17, <1>19, <1>20, <2>2, ZenonT(40) DEF View
  <2> QED
    BY <2>1, <2>2
<1>27. Others(p, q, h)
  <2>1. SUFFICES ASSUME NEW k \in Hands \ {h} PROVE SameHand(p, q, k)
    BY DEF Others
  <2>2. \A i \in Frames \ {w, c} : q.frames[i].pg = p.frames[i].pg /\ q.frames[i].page = p.frames[i].page
    BY <1>19
  <2>3. Mode(p, k) # "none" => p.handles[k].r \notin {w, c}
    BY <1>3, HandFacts DEF Found
  <2>4. Mode(p, k) = "X" => p.handles[k].w \notin {w, c}
    BY <1>3, HandFacts DEF CopyIn, Mode
  <2>5. q.handles[k] = p.handles[k]
    BY <1>19
  <2> QED
    BY <2>2, <2>3, <2>4, <2>5, Untouched
<1>28. Mode(q, h) = "X" /\ PageNo(q, h) = np
  BY <1>1, <1>9, <1>19, FrameFacts DEF Mode, PageNo, Readable
<1>29. Grown(p, q, h)
  BY <1>8, <1>24, <1>26, <1>28 DEF Grown, np
<1>30. q.outcome = "ok"
  BY <1>3, <1>8
<1> QED
  BY <1>25, <1>27, <1>29, <1>30 DEF q

\* The file grows, or it does not for want of frames or because it cannot.
Extended(p, q, h, extends) ==
  /\ Sound(q, {}) /\ Others(p, q, h)
  /\ \/ extends /\ q.outcome = "ok" /\ Grown(p, q, h)
     \/ q.outcome \in {"full", "io"} /\ Mode(q, h) = "none" /\ Kept(p, q)

LEMMA ExtendDoes ==
  ASSUME NEW p, Sound(p, {}), p.outcome = "ok", NEW h \in Hands, Mode(p, h) = "none",
         NEW extends \in BOOLEAN
  PROVE  Extended(p, pgr_new_extend(p, h, extends), h, extends)
<1> DEFINE np == npages(p)
           a == pgr_reserve(p)
           c == a.clock
           e == [pin |-> 1, access |-> TRUE, pg |-> npages(a), page |-> Tombstone(npages(a) + 1)]
           b == Fill(a, c, e)
           d == pgr_reserve(b)
           q == pgr_new_extend(p, h, extends)
<1>1. Reserves(p, a, {})
  BY ReserveDoes
<1>2. q = IF Failed(a) THEN a ELSE ExtendFile(d, h, c, extends)
  BY DEF pgr_new_extend, ExtendIn
<1>3. /\ Sound(a, {}) /\ Kept(p, a) /\ SameHands(p, a) /\ a.handles = p.handles
      /\ a.outcome = "full" \/ (a.outcome = "ok" /\ ~a.frames[c].present)
      /\ npages(a) = np
  BY <1>1 DEF Reserves, Kept, SameView, npages
<1>4. np \in Nat \ {0} /\ c \in Frames /\ a.outcome \in Outcomes
  BY <1>3, StoreFacts DEF Sound, State
<1>5. e \in Filling /\ e.pin = 1 /\ e.pg = np /\ e.page = Tombstone(np + 1) /\ e.page.kind # "zero"
  <2>1. np + 1 \in Nat
    BY <1>4
  <2>2. Tombstone(np + 1) \in Page /\ Tombstone(np + 1).kind # "zero"
    BY <2>1 DEF Tombstone, Content, Page, Kinds
  <2> HIDE DEF np
  <2> QED
    BY <1>3, <1>4, <2>2 DEF Filling
<1>5b. b = Fill(a, c, e)
  OBVIOUS
<1> HIDE DEF a, c, e, b, d, q, np
<1>6. CASE a.outcome = "full"
  <2>1. q = a
    BY <1>2, <1>6 DEF Failed
  <2>2. Extended(p, q, h, extends)
    BY <1>3, <1>6, <2>1 DEF Extended, Others, SameHands, SameHand
  <2> QED
    BY <2>2 DEF q
<1>7. CASE a.outcome = "ok" /\ ~a.frames[c].present
  <2>1. Filled(a, b, {}, c, e)
    BY <1>3, <1>4, <1>5, <1>5b, <1>7, FillDoes
  <2>2. {} \cup {c} = {c} /\ {c} \ {c} = {} /\ c \in {c}
    OBVIOUS
  <2>3. /\ Sound(b, {c}) /\ Kept(a, b) /\ SameHands(a, b)
        /\ b.frames[c].pin = 1 /\ b.frames[c].pg = np /\ b.frames[c].page = Tombstone(np + 1)
        /\ b.outcome = "ok" /\ b.handles = p.handles
    BY <1>3, <1>5, <1>7, <2>1, <2>2 DEF Filled
  <2>4. Reserves(b, d, {c})
    BY <2>3, ReserveDoes DEF d
  <2>5. /\ Sound(d, {c}) /\ Kept(b, d) /\ SameHands(b, d)
        /\ d.frames[c].pin = 1 /\ d.frames[c].pg = np /\ d.frames[c].page = Tombstone(np + 1)
        /\ d.outcome = "full" \/ (d.outcome = "ok" /\ ~d.frames[d.clock].present)
        /\ d.handles = p.handles
    BY <1>4, <2>3, <2>4 DEF Reserves
  <2>6. Kept(p, d) /\ SameHands(p, d)
    <3>1. Kept(p, b) /\ SameHands(p, b)
      BY <1>3, <2>3, KeptOn, SameHandOn DEF SameHands
    <3> QED
      BY <2>5, <3>1, KeptOn, SameHandOn DEF SameHands
  <2>7. npages(d) = np /\ Mode(d, h) = "none"
    BY <2>5, <2>6 DEF Kept, SameView, npages, np, Mode
  <2>8. q = ExtendFile(d, h, c, extends)
    BY <1>2, <1>7 DEF Failed
  <2>9. ASSUME NEW t, Forgotten(d, t, {}), q.outcome \in {"full", "io"},
               q = t \/ q = [t EXCEPT !.outcome = "io"]
        PROVE  Extended(p, q, h, extends)
    <3>1. "io" \in Outcomes
      BY DEF Outcomes
    <3>2. Sound(q, {}) /\ Kept(t, q) /\ SameHands(t, q)
      <4>1. CASE q = t
        BY <2>9, <4>1 DEF Forgotten, Kept, SameView, SameHands, SameHand
      <4>2. CASE q = [t EXCEPT !.outcome = "io"]
        BY <2>9, <3>1, <4>2, OutcomeOnly DEF Forgotten
      <4> QED
        BY <2>9, <4>1, <4>2
    <3>3. Kept(p, q)
      BY <2>6, <2>9, <3>2, KeptOn DEF Forgotten
    <3>4. SameHands(p, t)
      BY <2>6, <2>9, SameHandOn DEF Forgotten, SameHands
    <3>5. SameHands(p, q)
      BY <3>2, <3>4, SameHandOn DEF SameHands
    <3> QED
      BY <2>9, <3>2, <3>3, <3>5 DEF Extended, Others, SameHands, SameHand
  <2>10. Forgotten(d, Drop(d, c), {})
    BY <2>2, <2>5, ForgetDoes
  <2>11. CASE d.outcome = "full"
    <3>1. q = Drop(d, c)
      BY <2>8, <2>11 DEF ExtendFile, Failed
    <3>2. q.outcome = "full"
      BY <2>10, <2>11, <3>1 DEF Forgotten
    <3>3. Extended(p, q, h, extends)
      BY <2>9, <2>10, <3>1, <3>2
    <3> QED
      BY <3>3 DEF q
  <2>12. CASE d.outcome = "ok" /\ ~extends
    <3>1. q = [Drop(d, c) EXCEPT !.outcome = "io"]
      BY <2>8, <2>12 DEF ExtendFile, Failed
    <3>2. q.outcome = "io"
      <4>1. Drop(d, c) \in State
        BY <2>10 DEF Forgotten, Sound
      <4> QED
        BY <3>1, <4>1 DEF State
    <3>3. Extended(p, q, h, extends)
      BY <2>9, <2>10, <3>1, <3>2
    <3> QED
      BY <3>3 DEF q
  <2>13. CASE d.outcome = "ok" /\ extends /\ ~d.frames[d.clock].present
    <3>1. q = ExtendFile(d, h, c, TRUE)
      BY <2>8, <2>13 DEF ExtendFile
    <3>2. /\ d.frames[c].pg = npages(d) /\ d.frames[c].page = Tombstone(npages(d) + 1)
          /\ d.frames[c].pin = 1 /\ c \in {c}
      BY <2>5, <2>7
    <3>3. Sound(q, {c} \ {c}) /\ Others(d, q, h) /\ q.outcome = "ok" /\ Grown(d, q, h)
      BY <2>5, <2>7, <2>13, <3>1, <3>2, GrowDoes
    <3>4. Others(p, q, h)
      BY <2>6, <3>3, SameHandOn DEF Others, SameHands
    <3>5. Grown(p, q, h)
      BY <2>6, <2>7, <3>3 DEF Grown, Kept, SameView, np
    <3>6. Extended(p, q, h, extends)
      BY <2>2, <2>13, <3>3, <3>4, <3>5 DEF Extended
    <3> QED
      BY <3>6 DEF q
  <2> QED
    BY <2>5, <2>11, <2>12, <2>13
<1> QED
  BY <1>3, <1>6, <1>7

\* pgr_get_writable gives a page to write, or nothing.
GetsWritable(p, q, h, kinds, pg) ==
  /\ Sound(q, {}) /\ Kept(p, q) /\ Others(p, q, h)
  /\ \/ /\ q.outcome = "ok" /\ Mode(q, h) = "X" /\ PageNo(q, h) = pg /\ Copy(q, h) = View(p, pg)
        /\ pg \in DOMAIN p.store /\ View(p, pg).kind \in kinds /\ ~Blocked(p, pg)
     \/ Mode(q, h) = "none" /\ q.outcome # "ok" /\ Refused(p, q.outcome, kinds, pg)

\* Before the page is given back that cannot be written.
TriesWritable(p, q, h, kinds, pg) ==
  \/ GetsWritable(p, q, h, kinds, pg)
  \/ /\ Sound(q, {}) /\ Kept(p, q) /\ Others(p, q, h)
     /\ q.outcome = "full" /\ Mode(q, h) = "S" /\ PageNo(q, h) = pg

LEMMA TryDoes ==
  ASSUME NEW p, Sound(p, {}), p.outcome = "ok", NEW h \in Hands, Mode(p, h) = "none",
         NEW kinds, "zero" \notin kinds, NEW pg \in Nat,
         View(p, pg).kind \in kinds =>
           \A g \in Hands : Mode(p, g) = "S" => PageNo(p, g) # pg
  PROVE  TriesWritable(p, Upgrade(pgr_get(p, h, kinds, pg), h), h, kinds, pg)
<1> DEFINE t == pgr_get(p, h, kinds, pg)
           q == Upgrade(t, h)
<1>1. Gets(p, t, {}, h, kinds, pg)
  BY GetDoes
<1>2. q = IF Failed(t) THEN t ELSE pgr_make_writable(t, h)
  BY DEF Upgrade
<1> HIDE DEF t, q
<1>3. CASE NotGiven(p, t, h, kinds, pg)
  <2>1. t.outcome # "ok" /\ Mode(t, h) = "none" /\ Refused(p, t.outcome, kinds, pg)
    BY <1>3 DEF NotGiven, Refused
  <2>2. q = t
    BY <1>2, <2>1 DEF Failed
  <2>3. GetsWritable(p, q, h, kinds, pg)
    BY <1>1, <2>1, <2>2 DEF GetsWritable, Gets
  <2>4. TriesWritable(p, q, h, kinds, pg)
    BY <2>3 DEF TriesWritable
  <2> QED
    BY <2>4 DEF q, t
<1>4. CASE Given(p, t, h, kinds, pg)
  <2>1. /\ Sound(t, {}) /\ Kept(p, t) /\ Others(p, t, h) /\ t.outcome = "ok" /\ Mode(t, h) = "S"
        /\ PageNo(t, h) = pg /\ pg \in DOMAIN p.store /\ View(p, pg).kind \in kinds
        /\ ~Blocked(p, pg)
    BY <1>1, <1>4 DEF Gets, Given
  <2>2. q = pgr_make_writable(t, h)
    BY <1>2, <2>1 DEF Failed
  <2>3. Alone(t, h)
    <3>1. SUFFICES ASSUME NEW g \in Hands \ {h}, Mode(t, g) # "none" PROVE PageNo(t, g) # pg
      BY <2>1 DEF Alone
    <3>2. Mode(p, g) # "none" /\ PageNo(t, g) = PageNo(p, g)
      BY <2>1, <3>1 DEF Others, SameHand
    <3>3. Mode(p, g) \in {"S", "X"}
      BY <3>2, HandFacts
    <3> QED
      BY <2>1, <3>2, <3>3 DEF Blocked
  <2>4. MadeWritable(t, q, {}, h)
    BY <2>1, <2>2, <2>3, MakeWritableDoes
  <2>5. Sound(q, {}) /\ Kept(p, q) /\ Others(p, q, h)
    BY <2>1, <2>4, KeptOn, SameHandOn DEF MadeWritable, Others
  <2>6. View(t, pg) = View(p, pg)
    BY <2>1 DEF Kept, SameView
  <2>7. CASE Writes(t, q, h)
    <3>1. /\ q.outcome = "ok" /\ Mode(q, h) = "X" /\ PageNo(q, h) = pg
          /\ Copy(q, h) = View(p, pg)
      BY <2>1, <2>6, <2>7 DEF Writes
    <3>2. GetsWritable(p, q, h, kinds, pg)
      BY <2>1, <2>5, <3>1 DEF GetsWritable
    <3>3. TriesWritable(p, q, h, kinds, pg)
      BY <3>2 DEF TriesWritable
    <3> QED
      BY <3>3 DEF q, t
  <2>8. CASE q.outcome = "full" /\ SameHand(t, q, h)
    <3>1. TriesWritable(p, q, h, kinds, pg)
      BY <2>1, <2>5, <2>8 DEF TriesWritable, SameHand
    <3> QED
      BY <3>1 DEF q, t
  <2> QED
    BY <2>4, <2>7, <2>8 DEF MadeWritable
<1> QED
  BY <1>1, <1>3, <1>4 DEF Gets

LEMMA BackDoes ==
  ASSUME NEW p, NEW t, NEW h \in Hands, NEW kinds, NEW pg \in Nat, TriesWritable(p, t, h, kinds, pg)
  PROVE  /\ GetsWritable(p, GiveBackIfFailed(t, h), h, kinds, pg)
         /\ GiveBackIfFailed(t, h).outcome = t.outcome
<1> DEFINE q == GiveBackIfFailed(t, h)
<1>1. q = IF Failed(t) /\ Mode(t, h) = "S" THEN pgr_release(t, h) ELSE t
  BY DEF GiveBackIfFailed, Mode
<1> HIDE DEF q
<1>2. CASE GetsWritable(p, t, h, kinds, pg)
  <2>1. q = t
    BY <1>1, <1>2 DEF GetsWritable, Failed
  <2> QED
    BY <1>2, <2>1 DEF q
<1>3. CASE ~GetsWritable(p, t, h, kinds, pg)
  <2>1. /\ Sound(t, {}) /\ Kept(p, t) /\ Others(p, t, h) /\ t.outcome = "full" /\ Mode(t, h) = "S"
    BY <1>3 DEF TriesWritable
  <2>2. q = pgr_release(t, h)
    BY <1>1, <2>1 DEF Failed
  <2>3. Gone(t, q, {}, h)
    BY <2>1, <2>2, GiveBackDoes
  <2>4. Sound(q, {}) /\ Kept(p, q) /\ Others(p, q, h) /\ q.outcome = "full" /\ Mode(q, h) = "none"
    BY <2>1, <2>3, KeptOn, SameHandOn DEF Gone, Others
  <2>5. GetsWritable(p, q, h, kinds, pg)
    BY <2>4 DEF GetsWritable, Refused
  <2> QED
    BY <2>1, <2>4, <2>5 DEF q
<1> QED
  BY <1>2, <1>3

-----------------------------------------------------------------------------
(* The calls that need the root page.                                      *)

\* Between two calls of a client: nobody has the root page, and what is read is
\* a page in use.
Clients(p) ==
  /\ Mode(p, RootHandle) = "none" /\ View(p, 0).kind = "root"
  /\ \A g \in Hands : /\ Mode(p, g) # "none" => PageNo(p, g) # 0
                      /\ Mode(p, g) = "S" => View(p, PageNo(p, g)).kind = "data"
                      /\ Mode(p, g) = "X" => Copy(p, g).kind = "data"

Ready(p) == Sound(p, {}) /\ p.outcome = "ok" /\ Clients(p)

LEMMA ViewType ==
  ASSUME NEW p, NEW o, Sound(p, o)
  PROVE  0 \in DOMAIN p.store /\ \A pg \in DOMAIN p.store : View(p, pg) \in Page /\ pg \in Nat
<1>1. p \in State /\ p.table \in Tables /\ p.frames \in [Frames -> FrameRec]
  BY DEF Sound, State
<1>2. DOMAIN p.store = 0..(npages(p) - 1) /\ npages(p) \in Nat \ {0} /\ p.store \in [0..(npages(p) - 1) -> Page]
  BY <1>1, StoreFacts
<1>3. \A pg \in DOMAIN p.table : p.frames[p.table[pg]] \in FrameRec
  BY <1>1, TableType
<1>4. \A pg \in DOMAIN p.table : p.frames[p.table[pg]].page \in Page
  BY <1>3 DEF FrameRec
<1> QED
  BY <1>2, <1>4 DEF View

LEMMA RootAndHands == RootHandle \in Hands /\ \A h \in Handles : h \in Hands /\ h # RootHandle
BY BufAssumption DEF Hands

\* A call begins with the root page: it has it to write, has it to read and
\* found no frame for a copy, or has nothing.
RootTaken(p, a) ==
  /\ Sound(a, {}) /\ Kept(p, a) /\ Others(p, a, RootHandle)
  /\ \/ a.outcome = "ok" /\ Mode(a, RootHandle) = "X" /\ PageNo(a, RootHandle) = 0
     \/ a.outcome = "full" /\ Mode(a, RootHandle) = "none"
     \/ a.outcome = "full" /\ Mode(a, RootHandle) = "S" /\ PageNo(a, RootHandle) = 0

TakesRoot(p) == Upgrade(pgr_get(p, RootHandle, {"root"}, 0), RootHandle)

LEMMA TakesRootDoes ==
  ASSUME NEW p, Ready(p)
  PROVE  /\ RootTaken(p, TakesRoot(p))
         /\ TriesWritable(p, TakesRoot(p), RootHandle, {"root"}, 0)
<1>1. /\ Sound(p, {}) /\ p.outcome = "ok" /\ Mode(p, RootHandle) = "none" /\ RootHandle \in Hands
      /\ 0 \in DOMAIN p.store /\ View(p, 0).kind = "root" /\ "zero" \notin {"root"} /\ 0 \in Nat
  BY ViewType, RootAndHands DEF Ready, Clients
<1>2. \A g \in Hands : Mode(p, g) # "none" => PageNo(p, g) # 0
  BY DEF Ready, Clients
<1>3. View(p, 0).kind \in {"root"} => \A g \in Hands : Mode(p, g) = "S" => PageNo(p, g) # 0
  BY <1>2
<1> DEFINE a == TakesRoot(p)
<1>4. TriesWritable(p, a, RootHandle, {"root"}, 0)
  BY <1>1, <1>3, TryDoes DEF TakesRoot
<1>5. Blocked(p, 0) = FALSE
  BY <1>2 DEF Blocked
<1> HIDE DEF a
<1>6. \A why : Refused(p, why, {"root"}, 0) => why = "full"
  BY <1>1, <1>5 DEF Refused
<1>7. RootTaken(p, a)
  BY <1>4, <1>6 DEF TriesWritable, GetsWritable, RootTaken
<1> QED
  BY <1>4, <1>7 DEF a

\* What the root handle did not have before, it does not have after.
LEMMA RootGone ==
  ASSUME NEW p, NEW q, Others(p, q, RootHandle), Mode(p, RootHandle) = "none", Mode(q, RootHandle) = "none"
  PROVE  SameHands(p, q)
BY DEF Others, SameHands, SameHand

LEMMA GiveBackRootDoes ==
  ASSUME NEW p, NEW o, Sound(p, o), Mode(p, RootHandle) \in {"S", "X"}
  PROVE  Gone(p, GiveBackRoot(p), o, RootHandle)
<1>1. CASE Mode(p, RootHandle) = "S"
  <2>1. GiveBackRoot(p) = pgr_release(p, RootHandle)
    BY <1>1 DEF GiveBackRoot, Mode
  <2> QED
    BY <1>1, <2>1, GiveBackDoes, RootAndHands
<1>2. CASE Mode(p, RootHandle) = "X"
  <2>1. GiveBackRoot(p) = pgr_release(pgr_cancel_w(p, RootHandle), RootHandle)
    BY <1>2 DEF GiveBackRoot, Mode
  <2> QED
    BY <1>2, <2>1, GiveBackDoes, RootAndHands
<1> QED
  BY <1>1, <1>2

\* pgr_new: no page, or the first tombstone, or a page more at the end.
NewRefused(p, why) ==
  \/ why \in {"full", "io"} \/ View(p, 0).val = 0
  \/ View(p, 0).val \in DOMAIN p.store /\ Refused(p, why, {"tombstone"}, View(p, 0).val)

NewTakes(p, q, h) ==
  LET first == View(p, 0).val
  IN  /\ first \in DOMAIN p.store /\ View(p, first).kind = "tombstone" /\ ~Blocked(p, first)
      /\ PageNo(q, h) = first /\ Logged(p, q, 0, Root(View(p, first).val))

NewGrows(p, q, h) ==
  LET np == npages(p)
  IN  /\ View(p, 0).val \notin DOMAIN p.store
      /\ PageNo(q, h) = np /\ DOMAIN q.store = DOMAIN p.store \cup {np}
      /\ q.records = Append(p.records, [pg |-> 0, undo |-> View(p, 0), redo |-> Root(np + 1)])
      /\ View(q, np) = Tombstone(np + 1) /\ View(q, 0) = Root(np + 1)
      /\ \A i \in DOMAIN p.store \ {0} : View(q, i) = View(p, i)

NewCame(p, q, h) ==
  /\ Sound(q, {}) /\ Others(p, q, h)
  /\ \/ q.outcome # "ok" /\ Mode(q, h) = "none" /\ Kept(p, q) /\ NewRefused(p, q.outcome)
     \/ /\ q.outcome = "ok" /\ Mode(q, h) = "X" /\ Copy(q, h) = Data(0)
        /\ NewTakes(p, q, h) \/ NewGrows(p, q, h)

\* The page that TakeFirst comes to.
FirstTaken(a, b, h) ==
  LET first == View(a, 0).val
  IN  /\ Sound(b, {}) /\ Others(a, b, h)
      /\ \/ b.outcome # "ok" /\ Mode(b, h) = "none" /\ Kept(a, b) /\ NewRefused(a, b.outcome)
         \/ /\ b.outcome = "ok" /\ Mode(b, h) = "X"
            /\ \/ /\ first \in DOMAIN a.store /\ View(a, first).kind = "tombstone"
                  /\ ~Blocked(a, first) /\ PageNo(b, h) = first /\ Kept(a, b)
               \/ first \notin DOMAIN a.store /\ Grown(a, b, h)

LEMMA TakeFirstDoes ==
  ASSUME NEW a, Sound(a, {}), a.outcome = "ok", NEW h \in Hands, Mode(a, h) = "none",
         NEW extends \in BOOLEAN, View(a, 0).kind = "root",
         \A g \in Hands : Mode(a, g) = "S" => View(a, PageNo(a, g)).kind = "data"
  PROVE  FirstTaken(a, TakeFirst(a, h, View(a, 0).val, extends), h)
<1> DEFINE first == View(a, 0).val
           b == TakeFirst(a, h, first, extends)
<1>1. first \in Nat /\ (first < npages(a) <=> first \in DOMAIN a.store)
  <2>1. View(a, 0) \in Page
    BY ViewType
  <2>2. first \in Nat
    BY <2>1 DEF Page
  <2>3. DOMAIN a.store = 0..(npages(a) - 1) /\ npages(a) \in Nat
    BY StoreFacts DEF Sound
  <2> HIDE DEF first
  <2> QED
    BY <2>2, <2>3
<1> HIDE DEF first, b
<1>2. CASE first \in DOMAIN a.store
  <2> DEFINE t == Upgrade(pgr_get(a, h, {"tombstone"}, first), h)
  <2>1. b = GiveBackIfFailed(t, h)
    BY <1>1, <1>2 DEF b, TakeFirst, pgr_get_writable
  <2>2. View(a, first).kind \in {"tombstone"} =>
          \A g \in Hands : Mode(a, g) = "S" => PageNo(a, g) # first
    OBVIOUS
  <2>3. "zero" \notin {"tombstone"}
    OBVIOUS
  <2>4. TriesWritable(a, t, h, {"tombstone"}, first)
    BY <1>1, <2>2, <2>3, TryDoes
  <2> HIDE DEF t
  <2>5. GetsWritable(a, b, h, {"tombstone"}, first)
    BY <1>1, <2>1, <2>4, BackDoes
  <2>6. FirstTaken(a, b, h)
    BY <1>2, <2>5 DEF GetsWritable, FirstTaken, NewRefused, first
  <2> QED
    BY <2>6 DEF b, first
<1>3. CASE first \notin DOMAIN a.store
  <2>1. b = pgr_new_extend(a, h, extends)
    BY <1>1, <1>3 DEF b, TakeFirst
  <2>2. Extended(a, b, h, extends)
    BY <2>1, ExtendDoes
  <2>3. CASE b.outcome = "ok" /\ Grown(a, b, h)
    <3>1. Mode(b, h) = "X"
      BY <2>3 DEF Grown
    <3>2. FirstTaken(a, b, h)
      BY <1>3, <2>2, <2>3, <3>1 DEF Extended, FirstTaken, first
    <3> QED
      BY <3>2 DEF b, first
  <2>4. CASE b.outcome \in {"full", "io"} /\ Mode(b, h) = "none" /\ Kept(a, b)
    <3>1. FirstTaken(a, b, h)
      BY <2>2, <2>4 DEF Extended, FirstTaken, NewRefused
    <3> QED
      BY <3>1 DEF b, first
  <2> QED
    BY <2>2, <2>3, <2>4 DEF Extended
<1> QED
  BY <1>2, <1>3

LEMMA OthersOn ==
  ASSUME NEW p, NEW q, NEW r, NEW h, Others(p, q, h), Others(q, r, h)
  PROVE  Others(p, r, h)
BY SameHandOn DEF Others

\* What a call on the other handle left alone.
LEMMA OtherIs ==
  ASSUME NEW p, NEW q, NEW h \in Hands, NEW g \in Hands, g # h, Others(p, q, h)
  PROVE  SameHand(p, q, g)
BY DEF Others

LEMMA NewDoes ==
  ASSUME NEW p, Ready(p), NEW h \in Handles, Mode(p, h) = "none", NEW extends \in BOOLEAN
  PROVE  NewCame(p, pgr_new(p, h, extends), h)
<1> DEFINE a == TakesRoot(p)
           q == pgr_new(p, h, extends)
           R == RootHandle
<1>1. RootTaken(p, a) /\ TriesWritable(p, a, R, {"root"}, 0)
  BY TakesRootDoes
<1>2. q = NewUnderRoot(a, h, extends)
  BY DEF pgr_new, TakesRoot
<1>3. /\ h \in Hands /\ R \in Hands /\ h # R
      /\ Sound(p, {}) /\ Mode(p, R) = "none" /\ View(p, 0).kind = "root"
      /\ \A g \in Hands : /\ Mode(p, g) # "none" => PageNo(p, g) # 0
                          /\ Mode(p, g) = "S" => View(p, PageNo(p, g)).kind = "data"
  BY RootAndHands DEF Ready, Clients
<1>4. 0 \in DOMAIN p.store /\ \A g \in Hands : Mode(p, g) # "none" => PageNo(p, g) \in DOMAIN p.store
  BY <1>3, ViewType, HandFacts
<1> HIDE DEF a, q, R
<1>5. ASSUME NEW t, Sound(t, {}), Kept(p, t), SameHands(p, t), t.outcome # "ok",
             NewRefused(p, t.outcome), q = t
      PROVE  NewCame(p, q, h)
  <2>1. Others(p, t, h) /\ Mode(t, h) = "none"
    BY <1>3, <1>5 DEF SameHands, Others, SameHand
  <2> QED
    BY <1>5, <2>1 DEF NewCame
<1>6. CASE a.outcome # "ok"
  <2>1. q = GiveBackIfFailed(a, R)
    BY <1>2, <1>6 DEF NewUnderRoot, Failed, R
  <2>2. GetsWritable(p, q, R, {"root"}, 0) /\ q.outcome = a.outcome
    BY <1>1, <1>3, <2>1, BackDoes
  <2>3. Sound(q, {}) /\ Kept(p, q) /\ Others(p, q, R) /\ Mode(q, R) = "none" /\ q.outcome = "full"
    BY <1>1, <1>6, <2>2 DEF GetsWritable, RootTaken
  <2>4. SameHands(p, q)
    BY <1>3, <2>3, RootGone DEF R
  <2>5. NewCame(p, q, h)
    BY <1>5, <2>3, <2>4 DEF NewRefused
  <2> QED
    BY <2>5 DEF q
<1>7. CASE a.outcome = "ok"
  <2>1. /\ Sound(a, {}) /\ Kept(p, a) /\ Others(p, a, R) /\ Mode(a, R) = "X" /\ PageNo(a, R) = 0
    BY <1>1, <1>7 DEF RootTaken, R
  <2>2. View(a, 0) = View(p, 0) /\ PageOf(a, R) = View(p, 0) /\ DOMAIN a.store = DOMAIN p.store
    <3>1. View(a, 0) = PageOf(a, R)
      BY <1>3, <2>1, HandFacts
    <3> QED
      BY <1>4, <2>1, <3>1 DEF Kept, SameView
  <2>3. Mode(a, h) = "none"
    BY <1>3, <2>1, OtherIs DEF SameHand
  <2>4. \A g \in Hands : Mode(a, g) = "S" => View(a, PageNo(a, g)).kind = "data"
    <3>1. SUFFICES ASSUME NEW g \in Hands, Mode(a, g) = "S" PROVE View(a, PageNo(a, g)).kind = "data"
      OBVIOUS
    <3>2. g # R
      BY <2>1, <3>1
    <3>3. Mode(p, g) = "S" /\ PageNo(a, g) = PageNo(p, g)
      BY <1>3, <2>1, <3>1, <3>2, OtherIs DEF SameHand
    <3>4. View(a, PageNo(p, g)) = View(p, PageNo(p, g))
      BY <1>4, <2>1, <3>3 DEF Kept, SameView
    <3> QED
      BY <1>3, <3>3, <3>4
  <2> DEFINE first == View(p, 0).val
             b == TakeFirst(a, h, first, extends)
  <2>5. FirstTaken(a, b, h)
    BY <1>3, <1>7, <2>1, <2>2, <2>3, <2>4, TakeFirstDoes
  <2>6. q = NewTaken(b, h)
    BY <1>2, <1>7, <2>2 DEF NewUnderRoot, Failed, R
  <2> HIDE DEF first, b
  <2>7. /\ Sound(b, {}) /\ Others(a, b, h) /\ Mode(b, R) = "X" /\ PageNo(b, R) = 0
    BY <1>3, <2>1, <2>5, OtherIs DEF FirstTaken, SameHand
  <2>7a. Blocked(a, first) => first = 0 \/ Blocked(p, first)
    <3>1. SUFFICES ASSUME NEW g \in Hands, Mode(a, g) = "X", PageNo(a, g) = first, g # R
                   PROVE  Blocked(p, first)
      BY <2>1 DEF Blocked
    <3> QED
      BY <1>3, <2>1, <3>1, OtherIs DEF SameHand, Blocked
  <2>7b. Blocked(p, first) => Blocked(a, first)
    <3>1. SUFFICES ASSUME NEW g \in Hands, Mode(p, g) = "X", PageNo(p, g) = first
                   PROVE  Blocked(a, first)
      BY DEF Blocked
    <3>2. g # R
      BY <1>3, <3>1
    <3> QED
      BY <1>3, <2>1, <3>1, <3>2, OtherIs DEF SameHand, Blocked
  <2>8. CASE b.outcome # "ok"
    <3>1. Mode(b, h) = "none" /\ Kept(a, b) /\ NewRefused(a, b.outcome)
      BY <2>5, <2>8 DEF FirstTaken
    <3>2. q = GiveBackRoot(b)
      BY <2>6, <2>8 DEF NewTaken, Failed
    <3>3. Gone(b, q, {}, R)
      BY <2>7, <3>2, GiveBackRootDoes DEF R
    <3>4. Kept(p, q) /\ Sound(q, {}) /\ q.outcome = b.outcome /\ Mode(q, R) = "none"
      BY <2>1, <3>1, <3>3, KeptOn DEF Gone
    <3>5. SameHands(p, q)
      <4>1. SUFFICES ASSUME NEW g \in Hands PROVE SameHand(p, q, g)
        BY DEF SameHands
      <4>2. CASE g = R
        BY <1>3, <3>4, <4>2 DEF SameHand
      <4>3. CASE g = h
        BY <1>3, <2>3, <3>1, <3>3, <4>3, OtherIs DEF Gone, SameHand
      <4>4. CASE g # R /\ g # h
        <5>1. SameHand(p, a, g) /\ SameHand(a, b, g) /\ SameHand(b, q, g)
          BY <1>3, <2>1, <2>7, <3>3, <4>4, OtherIs DEF Gone
        <5> QED
          BY <5>1, SameHandOn
      <4> QED
        BY <4>2, <4>3, <4>4
    <3>6. NewRefused(p, q.outcome)
      <4>1. ASSUME Refused(a, q.outcome, {"tombstone"}, first), first \in DOMAIN p.store, first # 0
            PROVE  Refused(p, q.outcome, {"tombstone"}, first)
        <5>1. View(a, first) = View(p, first)
          BY <2>1, <4>1 DEF Kept, SameView
        <5> QED
          BY <2>2, <2>7a, <4>1, <5>1 DEF Refused
      <4> QED
        BY <2>2, <3>1, <3>4, <4>1 DEF NewRefused, first
    <3>7. NewCame(p, q, h)
      BY <1>5, <2>8, <3>4, <3>5, <3>6
    <3> QED
      BY <3>7 DEF q
  <2>9. CASE b.outcome = "ok"
    <3> DEFINE v == PageOf(b, h).val
               c == SetCopy(b, R, Root(v))
               d == pgr_release(c, R)
    <3>1. /\ Mode(b, h) = "X"
          /\ \/ /\ first \in DOMAIN p.store /\ View(p, first).kind = "tombstone"
                /\ ~Blocked(p, first) /\ PageNo(b, h) = first /\ Kept(p, b) /\ v = View(p, first).val
             \/ first \notin DOMAIN p.store /\ Grown(p, b, h) /\ v = npages(p) + 1
      <4>1. Mode(b, h) = "X" /\ PageOf(b, h) = View(b, PageNo(b, h))
        BY <1>3, <2>5, <2>7, <2>9, HandFacts DEF FirstTaken
      <4>2. CASE /\ first \in DOMAIN a.store /\ View(a, first).kind = "tombstone"
                 /\ ~Blocked(a, first) /\ PageNo(b, h) = first /\ Kept(a, b)
        <5>1. Kept(p, b) /\ View(a, first) = View(p, first) /\ View(b, first) = View(p, first)
          BY <2>1, <2>2, <4>2, KeptOn DEF Kept, SameView
        <5> QED
          BY <2>2, <2>7b, <4>1, <4>2, <5>1
      <4>3. CASE first \notin DOMAIN a.store /\ Grown(a, b, h)
        <5>1. npages(a) = npages(p)
          BY <2>2 DEF npages
        <5>2. Grown(p, b, h)
          BY <2>1, <2>2, <4>3, <5>1 DEF Grown, Kept, SameView
        <5>3. v = npages(p) + 1
          BY <4>1, <5>2 DEF Grown, Tombstone, Content
        <5> QED
          BY <2>2, <4>1, <4>3, <5>2, <5>3
      <4> QED
        BY <2>2, <2>5, <2>9, <4>1, <4>2, <4>3 DEF FirstTaken, first
    <3>2. v \in Nat
      <4>1. CASE v = npages(p) + 1
        BY <1>3, <4>1, StoreFacts DEF Sound
      <4>2. CASE /\ first \in DOMAIN p.store /\ View(p, first).kind = "tombstone"
                 /\ v = View(p, first).val
        <5>1. View(p, first) \in Page
          BY <1>3, <4>2, ViewType
        <5> QED
          BY <4>2, <5>1 DEF Page
      <4> QED
        BY <3>1, <4>1, <4>2
    <3>3. Root(v) \in Page /\ Root(v).kind # "zero" /\ Data(0) \in Page /\ Data(0).kind # "zero"
      <4> HIDE DEF v
      <4> QED
        BY <3>2 DEF Root, Data, Content, Page, Kinds
    <3>4. q = SetCopy(d, h, Data(0))
      BY <2>6, <2>9 DEF NewTaken, Failed, RootAfter, R
    <3> HIDE DEF v
    <3>5. CopySet(b, c, {}, R, Root(v))
      BY <1>3, <2>7, <3>3, SetCopyDoes
    <3> HIDE DEF c
    <3>6. Released(c, d, {}, R)
      BY <1>3, <3>5, ReleaseDoes DEF CopySet
    <3> HIDE DEF d
    <3>7. /\ Sound(d, {}) /\ Others(c, d, R) /\ Others(b, c, R) /\ Logged(c, d, 0, Root(v))
          /\ Kept(b, c) /\ Mode(d, R) = "none" /\ d.outcome = "ok"
      BY <2>7, <2>9, <3>5, <3>6 DEF CopySet, Released
    <3>8. Others(b, d, R)
      BY <3>7, OthersOn
    <3>9. Mode(d, h) = "X" /\ PageNo(d, h) = PageNo(b, h)
      BY <1>3, <3>1, <3>8, OtherIs DEF SameHand
    <3>10. CopySet(d, q, {}, h, Data(0))
      BY <1>3, <3>3, <3>4, <3>7, <3>9, SetCopyDoes
    <3>11. /\ Sound(q, {}) /\ Others(d, q, h) /\ Kept(d, q) /\ q.outcome = "ok" /\ Mode(q, h) = "X"
           /\ PageNo(q, h) = PageNo(b, h) /\ Copy(q, h) = Data(0)
      BY <3>7, <3>9, <3>10 DEF CopySet
    <3>12. Others(p, q, h)
      <4>1. SUFFICES ASSUME NEW g \in Hands \ {h} PROVE SameHand(p, q, g)
        BY DEF Others
      <4>2. CASE g = R
        BY <1>3, <3>7, <3>11, <4>2, OtherIs DEF SameHand
      <4>3. CASE g # R
        <5>1. SameHand(p, a, g) /\ SameHand(a, b, g) /\ SameHand(b, d, g) /\ SameHand(d, q, g)
          BY <1>3, <2>1, <2>7, <3>8, <3>11, <4>3, OtherIs
        <5> QED
          BY <5>1, SameHandOn
      <4> QED
        BY <4>2, <4>3
    <3>13. CASE /\ first \in DOMAIN p.store /\ View(p, first).kind = "tombstone"
                /\ ~Blocked(p, first) /\ PageNo(b, h) = first /\ Kept(p, b) /\ v = View(p, first).val
      <4>1. Kept(p, c)
        BY <3>7, <3>13, KeptOn
      <4>2. Logged(p, q, 0, Root(v))
        BY <1>4, <3>7, <3>11, <4>1 DEF Logged, Kept, SameView
      <4>3. NewTakes(p, q, h)
        BY <3>11, <3>13, <4>2 DEF NewTakes, first
      <4>4. NewCame(p, q, h)
        BY <3>11, <3>12, <4>3 DEF NewCame
      <4> QED
        BY <4>4 DEF q
    <3>14. CASE first \notin DOMAIN p.store /\ Grown(p, b, h) /\ v = npages(p) + 1
      <4>1. npages(p) # 0 /\ npages(p) \notin DOMAIN p.store
        <5>1. npages(p) \in Nat \ {0} /\ DOMAIN p.store = 0..(npages(p) - 1)
          BY <1>3, StoreFacts DEF Sound
        <5> QED
          BY <5>1
      <4>2. /\ c.records = p.records /\ DOMAIN c.store = DOMAIN p.store \cup {npages(p)}
            /\ View(c, npages(p)) = Tombstone(npages(p) + 1)
            /\ \A i \in DOMAIN p.store : View(c, i) = View(p, i)
        BY <3>7, <3>14 DEF Grown, Kept, SameView
      <4>3. /\ q.records = Append(p.records, [pg |-> 0, undo |-> View(p, 0), redo |-> Root(v)])
            /\ DOMAIN q.store = DOMAIN p.store \cup {npages(p)}
            /\ View(q, npages(p)) = Tombstone(npages(p) + 1) /\ View(q, 0) = Root(v)
            /\ \A i \in DOMAIN p.store \ {0} : View(q, i) = View(p, i)
        BY <1>4, <3>7, <3>11, <4>1, <4>2 DEF Logged, Kept, SameView
      <4>4. PageNo(q, h) = npages(p)
        BY <3>11, <3>14 DEF Grown
      <4>5. NewGrows(p, q, h)
        BY <3>14, <4>3, <4>4 DEF NewGrows, first
      <4>6. NewCame(p, q, h)
        BY <3>11, <3>12, <4>5 DEF NewCame
      <4> QED
        BY <4>6 DEF q
    <3> QED
      BY <3>1, <3>13, <3>14
  <2> QED
    BY <2>8, <2>9
<1> QED
  BY <1>6, <1>7

LEMMA LoggedThrough ==
  ASSUME NEW p, NEW c, NEW d, NEW q, NEW pg \in DOMAIN p.store, NEW page,
         Kept(p, c), Logged(c, d, pg, page), Kept(d, q)
  PROVE  Logged(p, q, pg, page)
BY DEF Logged, Kept, SameView

\* pgr_delete_and_release: the page is the first tombstone, or all is as it was.
DeleteDone(p, q, h) ==
  /\ Sound(q, {})
  /\ \/ q.outcome = "full" /\ Kept(p, q) /\ SameHands(p, q)
     \/ /\ q.outcome = "ok" /\ Others(p, q, h) /\ Mode(q, h) = "none"
        /\ \E t : /\ Logged(p, t, PageNo(p, h), Tombstone(View(p, 0).val))
                  /\ Logged(t, q, 0, Root(PageNo(p, h)))

LEMMA DeleteDoes ==
  ASSUME NEW p, Ready(p), NEW h \in Handles, Mode(p, h) # "none", Alone(p, h)
  PROVE  DeleteDone(p, pgr_delete_and_release(p, h), h)
<1> DEFINE a == TakesRoot(p)
           q == pgr_delete_and_release(p, h)
           R == RootHandle
           pg == PageNo(p, h)
           first == View(p, 0).val
<1>1. RootTaken(p, a)
  BY TakesRootDoes
<1>2. q = DeleteUnderRoot(a, h)
  BY DEF pgr_delete_and_release, TakesRoot
<1>3. /\ h \in Hands /\ R \in Hands /\ h # R /\ Sound(p, {}) /\ Mode(p, R) = "none"
      /\ pg \in DOMAIN p.store /\ pg # 0 /\ 0 \in DOMAIN p.store /\ pg \in Nat
      /\ View(p, 0).kind = "root" /\ View(p, 0) \in Page /\ p.outcome = "ok"
      /\ \A g \in Hands : Mode(p, g) # "none" => PageNo(p, g) # 0
  BY RootAndHands, ViewType, HandFacts DEF Ready, Clients
<1>4. first \in Nat
  BY <1>3 DEF Page
<1> HIDE DEF a, q, R, pg, first
<1>5. /\ Sound(a, {}) /\ Kept(p, a) /\ Others(p, a, R)
      /\ \/ a.outcome = "ok" /\ Mode(a, R) = "X" /\ PageNo(a, R) = 0
         \/ a.outcome = "full" /\ Mode(a, R) = "none"
         \/ a.outcome = "full" /\ Mode(a, R) = "S" /\ PageNo(a, R) = 0
  BY <1>1 DEF RootTaken, R
<1>6. SameHand(p, a, h) /\ Mode(a, h) = Mode(p, h) /\ PageNo(a, h) = pg
  BY <1>3, <1>5, OtherIs DEF SameHand, pg
<1>7. CASE a.outcome = "full" /\ Mode(a, R) = "none"
  <2>1. q = a
    BY <1>2, <1>7 DEF DeleteUnderRoot, Failed, Mode, R
  <2>2. SameHands(p, q)
    BY <1>3, <1>5, <1>7, <2>1, RootGone DEF R
  <2>3. DeleteDone(p, q, h)
    BY <1>5, <1>7, <2>1, <2>2 DEF DeleteDone
  <2> QED
    BY <2>3 DEF q
<1>8. CASE a.outcome = "full" /\ Mode(a, R) = "S" /\ PageNo(a, R) = 0
  <2>1. q = [a EXCEPT !.leaks = @ + 1, !.handles[R] = NoHandle]
    BY <1>2, <1>8 DEF DeleteUnderRoot, Failed, Mode, R
  <2>2. Left(a, q, {}, R)
    BY <1>3, <1>5, <1>8, <2>1, LeaveDoes
  <2>3. Sound(q, {}) /\ Kept(p, q) /\ Others(p, q, R) /\ q.outcome = "full" /\ Mode(q, R) = "none"
    BY <1>5, <1>8, <2>2, KeptOn, OthersOn DEF Left
  <2>4. SameHands(p, q)
    BY <1>3, <2>3, RootGone DEF R
  <2>5. DeleteDone(p, q, h)
    BY <2>3, <2>4 DEF DeleteDone
  <2> QED
    BY <2>5 DEF q
<1>9. CASE a.outcome = "ok" /\ Mode(a, R) = "X" /\ PageNo(a, R) = 0
  <2> DEFINE b == IF Mode(a, h) = "S" THEN pgr_make_writable(a, h) ELSE a
  <2>1. q = DeleteWritable(b, h, pg)
    BY <1>2, <1>6, <1>9 DEF DeleteUnderRoot, Failed, Mode, PageNo
  <2>2. Alone(a, h)
    <3>1. SUFFICES ASSUME NEW g \in Hands \ {h}, Mode(a, g) # "none" PROVE PageNo(a, g) # pg
      BY <1>6 DEF Alone
    <3>2. CASE g = R
      BY <1>3, <1>9, <3>2
    <3>3. CASE g # R
      <4>1. SameHand(p, a, g)
        BY <1>3, <1>5, <3>3, OtherIs
      <4> QED
        BY <3>1, <4>1 DEF SameHand, Alone, pg
    <3> QED
      BY <3>2, <3>3
  <2> HIDE DEF b
  <2>3. /\ Sound(b, {}) /\ Kept(a, b) /\ Others(a, b, h)
        /\ \/ b.outcome = "ok" /\ Mode(b, h) = "X" /\ PageNo(b, h) = pg
           \/ b.outcome = "full" /\ SameHand(a, b, h)
    <3>1. CASE Mode(a, h) = "S"
      <4>1. MadeWritable(a, b, {}, h)
        BY <1>3, <1>5, <1>9, <2>2, <3>1, MakeWritableDoes DEF b
      <4> QED
        BY <1>6, <1>9, <4>1 DEF MadeWritable, Writes
    <3>2. CASE Mode(a, h) # "S"
      <4>1. b = a
        BY <3>2 DEF b
      <4>2. Mode(a, h) = "X"
        BY <1>3, <1>5, <1>6, <3>2, HandFacts
      <4> QED
        BY <1>5, <1>6, <1>9, <4>1, <4>2 DEF Kept, SameView, Others, SameHand
    <3> QED
      BY <3>1, <3>2
  <2>4. Kept(p, b)
    BY <1>5, <2>3, KeptOn
  <2>5. Mode(b, R) = "X" /\ PageNo(b, R) = 0
    BY <1>3, <1>9, <2>3, OtherIs DEF SameHand
  <2>6. \A g \in Hands : g # h /\ g # R => SameHand(p, b, g)
    <3>1. SUFFICES ASSUME NEW g \in Hands, g # h, g # R PROVE SameHand(p, b, g)
      OBVIOUS
    <3>2. SameHand(p, a, g) /\ SameHand(a, b, g)
      BY <1>3, <1>5, <2>3, <3>1, OtherIs
    <3> QED
      BY <3>2, SameHandOn
  <2>7. CASE b.outcome = "full" /\ SameHand(a, b, h)
    <3>1. q = GiveBackRoot(b)
      BY <2>1, <2>7 DEF DeleteWritable, Failed
    <3>2. Gone(b, q, {}, R)
      BY <2>3, <2>5, <3>1, GiveBackRootDoes DEF R
    <3>3. Kept(p, q) /\ Sound(q, {}) /\ q.outcome = "full" /\ Mode(q, R) = "none" /\ Others(b, q, R)
      BY <2>4, <2>7, <3>2, KeptOn DEF Gone
    <3>4. SameHands(p, q)
      <4>1. SUFFICES ASSUME NEW g \in Hands PROVE SameHand(p, q, g)
        BY DEF SameHands
      <4>2. CASE g = R
        BY <1>3, <3>3, <4>2 DEF SameHand
      <4>3. CASE g = h
        <5>1. SameHand(p, b, h) /\ SameHand(b, q, h)
          BY <1>3, <1>6, <2>7, <3>3, OtherIs, SameHandOn
        <5> QED
          BY <4>3, <5>1, SameHandOn
      <4>4. CASE g # R /\ g # h
        <5>1. SameHand(p, b, g) /\ SameHand(b, q, g)
          BY <1>3, <2>6, <3>3, <4>4, OtherIs
        <5> QED
          BY <5>1, SameHandOn
      <4> QED
        BY <4>2, <4>3, <4>4
    <3>5. DeleteDone(p, q, h)
      BY <3>3, <3>4 DEF DeleteDone
    <3> QED
      BY <3>5 DEF q
  <2>8. CASE b.outcome = "ok" /\ Mode(b, h) = "X" /\ PageNo(b, h) = pg
    <3> DEFINE c == SetCopy(b, h, Tombstone(first))
               d == pgr_release(c, h)
               e == SetCopy(d, R, Root(pg))
    <3>1. TombstoneBefore(b) = Tombstone(first)
      <4>1. PageOf(b, R) = View(b, 0)
        BY <1>3, <2>3, <2>5, HandFacts
      <4> QED
        BY <1>3, <2>4, <4>1 DEF TombstoneBefore, Kept, SameView, first, R
    <3>2. q = pgr_release(e, R)
      BY <2>1, <2>8, <3>1 DEF DeleteWritable, Failed, R
    <3>3. /\ Tombstone(first) \in Page /\ Tombstone(first).kind # "zero"
          /\ Root(pg) \in Page /\ Root(pg).kind # "zero"
      BY <1>3, <1>4 DEF Tombstone, Root, Content, Page, Kinds
    <3>4. CopySet(b, c, {}, h, Tombstone(first))
      BY <1>3, <2>3, <2>8, <3>3, SetCopyDoes
    <3> HIDE DEF c
    <3>5. Released(c, d, {}, h)
      BY <1>3, <3>4, ReleaseDoes DEF CopySet
    <3> HIDE DEF d
    <3>6. /\ Sound(d, {}) /\ Others(b, d, h) /\ Kept(b, c) /\ Logged(c, d, pg, Tombstone(first))
          /\ Mode(d, h) = "none" /\ d.outcome = "ok"
      BY <2>8, <3>4, <3>5, OthersOn DEF CopySet, Released
    <3>7. Mode(d, R) = "X" /\ PageNo(d, R) = 0
      BY <1>3, <2>5, <3>6, OtherIs DEF SameHand
    <3>8. CopySet(d, e, {}, R, Root(pg))
      BY <1>3, <3>3, <3>6, <3>7, SetCopyDoes
    <3> HIDE DEF e
    <3>9. Released(e, q, {}, R)
      BY <1>3, <3>2, <3>8, ReleaseDoes DEF CopySet
    <3>10. /\ Sound(q, {}) /\ Others(d, q, R) /\ Kept(d, e) /\ Logged(e, q, 0, Root(pg))
           /\ Mode(q, R) = "none" /\ q.outcome = "ok"
      BY <3>6, <3>7, <3>8, <3>9, OthersOn DEF CopySet, Released
    <3>11. Kept(p, c)
      BY <2>4, <3>6, KeptOn
    <3>12. Kept(d, d) /\ Kept(e, e) /\ Kept(q, q)
      BY DEF Kept, SameView
    <3>13. Logged(p, d, pg, Tombstone(first))
      BY <1>3, <3>6, <3>11, <3>12, LoggedThrough
    <3>14. 0 \in DOMAIN d.store
      BY <1>3, <3>13 DEF Logged
    <3>15. Logged(d, q, 0, Root(pg))
      BY <3>10, <3>12, <3>14, LoggedThrough
    <3>16. Mode(q, h) = "none"
      BY <1>3, <3>6, <3>10, OtherIs DEF SameHand
    <3>17. Others(p, q, h)
      <4>1. SUFFICES ASSUME NEW g \in Hands \ {h} PROVE SameHand(p, q, g)
        BY DEF Others
      <4>2. CASE g = R
        BY <1>3, <3>10, <4>2 DEF SameHand
      <4>3. CASE g # R
        <5>1. SameHand(p, b, g) /\ SameHand(b, d, g) /\ SameHand(d, q, g)
          BY <1>3, <2>6, <3>6, <3>10, <4>3, OtherIs
        <5> QED
          BY <5>1, SameHandOn
      <4> QED
        BY <4>2, <4>3
    <3>18. DeleteDone(p, q, h)
      BY <3>10, <3>13, <3>15, <3>16, <3>17 DEF DeleteDone, pg, first
    <3> QED
      BY <3>18 DEF q
  <2> QED
    BY <2>3, <2>7, <2>8
<1> QED
  BY <1>5, <1>7, <1>8, <1>9

-----------------------------------------------------------------------------
(* Between two calls of a client.                                          *)

\* What a crash finds: the pages of the last commit and the updates since.
HistoryOK ==
  /\ committed \in Stores /\ DOMAIN committed \subseteq DOMAIN store /\ committed[0].kind = "root"
  /\ \A k \in DOMAIN records :
       /\ records[k].pg \in DOMAIN store
       /\ records[k].pg = 0 => records[k].undo.kind = "root" /\ records[k].redo.kind = "root"

\* The inductive invariant: every frame is free, found or a copy, with a pin for
\* every handle, and the pages that the calls rely on are of their kinds.
BufInv == Sound(Buf, {}) /\ Clients(Buf) /\ outcome \in Outcomes /\ HistoryOK

\* The variables are those of q, but for the outcome, which Buf does not have.
LEMMA BufIs ==
  ASSUME NEW q, NEW o, Sound(q, o), BufBecomes(q)
  PROVE  /\ Sound(Buf', o) /\ Kept(q, Buf') /\ SameHands(q, Buf') /\ Buf'.handles = q.handles
         /\ outcome' = q.outcome /\ outcome' \in Outcomes
<1>1. q \in State /\ "ok" \in Outcomes
  BY DEF Sound, Outcomes
<1> DEFINE t == [q EXCEPT !.outcome = "ok"]
<1>2. Buf' = t
  <2>1. t = [frames |-> q.frames, table |-> q.table, clock |-> q.clock, store |-> q.store,
             records |-> q.records, safe |-> q.safe, handles |-> q.handles, outcome |-> "ok",
             leaks |-> q.leaks]
    BY <1>1 DEF State
  <2>2. Buf' = [frames |-> q.frames, table |-> q.table, clock |-> q.clock, store |-> q.store,
                records |-> q.records, safe |-> q.safe, handles |-> q.handles, outcome |-> "ok",
                leaks |-> q.leaks]
    BY DEF Buf, BufBecomes
  <2> QED
    BY <2>1, <2>2
<1>3. Sound(t, o) /\ Kept(q, t) /\ SameHands(q, t) /\ t.handles = q.handles
  BY <1>1, OutcomeOnly
<1>4. outcome' = q.outcome /\ outcome' \in Outcomes
  BY <1>1 DEF BufBecomes, State
<1> QED
  BY <1>2, <1>3, <1>4

LEMMA BufFields ==
  /\ Buf.frames = frames /\ Buf.table = table /\ Buf.store = store /\ Buf.records = records
  /\ Buf.safe = safe /\ Buf.handles = handles /\ Buf.outcome = "ok" /\ Buf.leaks = leaks
BY DEF Buf

LEMMA BufReady ==
  ASSUME BufInv
  PROVE  Ready(Buf)
BY BufFields DEF BufInv, Ready

-----------------------------------------------------------------------------
(* What a call does to the pages, as the log and the other clients see it. *)

\* Nothing is saved; a page that is going to be written was in use.
Quiet(p, q) ==
  /\ Kept(p, q)
  /\ \A i \in DOMAIN p.store : /\ Blocked(p, i) => Blocked(q, i)
                               /\ Blocked(q, i) => Blocked(p, i) \/ View(p, i).kind = "data"

\* A writer saves its page.
Saves(p, q) ==
  \E pg \in DOMAIN p.store \ {0}, page \in Page :
    /\ Blocked(p, pg) /\ page.kind = "data" /\ Logged(p, q, pg, page)
    /\ \A i \in DOMAIN p.store : Blocked(q, i) <=> Blocked(p, i) /\ i # pg

\* The first tombstone is given to a writer.
Takes(p, q) ==
  LET first == View(p, 0).val
  IN  /\ first \in DOMAIN p.store /\ View(p, first).kind = "tombstone" /\ ~Blocked(p, first)
      /\ Logged(p, q, 0, Root(View(p, first).val))
      /\ \A i \in DOMAIN p.store : Blocked(q, i) <=> Blocked(p, i) \/ i = first

\* The file grows by a page for a writer.
Grows(p, q) ==
  LET np == npages(p)
  IN  /\ View(p, 0).val \notin DOMAIN p.store /\ DOMAIN q.store = DOMAIN p.store \cup {np}
      /\ q.records = Append(p.records, [pg |-> 0, undo |-> View(p, 0), redo |-> Root(np + 1)])
      /\ View(q, np) = Tombstone(np + 1) /\ View(q, 0) = Root(np + 1)
      /\ \A i \in DOMAIN p.store \ {0} : View(q, i) = View(p, i)
      /\ \A i \in DOMAIN q.store : Blocked(q, i) <=> Blocked(p, i) \/ i = np

\* A page becomes the first tombstone.
Deletes(p, q) ==
  \E pg \in DOMAIN p.store \ {0} :
    /\ Blocked(p, pg) \/ View(p, pg).kind = "data"
    /\ \E t : Logged(p, t, pg, Tombstone(View(p, 0).val)) /\ Logged(t, q, 0, Root(pg))
    /\ \A i \in DOMAIN p.store : Blocked(q, i) <=> Blocked(p, i) /\ i # pg

Calls(p, q) == Quiet(p, q) \/ Saves(p, q) \/ Takes(p, q) \/ Grows(p, q) \/ Deletes(p, q)

\* What a call may come to.
MayCome(p, why) == why \in {"ok", "full"} \/ NewRefused(p, why)

CallDone(p, q) == Sound(q, {}) /\ Clients(q) /\ Calls(p, q) /\ MayCome(p, q.outcome)

\* The file is as long as it was.
SameFile(p, q) == DOMAIN q.store = DOMAIN p.store

LEMMA BlockedSame ==
  ASSUME NEW p, NEW q, SameHands(p, q)
  PROVE  \A i : Blocked(q, i) <=> Blocked(p, i)
BY DEF Blocked, SameHands, SameHand

\* Nobody else has the page of a writer.
LEMMA WriterAlone ==
  ASSUME NEW p, NEW o, Sound(p, o), NEW h \in Hands, Mode(p, h) = "X"
  PROVE  Alone(p, h)
<1>1. SUFFICES ASSUME NEW g \in Hands \ {h}, Mode(p, g) # "none" PROVE PageNo(p, g) # PageNo(p, h)
  BY DEF Alone
<1>2. ApartOK(p.handles)
  BY DEF Sound, Acc
<1>3. p.handles[g].r # p.handles[h].r
  BY <1>1, <1>2 DEF ApartOK, Mode
<1> QED
  BY <1>1, <1>3, HandFacts

\* The pages being written when one handle at most is different.
LEMMA BlockedBut ==
  ASSUME NEW p, NEW q, NEW h \in Hands, Others(p, q, h), Mode(p, h) # "none" => Alone(p, h)
  PROVE  \A i : /\ Mode(q, h) = "none" =>
                     (Blocked(q, i) <=> Blocked(p, i) /\ ~(Mode(p, h) # "none" /\ i = PageNo(p, h)))
                /\ Mode(q, h) = "X" /\ Mode(p, h) # "none" /\ PageNo(q, h) = PageNo(p, h) =>
                     (Blocked(q, i) <=> Blocked(p, i) \/ i = PageNo(p, h))
                /\ Mode(q, h) = "X" /\ Mode(p, h) = "none" =>
                     (Blocked(q, i) <=> Blocked(p, i) \/ i = PageNo(q, h))
                /\ Mode(q, h) = "S" /\ Mode(p, h) # "X" => (Blocked(q, i) <=> Blocked(p, i))
<1> TAKE i
<1> DEFINE rest == \E g \in Hands \ {h} : Mode(p, g) = "X" /\ PageNo(p, g) = i
<1>1. rest <=> \E g \in Hands \ {h} : Mode(q, g) = "X" /\ PageNo(q, g) = i
  BY DEF Others, SameHand
<1>2. Blocked(p, i) <=> rest \/ (Mode(p, h) = "X" /\ PageNo(p, h) = i)
  BY DEF Blocked
<1>3. Blocked(q, i) <=> rest \/ (Mode(q, h) = "X" /\ PageNo(q, h) = i)
  BY <1>1 DEF Blocked
<1>4. Mode(p, h) # "none" /\ i = PageNo(p, h) => ~rest
  BY DEF Alone
<1> HIDE DEF rest
<1> QED
  BY <1>2, <1>3, <1>4

\* Clients stay as they are when the handle that is different fits.
LEMMA ClientsKept ==
  ASSUME NEW p, NEW q, Clients(p), NEW h \in Handles, Others(p, q, h), View(q, 0).kind = "root",
         Mode(q, h) # "none" => PageNo(q, h) # 0,
         Mode(q, h) = "S" => View(q, PageNo(q, h)).kind = "data",
         Mode(q, h) = "X" => Copy(q, h).kind = "data",
         \A g \in Hands \ {h} : Mode(p, g) = "S" => View(q, PageNo(p, g)) = View(p, PageNo(p, g))
  PROVE  Clients(q)
<1>1. Mode(q, RootHandle) = "none"
  BY RootAndHands DEF Others, SameHand, Clients
<1>2. \A g \in Hands \ {h} : /\ Mode(q, g) # "none" => PageNo(q, g) # 0
                             /\ Mode(q, g) = "S" => View(q, PageNo(q, g)).kind = "data"
                             /\ Mode(q, g) = "X" => Copy(q, g).kind = "data"
  BY DEF Others, SameHand, Clients
<1> QED
  BY <1>1, <1>2 DEF Clients

\* Where nothing is served differently, no client is.
LEMMA ClientsSame ==
  ASSUME NEW p, Sound(p, {}), Clients(p), NEW q, Kept(p, q), SameHands(p, q)
  PROVE  Clients(q)
<1>1. 0 \in DOMAIN p.store /\ \A g \in Hands : Mode(p, g) # "none" => PageNo(p, g) \in DOMAIN p.store
  BY ViewType, HandFacts
<1>2. RootHandle \in Hands
  BY RootAndHands
<1> QED
  BY <1>1, <1>2 DEF Clients, Kept, SameView, SameHands, SameHand

\* Only the outcome is different: the same is done.
LEMMA CallDoneOn ==
  ASSUME NEW p, NEW q, CallDone(p, q), BufBecomes(q)
  PROVE  Sound(Buf', {}) /\ Clients(Buf') /\ Calls(p, Buf') /\ MayCome(p, outcome') /\ outcome' \in Outcomes
<1>1. Sound(q, {}) /\ Clients(q) /\ Calls(p, q) /\ MayCome(p, q.outcome)
  BY DEF CallDone
<1>2. /\ Sound(Buf', {}) /\ Kept(q, Buf') /\ SameHands(q, Buf') /\ outcome' = q.outcome
      /\ outcome' \in Outcomes
  BY <1>1, BufIs
<1>3. /\ Buf'.frames = q.frames /\ Buf'.table = q.table /\ Buf'.store = q.store
      /\ Buf'.records = q.records
  BY DEF Buf, BufBecomes
<1> DEFINE r == Buf'
<1>4. Clients(r)
  BY <1>1, <1>2, ClientsSame
<1>5. \A i : View(r, i) = View(q, i)
  BY <1>3 DEF View
<1>6. \A i : Blocked(r, i) <=> Blocked(q, i)
  BY <1>2, BlockedSame
<1> HIDE DEF r
<1>7. r.store = q.store /\ r.records = q.records
  BY <1>3 DEF r
<1>8. \A t, pg, page : Logged(t, q, pg, page) => Logged(t, r, pg, page)
  BY <1>5, <1>7 DEF Logged
<1>9. Quiet(p, q) => Quiet(p, r)
  BY <1>5, <1>6, <1>7 DEF Quiet, Kept, SameView
<1>10. Saves(p, q) => Saves(p, r)
  BY <1>6, <1>8 DEF Saves
<1>11. Takes(p, q) => Takes(p, r)
  BY <1>6, <1>8 DEF Takes
<1>12. Grows(p, q) => Grows(p, r)
  BY <1>5, <1>6, <1>7 DEF Grows
<1>13. Deletes(p, q) => Deletes(p, r)
  BY <1>6, <1>8 DEF Deletes
<1>14. Calls(p, r)
  BY <1>1, <1>9, <1>10, <1>11, <1>12, <1>13 DEF Calls
<1> QED
  BY <1>1, <1>2, <1>4, <1>14 DEF r

\* A page of the right kind that nobody writes is refused for want of a frame only.
LEMMA RefusedFull ==
  ASSUME NEW p, NEW kinds, NEW pg \in DOMAIN p.store, View(p, pg).kind \in kinds, ~Blocked(p, pg),
         NEW why, Refused(p, why, kinds, pg)
  PROVE  why = "full"
BY Zenon DEF Refused

\* pgr_get of a page in use gives it, or finds no frame.
LEMMA GetCall ==
  ASSUME NEW p, Ready(p), NEW h \in Handles, Mode(p, h) = "none", NEW pg \in DOMAIN p.store,
         View(p, pg).kind = "data", ~Blocked(p, pg)
  PROVE  CallDone(p, pgr_get(p, h, {"data"}, pg)) /\ SameFile(p, pgr_get(p, h, {"data"}, pg))
<1> DEFINE q == pgr_get(p, h, {"data"}, pg)
<1>1. Sound(p, {}) /\ p.outcome = "ok" /\ h \in Hands /\ "zero" \notin {"data"} /\ pg \in Nat
      /\ 0 \in DOMAIN p.store /\ Clients(p) /\ View(p, 0).kind = "root" /\ pg # 0
  BY RootAndHands, ViewType DEF Ready, Clients
<1>2. Gets(p, q, {}, h, {"data"}, pg)
  BY <1>1, GetDoes
<1> HIDE DEF q
<1>3. Sound(q, {}) /\ Kept(p, q) /\ Others(p, q, h)
      /\ \/ q.outcome = "ok" /\ Mode(q, h) = "S" /\ PageNo(q, h) = pg
         \/ q.outcome = "full" /\ Mode(q, h) = "none"
  <2>1. View(p, pg).kind \in {"data"}
    BY <1>1
  <2>2. \A why : Refused(p, why, {"data"}, pg) => why = "full"
    BY <2>1, RefusedFull
  <2> QED
    BY <1>1, <1>2, <2>2 DEF Gets, Given, NotGiven
<1>4. \A i : Blocked(q, i) <=> Blocked(p, i)
  BY <1>1, <1>3, BlockedBut
<1>5. \A i \in DOMAIN p.store : View(q, i) = View(p, i)
  BY <1>3 DEF Kept, SameView
<1>6. \A g \in Hands : Mode(p, g) = "S" => View(q, PageNo(p, g)) = View(p, PageNo(p, g))
  BY <1>1, <1>5, HandFacts
<1>7. Clients(q)
  BY <1>1, <1>3, <1>5, <1>6, ClientsKept
<1>8. CallDone(p, q) /\ SameFile(p, q)
  BY <1>3, <1>4, <1>7 DEF CallDone, Calls, Quiet, MayCome, SameFile, Kept, SameView
<1> QED
  BY <1>8 DEF q

LEMMA WritableCall ==
  ASSUME NEW p, Ready(p), NEW h \in Handles, Mode(p, h) = "S", Alone(p, h)
  PROVE  CallDone(p, pgr_make_writable(p, h)) /\ SameFile(p, pgr_make_writable(p, h))
<1> DEFINE q  == pgr_make_writable(p, h)
           pg == PageNo(p, h)
<1>1. Sound(p, {}) /\ p.outcome = "ok" /\ h \in Hands /\ 0 \in DOMAIN p.store /\ Clients(p)
      /\ View(p, 0).kind = "root" /\ pg # 0 /\ View(p, pg).kind = "data" /\ pg \in DOMAIN p.store
  BY RootAndHands, ViewType, HandFacts DEF Ready, Clients
<1>2. MadeWritable(p, q, {}, h)
  BY <1>1, MakeWritableDoes
<1> HIDE DEF q
<1>3. Sound(q, {}) /\ Kept(p, q) /\ Others(p, q, h) /\ q.outcome \in {"ok", "full"}
      /\ PageNo(q, h) = pg /\ (Mode(q, h) = "S" \/ (Mode(q, h) = "X" /\ Copy(q, h) = View(p, pg)))
  BY <1>1, <1>2 DEF MadeWritable, Writes, SameHand
<1>4. \A i : (Blocked(q, i) <=> Blocked(p, i)) \/ (Blocked(q, i) <=> Blocked(p, i) \/ i = pg)
  BY <1>1, <1>3, BlockedBut
<1>5. \A i \in DOMAIN p.store : View(q, i) = View(p, i)
  BY <1>3 DEF Kept, SameView
<1>6. \A g \in Hands : Mode(p, g) = "S" => View(q, PageNo(p, g)) = View(p, PageNo(p, g))
  BY <1>1, <1>5, HandFacts
<1> HIDE DEF pg
<1>7. Clients(q)
  BY <1>1, <1>3, <1>5, <1>6, ClientsKept
<1>8. CallDone(p, q) /\ SameFile(p, q)
  BY <1>1, <1>3, <1>4, <1>7 DEF CallDone, Calls, Quiet, MayCome, SameFile, Kept, SameView
<1> QED
  BY <1>8 DEF q

LEMMA WriteCall ==
  ASSUME NEW p, Ready(p), NEW h \in Handles, Mode(p, h) = "X", NEW page \in Page, page.kind = "data"
  PROVE  CallDone(p, SetCopy(p, h, page)) /\ SameFile(p, SetCopy(p, h, page))
<1> DEFINE q  == SetCopy(p, h, page)
           pg == PageNo(p, h)
<1>1. Sound(p, {}) /\ p.outcome = "ok" /\ h \in Hands /\ 0 \in DOMAIN p.store /\ Clients(p)
      /\ View(p, 0).kind = "root" /\ pg # 0 /\ page.kind # "zero"
  BY RootAndHands, ViewType DEF Ready, Clients
<1>2. CopySet(p, q, {}, h, page)
  BY <1>1, SetCopyDoes
<1> HIDE DEF q
<1>3. Sound(q, {}) /\ Kept(p, q) /\ Others(p, q, h) /\ q.outcome = "ok"
      /\ PageNo(q, h) = pg /\ Mode(q, h) = "X" /\ Copy(q, h) = page
  BY <1>1, <1>2 DEF CopySet
<1>4. \A i : Blocked(q, i) <=> Blocked(p, i)
  <2>1. Alone(p, h)
    BY <1>1, WriterAlone
  <2>2. \A i : Blocked(q, i) <=> Blocked(p, i) \/ i = pg
    BY <1>1, <1>3, <2>1, BlockedBut
  <2>3. Blocked(p, pg)
    BY <1>1 DEF Blocked
  <2> QED
    BY <2>2, <2>3
<1>5. \A i \in DOMAIN p.store : View(q, i) = View(p, i)
  BY <1>3 DEF Kept, SameView
<1>6. \A g \in Hands : Mode(p, g) = "S" => View(q, PageNo(p, g)) = View(p, PageNo(p, g))
  BY <1>1, <1>5, HandFacts
<1> HIDE DEF pg
<1>7. Clients(q)
  BY <1>1, <1>3, <1>5, <1>6, ClientsKept
<1>8. CallDone(p, q) /\ SameFile(p, q)
  BY <1>3, <1>4, <1>7 DEF CallDone, Calls, Quiet, MayCome, SameFile, Kept, SameView
<1> QED
  BY <1>8 DEF q

LEMMA ReleaseCall ==
  ASSUME NEW p, Ready(p), NEW h \in Handles, Mode(p, h) # "none"
  PROVE  CallDone(p, pgr_release(p, h)) /\ SameFile(p, pgr_release(p, h))
<1> DEFINE q  == pgr_release(p, h)
           pg == PageNo(p, h)
<1>1. Sound(p, {}) /\ p.outcome = "ok" /\ h \in Hands /\ 0 \in DOMAIN p.store /\ Clients(p)
      /\ View(p, 0).kind = "root" /\ pg # 0 /\ pg \in DOMAIN p.store /\ Mode(p, h) \in {"S", "X"}
  BY RootAndHands, ViewType, HandFacts DEF Ready, Clients
<1>2. Released(p, q, {}, h)
  BY <1>1, ReleaseDoes
<1> HIDE DEF q
<1>3. Sound(q, {}) /\ Others(p, q, h) /\ q.outcome = "ok" /\ Mode(q, h) = "none"
  BY <1>1, <1>2 DEF Released
<1>4. CASE Mode(p, h) = "S"
  <2>1. Kept(p, q)
    BY <1>2, <1>4 DEF Released
  <2>2. \A i \in DOMAIN p.store : View(q, i) = View(p, i)
    BY <2>1 DEF Kept, SameView
  <2>3. \A g \in Hands : Mode(p, g) = "S" => View(q, PageNo(p, g)) = View(p, PageNo(p, g))
    BY <1>1, <2>2, HandFacts
  <2>4. Clients(q)
    BY <1>1, <1>3, <2>2, <2>3, ClientsKept
  <2>5. \A i : Blocked(q, i) <=> Blocked(p, i)
    BY <1>3, <1>4 DEF Blocked, Others, SameHand
  <2>6. CallDone(p, q) /\ SameFile(p, q)
    BY <1>3, <2>1, <2>4, <2>5 DEF CallDone, Calls, Quiet, MayCome, SameFile, Kept, SameView
  <2> QED
    BY <2>6 DEF q
<1>5. CASE Mode(p, h) = "X"
  <2>1. Logged(p, q, pg, Copy(p, h)) /\ Blocked(p, pg) /\ Alone(p, h)
    BY <1>1, <1>2, <1>5, WriterAlone DEF Released, Blocked
  <2>2. Copy(p, h) \in Page /\ Copy(p, h).kind = "data"
    <3>1. p.frames[p.handles[h].w] \in FrameRec
      BY <1>1, <1>5, HandFacts
    <3> QED
      BY <1>1, <1>5, <3>1 DEF Copy, FrameRec, Clients
  <2>3. \A i \in DOMAIN p.store \ {pg} : View(q, i) = View(p, i)
    BY <2>1 DEF Logged
  <2>4. \A g \in Hands \ {h} : Mode(p, g) = "S" => View(q, PageNo(p, g)) = View(p, PageNo(p, g))
    BY <1>1, <2>1, <2>3, HandFacts DEF Alone
  <2>5. \A i : Blocked(q, i) <=> Blocked(p, i) /\ i # pg
    BY <1>1, <1>3, <1>5, <2>1, BlockedBut
  <2> HIDE DEF pg
  <2>6. Clients(q)
    BY <1>1, <1>3, <2>3, <2>4, ClientsKept
  <2>7. Saves(p, q)
    BY <1>1, <2>1, <2>2, <2>5 DEF Saves
  <2>8. CallDone(p, q) /\ SameFile(p, q)
    BY <1>3, <2>1, <2>6, <2>7 DEF CallDone, Calls, MayCome, SameFile, Logged
  <2> QED
    BY <2>8 DEF q
<1> QED
  BY <1>1, <1>4, <1>5

LEMMA NewCall ==
  ASSUME NEW p, Ready(p), NEW h \in Handles, Mode(p, h) = "none", NEW extends \in BOOLEAN
  PROVE  CallDone(p, pgr_new(p, h, extends))
<1> DEFINE q     == pgr_new(p, h, extends)
           first == View(p, 0).val
           np    == npages(p)
<1>1. /\ Sound(p, {}) /\ p.outcome = "ok" /\ h \in Hands /\ Clients(p) /\ 0 \in DOMAIN p.store
      /\ View(p, 0).kind = "root" /\ \A i \in DOMAIN p.store : i \in Nat
      /\ \A g \in Hands : Mode(p, g) # "none" => PageNo(p, g) \in DOMAIN p.store /\ PageNo(p, g) # 0
  BY RootAndHands, ViewType, HandFacts DEF Ready, Clients
<1>2. NewCame(p, q, h)
  BY NewDoes
<1> HIDE DEF q
<1>3. Sound(q, {}) /\ Others(p, q, h)
  BY <1>2 DEF NewCame
<1>4. CASE q.outcome # "ok" /\ Mode(q, h) = "none" /\ Kept(p, q) /\ NewRefused(p, q.outcome)
  <2>1. \A i \in DOMAIN p.store : View(q, i) = View(p, i)
    BY <1>4 DEF Kept, SameView
  <2>2. SameHands(p, q)
    BY <1>3, <1>4 DEF SameHands, Others, SameHand
  <2>3. Clients(q)
    BY <1>1, <1>4, <2>2, ClientsSame
  <2>4. \A i : Blocked(q, i) <=> Blocked(p, i)
    BY <2>2, BlockedSame
  <2>5. CallDone(p, q)
    BY <1>3, <1>4, <2>3, <2>4 DEF CallDone, Calls, Quiet, MayCome
  <2> QED
    BY <2>5 DEF q
<1>5. CASE q.outcome = "ok" /\ Mode(q, h) = "X" /\ Copy(q, h) = Data(0) /\ NewTakes(p, q, h)
  <2>1. /\ first \in DOMAIN p.store /\ View(p, first).kind = "tombstone" /\ ~Blocked(p, first)
        /\ PageNo(q, h) = first /\ Logged(p, q, 0, Root(View(p, first).val))
    BY <1>5 DEF NewTakes
  <2>2. View(q, 0).kind = "root" /\ \A i \in DOMAIN p.store \ {0} : View(q, i) = View(p, i)
    BY <2>1 DEF Logged, Root, Content
  <2>3. first # 0 /\ Copy(q, h).kind = "data"
    BY <1>1, <1>5, <2>1 DEF Data, Content
  <2>4. \A g \in Hands : Mode(p, g) = "S" => View(q, PageNo(p, g)) = View(p, PageNo(p, g))
    BY <1>1, <2>2
  <2>5. Clients(q)
    BY <1>1, <1>3, <1>5, <2>1, <2>2, <2>3, <2>4, ClientsKept
  <2>6. \A i : Blocked(q, i) <=> Blocked(p, i) \/ i = first
    BY <1>1, <1>3, <1>5, <2>1, BlockedBut
  <2>7. Takes(p, q)
    BY <2>1, <2>6 DEF Takes
  <2>8. CallDone(p, q)
    BY <1>3, <1>5, <2>5, <2>7 DEF CallDone, Calls, MayCome
  <2> QED
    BY <2>8 DEF q
<1>6. CASE q.outcome = "ok" /\ Mode(q, h) = "X" /\ Copy(q, h) = Data(0) /\ NewGrows(p, q, h)
  <2>1. /\ first \notin DOMAIN p.store /\ PageNo(q, h) = np /\ DOMAIN q.store = DOMAIN p.store \cup {np}
        /\ q.records = Append(p.records, [pg |-> 0, undo |-> View(p, 0), redo |-> Root(np + 1)])
        /\ View(q, np) = Tombstone(np + 1) /\ View(q, 0) = Root(np + 1)
        /\ \A i \in DOMAIN p.store \ {0} : View(q, i) = View(p, i)
    BY <1>6 DEF NewGrows
  <2>2. np # 0 /\ Copy(q, h).kind = "data" /\ View(q, 0).kind = "root"
    <3>1. np \in Nat \ {0}
      BY <1>1, StoreFacts DEF Sound
    <3> QED
      BY <1>6, <2>1, <3>1 DEF Root, Data, Content
  <2>3. \A g \in Hands : Mode(p, g) = "S" => View(q, PageNo(p, g)) = View(p, PageNo(p, g))
    BY <1>1, <2>1
  <2>4. Clients(q)
    BY <1>1, <1>3, <1>6, <2>1, <2>2, <2>3, ClientsKept
  <2>5. \A i : Blocked(q, i) <=> Blocked(p, i) \/ i = np
    BY <1>1, <1>3, <1>6, <2>1, BlockedBut
  <2>6. Grows(p, q)
    BY <2>1, <2>5 DEF Grows
  <2>7. CallDone(p, q)
    BY <1>3, <1>6, <2>4, <2>6 DEF CallDone, Calls, MayCome
  <2> QED
    BY <2>7 DEF q
<1> QED
  BY <1>2, <1>4, <1>5, <1>6 DEF NewCame

LEMMA DeleteCall ==
  ASSUME NEW p, Ready(p), NEW h \in Handles, Mode(p, h) # "none", Alone(p, h)
  PROVE  CallDone(p, pgr_delete_and_release(p, h)) /\ SameFile(p, pgr_delete_and_release(p, h))
<1> DEFINE q  == pgr_delete_and_release(p, h)
           pg == PageNo(p, h)
<1>1. /\ Sound(p, {}) /\ h \in Hands /\ Clients(p) /\ pg \in DOMAIN p.store \ {0}
      /\ Mode(p, h) \in {"S", "X"}
      /\ Mode(p, h) = "S" => View(p, pg).kind = "data"
      /\ \A g \in Hands : Mode(p, g) # "none" => PageNo(p, g) \in DOMAIN p.store /\ PageNo(p, g) # 0
  BY RootAndHands, HandFacts DEF Ready, Clients
<1>2. DeleteDone(p, q, h)
  BY DeleteDoes
<1> HIDE DEF q
<1>3. ASSUME q.outcome = "full" /\ Kept(p, q) /\ SameHands(p, q)
      PROVE  CallDone(p, q) /\ SameFile(p, q)
  <2>1. Clients(q)
    BY <1>1, <1>3, ClientsSame
  <2>2. \A i : Blocked(q, i) <=> Blocked(p, i)
    BY <1>3, BlockedSame
  <2>3. CallDone(p, q) /\ SameFile(p, q)
    BY <1>2, <1>3, <2>1, <2>2 DEF DeleteDone, CallDone, Calls, Quiet, MayCome, SameFile, Kept, SameView
  <2> QED
    BY <2>3
<1>4. ASSUME q.outcome = "ok", Others(p, q, h), Mode(q, h) = "none",
             NEW t, Logged(p, t, pg, Tombstone(View(p, 0).val)), Logged(t, q, 0, Root(pg))
      PROVE  CallDone(p, q) /\ SameFile(p, q)
  <2>1. View(q, 0).kind = "root" /\ \A i \in DOMAIN p.store \ {0, pg} : View(q, i) = View(p, i)
    BY <1>4 DEF Logged, Root, Content
  <2>2. \A g \in Hands \ {h} : Mode(p, g) = "S" => View(q, PageNo(p, g)) = View(p, PageNo(p, g))
    BY <1>1, <2>1 DEF Alone
  <2>3. Clients(q)
    BY <1>1, <1>4, <2>1, <2>2, ClientsKept
  <2>4. \A i : Blocked(q, i) <=> Blocked(p, i) /\ i # pg
    BY <1>1, <1>4, BlockedBut
  <2>5. Blocked(p, pg) \/ View(p, pg).kind = "data"
    BY <1>1 DEF Blocked
  <2> HIDE DEF pg
  <2>6. Deletes(p, q)
    BY <1>1, <1>4, <2>4, <2>5 DEF Deletes
  <2> QED
    BY <1>2, <1>4, <2>3, <2>6 DEF DeleteDone, CallDone, Calls, MayCome, SameFile, Logged
<1>5. CallDone(p, q) /\ SameFile(p, q)
  BY <1>2, <1>3, <1>4 DEF DeleteDone
<1> QED
  BY <1>5 DEF q

-----------------------------------------------------------------------------
(* The invariant holds in the beginning, and whatever happens.             *)

\* A pool that was just opened on the pages of D.
Fresh(D) ==
  [frames |-> [i \in Frames |-> Empty], table |-> <<>>, clock |-> 0, store |-> D, records |-> <<>>,
   safe |-> 0, handles |-> [h \in Hands |-> NoHandle], outcome |-> "ok", leaks |-> 0]

Opened(q, D) == /\ q.store = D /\ q.records = <<>> /\ q.table = <<>>
                /\ \A h \in Hands : Mode(q, h) = "none"

LEMMA FreshPool ==
  ASSUME NEW D \in Stores
  PROVE  Sound(Fresh(D), {}) /\ Opened(Fresh(D), D)
<1> DEFINE p == Fresh(D)
<1>1. /\ p.frames = [i \in Frames |-> Empty] /\ p.table = <<>> /\ p.clock = 0 /\ p.store = D
      /\ p.records = <<>> /\ p.safe = 0 /\ p.handles = [h \in Hands |-> NoHandle]
      /\ p.outcome = "ok" /\ p.leaks = 0
  BY DEF Fresh
<1>2. Zero \in Page /\ Empty \in FrameRec /\ NoHandle \in HandleRec
  BY DEF Zero, Content, Page, Kinds, Empty, FrameRec, NoHandle, HandleRec
<1>3. 0 \in Frames
  BY BufAssumption DEF Frames
<1>4. p.frames \in [Frames -> FrameRec] /\ p.handles \in [Hands -> HandleRec]
  BY <1>1, <1>2
<1>5. DOMAIN p.table = {} /\ p.table \in Tables
  <2>1. DOMAIN p.table = {}
    BY <1>1
  <2>2. p.table \in [{} -> Frames]
    BY <1>1, <2>1
  <2> QED
    BY <2>1, <2>2 DEF Tables
<1>6. <<>> \in Seq(LogRec) /\ Len(<<>>) = 0 /\ "ok" \in Outcomes
  BY DEF Outcomes
<1>7. p \in State
  BY <1>1, <1>3, <1>4, <1>5, <1>6 DEF State, Fresh
<1>8. \A i \in Frames : p.frames[i] = Empty
  BY <1>1
<1>9. \A h \in Hands : p.handles[h] = NoHandle
  BY <1>1
<1> HIDE DEF p
<1>10. \A i \in Frames : ~p.frames[i].present /\ p.frames[i].wsibling = None
  BY <1>8 DEF Empty
<1>11. \A h \in Hands : p.handles[h].mode = "none"
  BY <1>9 DEF NoHandle
<1>12. HandlesOK(p.frames, p.table, p.handles)
  BY <1>9, <1>11 DEF HandlesOK, HandleOK
<1>13. Acc(p.frames, p.table, p.handles, {}, p.leaks)
  BY <1>1, <1>5, <1>10, <1>11, <1>12 DEF Acc, TableOK, ApartOK, FramesOK, PinsOK
<1>14. Sound(p, {})
  BY <1>1, <1>5, <1>6, <1>7, <1>10, <1>13 DEF Sound, ContentOK
<1>15. Opened(p, D)
  BY <1>1, <1>11 DEF Opened, Mode
<1> QED
  BY <1>14, <1>15 DEF p

\* Nobody holds a page of it, and its pages are those on disk.
LEMMA OpenedPool ==
  ASSUME NEW q, NEW D, Opened(q, D), D[0].kind = "root"
  PROVE  Clients(q) /\ (\A i : View(q, i) = D[i] /\ ~Blocked(q, i))
BY RootAndHands DEF Opened, Clients, View, Blocked

LEMMA BufStarts ==
  ASSUME BufInit
  PROVE  BufInv /\ Opened(Buf, [q \in {0} |-> Root(1)])
<1> DEFINE D == [q \in {0} |-> Root(1)]
<1>1. Root(1) \in Page
  BY DEF Root, Content, Page, Kinds
<1>2. D \in [0..0 -> Page] /\ D[0].kind = "root"
  BY <1>1 DEF Root, Content
<1>3. D \in Stores
  BY <1>2 DEF Stores
<1> HIDE DEF D
<1>4. /\ frames = [i \in Frames |-> Empty] /\ table = <<>> /\ clock = 0 /\ store = D
      /\ records = <<>> /\ safe = 0 /\ leaks = 0 /\ committed = D /\ outcome = "ok"
      /\ handles = [h \in Handles \cup {RootHandle} |-> NoHandle]
  BY DEF BufInit, D
<1>5. Sound(Buf, {}) /\ Opened(Buf, D)
  <2>1. Buf = Fresh(D)
    BY <1>4 DEF Buf, Fresh, Hands
  <2> QED
    BY <1>3, <2>1, FreshPool
<1>6. Clients(Buf)
  BY <1>2, <1>5, OpenedPool
<1>7. HistoryOK
  BY <1>2, <1>3, <1>4 DEF HistoryOK
<1>8. outcome \in Outcomes
  BY <1>4 DEF Outcomes
<1> QED
  BY <1>5, <1>6, <1>7, <1>8 DEF BufInv, D

\* A record more at the end of the log.
LEMMA AppendFacts ==
  ASSUME NEW S, NEW s \in Seq(S), NEW e \in S
  PROVE  /\ Append(s, e) \in Seq(S) /\ Len(Append(s, e)) = Len(s) + 1 /\ Len(s) \in Nat
         /\ DOMAIN Append(s, e) = DOMAIN s \cup {Len(s) + 1} /\ DOMAIN s = 1..Len(s)
         /\ Append(s, e)[Len(s) + 1] = e /\ \A k \in DOMAIN s : Append(s, e)[k] = s[k]
<1>1. /\ Append(s, e) \in Seq(S) /\ Len(Append(s, e)) = Len(s) + 1 /\ Len(s) \in Nat
      /\ Append(s, e)[Len(s) + 1] = e
  OBVIOUS
<1>2. DOMAIN s = 1..Len(s) /\ DOMAIN Append(s, e) = 1..(Len(s) + 1)
  BY <1>1
<1>3. \A k \in 1..Len(s) : Append(s, e)[k] = s[k]
  OBVIOUS
<1>4. 1..(Len(s) + 1) = 1..Len(s) \cup {Len(s) + 1}
  BY <1>1
<1> QED
  BY <1>1, <1>2, <1>3, <1>4

\* HistoryOK of any pager and any pages of the last commit.
History(p, c) ==
  /\ c \in Stores /\ DOMAIN c \subseteq DOMAIN p.store /\ c[0].kind = "root"
  /\ \A k \in DOMAIN p.records :
       /\ p.records[k].pg \in DOMAIN p.store
       /\ p.records[k].pg = 0 => p.records[k].undo.kind = "root" /\ p.records[k].redo.kind = "root"

LEMMA RecordAdded ==
  ASSUME NEW p, Sound(p, {}), NEW c, History(p, c), NEW q, NEW r \in LogRec,
         q.records = Append(p.records, r), DOMAIN p.store \subseteq DOMAIN q.store,
         r.pg \in DOMAIN q.store, r.pg = 0 => r.undo.kind = "root" /\ r.redo.kind = "root"
  PROVE  History(q, c)
<1>1. p.records \in Seq(LogRec)
  BY DEF Sound, State
<1>2. /\ DOMAIN q.records = DOMAIN p.records \cup {Len(p.records) + 1}
      /\ q.records[Len(p.records) + 1] = r /\ \A k \in DOMAIN p.records : q.records[k] = p.records[k]
  BY <1>1, AppendFacts
<1> QED
  BY <1>2 DEF History

LEMMA LoggedHistory ==
  ASSUME NEW p, Sound(p, {}), NEW c, History(p, c), View(p, 0).kind = "root", NEW q,
         NEW pg \in DOMAIN p.store, NEW page \in Page, Logged(p, q, pg, page),
         pg = 0 => page.kind = "root"
  PROVE  History(q, c)
<1> DEFINE r == [pg |-> pg, undo |-> View(p, pg), redo |-> page]
<1>1. r \in LogRec
  BY ViewType DEF LogRec
<1>2. r.pg = pg /\ r.undo = View(p, pg) /\ r.redo = page
  OBVIOUS
<1>3. q.records = Append(p.records, r) /\ DOMAIN q.store = DOMAIN p.store
  BY DEF Logged
<1> HIDE DEF r
<1> QED
  BY <1>1, <1>2, <1>3, RecordAdded

LEMMA CallsHistory ==
  ASSUME NEW p, Ready(p), NEW q, Sound(q, {}), Calls(p, q), NEW c, History(p, c)
  PROVE  History(q, c)
<1>1. /\ Sound(p, {}) /\ 0 \in DOMAIN p.store /\ View(p, 0).kind = "root"
      /\ \A i \in DOMAIN p.store : View(p, i) \in Page /\ i \in Nat
  BY ViewType DEF Ready, Clients
<1>2. \A n \in Nat : Root(n) \in Page /\ Tombstone(n) \in Page /\ Root(n).kind = "root"
  BY DEF Root, Tombstone, Content, Page, Kinds
<1>3. \A page \in Page : page.kind # "data" => page.val \in Nat
  BY DEF Page
<1>4. CASE Quiet(p, q)
  BY <1>4 DEF Quiet, Kept, SameView, History
<1>5. CASE Saves(p, q)
  <2>1. PICK pg \in DOMAIN p.store \ {0}, page \in Page : Logged(p, q, pg, page)
    BY <1>5 DEF Saves
  <2> QED
    BY <1>1, <2>1, LoggedHistory
<1>6. CASE Takes(p, q)
  <2> DEFINE page == Root(View(p, View(p, 0).val).val)
  <2>1. View(p, View(p, 0).val) \in Page /\ View(p, View(p, 0).val).kind = "tombstone"
        /\ Logged(p, q, 0, page)
    BY <1>1, <1>6 DEF Takes
  <2>2. page \in Page /\ page.kind = "root"
    BY <1>2, <1>3, <2>1
  <2> HIDE DEF page
  <2> QED
    BY <1>1, <2>1, <2>2, LoggedHistory
<1>7. CASE Grows(p, q)
  <2> DEFINE np == npages(p)
             r  == [pg |-> 0, undo |-> View(p, 0), redo |-> Root(np + 1)]
  <2>1. np \in Nat
    BY <1>1, StoreFacts DEF Sound
  <2>2. Root(np + 1) \in Page /\ Root(np + 1).kind = "root"
    BY <1>2, <2>1
  <2>3. r \in LogRec /\ r.pg = 0 /\ r.undo = View(p, 0) /\ r.redo = Root(np + 1)
    BY <1>1, <2>2 DEF LogRec
  <2>4. q.records = Append(p.records, r) /\ DOMAIN q.store = DOMAIN p.store \cup {np}
    BY <1>7 DEF Grows
  <2> HIDE DEF r, np
  <2> QED
    BY <1>1, <2>2, <2>3, <2>4, RecordAdded
<1>8. CASE Deletes(p, q)
  <2>p. PICK pg \in DOMAIN p.store \ {0} :
          \E t : Logged(p, t, pg, Tombstone(View(p, 0).val)) /\ Logged(t, q, 0, Root(pg))
    BY <1>8 DEF Deletes
  <2>1. PICK t : Logged(p, t, pg, Tombstone(View(p, 0).val)) /\ Logged(t, q, 0, Root(pg))
    BY <2>p
  <2> DEFINE page == Tombstone(View(p, 0).val)
             root == Root(pg)
             r    == [pg |-> pg, undo |-> View(p, pg), redo |-> page]
             s    == [pg |-> 0, undo |-> View(t, 0), redo |-> root]
  <2>2. page \in Page /\ root \in Page /\ root.kind = "root"
    BY <1>1, <1>2, <1>3, <2>1
  <2>3. View(t, 0) = View(p, 0)
    BY <1>1, <2>1 DEF Logged
  <2>4. /\ r \in LogRec /\ r.pg = pg
        /\ s \in LogRec /\ s.pg = 0 /\ s.undo = View(p, 0) /\ s.redo = root
    BY <1>1, <2>2, <2>3 DEF LogRec
  <2>5. /\ t.records = Append(p.records, r) /\ q.records = Append(t.records, s)
        /\ DOMAIN t.store = DOMAIN p.store /\ DOMAIN q.store = DOMAIN p.store
    BY <2>1 DEF Logged
  <2>6. p.records \in Seq(LogRec)
    BY <1>1 DEF Sound, State
  <2> HIDE DEF page, root, r, s
  <2>7. t.records \in Seq(LogRec)
    BY <2>4, <2>5, <2>6, AppendFacts
  <2>8. /\ DOMAIN t.records = DOMAIN p.records \cup {Len(p.records) + 1}
        /\ t.records[Len(p.records) + 1] = r /\ \A k \in DOMAIN p.records : t.records[k] = p.records[k]
    BY <2>4, <2>5, <2>6, AppendFacts
  <2>9. /\ DOMAIN q.records = DOMAIN t.records \cup {Len(t.records) + 1}
        /\ q.records[Len(t.records) + 1] = s /\ \A k \in DOMAIN t.records : q.records[k] = t.records[k]
    BY <2>4, <2>5, <2>7, AppendFacts
  <2>10. \A k \in DOMAIN t.records :
           /\ t.records[k].pg \in DOMAIN p.store
           /\ t.records[k].pg = 0 => t.records[k].undo.kind = "root" /\ t.records[k].redo.kind = "root"
    BY <2>1, <2>4, <2>8 DEF History
  <2> QED
    BY <1>1, <2>2, <2>4, <2>5, <2>9, <2>10 DEF History
<1> QED
  BY <1>4, <1>5, <1>6, <1>7, <1>8 DEF Calls

LEMMA HistoryIs == HistoryOK <=> History(Buf, committed)
BY BufFields DEF HistoryOK, History

\* Whatever a call does leaves the invariant.
LEMMA CallKeepsInv ==
  ASSUME BufInv, NEW q, CallDone(Buf, q), BufBecomes(q), committed' = committed
  PROVE  BufInv' /\ Calls(Buf, Buf') /\ MayCome(Buf, outcome')
<1>1. Sound(Buf', {}) /\ Clients(Buf') /\ Calls(Buf, Buf') /\ MayCome(Buf, outcome') /\ outcome' \in Outcomes
  BY CallDoneOn
<1>2. Ready(Buf) /\ History(Buf, committed)
  BY BufReady, HistoryIs DEF BufInv
<1> DEFINE p == Buf
           r == Buf'
<1>3. History(r, committed)
  <2> HIDE DEF p, r
  <2> QED
    BY <1>1, <1>2, CallsHistory DEF p, r
<1>4. History(Buf, committed)'
  BY <1>3 DEF History
<1>5. HistoryOK'
  BY <1>4, HistoryIs, PTL
<1> QED
  BY <1>1, <1>5 DEF BufInv

LEMMA HasGreatest ==
  ASSUME NEW n \in Nat, NEW S \in SUBSET (1..n), S # {}
  PROVE  \E m \in S : \A x \in S : x <= m
<1> DEFINE T == {t \in Nat : \E x \in S : t = n - x}
<1>1. T \in SUBSET Nat /\ T # {}
  <2>1. PICK x \in S : TRUE
    OBVIOUS
  <2>2. n - x \in T
    BY <2>1
  <2> QED
    BY <2>2
<1> HIDE DEF T
<1>2. PICK t \in T : \A u \in T : t <= u
  BY <1>1, HasLeast
<1>3. PICK m \in S : t = n - m
  BY <1>2 DEF T
<1>4. \A x \in S : n - m <= n - x
  BY <1>2, <1>3 DEF T
<1> QED
  BY <1>3, <1>4

\* What a restart makes of a page: what the last commit left when the log has no
\* update of it, what the first one found, or what the last one wrote.
LEMMA RecoveredIs ==
  ASSUME Len(records) \in Nat, NEW n \in 0..Len(records), NEW pg
  PROVE  /\ KeptOf(n, pg) \subseteq 1..n
         /\ KeptOf(n, pg) = {} => \A undo \in BOOLEAN : Recovered(n, undo, pg) = Before(pg)
         /\ KeptOf(n, pg) # {} =>
              /\ \E k \in KeptOf(n, pg) : /\ \A j \in KeptOf(n, pg) : k <= j
                                          /\ Recovered(n, TRUE, pg) = records[k].undo
              /\ \E k \in KeptOf(n, pg) : /\ \A j \in KeptOf(n, pg) : j <= k
                                          /\ Recovered(n, FALSE, pg) = records[k].redo
<1> DEFINE K == KeptOf(n, pg)
<1>1. K \subseteq 1..n /\ n \in Nat
  BY DEF KeptOf
<1>2. K = {} => \A undo \in BOOLEAN : Recovered(n, undo, pg) = Before(pg)
  BY DEF Recovered
<1>3. ASSUME K # {}
      PROVE  \E k \in K : /\ \A j \in K : k <= j
                          /\ Recovered(n, TRUE, pg) = records[k].undo
  <2>1. K \in SUBSET Nat
    BY <1>1
  <2>2. \E k \in K : \A j \in K : k <= j
    BY <1>3, <2>1, HasLeast
  <2> DEFINE k == CHOOSE k \in K : \A j \in K : k <= j
  <2>3. k \in K /\ \A j \in K : k <= j
    BY <2>2
  <2>4. Recovered(n, TRUE, pg) = records[k].undo
    BY <1>3 DEF Recovered
  <2> QED
    BY <2>3, <2>4
<1>4. ASSUME K # {}
      PROVE  \E k \in K : /\ \A j \in K : j <= k
                          /\ Recovered(n, FALSE, pg) = records[k].redo
  <2>1. \E k \in K : \A j \in K : j <= k
    BY <1>1, <1>4, HasGreatest
  <2> DEFINE k == CHOOSE k \in K : \A j \in K : j <= k
  <2>2. k \in K /\ \A j \in K : j <= k
    BY <2>1
  <2>3. Recovered(n, FALSE, pg) = records[k].redo
    BY <1>4 DEF Recovered
  <2> QED
    BY <2>2, <2>3
<1> QED
  BY <1>1, <1>2, <1>3, <1>4

LEMMA BufTypes ==
  ASSUME BufInv
  PROVE  /\ records \in Seq(LogRec) /\ Len(records) \in Nat /\ DOMAIN records = 1..Len(records)
         /\ \A k \in DOMAIN records : records[k] \in LogRec
         /\ safe \in 0..Len(records) /\ 0 \in DOMAIN store /\ 0 \in DOMAIN committed
         /\ \A pg \in DOMAIN committed : committed[pg] \in Page
         /\ \A pg \in DOMAIN store : pg \in Nat /\ View(Buf, pg) \in Page
<1>1. /\ records \in Seq(LogRec) /\ safe \in Nat /\ safe <= Len(records)
  BY BufFields DEF BufInv, Sound, State
<1>2. Len(records) \in Nat /\ DOMAIN records = 1..Len(records)
  BY <1>1
<1>3. 0 \in DOMAIN store /\ \A pg \in DOMAIN store : pg \in Nat /\ View(Buf, pg) \in Page
  BY ViewType, BufFields DEF BufInv
<1>4. PICK n \in Nat : committed \in [0..n -> Page]
  BY StoreType DEF BufInv, HistoryOK
<1>5. \A k \in 1..Len(records) : records[k] \in LogRec
  BY <1>1
<1> QED
  BY <1>1, <1>2, <1>3, <1>4, <1>5

\* What a restart leaves is a file.
LEMMA RecoveredStore ==
  ASSUME BufInv, NEW n \in 0..Len(records), NEW undo \in BOOLEAN
  PROVE  /\ [pg \in DOMAIN store |-> Recovered(n, undo, pg)] \in Stores
         /\ Recovered(n, undo, 0).kind = "root"
<1>1. \A pg \in DOMAIN store : Recovered(n, undo, pg) \in Page /\ (pg = 0 => Recovered(n, undo, pg).kind = "root")
  <2>1. SUFFICES ASSUME NEW pg \in DOMAIN store
                 PROVE  Recovered(n, undo, pg) \in Page /\ (pg = 0 => Recovered(n, undo, pg).kind = "root")
    OBVIOUS
  <2>2. CASE KeptOf(n, pg) = {}
    <3>1. Recovered(n, undo, pg) = Before(pg)
      BY <2>2, BufTypes, RecoveredIs
    <3>2. Before(pg) \in Page
      BY BufTypes DEF Before, Zero, Content, Page, Kinds
    <3>3. pg = 0 => Before(pg).kind = "root"
      BY BufTypes DEF Before, BufInv, HistoryOK
    <3> QED
      BY <3>1, <3>2, <3>3
  <2>3. CASE KeptOf(n, pg) # {}
    <3>1. PICK k \in KeptOf(n, pg) :
            Recovered(n, undo, pg) = records[k].undo \/ Recovered(n, undo, pg) = records[k].redo
      <4>1. CASE undo = TRUE
        BY <2>3, <4>1, BufTypes, RecoveredIs
      <4>2. CASE undo = FALSE
        BY <2>3, <4>2, BufTypes, RecoveredIs
      <4> QED
        BY <4>1, <4>2
    <3>2. k \in DOMAIN records /\ records[k].pg = pg /\ records[k] \in LogRec
      BY BufTypes DEF KeptOf
    <3>3. records[k].undo \in Page /\ records[k].redo \in Page
      BY <3>2 DEF LogRec
    <3> QED
      BY <3>1, <3>2, <3>3 DEF BufInv, HistoryOK
  <2> QED
    BY <2>2, <2>3
<1>2. PICK m \in Nat : store \in [0..m -> Page]
  BY StoreType, BufFields DEF BufInv, Sound, State
<1>3. [pg \in DOMAIN store |-> Recovered(n, undo, pg)] \in [0..m -> Page]
  BY <1>1, <1>2
<1> QED
  BY <1>1, <1>3, BufTypes DEF Stores

LEMMA CrashKeepsInv ==
  ASSUME BufInv, NEW n \in Nat, NEW undo \in BOOLEAN, BufCrash(n, undo)
  PROVE  BufInv' /\ Opened(Buf', committed')
<1>1. n \in 0..Len(records)
  BY BufTypes DEF BufCrash
<1>2. committed' \in Stores /\ committed'[0].kind = "root"
  BY <1>1, RecoveredStore, BufTypes DEF BufCrash
<1>4. Sound(Buf', {}) /\ Opened(Buf', committed')
  <2>1. Buf' = Fresh(committed')
    BY DEF BufCrash, Buf, Fresh, Hands
  <2> QED
    BY <1>2, <2>1, FreshPool
<1>5. Clients(Buf')
  <2> DEFINE r == Buf'
             D == committed'
  <2>1. Opened(r, D) /\ D[0].kind = "root"
    BY <1>2, <1>4
  <2> HIDE DEF r, D
  <2>2. Clients(r)
    BY <2>1, OpenedPool
  <2> QED
    BY <2>2 DEF r
<1>6. HistoryOK'
  BY <1>2 DEF BufCrash, HistoryOK
<1>7. outcome' \in Outcomes
  BY DEF BufCrash, Outcomes
<1> QED
  BY <1>4, <1>5, <1>6, <1>7 DEF BufInv

\* What the client knows of its handles.
LEMMA HandlesSeen ==
  ASSUME BufInv
  PROVE  /\ \A pg : Served(pg) = View(Buf, pg) /\ (HeldX(pg) <=> Blocked(Buf, pg))
         /\ \A h \in Handles : Held(h) <=> Mode(Buf, h) # "none"
         /\ \A h \in Handles : Held(h) /\ ~HeldTwice(h) => Alone(Buf, h)
<1>1. Mode(Buf, RootHandle) = "none"
  BY DEF BufInv, Clients
<1>2. \A pg : Served(pg) = View(Buf, pg)
  BY BufFields DEF Served, View
<1>3. \A pg : HeldX(pg) <=> Blocked(Buf, pg)
  BY <1>1, BufFields DEF HeldX, Blocked, Hands, Mode, PageNo, Readable
<1>4. \A h \in Handles : Held(h) <=> Mode(Buf, h) # "none"
  BY BufFields DEF Held, Mode
<1>5. ASSUME NEW h \in Handles, Held(h), ~HeldTwice(h)
      PROVE  Alone(Buf, h)
  <2>1. SUFFICES ASSUME NEW g \in Hands \ {h}, Mode(Buf, g) # "none" PROVE PageNo(Buf, g) # PageNo(Buf, h)
    BY DEF Alone
  <2>2. g \in Handles \ {h} /\ Held(g)
    BY <1>1, <1>4, <2>1 DEF Hands
  <2>3. Buf.handles[g].r # Buf.handles[h].r
    BY <1>5, <2>2, BufFields DEF HeldTwice
  <2>4. h \in Hands /\ Mode(Buf, h) # "none"
    BY <1>4, <1>5, RootAndHands
  <2> QED
    BY <2>1, <2>3, <2>4, HandFacts DEF BufInv
<1> QED
  BY <1>2, <1>3, <1>4, <1>5

\* A call of a client; only pgr_new makes the file longer.
CallStep == /\ Calls(Buf, Buf') /\ MayCome(Buf, outcome') /\ committed' = committed
            /\ DOMAIN store' = DOMAIN store \/ Cardinality(DOMAIN store) < MaxPages

CallGives(q) ==
  /\ CallDone(Buf, q) /\ BufBecomes(q) /\ committed' = committed
  /\ SameFile(Buf, q) \/ Cardinality(DOMAIN store) < MaxPages

LEMMA ClientKeepsInv ==
  ASSUME BufInv, NEW h \in Handles,
         \/ \E pg \in 1..(MaxPages - 1) : Get(h, pg)
         \/ MakeWritable(h) \/ WritePage(h) \/ Release(h) \/ DeletePage(h)
         \/ \E extends \in BOOLEAN : NewPage(h, extends)
  PROVE  BufInv' /\ CallStep
<1>1. SUFFICES \E q : CallGives(q)
  <2>1. ASSUME NEW q, CallGives(q)
        PROVE  BufInv' /\ CallStep
    <3>1. DOMAIN store' = DOMAIN store \/ Cardinality(DOMAIN store) < MaxPages
      BY <2>1, BufFields DEF CallGives, SameFile, BufBecomes
    <3> QED
      BY <2>1, <3>1, CallKeepsInv DEF CallStep, CallGives
  <2> QED
    BY <2>1
<1>2. Ready(Buf) /\ Sound(Buf, {}) /\ h \in Hands
  BY BufReady, RootAndHands DEF BufInv
<1>3. ASSUME NEW pg \in 1..(MaxPages - 1), Get(h, pg)
      PROVE  \E q : CallGives(q)
  <2>1. /\ Mode(Buf, h) = "none" /\ pg \in DOMAIN Buf.store /\ View(Buf, pg).kind = "data"
        /\ ~Blocked(Buf, pg)
    BY <1>3, HandlesSeen, BufFields DEF Get
  <2>2. CallDone(Buf, pgr_get(Buf, h, {"data"}, pg)) /\ SameFile(Buf, pgr_get(Buf, h, {"data"}, pg))
    BY <1>2, <2>1, GetCall
  <2> QED
    BY <1>3, <2>2 DEF Get, Keep, CallGives
<1>4. ASSUME MakeWritable(h)
      PROVE  \E q : CallGives(q)
  <2>1. Mode(Buf, h) = "S" /\ Alone(Buf, h)
    BY <1>4, HandlesSeen, BufFields DEF MakeWritable, Held, Mode
  <2>2. CallDone(Buf, pgr_make_writable(Buf, h)) /\ SameFile(Buf, pgr_make_writable(Buf, h))
    BY <1>2, <2>1, WritableCall
  <2> QED
    BY <1>4, <2>2 DEF MakeWritable, Keep, CallGives
<1>5. ASSUME WritePage(h)
      PROVE  \E q : CallGives(q)
  <2> DEFINE page == Data(1 - Copy(Buf, h).val)
  <2>1. Mode(Buf, h) = "X"
    BY <1>5, BufFields DEF WritePage, Mode
  <2>2. Copy(Buf, h) \in Page /\ Copy(Buf, h).kind = "data"
    <3>1. Buf.frames[Buf.handles[h].w] \in FrameRec
      BY <1>2, <2>1, HandFacts
    <3> QED
      BY <1>2, <2>1, <3>1 DEF Copy, FrameRec, Ready, Clients
  <2>3. Copy(Buf, h).val \in {0, 1}
    BY <2>2 DEF Page
  <2>4. page \in Page /\ page.kind = "data"
    BY <2>3 DEF Data, Content, Page
  <2> HIDE DEF page
  <2>5. CallDone(Buf, SetCopy(Buf, h, page)) /\ SameFile(Buf, SetCopy(Buf, h, page))
    BY <1>2, <2>1, <2>4, WriteCall
  <2> QED
    BY <1>5, <2>5 DEF WritePage, Keep, CallGives, page
<1>6. ASSUME Release(h)
      PROVE  \E q : CallGives(q)
  <2>1. Mode(Buf, h) # "none"
    BY <1>6, HandlesSeen DEF Release
  <2>2. CallDone(Buf, pgr_release(Buf, h)) /\ SameFile(Buf, pgr_release(Buf, h))
    BY <1>2, <2>1, ReleaseCall
  <2> QED
    BY <1>6, <2>2 DEF Release, Keep, CallGives
<1>7. ASSUME DeletePage(h)
      PROVE  \E q : CallGives(q)
  <2>1. Mode(Buf, h) # "none" /\ Alone(Buf, h)
    BY <1>7, HandlesSeen DEF DeletePage
  <2>2. CallDone(Buf, pgr_delete_and_release(Buf, h)) /\ SameFile(Buf, pgr_delete_and_release(Buf, h))
    BY <1>2, <2>1, DeleteCall
  <2> QED
    BY <1>7, <2>2 DEF DeletePage, Keep, CallGives
<1>8. ASSUME NEW extends \in BOOLEAN, NewPage(h, extends)
      PROVE  \E q : CallGives(q)
  <2>1. Mode(Buf, h) = "none"
    BY <1>8, HandlesSeen DEF NewPage
  <2>2. CallDone(Buf, pgr_new(Buf, h, extends))
    BY <1>2, <2>1, NewCall
  <2> QED
    BY <1>8, <2>2 DEF NewPage, CallGives
<1> QED
  BY <1>3, <1>4, <1>5, <1>6, <1>7, <1>8

\* pgr_commit of clients that hold nothing: the log begins anew with what they see.
LEMMA CommitKeepsInv ==
  ASSUME BufInv, Commit
  PROVE  /\ BufInv' /\ \A i : View(Buf', i) = View(Buf, i) /\ ~Blocked(Buf, i) /\ ~Blocked(Buf', i)
         /\ committed' = [pg \in DOMAIN store |-> View(Buf, pg)]
<1> DEFINE p == Buf
           q == Buf'
<1>1. /\ q.frames = p.frames /\ q.table = p.table /\ q.clock = p.clock /\ q.store = p.store
      /\ q.records = <<>> /\ q.safe = 0 /\ q.handles = p.handles /\ q.outcome = "ok"
      /\ q.leaks = p.leaks
  BY DEF Commit, Buf
<1>2. \A h \in Hands : Mode(p, h) = "none"
  BY HandlesSeen DEF Commit, BufInv, Clients, Hands
<1>3. Sound(p, {}) /\ View(p, 0).kind = "root" /\ 0 \in DOMAIN p.store
  BY ViewType DEF BufInv, Clients
<1>4. q = [frames |-> p.frames, table |-> p.table, clock |-> p.clock, store |-> p.store, records |-> <<>>,
           safe |-> 0, handles |-> p.handles, outcome |-> "ok", leaks |-> p.leaks]
  BY DEF Commit, Buf
<1>5. committed' = [pg \in DOMAIN store |-> View(p, pg)]
  BY HandlesSeen DEF Commit
<1>6. p.store = store
  BY DEF Buf
<1> HIDE DEF p, q
<1>7. q \in State
  <2>1. <<>> \in Seq(LogRec) /\ "ok" \in Outcomes
    BY DEF Outcomes
  <2> QED
    BY <1>3, <1>4, <2>1 DEF Sound, State
<1>8. Len(q.records) = 0
  BY <1>1
<1>9. Sound(q, {})
  BY <1>1, <1>3, <1>7, <1>8 DEF Sound
<1>10. \A i : View(q, i) = View(p, i) /\ ~Blocked(p, i) /\ ~Blocked(q, i)
  BY <1>1, <1>2 DEF View, Blocked, Mode
<1>11. Clients(q)
  BY <1>1, <1>2, <1>3, <1>10, RootAndHands DEF Clients, Mode
<1>12. committed' \in Stores
  <2>1. PICK n \in Nat : p.store \in [0..n -> Page]
    BY <1>3, StoreType DEF Sound, State
  <2>2. \A pg \in DOMAIN p.store : View(p, pg) \in Page
    BY <1>3, ViewType
  <2>3. committed' \in [0..n -> Page]
    BY <1>5, <1>6, <2>1, <2>2
  <2> QED
    BY <2>3 DEF Stores
<1>13. store' = store /\ records' = <<>> /\ outcome' = outcome
  BY DEF Commit
<1>14. DOMAIN committed' = DOMAIN store' /\ committed'[0].kind = "root"
  BY <1>3, <1>5, <1>6, <1>13
<1>15. HistoryOK'
  BY <1>12, <1>13, <1>14 DEF HistoryOK
<1>16. BufInv'
  BY <1>9, <1>11, <1>13, <1>15 DEF BufInv, q
<1> QED
  BY <1>5, <1>10, <1>16 DEF p, q

LEMMA BufNextKeepsInv ==
  ASSUME BufInv, BufNext
  PROVE  BufInv' /\ (CallStep \/ Commit \/ \E n \in Nat, undo \in BOOLEAN : BufCrash(n, undo))
<1>1. CASE \E h \in Handles :
             \/ \E pg \in 1..(MaxPages - 1) : Get(h, pg)
             \/ MakeWritable(h) \/ WritePage(h) \/ Release(h) \/ DeletePage(h)
             \/ \E extends \in BOOLEAN : NewPage(h, extends)
  BY <1>1, ClientKeepsInv
<1>2. CASE Commit
  BY <1>2, CommitKeepsInv
<1>3. CASE \E n \in 0..MaxRecords, undo \in BOOLEAN : BufCrash(n, undo)
  <2>1. PICK n \in 0..MaxRecords, undo \in BOOLEAN : BufCrash(n, undo)
    BY <1>3
  <2>2. n \in Nat
    BY BufAssumption
  <2> QED
    BY <2>1, <2>2, CrashKeepsInv
<1> QED
  BY <1>1, <1>2, <1>3 DEF BufNext

LEMMA BufStutters ==
  ASSUME UNCHANGED bufVars
  PROVE  Buf' = Buf /\ (BufInv => BufInv')
<1>1. Buf' = Buf /\ committed' = committed /\ outcome' = outcome /\ store' = store /\ records' = records
  BY DEF bufVars, Buf
<1> QED
  BY <1>1 DEF BufInv, HistoryOK

\* The pool is as the calls leave it, in every state of the pager.
THEOREM BufAlways == BufSpec => []BufInv
<1>1. BufInit => BufInv
  BY BufStarts
<1>2. BufInv /\ [BufNext]_bufVars => BufInv'
  BY BufNextKeepsInv, BufStutters
<1> QED
  BY <1>1, <1>2, PTL DEF BufSpec

LEMMA InvGivesFrames ==
  ASSUME BufInv
  PROVE  FramesAccounted
<1> DEFINE F == frames
           T == table
           H == handles
<1>1. /\ F \in [Frames -> FrameRec] /\ T \in Tables /\ H \in [Hands -> HandleRec]
      /\ Acc(F, T, H, {}, leaks) /\ H[RootHandle].mode = "none"
  BY BufFields DEF BufInv, Sound, State, Clients, Mode
<1> HIDE DEF F, T, H
<1>2. TableOK(F, T) /\ HandlesOK(F, T, H) /\ ApartOK(H) /\ FramesOK(F, T, H, {}) /\ PinsOK(F, T, H, leaks)
  BY <1>1 DEF Acc
<1>3. \A h \in Hands : H[h].mode # "none" => h \in Handles
  BY <1>1 DEF Hands
<1>4. \A i \in Frames : Found(F, T, i) => \A j \in Frames : F[j].wsibling # i
  <2>1. SUFFICES ASSUME NEW i \in Frames, Found(F, T, i), NEW j \in Frames, F[j].wsibling = i
                 PROVE  FALSE
    OBVIOUS
  <2>2. i # None
    BY BufAssumption DEF Frames, None
  <2>3. PICK h \in Hands : H[h].mode = "X" /\ H[h].w = i
    BY <1>2, <2>1, <2>2 DEF FramesOK
  <2> QED
    BY <1>2, <2>1, <2>3 DEF HandlesOK, HandleOK
<1>5. \A i \in Frames : F[i].present =>
        \/ Found(F, T, i) /\ \A j \in Frames : F[j].wsibling # i
        \/ /\ \E h \in Handles : H[h].mode = "X" /\ H[h].w = i
           /\ Cardinality({j \in Frames : F[j].wsibling = i /\ F[j].present}) = 1
           /\ \E j \in Frames : F[j].wsibling = i
  <2>1. SUFFICES ASSUME NEW i \in Frames, F[i].present, ~Found(F, T, i)
                 PROVE  /\ \E h \in Handles : H[h].mode = "X" /\ H[h].w = i
                        /\ Cardinality({j \in Frames : F[j].wsibling = i /\ F[j].present}) = 1
                        /\ \E j \in Frames : F[j].wsibling = i
    BY <1>4
  <2>2. PICK h \in Hands : H[h].mode = "X" /\ H[h].w = i
    BY <1>2, <2>1 DEF FramesOK, CopyIn
  <2>3. H[h].r \in Frames /\ F[H[h].r].wsibling = i /\ F[H[h].r].present
    BY <1>2, <2>2 DEF HandlesOK, HandleOK, Found
  <2>4. \A j \in Frames : F[j].wsibling = i => j = H[h].r
    <3>1. SUFFICES ASSUME NEW j \in Frames, F[j].wsibling = i PROVE j = H[h].r
      OBVIOUS
    <3>2. i # None
      BY BufAssumption DEF Frames, None
    <3>3. PICK g \in Hands : H[g].mode = "X" /\ H[g].r = j /\ H[g].w = i
      BY <1>2, <3>1, <3>2 DEF FramesOK
    <3>4. g = h
      BY <1>2, <2>2, <3>3 DEF ApartOK
    <3> QED
      BY <3>3, <3>4
  <2>5. {j \in Frames : F[j].wsibling = i /\ F[j].present} = {H[h].r}
    BY <2>3, <2>4
  <2>6. Cardinality({H[h].r}) = 1
    BY FS_Singleton
  <2> QED
    BY <1>3, <2>2, <2>3, <2>5, <2>6
<1>6. \A i \in Frames : i \in Copies <=> \E j \in Frames : frames[j].wsibling = i
  BY BufAssumption DEF Copies, Frames, None
<1>7. FramesFound
  BY <1>2, <1>5, <1>6 DEF FramesFound, TableOK, Found, F, T, H
<1>8. PinsAreHandles
  <2>1. ASSUME NEW pg \in DOMAIN T
        PROVE  F[T[pg]].pin = PinsLeft(pg) + Cardinality({h \in Handles : Held(h) /\ H[h].r = T[pg]})
    <3>1. {h \in Handles : Held(h) /\ H[h].r = T[pg]} = UsersOf(H, T[pg])
      BY <1>3 DEF UsersOf, Held, Hands, H
    <3>2. F[T[pg]].pin = Cardinality(UsersOf(H, T[pg])) + Extra(leaks, pg) /\ leaks \in Nat
      BY <1>2 DEF PinsOK
    <3>3. PinsLeft(pg) = Extra(leaks, pg)
      BY DEF PinsLeft, Extra
    <3>4. Cardinality(UsersOf(H, T[pg])) \in Nat /\ Extra(leaks, pg) \in Nat
      BY <3>2, UsersFinite, ExtraType
    <3>5. F[T[pg]].pin = PinsLeft(pg) + Cardinality(UsersOf(H, T[pg]))
      BY <3>2, <3>3, <3>4
    <3> QED
      BY <3>1, <3>5
  <2>2. leaks > 0 => 0 \in DOMAIN T
    BY <1>2 DEF PinsOK
  <2> QED
    BY <2>1, <2>2 DEF PinsAreHandles, F, T, H
<1> QED
  BY <1>7, <1>8 DEF FramesAccounted

LEMMA InvGivesTypes ==
  ASSUME BufInv
  PROVE  BufTypeOK
<1>1. /\ frames \in [Frames -> FrameRec] /\ DOMAIN table \subseteq DOMAIN store /\ Buf \in State
  BY BufFields DEF BufInv, Sound, State
<1>2. DOMAIN store = 0..(Cardinality(DOMAIN store) - 1)
  BY <1>1, StoreFacts, BufFields DEF npages
<1>3. \A i \in Frames : frames[i].pin \in Nat /\ frames[i].wsibling \in Frames \cup {None}
  BY <1>1 DEF FrameRec
<1> QED
  BY <1>1, <1>2, <1>3, BufTypes DEF BufTypeOK

\* The table finds pages that the file has, and no more records are flushed than
\* there are.
THEOREM BufTyped == BufSpec => []BufTypeOK
<1>1. BufInv => BufTypeOK
  BY InvGivesTypes
<1> QED
  BY <1>1, BufAlways, PTL

\* Whatever calls come in whatever order, whether or not a frame is found for
\* them, and after every crash: a frame is free, or found, or the copy of one
\* writer, and it has a pin for each handle; the root page has one more, for ever,
\* for each deletion that found no frame (pgr_get to pgr_delete_and_release).
THEOREM FramesAreAccounted == BufSpec => []FramesAccounted
<1>1. BufInv => FramesAccounted
  BY InvGivesFrames
<1> QED
  BY <1>1, BufAlways, PTL
=============================================================================
