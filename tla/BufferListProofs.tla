--------------------------- MODULE BufferListProofs ---------------------------
(***************************************************************************)
(* Theorems about the pages of the file, on top of BufferProofs: what a    *)
(* call for a page finds (PagesAreServed), that no page in use is ever on  *)
(* the list of free pages and, while nothing failed, that no other is      *)
(* missing (FreeListIsExact).                                              *)
(*                                                                         *)
(* The list is on pages that a crash puts back to any record of the log,   *)
(* done or undone. So the inductive invariant is about the log and not     *)
(* about the list of the moment: what each prefix of the records leaves of *)
(* the pages of the last checkpoint is a file with a list of free pages    *)
(* (PrefixesOK), the same for the undo of the records that are not         *)
(* committed (UndoOK, CommitOK), and what is served is what the log has    *)
(* last (ServedOK). LedgerInv adds this to BufInv. That calls succeed      *)
(* needs that a page which was never written is one of the list            *)
(* (SuccessInv), that nothing is lost that the list is the least set       *)
(* closed under "next free page" which has the page the root page names    *)
(* (ExactInv, NoneLost): a formulation that needs no induction over the    *)
(* list, and from which the recursive FreeList of the model is bounded.    *)
(***************************************************************************)
EXTENDS BufferProofs

-----------------------------------------------------------------------------
(* Lists of free pages.                                                    *)

\* In a file of e pages that are V, the root page and the tombstones of S point
\* into S or to the end, no two of them to the same place.  A page of S that is
\* zero points nowhere.
ListIn(V, e, S) ==
  /\ S \subseteq 1..(e - 1) /\ V[0].kind = "root" /\ V[0].val \in S \cup {e}
  /\ \A s \in S : V[s].kind \in {"zero", "tombstone"}
  /\ \A s \in S : V[s].kind = "tombstone" => V[s].val \in S \cup {e} /\ V[s].val # V[0].val
  /\ \A s, t \in S : V[s].kind = "tombstone" /\ V[t].kind = "tombstone" /\ V[s].val = V[t].val => s = t

ListOK(V, e) == \E S : ListIn(V, e, S)

\* The same pages but for one.
PutAt(V, W, e, pg, page) == W[pg] = page /\ \A i \in 0..(e - 1) : i # pg => W[i] = V[i]

LEMMA ListSaved ==
  ASSUME NEW V, NEW W, NEW e \in Nat, NEW S, ListIn(V, e, S), NEW pg \in 1..(e - 1), pg \notin S,
         NEW page, PutAt(V, W, e, pg, page)
  PROVE  ListIn(W, e, S)
<1>1. W[0] = V[0] /\ \A s \in S : W[s] = V[s]
  BY DEF ListIn, PutAt
<1> QED
  BY <1>1 DEF ListIn

LEMMA ListTaken ==
  ASSUME NEW V, NEW W, NEW e \in Nat, NEW S, ListIn(V, e, S), V[0].val \in S,
         V[V[0].val].kind = "tombstone", PutAt(V, W, e, 0, Root(V[V[0].val].val))
  PROVE  ListIn(W, e, S \ {V[0].val})
<1> DEFINE first == V[0].val
           second == V[first].val
<1>1. /\ S \subseteq 1..(e - 1) /\ first \in S /\ second \in S \cup {e} /\ second # first
      /\ \A s \in S : V[s].kind \in {"zero", "tombstone"}
      /\ \A s \in S : V[s].kind = "tombstone" => V[s].val \in S \cup {e} /\ V[s].val # first
      /\ \A s, t \in S : V[s].kind = "tombstone" /\ V[t].kind = "tombstone" /\ V[s].val = V[t].val => s = t
      /\ V[first].kind = "tombstone"
  BY DEF ListIn
<1>2. W[0].kind = "root" /\ W[0].val = second /\ \A s \in S : W[s] = V[s]
  BY <1>1 DEF PutAt, Root, Content
<1> HIDE DEF first, second
<1>3. \A s \in S \ {first} : V[s].kind = "tombstone" => V[s].val # second
  BY <1>1 DEF second
<1>4. ListIn(W, e, S \ {first})
  BY <1>1, <1>2, <1>3 DEF ListIn
<1> QED
  BY <1>4 DEF first

LEMMA ListPut ==
  ASSUME NEW V, NEW W, NEW e \in Nat, NEW S, ListIn(V, e, S), NEW pg \in 1..(e - 1), pg \notin S,
         V[pg] = Tombstone(V[0].val), PutAt(V, W, e, 0, Root(pg))
  PROVE  ListIn(W, e, S \cup {pg})
<1> DEFINE first == V[0].val
<1>1. /\ S \subseteq 1..(e - 1) /\ first \in S \cup {e} /\ pg # e /\ first # pg
      /\ \A s \in S : V[s].kind \in {"zero", "tombstone"}
      /\ \A s \in S : V[s].kind = "tombstone" => V[s].val \in S \cup {e} /\ V[s].val # first
      /\ \A s, t \in S : V[s].kind = "tombstone" /\ V[t].kind = "tombstone" /\ V[s].val = V[t].val => s = t
  BY DEF ListIn
<1>2. W[0].kind = "root" /\ W[0].val = pg /\ \A s \in S \cup {pg} : W[s] = V[s]
  BY <1>1 DEF PutAt, Root, Content
<1>3. V[pg].kind = "tombstone" /\ V[pg].val = first
  BY DEF Tombstone, Content
<1> HIDE DEF first
<1>4. \A s \in S : V[s].kind = "tombstone" => V[s].val # pg
  BY <1>1
<1>5. S \cup {pg} \subseteq 1..(e - 1) /\ W[0].val \in S \cup {pg} \cup {e}
  BY <1>1, <1>2
<1> QED
  BY <1>1, <1>2, <1>3, <1>4, <1>5 DEF ListIn

\* The file grew, and the root page does not say so yet.
LEMMA ListLonger ==
  ASSUME NEW V, NEW W, NEW e \in Nat, NEW S, ListIn(V, e, S), e > 0,
         \A i \in 0..(e - 1) : W[i] = V[i], W[e] = Zero
  PROVE  ListIn(W, e + 1, S \cup {e})
<1>1. W[0] = V[0] /\ \A s \in S : W[s] = V[s]
  BY DEF ListIn
<1>2. W[e].kind = "zero"
  BY DEF Zero, Content
<1>3. S \subseteq 1..(e - 1) /\ S \cup {e} \subseteq 1..(e + 1 - 1)
  BY DEF ListIn
<1> QED
  BY <1>1, <1>2, <1>3 DEF ListIn

\* The file grew by a page that is in use.
LEMMA ListBehind ==
  ASSUME NEW V, NEW W, NEW e \in Nat, NEW S, ListIn(V, e, S), V[0].val = e,
         \A i \in 1..(e - 1) : W[i] = V[i], W[0] = Root(e + 1)
  PROVE  ListIn(W, e + 1, S)
<1>1. \A s \in S : W[s] = V[s]
  BY DEF ListIn
<1>2. W[0].kind = "root" /\ W[0].val = e + 1
  BY DEF Root, Content
<1>3. S \subseteq 1..(e - 1) /\ S \subseteq 1..(e + 1 - 1) /\ e + 1 \notin S
  BY DEF ListIn
<1>4. \A s \in S : V[s].kind = "tombstone" => V[s].val \in S
  BY DEF ListIn
<1> QED
  BY <1>1, <1>2, <1>3, <1>4 DEF ListIn

\* Pages were added behind the list of a shorter file.
LEMMA ListExtended ==
  ASSUME NEW V, NEW W, NEW m \in Nat, NEW e \in Nat, 0 < m, m <= e, NEW S, ListIn(V, m, S),
         \A i \in 0..(m - 1) : W[i] = V[i],
         \A i \in m..(e - 1) : W[i] = Zero \/ W[i] = Tombstone(i + 1)
  PROVE  ListIn(W, e, S \cup m..(e - 1))
<1> DEFINE N == m..(e - 1)
<1>1. W[0] = V[0] /\ (\A s \in S : W[s] = V[s]) /\ S \subseteq 1..(m - 1)
  BY DEF ListIn
<1>2. \A i \in N : /\ W[i].kind \in {"zero", "tombstone"}
                   /\ W[i].kind = "tombstone" => W[i].val = i + 1
  <2>1. Zero.kind = "zero" /\ \A n : Tombstone(n).kind = "tombstone" /\ Tombstone(n).val = n
    BY DEF Zero, Tombstone, Content
  <2> QED
    BY <2>1
<1>3. \A i \in N : i + 1 \in N \cup {e} /\ i + 1 > m
  OBVIOUS
<1>4. m \in N \cup {e}
  OBVIOUS
<1>5. \A s \in S : V[s].kind = "tombstone" => V[s].val \in S \cup {m} /\ V[s].val # V[0].val
  BY DEF ListIn
<1>6. V[0].val \in S \cup {m} /\ V[0].kind = "root"
  BY DEF ListIn
<1>7. \A x \in S \cup {m} : x <= m
  BY <1>1
<1>8. S \cup N \subseteq 1..(e - 1)
  BY <1>1
<1> HIDE DEF N
<1>9. \A s \in S \cup N : W[s].kind = "tombstone" =>
                            W[s].val \in S \cup N \cup {e} /\ W[s].val # W[0].val
  <2>1. SUFFICES ASSUME NEW s \in S \cup N, W[s].kind = "tombstone"
                 PROVE  W[s].val \in S \cup N \cup {e} /\ W[s].val # W[0].val
    OBVIOUS
  <2>2. CASE s \in S
    BY <1>1, <1>4, <1>5, <2>1, <2>2
  <2>3. CASE s \in N
    <3>1. W[s].val = s + 1 /\ s + 1 \in N \cup {e} /\ s + 1 > m
      BY <1>2, <1>3, <2>1, <2>3
    <3>2. ~(s + 1 <= m)
      BY <2>3, <3>1 DEF N
    <3>3. s + 1 # V[0].val
      BY <1>6, <1>7, <3>2
    <3> QED
      BY <1>1, <3>1, <3>3
  <2> QED
    BY <2>2, <2>3
<1>10. \A s, t \in S \cup N :
         W[s].kind = "tombstone" /\ W[t].kind = "tombstone" /\ W[s].val = W[t].val => s = t
  <2>1. \A s \in S : W[s].kind = "tombstone" => W[s].val <= m
    BY <1>1, <1>5, <1>7
  <2>2. \A s \in N : W[s].kind = "tombstone" => W[s].val = s + 1 /\ ~(s + 1 <= m)
    BY <1>2, <1>3 DEF N
  <2>3. SUFFICES ASSUME NEW s \in S \cup N, NEW t \in S \cup N, W[s].kind = "tombstone",
                        W[t].kind = "tombstone", W[s].val = W[t].val
                 PROVE  s = t
    OBVIOUS
  <2>4. CASE s \in S /\ t \in S
    BY <1>1, <2>3, <2>4 DEF ListIn
  <2>5. CASE s \in N /\ t \in N
    BY <2>2, <2>3, <2>5 DEF N
  <2>6. CASE s \in S /\ t \in N
    BY <2>1, <2>2, <2>3, <2>6
  <2>7. CASE s \in N /\ t \in S
    BY <2>1, <2>2, <2>3, <2>7
  <2> QED
    BY <2>3, <2>4, <2>5, <2>6, <2>7
<1>11. \A s \in S \cup N : W[s].kind \in {"zero", "tombstone"}
  BY <1>1, <1>2 DEF ListIn
<1>12. W[0].kind = "root" /\ W[0].val \in S \cup N \cup {e}
  BY <1>1, <1>4, <1>6
<1> QED
  BY <1>8, <1>9, <1>10, <1>11, <1>12 DEF ListIn, N

-----------------------------------------------------------------------------
(* What the log says of the pages.                                         *)

\* A page as the first n records leave it, on top of the pages c.
Mine(recs, n, pg) == {k \in 1..n : recs[k].pg = pg}
First(c, pg) == IF pg \in DOMAIN c THEN c[pg] ELSE Zero
Redo(recs, c, n, pg) ==
  IF Mine(recs, n, pg) = {} THEN First(c, pg)
  ELSE recs[CHOOSE k \in Mine(recs, n, pg) : \A j \in Mine(recs, n, pg) : j <= k].redo
Image(recs, c, n, e) == [pg \in 0..(e - 1) |-> Redo(recs, c, n, pg)]

\* A record more does not change what earlier ones say.
LEMMA RedoSame ==
  ASSUME NEW recs \in Seq(LogRec), NEW r \in LogRec, NEW c, NEW pg, NEW n \in 0..Len(recs)
  PROVE  /\ Mine(Append(recs, r), n, pg) = Mine(recs, n, pg)
         /\ Redo(Append(recs, r), c, n, pg) = Redo(recs, c, n, pg)
<1> DEFINE new == Append(recs, r)
           M == Mine(recs, n, pg)
<1>1. Len(recs) \in Nat /\ n \in Nat /\ \A k \in 1..Len(recs) : new[k] = recs[k]
  BY AppendFacts
<1> HIDE DEF new
<1>2. \A k \in 1..n : new[k] = recs[k]
  BY <1>1
<1>3. Mine(new, n, pg) = M
  BY <1>2 DEF Mine
<1>4. CASE M = {}
  BY <1>3, <1>4 DEF Redo, new
<1>5. CASE M # {}
  <2> DEFINE k == CHOOSE k \in M : \A j \in M : j <= k
  <2>1. M \in SUBSET (1..n)
    BY DEF Mine
  <2>2. \E m \in M : \A x \in M : x <= m
    BY <1>1, <1>5, <2>1, HasGreatest
  <2>3. k \in M
    BY <2>2
  <2>4. new[k] = recs[k]
    BY <1>2, <2>1, <2>3
  <2>5. Redo(new, c, n, pg) = new[k].redo /\ Redo(recs, c, n, pg) = recs[k].redo
    BY <1>3, <1>5 DEF Redo
  <2> QED
    BY <1>3, <2>4, <2>5 DEF new
<1> QED
  BY <1>4, <1>5

\* It says its page anew,
LEMMA RedoNew ==
  ASSUME NEW recs \in Seq(LogRec), NEW r \in LogRec, NEW c
  PROVE  Redo(Append(recs, r), c, Len(recs) + 1, r.pg) = r.redo
<1> DEFINE new == Append(recs, r)
           l == Len(recs)
           M == Mine(new, l + 1, r.pg)
           k == CHOOSE k \in M : \A j \in M : j <= k
<1>1. l \in Nat /\ new[l + 1] = r
  BY AppendFacts
<1> HIDE DEF new, l
<1>2. l + 1 \in M /\ \A j \in M : j <= l + 1
  BY <1>1 DEF Mine
<1>3. k \in M /\ \A j \in M : j <= k
  BY <1>2
<1>4. M \subseteq Nat
  BY DEF Mine
<1>5. k = l + 1
  <2> HIDE DEF k, M
  <2>1. k <= l + 1 /\ l + 1 <= k /\ k \in Nat
    BY <1>2, <1>3, <1>4
  <2> QED
    BY <1>1, <2>1
<1>6. Redo(new, c, l + 1, r.pg) = new[k].redo
  BY <1>2 DEF Redo
<1> QED
  BY <1>1, <1>5, <1>6 DEF new, l

\* and no other.
LEMMA RedoOther ==
  ASSUME NEW recs \in Seq(LogRec), NEW r \in LogRec, NEW c, NEW pg, pg # r.pg
  PROVE  Redo(Append(recs, r), c, Len(recs) + 1, pg) = Redo(recs, c, Len(recs), pg)
<1> DEFINE new == Append(recs, r)
           l == Len(recs)
<1>1. l \in Nat /\ new[l + 1] = r
  BY AppendFacts
<1>2. Mine(new, l, pg) = Mine(recs, l, pg) /\ Redo(new, c, l, pg) = Redo(recs, c, l, pg)
  <2>1. l \in 0..Len(recs)
    BY <1>1
  <2> QED
    BY <2>1, RedoSame
<1> HIDE DEF new, l
<1>3. Mine(new, l + 1, pg) = Mine(new, l, pg)
  <2>1. 1..(l + 1) = 1..l \cup {l + 1}
    BY <1>1
  <2> QED
    BY <1>1, <2>1 DEF Mine
<1>4. Redo(new, c, l + 1, pg) = Redo(new, c, l, pg)
  <2> DEFINE M == Mine(new, l, pg)
             k == CHOOSE k \in M : \A j \in M : j <= k
  <2>1. Mine(new, l + 1, pg) = M
    BY <1>3
  <2>2. CASE M = {}
    BY <2>1, <2>2 DEF Redo
  <2>3. CASE M # {}
    <3>1. Redo(new, c, l + 1, pg) = new[k].redo
      BY <2>1, <2>3 DEF Redo
    <3>2. Redo(new, c, l, pg) = new[k].redo
      BY <2>3 DEF Redo
    <3> QED
      BY <3>1, <3>2
  <2> QED
    BY <2>2, <2>3
<1> QED
  BY <1>2, <1>4 DEF new, l

\* Whether the page has been written or committed.
Known(p, c, pg) == pg \in DOMAIN c \/ \E k \in DOMAIN p.records : p.records[k].pg = pg

\* Every prefix of the log leaves a list of free pages.
PrefixesOK(recs, c, np) == \A n \in 0..Len(recs) : ListOK(Image(recs, c, n, np), np)

\* What all of the log leaves is one without the pages of W, which are being written.
NowOK(recs, c, np, W) == \E S : ListIn(Image(recs, c, Len(recs), np), np, S) /\ S \cap W = {}

\* A page is served as the log has it last; a new one is in W.
ServedOK(p, c, W) ==
  \A pg \in DOMAIN p.store :
    IF Known(p, c, pg) THEN View(p, pg) = Redo(p.records, c, Len(p.records), pg)
    ELSE pg \in W /\ View(p, pg) = Tombstone(pg + 1)

\* The first record of a page has what the last commit left of it.
Found1(c, pg) == IF pg \in DOMAIN c THEN c[pg] ELSE Tombstone(pg + 1)
UndoOK(recs, c) ==
  \A k \in DOMAIN recs : Mine(recs, k - 1, recs[k].pg) = {} => recs[k].undo = Found1(c, recs[k].pg)

\* The last commit left a list of free pages, in a file that may have been shorter.
CommitOK(c, np) == \E m \in 1..np : DOMAIN c = 0..(m - 1) /\ ListOK(c, m)

LedgerTypes(p) ==
  /\ p.records \in Seq(LogRec) /\ npages(p) \in Nat \ {0} /\ DOMAIN p.store = 0..(npages(p) - 1)
  /\ \A k \in DOMAIN p.records : p.records[k].pg \in DOMAIN p.store

Ledger(p, c, W) ==
  /\ LedgerTypes(p) /\ PrefixesOK(p.records, c, npages(p)) /\ NowOK(p.records, c, npages(p), W)
  /\ ServedOK(p, c, W) /\ UndoOK(p.records, c) /\ CommitOK(c, npages(p))

\* The next image of the pages differs in the page of the record.
LEMMA ImagePut ==
  ASSUME NEW recs \in Seq(LogRec), NEW r \in LogRec, NEW c, NEW np \in Nat, r.pg \in 0..(np - 1)
  PROVE  /\ PutAt(Image(recs, c, Len(recs), np), Image(Append(recs, r), c, Len(recs) + 1, np), np,
                  r.pg, r.redo)
         /\ \A n \in 0..Len(recs) : Image(Append(recs, r), c, n, np) = Image(recs, c, n, np)
<1> DEFINE V == Image(recs, c, Len(recs), np)
           W == Image(Append(recs, r), c, Len(recs) + 1, np)
<1>1. \A pg \in 0..(np - 1) : V[pg] = Redo(recs, c, Len(recs), pg)
  BY DEF Image
<1>2. \A pg \in 0..(np - 1) : W[pg] = Redo(Append(recs, r), c, Len(recs) + 1, pg)
  BY DEF Image
<1> HIDE DEF V, W
<1>3. PutAt(V, W, np, r.pg, r.redo)
  <2>1. W[r.pg] = r.redo
    BY <1>2, RedoNew
  <2>2. ASSUME NEW i \in 0..(np - 1), i # r.pg
        PROVE  W[i] = V[i]
    <3>1. Redo(Append(recs, r), c, Len(recs) + 1, i) = Redo(recs, c, Len(recs), i)
      BY <2>2, RedoOther
    <3> QED
      BY <1>1, <1>2, <3>1
  <2> QED
    BY <2>1, <2>2 DEF PutAt
<1>4. \A n \in 0..Len(recs) : Image(Append(recs, r), c, n, np) = Image(recs, c, n, np)
  <2>1. TAKE n \in 0..Len(recs)
  <2>2. \A pg \in 0..(np - 1) : Redo(Append(recs, r), c, n, pg) = Redo(recs, c, n, pg)
    <3>1. TAKE pg \in 0..(np - 1)
    <3> QED
      BY RedoSame
  <2> QED
    BY <2>2 DEF Image
<1> QED
  BY <1>3, <1>4 DEF V, W

\* A record more whose page is listed like X says.
LEMMA PrefixAdded ==
  ASSUME NEW recs \in Seq(LogRec), NEW r \in LogRec, NEW c, NEW np \in Nat \ {0}, r.pg \in 0..(np - 1),
         PrefixesOK(recs, c, np), NEW X, NEW S,
         ListIn(Image(Append(recs, r), c, Len(recs) + 1, np), np, S), S \cap X = {}
  PROVE  PrefixesOK(Append(recs, r), c, np) /\ NowOK(Append(recs, r), c, np, X)
<1>1. Len(Append(recs, r)) = Len(recs) + 1 /\ Len(recs) \in Nat
  BY AppendFacts
<1>2. ListOK(Image(Append(recs, r), c, Len(recs) + 1, np), np)
  BY DEF ListOK
<1>3. \A n \in 0..Len(recs) : ListOK(Image(Append(recs, r), c, n, np), np)
  BY ImagePut DEF PrefixesOK
<1>4. 0..(Len(recs) + 1) = 0..Len(recs) \cup {Len(recs) + 1}
  BY <1>1
<1> QED
  BY <1>1, <1>2, <1>3, <1>4 DEF PrefixesOK, NowOK

LEMMA UndoAdded ==
  ASSUME NEW recs \in Seq(LogRec), NEW r \in LogRec, NEW c, UndoOK(recs, c),
         Mine(recs, Len(recs), r.pg) = {} => r.undo = Found1(c, r.pg)
  PROVE  UndoOK(Append(recs, r), c)
<1> DEFINE new == Append(recs, r)
           l == Len(recs)
<1>1. /\ l \in Nat /\ DOMAIN new = DOMAIN recs \cup {l + 1} /\ DOMAIN recs = 1..l
      /\ new[l + 1] = r /\ \A k \in 1..l : new[k] = recs[k]
  BY AppendFacts
<1>2. \A n \in 0..l : \A pg : Mine(new, n, pg) = Mine(recs, n, pg)
  BY RedoSame
<1>3. Mine(recs, l, r.pg) = {} => r.undo = Found1(c, r.pg)
  OBVIOUS
<1> HIDE DEF new, l
<1>4. SUFFICES ASSUME NEW k \in DOMAIN new, Mine(new, k - 1, new[k].pg) = {}
               PROVE  new[k].undo = Found1(c, new[k].pg)
  BY DEF UndoOK, new
<1>5. CASE k \in 1..l
  <2>1. k - 1 \in 0..l /\ new[k] = recs[k] /\ k \in DOMAIN recs
    BY <1>1, <1>5
  <2>2. Mine(recs, k - 1, recs[k].pg) = {}
    BY <1>2, <1>4, <2>1
  <2> QED
    BY <2>1, <2>2 DEF UndoOK
<1>6. CASE k = l + 1
  <2>1. k - 1 = l /\ new[k] = r /\ l \in 0..l
    BY <1>1, <1>6
  <2>2. Mine(recs, l, r.pg) = {}
    BY <1>2, <1>4, <2>1
  <2> QED
    BY <1>3, <2>1, <2>2
<1> QED
  BY <1>1, <1>4, <1>5, <1>6

\* What the first record of a page finds.
LEMMA FirstRecord ==
  ASSUME NEW p, NEW c, NEW W, Ledger(p, c, W), NEW pg \in DOMAIN p.store
  PROVE  Mine(p.records, Len(p.records), pg) = {} => View(p, pg) = Found1(c, pg)
<1>1. SUFFICES ASSUME Mine(p.records, Len(p.records), pg) = {} PROVE View(p, pg) = Found1(c, pg)
  OBVIOUS
<1>2. Redo(p.records, c, Len(p.records), pg) = First(c, pg)
  BY <1>1 DEF Redo
<1>3. DOMAIN p.records = 1..Len(p.records)
  BY DEF Ledger, LedgerTypes
<1>4. Known(p, c, pg) <=> pg \in DOMAIN c
  BY <1>1, <1>3 DEF Known, Mine
<1> QED
  BY <1>2, <1>4 DEF Ledger, ServedOK, Found1, First

\* A page is saved, and the list is still one.
LEMMA LedgerLogs ==
  ASSUME NEW p, NEW c, NEW W, Ledger(p, c, W), NEW q, NEW pg \in DOMAIN p.store, NEW page \in Page,
         View(p, pg) \in Page, Logged(p, q, pg, page), NEW X, \A i \in W \ {pg} : i \in X \/ Known(p, c, i), NEW S, S \cap X = {},
         \A V \in {Image(q.records, c, Len(p.records) + 1, npages(p))} :
           PutAt(Image(p.records, c, Len(p.records), npages(p)), V, npages(p), pg, page) =>
             ListIn(V, npages(p), S)
  PROVE  Ledger(q, c, X)
<1> DEFINE r == [pg |-> pg, undo |-> View(p, pg), redo |-> page]
           np == npages(p)
           recs == p.records
<1>1. /\ LedgerTypes(p) /\ recs \in Seq(LogRec) /\ np \in Nat \ {0} /\ DOMAIN p.store = 0..(np - 1)
      /\ \A k \in DOMAIN recs : recs[k].pg \in DOMAIN p.store
  BY DEF Ledger, LedgerTypes
<1>2. pg \in Nat
  BY <1>1
<1>3. r \in LogRec /\ r.pg = pg /\ r.undo = View(p, pg) /\ r.redo = page
  BY <1>2 DEF LogRec
<1>4. /\ q.records = Append(recs, r) /\ DOMAIN q.store = DOMAIN p.store /\ npages(q) = np
      /\ View(q, pg) = page /\ \A i \in DOMAIN p.store \ {pg} : View(q, i) = View(p, i)
  BY DEF Logged, npages
<1> HIDE DEF r
<1>5. /\ Append(recs, r) \in Seq(LogRec) /\ Len(Append(recs, r)) = Len(recs) + 1 /\ Len(recs) \in Nat
      /\ DOMAIN Append(recs, r) = DOMAIN recs \cup {Len(recs) + 1}
      /\ Append(recs, r)[Len(recs) + 1] = r /\ \A k \in DOMAIN recs : Append(recs, r)[k] = recs[k]
  BY <1>1, <1>3, AppendFacts
<1>6. LedgerTypes(q)
  BY <1>1, <1>3, <1>4, <1>5 DEF LedgerTypes
<1>7. PrefixesOK(q.records, c, np) /\ NowOK(q.records, c, np, X)
  <2>1. PutAt(Image(recs, c, Len(recs), np), Image(Append(recs, r), c, Len(recs) + 1, np), np, pg, page)
    BY <1>1, <1>3, ImagePut
  <2>2. ListIn(Image(Append(recs, r), c, Len(recs) + 1, np), np, S)
    BY <1>4, <2>1
  <2>3. PrefixesOK(recs, c, np)
    BY DEF Ledger
  <2>4. r.pg \in 0..(np - 1)
    BY <1>1, <1>3
  <2> HIDE DEF recs, np
  <2>5. PrefixesOK(Append(recs, r), c, np) /\ NowOK(Append(recs, r), c, np, X)
    BY <1>1, <1>3, <2>2, <2>3, <2>4, PrefixAdded
  <2> QED
    BY <1>4, <2>5
<1>8. ServedOK(q, c, X)
  <2>1. SUFFICES ASSUME NEW i \in DOMAIN p.store
                 PROVE  IF Known(q, c, i) THEN View(q, i) = Redo(q.records, c, Len(recs) + 1, i)
                        ELSE i \in X /\ View(q, i) = Tombstone(i + 1)
    BY <1>4, <1>5 DEF ServedOK
  <2>2. /\ i = pg => Redo(q.records, c, Len(recs) + 1, i) = page
        /\ i # pg => Redo(q.records, c, Len(recs) + 1, i) = Redo(recs, c, Len(recs), i)
    <3> HIDE DEF recs
    <3>1. recs \in Seq(LogRec) /\ r \in LogRec
      BY <1>1, <1>3
    <3>2. /\ i = r.pg => Redo(Append(recs, r), c, Len(recs) + 1, i) = r.redo
          /\ i # r.pg => Redo(Append(recs, r), c, Len(recs) + 1, i) = Redo(recs, c, Len(recs), i)
      BY <3>1, RedoNew, RedoOther
    <3> QED
      BY <1>3, <1>4, <3>2
  <2>3. CASE i = pg
    <3>1. Known(q, c, i)
      BY <1>3, <1>4, <1>5, <2>3 DEF Known
    <3> QED
      BY <1>4, <2>2, <2>3, <3>1
  <2>4. CASE i # pg
    <3>1. Known(q, c, i) <=> Known(p, c, i)
      BY <1>3, <1>4, <1>5, <2>4 DEF Known
    <3>2. IF Known(p, c, i) THEN View(p, i) = Redo(recs, c, Len(recs), i)
          ELSE i \in W /\ View(p, i) = Tombstone(i + 1)
      BY DEF Ledger, ServedOK
    <3> QED
      BY <1>4, <2>2, <2>4, <3>1, <3>2
  <2> QED
    BY <2>3, <2>4
<1>9. UndoOK(q.records, c)
  <2>1. UndoOK(recs, c)
    BY DEF Ledger
  <2>2. Mine(recs, Len(recs), r.pg) = {} => r.undo = Found1(c, r.pg)
    BY <1>3, FirstRecord
  <2> QED
    BY <1>1, <1>3, <1>4, <2>1, <2>2, UndoAdded
<1> QED
  BY <1>4, <1>6, <1>7, <1>8, <1>9 DEF Ledger

\* A page that was logged is known.
LEMMA LoggedKnown ==
  ASSUME NEW p, LedgerTypes(p), NEW q, NEW pg \in Nat, NEW page \in Page, View(p, pg) \in Page,
         Logged(p, q, pg, page), NEW c
  PROVE  Known(q, c, pg)
<1> DEFINE r == [pg |-> pg, undo |-> View(p, pg), redo |-> page]
<1>1. r \in LogRec /\ r.pg = pg /\ q.records = Append(p.records, r)
  BY DEF LogRec, Logged
<1> HIDE DEF r
<1>2. Len(p.records) + 1 \in DOMAIN q.records /\ q.records[Len(p.records) + 1] = r
  BY <1>1, AppendFacts DEF LedgerTypes
<1> QED
  BY <1>1, <1>2 DEF Known

\* The pages of the list are served as the log has them.
LEMMA ListSeen ==
  ASSUME NEW p, NEW c, NEW W, Ledger(p, c, W), NEW S, S \cap W = {},
         ListIn(Image(p.records, c, Len(p.records), npages(p)), npages(p), S)
  PROVE  \A i \in S \cup {0} : /\ i \in DOMAIN p.store
                               /\ View(p, i) = Image(p.records, c, Len(p.records), npages(p))[i]
<1> DEFINE np == npages(p)
           V == Image(p.records, c, Len(p.records), np)
<1>1. np \in Nat \ {0} /\ DOMAIN p.store = 0..(np - 1)
  BY DEF Ledger, LedgerTypes
<1>2. \A i \in 0..(np - 1) : V[i] = Redo(p.records, c, Len(p.records), i)
  BY DEF Image
<1> HIDE DEF V, np
<1>3. S \subseteq 1..(np - 1)
  BY DEF ListIn, np
<1>4. Known(p, c, 0)
  BY <1>1 DEF Known, Ledger, CommitOK, np
<1>5. ServedOK(p, c, W)
  BY DEF Ledger
<1>6. ASSUME NEW i \in S \cup {0}
      PROVE  i \in DOMAIN p.store /\ View(p, i) = V[i]
  <2>1. i \in 0..(np - 1) /\ (i = 0 \/ i \notin W)
    BY <1>1, <1>3, <1>6
  <2>2. Known(p, c, i)
    BY <1>1, <1>4, <1>5, <2>1 DEF ServedOK
  <2> QED
    BY <1>1, <1>2, <1>5, <2>1, <2>2 DEF ServedOK
<1> QED
  BY <1>6 DEF V, np

\* The pages that are being written.
Writing(p) == {i \in DOMAIN p.store : Blocked(p, i)}
Ledgered(p, c) == Ledger(p, c, Writing(p))

LEMMA QuietLedger ==
  ASSUME NEW p, NEW c, Ledgered(p, c), NEW q, Quiet(p, q)
  PROVE  Ledgered(q, c)
<1> DEFINE V == Image(p.records, c, Len(p.records), npages(p))
           W == Writing(p)
           X == Writing(q)
<1>1. /\ q.records = p.records /\ DOMAIN q.store = DOMAIN p.store /\ npages(q) = npages(p)
      /\ \A i \in DOMAIN p.store : View(q, i) = View(p, i)
  BY DEF Quiet, Kept, SameView, npages
<1>2. Ledger(p, c, W)
  BY DEF Ledgered
<1>3. /\ \A i \in W : i \in X
      /\ \A i \in X : i \in DOMAIN p.store /\ (i \in W \/ View(p, i).kind = "data")
  BY <1>1 DEF Quiet, Writing
<1> HIDE DEF W, X
<1>4. NowOK(q.records, c, npages(q), X)
  <2>1. PICK S : ListIn(V, npages(p), S) /\ S \cap W = {}
    BY <1>2 DEF Ledger, NowOK
  <2>2. \A i \in S : View(p, i) = V[i]
    BY <1>2, <2>1, ListSeen
  <2> HIDE DEF V
  <2>3. \A i \in S : View(p, i).kind # "data"
    BY <2>1, <2>2 DEF ListIn
  <2>4. S \cap X = {}
    BY <1>3, <2>1, <2>3
  <2> QED
    BY <1>1, <2>1, <2>4 DEF NowOK, V
<1>5. ServedOK(q, c, X)
  <2>1. \A i : Known(q, c, i) <=> Known(p, c, i)
    BY <1>1 DEF Known
  <2> QED
    BY <1>1, <1>2, <1>3, <2>1 DEF Ledger, ServedOK
<1>6. Ledger(q, c, X)
  BY <1>1, <1>2, <1>4, <1>5 DEF Ledger, LedgerTypes
<1> QED
  BY <1>6 DEF Ledgered, X

LEMMA SavesLedger ==
  ASSUME NEW p, Sound(p, {}), NEW c, Ledgered(p, c), NEW q, Saves(p, q)
  PROVE  Ledgered(q, c)
<1> DEFINE V == Image(p.records, c, Len(p.records), npages(p))
           W == Writing(p)
           X == Writing(q)
<1>1. Ledger(p, c, W)
  BY DEF Ledgered
<1>2. PICK S : ListIn(V, npages(p), S) /\ S \cap W = {}
  BY <1>1 DEF Ledger, NowOK
<1>3. npages(p) \in Nat /\ DOMAIN p.store = 0..(npages(p) - 1)
  BY <1>1 DEF Ledger, LedgerTypes
<1>4. PICK pg \in DOMAIN p.store \ {0}, page \in Page :
        /\ Blocked(p, pg) /\ Logged(p, q, pg, page)
        /\ \A i \in DOMAIN p.store : Blocked(q, i) <=> Blocked(p, i) /\ i # pg
  BY DEF Saves
<1>5. pg \in 1..(npages(p) - 1) /\ pg \notin S
  BY <1>2, <1>3, <1>4 DEF Writing
<1>6. W \ {pg} \subseteq X /\ X \subseteq W
  BY <1>4 DEF Writing, Logged
<1> HIDE DEF W, X
<1>7. S \cap X = {} /\ \A i \in W \ {pg} : i \in X \/ Known(p, c, i)
  BY <1>2, <1>6
<1>8. ASSUME NEW U, PutAt(V, U, npages(p), pg, page)
      PROVE  ListIn(U, npages(p), S)
  <2> HIDE DEF V
  <2> QED
    BY <1>2, <1>3, <1>5, <1>8, ListSaved
<1>9. View(p, pg) \in Page
  BY <1>4, ViewType
<1>10. Ledger(q, c, X)
  BY <1>1, <1>4, <1>7, <1>8, <1>9, LedgerLogs
<1> QED
  BY <1>10 DEF Ledgered, X

LEMMA TakesLedger ==
  ASSUME NEW p, Sound(p, {}), NEW c, Ledgered(p, c), NEW q, Takes(p, q)
  PROVE  Ledgered(q, c)
<1> DEFINE V == Image(p.records, c, Len(p.records), npages(p))
           W == Writing(p)
           X == Writing(q)
           first == View(p, 0).val
           page == Root(View(p, first).val)
<1>1. Ledger(p, c, W)
  BY DEF Ledgered
<1>2. PICK S : ListIn(V, npages(p), S) /\ S \cap W = {}
  BY <1>1 DEF Ledger, NowOK
<1>3. npages(p) \in Nat /\ DOMAIN p.store = 0..(npages(p) - 1)
  BY <1>1 DEF Ledger, LedgerTypes
<1>4. /\ first \in DOMAIN p.store /\ View(p, first).kind = "tombstone" /\ Logged(p, q, 0, page)
      /\ \A i \in DOMAIN p.store : Blocked(q, i) <=> Blocked(p, i) \/ i = first
  BY DEF Takes
<1>5. X = W \cup {first}
  BY <1>4 DEF Writing, Logged
<1>6. 0 \in DOMAIN p.store /\ View(p, 0) \in Page /\ View(p, first) \in Page
  BY <1>4, ViewType
<1>7. View(p, 0) = V[0] /\ \A i \in S : View(p, i) = V[i]
  BY <1>1, <1>2, ListSeen
<1>8. page \in Page
  BY <1>4, <1>6 DEF Page, Kinds, Root, Content
<1> HIDE DEF W, X, V
<1>9. first = V[0].val /\ first \in S
  <2>1. V[0].val \in S \cup {npages(p)}
    BY <1>2 DEF ListIn
  <2> QED
    BY <1>3, <1>4, <1>7, <2>1
<1>10. V[first].kind = "tombstone" /\ page = Root(V[V[0].val].val)
  BY <1>4, <1>7, <1>9
<1> HIDE DEF first, page
<1>11. ASSUME NEW U, PutAt(V, U, npages(p), 0, page)
       PROVE  ListIn(U, npages(p), S \ {first})
  BY <1>2, <1>3, <1>9, <1>10, <1>11, ListTaken
<1>12. (S \ {first}) \cap X = {} /\ \A i \in W \ {0} : i \in X \/ Known(p, c, i)
  BY <1>2, <1>5
<1>13. Ledger(q, c, X)
  BY <1>1, <1>4, <1>6, <1>8, <1>11, <1>12, LedgerLogs DEF V
<1> QED
  BY <1>13 DEF Ledgered, X

LEMMA DeletesLedger ==
  ASSUME NEW p, Sound(p, {}), NEW c, Ledgered(p, c), NEW q, Deletes(p, q)
  PROVE  Ledgered(q, c)
<1> DEFINE W == Writing(p)
           X == Writing(q)
           first == View(p, 0).val
<1>1. Ledger(p, c, W)
  BY DEF Ledgered
<1>2. npages(p) \in Nat /\ DOMAIN p.store = 0..(npages(p) - 1) /\ LedgerTypes(p)
  BY <1>1 DEF Ledger, LedgerTypes
<1>3. PICK pg \in DOMAIN p.store \ {0} :
        /\ Blocked(p, pg) \/ View(p, pg).kind = "data"
        /\ \E t : Logged(p, t, pg, Tombstone(first)) /\ Logged(t, q, 0, Root(pg))
        /\ \A i \in DOMAIN p.store : Blocked(q, i) <=> Blocked(p, i) /\ i # pg
  BY DEF Deletes
<1>4. PICK t : Logged(p, t, pg, Tombstone(first)) /\ Logged(t, q, 0, Root(pg))
  BY <1>3
<1>5. X = W \ {pg} /\ (pg \in W \/ View(p, pg).kind = "data")
  BY <1>3, <1>4 DEF Writing, Logged
<1>6. /\ 0 \in DOMAIN p.store /\ View(p, 0) \in Page /\ View(p, pg) \in Page /\ pg \in Nat
      /\ pg \in 1..(npages(p) - 1)
  BY <1>2, <1>3, ViewType
<1>7. npages(t) = npages(p) /\ DOMAIN t.store = DOMAIN p.store /\ View(t, 0) = View(p, 0)
  BY <1>4, <1>6 DEF Logged, npages
<1> HIDE DEF W, X
<1>8. PICK S : /\ ListIn(Image(p.records, c, Len(p.records), npages(p)), npages(p), S)
               /\ S \cap W = {}
  BY <1>1 DEF Ledger, NowOK
<1> DEFINE V == Image(p.records, c, Len(p.records), npages(p))
<1>9. View(p, 0) = V[0] /\ \A i \in S : View(p, i) = V[i]
  BY <1>1, <1>8, ListSeen
<1>10. pg \notin S /\ first \in Nat
  <2>1. ListIn(V, npages(p), S)
    BY <1>8
  <2> HIDE DEF V
  <2>2. (\A i \in S : View(p, i).kind # "data") /\ first \in S \cup {npages(p)} /\ S \subseteq Nat
    BY <1>9, <2>1 DEF ListIn
  <2> QED
    BY <1>2, <1>5, <1>8, <2>2
<1>11. Tombstone(first) \in Page /\ Root(pg) \in Page
  <2> HIDE DEF first
  <2> QED
    BY <1>6, <1>10 DEF Page, Kinds, Root, Tombstone, Content
<1>12. Known(t, c, pg)
  BY <1>2, <1>4, <1>6, <1>11, LoggedKnown
<1>13. Ledger(t, c, W \cup {pg})
  <2>1. ASSUME NEW U, PutAt(V, U, npages(p), pg, Tombstone(first))
        PROVE  ListIn(U, npages(p), S)
    <3>1. ListIn(V, npages(p), S)
      BY <1>8
    <3> HIDE DEF V
    <3> QED
      BY <1>2, <1>6, <1>10, <2>1, <3>1, ListSaved
  <2>2. S \cap (W \cup {pg}) = {} /\ \A i \in W \ {pg} : i \in (W \cup {pg}) \/ Known(p, c, i)
    BY <1>8, <1>10
  <2> HIDE DEF first
  <2> QED
    BY <1>1, <1>4, <1>6, <1>11, <2>1, <2>2, LedgerLogs
<1> DEFINE VT == Image(t.records, c, Len(t.records), npages(t))
<1>14. PICK T : ListIn(VT, npages(t), T) /\ T \cap (W \cup {pg}) = {}
  BY <1>13 DEF Ledger, NowOK
<1>15. VT[0] = View(t, 0) /\ VT[pg] = View(t, pg)
  <2>1. View(t, 0) = VT[0]
    BY <1>13, <1>14, ListSeen
  <2>2. View(t, pg) = Redo(t.records, c, Len(t.records), pg)
    BY <1>7, <1>12, <1>13 DEF Ledger, ServedOK
  <2>3. pg \in 0..(npages(t) - 1)
    BY <1>2, <1>6, <1>7
  <2> QED
    BY <2>1, <2>2, <2>3 DEF Image
<1>16. VT[pg] = Tombstone(VT[0].val)
  BY <1>4, <1>7, <1>15 DEF Logged
<1>17. Ledger(q, c, X)
  <2>1. ASSUME NEW U, PutAt(VT, U, npages(t), 0, Root(pg))
        PROVE  ListIn(U, npages(t), T \cup {pg})
    <3>1. pg \notin T /\ npages(t) \in Nat /\ pg \in 1..(npages(t) - 1)
      BY <1>2, <1>6, <1>7, <1>14
    <3> HIDE DEF VT
    <3> QED
      BY <1>14, <1>16, <2>1, <3>1, ListPut
  <2>2. /\ (T \cup {pg}) \cap X = {}
        /\ \A i \in (W \cup {pg}) \ {0} : i \in X \/ Known(t, c, i)
    BY <1>5, <1>12, <1>14
  <2>3. 0 \in DOMAIN t.store /\ View(t, 0) \in Page
    BY <1>6, <1>7
  <2> QED
    BY <1>4, <1>11, <1>13, <2>1, <2>2, <2>3, LedgerLogs
<1> QED
  BY <1>17 DEF Ledgered, X

LEMMA GrowsLedger ==
  ASSUME NEW p, Sound(p, {}), NEW c, Ledgered(p, c), NEW q, Sound(q, {}), Grows(p, q)
  PROVE  Ledgered(q, c)
<1> DEFINE np == npages(p)
           recs == p.records
           l == Len(recs)
           W == Writing(p)
           X == Writing(q)
           r == [pg |-> 0, undo |-> View(p, 0), redo |-> Root(np + 1)]
           new == Append(recs, r)
           V == Image(recs, c, l, np)
           U == Image(new, c, l + 1, np + 1)
<1>1. Ledger(p, c, W)
  BY DEF Ledgered
<1>2. /\ np \in Nat \ {0} /\ DOMAIN p.store = 0..(np - 1) /\ recs \in Seq(LogRec) /\ LedgerTypes(p)
      /\ \A k \in DOMAIN recs : recs[k].pg \in 0..(np - 1)
  BY <1>1 DEF Ledger, LedgerTypes
<1>3. /\ View(p, 0).val \notin DOMAIN p.store /\ DOMAIN q.store = DOMAIN p.store \cup {np}
      /\ q.records = new /\ View(q, np) = Tombstone(np + 1) /\ View(q, 0) = Root(np + 1)
      /\ \A i \in DOMAIN p.store \ {0} : View(q, i) = View(p, i)
      /\ \A i \in DOMAIN q.store : Blocked(q, i) <=> Blocked(p, i) \/ i = np
  BY DEF Grows
<1>4. 0 \in DOMAIN p.store /\ View(p, 0) \in Page
  BY ViewType
<1>5. r \in LogRec /\ r.pg = 0 /\ r.undo = View(p, 0) /\ r.redo = Root(np + 1)
  <2>1. Root(np + 1) \in Page
    BY <1>2 DEF Root, Content, Page, Kinds
  <2> HIDE DEF np
  <2> QED
    BY <1>4, <2>1 DEF LogRec
<1>6. npages(q) = np + 1 /\ DOMAIN q.store = 0..np
  <2> HIDE DEF np
  <2>1. DOMAIN q.store = 0..np
    BY <1>2, <1>3
  <2>2. npages(q) \in Nat \ {0} /\ DOMAIN q.store = 0..(npages(q) - 1)
    BY StoreFacts DEF Sound
  <2>3. np \in 0..(npages(q) - 1) /\ npages(q) - 1 \in 0..np
    BY <1>2, <2>1, <2>2
  <2> QED
    BY <1>2, <2>1, <2>2, <2>3
<1>7. X = W \cup {np}
  BY <1>3 DEF Writing
<1>8. PICK S : ListIn(V, np, S) /\ S \cap W = {}
  BY <1>1 DEF Ledger, NowOK
<1>9. View(p, 0) = V[0]
  BY <1>1, <1>8, ListSeen
<1>10. PICK m \in 1..np : DOMAIN c = 0..(m - 1) /\ ListOK(c, m)
  BY <1>1 DEF Ledger, CommitOK
<1>11. /\ Len(new) = l + 1 /\ l \in Nat /\ new \in Seq(LogRec) /\ DOMAIN new = DOMAIN recs \cup {l + 1}
       /\ DOMAIN recs = 1..l /\ new[l + 1] = r /\ \A k \in DOMAIN recs : new[k] = recs[k]
  <2> HIDE DEF r
  <2> QED
    BY <1>2, <1>5, AppendFacts
<1> HIDE DEF r, np, W, X, V
<1>12. \A n \in 0..l : Redo(recs, c, n, np) = Zero /\ ~Known(p, c, np)
  <2>1. TAKE n \in 0..l
  <2>2. Mine(recs, n, np) = {}
    BY <1>2, <1>11 DEF Mine
  <2>3. np \notin DOMAIN c
    BY <1>2, <1>10
  <2> QED
    BY <1>2, <1>11, <2>2, <2>3 DEF Redo, First, Known
<1>13. \A n \in 0..l : ListOK(Image(new, c, n, np + 1), np + 1)
  <2>1. TAKE n \in 0..l
  <2> DEFINE A == Image(recs, c, n, np)
             B == Image(new, c, n, np + 1)
  <2>2. PICK T : ListIn(A, np, T)
    BY <1>1 DEF Ledger, PrefixesOK, ListOK, np
  <2>3. \A i \in 0..np : B[i] = Redo(recs, c, n, i)
    <3>1. TAKE i \in 0..np
    <3>2. B[i] = Redo(new, c, n, i)
      BY <1>2 DEF Image
    <3>3. Redo(new, c, n, i) = Redo(recs, c, n, i)
      BY <1>2, <1>5, RedoSame
    <3> QED
      BY <3>2, <3>3
  <2>4. \A i \in 0..(np - 1) : A[i] = Redo(recs, c, n, i)
    BY DEF Image
  <2> HIDE DEF A, B
  <2>5. B[np] = Zero /\ \A i \in 0..(np - 1) : B[i] = A[i]
    BY <1>2, <1>12, <2>3, <2>4
  <2>6. ListIn(B, np + 1, T \cup {np})
    BY <1>2, <2>2, <2>5, ListLonger
  <2> QED
    BY <2>6 DEF ListOK, B
<1>14. ListIn(U, np + 1, S)
  <2>1. U[0] = Root(np + 1)
    <3>1. U[0] = Redo(new, c, l + 1, 0)
      BY <1>2 DEF Image
    <3>2. Redo(new, c, l + 1, r.pg) = r.redo
      BY <1>2, <1>5, RedoNew
    <3> QED
      BY <1>5, <3>1, <3>2
  <2>2. \A i \in 1..(np - 1) : U[i] = V[i]
    <3>1. TAKE i \in 1..(np - 1)
    <3>2. i \in 0..np /\ i \in 0..(np - 1) /\ i # r.pg
      BY <1>2, <1>5
    <3>3. U[i] = Redo(new, c, l + 1, i)
      BY <1>2, <3>2 DEF Image
    <3>4. V[i] = Redo(recs, c, l, i)
      BY <3>2 DEF Image, V
    <3>5. Redo(new, c, l + 1, i) = Redo(recs, c, l, i)
      BY <1>2, <1>5, <3>2, RedoOther
    <3> QED
      BY <3>3, <3>4, <3>5
  <2>3. V[0].val = np
    <3>1. V[0].val \in S \cup {np} /\ S \subseteq 1..(np - 1)
      BY <1>8 DEF ListIn
    <3>2. V[0].val \notin DOMAIN p.store
      BY <1>3, <1>9
    <3>3. \A i \in 1..(np - 1) : i \in DOMAIN p.store
      BY <1>2
    <3> QED
      BY <3>1, <3>2, <3>3
  <2> HIDE DEF U
  <2> QED
    BY <1>2, <1>8, <2>1, <2>2, <2>3, ListBehind
<1>15. PrefixesOK(new, c, np + 1) /\ NowOK(new, c, np + 1, X)
  <2>1. S \subseteq 1..(np - 1)
    BY <1>8 DEF ListIn
  <2>2. S \cap X = {}
    BY <1>2, <1>7, <1>8, <2>1
  <2>3. NowOK(new, c, np + 1, X)
    BY <1>11, <1>14, <2>2 DEF NowOK
  <2>4. \A n \in 0..(l + 1) : n \in 0..l \/ n = l + 1
    BY <1>11
  <2>5. ListOK(U, np + 1)
    BY <1>14 DEF ListOK
  <2> QED
    BY <1>11, <1>13, <2>3, <2>4, <2>5 DEF PrefixesOK
<1>16. ServedOK(q, c, X)
  <2>1. SUFFICES ASSUME NEW i \in 0..np
                 PROVE  IF Known(q, c, i) THEN View(q, i) = Redo(new, c, l + 1, i)
                        ELSE i \in X /\ View(q, i) = Tombstone(i + 1)
    BY <1>3, <1>6, <1>11 DEF ServedOK
  <2>2. CASE i = 0
    <3>1. Known(q, c, i)
      BY <1>3, <1>5, <1>11, <2>2 DEF Known
    <3>2. Redo(new, c, l + 1, r.pg) = r.redo
      BY <1>2, <1>5, RedoNew
    <3> QED
      BY <1>3, <1>5, <2>2, <3>1, <3>2
  <2>3. CASE i # 0
    <3>1. Known(q, c, i) <=> Known(p, c, i)
      BY <1>3, <1>5, <1>11, <2>3 DEF Known
    <3>2. CASE i = np
      BY <1>3, <1>7, <1>11, <1>12, <3>1, <3>2
    <3>3. CASE i # np
      <4>1. i \in DOMAIN p.store \ {0}
        BY <1>2, <2>3, <3>3
      <4>2. IF Known(p, c, i) THEN View(p, i) = Redo(recs, c, l, i)
            ELSE i \in W /\ View(p, i) = Tombstone(i + 1)
        BY <1>1, <4>1 DEF Ledger, ServedOK
      <4>3. Redo(new, c, l + 1, i) = Redo(recs, c, l, i)
        BY <1>2, <1>5, <2>3, RedoOther
      <4> QED
        BY <1>3, <1>7, <3>1, <4>1, <4>2, <4>3
    <3> QED
      BY <3>2, <3>3
  <2> QED
    BY <2>2, <2>3
<1>17. UndoOK(new, c)
  <2>1. UndoOK(recs, c)
    BY <1>1 DEF Ledger
  <2>2. Mine(recs, l, 0) = {} => View(p, 0) = Found1(c, 0)
    BY <1>1, <1>4, FirstRecord
  <2> QED
    BY <1>2, <1>5, <2>1, <2>2, UndoAdded
<1>18. CommitOK(c, np + 1)
  BY <1>2, <1>10 DEF CommitOK
<1>19. LedgerTypes(q)
  BY <1>2, <1>3, <1>5, <1>6, <1>11 DEF LedgerTypes
<1>20. Ledger(q, c, X)
  BY <1>3, <1>6, <1>15, <1>16, <1>17, <1>18, <1>19 DEF Ledger
<1> QED
  BY <1>20 DEF Ledgered, X

LEMMA CallsLedger ==
  ASSUME NEW p, Sound(p, {}), NEW c, Ledgered(p, c), NEW q, Sound(q, {}), Calls(p, q)
  PROVE  Ledgered(q, c)
BY QuietLedger, SavesLedger, TakesLedger, GrowsLedger, DeletesLedger DEF Calls

-----------------------------------------------------------------------------
(* Every state of the pager has such a ledger.                             *)

LEMMA ListSame ==
  ASSUME NEW V, NEW W, NEW e \in Nat \ {0}, NEW S, ListIn(V, e, S), \A i \in 0..(e - 1) : W[i] = V[i]
  PROVE  ListIn(W, e, S)
<1>1. W[0] = V[0] /\ \A s \in S : W[s] = V[s]
  <2>1. 0 \in 0..(e - 1) /\ \A i \in 1..(e - 1) : i \in 0..(e - 1)
    OBVIOUS
  <2>2. S \subseteq 1..(e - 1)
    BY DEF ListIn
  <2> QED
    BY <2>1, <2>2
<1> QED
  BY <1>1 DEF ListIn

\* A log that begins with what is served.
LEMMA LedgerBegins ==
  ASSUME NEW q, Sound(q, {}), q.records = <<>>, \A i : ~Blocked(q, i),
         NEW c, DOMAIN c = DOMAIN q.store, \A i \in DOMAIN c : View(q, i) = c[i], ListOK(c, npages(q))
  PROVE  Ledgered(q, c)
<1> DEFINE np == npages(q)
<1>1. np \in Nat \ {0} /\ DOMAIN q.store = 0..(np - 1)
  BY StoreFacts DEF Sound
<1>2. q.records \in Seq(LogRec) /\ Len(q.records) = 0 /\ DOMAIN q.records = {}
  OBVIOUS
<1>3. \A n, pg : Mine(q.records, 0, pg) = {}
  BY DEF Mine
<1>4. \A pg : Redo(q.records, c, 0, pg) = First(c, pg)
  BY <1>3 DEF Redo
<1>5. Writing(q) = {}
  BY DEF Writing
<1>6. PICK S : ListIn(c, np, S)
  BY DEF ListOK
<1>7. ListIn(Image(q.records, c, 0, np), np, S)
  <2> DEFINE V == Image(q.records, c, 0, np)
  <2>1. \A i \in 0..(np - 1) : V[i] = c[i]
    BY <1>1, <1>4 DEF Image, First
  <2> HIDE DEF V, np
  <2>2. ListIn(V, np, S)
    BY <1>1, <1>6, <2>1, ListSame
  <2> QED
    BY <2>2 DEF V
<1>8. PrefixesOK(q.records, c, np) /\ NowOK(q.records, c, np, {})
  <2>1. \A n \in 0..0 : n = 0
    OBVIOUS
  <2> QED
    BY <1>2, <1>7, <2>1 DEF PrefixesOK, NowOK, ListOK
<1>9. ServedOK(q, c, {})
  BY <1>2, <1>4 DEF ServedOK, Known, First
<1>10. UndoOK(q.records, c)
  BY <1>2 DEF UndoOK
<1>11. CommitOK(c, np)
  <2>1. np \in 1..np
    BY <1>1
  <2> QED
    BY <1>1, <2>1 DEF CommitOK
<1>12. LedgerTypes(q)
  BY <1>1, <1>2 DEF LedgerTypes
<1> QED
  BY <1>5, <1>8, <1>9, <1>10, <1>11, <1>12 DEF Ledgered, Ledger

LEMMA LedgerStarts ==
  ASSUME BufInit
  PROVE  Ledgered(Buf, committed)
<1> DEFINE D == [q \in {0} |-> Root(1)]
           p == Buf
<1>1. Sound(p, {}) /\ Opened(p, D) /\ committed = D /\ Buf.store = store /\ store = D
  BY BufStarts DEF BufInv, BufInit, Buf
<1>2. D[0].kind = "root" /\ D[0].val = 1 /\ DOMAIN D = {0}
  BY DEF Root, Content
<1> HIDE DEF D, p
<1>3. \A i : View(p, i) = D[i] /\ ~Blocked(p, i)
  BY <1>1, <1>2, OpenedPool
<1>4. npages(p) = 1
  BY <1>1, <1>2, FS_Singleton DEF npages, p
<1>5. ListIn(D, 1, {})
  BY <1>2 DEF ListIn
<1>6. Ledgered(p, D)
  <2>1. p.records = <<>> /\ DOMAIN D = DOMAIN p.store /\ ListOK(D, npages(p))
    BY <1>1, <1>4, <1>5 DEF Opened, ListOK
  <2> QED
    BY <1>1, <1>3, <2>1, LedgerBegins
<1> QED
  BY <1>1, <1>6 DEF p

LEMMA BufPages ==
  ASSUME BufInv
  PROVE  /\ npages(Buf) \in Nat \ {0} /\ DOMAIN store = 0..(npages(Buf) - 1)
         /\ npages(Buf) = Cardinality(DOMAIN store)
BY StoreFacts, BufFields DEF BufInv, Sound, npages

LEMMA CommitLedger ==
  ASSUME BufInv, Ledgered(Buf, committed), Commit
  PROVE  Ledgered(Buf', committed')
<1> DEFINE p == Buf
           q == Buf'
           np == npages(p)
           c == committed'
           V == Image(records, committed, Len(records), np)
<1>1. /\ BufInv' /\ (\A i : View(q, i) = View(p, i) /\ ~Blocked(p, i) /\ ~Blocked(q, i))
      /\ c = [pg \in DOMAIN store |-> View(p, pg)]
  BY CommitKeepsInv
<1>2. Sound(q, {}) /\ q.records = <<>> /\ q.store = store
  BY <1>1 DEF BufInv, Commit, Buf
<1>3. p.records = records /\ p.store = store
  BY DEF Buf
<1>4. np \in Nat \ {0} /\ DOMAIN store = 0..(np - 1) /\ npages(q) = np
  BY <1>2, <1>3, BufPages DEF npages
<1> HIDE DEF p, q, c
<1>5. Ledger(p, committed, {})
  BY <1>1 DEF Ledgered, Writing, p
<1>6. \A i \in DOMAIN store : c[i] = V[i]
  <2>1. TAKE i \in DOMAIN store
  <2>2. View(p, i) = Redo(records, committed, Len(records), i)
    BY <1>3, <1>5 DEF Ledger, ServedOK
  <2> QED
    BY <1>1, <1>4, <2>2 DEF Image
<1>7. ListOK(V, np)
  <2>1. Len(records) \in 0..Len(records)
    BY BufTypes
  <2> QED
    BY <1>3, <1>5, <2>1 DEF Ledger, PrefixesOK
<1>8. ListOK(c, np)
  <2> HIDE DEF V, np
  <2>1. PICK S : ListIn(V, np, S)
    BY <1>7 DEF ListOK
  <2>2. ListIn(c, np, S)
    BY <1>4, <1>6, <2>1, ListSame
  <2> QED
    BY <2>2 DEF ListOK
<1>9. DOMAIN c = DOMAIN q.store /\ \A i \in DOMAIN c : View(q, i) = c[i]
  BY <1>1, <1>2
<1>10. Ledgered(q, c)
  BY <1>1, <1>2, <1>4, <1>8, <1>9, LedgerBegins
<1> QED
  BY <1>10 DEF q, c

\* The pages that a restart leaves.
LEMMA RecoveredList ==
  ASSUME BufInv, Ledgered(Buf, committed), NEW n \in 0..Len(records), NEW undo \in BOOLEAN,
         NEW D, DOMAIN D = DOMAIN store, \A pg \in DOMAIN store : D[pg] = Recovered(n, undo, pg)
  PROVE  ListOK(D, npages(Buf))
<1> DEFINE np == npages(Buf)
<1>1. Buf.records = records /\ Buf.store = store
  BY DEF Buf
<1>2. np \in Nat \ {0} /\ DOMAIN store = 0..(np - 1)
  BY BufPages
<1>3. /\ PrefixesOK(records, committed, np) /\ UndoOK(records, committed) /\ CommitOK(committed, np)
  BY <1>1 DEF Ledgered, Ledger
<1>4. \A pg : KeptOf(n, pg) = Mine(records, n, pg) /\ Before(pg) = First(committed, pg)
  BY DEF KeptOf, Mine, Before, First
<1> HIDE DEF np
<1>5. CASE undo = FALSE
  <2> DEFINE V == Image(records, committed, n, np)
  <2>1. \A i \in 0..(np - 1) : D[i] = V[i]
    <3>1. TAKE i \in 0..(np - 1)
    <3>2. Recovered(n, FALSE, i) = Redo(records, committed, n, i)
      <4> DEFINE M == Mine(records, n, i)
                 k == CHOOSE k \in M : \A j \in M : j <= k
      <4>1. KeptOf(n, i) = M /\ Before(i) = First(committed, i)
        BY <1>4
      <4>2. CASE M = {}
        BY <4>1, <4>2 DEF Recovered, Redo
      <4>3. CASE M # {}
        <5>1. Recovered(n, FALSE, i) = records[k].redo
          BY <4>1, <4>3 DEF Recovered
        <5>2. Redo(records, committed, n, i) = records[k].redo
          BY <4>3 DEF Redo
        <5> QED
          BY <5>1, <5>2
      <4> QED
        BY <4>2, <4>3
    <3> QED
      BY <1>2, <1>5, <3>2 DEF Image
  <2>2. ListOK(V, np)
    BY <1>3 DEF PrefixesOK
  <2> HIDE DEF V
  <2>3. PICK S : ListIn(V, np, S)
    BY <2>2 DEF ListOK
  <2>4. ListIn(D, np, S)
    BY <1>2, <2>1, <2>3, ListSame
  <2> QED
    BY <2>4 DEF ListOK, np
<1>6. CASE undo = TRUE
  <2>1. PICK m \in 1..np : DOMAIN committed = 0..(m - 1) /\ ListOK(committed, m)
    BY <1>3 DEF CommitOK
  <2>2. \A i \in 0..(np - 1) : D[i] = Found1(committed, i) \/ D[i] = First(committed, i)
    <3>1. TAKE i \in 0..(np - 1)
    <3>2. D[i] = Recovered(n, TRUE, i)
      BY <1>2, <1>6
    <3>3. CASE KeptOf(n, i) = {}
      BY <1>4, <3>2, <3>3, BufTypes, RecoveredIs
    <3>4. CASE KeptOf(n, i) # {}
      <4>1. PICK k \in KeptOf(n, i) : /\ \A j \in KeptOf(n, i) : k <= j
                                      /\ Recovered(n, TRUE, i) = records[k].undo
        BY <3>4, BufTypes, RecoveredIs
      <4>2. k \in 1..n /\ records[k].pg = i /\ k \in DOMAIN records /\ Len(records) \in Nat
        BY BufTypes DEF KeptOf
      <4>3. Mine(records, k - 1, i) = {}
        <5>1. ASSUME NEW j \in Mine(records, k - 1, i)
              PROVE  FALSE
          <6>1. j \in 1..(k - 1) /\ records[j].pg = i
            BY <5>1 DEF Mine
          <6>2. j \in KeptOf(n, i) /\ j \in Nat /\ ~(k <= j)
            BY <4>2, <6>1 DEF KeptOf
          <6> QED
            BY <4>1, <6>2
        <5> QED
          BY <5>1
      <4>4. records[k].undo = Found1(committed, i)
        BY <1>3, <4>2, <4>3 DEF UndoOK
      <4> QED
        BY <3>2, <4>1, <4>4
    <3> QED
      BY <3>3, <3>4
  <2>3. PICK S : ListIn(committed, m, S)
    BY <2>1 DEF ListOK
  <2>4. m \in Nat /\ 0 < m /\ m <= np
    BY <1>2, <2>1
  <2>5. \A i \in 0..(m - 1) : D[i] = committed[i]
    BY <1>2, <2>1, <2>2, <2>4 DEF Found1, First
  <2>6. \A i \in m..(np - 1) : D[i] = Zero \/ D[i] = Tombstone(i + 1)
    BY <1>2, <2>1, <2>2, <2>4 DEF Found1, First
  <2>7. ListIn(D, np, S \cup m..(np - 1))
    BY <1>2, <2>3, <2>4, <2>5, <2>6, ListExtended
  <2> QED
    BY <2>7 DEF ListOK, np
<1> QED
  BY <1>5, <1>6

LEMMA CrashLedger ==
  ASSUME BufInv, Ledgered(Buf, committed), NEW n \in Nat, NEW undo \in BOOLEAN, BufCrash(n, undo)
  PROVE  Ledgered(Buf', committed')
<1> DEFINE q == Buf'
           D == committed'
<1>1. n \in 0..Len(records)
  BY BufTypes DEF BufCrash
<1>2. Sound(q, {}) /\ Opened(q, D) /\ D[0].kind = "root" /\ q.store = D /\ q.records = <<>>
  BY CrashKeepsInv DEF BufInv, HistoryOK, BufCrash, Buf
<1>3. DOMAIN D = DOMAIN store /\ \A pg \in DOMAIN store : D[pg] = Recovered(n, undo, pg)
  BY DEF BufCrash
<1> HIDE DEF q, D
<1>4. ListOK(D, npages(Buf))
  BY <1>1, <1>3, RecoveredList
<1>5. npages(q) = npages(Buf)
  BY <1>2, <1>3, BufFields DEF npages
<1>6. \A i : View(q, i) = D[i] /\ ~Blocked(q, i)
  BY <1>2, OpenedPool
<1>7. Ledgered(q, D)
  BY <1>2, <1>4, <1>5, <1>6, LedgerBegins
<1> QED
  BY <1>7 DEF q, D

LEMMA NextLedger ==
  ASSUME BufInv, Ledgered(Buf, committed), BufNext
  PROVE  Ledgered(Buf', committed')
<1>1. BufInv' /\ (CallStep \/ Commit \/ \E n \in Nat, undo \in BOOLEAN : BufCrash(n, undo))
  BY BufNextKeepsInv
<1>2. CASE CallStep
  <2> DEFINE p == Buf
             q == Buf'
  <2>1. Sound(p, {}) /\ Sound(q, {}) /\ Calls(p, q) /\ committed' = committed
    BY <1>1, <1>2 DEF CallStep, BufInv
  <2> HIDE DEF p, q
  <2>2. Ledgered(q, committed)
    BY <2>1, CallsLedger DEF p
  <2> QED
    BY <2>1, <2>2 DEF q
<1>3. CASE Commit
  BY <1>3, CommitLedger
<1>4. CASE \E n \in Nat, undo \in BOOLEAN : BufCrash(n, undo)
  BY <1>4, CrashLedger
<1> QED
  BY <1>1, <1>2, <1>3, <1>4

-----------------------------------------------------------------------------
(* The theorems.                                                           *)

\* The inductive invariant.
LedgerInv == BufInv /\ Ledgered(Buf, committed)

\* In every state the pages are as the log has them, and what the log leaves of
\* them, up to any record, done or undone, has a list of free pages: a crash at any
\* point restarts with one (pgr_new, pgr_delete_and_release, pgr_restart).
THEOREM LedgerAlways == BufSpec => []LedgerInv
<1>1. BufInit => LedgerInv
  BY BufStarts, LedgerStarts DEF LedgerInv
<1>2. LedgerInv /\ [BufNext]_bufVars => LedgerInv'
  <2>1. SUFFICES ASSUME LedgerInv, [BufNext]_bufVars PROVE LedgerInv'
    OBVIOUS
  <2>2. CASE BufNext
    BY <2>1, <2>2, BufNextKeepsInv, NextLedger DEF LedgerInv
  <2>3. CASE UNCHANGED bufVars
    <3>1. Buf' = Buf /\ BufInv' /\ committed' = committed
      BY <2>1, <2>3, BufStutters DEF LedgerInv, bufVars
    <3> QED
      BY <2>1, <3>1 DEF LedgerInv
  <2> QED
    BY <2>1, <2>2, <2>3
<1> QED
  BY <1>1, <1>2, PTL DEF BufSpec

\* Every page of the file was written: only an opened file may have other ones.
Written(p) == \A pg \in DOMAIN p.store : View(p, pg).kind # "zero"

LEMMA CallsWrite ==
  ASSUME NEW p, Sound(p, {}), NEW q, Calls(p, q), Written(p)
  PROVE  Written(q)
<1>1. \A n : Root(n).kind = "root" /\ Tombstone(n).kind = "tombstone"
  BY DEF Root, Tombstone, Content
<1>2. CASE Quiet(p, q)
  BY <1>2 DEF Quiet, Kept, SameView, Written
<1>3. CASE Saves(p, q)
  BY <1>3 DEF Saves, Logged, Written
<1>4. CASE Takes(p, q)
  <2> DEFINE page == Root(View(p, View(p, 0).val).val)
  <2>1. Logged(p, q, 0, page) /\ page.kind = "root"
    BY <1>1, <1>4 DEF Takes
  <2> HIDE DEF page
  <2> QED
    BY <2>1 DEF Logged, Written
<1>5. CASE Grows(p, q)
  <2> DEFINE np == npages(p)
  <2>1. /\ DOMAIN q.store = DOMAIN p.store \cup {np} /\ View(q, np) = Tombstone(np + 1)
        /\ View(q, 0) = Root(np + 1) /\ \A i \in DOMAIN p.store \ {0} : View(q, i) = View(p, i)
    BY <1>5 DEF Grows
  <2> HIDE DEF np
  <2> QED
    BY <1>1, <2>1 DEF Written
<1>6. CASE Deletes(p, q)
  <2>p. PICK pg \in DOMAIN p.store \ {0} :
          \E t : Logged(p, t, pg, Tombstone(View(p, 0).val)) /\ Logged(t, q, 0, Root(pg))
    BY <1>6 DEF Deletes
  <2>1. PICK t : Logged(p, t, pg, Tombstone(View(p, 0).val)) /\ Logged(t, q, 0, Root(pg))
    BY <2>p
  <2>2. Written(t)
    BY <1>1, <2>1 DEF Logged, Written
  <2> QED
    BY <1>1, <2>1, <2>2 DEF Logged, Written
<1> QED
  BY <1>2, <1>3, <1>4, <1>5, <1>6 DEF Calls

\* What pgr_new may come to when the root page begins a list.
LEMMA CallsComeTo ==
  ASSUME NEW p, NEW c, Ledgered(p, c), NEW why, MayCome(p, why)
  PROVE  why \in {"ok", "full", "io"} \/ (why = "corrupt" /\ ~Written(p))
<1> DEFINE first == View(p, 0).val
           V == Image(p.records, c, Len(p.records), npages(p))
<1>1. Ledger(p, c, Writing(p)) /\ npages(p) \in Nat \ {0} /\ DOMAIN p.store = 0..(npages(p) - 1)
  BY DEF Ledgered, Ledger, LedgerTypes
<1>2. PICK S : ListIn(V, npages(p), S) /\ S \cap Writing(p) = {}
  BY <1>1 DEF Ledger, NowOK
<1>3. \A i \in S \cup {0} : i \in DOMAIN p.store /\ View(p, i) = V[i]
  BY <1>1, <1>2, ListSeen
<1> HIDE DEF V
<1>4. first \in S \cup {npages(p)} /\ S \subseteq 1..(npages(p) - 1)
  BY <1>2, <1>3 DEF ListIn
<1>5. \A s \in S : View(p, s).kind \in {"zero", "tombstone"} /\ ~Blocked(p, s)
  BY <1>2, <1>3 DEF ListIn, Writing
<1> HIDE DEF first
<1>6. first # 0
  BY <1>1, <1>4
<1>7. first \in DOMAIN p.store => first \in S
  BY <1>1, <1>4
<1>8. CASE first \in DOMAIN p.store /\ Refused(p, why, {"tombstone"}, first)
  <2>1. first \in S /\ View(p, first).kind \in {"zero", "tombstone"} /\ ~Blocked(p, first)
    BY <1>5, <1>7, <1>8
  <2>2. why = "full" \/ (why = "corrupt" /\ View(p, first).kind = "zero")
    BY <1>8, <2>1 DEF Refused
  <2> QED
    BY <1>8, <2>2 DEF Written
<1> QED
  BY <1>6, <1>8 DEF MayCome, NewRefused, first

\* Pages that were never written are what a crash left.
SuccessInv == /\ LedgerInv /\ bufFails \in Nat
              /\ bufFails = 0 => Written(Buf)
              /\ CallsSucceed

LEMMA FailsCounted ==
  ASSUME BufNext, bufFails \in Nat
  PROVE  bufFails' \in Nat /\ bufFails <= bufFails'
<1>1. bufFails' \in {bufFails, bufFails + 1}
  BY DEF BufNext, Get, MakeWritable, WritePage, Release, DeletePage, NewPage, Keep, Commit, BufCrash
<1> QED
  BY <1>1

LEMMA NextSuccess ==
  ASSUME SuccessInv, BufNext
  PROVE  SuccessInv'
<1>1. /\ BufInv' /\ (CallStep \/ Commit \/ \E n \in Nat, undo \in BOOLEAN : BufCrash(n, undo))
      /\ Ledgered(Buf', committed')
  BY BufNextKeepsInv, NextLedger DEF SuccessInv, LedgerInv
<1>2. bufFails \in Nat /\ bufFails' \in Nat /\ bufFails <= bufFails'
  BY FailsCounted DEF SuccessInv
<1>3. bufFails' = 0 => bufFails = 0
  BY <1>2
<1>4. bufFails > 0 => bufFails' > 0
  BY <1>2
<1>5. CASE CallStep
  <2> DEFINE p == Buf
             q == Buf'
  <2>1. /\ Sound(p, {}) /\ Ledgered(p, committed) /\ Calls(p, q) /\ MayCome(p, outcome')
        /\ bufFails = 0 => Written(p)
    BY <1>5 DEF CallStep, SuccessInv, LedgerInv, BufInv
  <2> HIDE DEF p, q
  <2>2. bufFails' = 0 => Written(q)
    BY <1>3, <2>1, CallsWrite
  <2>3. outcome' \in {"ok", "full", "io"} \/ (outcome' = "corrupt" /\ ~Written(p))
    BY <2>1, CallsComeTo
  <2>4. ~Written(p) => bufFails' > 0
    BY <1>2, <1>4, <2>1
  <2>5. CallsSucceed'
    BY <2>3, <2>4 DEF CallsSucceed
  <2>6. (bufFails = 0 => Written(Buf))'
    BY <2>2 DEF q, Written
  <2> QED
    BY <1>1, <1>2, <2>5, <2>6 DEF SuccessInv, LedgerInv
<1>6. CASE Commit
  <2>1. \A i : View(Buf', i) = View(Buf, i)
    BY <1>6, CommitKeepsInv DEF SuccessInv, LedgerInv
  <2>2. Buf'.store = Buf.store /\ outcome' = outcome /\ bufFails' = bufFails
    BY <1>6 DEF Commit, Buf
  <2>3. bufFails' = 0 => Written(Buf')
    BY <2>1, <2>2 DEF SuccessInv, Written
  <2>4. CallsSucceed'
    BY <2>2 DEF SuccessInv, CallsSucceed
  <2> QED
    BY <1>1, <1>2, <2>3, <2>4 DEF SuccessInv, LedgerInv
<1>7. CASE \E n \in Nat, undo \in BOOLEAN : BufCrash(n, undo)
  <2>1. outcome' = "crashed" /\ bufFails' = bufFails + 1
    BY <1>7 DEF BufCrash
  <2>2. bufFails' # 0 /\ CallsSucceed'
    BY <1>2, <2>1 DEF CallsSucceed
  <2> QED
    BY <1>1, <1>2, <2>2 DEF SuccessInv, LedgerInv
<1> QED
  BY <1>1, <1>5, <1>6, <1>7

LEMMA LedgerServes ==
  ASSUME LedgerInv
  PROVE  ServesLastSave
<1>1. BufInv /\ ServedOK(Buf, committed, Writing(Buf))
  BY DEF LedgerInv, Ledgered, Ledger
<1>2. SUFFICES ASSUME NEW pg \in DOMAIN store
               PROVE  Served(pg) = LastSaved(pg) \/ (LastSaved(pg) = Zero /\ HeldX(pg))
  BY DEF ServesLastSave
<1>3. LastSaved(pg) = Redo(records, committed, Len(records), pg)
  <2> DEFINE M == Mine(records, Len(records), pg)
             k == CHOOSE k \in M : \A j \in M : j <= k
  <2>1. KeptOf(Len(records), pg) = M /\ Before(pg) = First(committed, pg)
    BY DEF KeptOf, Mine, Before, First
  <2>2. CASE M = {}
    BY <2>1, <2>2 DEF LastSaved, Redo
  <2>3. CASE M # {}
    <3>1. LastSaved(pg) = records[k].redo
      BY <2>1, <2>3 DEF LastSaved
    <3>2. Redo(records, committed, Len(records), pg) = records[k].redo
      BY <2>3 DEF Redo
    <3> QED
      BY <3>1, <3>2
  <2> QED
    BY <2>2, <2>3
<1>4. CASE Known(Buf, committed, pg)
  BY <1>1, <1>3, <1>4, HandlesSeen, BufFields DEF ServedOK
<1>5. CASE ~Known(Buf, committed, pg)
  <2>1. HeldX(pg)
    BY <1>1, <1>5, HandlesSeen, BufFields DEF ServedOK, Writing
  <2>2. Redo(records, committed, Len(records), pg) = Zero
    <3>1. pg \notin DOMAIN committed /\ \A k \in DOMAIN records : records[k].pg # pg
      BY <1>5, BufFields DEF Known
    <3>2. Mine(records, Len(records), pg) = {}
      BY <1>1, <3>1, BufTypes DEF Mine
    <3> QED
      BY <3>1, <3>2 DEF Redo, First
  <2> QED
    BY <1>3, <2>1, <2>2
<1> QED
  BY <1>4, <1>5

\* A call for a page finds the page or has no frame for it, cannot extend the file
\* or meets what a crash left at the end, and never a page of the wrong kind or one
\* that is being written; the page is as it was saved last, by whomever, evicted,
\* read back and restarted as it may be (pgr_get to pgr_delete_and_release).
THEOREM PagesAreServed == BufSpec => []PagesServed
<1>1. BufInit => SuccessInv
  <2>1. SUFFICES ASSUME BufInit PROVE SuccessInv
    OBVIOUS
  <2> DEFINE D == [q \in {0} |-> Root(1)]
  <2>2. LedgerInv /\ Opened(Buf, D) /\ D[0].kind = "root"
    BY <2>1, BufStarts, LedgerStarts DEF LedgerInv, Root, Content
  <2>3. bufFails = 0 /\ CallsSucceed /\ DOMAIN Buf.store = {0}
    BY <2>1 DEF BufInit, CallsSucceed, Buf
  <2>4. View(Buf, 0) = D[0]
    <3> HIDE DEF D
    <3> QED
      BY <2>2, OpenedPool
  <2>5. Written(Buf)
    BY <2>2, <2>3, <2>4 DEF Written
  <2> QED
    BY <2>2, <2>3, <2>5 DEF SuccessInv
<1>2. SuccessInv /\ [BufNext]_bufVars => SuccessInv'
  <2>1. SUFFICES ASSUME SuccessInv, UNCHANGED bufVars PROVE SuccessInv'
    BY NextSuccess
  <2>2. Buf' = Buf /\ BufInv' /\ committed' = committed /\ bufFails' = bufFails /\ outcome' = outcome
    BY <2>1, BufStutters DEF SuccessInv, LedgerInv, bufVars
  <2> QED
    BY <2>1, <2>2 DEF SuccessInv, LedgerInv, CallsSucceed
<1>3. SuccessInv => PagesServed
  BY LedgerServes DEF SuccessInv, PagesServed
<1> QED
  BY <1>1, <1>2, <1>3, PTL DEF BufSpec

-----------------------------------------------------------------------------
(* The list of free pages, as it is followed from the root page.           *)

\* The pages up to the k-th of the list are a function.
LEMMA ListFollowed ==
  ASSUME NEW n \in Nat
  PROVE  \E g : g = [k \in 0..n |-> IF k = 0 THEN Served(0).val ELSE NextFree(g[k - 1])]
<1> DEFINE Walk(m) == \E g : g = [k \in 0..m |-> IF k = 0 THEN Served(0).val ELSE NextFree(g[k - 1])]
           Bad == {m \in Nat : ~Walk(m)}
<1>1. SUFFICES ASSUME Bad # {} PROVE FALSE
  OBVIOUS
<1>2. PICK m \in Bad : \A x \in Bad : m <= x
  <2>1. Bad \in SUBSET Nat
    OBVIOUS
  <2> HIDE DEF Bad
  <2> QED
    BY <1>1, <2>1, HasLeast
<1>3. CASE m = 0
  <2> DEFINE g == [k \in 0..0 |-> Served(0).val]
  <2>1. g = [k \in 0..0 |-> IF k = 0 THEN Served(0).val ELSE NextFree(g[k - 1])]
    OBVIOUS
  <2>2. Walk(0)
    BY <2>1
  <2> QED
    BY <1>2, <1>3, <2>2
<1>4. CASE m # 0
  <2>1. m - 1 \in Nat /\ m \in Nat /\ ~(m <= m - 1)
    BY <1>2, <1>4
  <2>2. Walk(m - 1)
    BY <1>2, <2>1
  <2>3. PICK g : g = [k \in 0..(m - 1) |-> IF k = 0 THEN Served(0).val ELSE NextFree(g[k - 1])]
    BY <2>2
  <2> DEFINE h == [k \in 0..m |-> IF k = m THEN NextFree(g[m - 1]) ELSE g[k]]
  <2>4. \A k \in 0..m : h[k] = IF k = 0 THEN Served(0).val ELSE NextFree(h[k - 1])
    <3>1. TAKE k \in 0..m
    <3>2. CASE k = m
      <4>1. h[m - 1] = g[m - 1] /\ h[m] = NextFree(g[m - 1])
        BY <2>1
      <4> QED
        BY <1>4, <3>2, <4>1
    <3>3. CASE k # m
      <4>1. k \in 0..(m - 1) /\ h[k] = g[k]
        BY <2>1, <3>3
      <4>2. g[k] = IF k = 0 THEN Served(0).val ELSE NextFree(g[k - 1])
        BY <2>3, <4>1
      <4>3. k # 0 => h[k - 1] = g[k - 1]
        BY <2>1, <4>1
      <4> QED
        BY <4>1, <4>2, <4>3
    <3> QED
      BY <3>2, <3>3
  <2>5. h = [k \in 0..m |-> IF k = 0 THEN Served(0).val ELSE NextFree(h[k - 1])]
    <3>1. h = [k \in 0..m |-> h[k]]
      OBVIOUS
    <3> HIDE DEF h
    <3> QED
      BY <2>4, <3>1
  <2>6. Walk(m)
    BY <2>5
  <2> QED
    BY <1>2, <2>6
<1> QED
  BY <1>3, <1>4

LEMMA ListSteps ==
  /\ FreeList[0] = Served(0).val
  /\ \A k \in 0..MaxPages : k # 0 => FreeList[k] = NextFree(FreeList[k - 1])
<1>1. \E g : g = [k \in 0..MaxPages |-> IF k = 0 THEN Served(0).val ELSE NextFree(g[k - 1])]
  BY ListFollowed, BufAssumption
<1>2. FreeList = [k \in 0..MaxPages |-> IF k = 0 THEN Served(0).val ELSE NextFree(FreeList[k - 1])]
  BY <1>1, Zenon DEF FreeList
<1> HIDE DEF FreeList
<1>3. 0 \in 0..MaxPages
  BY BufAssumption
<1> QED
  BY <1>2, <1>3

\* Whoever is on the list stays in what the list closes.
LEMMA ListStays ==
  ASSUME NEW T, Served(0).val \in T, \A i \in T : NextFree(i) \in T
  PROVE  \A k \in 0..MaxPages : FreeList[k] \in T
<1> DEFINE Bad == {k \in 0..MaxPages : FreeList[k] \notin T}
<1>1. SUFFICES ASSUME Bad # {} PROVE FALSE
  OBVIOUS
<1>2. PICK m \in Bad : \A x \in Bad : m <= x
  <2>1. Bad \in SUBSET Nat
    OBVIOUS
  <2> HIDE DEF Bad
  <2> QED
    BY <1>1, <2>1, HasLeast
<1>3. m # 0
  BY <1>2, ListSteps
<1>4. m \in 0..MaxPages /\ m - 1 \in 0..MaxPages /\ ~(m <= m - 1)
  BY <1>2, <1>3, BufAssumption
<1>5. FreeList[m - 1] \in T
  BY <1>2, <1>4
<1>6. FreeList[m] = NextFree(FreeList[m - 1])
  BY <1>3, <1>4, ListSteps
<1> QED
  BY <1>2, <1>5, <1>6

LEMMA LedgerUnused ==
  ASSUME LedgerInv
  PROVE  UsedNotFree
<1> DEFINE np == npages(Buf)
           V == Image(Buf.records, committed, Len(Buf.records), np)
<1>1. BufInv /\ Ledger(Buf, committed, Writing(Buf))
  BY DEF LedgerInv, Ledgered
<1>2. PICK S : ListIn(V, np, S) /\ S \cap Writing(Buf) = {}
  BY <1>1 DEF Ledger, NowOK
<1>3. \A i \in S \cup {0} : i \in DOMAIN store /\ Served(i) = V[i]
  BY <1>1, <1>2, ListSeen, HandlesSeen, BufFields
<1>4. np \in Nat \ {0} /\ DOMAIN store = 0..(np - 1)
  BY <1>1, BufPages
<1> HIDE DEF V, np
<1>5. \A s \in S : /\ Served(s).kind \in {"zero", "tombstone"}
                   /\ Served(s).kind = "tombstone" => Served(s).val \in S \cup {np}
  BY <1>2, <1>3 DEF ListIn
<1>6. Served(0).val \in S \cup {np}
  BY <1>2, <1>3 DEF ListIn
<1>7. np \notin DOMAIN store
  BY <1>4
<1>8. \A i \in S \cup {np} : NextFree(i) \in S \cup {np}
  BY <1>5, <1>7 DEF NextFree
<1>9. \A k \in 0..MaxPages : FreeList[k] \in S \cup {np}
  BY <1>6, <1>8, ListStays
<1>10. OnFreeList \subseteq S
  BY <1>7, <1>9 DEF OnFreeList
<1>11. \A s \in S : ~HeldX(s)
  BY <1>1, <1>2, <1>3, HandlesSeen, BufFields DEF Writing
<1> QED
  BY <1>5, <1>10, <1>11 DEF UsedNotFree

-----------------------------------------------------------------------------
(* A file that nothing failed in: the list has every page that is not used.*)

\* Nothing smaller than the whole list has the first of it and with every page
\* the next one.
ListAll(V, e, S) ==
  /\ ListIn(V, e, S) /\ \A s \in S : V[s].kind = "tombstone"
  /\ \A T : T \subseteq S \cup {e} /\ V[0].val \in T /\ (\A t \in T \cap S : V[t].val \in T) =>
            S \cup {e} \subseteq T

LEMMA AllSaved ==
  ASSUME NEW V, NEW W, NEW e \in Nat, NEW S, ListAll(V, e, S), NEW pg \in 1..(e - 1), pg \notin S,
         NEW page, PutAt(V, W, e, pg, page)
  PROVE  ListAll(W, e, S)
<1>1. W[0] = V[0] /\ \A s \in S : W[s] = V[s]
  BY DEF ListAll, ListIn, PutAt
<1>2. ListIn(W, e, S)
  BY ListSaved DEF ListAll
<1> QED
  BY <1>1, <1>2 DEF ListAll

LEMMA AllTaken ==
  ASSUME NEW V, NEW W, NEW e \in Nat, NEW S, ListAll(V, e, S), V[0].val \in S,
         PutAt(V, W, e, 0, Root(V[V[0].val].val))
  PROVE  ListAll(W, e, S \ {V[0].val})
<1> DEFINE first == V[0].val
           second == V[first].val
           Q == S \ {first}
<1>1. ListIn(W, e, Q)
  BY ListTaken DEF ListAll
<1>2. W[0].val = second /\ \A s \in S : W[s] = V[s]
  BY DEF ListAll, ListIn, PutAt, Root, Content
<1>3. first \in S /\ S \subseteq 1..(e - 1) /\ e \notin S
  BY DEF ListAll, ListIn
<1>4. \A T : T \subseteq S \cup {e} /\ first \in T /\ (\A t \in T \cap S : V[t].val \in T) =>
             S \cup {e} \subseteq T
  BY DEF ListAll
<1>5. ASSUME NEW T, T \subseteq Q \cup {e}, second \in T, \A t \in T \cap Q : W[t].val \in T
      PROVE  Q \cup {e} \subseteq T
  <2> DEFINE U == T \cup {first}
  <2>1. U \subseteq S \cup {e} /\ first \in U
    BY <1>3, <1>5
  <2>2. \A t \in U \cap S : V[t].val \in U
    <3>1. TAKE t \in U \cap S
    <3>2. CASE t = first
      BY <1>5, <3>2
    <3>3. CASE t # first
      <4>1. t \in T \cap Q
        BY <3>1, <3>3
      <4> QED
        BY <1>2, <1>5, <4>1
    <3> QED
      BY <3>2, <3>3
  <2> HIDE DEF U
  <2>3. S \cup {e} \subseteq U
    BY <1>4, <2>1, <2>2
  <2> QED
    BY <1>3, <2>3 DEF U
<1>6. \A s \in Q : W[s].kind = "tombstone"
  BY <1>2 DEF ListAll
<1> QED
  BY <1>1, <1>2, <1>5, <1>6 DEF ListAll

LEMMA AllPut ==
  ASSUME NEW V, NEW W, NEW e \in Nat, NEW S, ListAll(V, e, S), NEW pg \in 1..(e - 1), pg \notin S,
         V[pg] = Tombstone(V[0].val), PutAt(V, W, e, 0, Root(pg))
  PROVE  ListAll(W, e, S \cup {pg})
<1> DEFINE first == V[0].val
           Q == S \cup {pg}
<1>1. ListIn(W, e, Q)
  BY ListPut DEF ListAll
<1>2. W[0].val = pg /\ (\A s \in S : W[s] = V[s]) /\ W[pg] = V[pg]
  BY DEF ListAll, ListIn, PutAt, Root, Content
<1>3. V[pg].kind = "tombstone" /\ V[pg].val = first
  BY DEF Tombstone, Content
<1>4. first \in S \cup {e} /\ S \subseteq 1..(e - 1) /\ pg # e
  BY DEF ListAll, ListIn
<1>5. \A T : T \subseteq S \cup {e} /\ first \in T /\ (\A t \in T \cap S : V[t].val \in T) =>
             S \cup {e} \subseteq T
  BY DEF ListAll
<1>6. \A s \in S : V[s].val \in S \cup {e}
  BY DEF ListAll, ListIn
<1> HIDE DEF first
<1>7. ASSUME NEW T, T \subseteq Q \cup {e}, pg \in T, \A t \in T \cap Q : W[t].val \in T
      PROVE  Q \cup {e} \subseteq T
  <2> DEFINE U == T \ {pg}
  <2>1. U \subseteq S \cup {e}
    BY <1>7
  <2>2. first \in U
    <3>1. W[pg].val \in T
      BY <1>7
    <3>2. first # pg
      BY <1>4
    <3> QED
      BY <1>2, <1>3, <3>1, <3>2
  <2>3. \A t \in U \cap S : V[t].val \in U
    <3>1. TAKE t \in U \cap S
    <3>2. W[t].val \in T /\ W[t] = V[t]
      BY <1>2, <1>7, <3>1
    <3>3. V[t].val # pg
      BY <1>4, <1>6, <3>1
    <3> QED
      BY <3>2, <3>3
  <2> HIDE DEF U
  <2>4. S \cup {e} \subseteq U
    BY <1>5, <2>1, <2>2, <2>3
  <2> QED
    BY <1>7, <2>4 DEF U
<1>8. \A s \in Q : W[s].kind = "tombstone"
  BY <1>2, <1>3 DEF ListAll
<1> QED
  BY <1>1, <1>2, <1>7, <1>8 DEF ListAll

\* A list that begins at the end is empty.
LEMMA AllEmpty ==
  ASSUME NEW V, NEW e \in Nat, NEW S, ListAll(V, e, S), V[0].val = e
  PROVE  S = {}
<1>1. e \notin S
  BY DEF ListAll, ListIn
<1>2. {e} \subseteq S \cup {e} /\ e \in {e} /\ \A t \in {e} \cap S : V[t].val \in {e}
  BY <1>1
<1>3. S \cup {e} \subseteq {e}
  BY <1>2 DEF ListAll
<1> QED
  BY <1>1, <1>3

\* The pages as they are served, and a list of all that are not used.
Views(p) == [i \in DOMAIN p.store |-> View(p, i)]
AllListed(p, S) ==
  /\ ListAll(Views(p), npages(p), S) /\ S \cap Writing(p) = {}
  /\ \A i \in DOMAIN p.store \ {0} : i \in S \/ View(p, i).kind = "data" \/ Blocked(p, i)
NoneLost(p) == \E S : AllListed(p, S)

LEMMA LoggedPut ==
  ASSUME NEW p, DOMAIN p.store = 0..(npages(p) - 1), NEW q, NEW pg \in DOMAIN p.store, NEW page,
         Logged(p, q, pg, page)
  PROVE  /\ PutAt(Views(p), Views(q), npages(p), pg, page) /\ npages(q) = npages(p)
         /\ DOMAIN q.store = DOMAIN p.store
BY DEF Logged, PutAt, Views, npages

LEMMA GrownPages ==
  ASSUME NEW p, Sound(p, {}), NEW q, Sound(q, {}), DOMAIN q.store = DOMAIN p.store \cup {npages(p)}
  PROVE  npages(q) = npages(p) + 1 /\ DOMAIN q.store = 0..npages(p)
<1> DEFINE np == npages(p)
<1>1. np \in Nat \ {0} /\ DOMAIN p.store = 0..(np - 1)
  BY StoreFacts DEF Sound
<1> HIDE DEF np
<1>2. DOMAIN q.store = 0..np
  BY <1>1 DEF np
<1>3. npages(q) \in Nat \ {0} /\ DOMAIN q.store = 0..(npages(q) - 1)
  BY StoreFacts DEF Sound
<1>4. np \in 0..(npages(q) - 1) /\ npages(q) - 1 \in 0..np
  BY <1>1, <1>2, <1>3
<1>5. npages(q) = np + 1
  BY <1>1, <1>3, <1>4
<1> QED
  BY <1>2, <1>5 DEF np

\* What the pages of the list are, as they are served.
LEMMA ListedPages ==
  ASSUME NEW p, Sound(p, {}), NEW S, AllListed(p, S)
  PROVE  /\ S \subseteq DOMAIN p.store \ {0} /\ npages(p) \notin S /\ npages(p) \notin DOMAIN p.store
         /\ npages(p) \in Nat \ {0} /\ DOMAIN p.store = 0..(npages(p) - 1)
         /\ View(p, 0).val \in S \cup {npages(p)} /\ Views(p)[0] = View(p, 0)
         /\ \A s \in S : /\ View(p, s).kind = "tombstone" /\ ~Blocked(p, s) /\ Views(p)[s] = View(p, s)
                         /\ View(p, s).val \in S \cup {npages(p)}
<1> DEFINE np == npages(p)
           V == Views(p)
<1>1. np \in Nat \ {0} /\ DOMAIN p.store = 0..(np - 1)
  BY StoreFacts DEF Sound
<1>2. \A i \in DOMAIN p.store : V[i] = View(p, i)
  BY DEF Views
<1>3. ListAll(V, np, S) /\ S \cap Writing(p) = {}
  BY DEF AllListed
<1> HIDE DEF np, V
<1>4. /\ S \subseteq 1..(np - 1) /\ V[0].val \in S \cup {np}
      /\ \A s \in S : V[s].kind = "tombstone" /\ V[s].val \in S \cup {np}
  BY <1>3 DEF ListAll, ListIn
<1>5. S \subseteq DOMAIN p.store \ {0} /\ np \notin S /\ np \notin DOMAIN p.store
  BY <1>1, <1>4
<1>6. \A s \in S : ~Blocked(p, s)
  BY <1>3, <1>5 DEF Writing
<1> QED
  BY <1>1, <1>2, <1>4, <1>5, <1>6 DEF np, V

LEMMA QuietLoses ==
  ASSUME NEW p, Sound(p, {}), NEW q, Quiet(p, q), NoneLost(p)
  PROVE  NoneLost(q)
<1>1. PICK S : AllListed(p, S)
  BY DEF NoneLost
<1>2. DOMAIN q.store = DOMAIN p.store /\ \A i \in DOMAIN p.store : View(q, i) = View(p, i)
  BY DEF Quiet, Kept, SameView
<1>3. Views(q) = Views(p) /\ npages(q) = npages(p)
  BY <1>2 DEF Views, npages
<1>4. \A s \in S : s \in DOMAIN p.store /\ View(p, s).kind # "data" /\ ~Blocked(p, s)
  BY <1>1, ListedPages
<1>5. S \cap Writing(q) = {}
  BY <1>2, <1>4 DEF Quiet, Writing
<1> QED
  BY <1>1, <1>2, <1>3, <1>5 DEF Quiet, AllListed, NoneLost

LEMMA SavesLoses ==
  ASSUME NEW p, Sound(p, {}), NEW q, Saves(p, q), NoneLost(p)
  PROVE  NoneLost(q)
<1>1. PICK S : AllListed(p, S)
  BY DEF NoneLost
<1>2. PICK pg \in DOMAIN p.store \ {0}, page \in Page :
        /\ Blocked(p, pg) /\ page.kind = "data" /\ Logged(p, q, pg, page)
        /\ \A i \in DOMAIN p.store : Blocked(q, i) <=> Blocked(p, i) /\ i # pg
  BY DEF Saves
<1>3. /\ npages(p) \in Nat \ {0} /\ DOMAIN p.store = 0..(npages(p) - 1) /\ S \subseteq DOMAIN p.store
      /\ pg \notin S /\ \A s \in S : ~Blocked(p, s)
  BY <1>1, <1>2, ListedPages
<1>4. /\ PutAt(Views(p), Views(q), npages(p), pg, page) /\ npages(q) = npages(p)
      /\ DOMAIN q.store = DOMAIN p.store
  BY <1>2, <1>3, LoggedPut
<1>5. pg \in 1..(npages(p) - 1) /\ npages(p) \in Nat
  BY <1>2, <1>3
<1>6. ListAll(Views(p), npages(p), S)
  BY <1>1 DEF AllListed
<1>7. ListAll(Views(q), npages(p), S)
  BY <1>3, <1>4, <1>5, <1>6, AllSaved
<1>8. S \cap Writing(q) = {}
  BY <1>2, <1>3, <1>4 DEF Writing
<1>9. \A i \in DOMAIN q.store \ {0} : i \in S \/ View(q, i).kind = "data" \/ Blocked(q, i)
  BY <1>1, <1>2, <1>4 DEF AllListed, Logged
<1> QED
  BY <1>4, <1>7, <1>8, <1>9 DEF AllListed, NoneLost

LEMMA TakesLoses ==
  ASSUME NEW p, Sound(p, {}), NEW q, Takes(p, q), NoneLost(p)
  PROVE  NoneLost(q)
<1> DEFINE first == View(p, 0).val
           page == Root(View(p, first).val)
<1>1. PICK S : AllListed(p, S)
  BY DEF NoneLost
<1>2. /\ first \in DOMAIN p.store /\ Logged(p, q, 0, page)
      /\ \A i \in DOMAIN p.store : Blocked(q, i) <=> Blocked(p, i) \/ i = first
  BY DEF Takes
<1>3. /\ npages(p) \in Nat \ {0} /\ DOMAIN p.store = 0..(npages(p) - 1) /\ S \subseteq DOMAIN p.store \ {0}
      /\ first \in S /\ Views(p)[0].val = first /\ Views(p)[first] = View(p, first)
      /\ \A s \in S : ~Blocked(p, s)
  BY <1>1, <1>2, ListedPages
<1>4. 0 \in DOMAIN p.store /\ npages(p) \in Nat
  BY <1>3
<1>5. /\ PutAt(Views(p), Views(q), npages(p), 0, page) /\ npages(q) = npages(p)
      /\ DOMAIN q.store = DOMAIN p.store
  BY <1>2, <1>3, <1>4, LoggedPut
<1>6. page = Root(Views(p)[Views(p)[0].val].val)
  BY <1>3
<1> HIDE DEF first, page
<1>7. ListAll(Views(q), npages(p), S \ {first})
  <2>1. ListAll(Views(p), npages(p), S)
    BY <1>1 DEF AllListed
  <2>2. ListAll(Views(q), npages(p), S \ {Views(p)[0].val})
    BY <1>3, <1>4, <1>5, <1>6, <2>1, AllTaken
  <2> QED
    BY <1>3, <2>2
<1>8. (S \ {first}) \cap Writing(q) = {}
  BY <1>2, <1>3, <1>5 DEF Writing
<1>9. \A i \in DOMAIN q.store \ {0} : i \in S \ {first} \/ View(q, i).kind = "data" \/ Blocked(q, i)
  BY <1>1, <1>2, <1>5 DEF AllListed, Logged
<1> QED
  BY <1>5, <1>7, <1>8, <1>9 DEF AllListed, NoneLost

LEMMA GrowsLoses ==
  ASSUME NEW p, Sound(p, {}), NEW q, Sound(q, {}), Grows(p, q), NoneLost(p)
  PROVE  NoneLost(q)
<1> DEFINE np == npages(p)
<1>1. PICK S : AllListed(p, S)
  BY DEF NoneLost
<1>2. /\ View(p, 0).val \notin DOMAIN p.store /\ DOMAIN q.store = DOMAIN p.store \cup {np}
      /\ View(q, 0) = Root(np + 1) /\ \A i \in DOMAIN p.store \ {0} : View(q, i) = View(p, i)
      /\ \A i \in DOMAIN q.store : Blocked(q, i) <=> Blocked(p, i) \/ i = np
  BY DEF Grows
<1>3. /\ np \in Nat \ {0} /\ DOMAIN p.store = 0..(np - 1) /\ S \subseteq DOMAIN p.store \ {0}
      /\ View(p, 0).val \in S \cup {np} /\ Views(p)[0] = View(p, 0)
  BY <1>1, ListedPages
<1>4. S = {}
  <2>1. Views(p)[0].val = np /\ ListAll(Views(p), np, S) /\ np \in Nat
    BY <1>1, <1>2, <1>3 DEF AllListed
  <2> HIDE DEF np
  <2> QED
    BY <2>1, AllEmpty
<1>5. npages(q) = np + 1 /\ DOMAIN q.store = 0..np
  BY <1>2, GrownPages
<1> HIDE DEF np
<1>6. Views(q)[0].kind = "root" /\ Views(q)[0].val = np + 1
  BY <1>2, <1>3, <1>5 DEF Views, Root, Content
<1>7. ListAll(Views(q), np + 1, {})
  BY <1>6 DEF ListAll, ListIn
<1>8. \A i \in DOMAIN q.store \ {0} : i \in {} \/ View(q, i).kind = "data" \/ Blocked(q, i)
  BY <1>1, <1>2, <1>4 DEF AllListed
<1> QED
  BY <1>5, <1>7, <1>8 DEF AllListed, NoneLost

LEMMA DeletesLoses ==
  ASSUME NEW p, Sound(p, {}), NEW q, Deletes(p, q), NoneLost(p)
  PROVE  NoneLost(q)
<1> DEFINE first == View(p, 0).val
           np == npages(p)
<1>1. PICK S : AllListed(p, S)
  BY DEF NoneLost
<1>p. PICK pg \in DOMAIN p.store \ {0} :
        /\ Blocked(p, pg) \/ View(p, pg).kind = "data"
        /\ \E t : Logged(p, t, pg, Tombstone(first)) /\ Logged(t, q, 0, Root(pg))
        /\ \A i \in DOMAIN p.store : Blocked(q, i) <=> Blocked(p, i) /\ i # pg
  BY DEF Deletes
<1>2. PICK t : /\ Blocked(p, pg) \/ View(p, pg).kind = "data"
               /\ Logged(p, t, pg, Tombstone(first)) /\ Logged(t, q, 0, Root(pg))
               /\ \A i \in DOMAIN p.store : Blocked(q, i) <=> Blocked(p, i) /\ i # pg
  BY <1>p
<1>3. /\ np \in Nat \ {0} /\ DOMAIN p.store = 0..(np - 1) /\ S \subseteq DOMAIN p.store \ {0}
      /\ Views(p)[0] = View(p, 0) /\ \A s \in S : ~Blocked(p, s) /\ View(p, s).kind = "tombstone"
  BY <1>1, ListedPages
<1>4. pg \notin S /\ pg \in 1..(np - 1) /\ 0 \in DOMAIN p.store /\ np \in Nat
  BY <1>2, <1>3
<1>5. /\ PutAt(Views(p), Views(t), np, pg, Tombstone(first)) /\ npages(t) = np
      /\ DOMAIN t.store = DOMAIN p.store
  BY <1>2, <1>3, LoggedPut
<1>6. PutAt(Views(t), Views(q), np, 0, Root(pg)) /\ npages(q) = np /\ DOMAIN q.store = DOMAIN p.store
  BY <1>2, <1>3, <1>4, <1>5, LoggedPut
<1>7. ListAll(Views(t), np, S)
  <2>1. ListAll(Views(p), np, S)
    BY <1>1 DEF AllListed
  <2> HIDE DEF np
  <2> QED
    BY <1>4, <1>5, <2>1, AllSaved
<1>8. Views(t)[pg] = Tombstone(Views(t)[0].val)
  <2>1. Views(t)[0] = Views(p)[0]
    BY <1>3, <1>4, <1>5 DEF PutAt
  <2> QED
    BY <1>3, <1>5, <2>1 DEF PutAt
<1>9. ListAll(Views(q), np, S \cup {pg})
  <2> HIDE DEF np
  <2> QED
    BY <1>4, <1>6, <1>7, <1>8, AllPut
<1>10. (S \cup {pg}) \cap Writing(q) = {}
  BY <1>2, <1>3, <1>6 DEF Writing
<1>11. \A i \in DOMAIN q.store \ {0} : i \in S \cup {pg} \/ View(q, i).kind = "data" \/ Blocked(q, i)
  BY <1>1, <1>2, <1>5, <1>6 DEF AllListed, Logged
<1> QED
  BY <1>6, <1>9, <1>10, <1>11 DEF AllListed, NoneLost

LEMMA CallsLose ==
  ASSUME NEW p, Sound(p, {}), NEW q, Sound(q, {}), Calls(p, q), NoneLost(p)
  PROVE  NoneLost(q)
BY QuietLoses, SavesLoses, TakesLoses, GrowsLoses, DeletesLoses DEF Calls

\* Only pgr_new makes the file longer, and no file is longer than the bound.
LEMMA CallsLengthen ==
  ASSUME NEW p, NEW q, Sound(p, {}), Sound(q, {}), Calls(p, q)
  PROVE  npages(q) \in {npages(p), npages(p) + 1}
<1>1. CASE Grows(p, q)
  <2>1. DOMAIN q.store = DOMAIN p.store \cup {npages(p)}
    BY <1>1 DEF Grows
  <2> QED
    BY <2>1, GrownPages
<1>2. CASE ~Grows(p, q)
  <2>1. DOMAIN q.store = DOMAIN p.store
    BY <1>2 DEF Calls, Quiet, Kept, SameView, Saves, Takes, Deletes, Logged
  <2> QED
    BY <2>1 DEF npages
<1> QED
  BY <1>1, <1>2

ExactInv == /\ LedgerInv /\ bufFails \in Nat /\ npages(Buf) <= MaxPages + 1
            /\ bufFails = 0 => NoneLost(Buf)

LEMMA NextExact ==
  ASSUME ExactInv, BufNext
  PROVE  ExactInv'
<1>1. /\ BufInv' /\ (CallStep \/ Commit \/ \E n \in Nat, undo \in BOOLEAN : BufCrash(n, undo))
      /\ Ledgered(Buf', committed')
  BY BufNextKeepsInv, NextLedger DEF ExactInv, LedgerInv
<1>2. bufFails \in Nat /\ bufFails' \in Nat /\ bufFails <= bufFails'
  BY FailsCounted DEF ExactInv
<1>3. bufFails' = 0 => bufFails = 0
  BY <1>2
<1>4. npages(Buf) \in Nat /\ npages(Buf) = Cardinality(DOMAIN store) /\ npages(Buf) <= MaxPages + 1
  BY BufPages DEF ExactInv, LedgerInv
<1>5. CASE CallStep
  <2> DEFINE p == Buf
             q == Buf'
  <2>1. /\ Sound(p, {}) /\ Sound(q, {}) /\ Calls(p, q) /\ (bufFails = 0 => NoneLost(p))
        /\ p.store = store /\ q.store = store'
    BY <1>1, <1>5 DEF CallStep, ExactInv, LedgerInv, BufInv, Buf
  <2>2. DOMAIN store' = DOMAIN store \/ npages(p) < MaxPages
    BY <1>4, <1>5 DEF CallStep
  <2> HIDE DEF p, q
  <2>3. bufFails' = 0 => NoneLost(q)
    BY <1>3, <2>1, CallsLose
  <2>4. npages(q) <= MaxPages + 1
    <3>1. CASE DOMAIN store' = DOMAIN store
      BY <1>4, <2>1, <3>1 DEF npages, p
    <3>2. CASE npages(p) < MaxPages
      <4>1. npages(q) \in {npages(p), npages(p) + 1}
        BY <2>1, CallsLengthen
      <4> QED
        BY <1>4, <3>2, <4>1, BufAssumption DEF p
    <3> QED
      BY <2>2, <3>1, <3>2
  <2>5. npages(Buf') <= MaxPages + 1 /\ (bufFails' = 0 => NoneLost(Buf'))
    BY <2>3, <2>4 DEF q
  <2> QED
    BY <1>1, <1>2, <2>5 DEF ExactInv, LedgerInv
<1>6. CASE Commit
  <2> DEFINE p == Buf
             q == Buf'
  <2>1. \A i : View(q, i) = View(p, i) /\ ~Blocked(p, i) /\ ~Blocked(q, i)
    BY <1>6, CommitKeepsInv DEF ExactInv, LedgerInv
  <2>2. q.store = p.store /\ bufFails' = bufFails
    BY <1>6 DEF Commit, Buf
  <2>3. npages(p) <= MaxPages + 1 /\ (bufFails = 0 => NoneLost(p))
    BY DEF ExactInv
  <2> HIDE DEF p, q
  <2>4. npages(q) = npages(p) /\ Views(q) = Views(p) /\ Writing(q) = Writing(p)
    BY <2>1, <2>2 DEF npages, Views, Writing
  <2>5. bufFails' = 0 => NoneLost(q)
    BY <2>1, <2>2, <2>3, <2>4 DEF NoneLost, AllListed
  <2>6. npages(Buf') <= MaxPages + 1 /\ (bufFails' = 0 => NoneLost(Buf'))
    BY <2>3, <2>4, <2>5 DEF q
  <2> QED
    BY <1>1, <1>2, <2>6 DEF ExactInv, LedgerInv
<1>7. CASE \E n \in Nat, undo \in BOOLEAN : BufCrash(n, undo)
  <2>1. bufFails' = bufFails + 1 /\ DOMAIN store' = DOMAIN store /\ Buf'.store = store'
    BY <1>7 DEF BufCrash, Buf
  <2>2. npages(Buf') <= MaxPages + 1
    BY <1>4, <2>1 DEF npages
  <2>3. bufFails' # 0
    BY <1>2, <2>1
  <2> QED
    BY <1>1, <1>2, <2>2, <2>3 DEF ExactInv, LedgerInv
<1> QED
  BY <1>1, <1>5, <1>6, <1>7

\* A list of all pages that are not used is the one that is followed.
LEMMA AllFollowed ==
  ASSUME BufInv, npages(Buf) <= MaxPages + 1, NEW S, AllListed(Buf, S)
  PROVE  S \subseteq OnFreeList /\ FreeList[MaxPages] = npages(Buf)
<1> DEFINE np == npages(Buf)
           V == Views(Buf)
           K == 0..MaxPages
<1>1. /\ S \subseteq DOMAIN store \ {0} /\ np \notin S /\ np \notin DOMAIN store /\ np \in Nat \ {0}
      /\ DOMAIN store = 0..(np - 1) /\ Served(0).val \in S \cup {np} /\ V[0] = Served(0)
      /\ \A s \in S : /\ Served(s).kind = "tombstone" /\ V[s] = Served(s)
                      /\ Served(s).val \in S \cup {np}
  BY ListedPages, HandlesSeen, BufFields DEF BufInv
<1>2. np <= MaxPages + 1 /\ MaxPages \in Nat
  BY BufAssumption
<1>3. \A T : T \subseteq S \cup {np} /\ V[0].val \in T /\ (\A t \in T \cap S : V[t].val \in T) =>
             S \cup {np} \subseteq T
  BY DEF AllListed, ListAll
<1> HIDE DEF np, V
<1>4. (\A s \in S : NextFree(s) = V[s].val) /\ NextFree(np) = np
  BY <1>1 DEF NextFree
<1>5. \A k \in K : FreeList[k] \in S \cup {np}
  <2>1. \A i \in S \cup {np} : NextFree(i) \in S \cup {np}
    BY <1>1, <1>4
  <2> QED
    BY <1>1, <2>1, ListStays
<1>6. \E k \in K : FreeList[k] = np
  <2>1. SUFFICES ASSUME \A k \in K : FreeList[k] # np PROVE FALSE
    OBVIOUS
  <2> DEFINE f == [k \in K |-> FreeList[k]]
  <2>2. f \in [K -> S] /\ \A k \in K : f[k] = FreeList[k] /\ FreeList[k] \in S
    BY <1>5, <2>1
  <2>3. IsFiniteSet(K) /\ Cardinality(K) = MaxPages + 1
    BY <1>2, FS_Interval
  <2>4. IsFiniteSet(S) /\ Cardinality(S) <= np - 1 /\ Cardinality(S) \in Nat
    <3> DEFINE N == 1..(np - 1)
    <3>1. S \in SUBSET N
      BY <1>1
    <3>2. IsFiniteSet(N) /\ Cardinality(N) = np - 1
      BY <1>1, FS_Interval
    <3> HIDE DEF N
    <3>3. IsFiniteSet(S) /\ Cardinality(S) <= Cardinality(N)
      BY <3>1, <3>2, FS_Subset
    <3> QED
      BY <3>2, <3>3, FS_CardinalityType
  <2>5. Cardinality(S) < Cardinality(K)
    BY <1>1, <1>2, <2>3, <2>4
  <2> HIDE DEF f, K
  <2>6. PICK x, y \in K : x # y /\ f[x] = f[y]
    BY <2>2, <2>3, <2>4, <2>5, FS_PigeonHole
  <2>7. ASSUME NEW i \in K, NEW j \in K, i < j, f[i] = f[j]
        PROVE  FALSE
    <3> DEFINE T == {FreeList[k] : k \in 0..(j - 1)}
    <3>1. i \in 0..(j - 1) /\ \A k \in 0..(j - 1) : k \in K /\ k + 1 \in K /\ k + 1 - 1 = k /\ k + 1 # 0
      BY <1>2, <2>7 DEF K
    <3>2. T \subseteq S
      BY <2>2, <3>1
    <3>3. V[0].val \in T
      <4>1. 0 \in 0..(j - 1) /\ V[0].val = FreeList[0]
        BY <1>1, <2>7, <3>1, ListSteps DEF K
      <4> QED
        BY <4>1
    <3>4. \A t \in T : V[t].val \in T
      <4>1. TAKE t \in T
      <4>2. PICK k \in 0..(j - 1) : t = FreeList[k]
        OBVIOUS
      <4>3. V[t].val = FreeList[k + 1]
        <5>1. FreeList[k + 1] = NextFree(FreeList[k])
          BY <3>1, ListSteps DEF K
        <5> QED
          BY <1>4, <3>2, <4>2, <5>1
      <4>4. CASE k + 1 = j
        <5>1. FreeList[k + 1] = FreeList[i]
          BY <2>2, <2>7, <4>4
        <5> QED
          BY <3>1, <4>3, <5>1
      <4>5. CASE k + 1 # j
        <5>1. k + 1 \in 0..(j - 1)
          BY <1>2, <2>7, <4>5 DEF K
        <5> QED
          BY <4>3, <5>1
      <4> QED
        BY <4>4, <4>5
    <3> HIDE DEF T
    <3>5. S \cup {np} \subseteq T
      BY <1>3, <3>2, <3>3, <3>4
    <3> QED
      BY <1>1, <3>2, <3>5
  <2>8. x < y \/ y < x
    BY <2>6 DEF K
  <2> QED
    BY <2>6, <2>7, <2>8
<1>7. FreeList[MaxPages] = np
  <2>1. PICK m \in K : FreeList[m] = np
    BY <1>6
  <2> DEFINE Bad == {k \in K : k >= m /\ FreeList[k] # np}
  <2>2. SUFFICES ASSUME FreeList[MaxPages] # np PROVE FALSE
    OBVIOUS
  <2>3. Bad \in SUBSET Nat /\ MaxPages \in Bad
    BY <1>2, <2>1, <2>2
  <2>4. PICK k \in Bad : \A x \in Bad : k <= x
    <3> HIDE DEF Bad
    <3> QED
      BY <2>3, HasLeast
  <2>5. k # m /\ k > m /\ k - 1 \in K /\ k - 1 >= m /\ k \in K /\ k # 0 /\ ~(k <= k - 1)
    BY <1>2, <2>1, <2>4
  <2>6. FreeList[k - 1] = np
    BY <2>4, <2>5
  <2>7. FreeList[k] = np
    BY <1>4, <2>5, <2>6, ListSteps
  <2> QED
    BY <2>4, <2>7
<1>8. S \subseteq OnFreeList
  <2> DEFINE T == {FreeList[k] : k \in K}
  <2>1. T \subseteq S \cup {np}
    BY <1>5
  <2>2. V[0].val \in T
    <3>1. 0 \in K /\ V[0].val = FreeList[0]
      BY <1>1, <1>2, ListSteps
    <3> QED
      BY <3>1
  <2>3. \A t \in T \cap S : V[t].val \in T
    <3>1. TAKE t \in T \cap S
    <3>2. PICK k \in K : t = FreeList[k]
      OBVIOUS
    <3>3. k # MaxPages
      BY <1>1, <1>7, <3>1, <3>2
    <3>4. k + 1 \in K /\ k + 1 - 1 = k /\ k + 1 # 0
      BY <1>2, <3>3
    <3>5. FreeList[k + 1] = NextFree(t)
      BY <3>2, <3>4, ListSteps
    <3> QED
      BY <1>4, <3>1, <3>4, <3>5
  <2>4. T \cap DOMAIN store = OnFreeList
    BY DEF OnFreeList
  <2> HIDE DEF T
  <2>5. S \cup {np} \subseteq T
    BY <1>3, <2>1, <2>2, <2>3
  <2> QED
    BY <1>1, <2>4, <2>5
<1> QED
  BY <1>7, <1>8 DEF np

LEMMA ExactLosesNone ==
  ASSUME ExactInv
  PROVE  NoPageLost
<1>1. SUFFICES ASSUME bufFails = 0
               PROVE  /\ \A pg \in DOMAIN store \ {0} :
                           Served(pg).kind = "data" \/ HeldX(pg) \/ pg \in OnFreeList
                      /\ FreeList[MaxPages] = Cardinality(DOMAIN store)
  BY DEF NoPageLost
<1>2. PICK S : AllListed(Buf, S)
  BY <1>1 DEF ExactInv, NoneLost
<1>3. BufInv /\ npages(Buf) <= MaxPages + 1
  BY DEF ExactInv, LedgerInv
<1>4. S \subseteq OnFreeList /\ FreeList[MaxPages] = npages(Buf)
  BY <1>2, <1>3, AllFollowed
<1>5. \A pg \in DOMAIN store \ {0} : pg \in S \/ Served(pg).kind = "data" \/ HeldX(pg)
  BY <1>2, <1>3, HandlesSeen, BufFields DEF AllListed
<1> QED
  BY <1>3, <1>4, <1>5, BufPages

\* No page that is in use is ever on the list of free pages, whatever failed and
\* wherever the process died; and while nothing failed, every page that is not in
\* use is on the list, which ends where the file does (pgr_new and
\* pgr_delete_and_release).
THEOREM FreeListIsExact == BufSpec => []FreeListExact
<1>1. BufInit => ExactInv
  <2>1. SUFFICES ASSUME BufInit PROVE ExactInv
    OBVIOUS
  <2> DEFINE D == [q \in {0} |-> Root(1)]
  <2>2. LedgerInv /\ Opened(Buf, D) /\ D[0].kind = "root" /\ D[0].val = 1
    BY <2>1, BufStarts, LedgerStarts DEF LedgerInv, Root, Content
  <2>3. bufFails = 0 /\ DOMAIN Buf.store = {0}
    BY <2>1 DEF BufInit, Buf
  <2>4. npages(Buf) = 1
    BY <2>3, FS_Singleton DEF npages
  <2>5. View(Buf, 0) = D[0] /\ \A i : ~Blocked(Buf, i)
    <3> HIDE DEF D
    <3> QED
      BY <2>2, OpenedPool
  <2>6. Views(Buf)[0].kind = "root" /\ Views(Buf)[0].val = 1
    BY <2>2, <2>3, <2>5 DEF Views
  <2>7. ListAll(Views(Buf), 1, {})
    BY <2>6 DEF ListAll, ListIn
  <2>8. NoneLost(Buf)
    BY <2>3, <2>4, <2>7 DEF NoneLost, AllListed
  <2> QED
    BY <2>2, <2>3, <2>4, <2>8, BufAssumption DEF ExactInv
<1>2. ExactInv /\ [BufNext]_bufVars => ExactInv'
  <2>1. SUFFICES ASSUME ExactInv, UNCHANGED bufVars PROVE ExactInv'
    BY NextExact
  <2>2. Buf' = Buf /\ BufInv' /\ committed' = committed /\ bufFails' = bufFails
    BY <2>1, BufStutters DEF ExactInv, LedgerInv, bufVars
  <2> QED
    BY <2>1, <2>2 DEF ExactInv, LedgerInv
<1>3. ExactInv => FreeListExact
  BY LedgerUnused, ExactLosesNone DEF ExactInv, FreeListExact
<1> QED
  BY <1>1, <1>2, <1>3, PTL DEF BufSpec
=============================================================================
