--------------------------- MODULE VariablesProofs ---------------------------
(***************************************************************************)
(* Theorems about the names of variables: the transaction of a client      *)
(* keeps the others out (TransactionIsAlone), and the pages in use are     *)
(* those of the names (ChainsAreExact), for any names, hash, capacities,   *)
(* number of pages, and wherever calls of the pager fail.                  *)
(*                                                                         *)
(* The invariant has a set of pages S that the hash page and the links     *)
(* close: nobody in S points out of it, no two to the same page, and no    *)
(* smaller set does (Linked).  It is kept by the five changes that the     *)
(* cursor makes to chains: a page behind the last, a first page, a tail,   *)
(* a page that leaves with its tails, and the change of what no link is.   *)
(* While a name is deleted, D has the pages that are off the chain and not *)
(* yet deleted (Cutting).  Reads, Writes and Deletes say what the cursor   *)
(* knows in each step of its call; Accounted says whose a page in use is,  *)
(* as long as nothing failed.  That S is what is reached page by page      *)
(* (ReachedIsLinked) needs no induction over chains: it follows from S     *)
(* being least, and from walks that never come to a page twice, so that    *)
(* they end before the pages do.                                           *)
(***************************************************************************)
EXTENDS Variables, FiniteSetTheorems, WellFoundedInduction, TLAPS

Links   == VarPages \cup {NoPg}
Buckets == {Hash(n) : n \in Names}

-----------------------------------------------------------------------------
(* Chains, for any hash page H and pages V.                                *)

\* Whoever is in S points into S.
Closed(H, V, S) ==
  /\ S \subseteq VarPages
  /\ \A b \in DOMAIN H : H[b] \in S \cup {NoPg}
  /\ \A p \in S : V[p].next \in S \cup {NoPg} /\ V[p].ovnext \in S \cup {NoPg}

\* No two point to the same page.
RootsApart(H)  == \A a, b \in DOMAIN H : H[a] = H[b] /\ H[a] # NoPg => a = b
NextApart(V, S) == \A p, q \in S : V[p].next = V[q].next /\ V[p].next # NoPg => p = q
TailApart(V, S) == \A p, q \in S : V[p].ovnext = V[q].ovnext /\ V[p].ovnext # NoPg => p = q
KindsApart(H, V, S) ==
  /\ \A b \in DOMAIN H, p \in S : H[b] # NoPg => H[b] # V[p].next /\ H[b] # V[p].ovnext
  /\ \A p, q \in S : V[p].next # NoPg => V[p].next # V[q].ovnext
Apart(H, V, S) == RootsApart(H) /\ NextApart(V, S) /\ TailApart(V, S) /\ KindsApart(H, V, S)

\* A tail page begins no chain.
TailsEnd(V, S) == \A p \in S : V[p].ovnext # NoPg => V[V[p].ovnext].next = NoPg

\* No smaller set has what the chains have.
Least(H, V, S) == \A T \in SUBSET S : Closed(H, V, T) => T = S

Linked(H, V, S) == Closed(H, V, S) /\ Apart(H, V, S) /\ TailsEnd(V, S) /\ Least(H, V, S)

\* Page x is a chain's first page or the next one of another.
Heads(H, V, S, x) == (\E b \in DOMAIN H : H[b] = x) \/ (\E p \in S : V[p].next = x)

\* D has x, which is off its chain, and the tails of its name.
Tails(V, D) == \A d \in D : V[d].ovnext \in D \cup {NoPg}
Cutting(V, S, D, x) ==
  /\ D \subseteq VarPages /\ D \cap S = {} /\ x \in D /\ Tails(V, D) /\ TailApart(V, D)
  /\ \A d \in D : V[d].ovnext # x
  /\ \A T \in SUBSET D : x \in T /\ Tails(V, T) => T = D

-----------------------------------------------------------------------------
(* The invariant.                                                          *)

IsPage(x) == \E k \in {"free", "var", "tail"}, n \in Links, o \in Links : \E l, c :
               x = [kind |-> k, next |-> n, ovnext |-> o, vlen |-> l, cells |-> c]

Ops     == {"new", "get", "delete"}
Steps   == {"idle", "dead", "hash", "visit", "gather", "back", "conclude", "damaged", "append",
            "newHead", "link", "linkHead", "write", "overflow", "close", "root", "unlink", "cut",
            "drop"}

RootsOK(H)  == DOMAIN H = Buckets /\ \A b \in Buckets : H[b] \in Links
PagesOK(V)  == /\ DOMAIN V = VarPages
               /\ \A p \in VarPages : IsPage(V[p]) /\ (V[p].kind = "free" => V[p] = FreePage)
CopiesOK(C) == DOMAIN C \subseteq VarPages /\ \A p \in DOMAIN C : IsPage(C[p])
CursorTypes == vstep \in Steps /\ {vcur, vprev, vnew, vstart} \subseteq Links /\ vfails \in Nat

VarTypes == RootsOK(vhash) /\ PagesOK(vpages) /\ CopiesOK(vcopy) /\ CursorTypes

\* Who is served has the lock, and a client that waits asks for itself.
Asks(r, c)  == /\ r.client = c /\ r.op \in Ops \cup {"begin"} /\ r.name \in Names
               /\ r.op \in {"get", "begin"} => txOf # c
LockInv ==
  /\ vcall # NoCall => /\ vcall.client \in Clients /\ vcall.op \in Ops
                       /\ Asks(vcall, vcall.client) /\ dblock = vcall.client
  /\ vcall = NoCall => vstep = "idle"
  /\ txOf \in Clients \cup {Nobody} /\ dblock \in Clients \cup {Nobody}
  /\ txOf # Nobody => dblock = txOf
  /\ DOMAIN vwait = Clients /\ \A c \in Clients : vwait[c] # NoCall => Asks(vwait[c], c)

\* The page x that a call is about is one of a chain, and the call that will
\* delete it knows who points to it.
Before(S, x) ==
  /\ Heads(vhash, vpages, S, x)
  /\ vcall.op = "delete" =>
       IF vprev = NoPg THEN vhash[Hash(Name)] = x
       ELSE vprev \in S /\ vprev # x /\ vpages[vprev].next = x

\* A page that pgr_new gave and nothing was written of.
Taken(p) == /\ p \in DOMAIN vcopy /\ vpages[p] = FreePage
            /\ vcopy[p].kind # "free" /\ vcopy[p].next = NoPg /\ vcopy[p].ovnext = NoPg

\* Where the cursor is, in pages S of the chains.
Reads(S) ==
  /\ vstep \in {"idle", "hash"} => vprev = NoPg
  /\ vstep = "visit" => vnew \in S /\ Before(S, vnew)
  /\ vstep \in {"gather", "back", "conclude"} =>
       vstart \in S /\ vcur \in S /\ Before(S, vstart) /\ vstart \notin DOMAIN vcopy
  /\ vstep = "gather" => vcur \notin DOMAIN vcopy /\ SameLength(vstart)
  /\ vstep = "conclude" => vcur = vstart
  /\ vstep = "unlink" => vcur \in S /\ Before(S, vcur) /\ vcur \notin DOMAIN vcopy
                         /\ vcall.op = "delete"
Writes(S) ==
  /\ vstep \in {"append", "link"} =>
       /\ vcur \in S /\ Heads(vhash, vpages, S, vcur)
       /\ vpages[vcur].next = NoPg /\ vpages[vcur].kind # "free"
  /\ vstep \in {"newHead", "linkHead"} => FirstPage = NoPg
  /\ vstep \in {"link", "linkHead"} => Taken(vnew) /\ vnew \notin S
  /\ vstep \in {"write", "overflow"} => vcur \in S /\ Taken(vcur)
Deletes(S, D) ==
  /\ vstep \in {"cut", "drop"} =>
       Cutting(vpages, S, D, vcur)
       /\ (vcur \in DOMAIN vcopy => vcopy[vcur].ovnext = vpages[vcur].ovnext)
  /\ vstep = "drop" =>
       vnew = vpages[vcur].ovnext
       /\ (vnew # NoPg => vnew \in DOMAIN vcopy /\ vcopy[vnew] = vpages[vnew])

\* While no call of the pager failed, all pages in use are those of the chains and
\* what the running call has in its hands.
InUse == {p \in VarPages : vpages[p].kind # "free"}
Accounted(S, D) ==
  CASE vstep \in {"link", "linkHead"}   -> InUse = S /\ DOMAIN vcopy = {vnew}
    [] vstep \in {"write", "overflow"}  -> InUse = S \ {vcur} /\ DOMAIN vcopy = {vcur}
    [] vstep = "cut"                    -> InUse = S \cup D /\ DOMAIN vcopy \subseteq {vcur}
    [] vstep = "drop"                   -> InUse = S \cup D /\ DOMAIN vcopy \subseteq {vcur, vnew}
    [] OTHER                            -> InUse = S /\ DOMAIN vcopy = {}

\* No page of a chain is free for pgr_new.
Owned(S) == \A p \in S : vpages[p].kind # "free" \/ p \in DOMAIN vcopy

ChainsAre(S, D) ==
  /\ Linked(vhash, vpages, S) /\ Owned(S) /\ Reads(S) /\ Writes(S) /\ Deletes(S, D)
  /\ vfails = 0 => Accounted(S, D)

Chained == \E S, D : ChainsAre(S, D)

ChainInv == VarTypes /\ LockInv /\ Chained

-----------------------------------------------------------------------------
(* What the changes of a call do to chains.                                *)

\* What the chains know of a page.
SameLinks(V, W, S) == \A p \in S : W[p].next = V[p].next /\ W[p].ovnext = V[p].ovnext

LEMMA LinkedSame ==
  ASSUME NEW H, NEW V, NEW W, NEW S, Linked(H, V, S), SameLinks(V, W, S)
  PROVE  Linked(H, W, S)
<1>1. Closed(H, W, S)
  BY DEF Linked, Closed, SameLinks
<1>2. Apart(H, W, S)
  BY DEF Linked, Apart, NextApart, TailApart, KindsApart, SameLinks
<1>3. TailsEnd(W, S)
  <2>1. SUFFICES ASSUME NEW p \in S, W[p].ovnext # NoPg PROVE W[W[p].ovnext].next = NoPg
    BY DEF TailsEnd
  <2>2. W[p].ovnext = V[p].ovnext /\ V[p].ovnext \in S
    BY <2>1 DEF Linked, Closed, SameLinks
  <2> QED
    BY <2>1, <2>2 DEF Linked, TailsEnd, SameLinks
<1>4. Least(H, W, S)
  <2>1. SUFFICES ASSUME NEW T \in SUBSET S, Closed(H, W, T) PROVE T = S
    BY DEF Least
  <2>2. Closed(H, V, T)
    BY <2>1 DEF Closed, SameLinks
  <2> QED
    BY <2>2 DEF Linked, Least
<1> QED
  BY <1>1, <1>2, <1>3, <1>4 DEF Linked

\* A new page behind the last one of a chain.
LEMMA LinkedNext ==
  ASSUME NEW H, NEW V, NEW W, NEW S, Linked(H, V, S),
         NEW x \in S, Heads(H, V, S, x), V[x].next = NoPg,
         NEW n \in VarPages \ S, V[n] = FreePage,
         W[x].next = n, W[x].ovnext = V[x].ovnext,
         \A q \in VarPages \ {x} : W[q] = V[q]
  PROVE  Linked(H, W, S \cup {n})
<1> DEFINE U == S \cup {n}
<1>1. /\ W[n].next = NoPg /\ W[n].ovnext = NoPg /\ n # NoPg /\ n # x
      /\ \A q \in S \ {x} : W[q] = V[q]
      /\ S \subseteq VarPages
  BY DEF FreePage, NoPg, VarPages, Linked, Closed
<1>2. /\ \A b \in DOMAIN H : H[b] \in S \cup {NoPg}
      /\ \A p \in S : V[p].next \in S \cup {NoPg} /\ V[p].ovnext \in S \cup {NoPg}
  BY DEF Linked, Closed
<1>3. Closed(H, W, U)
  BY <1>1, <1>2 DEF Closed
<1>4. /\ \A p \in S \ {x} : W[p].next = V[p].next /\ V[p].next # n
      /\ \A p \in S : W[p].ovnext = V[p].ovnext /\ V[p].ovnext # n
      /\ \A b \in DOMAIN H : H[b] # n
  BY <1>1, <1>2
<1>5. NextApart(W, U) /\ TailApart(W, U) /\ KindsApart(H, W, U)
  <2>1. NextApart(W, U)
    BY <1>1, <1>4 DEF Linked, Apart, NextApart
  <2>2. TailApart(W, U)
    BY <1>1, <1>4 DEF Linked, Apart, TailApart
  <2>3. \A b \in DOMAIN H, p \in U : H[b] # NoPg => H[b] # W[p].next /\ H[b] # W[p].ovnext
    BY <1>1, <1>4 DEF Linked, Apart, KindsApart
  <2>4. \A p, q \in U : W[p].next # NoPg => W[p].next # W[q].ovnext
    BY <1>1, <1>4 DEF Linked, Apart, KindsApart
  <2> QED
    BY <2>1, <2>2, <2>3, <2>4 DEF KindsApart
<1>6. Apart(H, W, U)
  BY <1>5 DEF Linked, Apart
<1>7. TailsEnd(W, U)
  <2>1. SUFFICES ASSUME NEW p \in U, W[p].ovnext # NoPg PROVE W[W[p].ovnext].next = NoPg
    BY DEF TailsEnd
  <2>2. p \in S /\ W[p].ovnext = V[p].ovnext /\ V[p].ovnext \in S /\ V[V[p].ovnext].next = NoPg
    BY <1>1, <1>2, <1>4, <2>1 DEF Linked, TailsEnd
  <2>3. V[p].ovnext # x
    <3>1. CASE \E b \in DOMAIN H : H[b] = x
      BY <1>1, <2>1, <2>2, <3>1 DEF Linked, Apart, KindsApart, NoPg, VarPages
    <3>2. CASE \E q \in S : V[q].next = x
      BY <1>1, <2>1, <2>2, <3>2 DEF Linked, Apart, KindsApart
    <3> QED
      BY <3>1, <3>2 DEF Heads
  <2> QED
    BY <1>1, <2>2, <2>3
<1>8. Least(H, W, U)
  <2>1. SUFFICES ASSUME NEW T \in SUBSET U, Closed(H, W, T) PROVE T = U
    BY DEF Least
  <2> DEFINE R == T \ {n}
  <2>2. R \in SUBSET S /\ R \subseteq VarPages
    BY <1>1
  <2>3. \A b \in DOMAIN H : H[b] \in R \cup {NoPg}
    BY <1>4, <2>1 DEF Closed
  <2>4. ASSUME NEW p \in R PROVE V[p].next \in R \cup {NoPg} /\ V[p].ovnext \in R \cup {NoPg}
    <3>1. p \in S /\ p \in T /\ W[p].next \in T \cup {NoPg} /\ W[p].ovnext \in T \cup {NoPg}
      BY <2>1, <2>2, <2>4 DEF Closed
    <3>2. V[p].ovnext \in R \cup {NoPg}
      BY <1>4, <3>1
    <3>3. CASE p = x
      BY <3>2, <3>3
    <3>4. CASE p # x
      BY <1>4, <3>1, <3>2, <3>4
    <3> QED
      BY <3>3, <3>4
  <2>5. Closed(H, V, R)
    BY <2>2, <2>3, <2>4 DEF Closed
  <2>6. R = S
    BY <2>2, <2>5 DEF Linked, Least
  <2>7. x \in T /\ W[x].next = n
    BY <2>6
  <2>8. n \in T
    BY <1>1, <2>1, <2>7 DEF Closed
  <2> QED
    BY <2>6, <2>8
<1> QED
  BY <1>3, <1>6, <1>7, <1>8 DEF Linked

\* The first page of a chain.
LEMMA LinkedFirst ==
  ASSUME NEW H, NEW K, NEW V, NEW S, Linked(H, V, S),
         NEW b \in DOMAIN H, H[b] = NoPg,
         NEW n \in VarPages \ S, V[n] = FreePage,
         DOMAIN K = DOMAIN H, K[b] = n, \A a \in DOMAIN H \ {b} : K[a] = H[a]
  PROVE  Linked(K, V, S \cup {n})
<1> DEFINE U == S \cup {n}
<1>1. V[n].next = NoPg /\ V[n].ovnext = NoPg /\ n # NoPg /\ S \subseteq VarPages
  BY DEF FreePage, NoPg, VarPages, Linked, Closed
<1>2. /\ \A a \in DOMAIN H : H[a] \in S \cup {NoPg}
      /\ \A p \in S : V[p].next \in S \cup {NoPg} /\ V[p].ovnext \in S \cup {NoPg}
  BY DEF Linked, Closed
<1>3. Closed(K, V, U)
  BY <1>1, <1>2 DEF Closed
<1>4. /\ \A p \in S : V[p].ovnext # n /\ V[p].next # n
      /\ \A a \in DOMAIN H : H[a] # n
  BY <1>1, <1>2
<1>5. RootsApart(K)
  BY <1>4 DEF Linked, Apart, RootsApart
<1>6. NextApart(V, U)
  BY <1>1 DEF Linked, Apart, NextApart
<1>7. TailApart(V, U)
  BY <1>1 DEF Linked, Apart, TailApart
<1>8. KindsApart(K, V, U)
  <2>1. \A a \in DOMAIN K, p \in U : K[a] # NoPg => K[a] # V[p].next /\ K[a] # V[p].ovnext
    BY <1>1, <1>4 DEF Linked, Apart, KindsApart
  <2>2. \A p, q \in U : V[p].next # NoPg => V[p].next # V[q].ovnext
    BY <1>1, <1>4 DEF Linked, Apart, KindsApart
  <2> QED
    BY <2>1, <2>2 DEF KindsApart
<1>9. TailsEnd(V, U)
  BY <1>1 DEF Linked, TailsEnd
<1>10. Least(K, V, U)
  <2>1. SUFFICES ASSUME NEW T \in SUBSET U, Closed(K, V, T) PROVE T = U
    BY DEF Least
  <2> DEFINE R == T \ {n}
  <2>2. R \in SUBSET S /\ R \subseteq VarPages
    BY <1>1
  <2>3. \A a \in DOMAIN H : H[a] \in R \cup {NoPg}
    BY <1>4, <2>1 DEF Closed
  <2>4. \A p \in R : V[p].next \in R \cup {NoPg} /\ V[p].ovnext \in R \cup {NoPg}
    BY <1>4, <2>1, <2>2 DEF Closed
  <2>5. R = S
    BY <2>2, <2>3, <2>4 DEF Linked, Least, Closed
  <2>6. n \in T
    BY <1>1, <2>1 DEF Closed
  <2> QED
    BY <2>5, <2>6
<1> QED
  BY <1>3, <1>5, <1>6, <1>7, <1>8, <1>9, <1>10 DEF Linked, Apart

\* A tail page behind the last page of a name.
LEMMA LinkedTail ==
  ASSUME NEW H, NEW V, NEW W, NEW S, Linked(H, V, S),
         NEW x \in S, V[x].next = NoPg, V[x].ovnext = NoPg,
         NEW n \in VarPages \ S, V[n] = FreePage,
         W[x].next = NoPg, W[x].ovnext = n,
         \A q \in VarPages \ {x} : W[q] = V[q]
  PROVE  Linked(H, W, S \cup {n})
<1> DEFINE U == S \cup {n}
<1>1. /\ W[n].next = NoPg /\ W[n].ovnext = NoPg /\ n # NoPg /\ n # x
      /\ \A q \in S \ {x} : W[q] = V[q]
      /\ S \subseteq VarPages
  BY DEF FreePage, NoPg, VarPages, Linked, Closed
<1>2. /\ \A b \in DOMAIN H : H[b] \in S \cup {NoPg}
      /\ \A p \in S : V[p].next \in S \cup {NoPg} /\ V[p].ovnext \in S \cup {NoPg}
  BY DEF Linked, Closed
<1>3. Closed(H, W, U)
  BY <1>1, <1>2 DEF Closed
<1>4. /\ \A p \in S : W[p].next = V[p].next /\ V[p].next # n
      /\ \A p \in S \ {x} : W[p].ovnext = V[p].ovnext /\ V[p].ovnext # n
      /\ \A b \in DOMAIN H : H[b] # n
  BY <1>1, <1>2
<1>5. NextApart(W, U) /\ TailApart(W, U) /\ KindsApart(H, W, U)
  <2>1. NextApart(W, U)
    BY <1>1, <1>4 DEF Linked, Apart, NextApart
  <2>2. TailApart(W, U)
    BY <1>1, <1>4 DEF Linked, Apart, TailApart
  <2>3. \A b \in DOMAIN H, p \in U : H[b] # NoPg => H[b] # W[p].next /\ H[b] # W[p].ovnext
    BY <1>1, <1>4 DEF Linked, Apart, KindsApart
  <2>4. \A p, q \in U : W[p].next # NoPg => W[p].next # W[q].ovnext
    BY <1>1, <1>4 DEF Linked, Apart, KindsApart
  <2> QED
    BY <2>1, <2>2, <2>3, <2>4 DEF KindsApart
<1>6. Apart(H, W, U)
  BY <1>5 DEF Linked, Apart
<1>7. TailsEnd(W, U)
  <2>1. SUFFICES ASSUME NEW p \in U, W[p].ovnext # NoPg PROVE W[W[p].ovnext].next = NoPg
    BY DEF TailsEnd
  <2>2. CASE p = x
    BY <1>1, <2>2
  <2>3. CASE p # x
    <3>1. p \in S /\ W[p].ovnext = V[p].ovnext /\ V[p].ovnext \in S /\ V[V[p].ovnext].next = NoPg
      BY <1>1, <1>2, <1>4, <2>1, <2>3 DEF Linked, TailsEnd
    <3> QED
      BY <1>4, <3>1
  <2> QED
    BY <2>2, <2>3
<1>8. Least(H, W, U)
  <2>1. SUFFICES ASSUME NEW T \in SUBSET U, Closed(H, W, T) PROVE T = U
    BY DEF Least
  <2> DEFINE R == T \ {n}
  <2>2. R \in SUBSET S /\ R \subseteq VarPages
    BY <1>1
  <2>3. \A b \in DOMAIN H : H[b] \in R \cup {NoPg}
    BY <1>4, <2>1 DEF Closed
  <2>4. ASSUME NEW p \in R PROVE V[p].next \in R \cup {NoPg} /\ V[p].ovnext \in R \cup {NoPg}
    <3>1. p \in S /\ p \in T /\ W[p].next \in T \cup {NoPg} /\ W[p].ovnext \in T \cup {NoPg}
      BY <2>1, <2>2, <2>4 DEF Closed
    <3>2. CASE p = x
      BY <3>2
    <3>3. CASE p # x
      BY <1>4, <3>1, <3>3
    <3> QED
      BY <3>2, <3>3
  <2>5. Closed(H, V, R)
    BY <2>2, <2>3, <2>4 DEF Closed
  <2>6. R = S
    BY <2>2, <2>5 DEF Linked, Least
  <2>7. x \in T /\ W[x].ovnext = n
    BY <2>6
  <2>8. n \in T
    BY <1>1, <2>1, <2>7 DEF Closed
  <2> QED
    BY <2>6, <2>8
<1> QED
  BY <1>3, <1>6, <1>7, <1>8 DEF Linked

-----------------------------------------------------------------------------
(* A page is taken off its chain.                                          *)

\* The page x of a name and its tails, and who points to them.
NameHas(H, V, S, x, D) ==
  /\ D \subseteq S /\ x \in D /\ Tails(V, D)
  /\ \A T \in SUBSET D : x \in T /\ Tails(V, T) => T = D
  /\ \A d \in D : V[d].ovnext # x
  /\ \A d \in D \ {x} : V[d].next = NoPg
  /\ \A p \in S \ D : V[p].ovnext \notin D
  /\ \A p \in S : V[p].next \in D => V[p].next = x
  /\ \A b \in DOMAIN H : H[b] \in D => H[b] = x

LEMMA NameFound ==
  ASSUME NEW H, NEW V, NEW S, Linked(H, V, S), NEW x \in S, Heads(H, V, S, x)
  PROVE  \E D : NameHas(H, V, S, x, D)
<1> DEFINE D == {d \in S : \A T \in SUBSET S : x \in T /\ Tails(V, T) => d \in T}
<1>1. D \subseteq S /\ x \in D
  OBVIOUS
<1>2. /\ S \subseteq VarPages
      /\ \A p \in S : V[p].ovnext \in S \cup {NoPg}
  BY DEF Linked, Closed
<1>3. x # NoPg
  BY <1>2 DEF NoPg, VarPages
<1>4. Tails(V, D)
  BY <1>2 DEF Tails
<1>5. \A T \in SUBSET D : x \in T /\ Tails(V, T) => T = D
  BY <1>1
<1>6. \A p \in S : V[p].ovnext # x
  <2>1. CASE \E b \in DOMAIN H : H[b] = x
    BY <1>3, <2>1 DEF Linked, Apart, KindsApart
  <2>2. CASE \E q \in S : V[q].next = x
    BY <1>3, <2>2 DEF Linked, Apart, KindsApart
  <2> QED
    BY <2>1, <2>2 DEF Heads
<1> HIDE DEF D
<1>7. \A d \in D \ {x} : \E e \in D : V[e].ovnext = d
  <2> DEFINE T == {d \in D : d = x \/ \E e \in D : V[e].ovnext = d}
  <2>1. T \in SUBSET D /\ x \in T
    BY <1>1
  <2>2. Tails(V, T)
    BY <1>4 DEF Tails
  <2>3. T = D
    BY <1>5, <2>1, <2>2
  <2> QED
    BY <2>3
<1>8. \A d \in D \ {x} : d # NoPg
  BY <1>1, <1>2 DEF NoPg, VarPages
<1>9. \A d \in D \ {x} : V[d].next = NoPg
  BY <1>1, <1>7, <1>8 DEF Linked, TailsEnd
<1>10. ASSUME NEW p \in S \ D PROVE V[p].ovnext \notin D
  <2>1. SUFFICES ASSUME V[p].ovnext \in D PROVE FALSE
    OBVIOUS
  <2>2. V[p].ovnext \in D \ {x}
    BY <1>6, <2>1
  <2>3. PICK e \in D : V[e].ovnext = V[p].ovnext
    BY <1>7, <2>2
  <2>4. e = p
    BY <1>1, <1>8, <2>2, <2>3 DEF Linked, Apart, TailApart
  <2> QED
    BY <2>3, <2>4
<1>11. ASSUME NEW p \in S, V[p].next \in D PROVE V[p].next = x
  <2>1. SUFFICES ASSUME V[p].next # x PROVE FALSE
    OBVIOUS
  <2>2. PICK e \in D : V[e].ovnext = V[p].next
    BY <1>7, <1>11, <2>1
  <2> QED
    BY <1>1, <1>8, <1>11, <2>1, <2>2 DEF Linked, Apart, KindsApart
<1>12. ASSUME NEW b \in DOMAIN H, H[b] \in D PROVE H[b] = x
  <2>1. SUFFICES ASSUME H[b] # x PROVE FALSE
    OBVIOUS
  <2>2. PICK e \in D : V[e].ovnext = H[b]
    BY <1>7, <1>12, <2>1
  <2> QED
    BY <1>1, <1>8, <1>12, <2>1, <2>2 DEF Linked, Apart, KindsApart
<1>13. NameHas(H, V, S, x, D)
  BY <1>1, <1>4, <1>5, <1>6, <1>9, <1>10, <1>11, <1>12 DEF NameHas
<1> QED
  BY <1>13

\* Only the page that a name starts in has tails; what points to x will point
\* to the page behind it.
LEMMA CutIsCutting ==
  ASSUME NEW H, NEW V, NEW W, NEW S, NEW x, NEW D, Linked(H, V, S), NameHas(H, V, S, x, D),
         \A q \in VarPages : W[q].ovnext = V[q].ovnext
  PROVE  Cutting(W, S \ D, D, x)
<1>1. D \subseteq S /\ S \subseteq VarPages /\ D \subseteq VarPages
  BY DEF Linked, Closed, NameHas
<1>2. \A q \in D : W[q].ovnext = V[q].ovnext
  BY <1>1
<1>3. TailApart(W, D)
  BY <1>1, <1>2 DEF Linked, Apart, TailApart
<1>4. Tails(W, D) /\ x \in D /\ \A d \in D : W[d].ovnext # x
  BY <1>2 DEF NameHas, Tails
<1>5. ASSUME NEW T \in SUBSET D, x \in T, Tails(W, T) PROVE T = D
  <2>1. Tails(V, T)
    BY <1>2, <1>5 DEF Tails
  <2> QED
    BY <1>5, <2>1 DEF NameHas
<1> QED
  BY <1>1, <1>3, <1>4, <1>5 DEF Cutting

\* With K and W page x and its tails are off the chains.
IsCut(K, W, S, x) == \E D : D \subseteq S /\ Linked(K, W, S \ D) /\ Cutting(W, S \ D, D, x)

\* The first page of a chain is taken off.
LEMMA LinkedCutFirst ==
  ASSUME NEW H, NEW K, NEW V, NEW S, Linked(H, V, S), NEW x \in S,
         NEW b \in DOMAIN H, H[b] = x,
         DOMAIN K = DOMAIN H, K[b] = V[x].next, \A a \in DOMAIN H \ {b} : K[a] = H[a]
  PROVE  IsCut(K, V, S, x)
<1>1. PICK D : NameHas(H, V, S, x, D)
  <2>1. Heads(H, V, S, x)
    BY DEF Heads
  <2> QED
    BY <2>1, NameFound
<1> DEFINE R == S \ D
<1>2. Cutting(V, R, D, x)
  BY <1>1, CutIsCutting
<1>3. /\ S \subseteq VarPages /\ NoPg \notin S /\ x # NoPg /\ D \subseteq S /\ x \in D
      /\ \A a \in DOMAIN H : H[a] \in S \cup {NoPg}
      /\ \A p \in S : V[p].next \in S \cup {NoPg} /\ V[p].ovnext \in S \cup {NoPg}
  BY <1>1 DEF Linked, Closed, NameHas, NoPg, VarPages
<1>4. \A p \in S : V[p].next # x
  BY <1>3 DEF Linked, Apart, KindsApart
<1>5. \A p \in S : V[p].next \in R \cup {NoPg}
  BY <1>1, <1>3, <1>4 DEF NameHas
<1>6. \A p \in R : V[p].ovnext \in R \cup {NoPg}
  BY <1>1, <1>3 DEF NameHas
<1>7. \A a \in DOMAIN H \ {b} : H[a] \in R \cup {NoPg}
  <2>1. \A a \in DOMAIN H \ {b} : H[a] # x
    BY <1>3 DEF Linked, Apart, RootsApart
  <2> QED
    BY <1>1, <1>3, <2>1 DEF NameHas
<1>8. Closed(K, V, R)
  BY <1>3, <1>5, <1>6, <1>7 DEF Closed
<1>9. \A a \in DOMAIN H \ {b} : H[a] # NoPg => H[a] # V[x].next
  BY <1>3 DEF Linked, Apart, KindsApart
<1>10. RootsApart(K)
  BY <1>9 DEF Linked, Apart, RootsApart
<1>11. NextApart(V, R) /\ TailApart(V, R)
  BY <1>3 DEF Linked, Apart, NextApart, TailApart
<1>12. KindsApart(K, V, R)
  <2>1. ASSUME NEW p \in R, V[x].next # NoPg PROVE V[x].next # V[p].next /\ V[x].next # V[p].ovnext
    <3>1. p # x /\ p \in S
      BY <1>3
    <3> QED
      BY <1>3, <2>1, <3>1 DEF Linked, Apart, NextApart, KindsApart
  <2>2. \A a \in DOMAIN K, p \in R : K[a] # NoPg => K[a] # V[p].next /\ K[a] # V[p].ovnext
    BY <2>1 DEF Linked, Apart, KindsApart
  <2>3. \A p, q \in R : V[p].next # NoPg => V[p].next # V[q].ovnext
    BY DEF Linked, Apart, KindsApart
  <2> QED
    BY <2>2, <2>3 DEF KindsApart
<1>13. TailsEnd(V, R)
  BY DEF Linked, TailsEnd
<1>14. Least(K, V, R)
  <2>1. SUFFICES ASSUME NEW T \in SUBSET R, Closed(K, V, T) PROVE T = R
    BY DEF Least
  <2> DEFINE U == T \cup D
  <2>2. U \in SUBSET S
    BY <1>3
  <2>3. \A a \in DOMAIN H : H[a] \in U \cup {NoPg}
    BY <1>3, <2>1 DEF Closed
  <2>4. V[x].next \in T \cup {NoPg}
    BY <2>1 DEF Closed
  <2>5. \A d \in D : V[d].next \in U \cup {NoPg} /\ V[d].ovnext \in U \cup {NoPg}
    BY <1>1, <2>4 DEF NameHas, Tails
  <2>6. \A p \in T : V[p].next \in U \cup {NoPg} /\ V[p].ovnext \in U \cup {NoPg}
    BY <2>1 DEF Closed
  <2>7. Closed(H, V, U)
    BY <1>3, <2>2, <2>3, <2>5, <2>6 DEF Closed
  <2>8. U = S
    BY <2>2, <2>7 DEF Linked, Least
  <2> QED
    BY <2>8
<1>15. Linked(K, V, R)
  BY <1>8, <1>10, <1>11, <1>12, <1>13, <1>14 DEF Linked, Apart
<1> QED
  BY <1>2, <1>3, <1>15 DEF IsCut

\* A page behind page y of a chain is taken off.
LEMMA LinkedCutNext ==
  ASSUME NEW H, NEW V, NEW W, NEW S, Linked(H, V, S), NEW x \in S,
         NEW y \in S, y # x, V[y].next = x,
         W[y].next = V[x].next, W[y].ovnext = V[y].ovnext,
         \A q \in VarPages \ {y} : W[q] = V[q]
  PROVE  IsCut(H, W, S, x)
<1>1. PICK D : NameHas(H, V, S, x, D)
  <2>1. Heads(H, V, S, x)
    BY DEF Heads
  <2> QED
    BY <2>1, NameFound
<1> DEFINE R == S \ D
<1>2. \A q \in VarPages : W[q].ovnext = V[q].ovnext
  OBVIOUS
<1>3. Cutting(W, R, D, x)
  BY <1>1, <1>2, CutIsCutting
<1>4. /\ S \subseteq VarPages /\ NoPg \notin S /\ x # NoPg /\ D \subseteq S /\ x \in D
      /\ \A a \in DOMAIN H : H[a] \in S \cup {NoPg}
      /\ \A p \in S : V[p].next \in S \cup {NoPg} /\ V[p].ovnext \in S \cup {NoPg}
  BY <1>1 DEF Linked, Closed, NameHas, NoPg, VarPages
<1>5. /\ \A p \in S \ {y} : V[p].next # x
      /\ \A a \in DOMAIN H : H[a] # x
  BY <1>4 DEF Linked, Apart, NextApart, KindsApart
<1>6. y \in R
  BY <1>1, <1>4 DEF NameHas
<1>7. \A p \in S \ {y} : V[p].next \in R \cup {NoPg}
  BY <1>1, <1>4, <1>5 DEF NameHas
<1>8. \A p \in R : V[p].ovnext \in R \cup {NoPg}
  BY <1>1, <1>4 DEF NameHas
<1>9. \A a \in DOMAIN H : H[a] \in R \cup {NoPg}
  BY <1>1, <1>4, <1>5 DEF NameHas
<1>10. V[x].next \in R \cup {NoPg}
  BY <1>7
<1>11. \A p \in S \ {y} : W[p] = V[p]
  BY <1>4
<1>12. Closed(H, W, R)
  <2>1. \A p \in R : W[p].next \in R \cup {NoPg}
    BY <1>7, <1>10, <1>11
  <2> QED
    BY <1>2, <1>4, <1>8, <1>9, <2>1 DEF Closed
<1>13. ASSUME NEW p \in R, V[x].next # NoPg PROVE V[x].next # V[p].next /\ V[x].next # V[p].ovnext
  BY <1>4, <1>13 DEF Linked, Apart, NextApart, KindsApart
<1>14. NextApart(W, R)
  <2>1. SUFFICES ASSUME NEW p \in R, NEW q \in R, W[p].next = W[q].next, W[p].next # NoPg
                 PROVE  p = q
    BY DEF NextApart
  <2>2. CASE p # y /\ q # y
    BY <1>11, <2>1, <2>2 DEF Linked, Apart, NextApart
  <2>3. CASE p = y \/ q = y
    BY <1>11, <1>13, <2>1, <2>3
  <2> QED
    BY <2>2, <2>3
<1>15. TailApart(W, R)
  BY <1>2, <1>4 DEF Linked, Apart, TailApart
<1>16. KindsApart(H, W, R)
  <2>1. ASSUME NEW a \in DOMAIN H, NEW p \in R, H[a] # NoPg
        PROVE  H[a] # W[p].next /\ H[a] # W[p].ovnext
    <3>1. H[a] # V[p].next /\ H[a] # V[p].ovnext /\ H[a] # V[x].next
      BY <1>4, <2>1 DEF Linked, Apart, KindsApart
    <3> QED
      BY <1>2, <1>4, <1>11, <3>1
  <2>2. ASSUME NEW p \in R, NEW q \in R, W[p].next # NoPg PROVE W[p].next # W[q].ovnext
    <3>1. CASE p = y
      BY <1>2, <1>4, <1>13, <2>2, <3>1
    <3>2. CASE p # y
      BY <1>2, <1>4, <1>11, <2>2, <3>2 DEF Linked, Apart, KindsApart
    <3> QED
      BY <3>1, <3>2
  <2> QED
    BY <2>1, <2>2 DEF KindsApart
<1>17. TailsEnd(W, R)
  <2>1. SUFFICES ASSUME NEW p \in R, W[p].ovnext # NoPg PROVE W[W[p].ovnext].next = NoPg
    BY DEF TailsEnd
  <2>2. W[p].ovnext = V[p].ovnext /\ V[p].ovnext \in S /\ V[V[p].ovnext].next = NoPg
    BY <1>2, <1>4, <2>1 DEF Linked, TailsEnd
  <2> QED
    BY <1>4, <1>11, <2>2
<1>18. Least(H, W, R)
  <2>1. SUFFICES ASSUME NEW T \in SUBSET R, Closed(H, W, T) PROVE T = R
    BY DEF Least
  <2>2. /\ \A a \in DOMAIN H : H[a] \in T \cup {NoPg}
        /\ \A p \in T : W[p].next \in T \cup {NoPg} /\ W[p].ovnext \in T \cup {NoPg}
    BY <2>1 DEF Closed
  <2>3. \A p \in T : V[p].ovnext \in T \cup {NoPg}
    BY <1>2, <1>4, <2>2
  <2>4. CASE y \in T
    <3> DEFINE U == T \cup D
    <3>1. U \in SUBSET S /\ U \subseteq VarPages
      BY <1>4
    <3>2. V[x].next \in T \cup {NoPg}
      BY <2>2, <2>4
    <3>3. \A d \in D : V[d].next \in U \cup {NoPg} /\ V[d].ovnext \in U \cup {NoPg}
      BY <1>1, <3>2 DEF NameHas, Tails
    <3>4. \A p \in T : V[p].next \in U \cup {NoPg}
      BY <1>4, <1>11, <2>2
    <3>5. Closed(H, V, U)
      BY <2>2, <2>3, <3>1, <3>3, <3>4 DEF Closed
    <3>6. U = S
      BY <3>1, <3>5 DEF Linked, Least
    <3> QED
      BY <3>6
  <2>5. CASE y \notin T
    <3>1. \A p \in T : V[p].next \in T \cup {NoPg}
      BY <1>11, <2>2, <2>5
    <3>2. Closed(H, V, T)
      BY <1>4, <2>2, <2>3, <3>1 DEF Closed
    <3>3. T = S
      BY <3>2 DEF Linked, Least
    <3> QED
      BY <2>5, <3>3
  <2> QED
    BY <2>4, <2>5
<1>19. Linked(H, W, R)
  BY <1>12, <1>14, <1>15, <1>16, <1>17, <1>18 DEF Linked, Apart
<1> QED
  BY <1>3, <1>4, <1>19 DEF IsCut

\* The first of the pages that are cut off is deleted.
LEMMA CutGoesOn ==
  ASSUME NEW V, NEW W, NEW S, NEW D, NEW x, Cutting(V, S, D, x), V[x].ovnext # NoPg,
         \A q \in VarPages \ {x} : W[q] = V[q]
  PROVE  Cutting(W, S, D \ {x}, V[x].ovnext)
<1> DEFINE y == V[x].ovnext
           C == D \ {x}
<1>1. D \subseteq VarPages /\ D \cap S = {} /\ x \in D /\ \A d \in D : V[d].ovnext # x
  BY DEF Cutting
<1>2. y \in C
  BY DEF Cutting, Tails
<1>3. \A d \in C : W[d] = V[d]
  BY <1>1
<1>4. Tails(W, C)
  BY <1>1, <1>3 DEF Cutting, Tails
<1>5. TailApart(W, C)
  BY <1>3 DEF Cutting, TailApart
<1>6. \A d \in C : W[d].ovnext # y
  BY <1>1, <1>3 DEF Cutting, TailApart
<1>7. ASSUME NEW T \in SUBSET C, y \in T, Tails(W, T) PROVE T = C
  <2> DEFINE U == T \cup {x}
  <2>1. U \in SUBSET D /\ x \in U
    BY <1>1
  <2>2. Tails(V, U)
    BY <1>3, <1>7 DEF Tails
  <2>3. U = D
    BY <2>1, <2>2 DEF Cutting
  <2> QED
    BY <2>3
<1> QED
  BY <1>1, <1>2, <1>4, <1>5, <1>6, <1>7 DEF Cutting

LEMMA CutEnds ==
  ASSUME NEW V, NEW S, NEW D, NEW x, Cutting(V, S, D, x), V[x].ovnext = NoPg
  PROVE  D = {x}
<1>1. {x} \in SUBSET D /\ Tails(V, {x})
  BY DEF Cutting, Tails
<1> QED
  BY <1>1 DEF Cutting

-----------------------------------------------------------------------------
(* Pages that are followed, one by one.                                    *)

LEMMA HasLeast ==
  ASSUME NEW S \in SUBSET Nat, S # {}
  PROVE  \E m \in S : \A x \in S : m <= x
<1> DEFINE R == OpToRel(<, Nat)
<1>1. \A x, y \in Nat : x < y => <<x, y>> \in R
  BY DEF OpToRel
<1>2. IsWellFoundedOn(R, Nat)
  BY NatLessThanWellFounded DEF OpToRel
<1> HIDE DEF R
<1>3. PICK m \in S : \A x \in S : ~ (<<x, m>> \in R)
  BY <1>2, WFMin
<1>4. \A x \in S : m <= x
  <2>1. TAKE x \in S
  <2>2. ~(x < m)
    BY <1>1, <1>3, Zenon
  <2> QED
    BY <2>2
<1> QED
  BY <1>4

\* What Follow computes is a function: its first values are, up to any place.
Followed(first, next, n) ==
  \E g : g = [k \in 1..n |-> IF k = 1 THEN first ELSE next[g[k - 1]]]

LEMMA FollowIsFunction ==
  ASSUME NEW first, NEW next, NEW n \in Nat \ {0}
  PROVE  Followed(first, next, n)
<1> DEFINE Walk(m) == \E g : g = [k \in 1..m |-> IF k = 1 THEN first ELSE next[g[k - 1]]]
           Bad == {m \in Nat \ {0} : ~Walk(m)}
<1>1. SUFFICES ASSUME Bad # {} PROVE FALSE
  BY DEF Followed
<1>2. PICK m \in Bad : \A x \in Bad : m <= x
  <2>1. Bad \in SUBSET Nat
    OBVIOUS
  <2> HIDE DEF Bad
  <2> QED
    BY <1>1, <2>1, HasLeast
<1>3. CASE m = 1
  <2> DEFINE g == [k \in 1..1 |-> first]
  <2>1. g = [k \in 1..1 |-> IF k = 1 THEN first ELSE next[g[k - 1]]]
    OBVIOUS
  <2>2. Walk(1)
    BY <2>1
  <2> QED
    BY <1>2, <1>3, <2>2
<1>4. CASE m # 1
  <2>1. m - 1 \in Nat \ {0} /\ m \in Nat \ {0} /\ ~(m <= m - 1)
    BY <1>2, <1>4
  <2>2. Walk(m - 1)
    BY <1>2, <2>1
  <2>3. PICK g : g = [k \in 1..(m - 1) |-> IF k = 1 THEN first ELSE next[g[k - 1]]]
    BY <2>2
  <2> DEFINE h == [k \in 1..m |-> IF k = m THEN next[g[m - 1]] ELSE g[k]]
  <2>4. \A k \in 1..m : h[k] = IF k = 1 THEN first ELSE next[h[k - 1]]
    <3>1. TAKE k \in 1..m
    <3>2. CASE k = m
      <4>1. h[m - 1] = g[m - 1] /\ h[m] = next[g[m - 1]]
        BY <2>1
      <4> QED
        BY <1>4, <3>2, <4>1
    <3>3. CASE k # m
      <4>1. k \in 1..(m - 1) /\ h[k] = g[k]
        BY <2>1, <3>3
      <4>2. g[k] = IF k = 1 THEN first ELSE next[g[k - 1]]
        BY <2>3, <4>1
      <4>3. k # 1 => h[k - 1] = g[k - 1]
        BY <2>1, <4>1
      <4> QED
        BY <4>1, <4>2, <4>3
    <3> QED
      BY <3>2, <3>3
  <2>5. h = [k \in 1..m |-> IF k = 1 THEN first ELSE next[h[k - 1]]]
    <3>1. h = [k \in 1..m |-> h[k]]
      OBVIOUS
    <3> HIDE DEF h
    <3> QED
      BY <2>4, <3>1
  <2>6. Walk(m)
    BY <2>5
  <2> QED
    BY <1>2, <2>6
<1> QED
  BY <1>3, <1>4

Walks(at, first, next) ==
  /\ DOMAIN at = 1..(NVarPages + 1) /\ at[1] = first
  /\ \A k \in 1..NVarPages : at[k + 1] = next[at[k]]

LEMMA FollowWalks ==
  ASSUME NEW first, NEW next
  PROVE  Walks(Follow(first, next), first, next)
<1> DEFINE n == NVarPages + 1
           at == Follow(first, next)
<1>1. NVarPages \in Nat /\ n \in Nat \ {0}
  BY VarAssumption
<1>2. \E g : g = [k \in 1..n |-> IF k = 1 THEN first ELSE next[g[k - 1]]]
  <2>1. Followed(first, next, n)
    BY <1>1, FollowIsFunction
  <2> QED
    BY <2>1 DEF Followed
<1>3. at = [k \in 1..n |-> IF k = 1 THEN first ELSE next[at[k - 1]]]
  BY <1>2, Zenon DEF Follow
<1> HIDE DEF at
<1>4. DOMAIN at = 1..n /\ at[1] = first
  BY <1>1, <1>3
<1>5. ASSUME NEW k \in 1..NVarPages PROVE at[k + 1] = next[at[k]]
  <2>1. k + 1 \in 1..n /\ k + 1 # 1 /\ (k + 1) - 1 = k
    BY <1>1
  <2> QED
    BY <1>3, <2>1
<1>6. Walks(at, first, next)
  BY <1>4, <1>5 DEF Walks
<1> QED
  BY <1>6 DEF at

\* A walk stays in what it starts in, and comes to a page or from one.
Places == 1..(NVarPages + 1)

LEMMA WalkStays ==
  ASSUME NEW at, NEW first, NEW next, Walks(at, first, next),
         NEW T, first \in T, \A t \in T : next[t] \in T
  PROVE  \A k \in Places : at[k] \in T
<1> DEFINE Bad == {k \in Places : at[k] \notin T}
<1>1. SUFFICES ASSUME Bad # {} PROVE FALSE
  OBVIOUS
<1>2. PICK m \in Bad : \A x \in Bad : m <= x
  <2>1. Bad \in SUBSET Nat
    BY VarAssumption DEF Places
  <2> HIDE DEF Bad
  <2> QED
    BY <1>1, <2>1, HasLeast
<1>3. m # 1
  BY <1>2 DEF Walks
<1>4. m \in Places /\ m - 1 \in Places /\ m - 1 \in 1..NVarPages /\ ~(m <= m - 1) /\ (m - 1) + 1 = m
  BY <1>2, <1>3, VarAssumption DEF Places
<1>5. at[m - 1] \in T
  BY <1>2, <1>4
<1>6. at[m] = next[at[m - 1]]
  BY <1>4 DEF Walks
<1> QED
  BY <1>2, <1>5, <1>6

\* Pages of S of which no two are followed by the same, and none by the first.
OneWay(S, first, next) ==
  /\ S \subseteq VarPages /\ first \in S /\ next[NoPg] = NoPg
  /\ \A p \in S : next[p] \in S \cup {NoPg} /\ next[p] # first
  /\ \A p, q \in S : next[p] = next[q] /\ next[p] # NoPg => p = q

\* No page comes twice.
LEMMA WalkOnce ==
  ASSUME NEW at, NEW first, NEW next, Walks(at, first, next),
         NEW S, OneWay(S, first, next)
  PROVE  \A i, j \in Places : at[i] = at[j] /\ at[i] # NoPg => i = j
<1>1. \A k \in Places : at[k] \in S \cup {NoPg}
  <2> DEFINE T == S \cup {NoPg}
  <2>1. first \in T /\ \A t \in T : next[t] \in T
    BY DEF OneWay
  <2> HIDE DEF T
  <2>2. \A k \in Places : at[k] \in T
    BY <2>1, WalkStays
  <2> QED
    BY <2>2 DEF T
<1> DEFINE Twice(i) == \E j \in Places : i < j /\ at[i] = at[j] /\ at[i] # NoPg
           Bad == {i \in Places : Twice(i)}
<1>2. SUFFICES ASSUME Bad # {} PROVE FALSE
  <2>1. SUFFICES ASSUME NEW i \in Places, NEW j \in Places, at[i] = at[j], at[i] # NoPg, i # j
                 PROVE  FALSE
    OBVIOUS
  <2>2. i < j \/ j < i
    BY <2>1, VarAssumption DEF Places
  <2>3. Twice(i) \/ Twice(j)
    BY <2>1, <2>2
  <2> QED
    BY <1>2, <2>1, <2>3
<1>3. PICK i \in Bad : \A x \in Bad : i <= x
  <2>1. Bad \in SUBSET Nat
    BY VarAssumption DEF Places
  <2> HIDE DEF Bad
  <2> QED
    BY <1>2, <2>1, HasLeast
<1>4. PICK j \in Places : i < j /\ at[i] = at[j] /\ at[i] # NoPg
  BY <1>3
<1>5. i \in Places /\ NVarPages \in Nat
  BY <1>3, VarAssumption
<1>6. j - 1 \in Places /\ j - 1 \in 1..NVarPages /\ (j - 1) + 1 = j
  BY <1>4, <1>5 DEF Places
<1>7. at[j] = next[at[j - 1]]
  BY <1>6 DEF Walks
<1>8. at[j - 1] # NoPg /\ at[j - 1] \in S
  BY <1>1, <1>4, <1>6, <1>7 DEF OneWay
<1>9. CASE i = 1
  BY <1>4, <1>7, <1>8, <1>9 DEF OneWay, Walks
<1>10. CASE i # 1
  <2>1. i - 1 \in Places /\ i - 1 \in 1..NVarPages /\ (i - 1) + 1 = i /\ i - 1 < j - 1 /\ ~(i <= i - 1)
    BY <1>4, <1>5, <1>10 DEF Places
  <2>2. at[i] = next[at[i - 1]]
    BY <2>1 DEF Walks
  <2>3. at[i - 1] # NoPg /\ at[i - 1] \in S
    BY <1>1, <1>4, <2>1, <2>2 DEF OneWay
  <2>4. at[i - 1] = at[j - 1]
    BY <1>4, <1>7, <1>8, <2>2, <2>3 DEF OneWay
  <2>5. Twice(i - 1)
    BY <1>6, <2>1, <2>3, <2>4
  <2> QED
    BY <1>3, <2>1, <2>5
<1> QED
  BY <1>9, <1>10

\* There are too few pages for a walk that does not end.
LEMMA WalkEnds ==
  ASSUME NEW at, NEW first, NEW next, Walks(at, first, next),
         NEW S, OneWay(S, first, next)
  PROVE  at[NVarPages + 1] = NoPg
<1>1. SUFFICES ASSUME at[NVarPages + 1] # NoPg PROVE FALSE
  OBVIOUS
<1>2. NVarPages \in Nat
  BY VarAssumption
<1>3. \A k \in Places : at[k] \in S \cup {NoPg}
  <2> DEFINE T == S \cup {NoPg}
  <2>1. first \in T /\ \A t \in T : next[t] \in T
    BY DEF OneWay
  <2> HIDE DEF T
  <2>2. \A k \in Places : at[k] \in T
    BY <2>1, WalkStays
  <2> QED
    BY <2>2 DEF T
<1>4. \A k \in Places : at[k] # NoPg
  <2> DEFINE Good == {k \in Places : at[k] = NoPg}
             Late == {k \in Nat : (NVarPages + 1) - k \in Good}
  <2>1. SUFFICES ASSUME NEW k \in Places, at[k] = NoPg PROVE FALSE
    OBVIOUS
  <2>2. (NVarPages + 1) - k \in Late
    BY <1>2, <2>1 DEF Places
  <2>3. PICK m \in Late : \A x \in Late : m <= x
    <3>1. Late \in SUBSET Nat
      OBVIOUS
    <3> HIDE DEF Late
    <3> QED
      BY <2>2, <3>1, HasLeast
  <2> DEFINE e == (NVarPages + 1) - m
  <2>4. e \in Places /\ at[e] = NoPg /\ m \in Nat
    BY <2>3
  <2>5. e # NVarPages + 1
    BY <1>1, <2>4
  <2>6. e \in 1..NVarPages /\ e + 1 \in Places /\ m - 1 \in Nat /\ (NVarPages + 1) - (m - 1) = e + 1
        /\ ~(m <= m - 1)
    BY <1>2, <2>4, <2>5 DEF Places
  <2>7. at[e + 1] = NoPg
    BY <2>4, <2>6 DEF Walks, OneWay
  <2>8. m - 1 \in Late
    BY <2>6, <2>7
  <2> QED
    BY <2>3, <2>6, <2>8
<1> DEFINE f == [k \in Places |-> at[k]]
<1>5. f \in [Places -> VarPages]
  <2>1. \A k \in Places : at[k] \in VarPages
    BY <1>3, <1>4 DEF OneWay
  <2> QED
    BY <2>1
<1>6. IsFiniteSet(Places) /\ Cardinality(Places) = NVarPages + 1
  BY <1>2, FS_Interval DEF Places
<1>7. IsFiniteSet(VarPages) /\ Cardinality(VarPages) = NVarPages
  BY <1>2, FS_Interval DEF VarPages
<1>8. Cardinality(VarPages) < Cardinality(Places)
  BY <1>2, <1>6, <1>7
<1> HIDE DEF f
<1>9. \E x, y \in Places : x # y /\ f[x] = f[y]
  BY <1>5, <1>6, <1>7, <1>8, FS_PigeonHole
<1>10. PICK x \in Places, y \in Places : x # y /\ at[x] = at[y]
  BY <1>9 DEF f
<1> QED
  BY <1>4, <1>10, WalkOnce

-----------------------------------------------------------------------------
(* What is reached from the hash page is the set that the chains close.    *)

LEMMA PageLinks ==
  ASSUME NEW p \in VarPages
  PROVE  NextOf[p] = vpages[p].next /\ OvnextOf[p] = vpages[p].ovnext
BY DEF NextOf, OvnextOf, VarPages, NoPg

LEMMA NoPageLinks == NextOf[NoPg] = NoPg /\ OvnextOf[NoPg] = NoPg
BY DEF NextOf, OvnextOf, NoPg

LEMMA PlacesOne == NVarPages \in Nat /\ 1 \in Places
BY VarAssumption DEF Places

\* A page of a chain is the first page or the next of another.
LEMMA OnChain ==
  ASSUME NEW S, Linked(vhash, vpages, S), NEW b \in DOMAIN vhash, NEW q \in PagesOn(ChainOf(b))
  PROVE  /\ q \in S /\ Heads(vhash, vpages, S, q)
         /\ vpages[q].next # NoPg => vpages[q].next \in PagesOn(ChainOf(b))
<1> DEFINE at == ChainOf(b)
<1>1. Walks(at, vhash[b], NextOf)
  BY FollowWalks DEF ChainOf
<1> HIDE DEF at
<1>2. DOMAIN at = Places
  BY <1>1 DEF Walks, Places
<1>3. PICK j \in Places : q = at[j] /\ q # NoPg
  BY <1>2 DEF PagesOn, at
<1>4. /\ S \subseteq VarPages /\ vhash[b] \in S \cup {NoPg}
      /\ \A p \in S : NextOf[p] = vpages[p].next /\ NextOf[p] \in S \cup {NoPg}
      /\ NextOf[NoPg] = NoPg
  BY PageLinks, NoPageLinks DEF Linked, Closed
<1>5. \A k \in Places : at[k] \in S \cup {NoPg}
  <2> DEFINE T == S \cup {NoPg}
  <2>1. vhash[b] \in T /\ \A t \in T : NextOf[t] \in T
    BY <1>4
  <2> HIDE DEF T
  <2>2. \A k \in Places : at[k] \in T
    BY <1>1, <2>1, WalkStays
  <2> QED
    BY <2>2 DEF T
<1>6. q \in S
  BY <1>3, <1>5
<1>7. vhash[b] # NoPg
  <2>1. SUFFICES ASSUME vhash[b] = NoPg PROVE FALSE
    OBVIOUS
  <2> DEFINE T == {NoPg}
  <2>2. vhash[b] \in T /\ \A t \in T : NextOf[t] \in T
    BY <1>4, <2>1
  <2> HIDE DEF T
  <2>3. \A k \in Places : at[k] \in T
    BY <1>1, <2>2, WalkStays
  <2> QED
    BY <1>3, <2>3 DEF T
<1>8. OneWay(S, vhash[b], NextOf)
  <2>1. \A p \in S : NextOf[p] # vhash[b]
    BY <1>4, <1>7 DEF Linked, Apart, KindsApart
  <2>2. \A p, r \in S : NextOf[p] = NextOf[r] /\ NextOf[p] # NoPg => p = r
    BY <1>4 DEF Linked, Apart, NextApart
  <2> QED
    BY <1>4, <1>7, <2>1, <2>2 DEF OneWay
<1>9. at[NVarPages + 1] = NoPg
  BY <1>1, <1>8, WalkEnds
<1>10. j \in 1..NVarPages /\ j + 1 \in Places
  BY <1>3, <1>9, PlacesOne DEF Places
<1>11. Heads(vhash, vpages, S, q)
  <2>1. CASE j = 1
    BY <1>1, <1>3, <2>1 DEF Heads, Walks
  <2>2. CASE j # 1
    <3>1. j - 1 \in Places /\ j - 1 \in 1..NVarPages /\ (j - 1) + 1 = j
      BY <1>10, <2>2, PlacesOne DEF Places
    <3>2. q = NextOf[at[j - 1]]
      BY <1>1, <1>3, <3>1 DEF Walks
    <3>3. at[j - 1] \in S
      BY <1>3, <1>4, <1>5, <3>1, <3>2
    <3> QED
      BY <1>4, <3>2, <3>3 DEF Heads
  <2> QED
    BY <2>1, <2>2
<1>12. vpages[q].next = at[j + 1]
  BY <1>1, <1>3, <1>4, <1>6, <1>10 DEF Walks
<1>13. vpages[q].next # NoPg => vpages[q].next \in PagesOn(at)
  BY <1>2, <1>10, <1>12 DEF PagesOn
<1> QED
  BY <1>6, <1>11, <1>13 DEF at

\* The pages of a name.
LEMMA OnName ==
  ASSUME NEW S, Linked(vhash, vpages, S), NEW q \in S, Heads(vhash, vpages, S, q),
         NEW p \in PagesOn(PiecesOf(q))
  PROVE  /\ p \in S
         /\ vpages[p].ovnext # NoPg => vpages[p].ovnext \in PagesOn(PiecesOf(q))
         /\ p # q => vpages[p].next = NoPg
<1> DEFINE at == PiecesOf(q)
<1>1. Walks(at, q, OvnextOf)
  BY FollowWalks DEF PiecesOf
<1> HIDE DEF at
<1>2. DOMAIN at = Places
  BY <1>1 DEF Walks, Places
<1>3. PICK j \in Places : p = at[j] /\ p # NoPg
  BY <1>2 DEF PagesOn, at
<1>4. /\ S \subseteq VarPages /\ q # NoPg
      /\ \A e \in S : OvnextOf[e] = vpages[e].ovnext /\ OvnextOf[e] \in S \cup {NoPg}
      /\ OvnextOf[NoPg] = NoPg
  BY PageLinks, NoPageLinks DEF Linked, Closed, VarPages, NoPg
<1>5. \A k \in Places : at[k] \in S \cup {NoPg}
  <2> DEFINE T == S \cup {NoPg}
  <2>1. q \in T /\ \A t \in T : OvnextOf[t] \in T
    BY <1>4
  <2> HIDE DEF T
  <2>2. \A k \in Places : at[k] \in T
    BY <1>1, <2>1, WalkStays
  <2> QED
    BY <2>2 DEF T
<1>6. p \in S
  BY <1>3, <1>5
<1>7. OneWay(S, q, OvnextOf)
  <2>1. \A e \in S : OvnextOf[e] # q
    <3>1. CASE \E b \in DOMAIN vhash : vhash[b] = q
      BY <1>4, <3>1 DEF Linked, Apart, KindsApart
    <3>2. CASE \E r \in S : vpages[r].next = q
      BY <1>4, <3>2 DEF Linked, Apart, KindsApart
    <3> QED
      BY <3>1, <3>2 DEF Heads
  <2>2. \A e, r \in S : OvnextOf[e] = OvnextOf[r] /\ OvnextOf[e] # NoPg => e = r
    BY <1>4 DEF Linked, Apart, TailApart
  <2> QED
    BY <1>4, <2>1, <2>2 DEF OneWay
<1>8. at[NVarPages + 1] = NoPg
  BY <1>1, <1>7, WalkEnds
<1>9. j \in 1..NVarPages /\ j + 1 \in Places
  BY <1>3, <1>8, PlacesOne DEF Places
<1>10. vpages[p].ovnext = at[j + 1]
  BY <1>1, <1>3, <1>4, <1>6, <1>9 DEF Walks
<1>11. vpages[p].ovnext # NoPg => vpages[p].ovnext \in PagesOn(at)
  BY <1>2, <1>9, <1>10 DEF PagesOn
<1>12. ASSUME p # q PROVE vpages[p].next = NoPg
  <2>1. j # 1
    BY <1>1, <1>3, <1>12 DEF Walks
  <2>2. j - 1 \in Places /\ j - 1 \in 1..NVarPages /\ (j - 1) + 1 = j
    BY <1>9, <2>1, PlacesOne DEF Places
  <2>3. p = OvnextOf[at[j - 1]]
    BY <1>1, <1>3, <2>2 DEF Walks
  <2>4. at[j - 1] \in S
    BY <1>3, <1>4, <1>5, <2>2, <2>3
  <2> QED
    BY <1>3, <1>4, <2>3, <2>4 DEF Linked, TailsEnd
<1> QED
  BY <1>6, <1>11, <1>12 DEF at

LEMMA FirstOnWalk ==
  ASSUME NEW first, first # NoPg, NEW next
  PROVE  first \in PagesOn(Follow(first, next))
<1>1. Walks(Follow(first, next), first, next)
  BY FollowWalks
<1> QED
  BY <1>1, PlacesOne DEF Walks, Places, PagesOn

LEMMA ReachedIsLinked ==
  ASSUME NEW S, Linked(vhash, vpages, S)
  PROVE  Reached = S
<1>1. ASSUME NEW b \in DOMAIN vhash, NEW q \in PagesOn(ChainOf(b)) PROVE q \in Reached
  <2>1. q # NoPg
    BY DEF PagesOn
  <2>2. q \in PagesOn(PiecesOf(q))
    BY <2>1, FirstOnWalk DEF PiecesOf
  <2> QED
    BY <2>2 DEF Reached
<1>2. ASSUME NEW p \in Reached
      PROVE  /\ p \in S
             /\ vpages[p].next \in Reached \cup {NoPg} /\ vpages[p].ovnext \in Reached \cup {NoPg}
  <2>1. PICK b \in DOMAIN vhash : \E q \in PagesOn(ChainOf(b)) : p \in PagesOn(PiecesOf(q))
    BY DEF Reached
  <2>2. PICK q \in PagesOn(ChainOf(b)) : p \in PagesOn(PiecesOf(q))
    BY <2>1
  <2>3. /\ q \in S /\ Heads(vhash, vpages, S, q)
        /\ vpages[q].next # NoPg => vpages[q].next \in PagesOn(ChainOf(b))
    BY OnChain
  <2>4. /\ p \in S
        /\ vpages[p].ovnext # NoPg => vpages[p].ovnext \in PagesOn(PiecesOf(q))
        /\ p # q => vpages[p].next = NoPg
    BY <2>2, <2>3, OnName
  <2>5. vpages[p].ovnext \in Reached \cup {NoPg}
    BY <2>4 DEF Reached
  <2>6. vpages[q].next \in Reached \cup {NoPg}
    BY <1>1, <2>3
  <2> QED
    BY <2>4, <2>5, <2>6
<1>3. ASSUME NEW b \in DOMAIN vhash PROVE vhash[b] \in Reached \cup {NoPg}
  <2>1. SUFFICES ASSUME vhash[b] # NoPg PROVE vhash[b] \in Reached
    OBVIOUS
  <2>2. vhash[b] \in PagesOn(ChainOf(b))
    BY <2>1, FirstOnWalk DEF ChainOf
  <2> QED
    BY <1>1, <2>2
<1>4. Reached \in SUBSET S
  BY <1>2
<1>5. Closed(vhash, vpages, Reached)
  BY <1>2, <1>3, <1>4 DEF Linked, Closed
<1> QED
  BY <1>4, <1>5 DEF Linked, Least

\* The invariant is what ChainsExact says, and more.
LEMMA InvChainsExact ==
  ASSUME ChainInv
  PROVE  ChainsExact
<1>1. PICK S : \E D : ChainsAre(S, D)
  BY DEF ChainInv, Chained
<1>2. PICK D : ChainsAre(S, D)
  BY <1>1
<1>3. Reached = S
  BY <1>2, ReachedIsLinked DEF ChainsAre
<1>4. NoDanglingPage
  BY <1>2, <1>3 DEF ChainsAre, Owned, NoDanglingPage, FreePages
<1>5. NoVarPageLost
  <2>1. SUFFICES ASSUME vfails = 0, vcall = NoCall PROVE InUse = S
    BY <1>3 DEF NoVarPageLost, InUse
  <2>2. vstep = "idle"
    BY <2>1 DEF ChainInv, LockInv
  <2> QED
    BY <1>2, <2>1, <2>2 DEF ChainsAre, Accounted
<1> QED
  BY <1>4, <1>5 DEF ChainsExact

-----------------------------------------------------------------------------
(* Who is served, and who has the lock.                                    *)

\* A step of the call that is served, or its end.
Ended ==
  /\ vcall' = NoCall /\ vstep' = "idle" /\ dblock' = AfterCall
  /\ vcur' = NoPg /\ vprev' = NoPg /\ vnew' = NoPg /\ vstart' = NoPg
  /\ UNCHANGED <<vwait, txOf>>

LEMMA StepGoesOn ==
  ASSUME CursorStep \/ PagerFails
  PROVE  vstep # "idle" /\ (Frame \/ Ended)
<1>1. CASE PagerFails
  BY <1>1 DEF PagerFails, Answer, Ended
<1>2. CASE ReadHash
  BY <1>2 DEF ReadHash, Doing, Answer, Ended
<1>3. CASE Visit \/ Gather \/ Back \/ Close \/ MakeRoot
  BY <1>3 DEF Visit, Gather, Back, Close, MakeRoot, Doing, Answer, Ended
<1>4. CASE Found \/ NotThisOne
  BY <1>4 DEF Found, NotThisOne, Doing, Answer, Ended
<1>5. CASE AppendPage \/ NewHead \/ LinkPage \/ LinkHead
  BY <1>5 DEF AppendPage, NewHead, LinkPage, LinkHead, ToFill, Doing
<1>6. CASE WriteName \/ Overflows
  BY <1>6 DEF WriteName, Overflows, Doing
<1>7. CASE Unlink \/ CutOff \/ Drop
  BY <1>7 DEF Unlink, CutOff, Drop, Doing, Answer, Ended
<1> QED
  BY <1>1, <1>2, <1>3, <1>4, <1>5, <1>6, <1>7 DEF CursorStep

LEMMA FrameKeepsLock ==
  ASSUME LockInv, vstep # "idle", Frame
  PROVE  LockInv'
BY DEF LockInv, Asks, Frame

LEMMA EndKeepsLock ==
  ASSUME LockInv, vstep # "idle", Ended
  PROVE  LockInv'
<1>1. /\ vcall # NoCall /\ vcall.client \in Clients /\ dblock = vcall.client
      /\ vcall.op \in {"get", "begin"} => txOf # vcall.client
  BY DEF LockInv, Asks
<1>2. txOf # Nobody => txOf = vcall.client /\ vcall.op # "get"
  BY <1>1 DEF LockInv
<1>3. dblock' \in Clients \cup {Nobody} /\ (txOf' # Nobody => dblock' = txOf')
  BY <1>1, <1>2 DEF Ended, AfterCall, NeedsLock
<1>4. DOMAIN vwait' = Clients /\ \A c \in Clients : vwait'[c] # NoCall => Asks(vwait[c], c)'
  BY DEF LockInv, Ended, Asks
<1> QED
  BY <1>3, <1>4 DEF LockInv, Ended

LEMMA AskedIsNoNoCall ==
  ASSUME NEW c \in Clients, NEW op \in {"new", "get", "delete", "begin"}, NEW n \in Names
  PROVE  /\ Request(c, op, n) # NoCall
         /\ Request(c, op, n).client = c /\ Request(c, op, n).op = op /\ Request(c, op, n).name = n
BY VarAssumption DEF Request

LEMMA CallKeepsLock ==
  ASSUME LockInv, NEW c \in Clients, NEW op \in {"new", "get", "delete", "begin"}, NEW n \in Names,
         VarCall(c, op, n)
  PROVE  LockInv'
<1> DEFINE r == Request(c, op, n)
<1>1. r # NoCall /\ r.client = c /\ r.op = op /\ r.name = n
  BY AskedIsNoNoCall
<1> HIDE DEF r
<1>2. /\ UNCHANGED <<dblock, txOf>> /\ ~(txOf = c /\ op \in {"get", "begin"})
      /\ ~(vcall # NoCall /\ vcall.client = c) /\ vwait[c] = NoCall
  BY DEF VarCall
<1>3. Asks(r, c)'
  BY <1>1, <1>2 DEF Asks, Ops
<1>4. CASE NeedsLock(c, op)
  <2>1. vwait' = [vwait EXCEPT ![c] = r] /\ UNCHANGED <<vcall, vstep>>
    BY <1>4 DEF VarCall, r
  <2>2. DOMAIN vwait' = Clients
    BY <2>1 DEF LockInv
  <2>3. ASSUME NEW d \in Clients, vwait'[d] # NoCall PROVE Asks(vwait[d], d)'
    <3>1. CASE d = c
      <4>1. vwait'[d] = r
        BY <2>1, <3>1 DEF LockInv
      <4> QED
        BY <1>3, <3>1, <4>1
    <3>2. CASE d # c
      <4>1. vwait'[d] = vwait[d]
        BY <2>1, <3>2 DEF LockInv
      <4>2. Asks(vwait[d], d)
        BY <2>3, <4>1 DEF LockInv
      <4> QED
        BY <1>2, <4>1, <4>2 DEF Asks
    <3> QED
      BY <3>1, <3>2
  <2> QED
    BY <1>2, <2>1, <2>2, <2>3 DEF LockInv, Asks
<1>5. CASE ~NeedsLock(c, op)
  <2>1. vcall' = r /\ UNCHANGED vwait
    BY <1>5 DEF VarCall, Serve, r
  <2>2. txOf = c /\ op \in Ops
    BY <1>2, <1>5 DEF NeedsLock, Ops
  <2>3. dblock = c
    BY <2>2, VarAssumption DEF LockInv
  <2>4. \A d \in Clients : vwait'[d] # NoCall => Asks(vwait[d], d)'
    BY <1>2, <2>1 DEF LockInv, Asks
  <2>5. Asks(vcall, c)'
    BY <1>3, <2>1
  <2> QED
    BY <1>1, <1>2, <2>1, <2>2, <2>3, <2>4, <2>5 DEF LockInv
<1> QED
  BY <1>4, <1>5

LEMMA LockKeepsLock ==
  ASSUME LockInv, NEW c \in Clients, LockDb(c)
  PROVE  LockInv'
<1>1. /\ vwait[c] # NoCall /\ dblock = Nobody /\ dblock' = c
      /\ vwait' = [vwait EXCEPT ![c] = NoCall]
  BY DEF LockDb
<1>2. txOf = Nobody /\ vcall = NoCall /\ Asks(vwait[c], c)
  BY <1>1, VarAssumption DEF LockInv
<1>3. \A d \in Clients : vwait'[d] # NoCall => d # c /\ vwait'[d] = vwait[d] /\ Asks(vwait[d], d)
  BY <1>1 DEF LockInv
<1>4. txOf' \in {Nobody, c}
  BY <1>1, <1>2 DEF LockDb
<1>5. \A d \in Clients : vwait'[d] # NoCall => Asks(vwait[d], d)'
  BY <1>3, <1>4, VarAssumption DEF Asks
<1>6. CASE vwait[c].op = "begin"
  <2>1. UNCHANGED <<vcall, vstep>>
    BY <1>6 DEF LockDb
  <2> QED
    BY <1>1, <1>2, <1>4, <1>5, <2>1 DEF LockInv
<1>7. CASE vwait[c].op # "begin"
  <2>1. vcall' = vwait[c] /\ txOf' = txOf
    BY <1>7 DEF LockDb, Serve
  <2>2. Asks(vcall, c)' /\ vcall'.op \in Ops
    BY <1>2, <1>7, <2>1 DEF Asks
  <2>3. vcall'.client = c
    BY <1>2, <2>1 DEF Asks
  <2>4. DOMAIN vwait' = Clients
    BY <1>1 DEF LockInv
  <2> QED
    BY <1>1, <1>2, <1>5, <2>1, <2>2, <2>3, <2>4 DEF LockInv
<1> QED
  BY <1>6, <1>7

LEMMA CommitKeepsLock ==
  ASSUME LockInv, NEW c \in Clients, CommitVar(c)
  PROVE  LockInv'
<1>1. \A d \in Clients : vwait'[d] # NoCall => Asks(vwait[d], d)'
  BY VarAssumption DEF LockInv, CommitVar, Asks
<1> QED
  BY <1>1 DEF LockInv, CommitVar, cursorOfVar

LEMMA LockStart ==
  ASSUME VarInit
  PROVE  LockInv
BY DEF VarInit, LockInv

LEMMA LockStep ==
  ASSUME LockInv, [VarNext]_varVars
  PROVE  LockInv'
<1>1. CASE CursorStep \/ PagerFails
  BY <1>1, StepGoesOn, FrameKeepsLock, EndKeepsLock
<1>2. CASE \E c \in Clients, op \in {"new", "get", "delete", "begin"}, n \in Names : VarCall(c, op, n)
  BY <1>2, CallKeepsLock
<1>3. CASE \E c \in Clients : LockDb(c)
  BY <1>3, LockKeepsLock
<1>4. CASE \E c \in Clients : CommitVar(c)
  BY <1>4, CommitKeepsLock
<1>5. CASE UNCHANGED varVars
  BY <1>5 DEF varVars, cursorOfVar, LockInv, Asks
<1> QED
  BY <1>1, <1>2, <1>3, <1>4, <1>5 DEF VarNext

LEMMA InvTransactionAlone ==
  ASSUME LockInv
  PROVE  TransactionAlone
BY DEF LockInv, TransactionAlone

-----------------------------------------------------------------------------
(* Pages, copies and the list of free pages.                               *)

LEMMA PageMade ==
  ASSUME NEW k \in {"free", "var", "tail"}, NEW n \in Links, NEW o \in Links, NEW l, NEW c
  PROVE  IsPage([kind |-> k, next |-> n, ovnext |-> o, vlen |-> l, cells |-> c])
<1> DEFINE x == [kind |-> k, next |-> n, ovnext |-> o, vlen |-> l, cells |-> c]
<1>1. \E l2, c2 : x = [kind |-> k, next |-> n, ovnext |-> o, vlen |-> l2, cells |-> c2]
  BY Zenon
<1> HIDE DEF x
<1>2. IsPage(x)
  BY <1>1 DEF IsPage
<1> QED
  BY <1>2 DEF x

LEMMA PageParts ==
  ASSUME NEW x, IsPage(x)
  PROVE  x.kind \in {"free", "var", "tail"} /\ x.next \in Links /\ x.ovnext \in Links
<1>1. PICK k \in {"free", "var", "tail"}, n \in Links, o \in Links :
         \E l, c : x = [kind |-> k, next |-> n, ovnext |-> o, vlen |-> l, cells |-> c]
  BY DEF IsPage
<1> QED
  BY <1>1

\* A page of which one part is changed.
LEMMA PageNext ==
  ASSUME NEW x, IsPage(x), NEW m \in Links
  PROVE  LET y == [x EXCEPT !.next = m]
         IN  IsPage(y) /\ y.next = m /\ y.ovnext = x.ovnext /\ y.kind = x.kind
<1>1. PICK k \in {"free", "var", "tail"}, n \in Links, o \in Links :
         \E l, c : x = [kind |-> k, next |-> n, ovnext |-> o, vlen |-> l, cells |-> c]
  BY DEF IsPage
<1>2. PICK l, c : x = [kind |-> k, next |-> n, ovnext |-> o, vlen |-> l, cells |-> c]
  BY <1>1
<1> DEFINE y == [x EXCEPT !.next = m]
<1>3. y = [kind |-> k, next |-> m, ovnext |-> o, vlen |-> l, cells |-> c]
  BY <1>2
<1>4. IsPage(y)
  BY <1>3, PageMade
<1> QED
  BY <1>2, <1>3, <1>4

LEMMA PageOvnext ==
  ASSUME NEW x, IsPage(x), NEW m \in Links
  PROVE  LET y == [x EXCEPT !.ovnext = m]
         IN  IsPage(y) /\ y.ovnext = m /\ y.next = x.next /\ y.kind = x.kind
<1>1. PICK k \in {"free", "var", "tail"}, n \in Links, o \in Links :
         \E l, c : x = [kind |-> k, next |-> n, ovnext |-> o, vlen |-> l, cells |-> c]
  BY DEF IsPage
<1>2. PICK l, c : x = [kind |-> k, next |-> n, ovnext |-> o, vlen |-> l, cells |-> c]
  BY <1>1
<1> DEFINE y == [x EXCEPT !.ovnext = m]
<1>3. y = [kind |-> k, next |-> n, ovnext |-> m, vlen |-> l, cells |-> c]
  BY <1>2
<1>4. IsPage(y)
  BY <1>3, PageMade
<1> QED
  BY <1>2, <1>3, <1>4

LEMMA PageVlen ==
  ASSUME NEW x, IsPage(x), NEW m
  PROVE  LET y == [x EXCEPT !.vlen = m]
         IN  IsPage(y) /\ y.next = x.next /\ y.ovnext = x.ovnext /\ y.kind = x.kind
<1>1. PICK k \in {"free", "var", "tail"}, n \in Links, o \in Links :
         \E l, c : x = [kind |-> k, next |-> n, ovnext |-> o, vlen |-> l, cells |-> c]
  BY DEF IsPage
<1>2. PICK l, c : x = [kind |-> k, next |-> n, ovnext |-> o, vlen |-> l, cells |-> c]
  BY <1>1
<1> DEFINE y == [x EXCEPT !.vlen = m]
<1>3. y = [kind |-> k, next |-> n, ovnext |-> o, vlen |-> m, cells |-> c]
  BY <1>2
<1>4. IsPage(y)
  BY <1>3, PageMade
<1> QED
  BY <1>2, <1>3, <1>4

LEMMA PageCells ==
  ASSUME NEW x, IsPage(x), NEW m
  PROVE  LET y == [x EXCEPT !.cells = m]
         IN  IsPage(y) /\ y.next = x.next /\ y.ovnext = x.ovnext /\ y.kind = x.kind
<1>1. PICK k \in {"free", "var", "tail"}, n \in Links, o \in Links :
         \E l, c : x = [kind |-> k, next |-> n, ovnext |-> o, vlen |-> l, cells |-> c]
  BY DEF IsPage
<1>2. PICK l, c : x = [kind |-> k, next |-> n, ovnext |-> o, vlen |-> l, cells |-> c]
  BY <1>1
<1> DEFINE y == [x EXCEPT !.cells = m]
<1>3. y = [kind |-> k, next |-> n, ovnext |-> o, vlen |-> l, cells |-> m]
  BY <1>2
<1>4. IsPage(y)
  BY <1>3, PageMade
<1> QED
  BY <1>2, <1>3, <1>4

LEMMA PageTaken ==
  ASSUME NEW k \in {"var", "tail"}
  PROVE  LET y == [FreePage EXCEPT !.kind = k]
         IN  IsPage(y) /\ y.next = NoPg /\ y.ovnext = NoPg /\ y.kind = k /\ k # "free"
<1> DEFINE y == [FreePage EXCEPT !.kind = k]
<1>1. y = [kind |-> k, next |-> NoPg, ovnext |-> NoPg, vlen |-> 0, cells |-> <<>>]
  BY DEF FreePage
<1>2. IsPage(y)
  <2>1. k \in {"free", "var", "tail"} /\ NoPg \in Links
    BY DEF Links
  <2>2. IsPage([kind |-> k, next |-> NoPg, ovnext |-> NoPg, vlen |-> 0, cells |-> <<>>])
    BY <2>1, PageMade
  <2> QED
    BY <1>1, <2>2
<1> QED
  BY <1>1, <1>2

LEMMA FreePageParts ==
  IsPage(FreePage) /\ FreePage.kind = "free" /\ FreePage.next = NoPg /\ FreePage.ovnext = NoPg
BY PageMade DEF FreePage, Links

LEMMA NoPgIsNone == NoPg \notin VarPages /\ NoPg \in Links /\ VarPages \subseteq Links
BY DEF NoPg, VarPages, Links

\* One page is put.
SetAt(V, W, p, x)     == W = [V EXCEPT ![p] = x]
SetNext(V, W, p, n)   == W = [V EXCEPT ![p].next = n]

LEMMA PageSet ==
  ASSUME NEW V, PagesOK(V), NEW W, NEW p \in VarPages, NEW x, SetAt(V, W, p, x),
         IsPage(x), x.kind = "free" => x = FreePage
  PROVE  PagesOK(W) /\ W[p] = x /\ \A q \in VarPages \ {p} : W[q] = V[q]
BY DEF PagesOK, SetAt

LEMMA NextIsSet ==
  ASSUME NEW V, PagesOK(V), NEW W, NEW p \in VarPages, NEW n \in Links, SetNext(V, W, p, n),
         V[p].kind # "free"
  PROVE  /\ PagesOK(W) /\ W[p].next = n /\ W[p].ovnext = V[p].ovnext /\ W[p].kind = V[p].kind
         /\ \A q \in VarPages \ {p} : W[q] = V[q]
<1> DEFINE y == [V[p] EXCEPT !.next = n]
<1>1. IsPage(V[p]) /\ DOMAIN V = VarPages
  BY DEF PagesOK
<1>2. IsPage(y) /\ y.next = n /\ y.ovnext = V[p].ovnext /\ y.kind = V[p].kind
  BY <1>1, PageNext
<1>3. SetAt(V, W, p, y)
  BY DEF SetNext, SetAt
<1>4. y.kind = "free" => y = FreePage
  BY <1>2
<1> HIDE DEF y
<1>5. PagesOK(W) /\ W[p] = y /\ \A q \in VarPages \ {p} : W[q] = V[q]
  BY <1>2, <1>3, <1>4, PageSet
<1> QED
  BY <1>2, <1>5

LEMMA RootSet ==
  ASSUME NEW H, RootsOK(H), NEW K, NEW b \in Buckets, NEW n \in Links, SetAt(H, K, b, n)
  PROVE  RootsOK(K) /\ DOMAIN K = DOMAIN H /\ K[b] = n /\ \A a \in DOMAIN H \ {b} : K[a] = H[a]
BY DEF RootsOK, SetAt

LEMMA CopySet ==
  ASSUME NEW C, CopiesOK(C), NEW E, NEW p \in DOMAIN C, NEW x, SetAt(C, E, p, x), IsPage(x)
  PROVE  CopiesOK(E) /\ DOMAIN E = DOMAIN C /\ E[p] = x
BY DEF CopiesOK, SetAt

OthersAre(C, E, p) == \A q \in DOMAIN C \ {p} : E[q] = C[q]

LEMMA CopyWith ==
  ASSUME NEW C, CopiesOK(C), NEW p \in VarPages, NEW x, IsPage(x)
  PROVE  /\ CopiesOK(With(C, p, x)) /\ DOMAIN With(C, p, x) = DOMAIN C \cup {p}
         /\ With(C, p, x)[p] = x /\ OthersAre(C, With(C, p, x), p)
BY DEF CopiesOK, With, OthersAre

LEMMA CopyWithout ==
  ASSUME NEW C, CopiesOK(C), NEW p
  PROVE  CopiesOK(Without(C, p)) /\ DOMAIN Without(C, p) = DOMAIN C \ {p}
BY DEF CopiesOK, Without

LEMMA NewPgIsFree ==
  ASSUME PagesOK(vpages), FreePages # {}
  PROVE  /\ NewPg \in VarPages /\ NewPg \notin DOMAIN vcopy /\ vpages[NewPg] = FreePage
         /\ \A S : Owned(S) => NewPg \notin S
<1>1. FreePages \in SUBSET Nat
  BY VarAssumption DEF FreePages, VarPages
<1>2. \E p \in FreePages : \A q \in FreePages : p <= q
  BY <1>1, HasLeast
<1>3. NewPg \in FreePages
  BY <1>2 DEF NewPg
<1> QED
  BY <1>3 DEF FreePages, PagesOK, Owned

-----------------------------------------------------------------------------
(* The cursor looks for a name: pages and copies stay as they are.         *)

LEMMA NameHasBucket ==
  ASSUME VarTypes, LockInv, vcall # NoCall
  PROVE  /\ Hash(Name) \in Buckets /\ Hash(Name) \in DOMAIN vhash
         /\ vcall.op \in Ops /\ FirstPage \in Links
<1>1. Name \in Names /\ vcall.op \in Ops
  BY DEF LockInv, Asks, Name
<1>2. Hash(Name) \in Buckets
  BY <1>1 DEF Buckets
<1> QED
  BY <1>1, <1>2 DEF VarTypes, RootsOK, FirstPage

\* Nobody has a copy in hands.
Calm(step) == step \notin {"link", "linkHead", "write", "overflow", "cut", "drop"}

LEMMA PagesStay ==
  ASSUME VarTypes, NEW S, NEW D, ChainsAre(S, D), UNCHANGED varPageVars, CursorTypes'
  PROVE  /\ VarTypes' /\ Linked(vhash, vpages, S)' /\ Owned(S)'
         /\ InUse' = InUse /\ UNCHANGED <<vhash, vpages, vcopy>>
<1>1. UNCHANGED <<vhash, vpages, vcopy>>
  BY DEF varPageVars
<1>2. VarTypes'
  BY <1>1 DEF VarTypes
<1>3. Linked(vhash, vpages, S)'
  BY <1>1 DEF ChainsAre
<1>4. Owned(S)'
  BY <1>1 DEF ChainsAre, Owned
<1>5. InUse' = InUse
  BY <1>1 DEF InUse
<1> QED
  BY <1>1, <1>2, <1>3, <1>4, <1>5

LEMMA CalmAccount ==
  ASSUME NEW S, NEW D, Calm(vstep)
  PROVE  Accounted(S, D) <=> InUse = S /\ DOMAIN vcopy = {}
BY DEF Accounted, Calm

LEMMA CallMoves ==
  ASSUME VarTypes, NEW S, NEW D, ChainsAre(S, D), UNCHANGED <<varPageVars, vfails>>,
         Calm(vstep), Calm(vstep'), CursorTypes', Reads(S)', Writes(S)'
  PROVE  VarTypes' /\ Chained'
<1>1. /\ VarTypes' /\ Linked(vhash, vpages, S)' /\ Owned(S)'
      /\ InUse' = InUse /\ UNCHANGED <<vhash, vpages, vcopy>>
  BY PagesStay
<1>2. Deletes(S, D)'
  BY DEF Deletes, Calm
<1>3. vfails' = 0 => Accounted(S, D)'
  <2>1. SUFFICES ASSUME vfails' = 0 PROVE Accounted(S, D)'
    OBVIOUS
  <2>2. InUse = S /\ DOMAIN vcopy = {}
    BY <2>1, CalmAccount DEF ChainsAre
  <2> QED
    BY <1>1, <2>2 DEF Accounted, Calm
<1>4. ChainsAre(S, D)'
  BY <1>1, <1>2, <1>3 DEF ChainsAre
<1> QED
  BY <1>1, <1>4 DEF Chained

LEMMA CallEnds ==
  ASSUME VarTypes, NEW S, NEW D, ChainsAre(S, D), UNCHANGED varPageVars, Ended, vfails' \in Nat,
         vfails' = 0 => InUse = S /\ DOMAIN vcopy = {}
  PROVE  VarTypes' /\ Chained'
<1>1. CursorTypes'
  BY NoPgIsNone DEF CursorTypes, Ended, Steps
<1>2. /\ VarTypes' /\ Linked(vhash, vpages, S)' /\ Owned(S)'
      /\ InUse' = InUse /\ UNCHANGED <<vhash, vpages, vcopy>>
  BY <1>1, PagesStay
<1>3. Reads(S)' /\ Writes(S)' /\ Deletes(S, D)'
  BY DEF Reads, Writes, Deletes, Ended
<1>4. vfails' = 0 => Accounted(S, D)'
  BY <1>2 DEF Accounted, Ended
<1>5. ChainsAre(S, D)'
  BY <1>2, <1>3, <1>4 DEF ChainsAre
<1> QED
  BY <1>2, <1>5 DEF Chained

\* A call that ends without a failure where nobody has a copy.
LEMMA CalmEnds ==
  ASSUME VarTypes, NEW S, NEW D, ChainsAre(S, D), UNCHANGED <<varPageVars, vfails>>, Ended, Calm(vstep)
  PROVE  VarTypes' /\ Chained'
<1>1. vfails' \in Nat
  BY DEF VarTypes, CursorTypes
<1>2. vfails' = 0 => InUse = S /\ DOMAIN vcopy = {}
  BY CalmAccount DEF ChainsAre
<1> QED
  BY <1>1, <1>2, CallEnds

LEMMA ReadHashKeeps ==
  ASSUME VarTypes, LockInv, NEW S, NEW D, ChainsAre(S, D), ReadHash
  PROVE  VarTypes' /\ Chained'
<1>1. vstep = "hash" /\ vprev = NoPg /\ vcall # NoCall /\ Calm(vstep)
  BY DEF ReadHash, Doing, ChainsAre, Reads, LockInv, Calm
<1>2. Hash(Name) \in DOMAIN vhash /\ FirstPage \in Links /\ FirstPage \in S \cup {NoPg}
  <2>1. Hash(Name) \in DOMAIN vhash /\ FirstPage \in Links
    BY <1>1, NameHasBucket
  <2> QED
    BY <2>1 DEF ChainsAre, Linked, Closed, FirstPage
<1>3. CASE FirstPage # NoPg /\ vnew' = FirstPage /\ vstep' = "visit"
           /\ UNCHANGED <<varPageVars, vcur, vprev, vstart, vcells>> /\ Frame
  <2>1. UNCHANGED <<vhash, vpages, vcopy, vcall, vfails>> /\ vprev' = NoPg
    BY <1>1, <1>3 DEF varPageVars, Frame
  <2>2. CursorTypes'
    BY <1>2, <1>3 DEF VarTypes, CursorTypes, Frame, Steps
  <2>3. Heads(vhash, vpages, S, FirstPage)
    BY <1>2 DEF Heads, FirstPage
  <2>4. Before(S, vnew)'
    BY <1>3, <2>1, <2>3 DEF Before, Heads, FirstPage, Name
  <2>5. Reads(S)' /\ Writes(S)'
    BY <1>2, <1>3, <2>4 DEF Reads, Writes
  <2>6. Calm(vstep')
    BY <1>3 DEF Calm
  <2> QED
    BY <1>1, <1>3, <2>2, <2>5, <2>6, CallMoves DEF Frame
<1>4. CASE FirstPage = NoPg /\ vstep' \in {"newHead", "dead"}
           /\ UNCHANGED <<varPageVars, vcur, vprev, vnew, vstart, vcells>> /\ Frame
  <2>1. UNCHANGED <<vhash, vcall>>
    BY <1>4 DEF varPageVars, Frame
  <2>2. CursorTypes'
    BY <1>4 DEF VarTypes, CursorTypes, Frame, Steps
  <2>3. Reads(S)' /\ Writes(S)'
    BY <1>4, <2>1 DEF Reads, Writes, FirstPage, Name
  <2>4. Calm(vstep')
    BY <1>4 DEF Calm
  <2> QED
    BY <1>1, <1>4, <2>2, <2>3, <2>4, CallMoves DEF Frame
<1>5. CASE Ended /\ UNCHANGED <<varPageVars, vfails>>
  BY <1>1, <1>5, CalmEnds
<1> QED
  BY <1>3, <1>4, <1>5 DEF ReadHash, Answer, Ended

LEMMA ReadingEnds ==
  ASSUME NEW p, NEW start, NEW cells
  PROVE  LET step == AfterReading(p, start, cells)
         IN  /\ step \in {"conclude", "gather", "damaged", "back"}
             /\ step = "gather" => SameLength(start)
             /\ step = "back" => p # start
             /\ step = "conclude" /\ SameLength(start) => p = start
BY DEF AfterReading

LEMMA VisitKeeps ==
  ASSUME VarTypes, LockInv, NEW S, NEW D, ChainsAre(S, D), Visit
  PROVE  VarTypes' /\ Chained'
<1>1. vstep = "visit" /\ Calm(vstep) /\ vnew \in S /\ Before(S, vnew) /\ vnew \notin DOMAIN vcopy
  BY DEF Visit, Doing, Blocked, Wanted, ChainsAre, Reads, Calm
<1>2. /\ vcur' = vnew /\ vstart' = vnew /\ vnew' = NoPg
      /\ UNCHANGED <<vhash, vpages, vcopy, vprev, vcall, vfails>>
  BY DEF Visit, varPageVars, Frame
<1>3. vstep' = AfterReading(vnew, vnew, vcells')
  BY DEF Visit
<1>4. vstep' \in {"conclude", "gather", "damaged"} /\ (vstep' = "gather" => SameLength(vnew))
  BY <1>3, ReadingEnds
<1>5. CursorTypes' /\ Calm(vstep')
  BY <1>2, <1>4, NoPgIsNone DEF VarTypes, CursorTypes, Steps, Calm
<1>6. Before(S, vstart)' /\ (vstep' = "gather" => SameLength(vstart)')
  BY <1>1, <1>2, <1>4 DEF Before, Heads, SameLength, Name
<1>7. Reads(S)' /\ Writes(S)'
  BY <1>1, <1>2, <1>4, <1>6 DEF Reads, Writes
<1> QED
  BY <1>1, <1>2, <1>5, <1>7, CallMoves DEF varPageVars

LEMMA GatherKeeps ==
  ASSUME VarTypes, LockInv, NEW S, NEW D, ChainsAre(S, D), Gather
  PROVE  VarTypes' /\ Chained'
<1>1. /\ vstep = "gather" /\ Calm(vstep) /\ vstart \in S /\ vcur \in S /\ Before(S, vstart)
      /\ vstart \notin DOMAIN vcopy /\ vcur \notin DOMAIN vcopy /\ SameLength(vstart)
  BY DEF Gather, Doing, ChainsAre, Reads, Calm
<1> DEFINE o == vpages[vcur].ovnext
<1>2. CurPage = vpages[vcur]
  BY <1>1 DEF CurPage
<1>3. o # NoPg /\ o \notin DOMAIN vcopy
  BY <1>1, <1>2 DEF Gather, Doing, Blocked, Wanted, Damaged
<1>4. o \in S /\ o \in Links
  <2>1. o \in S \cup {NoPg} /\ S \subseteq VarPages
    BY <1>1 DEF ChainsAre, Linked, Closed
  <2> QED
    BY <1>3, <2>1, NoPgIsNone
<1>5. /\ vcur' = o /\ UNCHANGED <<vhash, vpages, vcopy, vprev, vnew, vstart, vcall, vfails>>
      /\ vstep' = AfterReading(o, vstart, vcells')
  BY <1>2 DEF Gather, varPageVars, Frame
<1> HIDE DEF o
<1>6. /\ vstep' \in {"conclude", "gather", "damaged", "back"}
      /\ vstep' = "conclude" => o = vstart
  BY <1>1, <1>5, ReadingEnds
<1>7. CursorTypes' /\ Calm(vstep')
  BY <1>4, <1>5, <1>6 DEF VarTypes, CursorTypes, Steps, Calm
<1>8. Before(S, vstart)' /\ SameLength(vstart)'
  BY <1>1, <1>5 DEF Before, Heads, SameLength, Name
<1>9. Reads(S)' /\ Writes(S)'
  BY <1>1, <1>3, <1>4, <1>5, <1>6, <1>8 DEF Reads, Writes
<1> QED
  BY <1>1, <1>5, <1>7, <1>9, CallMoves DEF varPageVars

LEMMA BackKeeps ==
  ASSUME VarTypes, LockInv, NEW S, NEW D, ChainsAre(S, D), Back
  PROVE  VarTypes' /\ Chained'
<1>1. vstep = "back" /\ Calm(vstep) /\ vstart \in S /\ Before(S, vstart) /\ vstart \notin DOMAIN vcopy
  BY DEF Back, Doing, ChainsAre, Reads, Calm
<1>2. /\ vcur' = vstart /\ vstep' = "conclude"
      /\ UNCHANGED <<vhash, vpages, vcopy, vprev, vnew, vstart, vcall, vfails>>
  BY DEF Back, varPageVars, Frame
<1>3. CursorTypes' /\ Calm(vstep')
  BY <1>2 DEF VarTypes, CursorTypes, Steps, Calm
<1>4. Before(S, vstart)'
  BY <1>1, <1>2 DEF Before, Heads, Name
<1>5. Reads(S)' /\ Writes(S)'
  BY <1>1, <1>2, <1>4 DEF Reads, Writes
<1> QED
  BY <1>1, <1>2, <1>3, <1>5, CallMoves DEF varPageVars

LEMMA FoundKeeps ==
  ASSUME VarTypes, LockInv, NEW S, NEW D, ChainsAre(S, D), Found
  PROVE  VarTypes' /\ Chained'
<1>1. /\ vstep = "conclude" /\ Calm(vstep) /\ vcur \in S /\ Before(S, vcur)
      /\ vcur \notin DOMAIN vcopy
  BY DEF Found, Doing, ChainsAre, Reads, Calm
<1>2. CASE vcall.op = "delete" /\ vstep' = "unlink"
           /\ UNCHANGED <<varPageVars, vcur, vprev, vnew, vstart, vcells>> /\ Frame
  <2>1. UNCHANGED <<vhash, vpages, vcopy, vcur, vprev, vcall, vfails>>
    BY <1>2 DEF varPageVars, Frame
  <2>2. CursorTypes' /\ Calm(vstep')
    BY <1>2, <2>1 DEF VarTypes, CursorTypes, Steps, Calm
  <2>3. Before(S, vcur)'
    BY <1>1, <2>1 DEF Before, Heads, Name
  <2>4. Reads(S)' /\ Writes(S)'
    BY <1>1, <1>2, <2>1, <2>3 DEF Reads, Writes
  <2> QED
    BY <1>1, <1>2, <2>1, <2>2, <2>4, CallMoves
<1>3. CASE Ended /\ UNCHANGED <<varPageVars, vfails>>
  BY <1>1, <1>3, CalmEnds
<1> QED
  BY <1>2, <1>3 DEF Found, Answer, Ended

\* No page of a chain is the next one of itself.
LEMMA NoLoop ==
  ASSUME NEW S, Linked(vhash, vpages, S), NEW x \in S, Before(S, x), vcall.op = "delete",
         Hash(Name) \in DOMAIN vhash
  PROVE  vpages[x].next # x
<1>1. x # NoPg
  BY NoPgIsNone DEF Linked, Closed
<1>2. CASE vprev = NoPg
  BY <1>1, <1>2 DEF Before, Linked, Apart, KindsApart
<1>3. CASE vprev # NoPg
  BY <1>1, <1>3 DEF Before, Linked, Apart, NextApart
<1> QED
  BY <1>2, <1>3

LEMMA NotThisOneKeeps ==
  ASSUME VarTypes, LockInv, NEW S, NEW D, ChainsAre(S, D), NotThisOne
  PROVE  VarTypes' /\ Chained'
<1>1. /\ vstep = "conclude" /\ Calm(vstep) /\ vcur \in S /\ Before(S, vcur)
      /\ vcur \notin DOMAIN vcopy /\ vcall # NoCall
  BY DEF NotThisOne, Doing, ChainsAre, Reads, Calm, LockInv
<1>2. CurPage = vpages[vcur]
  BY <1>1 DEF CurPage
<1>3. /\ vcur # NoPg /\ S \subseteq VarPages /\ vpages[vcur].next \in S \cup {NoPg}
      /\ vcur \in Links /\ vpages[vcur].next \in Links
  BY <1>1, NoPgIsNone DEF ChainsAre, Linked, Closed
<1>4. CASE vpages[vcur].next # NoPg /\ vnew' = vpages[vcur].next /\ vstep' = "visit"
           /\ vprev' = (IF vcall.op = "delete" THEN vcur ELSE NoPg)
           /\ UNCHANGED <<varPageVars, vcur, vstart, vcells>> /\ Frame
  <2>1. UNCHANGED <<vhash, vpages, vcopy, vcur, vstart, vcall, vfails>>
    BY <1>4 DEF varPageVars, Frame
  <2>2. CursorTypes' /\ Calm(vstep')
    BY <1>3, <1>4, <2>1, NoPgIsNone DEF VarTypes, CursorTypes, Steps, Calm
  <2>3. Heads(vhash, vpages, S, vnew)'
    BY <1>1, <1>4, <2>1 DEF Heads
  <2>4. ASSUME vcall.op = "delete" PROVE vprev' = vcur /\ vcur # vnew'
    <3>1. vpages[vcur].next # vcur
      BY <1>1, <2>4, NoLoop, NameHasBucket DEF ChainsAre
    <3> QED
      BY <1>4, <2>4, <3>1
  <2>5. Before(S, vnew)'
    BY <1>1, <1>3, <1>4, <2>1, <2>3, <2>4 DEF Before
  <2>6. Reads(S)' /\ Writes(S)'
    BY <1>3, <1>4, <2>5 DEF Reads, Writes
  <2> QED
    BY <1>1, <1>4, <2>1, <2>2, <2>6, CallMoves
<1>5. CASE vpages[vcur].next = NoPg /\ vstep' = "append"
           /\ UNCHANGED <<varPageVars, vcur, vprev, vnew, vstart, vcells>> /\ Frame
  <2>1. UNCHANGED <<vhash, vpages, vcopy, vcur, vfails>>
    BY <1>5 DEF varPageVars, Frame
  <2>2. CursorTypes' /\ Calm(vstep')
    BY <1>5, <2>1 DEF VarTypes, CursorTypes, Steps, Calm
  <2>3. vpages[vcur].kind # "free"
    BY <1>1 DEF ChainsAre, Owned
  <2>4. Heads(vhash, vpages, S, vcur)'
    BY <1>1, <2>1 DEF Before, Heads
  <2>5. Reads(S)' /\ Writes(S)'
    BY <1>1, <1>5, <2>1, <2>3, <2>4 DEF Reads, Writes
  <2> QED
    BY <1>1, <1>5, <2>1, <2>2, <2>5, CallMoves
<1>6. CASE Ended /\ UNCHANGED <<varPageVars, vfails>>
  BY <1>1, <1>6, CalmEnds
<1> QED
  BY <1>2, <1>4, <1>5, <1>6 DEF NotThisOne, Answer, Ended

LEMMA CloseKeeps ==
  ASSUME VarTypes, LockInv, NEW S, NEW D, ChainsAre(S, D), Close
  PROVE  VarTypes' /\ Chained'
<1>1. vstep = "close" /\ Calm(vstep)
  BY DEF Close, Doing, Calm
<1>2. /\ vcur' = vstart /\ vstep' = "root"
      /\ UNCHANGED <<varPageVars, vprev, vnew, vstart, vfails>>
  BY DEF Close, Frame
<1>3. CursorTypes' /\ Calm(vstep') /\ Reads(S)' /\ Writes(S)'
  BY <1>2 DEF VarTypes, CursorTypes, Steps, Calm, Reads, Writes
<1> QED
  BY <1>1, <1>2, <1>3, CallMoves

LEMMA MakeRootKeeps ==
  ASSUME VarTypes, LockInv, NEW S, NEW D, ChainsAre(S, D), MakeRoot
  PROVE  VarTypes' /\ Chained'
<1>1. Calm(vstep) /\ Ended /\ UNCHANGED <<varPageVars, vfails>>
  BY DEF MakeRoot, Doing, Answer, Ended, Calm
<1> QED
  BY <1>1, CalmEnds

\* A call that fails although nothing failed before: its pages are as they were.
LEMMA PagerFailsKeeps ==
  ASSUME VarTypes, LockInv, NEW S, NEW D, ChainsAre(S, D), PagerFails
  PROVE  VarTypes' /\ Chained'
<1>1. Ended /\ UNCHANGED varPageVars /\ vstep \notin {"idle", "dead", "conclude", "write"}
  BY DEF PagerFails, Answer, Ended
<1>2. vfails \in Nat
  BY DEF VarTypes, CursorTypes
<1>3. CASE ~(Blocked \/ Damaged)
  <2>1. vfails' = vfails + 1
    BY <1>3 DEF PagerFails
  <2> QED
    BY <1>1, <1>2, <2>1, CallEnds
<1>4. CASE Blocked \/ Damaged
  <2>1. vfails' = vfails
    BY <1>4 DEF PagerFails
  <2>2. ASSUME vfails = 0 PROVE Calm(vstep)
    <3>1. SUFFICES ASSUME ~Calm(vstep) PROVE FALSE
      OBVIOUS
    <3>2. ~Damaged
      BY <3>1 DEF Damaged, Calm
    <3>3. Wanted \in DOMAIN vcopy /\ NoPg \notin DOMAIN vcopy
      BY <1>4, <3>2, NoPgIsNone DEF Blocked, VarTypes, CopiesOK
    <3>4. vstep = "cut"
      BY <3>1, <3>3 DEF Wanted, Calm
    <3>5. DOMAIN vcopy \subseteq {vcur}
      BY <2>2, <3>4 DEF ChainsAre, Accounted
    <3>6. Wanted = CurPage.ovnext
      BY <3>4 DEF Wanted
    <3>7. CurPage.ovnext = vpages[vcur].ovnext /\ vpages[vcur].ovnext # vcur
      BY <3>4 DEF ChainsAre, Deletes, Cutting, CurPage
    <3> QED
      BY <3>3, <3>5, <3>6, <3>7
  <2>3. vfails' = 0 => InUse = S /\ DOMAIN vcopy = {}
    BY <2>1, <2>2, CalmAccount DEF ChainsAre
  <2> QED
    BY <1>1, <1>2, <2>1, <2>3, CallEnds
<1> QED
  BY <1>3, <1>4

-----------------------------------------------------------------------------
(* A new page, and the name in it.                                         *)

LEMMA TakenPage ==
  ASSUME VarTypes, NEW S, Owned(S), NEW k \in {"var", "tail"}, NEW C, CopiesOK(C),
         DOMAIN C \subseteq DOMAIN vcopy, FreePages # {}
  PROVE  LET E == With(C, NewPg, [FreePage EXCEPT !.kind = k])
         IN  /\ CopiesOK(E) /\ DOMAIN E = DOMAIN C \cup {NewPg}
             /\ E[NewPg].kind # "free" /\ E[NewPg].next = NoPg /\ E[NewPg].ovnext = NoPg
             /\ vpages[NewPg] = FreePage /\ NewPg \in VarPages /\ NewPg \notin S
             /\ NewPg \notin DOMAIN vcopy
<1> DEFINE y == [FreePage EXCEPT !.kind = k]
           E == With(C, NewPg, y)
<1>1. /\ NewPg \in VarPages /\ NewPg \notin DOMAIN vcopy /\ vpages[NewPg] = FreePage
      /\ NewPg \notin S
  BY NewPgIsFree DEF VarTypes
<1>2. IsPage(y) /\ y.next = NoPg /\ y.ovnext = NoPg /\ y.kind # "free"
  BY PageTaken
<1> HIDE DEF y
<1>3. CopiesOK(E) /\ DOMAIN E = DOMAIN C \cup {NewPg} /\ E[NewPg] = y
  <2>1. NewPg \in VarPages /\ IsPage(y)
    BY <1>1, <1>2
  <2>2. PICK n \in VarPages : n = NewPg
    BY <2>1
  <2>3. /\ CopiesOK(With(C, n, y)) /\ DOMAIN With(C, n, y) = DOMAIN C \cup {n}
        /\ With(C, n, y)[n] = y
    BY <2>1 DEF CopiesOK, With
  <2> QED
    BY <2>2, <2>3
<1> QED
  BY <1>1, <1>2, <1>3 DEF y

\* The page is taken, and not yet linked.
LEMMA TakeKeeps ==
  ASSUME VarTypes, NEW S, NEW D, ChainsAre(S, D), Calm(vstep), TakePage("var"),
         vnew' = NewPg, vstep' \in {"link", "linkHead"},
         UNCHANGED <<vhash, vpages, vcur, vprev, vstart, vcall, vfails>>,
         vstep' = "link" => /\ vcur \in S /\ Heads(vhash, vpages, S, vcur)
                            /\ vpages[vcur].next = NoPg /\ vpages[vcur].kind # "free",
         vstep' = "linkHead" => FirstPage = NoPg
  PROVE  VarTypes' /\ Chained'
<1> DEFINE E == With(vcopy, NewPg, [FreePage EXCEPT !.kind = "var"])
<1>1. FreePages # {} /\ vcopy' = E
  BY DEF TakePage
<1>2. /\ CopiesOK(E) /\ DOMAIN E = DOMAIN vcopy \cup {NewPg}
      /\ E[NewPg].kind # "free" /\ E[NewPg].next = NoPg /\ E[NewPg].ovnext = NoPg
      /\ vpages[NewPg] = FreePage /\ NewPg \in VarPages /\ NewPg \notin S
  BY <1>1, TakenPage DEF VarTypes, ChainsAre
<1> HIDE DEF E
<1>3. CursorTypes'
  BY <1>2, NoPgIsNone DEF VarTypes, CursorTypes, Steps
<1>4. VarTypes'
  BY <1>1, <1>2, <1>3 DEF VarTypes
<1>5. Linked(vhash, vpages, S)' /\ Owned(S)'
  BY <1>1, <1>2 DEF ChainsAre, Owned
<1>6. Reads(S)' /\ Deletes(S, D)'
  BY DEF Reads, Deletes
<1>7. Taken(vnew)' /\ vnew' \notin S
  BY <1>1, <1>2 DEF Taken
<1>8. Writes(S)'
  BY <1>7 DEF Writes, Heads, FirstPage, Name
<1>9. vfails' = 0 => Accounted(S, D)'
  <2>1. SUFFICES ASSUME vfails' = 0 PROVE Accounted(S, D)'
    OBVIOUS
  <2>2. InUse = S /\ DOMAIN vcopy = {}
    BY <2>1, CalmAccount DEF ChainsAre
  <2>3. InUse' = S /\ DOMAIN vcopy' = {vnew'}
    BY <1>1, <1>2, <2>2 DEF InUse
  <2> QED
    BY <2>3 DEF Accounted
<1>10. ChainsAre(S, D)'
  BY <1>5, <1>6, <1>8, <1>9 DEF ChainsAre
<1> QED
  BY <1>4, <1>10 DEF Chained

LEMMA AppendKeeps ==
  ASSUME VarTypes, LockInv, NEW S, NEW D, ChainsAre(S, D), AppendPage
  PROVE  VarTypes' /\ Chained'
<1>1. /\ vstep = "append" /\ Calm(vstep) /\ TakePage("var") /\ vnew' = NewPg /\ vstep' = "link"
      /\ UNCHANGED <<vhash, vpages, vcur, vprev, vstart, vcall, vfails>>
  BY DEF AppendPage, Doing, Calm, Frame
<1>2. /\ vcur \in S /\ Heads(vhash, vpages, S, vcur)
      /\ vpages[vcur].next = NoPg /\ vpages[vcur].kind # "free"
  BY <1>1 DEF ChainsAre, Writes
<1> QED
  BY <1>1, <1>2, TakeKeeps

LEMMA NewHeadKeeps ==
  ASSUME VarTypes, LockInv, NEW S, NEW D, ChainsAre(S, D), NewHead
  PROVE  VarTypes' /\ Chained'
<1>1. /\ vstep = "newHead" /\ Calm(vstep) /\ TakePage("var") /\ vnew' = NewPg /\ vstep' = "linkHead"
      /\ UNCHANGED <<vhash, vpages, vcur, vprev, vstart, vcall, vfails>>
  BY DEF NewHead, Doing, Calm, Frame
<1>2. FirstPage = NoPg
  BY <1>1 DEF ChainsAre, Writes
<1> QED
  BY <1>1, <1>2, TakeKeeps

\* The page is linked, and will be filled.
LEMMA FillKeeps ==
  ASSUME VarTypes, NEW S, NEW D, ChainsAre(S, D), vstep \in {"link", "linkHead"}, ToFill,
         RootsOK(vhash'), PagesOK(vpages'), Linked(vhash', vpages', S \cup {vnew}),
         vpages'[vnew] = vpages[vnew], \A q \in VarPages : vpages'[q].kind = vpages[q].kind
  PROVE  VarTypes' /\ Chained'
<1> DEFINE x == [vcopy[vnew] EXCEPT !.vlen = Len(Name)]
<1>0. PICK U : U = S \cup {vnew}
  OBVIOUS
<1>1. /\ vcur' = vnew /\ vstart' = vnew /\ vnew' = NoPg /\ vstep' = "write"
      /\ UNCHANGED <<vprev, vfails>>
  BY DEF ToFill, Frame
<1>2. SetAt(vcopy, vcopy', vnew, x)
  BY DEF ToFill, SetAt
<1>3. Taken(vnew) /\ vnew \notin S
  BY DEF ChainsAre, Writes
<1>4. vnew \in DOMAIN vcopy /\ IsPage(vcopy[vnew])
  BY <1>3 DEF Taken, VarTypes, CopiesOK
<1>5. IsPage(x) /\ x.next = NoPg /\ x.ovnext = NoPg /\ x.kind # "free"
  <2>1. /\ IsPage(x) /\ x.next = vcopy[vnew].next /\ x.ovnext = vcopy[vnew].ovnext
        /\ x.kind = vcopy[vnew].kind
    BY <1>4, PageVlen
  <2> QED
    BY <1>3, <2>1 DEF Taken
<1> HIDE DEF x
<1>6. CopiesOK(vcopy') /\ DOMAIN vcopy' = DOMAIN vcopy /\ vcopy'[vnew] = x
  BY <1>2, <1>4, <1>5, CopySet DEF VarTypes
<1>7. CursorTypes'
  BY <1>1, NoPgIsNone DEF VarTypes, CursorTypes, Steps
<1>8. VarTypes'
  BY <1>6, <1>7 DEF VarTypes
<1>9. S \subseteq VarPages /\ vnew \in VarPages
  BY <1>4 DEF ChainsAre, Linked, Closed, VarTypes, CopiesOK
<1>10. Owned(U)'
  BY <1>0, <1>4, <1>6, <1>9 DEF ChainsAre, Owned
<1>11. Taken(vcur)' /\ vcur' \in U
  BY <1>0, <1>1, <1>3, <1>4, <1>5, <1>6 DEF Taken
<1>12. Reads(U)' /\ Writes(U)' /\ Deletes(U, D)'
  BY <1>1, <1>11 DEF Reads, Writes, Deletes
<1>13. vfails' = 0 => Accounted(U, D)'
  <2>1. SUFFICES ASSUME vfails' = 0 PROVE Accounted(U, D)'
    OBVIOUS
  <2>2. InUse = S /\ DOMAIN vcopy = {vnew}
    BY <1>1, <2>1 DEF ChainsAre, Accounted
  <2>3. InUse' = S
    BY <2>2 DEF InUse
  <2>4. InUse' = U \ {vcur'} /\ DOMAIN vcopy' = {vcur'}
    BY <1>0, <1>1, <1>3, <1>6, <2>2, <2>3
  <2> QED
    BY <1>1, <2>4 DEF Accounted
<1>14. ChainsAre(U, D)'
  <2>1. Linked(vhash', vpages', U)
    BY <1>0
  <2> QED
    BY <1>10, <1>12, <1>13, <2>1 DEF ChainsAre
<1> QED
  BY <1>8, <1>14 DEF Chained

LEMMA LinkPageKeeps ==
  ASSUME VarTypes, LockInv, NEW S, NEW D, ChainsAre(S, D), LinkPage
  PROVE  VarTypes' /\ Chained'
<1>1. vstep = "link" /\ ToFill /\ UNCHANGED vhash /\ SetNext(vpages, vpages', vcur, vnew)
  BY DEF LinkPage, Doing, SetNext
<1>2. /\ vcur \in S /\ Heads(vhash, vpages, S, vcur)
      /\ vpages[vcur].next = NoPg /\ vpages[vcur].kind # "free" /\ Taken(vnew) /\ vnew \notin S
  BY <1>1 DEF ChainsAre, Writes
<1>3. /\ vnew \in VarPages /\ vpages[vnew] = FreePage /\ S \subseteq VarPages /\ vnew \in Links
      /\ vnew # vcur
  BY <1>2, NoPgIsNone DEF Taken, VarTypes, CopiesOK, ChainsAre, Linked, Closed
<1>4. /\ PagesOK(vpages') /\ vpages'[vcur].next = vnew /\ vpages'[vcur].ovnext = vpages[vcur].ovnext
      /\ vpages'[vcur].kind = vpages[vcur].kind
      /\ \A q \in VarPages \ {vcur} : vpages'[q] = vpages[q]
  BY <1>1, <1>2, <1>3, NextIsSet DEF VarTypes
<1>5. Linked(vhash, vpages', S \cup {vnew})
  BY <1>2, <1>3, <1>4, LinkedNext DEF ChainsAre
<1>6. RootsOK(vhash') /\ Linked(vhash', vpages', S \cup {vnew})
  BY <1>1, <1>5 DEF VarTypes
<1> QED
  BY <1>1, <1>3, <1>4, <1>6, FillKeeps

LEMMA LinkHeadKeeps ==
  ASSUME VarTypes, LockInv, NEW S, NEW D, ChainsAre(S, D), LinkHead
  PROVE  VarTypes' /\ Chained'
<1>1. vstep = "linkHead" /\ ToFill /\ UNCHANGED vpages /\ SetAt(vhash, vhash', Hash(Name), vnew)
  BY DEF LinkHead, Doing, SetAt
<1>2. FirstPage = NoPg /\ Taken(vnew) /\ vnew \notin S /\ vcall # NoCall
  BY <1>1 DEF ChainsAre, Writes, LockInv
<1>3. vnew \in VarPages /\ vpages[vnew] = FreePage /\ vnew \in Links
  BY <1>2, NoPgIsNone DEF Taken, VarTypes, CopiesOK
<1>4. Hash(Name) \in Buckets /\ Hash(Name) \in DOMAIN vhash
  BY <1>2, NameHasBucket
<1>5. /\ RootsOK(vhash') /\ DOMAIN vhash' = DOMAIN vhash /\ vhash'[Hash(Name)] = vnew
      /\ \A a \in DOMAIN vhash \ {Hash(Name)} : vhash'[a] = vhash[a]
  BY <1>1, <1>3, <1>4, RootSet DEF VarTypes
<1>6. Linked(vhash', vpages, S \cup {vnew})
  <2>1. vhash[Hash(Name)] = NoPg /\ Linked(vhash, vpages, S)
    BY <1>2 DEF FirstPage, ChainsAre
  <2> QED
    BY <1>2, <1>3, <1>4, <1>5, <2>1, LinkedFirst
<1>7. PagesOK(vpages') /\ Linked(vhash', vpages', S \cup {vnew})
  BY <1>1, <1>6 DEF VarTypes
<1> QED
  BY <1>1, <1>5, <1>7, FillKeeps

LEMMA WriteNameKeeps ==
  ASSUME VarTypes, LockInv, NEW S, NEW D, ChainsAre(S, D), WriteName
  PROVE  VarTypes' /\ Chained'
<1>1. vstep = "write" /\ UNCHANGED <<vhash, vcur, vprev, vnew, vstart, vcall, vfails>>
  BY DEF WriteName, Doing, Frame
<1>2. vcur \in S /\ Taken(vcur)
  BY <1>1 DEF ChainsAre, Writes
<1>3. vcur \in DOMAIN vcopy /\ IsPage(vcopy[vcur]) /\ vpages[vcur] = FreePage /\ vcur \in VarPages
  BY <1>2 DEF Taken, VarTypes, CopiesOK
<1>4. IsPage(Written) /\ Written.next = NoPg /\ Written.ovnext = NoPg /\ Written.kind # "free"
  <2>1. /\ IsPage(Written) /\ Written.next = vcopy[vcur].next /\ Written.ovnext = vcopy[vcur].ovnext
        /\ Written.kind = vcopy[vcur].kind
    BY <1>3, PageCells DEF Written
  <2> QED
    BY <1>2, <2>1 DEF Taken
<1>5. CASE SetAt(vcopy, vcopy', vcur, Written) /\ vstep' = "overflow" /\ UNCHANGED vpages
  <2>1. CopiesOK(vcopy') /\ DOMAIN vcopy' = DOMAIN vcopy /\ vcopy'[vcur] = Written
    BY <1>3, <1>4, <1>5, CopySet DEF VarTypes
  <2>2. CursorTypes'
    BY <1>1, <1>5 DEF VarTypes, CursorTypes, Steps
  <2>3. VarTypes'
    BY <1>1, <1>5, <2>1, <2>2 DEF VarTypes
  <2>4. Linked(vhash, vpages, S)' /\ Owned(S)'
    BY <1>1, <1>5, <2>1 DEF ChainsAre, Owned
  <2>5. Taken(vcur)'
    BY <1>1, <1>3, <1>4, <1>5, <2>1 DEF Taken
  <2>6. Reads(S)' /\ Writes(S)' /\ Deletes(S, D)'
    BY <1>1, <1>2, <1>5, <2>5 DEF Reads, Writes, Deletes
  <2>7. vfails' = 0 => Accounted(S, D)'
    BY <1>1, <1>5, <2>1 DEF ChainsAre, Accounted, InUse
  <2>8. ChainsAre(S, D)'
    BY <2>4, <2>6, <2>7 DEF ChainsAre
  <2> QED
    BY <2>3, <2>8 DEF Chained
<1>6. CASE SetAt(vpages, vpages', vcur, Written) /\ vstep' \in {"close", "root"}
           /\ vcopy' = Without(vcopy, vcur)
  <2>1. /\ PagesOK(vpages') /\ vpages'[vcur] = Written
        /\ \A q \in VarPages \ {vcur} : vpages'[q] = vpages[q]
    <3>1. SetAt(vpages, vpages', vcur, Written) /\ PagesOK(vpages)
      BY <1>6 DEF VarTypes
    <3>2. Written.kind = "free" => Written = FreePage
      BY <1>4
    <3> QED
      BY <1>3, <1>4, <3>1, <3>2, PageSet
  <2>2. CopiesOK(vcopy') /\ DOMAIN vcopy' = DOMAIN vcopy \ {vcur}
    BY <1>6, CopyWithout DEF VarTypes
  <2>3. CursorTypes'
    BY <1>1, <1>6 DEF VarTypes, CursorTypes, Steps
  <2>4. VarTypes'
    BY <1>1, <2>1, <2>2, <2>3 DEF VarTypes
  <2>5. S \subseteq VarPages
    BY DEF ChainsAre, Linked, Closed
  <2>6. SameLinks(vpages, vpages', S)
    BY <1>3, <1>4, <2>1, <2>5, FreePageParts DEF SameLinks
  <2>7. Linked(vhash, vpages, S)'
    <3>1. Linked(vhash, vpages', S)
      BY <2>6, LinkedSame DEF ChainsAre
    <3> QED
      BY <1>1, <3>1
  <2>8. Owned(S)'
    BY <1>4, <2>1, <2>2, <2>5 DEF ChainsAre, Owned
  <2>9. Reads(S)' /\ Writes(S)' /\ Deletes(S, D)'
    BY <1>6 DEF Reads, Writes, Deletes
  <2>10. vfails' = 0 => Accounted(S, D)'
    <3>1. SUFFICES ASSUME vfails' = 0 PROVE Accounted(S, D)'
      OBVIOUS
    <3>2. InUse = S \ {vcur} /\ DOMAIN vcopy = {vcur}
      BY <1>1, <3>1 DEF ChainsAre, Accounted
    <3>3. InUse' = S
      BY <1>2, <1>3, <1>4, <2>1, <2>5, <3>2 DEF InUse
    <3>4. DOMAIN vcopy' = {}
      BY <2>2, <3>2
    <3> QED
      BY <1>6, <3>3, <3>4 DEF Accounted
  <2>11. ChainsAre(S, D)'
    BY <2>7, <2>8, <2>9, <2>10 DEF ChainsAre
  <2> QED
    BY <2>4, <2>11 DEF Chained
<1> QED
  BY <1>5, <1>6 DEF WriteName, SetAt

LEMMA OverflowsKeeps ==
  ASSUME VarTypes, LockInv, NEW S, NEW D, ChainsAre(S, D), Overflows
  PROVE  VarTypes' /\ Chained'
<1> DEFINE x == [vcopy[vcur] EXCEPT !.ovnext = NewPg]
           C == Without(vcopy, vcur)
           E == With(C, NewPg, [FreePage EXCEPT !.kind = "tail"])
<1>0. PICK U : U = S \cup {NewPg}
  OBVIOUS
<1>1. /\ vstep = "overflow" /\ FreePages # {} /\ vcur' = NewPg /\ vstep' = "write"
      /\ UNCHANGED <<vhash, vprev, vnew, vstart, vcall, vfails>>
      /\ SetAt(vpages, vpages', vcur, x) /\ vcopy' = E
  BY DEF Overflows, Doing, Frame, SetAt
<1>2. vcur \in S /\ Taken(vcur) /\ Owned(S)
  BY <1>1 DEF ChainsAre, Writes
<1>3. vcur \in DOMAIN vcopy /\ IsPage(vcopy[vcur]) /\ vpages[vcur] = FreePage /\ vcur \in VarPages
  BY <1>2 DEF Taken, VarTypes, CopiesOK
<1>4. CopiesOK(C) /\ DOMAIN C = DOMAIN vcopy \ {vcur}
  BY CopyWithout DEF VarTypes
<1> HIDE DEF C
<1>5. /\ CopiesOK(E) /\ DOMAIN E = DOMAIN C \cup {NewPg}
      /\ E[NewPg].kind # "free" /\ E[NewPg].next = NoPg /\ E[NewPg].ovnext = NoPg
      /\ vpages[NewPg] = FreePage /\ NewPg \in VarPages /\ NewPg \notin S /\ NewPg \notin DOMAIN vcopy
  <2>1. DOMAIN C \subseteq DOMAIN vcopy
    BY <1>4
  <2> QED
    BY <1>1, <1>2, <1>4, <2>1, TakenPage
<1> HIDE DEF E
<1>6. IsPage(x) /\ x.next = NoPg /\ x.ovnext = NewPg /\ x.kind # "free"
  <2>1. NewPg \in Links
    BY <1>5, NoPgIsNone
  <2>2. IsPage(x) /\ x.ovnext = NewPg /\ x.next = vcopy[vcur].next /\ x.kind = vcopy[vcur].kind
    BY <1>3, <2>1, PageOvnext
  <2> QED
    BY <1>2, <2>2 DEF Taken
<1> HIDE DEF x
<1>7. /\ PagesOK(vpages') /\ vpages'[vcur] = x
      /\ \A q \in VarPages \ {vcur} : vpages'[q] = vpages[q]
  <2>1. SetAt(vpages, vpages', vcur, x) /\ PagesOK(vpages)
    BY <1>1 DEF VarTypes
  <2>2. x.kind = "free" => x = FreePage
    BY <1>6
  <2> QED
    BY <1>3, <1>6, <2>1, <2>2, PageSet
<1>8. CursorTypes'
  BY <1>1, <1>5, NoPgIsNone DEF VarTypes, CursorTypes, Steps
<1>9. VarTypes'
  BY <1>1, <1>5, <1>7, <1>8 DEF VarTypes
<1>10. S \subseteq VarPages
  BY DEF ChainsAre, Linked, Closed
<1>11. Linked(vhash, vpages, U)'
  <2>1. Linked(vhash, vpages, S) /\ vpages[vcur].next = NoPg /\ vpages[vcur].ovnext = NoPg
    BY <1>3, FreePageParts DEF ChainsAre
  <2>2. NewPg \in VarPages \ S
    BY <1>5
  <2>3. vpages'[vcur].next = NoPg /\ vpages'[vcur].ovnext = NewPg
    BY <1>6, <1>7
  <2>4. Linked(vhash, vpages', S \cup {NewPg})
    BY <1>2, <1>5, <1>7, <2>1, <2>2, <2>3, LinkedTail
  <2> QED
    BY <1>0, <1>1, <2>4
<1>12. NewPg # vcur
  BY <1>2, <1>5
<1>13. Owned(U)'
  <2>1. SUFFICES ASSUME NEW p \in U PROVE vpages'[p].kind # "free" \/ p \in DOMAIN vcopy'
    BY DEF Owned
  <2>2. CASE p = NewPg
    BY <1>1, <1>5, <2>2
  <2>3. CASE p = vcur
    BY <1>6, <1>7, <2>3
  <2>4. CASE p # NewPg /\ p # vcur
    BY <1>0, <1>1, <1>2, <1>4, <1>5, <1>7, <1>10, <2>1, <2>4 DEF Owned
  <2> QED
    BY <2>2, <2>3, <2>4
<1>14. Taken(vcur)' /\ vcur' \in U
  BY <1>0, <1>1, <1>5, <1>7, <1>12 DEF Taken
<1>15. Reads(U)' /\ Writes(U)' /\ Deletes(U, D)'
  BY <1>1, <1>14 DEF Reads, Writes, Deletes
<1>16. vfails' = 0 => Accounted(U, D)'
  <2>1. SUFFICES ASSUME vfails' = 0 PROVE Accounted(U, D)'
    OBVIOUS
  <2>2. InUse = S \ {vcur} /\ DOMAIN vcopy = {vcur}
    BY <1>1, <2>1 DEF ChainsAre, Accounted
  <2>3. InUse' = S
    BY <1>2, <1>3, <1>6, <1>7, <1>10, <2>2 DEF InUse
  <2>4. InUse' = U \ {vcur'} /\ DOMAIN vcopy' = {vcur'}
    BY <1>0, <1>1, <1>4, <1>5, <2>2, <2>3
  <2> QED
    BY <1>1, <2>4 DEF Accounted
<1>17. ChainsAre(U, D)'
  BY <1>11, <1>13, <1>15, <1>16 DEF ChainsAre
<1> QED
  BY <1>9, <1>17 DEF Chained

-----------------------------------------------------------------------------
(* A page leaves its chain, and it and its tails are deleted.              *)

LEMMA UnlinkedKeeps ==
  ASSUME VarTypes, NEW S, NEW D, ChainsAre(S, D), vstep = "unlink", vstep' = "cut",
         UNCHANGED <<vcopy, vcur, vprev, vnew, vstart, vfails>>,
         RootsOK(vhash'), PagesOK(vpages'), \A q \in VarPages : vpages'[q].kind = vpages[q].kind,
         NEW B, B \subseteq S, Linked(vhash', vpages', S \ B), Cutting(vpages', S \ B, B, vcur)
  PROVE  VarTypes' /\ Chained'
<1>1. PICK R : R = S \ B
  OBVIOUS
<1>2. vcur \notin DOMAIN vcopy
  BY DEF ChainsAre, Reads
<1>3. CursorTypes'
  BY DEF VarTypes, CursorTypes, Steps
<1>4. VarTypes'
  BY <1>3 DEF VarTypes
<1>5. S \subseteq VarPages
  BY DEF ChainsAre, Linked, Closed
<1>6. Linked(vhash, vpages, R)' /\ Owned(R)'
  BY <1>1, <1>5 DEF ChainsAre, Owned
<1>7. Reads(R)' /\ Writes(R)'
  BY DEF Reads, Writes
<1>8. Deletes(R, B)'
  BY <1>1, <1>2 DEF Deletes
<1>9. vfails' = 0 => Accounted(R, B)'
  <2>1. SUFFICES ASSUME vfails' = 0 PROVE Accounted(R, B)'
    OBVIOUS
  <2>2. InUse = S /\ DOMAIN vcopy = {}
    BY <2>1 DEF ChainsAre, Accounted
  <2>3. InUse' = R \cup B /\ DOMAIN vcopy' = {}
    BY <1>1, <2>2 DEF InUse
  <2> QED
    BY <2>3 DEF Accounted
<1>10. ChainsAre(R, B)'
  BY <1>6, <1>7, <1>8, <1>9 DEF ChainsAre
<1> QED
  BY <1>4, <1>10 DEF Chained

LEMMA UnlinkKeeps ==
  ASSUME VarTypes, LockInv, NEW S, NEW D, ChainsAre(S, D), Unlink
  PROVE  VarTypes' /\ Chained'
<1>1. /\ vstep = "unlink" /\ vstep' = "cut" /\ vcall # NoCall
      /\ UNCHANGED <<vcopy, vcur, vprev, vnew, vstart, vfails>>
  BY DEF Unlink, Doing, Frame, LockInv
<1>2. vcur \in S /\ Before(S, vcur) /\ vcall.op = "delete"
  BY <1>1 DEF ChainsAre, Reads
<1>3. /\ Linked(vhash, vpages, S) /\ S \subseteq VarPages /\ vcur \in VarPages
      /\ IsPage(vpages[vcur])
  BY <1>2 DEF ChainsAre, Linked, Closed, VarTypes, PagesOK
<1>4. Successor \in Links
  BY <1>3, PageParts DEF Successor
<1>5. CASE vprev = NoPg
  <2>1. UNCHANGED vpages /\ SetAt(vhash, vhash', Hash(Name), Successor)
    BY <1>5 DEF Unlink, SetAt
  <2>2. vhash[Hash(Name)] = vcur
    BY <1>2, <1>5 DEF Before
  <2>3. Hash(Name) \in Buckets /\ Hash(Name) \in DOMAIN vhash
    BY <1>1, NameHasBucket
  <2>4. /\ RootsOK(vhash') /\ DOMAIN vhash' = DOMAIN vhash /\ vhash'[Hash(Name)] = Successor
        /\ \A a \in DOMAIN vhash \ {Hash(Name)} : vhash'[a] = vhash[a]
    BY <1>4, <2>1, <2>3, RootSet DEF VarTypes
  <2>5. vhash'[Hash(Name)] = vpages[vcur].next
    BY <2>4 DEF Successor
  <2>6. PICK B : B \subseteq S /\ Linked(vhash', vpages, S \ B) /\ Cutting(vpages, S \ B, B, vcur)
    <3>1. IsCut(vhash', vpages, S, vcur)
      BY <1>2, <1>3, <2>2, <2>3, <2>4, <2>5, LinkedCutFirst
    <3> QED
      BY <3>1 DEF IsCut
  <2>7. /\ Linked(vhash', vpages', S \ B) /\ Cutting(vpages', S \ B, B, vcur) /\ PagesOK(vpages')
        /\ \A q \in VarPages : vpages'[q].kind = vpages[q].kind
    BY <2>1, <2>6 DEF VarTypes
  <2> QED
    BY <1>1, <2>4, <2>6, <2>7, UnlinkedKeeps
<1>6. CASE vprev # NoPg
  <2>1. UNCHANGED vhash /\ SetNext(vpages, vpages', vprev, Successor)
    BY <1>6 DEF Unlink, SetNext
  <2>2. vprev \in S /\ vprev # vcur /\ vpages[vprev].next = vcur
    BY <1>2, <1>6 DEF Before
  <2>3. vpages[vprev].kind # "free" /\ vprev \in VarPages
    BY <1>3, <2>2, FreePageParts, NoPgIsNone DEF VarTypes, PagesOK
  <2>4. /\ PagesOK(vpages') /\ vpages'[vprev].next = Successor
        /\ vpages'[vprev].ovnext = vpages[vprev].ovnext
        /\ vpages'[vprev].kind = vpages[vprev].kind
        /\ \A q \in VarPages \ {vprev} : vpages'[q] = vpages[q]
    BY <1>4, <2>1, <2>3, NextIsSet DEF VarTypes
  <2>5. vpages'[vprev].next = vpages[vcur].next
    BY <2>4 DEF Successor
  <2>6. PICK B : B \subseteq S /\ Linked(vhash, vpages', S \ B) /\ Cutting(vpages', S \ B, B, vcur)
    <3>1. IsCut(vhash, vpages', S, vcur)
      BY <1>2, <1>3, <2>2, <2>4, <2>5, LinkedCutNext
    <3> QED
      BY <3>1 DEF IsCut
  <2>7. Linked(vhash', vpages', S \ B) /\ RootsOK(vhash')
    BY <2>1, <2>6 DEF VarTypes
  <2> QED
    BY <1>1, <2>4, <2>6, <2>7, UnlinkedKeeps
<1> QED
  BY <1>5, <1>6

LEMMA CutOffKeeps ==
  ASSUME VarTypes, LockInv, NEW S, NEW D, ChainsAre(S, D), CutOff
  PROVE  VarTypes' /\ Chained'
<1> DEFINE o == vpages[vcur].ovnext
<1>1. vstep = "cut" /\ vstep' = "drop" /\ UNCHANGED <<vhash, vpages, vcur, vprev, vstart, vfails>>
  BY DEF CutOff, Doing, Frame
<1>2. /\ Cutting(vpages, S, D, vcur)
      /\ (vcur \in DOMAIN vcopy => vcopy[vcur].ovnext = vpages[vcur].ovnext)
  BY <1>1 DEF ChainsAre, Deletes
<1>3. CurPage.ovnext = o
  BY <1>2 DEF CurPage
<1>4. o # vcur /\ o \in D \cup {NoPg} /\ D \subseteq VarPages /\ o \in Links
  BY <1>2, NoPgIsNone DEF Cutting, Tails
<1>5. vnew' = o /\ vcopy' = (IF o = NoPg THEN vcopy ELSE With(vcopy, o, vpages[o]))
  BY <1>3 DEF CutOff
<1> HIDE DEF o
<1>6. /\ CopiesOK(vcopy') /\ (vcur \in DOMAIN vcopy' => vcur \in DOMAIN vcopy /\ vcopy'[vcur] = vcopy[vcur])
      /\ o # NoPg => o \in DOMAIN vcopy' /\ vcopy'[o] = vpages[o]
      /\ DOMAIN vcopy' \subseteq DOMAIN vcopy \cup {o}
      /\ DOMAIN vcopy \subseteq DOMAIN vcopy'
  <2>1. CASE o = NoPg
    BY <1>5, <2>1 DEF VarTypes
  <2>2. CASE o # NoPg
    <3>1. o \in VarPages /\ IsPage(vpages[o]) /\ CopiesOK(vcopy)
      BY <1>4, <2>2 DEF VarTypes, PagesOK
    <3>2. vcopy' = With(vcopy, o, vpages[o])
      BY <1>5, <2>2
    <3>3. PICK x : x = vpages[o]
      OBVIOUS
    <3>4. IsPage(x) /\ vcopy' = With(vcopy, o, x)
      BY <3>1, <3>2, <3>3
    <3>5. /\ CopiesOK(vcopy') /\ DOMAIN vcopy' = DOMAIN vcopy \cup {o} /\ vcopy'[o] = x
          /\ OthersAre(vcopy, vcopy', o)
      BY <3>1, <3>4, CopyWith
    <3> QED
      BY <1>4, <3>3, <3>5 DEF OthersAre
  <2> QED
    BY <2>1, <2>2
<1>7. CursorTypes'
  BY <1>1, <1>4, <1>5 DEF VarTypes, CursorTypes, Steps
<1>8. VarTypes'
  BY <1>1, <1>6, <1>7 DEF VarTypes
<1>9. Linked(vhash, vpages, S)' /\ Owned(S)'
  BY <1>1, <1>6 DEF ChainsAre, Owned
<1>10. Reads(S)' /\ Writes(S)'
  BY <1>1 DEF Reads, Writes
<1>11. Deletes(S, D)'
  <2>1. Cutting(vpages, S, D, vcur)' /\ vnew' = vpages'[vcur'].ovnext
    BY <1>1, <1>2, <1>5 DEF o
  <2>2. vcur' \in DOMAIN vcopy' => vcopy'[vcur'].ovnext = vpages'[vcur'].ovnext
    BY <1>1, <1>2, <1>6
  <2>3. vnew' # NoPg => vnew' \in DOMAIN vcopy' /\ vcopy'[vnew'] = vpages'[vnew']
    BY <1>1, <1>5, <1>6
  <2> QED
    BY <2>1, <2>2, <2>3 DEF Deletes
<1>12. vfails' = 0 => Accounted(S, D)'
  <2>1. SUFFICES ASSUME vfails' = 0 PROVE Accounted(S, D)'
    OBVIOUS
  <2>2. InUse = S \cup D /\ DOMAIN vcopy \subseteq {vcur}
    BY <1>1, <2>1 DEF ChainsAre, Accounted
  <2>3. InUse' = S \cup D /\ DOMAIN vcopy' \subseteq {vcur', vnew'}
    BY <1>1, <1>5, <1>6, <2>2 DEF InUse
  <2> QED
    BY <1>1, <2>3 DEF Accounted
<1>13. ChainsAre(S, D)'
  BY <1>9, <1>10, <1>11, <1>12 DEF ChainsAre
<1> QED
  BY <1>8, <1>13 DEF Chained

LEMMA DropKeeps ==
  ASSUME VarTypes, LockInv, NEW S, NEW D, ChainsAre(S, D), Drop
  PROVE  VarTypes' /\ Chained'
<1>1. PICK B : B = D \ {vcur}
  OBVIOUS
<1>2. /\ vstep = "drop" /\ UNCHANGED <<vhash, vfails>> /\ SetAt(vpages, vpages', vcur, FreePage)
      /\ vcopy' = Without(vcopy, vcur)
  BY DEF Drop, Doing, Frame, SetAt
<1>3. /\ Cutting(vpages, S, D, vcur) /\ vnew = vpages[vcur].ovnext
      /\ (vnew # NoPg => vnew \in DOMAIN vcopy /\ vcopy[vnew] = vpages[vnew])
  BY <1>2 DEF ChainsAre, Deletes
<1>4. /\ vcur \in VarPages /\ vcur \notin S /\ vcur \in D /\ D \cap S = {} /\ vnew # vcur
      /\ vnew \in D \cup {NoPg} /\ D \subseteq VarPages
  BY <1>3 DEF Cutting, Tails
<1>5. /\ PagesOK(vpages') /\ vpages'[vcur] = FreePage
      /\ \A q \in VarPages \ {vcur} : vpages'[q] = vpages[q]
  BY <1>2, <1>4, FreePageParts, PageSet DEF VarTypes
<1>6. /\ CopiesOK(vcopy') /\ DOMAIN vcopy' = DOMAIN vcopy \ {vcur}
      /\ vnew # NoPg => vnew \in DOMAIN vcopy' /\ vcopy'[vnew] = vpages'[vnew]
  <2>1. CopiesOK(vcopy') /\ DOMAIN vcopy' = DOMAIN vcopy \ {vcur}
    BY <1>2, CopyWithout DEF VarTypes
  <2>2. vnew # NoPg => vcopy'[vnew] = vcopy[vnew] /\ vpages'[vnew] = vpages[vnew]
    BY <1>2, <1>3, <1>4, <1>5 DEF Without
  <2> QED
    BY <1>3, <1>4, <2>1, <2>2
<1>7. S \subseteq VarPages
  BY DEF ChainsAre, Linked, Closed
<1>8. \A p \in S : vpages'[p] = vpages[p]
  BY <1>4, <1>5, <1>7
<1>9. Linked(vhash, vpages, S)'
  <2>1. SameLinks(vpages, vpages', S)
    BY <1>8 DEF SameLinks
  <2>2. Linked(vhash, vpages', S)
    BY <2>1, LinkedSame DEF ChainsAre
  <2> QED
    BY <1>2, <2>2
<1>10. Owned(S)'
  BY <1>4, <1>6, <1>8 DEF ChainsAre, Owned
<1>11. ASSUME vfails = 0 PROVE InUse' = S \cup B /\ DOMAIN vcopy' \subseteq {vnew}
  <2>1. InUse = S \cup D /\ DOMAIN vcopy \subseteq {vcur, vnew}
    BY <1>2, <1>11 DEF ChainsAre, Accounted
  <2>2. InUse' = InUse \ {vcur}
    BY <1>4, <1>5, FreePageParts DEF InUse
  <2> QED
    BY <1>1, <1>4, <1>6, <2>1, <2>2
<1>12. CASE vnew # NoPg /\ vcur' = vnew /\ vnew' = NoPg /\ vstep' = "cut"
            /\ UNCHANGED <<vprev, vstart, vcells>>
  <2>1. CursorTypes'
    BY <1>2, <1>12, NoPgIsNone DEF VarTypes, CursorTypes, Steps
  <2>2. VarTypes'
    <3>1. RootsOK(vhash')
      BY <1>2 DEF VarTypes
    <3> QED
      BY <1>5, <1>6, <2>1, <3>1 DEF VarTypes
  <2>3. Reads(S)' /\ Writes(S)'
    BY <1>12 DEF Reads, Writes
  <2>4. Cutting(vpages', S, B, vnew)
    BY <1>1, <1>3, <1>5, <1>12, CutGoesOn
  <2>5. Deletes(S, B)'
    BY <1>6, <1>12, <2>4 DEF Deletes
  <2>6. vfails' = 0 => Accounted(S, B)'
    <3>1. vfails' = 0 => InUse' = S \cup B /\ DOMAIN vcopy' \subseteq {vcur'}
      BY <1>2, <1>11, <1>12
    <3> QED
      BY <1>12, <3>1 DEF Accounted
  <2>7. ChainsAre(S, B)'
    BY <1>9, <1>10, <2>3, <2>5, <2>6 DEF ChainsAre
  <2> QED
    BY <2>2, <2>7 DEF Chained
<1>13. CASE vnew = NoPg /\ Ended
  <2>1. CursorTypes'
    BY <1>2, <1>13, NoPgIsNone DEF VarTypes, CursorTypes, Steps, Ended
  <2>2. VarTypes'
    <3>1. RootsOK(vhash')
      BY <1>2 DEF VarTypes
    <3> QED
      BY <1>5, <1>6, <2>1, <3>1 DEF VarTypes
  <2>3. Reads(S)' /\ Writes(S)' /\ Deletes(S, B)'
    BY <1>13 DEF Reads, Writes, Deletes, Ended
  <2>4. B = {}
    BY <1>1, <1>3, <1>13, CutEnds
  <2>5. vfails' = 0 => Accounted(S, B)'
    <3>1. SUFFICES ASSUME vfails' = 0 PROVE Accounted(S, B)'
      OBVIOUS
    <3>2. InUse' = S /\ DOMAIN vcopy' \subseteq {NoPg}
      BY <1>2, <1>11, <1>13, <2>4, <3>1
    <3>3. DOMAIN vcopy' = {}
      BY <1>6, <3>2, NoPgIsNone DEF CopiesOK
    <3> QED
      BY <1>13, <3>2, <3>3 DEF Accounted, Ended
  <2>6. ChainsAre(S, B)'
    BY <1>9, <1>10, <2>3, <2>5 DEF ChainsAre
  <2> QED
    BY <2>2, <2>6 DEF Chained
<1> QED
  BY <1>12, <1>13 DEF Drop, Answer, Ended

-----------------------------------------------------------------------------
(* The calls, and the theorems.                                            *)

LEMMA CursorKeeps ==
  ASSUME VarTypes, LockInv, NEW S, NEW D, ChainsAre(S, D), CursorStep
  PROVE  VarTypes' /\ Chained'
<1>1. CASE ReadHash \/ Visit \/ Gather \/ Back \/ Found \/ NotThisOne
  BY <1>1, ReadHashKeeps, VisitKeeps, GatherKeeps, BackKeeps, FoundKeeps, NotThisOneKeeps
<1>2. CASE AppendPage \/ NewHead \/ LinkPage \/ LinkHead
  BY <1>2, AppendKeeps, NewHeadKeeps, LinkPageKeeps, LinkHeadKeeps
<1>3. CASE WriteName \/ Overflows \/ Close \/ MakeRoot
  BY <1>3, WriteNameKeeps, OverflowsKeeps, CloseKeeps, MakeRootKeeps
<1>4. CASE Unlink \/ CutOff \/ Drop
  BY <1>4, UnlinkKeeps, CutOffKeeps, DropKeeps
<1> QED
  BY <1>1, <1>2, <1>3, <1>4 DEF CursorStep

\* A call begins where none is served.
LEMMA ServeKeeps ==
  ASSUME VarTypes, NEW S, NEW D, ChainsAre(S, D), vstep = "idle", vstep' = "hash",
         UNCHANGED <<varPageVars, vcur, vprev, vnew, vstart, vfails>>
  PROVE  VarTypes' /\ Chained'
<1>1. CursorTypes' /\ Calm(vstep) /\ Calm(vstep')
  BY DEF VarTypes, CursorTypes, Steps, Calm
<1>2. Reads(S)' /\ Writes(S)'
  BY DEF ChainsAre, Reads, Writes
<1> QED
  BY <1>1, <1>2, CallMoves

\* Nothing that the chains know of is changed.
LEMMA NothingKeeps ==
  ASSUME VarTypes, NEW S, NEW D, ChainsAre(S, D), UNCHANGED <<varPageVars, cursorOfVar, vcall, vfails>>
  PROVE  VarTypes' /\ Chained'
<1>1. UNCHANGED <<vhash, vpages, vcopy, vcur, vprev, vnew, vstart, vcells, vstep, vcall, vfails>>
  BY DEF varPageVars, cursorOfVar
<1>2. VarTypes'
  BY <1>1 DEF VarTypes, CursorTypes
<1>3. Linked(vhash, vpages, S)' /\ Owned(S)'
  BY <1>1 DEF ChainsAre, Owned
<1>4. Reads(S)'
  BY <1>1 DEF ChainsAre, Reads, Before, Heads, SameLength, Name
<1>5. Writes(S)'
  BY <1>1 DEF ChainsAre, Writes, Heads, FirstPage, Name, Taken
<1>6. Deletes(S, D)'
  BY <1>1 DEF ChainsAre, Deletes
<1>7. vfails' = 0 => Accounted(S, D)'
  BY <1>1 DEF ChainsAre, Accounted, InUse
<1>8. ChainsAre(S, D)'
  BY <1>3, <1>4, <1>5, <1>6, <1>7 DEF ChainsAre
<1> QED
  BY <1>2, <1>8 DEF Chained

LEMMA ClientsKeep ==
  ASSUME VarTypes, LockInv, NEW S, NEW D, ChainsAre(S, D), NEW c \in Clients,
         \/ \E op \in {"new", "get", "delete", "begin"}, n \in Names : VarCall(c, op, n)
         \/ LockDb(c) \/ CommitVar(c)
  PROVE  VarTypes' /\ Chained'
<1>1. CASE \E op \in {"new", "get", "delete", "begin"}, n \in Names : VarCall(c, op, n)
  <2>1. PICK op \in {"new", "get", "delete", "begin"}, n \in Names : VarCall(c, op, n)
    BY <1>1
  <2>2. UNCHANGED <<varPageVars, vcur, vprev, vnew, vstart, vcells, vfails>>
    BY <2>1 DEF VarCall
  <2>3. CASE NeedsLock(c, op)
    <3>1. UNCHANGED <<vcall, vstep>>
      BY <2>1, <2>3 DEF VarCall
    <3> QED
      BY <2>2, <3>1, NothingKeeps DEF cursorOfVar
  <2>4. CASE ~NeedsLock(c, op)
    <3>1. txOf = c /\ vstep' = "hash"
      BY <2>1, <2>4 DEF VarCall, NeedsLock, Serve
    <3>2. vstep = "idle"
      BY <2>1, <3>1, VarAssumption DEF VarCall, LockInv
    <3> QED
      BY <2>2, <3>1, <3>2, ServeKeeps
  <2> QED
    BY <2>3, <2>4
<1>2. CASE LockDb(c)
  <2>1. UNCHANGED <<varPageVars, vcur, vprev, vnew, vstart, vcells, vfails>>
    BY <1>2 DEF LockDb
  <2>2. CASE UNCHANGED <<vcall, vstep>>
    BY <2>1, <2>2, NothingKeeps DEF cursorOfVar
  <2>3. CASE Serve(vwait[c])
    <3>1. vstep' = "hash"
      BY <2>3 DEF Serve
    <3>2. vstep = "idle"
      BY <1>2, VarAssumption DEF LockDb, LockInv
    <3> QED
      BY <2>1, <3>1, <3>2, ServeKeeps
  <2> QED
    BY <1>2, <2>2, <2>3 DEF LockDb
<1>3. CASE CommitVar(c)
  BY <1>3, NothingKeeps DEF CommitVar
<1> QED
  BY <1>1, <1>2, <1>3

LEMMA ChainStart ==
  ASSUME VarInit
  PROVE  ChainInv
<1>1. RootsOK(vhash)
  BY NoPgIsNone DEF VarInit, RootsOK, Buckets
<1>2. PagesOK(vpages) /\ CopiesOK(vcopy)
  BY FreePageParts DEF VarInit, PagesOK, CopiesOK
<1>3. VarTypes
  BY <1>1, <1>2, NoPgIsNone DEF VarInit, VarTypes, CursorTypes, Steps
<1>4. Linked(vhash, vpages, {})
  BY DEF VarInit, Linked, Closed, Apart, RootsApart, NextApart, TailApart, KindsApart, TailsEnd, Least
<1>5. Owned({}) /\ Reads({}) /\ Writes({}) /\ Deletes({}, {})
  BY DEF VarInit, Owned, Reads, Writes, Deletes
<1>6. Accounted({}, {})
  BY FreePageParts DEF VarInit, Accounted, InUse
<1>7. ChainsAre({}, {})
  BY <1>4, <1>5, <1>6 DEF ChainsAre
<1> QED
  BY <1>3, <1>7, LockStart DEF ChainInv, Chained

LEMMA ChainStep ==
  ASSUME ChainInv, [VarNext]_varVars
  PROVE  ChainInv'
<1>1. VarTypes /\ LockInv
  BY DEF ChainInv
<1>2. PICK S : \E D : ChainsAre(S, D)
  BY DEF ChainInv, Chained
<1>3. PICK D : ChainsAre(S, D)
  BY <1>2
<1>4. LockInv'
  BY <1>1, LockStep
<1>5. CASE CursorStep
  BY <1>1, <1>3, <1>4, <1>5, CursorKeeps DEF ChainInv
<1>6. CASE PagerFails
  BY <1>1, <1>3, <1>4, <1>6, PagerFailsKeeps DEF ChainInv
<1>7. CASE \E c \in Clients :
             \/ \E op \in {"new", "get", "delete", "begin"}, n \in Names : VarCall(c, op, n)
             \/ LockDb(c) \/ CommitVar(c)
  BY <1>1, <1>3, <1>4, <1>7, ClientsKeep DEF ChainInv
<1>8. CASE UNCHANGED varVars
  <2>1. UNCHANGED <<varPageVars, cursorOfVar, vcall, vfails>>
    BY <1>8 DEF varVars
  <2> QED
    BY <1>1, <1>3, <1>4, <2>1, NothingKeeps DEF ChainInv
<1> QED
  BY <1>5, <1>6, <1>7, <1>8 DEF VarNext

\* The chains, the cursor and the lock fit together after any number of calls.
THEOREM ChainAlways == VarSpec => []ChainInv
<1>1. VarInit => ChainInv
  BY ChainStart
<1>2. ChainInv /\ [VarNext]_varVars => ChainInv'
  BY ChainStep
<1> QED
  BY <1>1, <1>2, PTL DEF VarSpec

\* The pages in use are those of the names, whichever call of the pager fails:
\* no chain leads to a free page, and without failures no page is lost.
THEOREM ChainsAreExact == VarSpec => []ChainsExact
<1>1. ChainInv => ChainsExact
  BY InvChainsExact
<1> QED
  BY <1>1, ChainAlways, PTL

\* From begin to commit the database serves the client of the transaction only.
THEOREM TransactionIsAlone == VarSpec => []TransactionAlone
<1>1. ChainInv => TransactionAlone
  BY InvTransactionAlone DEF ChainInv
<1> QED
  BY <1>1, ChainAlways, PTL
=============================================================================
