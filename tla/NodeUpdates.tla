----------------------------- MODULE NodeUpdates -----------------------------
(***************************************************************************)
(* The changes one layer of the R+tree hands to the layer above: a pivot   *)
(* (the page the change began at) and, on each side of it, the pages that  *)
(* were added, changed or removed (key 0), nearest to the pivot first.     *)
(* The layer above observes the pairs of its own nodes next to the pivot,  *)
(* which appends the ones the change does not name to the list, and then   *)
(* consumes the list in order, dropping removed pages.                     *)
(*                                                                         *)
(* Source: src/libs/cursors/nsrptcursor/node_updates.c.  The functions     *)
(* exist there once for each side; an operator here takes the side and the *)
(* two functions are its instances.                                        *)
(***************************************************************************)
EXTENDS RptPages, FiniteSets

Side == {"left", "right"}
Other(side) == IF side = "left" THEN "right" ELSE "left"

NoRef == [side |-> "none", at |-> 0]
PivotRef == [side |-> "pivot", at |-> 0]
Entry(side, i) == [side |-> side, at |-> i]

nupd_init(p, size) ==
  [pivot |-> Pair(p, size),
   list |-> [side \in Side |-> <<>>],    \* right, left
   len  |-> [side \in Side |-> 0],       \* rlen, llen: entries of the layer below
   obs  |-> [side \in Side |-> 0],       \* robs, lobs: entries observed so far
   cons |-> [side \in Side |-> 0],       \* rcons, lcons: entries consumed
   prev |-> PivotRef]                    \* the entry whose size is not final yet

-----------------------------------------------------------------------------
(* Written by the layer below.                                             *)

EntryPg(u, ref) == IF ref = PivotRef THEN u.pivot.pg ELSE u.list[ref.side][ref.at].pg

SetKey(u, ref, size) ==
  IF ref = PivotRef THEN [u EXCEPT !.pivot.key = size]
  ELSE [u EXCEPT !.list[ref.side][ref.at].key = size]

\* Where nupd_append_right or _left puts a page, and the updates after it.
AppendRef(u, side, p) ==
  IF u.len[side] = 0 /\ p = u.pivot.pg THEN PivotRef ELSE Entry(side, u.len[side] + 1)

nupd_append(u, side, p, size) ==
  IF AppendRef(u, side, p) = PivotRef THEN [u EXCEPT !.pivot.key = size]
  ELSE [u EXCEPT !.list[side] = Append(SubSeq(@, 1, u.len[side]), Pair(p, size)),
                 !.len[side] = @ + 1]

nupd_append_right(u, p, size) == nupd_append(u, "right", p, size)
nupd_append_left(u, p, size) == nupd_append(u, "left", p, size)

\* The page is finished: its entry gets its final size.
nupd_commit_1st(u, side, p, size) ==
  IF u.prev # NoRef THEN [SetKey(u, u.prev, size) EXCEPT !.prev = NoRef]
  ELSE nupd_append(u, side, p, size)

nupd_commit_1st_right(u, p, size) == nupd_commit_1st(u, "right", p, size)
nupd_commit_1st_left(u, p, size) == nupd_commit_1st(u, "left", p, size)

\* The page p is not finished but its neighbour is removed (or changed).
nupd_append_2nd(u, side, p, size, neighbour, nsize) ==
  LET u1 == IF u.prev # NoRef THEN u
            ELSE [nupd_append(u, side, p, size) EXCEPT !.prev = AppendRef(u, side, p)]
  IN  nupd_append(u1, side, neighbour, nsize)

nupd_append_2nd_right(u, p, size, np, nsize) == nupd_append_2nd(u, "right", p, size, np, nsize)
nupd_append_2nd_left(u, p, size, np, nsize) == nupd_append_2nd(u, "left", p, size, np, nsize)

\* commit_1st and append_2nd assert that the unfinished entry is the page's.
PrevIs(u, p) == u.prev # NoRef => EntryPg(u, u.prev) = p

\* The entry of a page that was already passed: the last one on this side,
\* the pivot, or the first one on the other side.
Passed(u, side, p) ==
  LET mine   == {i \in 1..u.len[side] : u.list[side][i].pg = p}
      theirs == {i \in 1..u.len[Other(side)] : u.list[Other(side)][i].pg = p}
  IN  IF mine # {} THEN Entry(side, CHOOSE i \in mine : \A j \in mine : j <= i)
      ELSE IF u.pivot.pg = p THEN PivotRef
      ELSE IF theirs # {} THEN Entry(Other(side), CHOOSE i \in theirs : \A j \in theirs : i <= j)
      ELSE NoRef

\* The last page of a layer and the neighbour it was balanced with.
SetPassed(u, side, pair, ref) ==
  IF ref # NoRef THEN SetKey(u, ref, pair.key) ELSE nupd_append(u, Other(side), pair.pg, pair.key)

TipBehind(u, side, behind) ==
  IF behind = NoPair THEN u ELSE SetPassed(u, side, behind, Passed(u, side, behind.pg))

TipAhead(u, side, ahead) ==
  IF ahead = NoPair THEN u ELSE nupd_append(u, side, ahead.pg, ahead.key)

nupd_append_tip(u, side, tip, behind, ahead) ==
  TipAhead(TipBehind(nupd_commit_1st(u, side, tip.pg, tip.key), side, behind), side, ahead)

Bug_TipAlone(u, out) == nupd_append_tip(u, "right", out.cur, NoPair, out.next)

nupd_append_tip_right(u, out) == nupd_append_tip(u, "right", out.cur, out.prev, out.next)
nupd_append_tip_left(u, out) == nupd_append_tip(u, "left", out.cur, out.next, out.prev)

-----------------------------------------------------------------------------
(* Read by the layer above.                                                *)

\* A pair of the old node: already named by the change, or appended to it.
nupd_observe(u, side, pair) ==
  LET named == {i \in (u.obs[side] + 1)..u.len[side] : u.list[side][i].pg = pair.pg}
      past  == IF u.obs[side] < u.len[side] THEN u.len[side] ELSE u.obs[side]
  IN  IF u.obs[side] = 0 /\ u.pivot.pg = pair.pg THEN u
      ELSE IF named # {}
      THEN [u EXCEPT !.obs[side] = (CHOOSE i \in named : \A j \in named : i <= j) - 1]
      ELSE [u EXCEPT !.list[side] = Append(SubSeq(@, 1, past), pair),
                     !.obs[side] = past + 1]

nupd_observe_right(u, pair) == nupd_observe(u, "right", pair)
nupd_observe_left(u, pair) == nupd_observe(u, "left", pair)

ObserveEach(u, side, pairs) ==
  FoldLeft(LAMBDA v, pair : nupd_observe(v, side, pair), u, pairs)

\* The pairs of the node from position lidx on (counted from 0), outwards.
nupd_observe_right_from(u, data, lidx) ==
  ObserveEach(u, "right", SubSeq(data, lidx + 1, Len(data)))
nupd_observe_left_from(u, data, lidx) ==
  ObserveEach(u, "left", Reverse(SubSeq(data, 1, lidx)))

nupd_observe_pivot(u, data, lidx) ==
  nupd_observe_left_from(nupd_observe_right_from(u, data, lidx), data, lidx)

\* All pairs of the neighbour; at the end of the layer the rest of the list.
ObserveEnd(u, side) == [u EXCEPT !.obs[side] = u.len[side]]
nupd_observe_all_right(u, data) == nupd_observe_right_from(u, data, 0)
nupd_observe_all_left(u, data) == nupd_observe_left_from(u, data, Len(data))

nupd_done_observing(u, side) == u.obs[side] >= u.len[side]
nupd_done_consuming(u, side) == u.cons[side] = u.obs[side]
nupd_done(u, side) == nupd_done_observing(u, side) /\ nupd_done_consuming(u, side)

nupd_done_right(u) == nupd_done(u, "right")
nupd_done_left(u) == nupd_done(u, "left")

\* The entries that are observed and not consumed, removed pages left out.
Live(pair) == pair.key > 0
Pending(u, side) == SubSeq(u.list[side], u.cons[side] + 1, u.obs[side])

\* How many entries are consumed to fill room places.
Consumed(pending, room) ==
  LET live(k) == Cardinality({i \in 1..k : Live(pending[i])})
      full    == {k \in 0..Len(pending) : live(k) = room}
  IN  IF full = {} THEN Len(pending) ELSE CHOOSE k \in full : \A j \in full : k <= j

Taken(u, side, room) ==
  SelectSeq(SubSeq(Pending(u, side), 1, Consumed(Pending(u, side), room)), Live)

nupd_consume(u, side, room) ==
  [u EXCEPT !.cons[side] = @ + Consumed(Pending(u, side), room)]

\* The node after the pairs have been written from position lidx on, or
\* before position lidx going left.
nupd_append_maximally_right(u, data, lidx) ==
  LET t == Taken(u, "right", MaxKeys - lidx)
  IN  [i \in 1..Len(data) |-> IF i - lidx \in 1..Len(t) THEN t[i - lidx] ELSE data[i]]

nupd_append_maximally_left(u, data, lidx) ==
  LET t == Taken(u, "left", lidx)
  IN  [i \in 1..Len(data) |-> IF lidx - i + 1 \in 1..Len(t) THEN t[lidx - i + 1] ELSE data[i]]

\* The whole node rewritten around the pivot: the pivot, what is right of it,
\* and in what room is left, pushed to the end of the node, what is left of it.
ThenLeft(u, data, len) ==
  IF len = MaxKeys THEN [data |-> data, len |-> len, updates |-> u]
  ELSE [data |-> nupd_append_maximally_left(u, in_push_left_permissive(data, len), MaxKeys - len),
        len |-> len + Len(Taken(u, "left", MaxKeys - len)),
        updates |-> nupd_consume(u, "left", MaxKeys - len)]

FromPivot(u, data, len) ==
  ThenLeft(nupd_consume(u, "right", MaxKeys - len), nupd_append_maximally_right(u, data, len),
           len + Len(Taken(u, "right", MaxKeys - len)))

nupd_append_maximally_right_then_left(u, data) ==
  IF Live(u.pivot) THEN FromPivot(u, [data EXCEPT ![1] = u.pivot], 1) ELSE FromPivot(u, data, 0)
=============================================================================
