------------------------------- MODULE RptPages -------------------------------
(***************************************************************************)
(* The two page types of the R+tree and what is done to them: data lists   *)
(* (a sequence of bytes) and inner nodes (a sequence of pairs of a child   *)
(* page and the number of bytes below it), each with the page numbers of   *)
(* its neighbours in the layer.                                            *)
(*                                                                         *)
(* Sources: src/libs/nspager: data_list.c, inner_node.c, page_delegate.h,  *)
(* pager_routines.c.                                                       *)
(***************************************************************************)
EXTENDS Integers, Sequences, SequencesExt

CONSTANTS
  MaxKeys,       \* IN_MAX_KEYS, pairs in an inner node
  LeafSize       \* DL_DATA_SIZE, bytes in a data list

ASSUME PageAssumption ==
  /\ MaxKeys \in Nat /\ MaxKeys > 5            \* inner_node.h: static assertion
  /\ LeafSize \in Nat /\ LeafSize > 1

Null == 0                                     \* PGNO_NULL
Pair(p, k) == [pg |-> p, key |-> k]
NoPair == Pair(Null, 0)                       \* in_pair_empty
Less(a, b) == IF a < b THEN a ELSE b

EmptyPage(kind) == [kind |-> kind, prev |-> Null, next |-> Null, data |-> <<>>]

-----------------------------------------------------------------------------
dlgt_get_max_len(kind) == IF kind = "inner" THEN MaxKeys ELSE LeafSize

\* in_get_size: the bytes below an inner node.
in_get_size(data) == FoldLeft(LAMBDA sum, pair : sum + pair.key, 0, data)

dlgt_get_size(page) == IF page.kind = "inner" THEN in_get_size(page.data) ELSE Len(page.data)

dlgt_is_root(page) == page.prev = Null /\ page.next = Null

dl_validate_for_db(page) ==
  IF dlgt_is_root(page) THEN Len(page.data) > 0 ELSE Len(page.data) >= LeafSize \div 2

in_validate_for_db(page) ==
  /\ \A i, j \in DOMAIN page.data : page.data[i].pg = page.data[j].pg => i = j
  /\ IF dlgt_is_root(page) THEN Len(page.data) > 0 ELSE Len(page.data) >= MaxKeys \div 2

page_validate_for_db(page) ==
  IF page.kind = "inner" THEN in_validate_for_db(page) ELSE dl_validate_for_db(page)

\* in_set_len: a longer node shows whatever the slots held before.
Stale == NoPair
in_set_len(data, n) == [i \in 1..n |-> IF i <= Len(data) THEN data[i] ELSE Stale]

in_cut_left(data, n) == SubSeq(data, n + 1, Len(data))

\* in_push_left_permissive: the first n pairs of a full node moved to its end.
in_push_left_permissive(data, n) ==
  [i \in 1..MaxKeys |-> IF i > MaxKeys - n THEN data[i - (MaxKeys - n)] ELSE data[i]]

\* in_choose_lidx: the child that holds the byte, and the bytes left of it.
BytesBefore(data, i) == in_get_size(SubSeq(data, 1, i - 1))

in_choose_lidx(data, loc) ==
  CHOOSE i \in DOMAIN data :
    /\ i = Len(data) \/ loc < BytesBefore(data, i + 1)
    /\ \A j \in 1..(i - 1) : loc >= BytesBefore(data, j + 1)

-----------------------------------------------------------------------------
(* Moving content between neighbours.  Each operator gives the content of  *)
(* the left and of the right page after the move.                          *)

\* dl_move_left takes what the source has; dl_move_right likewise.
dl_move_left(dest, src, n) ==
  LET k == Less(n, Len(src))
  IN  <<dest \o SubSeq(src, 1, k), SubSeq(src, k + 1, Len(src))>>

dl_move_right(src, dest, n) ==
  LET k == Less(n, Len(src))
  IN  <<SubSeq(src, 1, Len(src) - k), SubSeq(src, Len(src) - k + 1, Len(src)) \o dest>>

in_move_left(dest, src, n) == <<dest \o SubSeq(src, 1, n), in_cut_left(src, n)>>

\* in_push_left makes room for n pairs, which then come from the end of src.
in_move_right(src, dest, n) ==
  <<in_set_len(src, Len(src) - n),
    [i \in 1..(Len(dest) + n) |->
       IF i <= n THEN src[Len(src) - n + i] ELSE dest[i - n]]>>

dlgt_move_left(kind, dest, src, n) ==
  IF kind = "inner" THEN in_move_left(dest, src, n) ELSE dl_move_left(dest, src, n)

dlgt_move_right(kind, src, dest, n) ==
  IF kind = "inner" THEN in_move_right(src, dest, n) ELSE dl_move_right(src, dest, n)

\* A page that is less than half full takes what it lacks from its neighbour,
\* or, when the two fit one page, gives it everything.
dlgt_balance_with_next(kind, cur, next) ==
  IF Len(cur) = 0 \/ Len(cur) >= dlgt_get_max_len(kind) \div 2 THEN <<cur, next>>
  ELSE IF Len(cur) + Len(next) >= dlgt_get_max_len(kind)
  THEN dlgt_move_left(kind, cur, next, (dlgt_get_max_len(kind) \div 2) - Len(cur))
  ELSE dlgt_move_right(kind, cur, next, Len(cur))

dlgt_balance_with_prev(kind, prev, cur) ==
  IF Len(cur) = 0 \/ Len(cur) >= dlgt_get_max_len(kind) \div 2 THEN <<prev, cur>>
  ELSE IF Len(prev) + Len(cur) >= dlgt_get_max_len(kind)
  THEN dlgt_move_right(kind, prev, cur, (dlgt_get_max_len(kind) \div 2) - Len(cur))
  ELSE dlgt_move_left(kind, prev, cur, Len(cur))
=============================================================================
