------------------------------ MODULE RptCursor ------------------------------
(***************************************************************************)
(* The R+tree cursor of numstore.  A variable is a tree: its bytes are in  *)
(* the leaves, the inner nodes count the bytes below each child.  A cursor *)
(* seeks to a byte offset, works along the leaves, and carries the changes *)
(* of a layer up to the next one as node updates (NodeUpdates) until a     *)
(* layer fits one page, the root.                                          *)
(*                                                                         *)
(* Sources: src/libs/cursors/nsrptcursor (rptree_cursor.c, _seek.c,        *)
(* _insert.c, _remove.c, _read.c, _write.c, _rebalance.c), the linked page *)
(* helpers of src/libs/nspager/pager_routines.c, and the way               *)
(* src/libs/apps/nsfslite/nsfslite.c drives a cursor.  One cursor works at *)
(* a time; what the buffer pool and the log do with the pages is the       *)
(* subject of other modules.                                               *)
(*                                                                         *)
(* A C function that changes several things is an operator from a World    *)
(* (a record of the state) to a World; an action computes the World its    *)
(* handler leaves and assigns it.  A failed assertion, and a write through *)
(* a handle that does not permit it, set World's err; the first one is     *)
(* kept and the program stops there.                                       *)
(***************************************************************************)
EXTENDS NodeUpdates, RptMem

CONSTANTS
  StackSize,     \* pages a cursor can have above the current one
  Requests,      \* what a client may ask for, as in ByteArray
  NoRequest,
  NupdSize,      \* MAX_NUPD_SIZE, room for pages that a request adds or drops
  Nsfslite       \* the requests come through nsfslite.c

ASSUME CursorAssumption ==
  /\ StackSize \in Nat
  /\ NupdSize \in Nat
  /\ Nsfslite \in BOOLEAN
  /\ NoRequest \notin Requests

\* What the C interface asserts of element sizes, strides and counts.
ASSUME RequestAssumption ==
  \A q \in Requests :
    q.at \in Nat /\ q.size \in Nat \ {0} /\ q.stride \in Nat \ {0} /\ q.n \in Nat \ {0}

VARIABLES
  pages,    \* the allocated pages of the tree, by page number
  free,     \* numbers of deleted pages, the next one to be used first
  top,      \* the highest page number ever used
  metaRoot, \* the root page number stored in the variable's RPT_ROOT page
  root,     \* the cursor's own copy of it
  total,    \* r->total_size
  state,       \* r->state, refined by where in its handler the cursor is
  cur,      \* handle on the page the cursor is at
  lidx,     \* its position in that page
  stack,    \* handles and positions from the root down to cur's parent
  limit,    \* handle on the neighbour the rebalancing may overwrite
  input,    \* node updates from the layer below
  output,   \* node updates for the layer above
  job,      \* the seeker, reader, inserter or remover of the cursor
  upd,      \* what balancing a layer found out about the root
  err,      \* why the program stopped, "none" while it runs
  request,  \* the request being served
  answer,   \* the bytes delivered for it
  bytes     \* the content of the tree when the last request was answered

cursorVars == <<pages, free, top, metaRoot, root, total, state, cur, lidx, stack,
                limit, input, output, job, upd, err>>
treeVars == <<pages, free, top, metaRoot, root, total, state, cur, lidx, stack, limit,
          input, output, job, upd, err, request, answer, bytes>>

-----------------------------------------------------------------------------
(* Worlds and page handles.                                                *)

World ==
  [pages |-> pages, free |-> free, top |-> top, metaRoot |-> metaRoot, root |-> root,
   total |-> total, state |-> state, cur |-> cur, lidx |-> lidx, stack |-> stack,
   limit |-> limit, input |-> input, output |-> output, job |-> job, upd |-> upd,
   err |-> err]

Fail(w, why) == [w EXCEPT !.err = IF @ = "none" THEN why ELSE @]
Check(w, cond, why) == IF w.err # "none" \/ cond THEN w ELSE Fail(w, why)

\* nupd_append_right and _left store past the end of a full list and the next
\* use of it fails its assertion: the program stops at the store.
Becomes(v) ==
  LET w == Check(v, \A u \in {v.input, v.output}, side \in Side :
                      Len(u.list[side]) <= NupdSize + 5 * MaxKeys, "too many updates") IN
  /\ pages' = w.pages /\ free' = w.free /\ top' = w.top /\ metaRoot' = w.metaRoot
  /\ root' = w.root /\ total' = w.total /\ cur' = w.cur /\ lidx' = w.lidx
  /\ stack' = w.stack /\ limit' = w.limit /\ input' = w.input /\ output' = w.output
  /\ job' = w.job /\ upd' = w.upd /\ err' = w.err
  /\ state' = IF w.err = "none" THEN w.state ELSE "crashed"

NoPage == [pg |-> Null, x |-> FALSE]        \* page_h_create: PHM_NONE
Handle(p, x) == IF p = Null THEN NoPage ELSE [pg |-> p, x |-> x]
Shared(p) == Handle(p, FALSE)                 \* PHM_S
Exclusive(p) == Handle(p, TRUE)               \* PHM_X
Exists(h) == h.pg # Null
Page(w, h) == w.pages[h.pg]
Cur(w) == Page(w, w.cur)

PairOf(w, h) == IF Exists(h) THEN Pair(h.pg, dlgt_get_size(Page(w, h))) ELSE NoPair

\* page_h_w: a page is written through a handle that is exclusive.
SetData(w, h, data) ==
  IF h.x THEN [w EXCEPT !.pages[h.pg].data = data] ELSE Fail(w, "shared handle")

\* pgr_maybe_make_writable; pgr_make_writable
Writable(h) == [h EXCEPT !.x = Exists(h)]

dlgt_valid_neighbors(w, left, right) ==
  /\ Exists(left) => Page(w, left).next = right.pg
  /\ Exists(right) => Page(w, right).prev = left.pg

\* dlgt_link through page_h_w_or_null.
dlgt_link(w, left, right) ==
  IF (Exists(left) /\ ~left.x) \/ (Exists(right) /\ ~right.x)
  THEN Fail(w, "shared handle")
  ELSE [w EXCEPT !.pages =
         [p \in DOMAIN @ |->
            IF p = left.pg THEN [@[p] EXCEPT !.next = right.pg]
            ELSE IF p = right.pg THEN [@[p] EXCEPT !.prev = left.pg]
            ELSE @[p]]]

\* PagerNew gives the page that was deleted last, or a new one.
NextPage(w) == IF w.free # <<>> THEN Head(w.free) ELSE w.top + 1

PagerNew(w, kind) ==
  [w EXCEPT
    !.pages = [p \in DOMAIN @ \cup {NextPage(w)} |->
                 IF p = NextPage(w) THEN EmptyPage(kind) ELSE @[p]],
    !.free = IF @ = <<>> THEN @ ELSE Tail(@),
    !.top = IF w.free = <<>> THEN @ + 1 ELSE @]

Bug_NeverReused(w, h) == [w EXCEPT !.pages = [p \in DOMAIN @ \ {h.pg} |-> @[p]]]

PagerDelete(w, h) ==
  [w EXCEPT !.pages = [p \in DOMAIN @ \ {h.pg} |-> @[p]],
            !.free = <<h.pg>> \o @]

\* pgr_release_if_exists: a page that was written is saved, and asserted valid.
PagerRelease(w, h) ==
  Check(w, Exists(h) /\ h.x => page_validate_for_db(Page(w, h)), "invalid page saved")

\* A handle on the neighbour, exclusive when the call is given a transaction.
pgr_dlgt_get_next(w, h, tx) == Handle(Page(w, h).next, tx)
pgr_dlgt_get_prev(w, h, tx) == Handle(Page(w, h).prev, tx)

\* The page after (before) cur is deleted, far is the one after it.
DeleteNext(w, h, next, far) ==
  [world |-> dlgt_link(PagerDelete(w, next), Writable(h), far), next |-> far]

pgr_dlgt_delete_and_fill_next(w, h, next) ==
  DeleteNext(Check(w, dlgt_valid_neighbors(w, h, next), "not neighbours"), h, next,
             pgr_dlgt_get_next(w, next, TRUE))

DeletePrev(w, prev, h, far) ==
  [world |-> dlgt_link(PagerDelete(w, prev), far, Writable(h)), prev |-> far]

pgr_dlgt_delete_and_fill_prev(w, prev, h) ==
  DeletePrev(Check(w, dlgt_valid_neighbors(w, prev, h), "not neighbours"), prev, h,
             pgr_dlgt_get_prev(w, prev, TRUE))

\* A new page after (before) the page h, linked to it on one side only.
pgr_dlgt_new_next_no_link(w, h) ==
  dlgt_link(PagerNew(w, Page(w, h).kind), Writable(h), Exclusive(NextPage(w)))

pgr_dlgt_new_prev_no_link(w, h) ==
  dlgt_link(PagerNew(w, Page(w, h).kind), Exclusive(NextPage(w)), Writable(h))

\* A new page between cur and its neighbour, which cur then moves to.
MoveTo(w, h, beside) ==
  [PagerRelease(w, Writable(w.cur)) EXCEPT !.cur = h, !.limit = Writable(beside)]

pgr_dlgt_advance_new_next(w, next) ==
  MoveTo(dlgt_link(pgr_dlgt_new_next_no_link(
                     Check(w, dlgt_valid_neighbors(w, w.cur, next), "not neighbours"), w.cur),
                   Exclusive(NextPage(w)), Writable(next)),
         Exclusive(NextPage(w)), next)

NewPrev(w, prev) == dlgt_link(PagerNew(w, Cur(w).kind), Writable(prev), Exclusive(NextPage(w)))

pgr_dlgt_advance_new_prev(w, prev) ==
  MoveTo(dlgt_link(NewPrev(Check(w, dlgt_valid_neighbors(w, prev, w.cur), "not neighbours"), prev),
                   Exclusive(NextPage(w)), Writable(w.cur)),
         Exclusive(NextPage(w)), prev)

\* pgr_dlgt_delete_chain: a page and all pages linked to it on either side.
Linked(w, p, dir) ==
  LET beside == [q \in DOMAIN w.pages \cup {Null} |->
                   IF q = Null THEN Null ELSE IF dir = "next" THEN w.pages[q].next ELSE w.pages[q].prev]
      nth[k \in Nat] == IF k = 0 THEN p ELSE beside[nth[k - 1]]
  IN  SelectSeq([k \in 1..Cardinality(DOMAIN w.pages) |-> nth[k]], LAMBDA q : q # Null)

Chain(w, p) == <<p>> \o Linked(w, p, "next") \o Linked(w, p, "prev")

pgr_dlgt_delete_chain(w, p) ==
  FoldLeft(LAMBDA v, q : PagerDelete(v, Exclusive(q)), w, Chain(w, p))

-----------------------------------------------------------------------------
(* rptc_balance_and_release: the last page of a change is balanced with a  *)
(* neighbour, deleted when it is empty, and what changed is reported.      *)

SetBoth(w, left, right, d) ==
  [w EXCEPT !.pages[left.pg].data = d[1], !.pages[right.pg].data = d[2]]

Bug_NeverBalances(w, prev, next) == "none"

\* The neighbour cur is balanced with; one that is not held is loaded.
BalanceSide(w, prev, next) ==
  LET n == Len(Cur(w).data)
  IN  IF n = 0 \/ n >= dlgt_get_max_len(Cur(w).kind) \div 2 THEN "none"
      ELSE IF Exists(next) THEN "right"
      ELSE IF Exists(prev) THEN "left"
      ELSE IF Cur(w).next # Null THEN "right"
      ELSE IF Cur(w).prev # Null THEN "left"
      ELSE "none"

Loaded(w, side, wanted, h) ==
  IF side # wanted THEN h
  ELSE IF Exists(h) THEN Writable(h)
  ELSE IF wanted = "right" THEN pgr_dlgt_get_next(w, w.cur, TRUE)
  ELSE pgr_dlgt_get_prev(w, w.cur, TRUE)

Balanced(w, side, prev, next) ==
  IF side = "none" THEN w
  ELSE IF side = "right"
  THEN SetBoth(w, w.cur, next,
               dlgt_balance_with_next(Cur(w).kind, Cur(w).data, Page(w, next).data))
  ELSE SetBoth(w, prev, w.cur,
               dlgt_balance_with_prev(Cur(w).kind, Page(w, prev).data, Cur(w).data))

\* The empty page cur is taken out of its layer; the layer may be left with
\* one page, which is then the root of the tree, or with none.
LastLeft(w, prev, next) ==
  IF w.err # "none" THEN Null
  ELSE IF Exists(prev) /\ dlgt_is_root(Page(w, prev)) THEN prev.pg
  ELSE IF Exists(next) /\ dlgt_is_root(Page(w, next)) THEN next.pg
  ELSE Null

Around(w, prev, next) ==
  [prev |-> prev, next |-> next, world |-> PagerDelete(w, w.cur),
   upd |-> [isroot |-> LastLeft(w, prev, next) # Null, root |-> LastLeft(w, prev, next)]]

PageUnlinked(w, prev, next) ==
  IF dlgt_is_root(Cur(w))
  THEN [prev |-> prev, next |-> next, world |-> PagerDelete(w, w.cur),
        upd |-> [isroot |-> TRUE, root |-> Null]]
  ELSE LET p == IF Exists(prev) THEN prev ELSE pgr_dlgt_get_prev(w, w.cur, TRUE)
           n == IF Exists(next) THEN next ELSE pgr_dlgt_get_next(w, w.cur, TRUE)
       IN  Around(dlgt_link(w, p, n), p, n)

PageKept(w, prev, next) ==
  [prev |-> prev, next |-> next, world |-> PagerRelease(w, w.cur),
   upd |-> [isroot |-> dlgt_is_root(Cur(w)),
            root |-> IF dlgt_is_root(Cur(w)) THEN w.cur.pg ELSE Null]]

ReleaseAll(r) ==
  [PagerRelease(PagerRelease(r.world, r.prev), r.next)
     EXCEPT !.cur = NoPage, !.limit = NoPage, !.upd = r.upd]

\* The page and the neighbours that changed with it, for the layer above.
TipDone(w, side, prev, next) ==
  [world |-> ReleaseAll(IF Cur(w).data = <<>> THEN PageUnlinked(w, prev, next)
                        ELSE PageKept(w, prev, next)),
   out |-> [cur |-> PairOf(w, w.cur),
            prev |-> IF side = "left" THEN PairOf(w, prev) ELSE NoPair,
            next |-> IF side = "right" THEN PairOf(w, next) ELSE NoPair]]

BalanceWith(w, side, prev, next) == TipDone(Balanced(w, side, prev, next), side, prev, next)

BalanceOn(w, side, prev, next) ==
  BalanceWith(w, side, Loaded(w, side, "left", prev), Loaded(w, side, "right", next))

rptc_balance_and_release(w, prev, next) ==
  BalanceOn(Check([w EXCEPT !.cur = Writable(@)],
                  /\ Exists(prev) => dlgt_valid_neighbors(w, prev, w.cur)
                  /\ Exists(next) => dlgt_valid_neighbors(w, w.cur, next),
                  "not neighbours"),
            BalanceSide(w, prev, next), prev, next)

\* A layer is finished: its tip is balanced and reported, the layer above is next.
TipReported(w, side, out) ==
  [Check(w, PrevIs(w.output, out.cur.pg), "another page unfinished")
     EXCEPT !.output = IF side = "right" THEN nupd_append_tip_right(@, out)
                       ELSE nupd_append_tip_left(@, out),
            !.state = "moving up"]

Reported(tip, side) == TipReported(tip.world, side, tip.out)

FinishLayer(w, side, prev, next) == Reported(rptc_balance_and_release(w, prev, next), side)

-----------------------------------------------------------------------------
(* Seeking.                                                                *)

ParentOf(w) == w.stack[Len(w.stack)]

\* rptc_seek_load_choice: the child to go on with, or the position in the leaf.
rptc_seek_load_choice(w) ==
  IF Cur(w).kind = "inner"
  THEN LET i == in_choose_lidx(Cur(w).data, w.job.remaining)
       IN  [w EXCEPT !.lidx = i - 1, !.state = "seeking",
                     !.job.remaining = @ - BytesBefore(Cur(w).data, i)]
  ELSE [w EXCEPT !.lidx = Less(w.job.remaining, Len(Cur(w).data)), !.state = "seeked",
                 !.job.remaining = 0]

NoJob == [remaining |-> 0, src |-> NoPage, sidx |-> 0, bnext |-> 0, done |-> 0,
          active |-> TRUE, last |-> Null, temp |-> <<>>]

rptc_start_seek(w, q) ==
  LET w0 == [w EXCEPT !.job = [NoJob EXCEPT !.remaining = q.at], !.lidx = 0]
      w1 == [PagerNew(w0, "leaf") EXCEPT !.root = NextPage(w0), !.cur = Exclusive(NextPage(w0))]
  IN  IF w.root # Null THEN rptc_seek_load_choice([w0 EXCEPT !.cur = Shared(w.root)])
      ELSE IF q.op = "insert" THEN rptc_seek_load_choice(w1)
      ELSE [w0 EXCEPT !.state = "seeked"]

rptc_seeking_execute(w) ==
  LET w0 == Check(w, Len(w.stack) < StackSize, "stack overflow")
  IN  rptc_seek_load_choice(
        [w0 EXCEPT !.stack = Append(@, [pg |-> w.cur, lidx |-> w.lidx]),
                   !.cur = Shared(Cur(w).data[w.lidx + 1].pg)])

\* rptc_seek_pop_into_cur (the page cur held before is released already)
rptc_seek_pop_into_cur(w) ==
  [w EXCEPT !.cur = ParentOf(w).pg, !.lidx = ParentOf(w).lidx,
            !.stack = SubSeq(@, 1, Len(@) - 1)]

\* rptc_pop_all and the reset of the cursor around it.
rptc_pop_all(w) == [w EXCEPT !.stack = <<>>, !.cur = NoPage, !.lidx = 0, !.state = "done"]

-----------------------------------------------------------------------------
(* Rebalancing (_rebalance.c): the node updates of a layer are written     *)
(* into the layer above, around the node the cursor came through.          *)

\* A tree gets a new root when the layer below is split.
rptc_load_new_root(w) ==
  [PagerNew(w, "inner") EXCEPT !.cur = Exclusive(NextPage(w)), !.root = NextPage(w),
                              !.metaRoot = NextPage(w), !.lidx = 0]

\* A layer of one page is the root: the layers above it are deleted.
ShrinkTo(w, newroot) ==
  [FoldRight(LAMBDA frame, v : pgr_dlgt_delete_chain(v, frame.pg.pg), w.stack, w)
     EXCEPT !.root = newroot, !.stack = <<>>, !.cur = NoPage, !.lidx = 0, !.state = "done"]

NextLayer(w, changes) ==
  [w EXCEPT !.input = changes, !.output = nupd_init(w.cur.pg, dlgt_get_size(Cur(w))),
            !.limit = NoPage, !.state = "pivot"]

CurWritable(w) == [w EXCEPT !.cur = Writable(@)]

rptc_rebalance_move_up_stack(w) ==
  IF w.upd.isroot THEN ShrinkTo(w, w.upd.root)
  ELSE NextLayer(IF w.stack = <<>> THEN rptc_load_new_root(w)
                 ELSE CurWritable(rptc_seek_pop_into_cur(w)), w.output)

\* The pairs of the node from the position on, or up to it, are cut off; the
\* node is emptied or filled up to be written over.
CutAfter(w) == SetData(w, w.cur, in_set_len(Cur(w).data, w.lidx))
CutBefore(w) == SetData(w, w.cur, in_cut_left(Cur(w).data, w.lidx))
FillUp(w, at) == [SetData(w, w.cur, in_set_len(Cur(w).data, MaxKeys)) EXCEPT !.lidx = at]

LookRight(w) == [w EXCEPT !.limit = pgr_dlgt_get_next(w, w.cur, FALSE), !.state = "right"]
LookLeft(w) == [w EXCEPT !.limit = pgr_dlgt_get_prev(w, w.cur, FALSE), !.state = "left"]

\* The node is rewritten: the pivot, what follows it, what comes before it.
PivotRight(w, len) ==
  IF nupd_done_right(w.input) THEN FinishLayer([w EXCEPT !.lidx = len], "right", NoPage, NoPage)
  ELSE LookRight(FillUp(w, len))

PivotApplied(w, a) ==
  LET v == [w EXCEPT !.input = a.updates, !.pages[w.cur.pg].data = a.data,
                     !.lidx = MaxKeys - a.len]
  IN  IF nupd_done_left(a.updates) THEN PivotRight(CutBefore(v), a.len) ELSE LookLeft(v)

rptc_rebalance_apply_to_pivot(w) ==
  PivotApplied(
    Check(w, Cur(w).data # <<>> => w.input.pivot.pg = Cur(w).data[w.lidx + 1].pg, "another pivot"),
    nupd_append_maximally_right_then_left(nupd_observe_pivot(w.input, Cur(w).data, w.lidx),
                                          in_set_len(Cur(w).data, MaxKeys)))

\* Both sides are written: the right end of the change is its tip.
rptc_rebalance_right_to_left(w) ==
  FinishLayer(Check(w, nupd_done_left(w.input), "left side not written"),
              "right", NoPage, w.limit)

\* The left side is written.  If there is a right side, the node that holds
\* the pivot is taken up again, behind the last of its pairs.
BackToPivot(w, pivot) ==
  IF w.err # "none" \/ pivot \notin DOMAIN w.pages THEN Fail(w, "pivot page gone")
  ELSE LookRight(FillUp([w EXCEPT !.cur = Exclusive(pivot)], Len(w.pages[pivot].data)))

rptc_rebalance_left_to_right(w) ==
  IF nupd_done_right(w.input) THEN FinishLayer(w, "left", w.limit, NoPage)
  ELSE BackToPivot(IF w.cur.pg # w.output.pivot.pg THEN FinishLayer(w, "left", w.limit, NoPage)
                   ELSE [PagerRelease(w, w.limit) EXCEPT !.limit = NoPage], w.output.pivot.pg)

CommitCur(w, side) ==
  [Check(w, PrevIs(w.output, w.cur.pg), "another page unfinished")
     EXCEPT !.output = nupd_commit_1st(@, side, w.cur.pg, dlgt_get_size(Cur(w)))]

\* The page is finished, the cursor goes on with its neighbour.
GoOn(w, side, h) == [PagerRelease(CommitCur(w, side), w.cur) EXCEPT !.cur = h]

AppendRight(w, u) ==
  [w EXCEPT !.pages[w.cur.pg].data = nupd_append_maximally_right(u, @, w.lidx),
            !.lidx = @ + Len(Taken(u, "right", MaxKeys - w.lidx)),
            !.input = nupd_consume(u, "right", MaxKeys - w.lidx)]

\* Everything is observed: the rest of the list goes to new nodes.
SpillRight(w) ==
  IF nupd_done_right(w.input) THEN rptc_rebalance_right_to_left(CutAfter(w))
  ELSE FillUp(pgr_dlgt_advance_new_next(CommitCur(w, "right"), w.limit), 0)

\* The next node is observed, and overwritten when the list does not fit,
\* or deleted when all of it went into the current node.
OverwriteNext(w) ==
  LookRight(FillUp(
    IF Exists(w.limit) THEN GoOn(CutAfter(w), "right", Writable(w.limit))
    ELSE GoOn(CutAfter(pgr_dlgt_new_next_no_link(w, w.cur)), "right", Exclusive(NextPage(w))), 0))

NextMerged(w, d) ==
  [Check(d.world, PrevIs(w.output, w.cur.pg) /\ nupd_done_consuming(w.input, "right"),
         "right side not consumed")
     EXCEPT !.limit = d.next, !.output = nupd_append_2nd_right(@, w.cur.pg, 0, w.limit.pg, 0)]

MergeRight(w) ==
  IF ~nupd_done_right(w.input) /\ w.lidx > MaxKeys \div 2 THEN OverwriteNext(w)
  ELSE IF Exists(w.limit) THEN NextMerged(w, pgr_dlgt_delete_and_fill_next(w, w.cur, w.limit))
  ELSE Check(w, nupd_done_right(w.input), "right side not consumed")

ObservedRight(w) ==
  IF Exists(w.limit) THEN nupd_observe_all_right(w.input, Page(w, w.limit).data)
  ELSE ObserveEnd(w.input, "right")

rptc_rebalance_execute_right(w) ==
  IF nupd_done_observing(w.input, "right") THEN SpillRight(AppendRight(w, w.input))
  ELSE MergeRight(AppendRight(w, ObservedRight(w)))

AppendLeft(w, u) ==
  [w EXCEPT !.pages[w.cur.pg].data = nupd_append_maximally_left(u, @, w.lidx),
            !.lidx = @ - Len(Taken(u, "left", w.lidx)),
            !.input = nupd_consume(u, "left", w.lidx)]

AtEnd(w) == [w EXCEPT !.lidx = Len(Cur(w).data)]

SpillLeft(w) ==
  IF nupd_done_left(w.input) THEN rptc_rebalance_left_to_right(AtEnd(CutBefore(w)))
  ELSE FillUp(pgr_dlgt_advance_new_prev(CommitCur(w, "left"), w.limit), MaxKeys)

OverwritePrev(w) ==
  LookLeft(FillUp(
    IF Exists(w.limit) THEN GoOn(CutBefore(w), "left", Writable(w.limit))
    ELSE GoOn(CutBefore(pgr_dlgt_new_prev_no_link(w, w.cur)), "left", Exclusive(NextPage(w))),
    MaxKeys))

PrevMerged(w, d) ==
  [Check(d.world, PrevIs(w.output, w.cur.pg) /\ nupd_done_consuming(w.input, "left"),
         "left side not consumed")
     EXCEPT !.limit = d.prev, !.output = nupd_append_2nd_left(@, w.cur.pg, 0, w.limit.pg, 0)]

MergeLeft(w) ==
  IF ~nupd_done_left(w.input) /\ MaxKeys - w.lidx > MaxKeys \div 2 THEN OverwritePrev(w)
  ELSE IF Exists(w.limit) THEN PrevMerged(w, pgr_dlgt_delete_and_fill_prev(w, w.limit, w.cur))
  ELSE Check(w, nupd_done_left(w.input), "left side not consumed")

ObservedLeft(w) ==
  IF Exists(w.limit) THEN nupd_observe_all_left(w.input, Page(w, w.limit).data)
  ELSE ObserveEnd(w.input, "left")

rptc_rebalance_execute_left(w) ==
  IF nupd_done_observing(w.input, "left") THEN SpillLeft(AppendLeft(w, w.input))
  ELSE MergeLeft(AppendLeft(w, ObservedLeft(w)))

-----------------------------------------------------------------------------
(* Inserting (_insert.c): what follows the position is set aside, the new  *)
(* bytes are appended page after page, then what was set aside.            *)

rptc_seeked_to_insert(w) ==
  LET c == Cur(w).data IN
  [w EXCEPT !.cur = Writable(@),
            !.job.last = Cur(w).next,
            !.job.temp = SubSeq(c, w.lidx + 1, Len(c)),
            !.pages[w.cur.pg].data = SubSeq(c, 1, w.lidx),
            !.output = nupd_init(w.cur.pg, 0),
            !.state = "inserting"]

rptc_insert_advance(w) ==
  [GoOn(pgr_dlgt_new_next_no_link(w, w.cur), "right", Exclusive(NextPage(w))) EXCEPT !.lidx = 0]

InsertBytes(w, s) ==
  [SetData(w, w.cur, Cur(w).data \o s) EXCEPT !.lidx = @ + Len(s)]

Bug_RoomForOneMore(w) == Len(Cur(w).data) > LeafSize
LeafFull(w) == Len(Cur(w).data) = LeafSize

InsertSome(w, src, n) ==
  [InsertBytes(w, SubSeq(src, w.job.done + 1, w.job.done + n))
     EXCEPT !.total = @ + n, !.job.done = @ + n,
            !.state = IF w.job.done + n = Len(src) THEN "inserting rest" ELSE "inserting"]

InsertHere(w, src) == InsertSome(w, src, Less(LeafSize - Len(Cur(w).data), Len(src) - w.job.done))

rptc_insert_execute(w, src) ==
  InsertHere(IF LeafFull(w) THEN rptc_insert_advance(w) ELSE w, src)

AdvanceIfFull(w) == IF w.lidx = LeafSize /\ w.job.temp # <<>> THEN rptc_insert_advance(w) ELSE w

rptc_insert_execute_from_temp_buf(w) ==
  LET n == Less(LeafSize - Len(Cur(w).data), Len(w.job.temp))
  IN  AdvanceIfFull([InsertBytes(w, SubSeq(w.job.temp, 1, n))
                       EXCEPT !.job.temp = SubSeq(@, n + 1, Len(@))])

rptc_insert_to_rebalancing_or_unseeked(w) ==
  LET next == IF w.job.last # Cur(w).next THEN Exclusive(w.job.last) ELSE NoPage
  IN  FinishLayer(IF Exists(next) THEN dlgt_link(w, w.cur, next) ELSE w, "right", NoPage, next)

-----------------------------------------------------------------------------
(* Removing (_remove.c): bytes are taken or kept from the source page; the *)
(* kept ones are moved to the end of what cur has already.  The source is  *)
(* cur itself until cur has been read to its end.                          *)

Source(w) == IF Exists(w.job.src) THEN w.job.src ELSE w.cur
SrcLeft(w) == Len(Page(w, Source(w)).data) - w.job.sidx

rptc_seeked_to_remove(w, q) ==
  [w EXCEPT !.cur = Writable(@), !.job.sidx = w.lidx, !.job.bnext = q.size,
            !.output = nupd_init(w.cur.pg, Len(Cur(w).data)), !.state = "removing"]

rptc_remove_advance_cur(w) ==
  [GoOn(Check(SetData(w, w.cur, SubSeq(Cur(w).data, 1, w.lidx)), w.lidx > LeafSize \div 2,
              "page less than half full"), "right", w.job.src)
     EXCEPT !.job.src = NoPage, !.lidx = 0]

\* The source page is used up and deleted, the one after it is the next source.
SourceDropped(w, d) ==
  [Check(d.world, PrevIs(w.output, w.cur.pg), "another page unfinished")
     EXCEPT !.job.src = d.next, !.output = nupd_append_2nd_right(@, w.cur.pg, 0, w.job.src.pg, 0)]

DropSource(w) == SourceDropped(w, pgr_dlgt_delete_and_fill_next(w, w.cur, w.job.src))

TakeNext(w) == [w EXCEPT !.job.src = pgr_dlgt_get_next(w, w.cur, TRUE)]

\* The next source; at the end of the layer what is left to do is draining.
FromSource(w) ==
  IF Exists(w.job.src) THEN [w EXCEPT !.job.sidx = 0]
  ELSE [SetData(w, w.cur, SubSeq(Cur(w).data, 1, w.lidx))
          EXCEPT !.job.sidx = w.lidx, !.state = "removing rest"]

rptc_remove_advance_src(w) ==
  FromSource(IF ~Exists(w.job.src) THEN TakeNext(w)
             ELSE IF w.lidx > LeafSize \div 2 THEN TakeNext(rptc_remove_advance_cur(w))
             ELSE DropSource(w))

\* dl_dl_memmove_permissive: n bytes of the source behind what cur keeps.
Spliced(s, at, t) ==
  [i \in 1..(IF Len(s) < at + Len(t) THEN at + Len(t) ELSE Len(s)) |->
     IF i - at \in DOMAIN t THEN t[i - at] ELSE s[i]]

KeepBytes(w, n) ==
  [SetData(Check(w, ~Exists(w.job.src) => w.job.sidx > w.lidx, "moved onto itself"), w.cur,
           Spliced(Cur(w).data, w.lidx,
                   SubSeq(Page(w, Source(w)).data, w.job.sidx + 1, w.job.sidx + n)))
     EXCEPT !.lidx = @ + n, !.job.sidx = @ + n]

Bug_SkipsStride(w, q, n) ==
  IF w.job.bnext > n THEN [w EXCEPT !.job.bnext = @ - n]
  ELSE IF ~w.job.active THEN [w EXCEPT !.job.bnext = q.size, !.job.active = TRUE]
  ELSE IF q.stride = 1 THEN [w EXCEPT !.job.bnext = q.size]
  ELSE [w EXCEPT !.job.bnext = q.size * q.stride, !.job.active = FALSE]

\* The remover turns from removing to skipping and back.
Turn(w, q, n) ==
  IF w.job.bnext > n THEN [w EXCEPT !.job.bnext = @ - n]
  ELSE IF ~w.job.active THEN [w EXCEPT !.job.bnext = q.size, !.job.active = TRUE]
  ELSE IF q.stride = 1 THEN [w EXCEPT !.job.bnext = q.size]
  ELSE [w EXCEPT !.job.bnext = q.size * (q.stride - 1), !.job.active = FALSE]

Least(a, b, c) == Less(a, Less(b, c))

\* No byte can be taken or kept: the source or the page is at its end.
RemoveAdvance(w) ==
  IF SrcLeft(w) = 0 THEN rptc_remove_advance_src(w)
  ELSE Check(rptc_remove_advance_cur(w), w.lidx = LeafSize, "unreachable")

RemoveSome(w, q, n) ==
  IF n = 0 THEN RemoveAdvance(w)
  ELSE [Turn(w, q, n) EXCEPT !.job.sidx = @ + n, !.job.done = @ + n, !.total = @ - n,
                             !.state = IF w.job.done + n = q.n * q.size THEN "removing rest"
                                       ELSE "removing"]

rptc_remove_removing(w, q) ==
  RemoveSome(w, q, Least(w.job.bnext, LeafSize - w.lidx,
                         Less(SrcLeft(w), q.n * q.size - w.job.done)))

SkipSome(w, q, n) == IF n = 0 THEN RemoveAdvance(w) ELSE Turn(KeepBytes(w, n), q, n)

rptc_remove_skipping(w, q) == SkipSome(w, q, Least(w.job.bnext, LeafSize - w.lidx, SrcLeft(w)))

rptc_remove_execute(w, q) ==
  IF w.job.active THEN rptc_remove_removing(w, q) ELSE rptc_remove_skipping(w, q)

\* rptc_remove_drain_src: the rest of the source page is kept, then the
\* source is dropped.
DrainInto(w) == KeepBytes(w, Less(LeafSize - w.lidx, SrcLeft(w)))

rptc_remove_drain_src(w) ==
  IF SrcLeft(w) > 0
  THEN DrainInto(IF w.lidx = LeafSize
                 THEN Check(rptc_remove_advance_cur(w), Exists(w.job.src), "no source") ELSE w)
  ELSE LET c == SetData(w, w.cur, SubSeq(Cur(w).data, 1, w.lidx))
       IN  [IF Exists(w.job.src) THEN DropSource(c) ELSE c EXCEPT !.state = "removed"]

rptc_remove_to_rebalancing_or_unseeked(w, q) ==
  FinishLayer(Check([w EXCEPT !.job.src = NoPage], w.job.done % q.size = 0, "incomplete element"),
              "right", NoPage, w.job.src)

-----------------------------------------------------------------------------
(* ReadStep (_read.c) and overwriting (_write.c).                           *)

rptc_seeked_to_read(w, q) == [w EXCEPT !.job.bnext = q.size, !.state = "reading"]

rptc_read_next(w, q) ==
  Least(Len(Cur(w).data) - w.lidx, w.job.bnext,
        IF w.job.active THEN q.n * q.size - w.job.done ELSE w.job.bnext)

rptc_read_to_unseeked(w, q) ==
  Check(rptc_pop_all(w), w.job.done % q.size = 0, "incomplete element")

\* dl_read_into_cbuffer: what an iteration of a read or a remove delivers.
Delivered(w, v, h, at) ==
  IF w.job.active THEN SubSeq(Page(w, h).data, at + 1, at + (v.job.done - w.job.done)) ELSE <<>>

ReadSome(w, q, n, next) ==
  IF n > 0 THEN [Turn(w, q, n) EXCEPT !.lidx = @ + n,
                                      !.job.done = @ + (IF w.job.active THEN n ELSE 0)]
  ELSE IF Exists(next) THEN [w EXCEPT !.cur = next, !.lidx = 0]
  ELSE rptc_read_to_unseeked(w, q)

rptc_read_execute(w, q) ==
  IF w.job.done = q.n * q.size THEN rptc_read_to_unseeked(w, q)
  ELSE ReadSome(w, q, rptc_read_next(w, q), pgr_dlgt_get_next(w, w.cur, FALSE))

rptc_seeked_to_write(w, q) == [w EXCEPT !.job.bnext = q.size, !.state = "writing"]

\* The page is written through the handle the seek left, which is shared.
rptc_write_execute(w) == SetData(w, w.cur, Cur(w).data)

-----------------------------------------------------------------------------
(* The variable: its bytes are those of the leaves in the order of the     *)
(* tree.                                                                   *)

Children(ps, layer) ==
  FlattenSeq([i \in DOMAIN layer |->
    IF ps[layer[i]].kind = "leaf" THEN <<layer[i]>>
    ELSE [j \in DOMAIN ps[layer[i]].data |-> ps[layer[i]].data[j].pg]])

\* The layers from the root down; the leaves are repeated below the last one.
Layers(ps, r) ==
  LET layer[k \in 0..StackSize] ==
        IF k = 0 THEN IF r = Null THEN <<>> ELSE <<r>> ELSE Children(ps, layer[k - 1])
  IN  layer

Leaves(ps, r) == Layers(ps, r)[StackSize]

BytesOf(ps, r) == FlattenSeq([i \in DOMAIN Leaves(ps, r) |-> ps[Leaves(ps, r)[i]].data])

-----------------------------------------------------------------------------
(* The driver (nsfslite.c): open a cursor, seek, work, rebalance, answer.  *)

\* rptc_new and rptc_open: a variable without a root.
TreeInit ==
  /\ pages = <<>> /\ free = <<>> /\ top = 0 /\ metaRoot = Null
  /\ root = Null /\ total = 0 /\ state = "idle" /\ cur = NoPage /\ lidx = 0
  /\ stack = <<>> /\ limit = NoPage
  /\ input = nupd_init(Null, 0) /\ output = nupd_init(Null, 0)
  /\ job = NoJob /\ upd = [isroot |-> FALSE, root |-> Null] /\ err = "none"
  /\ request = NoRequest /\ answer = <<>> /\ bytes = <<>>

Submit(q) ==
  /\ state = "idle"
  /\ WholeElements(q, Len(bytes))
  /\ request' = q
  /\ answer' = <<>>
  /\ state' = "opening"
  /\ UNCHANGED <<pages, free, top, metaRoot, root, total, cur, lidx, stack, limit,
                 input, output, job, upd, err, bytes>>

Quiet == UNCHANGED <<request, answer, bytes>>

\* rptc_open reads the root from the variable's RPT_ROOT page.
rptc_open(w) ==
  LET w0 == [w EXCEPT !.root = w.metaRoot, !.state = "starting",
                      !.total = IF w.metaRoot = Null THEN 0
                                ELSE dlgt_get_size(w.pages[w.metaRoot])]
  IN  IF ~Nsfslite THEN [w EXCEPT !.state = "starting"]
      ELSE IF w.metaRoot \notin DOMAIN w.pages \cup {Null} THEN Fail(w, "no page there")
      ELSE w0

Open == state = "opening" /\ Becomes(rptc_open(World)) /\ Quiet

StartSeek == state = "starting" /\ Becomes(rptc_start_seek(World, request)) /\ Quiet

Seek == state = "seeking" /\ Becomes(rptc_seeking_execute(World)) /\ Quiet

\* Without a root the seek leaves no page, which nobody tests.
Seeked(op, next) ==
  /\ state = "seeked"
  /\ request.op = op
  /\ Becomes(IF Exists(cur) THEN next ELSE Fail(World, "no page"))
  /\ Quiet

SeekedToInsert == Seeked("insert", rptc_seeked_to_insert(World))
SeekedToRemove == Seeked("remove", rptc_seeked_to_remove(World, request))
SeekedToRead == Seeked("read", rptc_seeked_to_read(World, request))
SeekedToWrite == Seeked("write", rptc_seeked_to_write(World, request))

Inserting == state = "inserting" /\ Becomes(rptc_insert_execute(World, Payload(request))) /\ Quiet

InsertRest ==
  /\ state = "inserting rest"
  /\ Becomes(IF job.temp # <<>> THEN rptc_insert_execute_from_temp_buf(World)
             ELSE rptc_insert_to_rebalancing_or_unseeked(World))
  /\ Quiet

Removing ==
  /\ state = "removing"
  /\ LET w == rptc_remove_execute(World, request)
     IN  /\ Becomes(w)
         /\ answer' = answer \o Delivered(World, w, Source(World), job.sidx)
  /\ UNCHANGED <<request, bytes>>

RemoveRest == state = "removing rest" /\ Becomes(rptc_remove_drain_src(World)) /\ Quiet

Removed ==
  /\ state = "removed"
  /\ Becomes(rptc_remove_to_rebalancing_or_unseeked(World, request))
  /\ Quiet

MoveUpStack == state = "moving up" /\ Becomes(rptc_rebalance_move_up_stack(World)) /\ Quiet

ApplyToPivot == state = "pivot" /\ Becomes(rptc_rebalance_apply_to_pivot(World)) /\ Quiet

\* nsfslite_remove calls rptc_remove_to_rebalancing_or_unseeked here instead.
Rebalance(side, next) ==
  /\ state = side
  /\ Becomes(IF Nsfslite /\ request.op = "remove" THEN Fail(World, "not removing") ELSE next)
  /\ Quiet

RebalanceRight == Rebalance("right", rptc_rebalance_execute_right(World))
RebalanceLeft == Rebalance("left", rptc_rebalance_execute_left(World))

ReadStep ==
  /\ state = "reading"
  /\ LET w == rptc_read_execute(World, request)
     IN  /\ Becomes(w)
         /\ answer' = answer \o Delivered(World, w, cur, lidx)
  /\ UNCHANGED <<request, bytes>>

Writing == state = "writing" /\ Becomes(rptc_write_execute(World)) /\ Quiet

Finish ==
  /\ state = "done"
  /\ state' = "idle"
  /\ request' = NoRequest
  /\ bytes' = BytesOf(pages, root)
  /\ UNCHANGED <<pages, free, top, metaRoot, root, total, cur, lidx, stack, limit,
                 input, output, job, upd, err, answer>>

TreeStep ==
  \/ Open \/ StartSeek \/ Seek
  \/ SeekedToInsert \/ SeekedToRemove \/ SeekedToRead \/ SeekedToWrite
  \/ Inserting \/ InsertRest \/ Removing \/ RemoveRest \/ Removed \/ ReadStep \/ Writing
  \/ MoveUpStack \/ ApplyToPivot \/ RebalanceRight \/ RebalanceLeft
  \/ Finish

TreeNext == TreeStep \/ \E q \in Requests : Submit(q)

TreeSpec == TreeInit /\ [][TreeNext]_treeVars

-----------------------------------------------------------------------------
(* Properties.                                                             *)

Idle == state = "idle"

PageType(page) ==
  /\ page.kind \in {"leaf", "inner"}
  /\ page.prev \in Nat /\ page.next \in Nat
  /\ Len(page.data) <= dlgt_get_max_len(page.kind)

TreeTypeOK ==
  /\ \A p \in DOMAIN pages : p \in 1..top /\ PageType(pages[p])
  /\ {free[i] : i \in DOMAIN free} = 1..top \ DOMAIN pages
  /\ Len(stack) <= StackSize
  /\ (state = "crashed") = (err # "none")
  /\ Idle => request = NoRequest /\ stack = <<>> /\ cur = NoPage /\ limit = NoPage

\* Between two requests every layer of the tree is a doubly linked list in the
\* order of the layer above, of pages that are full enough, each counted there
\* with the bytes it holds, and no page of the file belongs to no layer: what
\* rptc_validate walks the tree for, and what splits, merges, borrowing and the
\* growth and shrinking of the tree have to preserve on every level.
LayerValid(layer) ==
  \A i \in DOMAIN layer :
    /\ layer[i] \in DOMAIN pages
    /\ pages[layer[i]].kind = pages[layer[1]].kind
    /\ pages[layer[i]].prev = IF i = 1 THEN Null ELSE layer[i - 1]
    /\ pages[layer[i]].next = IF i = Len(layer) THEN Null ELSE layer[i + 1]
    /\ page_validate_for_db(pages[layer[i]])
    /\ pages[layer[i]].kind = "inner" =>
         \A pair \in Range(pages[layer[i]].data) :
           pair.key > 0 /\ pair.key = dlgt_get_size(pages[pair.pg])

TreeValid ==
  Idle => /\ \A k \in 0..StackSize : LayerValid(Layers(pages, root)[k])
          /\ DOMAIN pages = UNION {Range(Layers(pages, root)[k]) : k \in 0..StackSize}
          /\ total = Len(bytes)

\* The assertions of the cursor hold and every page it writes it holds
\* exclusively, except where the code is known not to: overwriting; reading and
\* removing in a variable that has no page; and an insert of more pages than the
\* lists of node updates have room for (no bound is checked before the append).
KnownCrash ==
  \/ request.op = "write"
  \/ /\ err = "too many updates"
     /\ request.op = "insert"
     /\ request.n * request.size > LeafSize * (NupdSize + 5 * MaxKeys)
  \/ bytes = <<>> /\ request.op \in {"read", "remove"}

NoOtherCrash == err # "none" => KnownCrash

\* What the cursor does is what the array in memory does: a request takes
\* effect as one step, its answer is that of the array, and whatever the pages
\* look like meanwhile no byte is lost, moved or made up.
Array == INSTANCE ByteArray WITH answer <- IF Idle THEN answer ELSE <<>>

ImplementsByteArray == Array!ArraySpec
=============================================================================
