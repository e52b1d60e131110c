------------------------------ MODULE BufferPool ------------------------------
(***************************************************************************)
(* The pages of the pager: frames with pins, a clock that finds victims,   *)
(* the copy a page is written in before it is saved, and the list of free  *)
(* pages (tombstones) that starts in the root page and ends where the file *)
(* ends.  One client at a time (the pager is called under one mutex) works *)
(* with several handles; the pool may be full, extending the file may      *)
(* fail, and the process may die between any two calls.                    *)
(*                                                                         *)
(* The log is what a crash leaves of it: the updates since the last        *)
(* commit, of which a crash keeps a prefix.  A restart either undoes them  *)
(* or leaves them (see Aries for why both happen), so committed, the pages *)
(* as of the last commit or restart, is all that is needed of the rest.    *)
(*                                                                         *)
(* Sources: src/libs/nspager/pager.c, file_pager.c, and the accessors of   *)
(* root_node.h and tombstone.h.                                            *)
(***************************************************************************)
EXTENDS Integers, Sequences, FiniteSets, FiniteSetsExt

CONSTANTS
  NFrames,      \* MEMORY_PAGE_LEN
  Handles,      \* the handles a client may hold at a time
  MaxPages,     \* bound on the length of the file
  MaxRecords,   \* bound on the updates of a transaction
  MaxBufFails   \* bound on failures of fpgr_new and on crashes

\* The handle on the root page that pgr_new and pgr_delete_and_release have.
RootHandle == "root"

ASSUME BufAssumption ==
  /\ NFrames \in Nat \ {0}
  /\ IsFiniteSet(Handles) /\ RootHandle \notin Handles
  /\ MaxPages \in Nat /\ MaxRecords \in Nat /\ MaxBufFails \in Nat

VARIABLES
  frames,   \* p->pages
  table,    \* p->pgno_to_value: from page number to frame
  clock,    \* p->clock
  store,    \* the database file; its length is fpgr_get_npages
  records,  \* the updates logged since the last commit
  safe,     \* how many of them are flushed
  committed,  \* the pages as of the last commit or restart
  handles,  \* the client's page handles
  outcome,  \* what the last call came to
  bufFails, \* how many failures there were
  leaks     \* pins on the root page that calls left behind

bufVars == <<frames, table, clock, store, records, safe, committed, handles,
              outcome, bufFails, leaks>>

-----------------------------------------------------------------------------
(* Pages.  Page 0 is the root, which holds the first tombstone; a          *)
(* tombstone holds the next one; a page the file was extended by and       *)
(* nobody wrote is zero.                                                   *)

Frames == 0..(NFrames - 1)
None == -1
Content(kind, val) == [kind |-> kind, val |-> val]
Zero == Content("zero", 0)
Tombstone(next) == Content("tombstone", next)
Root(first) == Content("root", first)
Data(val) == Content("data", val)

\* What a frame that is not present still holds is never read.
Empty == [present |-> FALSE, access |-> FALSE, dirty |-> FALSE, pin |-> 0,
          wsibling |-> None, pg |-> 0, page |-> Zero]

NoHandle == [mode |-> "none", r |-> None, w |-> None]

Buf ==
  [frames |-> frames, table |-> table, clock |-> clock, store |-> store,
   records |-> records, safe |-> safe, handles |-> handles, outcome |-> "ok",
   leaks |-> leaks]

BufBecomes(p) ==
  /\ frames' = p.frames /\ table' = p.table /\ clock' = p.clock /\ store' = p.store
  /\ records' = p.records /\ safe' = p.safe /\ handles' = p.handles
  /\ outcome' = p.outcome /\ leaks' = p.leaks

npages(p) == Cardinality(DOMAIN p.store)
Next1(i) == (i + 1) % NFrames
Failed(p) == p.outcome # "ok"

-----------------------------------------------------------------------------
(* pgr_reserve_at_clock_thread_unsafe: two rounds of the clock.  A frame   *)
(* that is not present is taken; a pinned one is passed; one that was      *)
(* accessed is spared in the first round; any other is evicted.            *)

At(p, k) == (p.clock + k) % NFrames
Bug_IgnoresPin(p, i) == p.frames[i].present
Unpinned(p, i) == p.frames[i].present /\ p.frames[i].pin = 0

Stops(p) ==
  {k \in 0..(2 * NFrames - 1) :
     \/ ~p.frames[At(p, k)].present
     \/ /\ Unpinned(p, At(p, k))
        /\ (k >= NFrames \/ ~p.frames[At(p, k)].access)}

Bug_WritesNothing(p, i) ==
  [p EXCEPT !.table = [q \in DOMAIN @ \ {p.frames[i].pg} |-> @[q]], !.frames[i] = Empty]

\* pgr_evict: the log is flushed before a dirty page is written.
pgr_evict(p, i) ==
  LET f == p.frames[i]
  IN  [p EXCEPT !.safe = IF f.dirty THEN Len(p.records) ELSE @,
                !.store = IF f.dirty THEN [@ EXCEPT ![f.pg] = f.page] ELSE @,
                !.table = [q \in DOMAIN @ \ {f.pg} |-> @[q]],
                !.frames[i] = Empty]

\* The unpinned frames the clock passed are no longer spared.
Turned(p, passed) ==
  [p EXCEPT !.frames = [i \in Frames |->
     IF i \in passed /\ Unpinned(p, i) THEN [@[i] EXCEPT !.access = FALSE] ELSE @[i]]]

Vacated(p) == IF p.frames[p.clock].present THEN pgr_evict(p, p.clock) ELSE p

\* The clock points to the frame that was reserved.
ReserveFirst(p, stops) ==
  IF stops = {} THEN [Turned(p, Frames) EXCEPT !.outcome = "full"]
  ELSE Vacated([Turned(p, {At(p, j) : j \in 0..(Min(stops) - 1)})
                  EXCEPT !.clock = At(p, Min(stops))])

pgr_reserve(p) == ReserveFirst(p, Stops(p))

\* The reserved frame is filled and pinned.
Fill(p, i, f) == [p EXCEPT !.frames[i] = [Empty EXCEPT !.present = TRUE, !.pin = f.pin,
                                            !.access = f.access, !.pg = f.pg, !.page = f.page]]

-----------------------------------------------------------------------------
(* Handles.                                                                *)

Readable(p, h) == p.frames[p.handles[h].r]
PageOf(p, h) == Readable(p, h).page
Copy(p, h) == p.frames[p.handles[h].w].page

SHandle(i) == [mode |-> "S", r |-> i, w |-> None]
XHandle(i, j) == [mode |-> "X", r |-> i, w |-> j]
Enter(tab, pg, i) == [q \in DOMAIN tab \cup {pg} |-> IF q = pg THEN i ELSE tab[q]]

\* The page is in a frame: nobody may be writing it.
Hit(p, h, kinds, i) ==
  IF p.frames[i].wsibling # None THEN [p EXCEPT !.outcome = "would block"]
  ELSE IF p.frames[i].page.kind \notin kinds THEN [p EXCEPT !.outcome = "invalid page"]
  ELSE [p EXCEPT !.frames[i].pin = @ + 1, !.handles[h] = SHandle(i)]

\* The page is read into the frame that was reserved, if one was.
Miss(p, h, kinds, pg) ==
  IF Failed(p) THEN p
  ELSE IF pg >= npages(p) THEN [p EXCEPT !.outcome = "out of range"]
  ELSE IF p.store[pg].kind \notin kinds THEN [p EXCEPT !.outcome = "corrupt"]
  ELSE [Fill(p, p.clock, [pin |-> 1, access |-> TRUE, pg |-> pg, page |-> p.store[pg]])
          EXCEPT !.table = Enter(@, pg, p.clock), !.handles[h] = SHandle(p.clock),
                 !.clock = Next1(@)]

pgr_get(p, h, kinds, pg) ==
  IF pg \in DOMAIN p.table THEN Hit(p, h, kinds, p.table[pg])
  ELSE Miss(pgr_reserve(p), h, kinds, pg)

\* The page of frame r is copied into the frame that was reserved, if one was.
CopyOf(p, h, r) ==
  IF Failed(p) THEN p
  ELSE [Fill(p, p.clock, [pin |-> 2, access |-> FALSE, pg |-> p.frames[r].pg,
                          page |-> p.frames[r].page])
          EXCEPT !.frames[r].dirty = TRUE, !.frames[r].wsibling = p.clock,
                 !.handles[h] = XHandle(r, p.clock), !.clock = Next1(@)]

pgr_make_writable(p, h) == CopyOf(pgr_reserve(p), h, p.handles[h].r)

Bug_SiblingStays(p, h) ==
  [p EXCEPT !.frames[p.handles[h].w] = Empty, !.handles[h].mode = "S", !.handles[h].w = None]

\* The copy's frame is given back; whatever pins it had mean nothing now.
DropCopy(p, h) ==
  [p EXCEPT !.frames[p.handles[h].w] = Empty,
            !.frames[p.handles[h].r].wsibling = None,
            !.handles[h].mode = "S", !.handles[h].w = None]

pgr_save(p, h) ==
  DropCopy([p EXCEPT !.records = Append(@, [pg |-> Readable(p, h).pg, undo |-> PageOf(p, h),
                                            redo |-> Copy(p, h)]),
                     !.frames[p.handles[h].r].page = Copy(p, h)], h)

pgr_cancel_w(p, h) == DropCopy(p, h)

Bug_SavesOnly(p, h) ==
  [IF p.handles[h].mode = "X" THEN pgr_save(p, h) ELSE p EXCEPT !.handles[h] = NoHandle]

pgr_release(p, h) ==
  [IF p.handles[h].mode = "X" THEN pgr_save(p, h) ELSE p
     EXCEPT !.frames[p.handles[h].r].pin = @ - 1, !.handles[h] = NoHandle]

SetCopy(p, h, page) == [p EXCEPT !.frames[p.handles[h].w].page = page]

-----------------------------------------------------------------------------
(* New pages.                                                              *)

\* Without a page of its own a call gives back what it holds of the root page.
GiveBackRoot(p) ==
  pgr_release(IF p.handles[RootHandle].mode = "X" THEN pgr_cancel_w(p, RootHandle) ELSE p,
              RootHandle)

Drop(p, i) == [p EXCEPT !.frames[i] = Empty]

\* The frame i holds the page behind the end of the file, the frame reserved
\* last its copy; then the file grows.
ExtendFile(p, h, i, extends) ==
  IF Failed(p) THEN Drop(p, i)
  ELSE IF ~extends THEN [Drop(p, i) EXCEPT !.outcome = "io"]
  ELSE [Fill(p, p.clock, [pin |-> 1, access |-> FALSE, pg |-> npages(p),
                          page |-> p.frames[i].page])
          EXCEPT !.store = [q \in DOMAIN @ \cup {npages(p)} |-> IF q = npages(p) THEN Zero ELSE @[q]],
                 !.frames[i].dirty = TRUE, !.frames[i].wsibling = p.clock,
                 !.table = Enter(@, npages(p), i), !.handles[h] = XHandle(i, p.clock)]

\* pgr_new_extend takes two frames, one after the other.
ExtendIn(p, h, extends) ==
  IF Failed(p) THEN p
  ELSE ExtendFile(pgr_reserve(Fill(p, p.clock, [pin |-> 1, access |-> TRUE, pg |-> npages(p),
                                                page |-> Tombstone(npages(p) + 1)])),
                  h, p.clock, extends)

pgr_new_extend(p, h, extends) == ExtendIn(pgr_reserve(p), h, extends)

\* pgr_get_writable gives the page back when there is no frame for the copy.
Upgrade(p, h) == IF Failed(p) THEN p ELSE pgr_make_writable(p, h)
GiveBackIfFailed(p, h) == IF Failed(p) /\ p.handles[h].mode = "S" THEN pgr_release(p, h) ELSE p

pgr_get_writable(p, h, kinds, pg) ==
  GiveBackIfFailed(Upgrade(pgr_get(p, h, kinds, pg), h), h)

\* What the root page says when the page behind h is taken off the list.
Bug_KeepsFirst(p, h) == Root(Readable(p, h).pg)
RootAfter(p, h) == Root(PageOf(p, h).val)

\* The first tombstone is taken, or the file grows.
TakeFirst(p, h, first, extends) ==
  IF first < npages(p) THEN pgr_get_writable(p, h, {"tombstone"}, first)
  ELSE pgr_new_extend(p, h, extends)

\* The root page is saved with the next one, the new page when it is released.
NewTaken(p, h) ==
  IF Failed(p) THEN GiveBackRoot(p)
  ELSE SetCopy(pgr_release(SetCopy(p, RootHandle, RootAfter(p, h)), RootHandle), h, Data(0))

NewUnderRoot(p, h, extends) ==
  IF Failed(p) THEN GiveBackIfFailed(p, RootHandle)
  ELSE NewTaken(TakeFirst(p, h, PageOf(p, RootHandle).val, extends), h)

pgr_new(p, h, extends) == NewUnderRoot(Upgrade(pgr_get(p, RootHandle, {"root"}, 0), RootHandle), h, extends)

\* The tombstone a deleted page becomes, in front of those in the root page.
Bug_ForgetsRest(p) == Tombstone(npages(p))
TombstoneBefore(p) == Tombstone(PageOf(p, RootHandle).val)

DeleteWritable(p, h, pg) ==
  IF Failed(p) THEN GiveBackRoot(p)
  ELSE pgr_release(SetCopy(pgr_release(SetCopy(p, h, TombstoneBefore(p)), h),
                           RootHandle, Root(pg)), RootHandle)

\* When there is no frame for a copy of the root page the call returns at once,
\* and its pin on that page stays for ever.
DeleteUnderRoot(p, h) ==
  IF Failed(p)
  THEN IF p.handles[RootHandle].mode = "none" THEN p
       ELSE [p EXCEPT !.leaks = @ + 1, !.handles[RootHandle] = NoHandle]
  ELSE DeleteWritable(IF p.handles[h].mode = "S" THEN pgr_make_writable(p, h) ELSE p,
                      h, Readable(p, h).pg)

\* The page becomes the first tombstone.
pgr_delete_and_release(p, h) ==
  DeleteUnderRoot(Upgrade(pgr_get(p, RootHandle, {"root"}, 0), RootHandle), h)

-----------------------------------------------------------------------------
(* The client and the failures.                                            *)

\* The page as the pager serves it.
Served(pg) == IF pg \in DOMAIN table THEN frames[table[pg]].page ELSE store[pg]

BufInit ==
  /\ frames = [i \in Frames |-> Empty] /\ table = <<>> /\ clock = 0
  /\ store = [q \in {0} |-> Root(1)] /\ records = <<>> /\ safe = 0
  /\ committed = [q \in {0} |-> Root(1)]
  /\ handles = [h \in Handles \cup {RootHandle} |-> NoHandle]
  /\ outcome = "ok" /\ bufFails = 0 /\ leaks = 0

Keep == UNCHANGED <<committed, bufFails>>

HeldX(pg) == \E h \in Handles : handles[h].mode = "X" /\ frames[handles[h].r].pg = pg
Held(h) == handles[h].mode # "none"
HeldTwice(h) == \E g \in Handles \ {h} : Held(g) /\ handles[g].r = handles[h].r

Get(h, pg) ==
  /\ ~Held(h) /\ pg \in DOMAIN store /\ Served(pg).kind = "data" /\ ~HeldX(pg)
  /\ BufBecomes(pgr_get(Buf, h, {"data"}, pg))
  /\ Keep

\* Every writer will log a record when it releases its page.
Writers == {h \in Handles : handles[h].mode = "X"}
CanLog(h, n) == Len(records) + Cardinality(Writers \ {h}) + n <= MaxRecords

MakeWritable(h) ==
  /\ handles[h].mode = "S" /\ ~HeldTwice(h) /\ CanLog(h, 1)
  /\ BufBecomes(pgr_make_writable(Buf, h))
  /\ Keep

WritePage(h) ==
  /\ handles[h].mode = "X"
  /\ BufBecomes(SetCopy(Buf, h, Data(1 - Copy(Buf, h).val)))
  /\ Keep

Release(h) ==
  /\ Held(h)
  /\ BufBecomes(pgr_release(Buf, h))
  /\ Keep

NewPage(h, extends) ==
  /\ ~Held(h) /\ CanLog(h, 2) /\ Cardinality(DOMAIN store) < MaxPages
  /\ extends \/ bufFails < MaxBufFails
  /\ BufBecomes(pgr_new(Buf, h, extends))
  /\ bufFails' = IF outcome' = "io" THEN bufFails + 1 ELSE bufFails
  /\ UNCHANGED committed

DeletePage(h) ==
  /\ Held(h) /\ ~HeldTwice(h) /\ CanLog(h, 2)
  /\ BufBecomes(pgr_delete_and_release(Buf, h))
  /\ Keep

\* pgr_commit flushes the log.
Commit ==
  /\ \A h \in Handles : ~Held(h)
  /\ committed' = [pg \in DOMAIN store |-> Served(pg)]
  /\ records' = <<>> /\ safe' = 0
  /\ UNCHANGED <<frames, table, clock, store, handles, outcome, bufFails, leaks>>

\* The process dies, with n of the records in the log, and the database is
\* opened again; losers are undone or not.
KeptOf(n, pg) == {k \in 1..n : records[k].pg = pg}
Before(pg) == IF pg \in DOMAIN committed THEN committed[pg] ELSE Zero

Recovered(n, undo, pg) ==
  IF KeptOf(n, pg) = {} THEN Before(pg)
  ELSE IF undo THEN records[CHOOSE k \in KeptOf(n, pg) : \A j \in KeptOf(n, pg) : k <= j].undo
  ELSE records[CHOOSE k \in KeptOf(n, pg) : \A j \in KeptOf(n, pg) : j <= k].redo

BufCrash(n, undo) ==
  /\ bufFails < MaxBufFails /\ bufFails' = bufFails + 1
  /\ n \in safe..Len(records)
  /\ committed' = [pg \in DOMAIN store |-> Recovered(n, undo, pg)]
  /\ store' = committed'
  /\ frames' = [i \in Frames |-> Empty] /\ table' = <<>> /\ clock' = 0
  /\ records' = <<>> /\ safe' = 0
  /\ handles' = [h \in Handles \cup {RootHandle} |-> NoHandle]
  /\ outcome' = "crashed" /\ leaks' = 0

BufNext ==
  \/ \E h \in Handles :
       \/ \E pg \in 1..(MaxPages - 1) : Get(h, pg)
       \/ MakeWritable(h) \/ WritePage(h) \/ Release(h) \/ DeletePage(h)
       \/ \E extends \in BOOLEAN : NewPage(h, extends)
  \/ Commit
  \/ \E n \in 0..MaxRecords, undo \in BOOLEAN : BufCrash(n, undo)

BufSpec == BufInit /\ [][BufNext]_bufVars

-----------------------------------------------------------------------------
(* Properties.                                                             *)

BufTypeOK ==
  /\ \A i \in Frames : frames[i].pin \in Nat /\ frames[i].wsibling \in Frames \cup {None}
  /\ DOMAIN table \subseteq DOMAIN store
  /\ DOMAIN store = 0..(Cardinality(DOMAIN store) - 1)
  /\ safe \in 0..Len(records)

\* No call meets a page it would have to wait for, or of the wrong kind, but
\* for the first page a crash left at the end of the file.
CallsSucceed == outcome \in {"ok", "full", "io", "crashed"} \/ (bufFails > 0 /\ outcome = "corrupt")

\* A page is in one frame at most, which the table finds; the other frames in
\* use are the copies of pages that are being written, one for each.
Copies == {frames[i].wsibling : i \in Frames} \ {None}
FramesFound ==
  /\ \A pg \in DOMAIN table : frames[table[pg]].present /\ frames[table[pg]].pg = pg
  /\ \A i \in Frames : frames[i].present =>
       \/ frames[i].pg \in DOMAIN table /\ table[frames[i].pg] = i /\ i \notin Copies
       \/ /\ i \in Copies
          /\ Cardinality({j \in Frames : frames[j].wsibling = i /\ frames[j].present}) = 1
          /\ \E h \in Handles : handles[h].mode = "X" /\ handles[h].w = i

\* A frame is pinned as often as there are handles on its page, so that it is
\* evicted when and only when nobody uses it; the frame of the root page also once
\* for every call of pgr_delete_and_release that found no frame for its copy, and
\* after the first of those it is never evicted again.
PinsLeft(pg) == IF pg = 0 THEN leaks ELSE 0
PinsAreHandles ==
  /\ \A pg \in DOMAIN table :
       frames[table[pg]].pin = PinsLeft(pg) + Cardinality({h \in Handles : Held(h) /\ handles[h].r = table[pg]})
  /\ leaks > 0 => 0 \in DOMAIN table

\* Every frame is free, found, or the copy of a found one, and but for that of the
\* root page free to be taken as soon as its users are gone, whatever failed on
\* the way.
FramesAccounted == FramesFound /\ PinsAreHandles

\* Whatever was evicted, read back or copied, a page is served as it was saved
\* last: the last record of it, or what the last commit or restart left.
LastSaved(pg) ==
  LET mine == KeptOf(Len(records), pg)
  IN  IF mine = {} THEN Before(pg) ELSE records[CHOOSE k \in mine : \A j \in mine : j <= k].redo
ServesLastSave ==
  \A pg \in DOMAIN store :
    Served(pg) = LastSaved(pg) \/ (LastSaved(pg) = Zero /\ HeldX(pg))

\* A call for a page is served, and with what was saved last (pgr_get, pgr_new).
PagesServed == CallsSucceed /\ ServesLastSave

\* The list of free pages: from the root page over tombstones to the end of
\* the file.
NextFree(pg) ==
  IF pg \in DOMAIN store /\ Served(pg).kind = "tombstone" THEN Served(pg).val ELSE pg
FreeList[k \in 0..MaxPages] == IF k = 0 THEN Served(0).val ELSE NextFree(FreeList[k - 1])

OnFreeList == {FreeList[k] : k \in 0..MaxPages} \cap DOMAIN store

\* No page that is in use is ever on the list of free pages, so pgr_new never
\* hands out a page a second time, whatever failed and wherever it crashed.
UsedNotFree ==
  \A pg \in OnFreeList : Served(pg).kind \in {"tombstone", "zero"} /\ ~HeldX(pg)

\* Without failures no page is lost: what is not in use is on the list, and
\* the list ends at the end of the file.
NoPageLost ==
  bufFails = 0 =>
    /\ \A pg \in DOMAIN store \ {0} : Served(pg).kind = "data" \/ HeldX(pg) \/ pg \in OnFreeList
    /\ FreeList[MaxPages] = Cardinality(DOMAIN store)

\* The list of free pages is a partition of the file with the pages in use.
FreeListExact == UsedNotFree /\ NoPageLost
=============================================================================
