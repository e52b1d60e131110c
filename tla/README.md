# NumStore in TLA+

Specifications, model-checking configurations and proofs for NumStore, a
database for arrays of bytes written in C: a pager with a write-ahead log and
ARIES-style restart (`libs/nspager`), the primitives it is built on
(`libs/nscore`), R+tree cursors over it (`libs/cursors`), a C API (`libs/apps`)
and a compiler for a small query language (`libs/nscompiler`).  Paths below are
relative to `src/`.

`PROJECT.json` lists the components, the runs of TLC, for every definition that
models code the lines it stands for, the hazards of this code that the
properties are aimed at, mutants (plausible bugs each property is known to
catch), the disagreements between code and documentation that the runs show,
and the theorems.

    tlc -workers 2 -config AriesRecovery.cfg MCAries     # a run
    tlapm WalProofs.tla                                  # a proof module

## 1. Inventory

| Component | Source (`libs/...`) | State | Operations | Modelled by |
|---|---|---|---|---|
| Transactions, logging, restart | `nspager/pager.c`, `txn*.c`, `dirty_page_table.c` | log, pages in memory and file, dirty page table, transaction table, next id | begin, get writable, save, commit, rollback, checkpoint, evict, flush, close, open with analysis, redo and undo | `Aries`; the two tables slot by slot: `DirtyTable`, `TxnTable` |
| Buffer pool | `nspager/pager.c` | frames with pin, flags, write sibling; clock; page table | get, release, make writable, save, cancel, reserve, evict | `BufferPool` (one client at a time) |
| Page allocation | `tombstone.c`, `root_node.c`, `file_pager.c` | list of deleted pages from the root page; length of the file | new, delete, extend | `BufferPool` |
| Log stream | `wal.c`, `wal_file.c`, `wal_ostream.c`, `wal_istream.c` | file, ring buffer, flushed LSN, latches | append a record field by field, flush, read, cut a torn tail | `WalStream` |
| Latch | `nscore/spx_latch.c` | one word: pending bit, count | lock/unlock S and X, upgrade, downgrade | `SpxLatch` |
| Granular lock | `nscore/gr_lock.c` | holders per mode, list of waiters | lock, trylock, unlock | `GrLock` |
| Thread pool | `nscore/threadpool.c` | ring of tasks, three counts, stop flag | add, spin, stop, free, the workers | `ThreadPool` |
| Promise | `nscore/promise.*` | flag, condition | await, signal | not modelled: nothing calls it |
| Allocators | `clock_allocator.c`, `chunk_alloc.c`, `lalloc.c` | free bits, chunks, offsets | alloc, free | the clock allocator inside `DirtyTable`; the others not |
| Buffers | `cbuffer.c`, `dbl_buffer.c` | ring with head, tail and a flag; growing array | read, write, file transfers in halves | `CBuffer`; the array inside `TxnTable` |
| Hash tables | `robin_hood_ht.h`, `adptv_hash_table.c`, `hash_table.c` | slots; two tables during a rehash | insert, look up, delete | `DirtyTable`, `TxnTable` |
| File transfers | `nscore/intf/os_posix.c` | file, what is left of a buffer or vector | read and write loops | `FileIO` |
| R+tree and its pages | `cursors/nsrptcursor/*`, `data_list.c`, `inner_node.c`, `rpt_root.c`, `pager_routines.c` | tree of pages with byte counts; cursor state machine | seek, read, write, insert, remove, rebalance | `RptPages`, `NodeUpdates`, `RptCursor`; promises: `ByteArray` |
| Variables | `var_*.c`, `nsvcursor/var_cursor.c` | hash page, chains of variable pages | new, get, delete | `Variables`; promises: `NameTable` |
| nsfslite | `apps/nsfslite/nsfslite.c` | global mutex, cursors, shared error | ten calls, each with its error paths | `NsfsApi` |
| Lock table | `apps/nsfslite/lock_table.c` | locks by object and by transaction | lock, unlock | not modelled: only init and destroy are called |
| Scanner | `nscompiler/scanner.c` | two rings, word under way, state | execute, in pieces of any size | `Scanner` |
| Types | `nstypes/*` | builders, stored bytes | build, validate, store, read back | `Types` |
| Parser, literals | `nscompiler/compiler.c`, `literal*.c`, `expression.c` | - | - | not modelled, see 7 |
| OS ports, errors, serialisation, tools | rest of `nscore`, `nsusecase`, wrappers | - | wrappers and conversions | not modelled |

How they interact: an API call takes the global mutex `dblock`, begins a
transaction if it was given none, and drives a cursor.  The cursor gets pages
from the buffer pool; a page that it made writable is copied, and when it is
released `pgr_save` appends an update record to the log stream (under the latch
of `struct wal` and that of the stream), stamps the page with the record's LSN,
and enters it in the dirty page table.  Evicting a dirty frame flushes the log
first.  Commit appends and flushes.  All tables are guarded by spin latches;
granular locks and the thread pool are there for clients.  The compiler is not
yet connected to the database: its scanner is, to its parser, by a ring.

What is hard here, and what correctness means:

* **Crashes.**  A crash may come between any two writes.  The log must be ahead
  of the pages, redo must repeat history whatever is on the disk, a committed
  transaction stays, one that did not commit goes, and a crash in the restart
  changes none of that.
* **Checkpoints** run beside transactions and copy tables that change.
* **The log's bytes** pass through a buffer that overflows inside records while
  another thread flushes it, and a crash tears the last write.
* **Latches and locks** are hand-made: lost holds, a writer beside readers,
  lost wake-ups, starvation, self-deadlock.
* **Failure paths**: errors in the middle of commit, rollback, page creation.
* **The tree**: byte counts kept on every level through splits and merges.
* **Hand-made containers**: a robin hood table, a chained table that rehashes a
  few nodes per call, ring buffers with one flag for full and empty.
* **Input cut anywhere**: a scanner that stops after any character, file
  transfers that stop after any byte, a stored type of which a prefix is left.

## 2. Plan

Done, in this order: `Aries` with `PrefixStore`; the primitives; `WalStream`;
`BufferPool`; the tree and `Variables`; the structures under the pager; the
front (`Scanner`, `Types`, `NsfsApi`); and beside each the proofs of section 5.

To do, as far as the tools reach:

* proofs about the tree (`RptCursor`) and the two tables;
* two threads inside the pager (`pgr_get`, `pgr_new_extend`), which nsfslite
  rules out with `dblock`; the lock table, once something calls it.

Modules that share no state are checked in one run by summing their behaviours:
an initial state picks the part a behaviour is about (`MCSync`, `MCParts`,
`MCContainers`, `MCStructures`, `MCFront`).

## 3. The modules

### Aries

The log is a sequence of records `[type, tid, prev, pg, undo, redo, ...]`; an
LSN, a byte offset in the code, is a position counted from 0.  So LSN 0 is, as
in the code, both the first record of the file and "none".  A page is its page
LSN and a value; the root page's value is the master LSN.  `mem` is what the
pager serves, `disk` the database file, `dirty` the frames with `PW_DIRTY`,
`dpt` and `txn` the two tables, `ctx` the `struct aries_ctx` of a restart.

| Actions | Code |
|---|---|
| `Begin`, `Update` | `pgr_begin_txn`; `pgr_get_writable` .. `pgr_save` |
| `CommitLog`, `CommitFlush`, `CommitEnd`, `CommitDone` | the four effects of `pgr_commit`; other threads and crashes come between |
| `Rollback`, `RollbackUpdate`, `RollbackSkip`, `RollbackEof`, `RollbackReturn` | `pgr_rollback`, one iteration a step |
| `Evict`, `Flush`, `Close`, `Crash` | `pgr_evict`, `pgr_flush_wall`, `pgr_close`, the process dies |
| `CkptBegin` .. `CkptFlush` | the six effects of `pgr_checkpoint` before it commits |
| `Open` | `pgr_restart_analysis` up to its END records |
| `AnalysisEnd`, `AnalysisDone` | `analaysis_end_phase_flush_ends` |
| `Redo`, `RedoDone` | `pgr_restart_redo`, one record a step |
| `UndoUpdate`, `UndoClr`, `UndoBegin`, `RestartDone` | `pgr_restart_undo`, one record a step; `pgr_open_existing` |

The analysis reads the log without changing anything, so it is one step; what
its loop computes is given by comprehensions over the log (`AttOf`, `DptOf`).
Two of its effects are worth knowing: the table keeps the *first* entry made of
a transaction, because `txnt_insert_txn_if_not_exists` does not hand the entry
it found to the caller; and entries merged from a CKPT_END point into memory
that is freed right after, so the recLSN read back for any subset of those pages
is arbitrary (`freed`): it is a choice of the model.

`PrefixStore` is what the pager promises about single writes: an open store
serves the last write of every page, a failure forgets a suffix of the history
that was not synced, a recovery serves what is left.  The history is a sequence
of entries that stand for one page write or for none (`Note`).  `ImplementsStore`
states that Aries implements it (`Store == INSTANCE PrefixStore WITH ...`), and a
theorem shows it; it needs no history variable, the log is one, record by
record: an update or a CLR is a `Write`, any other record a `Note`, a flush a
`Sync`, a crash or a close a `Fail`, and the whole of a restart is invisible up
to `RestartDone`, which is the `Recover`.

Abstractions: a page write is atomic; a crash keeps a prefix of the buffered
records (`WalStream` has the cells and torn tails); system calls do not fail;
each client keeps to pages no other open transaction wrote (`Isolated`), which
is what `dblock` gives nsfslite.  Vals has one value besides the initial one.
`Init` is a database that `pgr_open_new` made and `pgr_new` gave its data
pages, closed, with the 2*NPages+5 records of that history in the log.

### Savepoints

`Rollback(t, s)` starts only at a position of `Savepoints(t)`: 0, which is what
nsfslite passes, or the LSN of an own record of the transaction that no earlier
rollback went below.  A client that kept a savepoint its transaction has already
given up would make `pgr_rollback` stop at the UndoNxtLSN of a CLR, below it,
without an error; the proof of `RollbackRestores` found that, by failing.

### WalStream

The cells of the log: threads append records field by field (`WriteCall`,
`Overflow`, `PutField`: `walf_write` and `walos_write_all`), flush (`FlushCall`
.. `FlushSync`, one step per statement of `walos_flush_to_impl`, because latch
and LSN are read without each other), read back (`LiveRead`), crash (`Crash`
keeps any prefix that contains what was synced, then scans and cuts the tail as
`walis_read_all` does).  A record has five cells in four fields; the reader
groups them differently, as the code does, and a short read of nothing is not
the same as a short read of something.  A checksum fits only its own record.
As a bound `FlushCall` starts only while a complete record is not yet promised;
other flushes only repeat `i_fsync`.

### BufferPool

Frames, pins, the clock, write siblings, the root page with the head of the list
of free pages, tombstones and the length of the file.  One call of the pager is
one step (`dblock` serialises them); a client holds several handles.  `fpgr_new`
may fail; a crash keeps a prefix of the updates since the last commit and a
restart undoes them or leaves them, since `Aries` shows that both happen.

### SpxLatch, GrLock, ThreadPool

`SpxLatch`: every load and compare-and-swap is a step and weak
compare-and-swaps may fail for no reason.  `expected` is the local a thread
loaded, possibly stale.  `GrLock` and `ThreadPool`: what a thread does between
two points where it gives the mutex up is one step; waits may end without a
signal.  In `GrLock` the result `is_last` of `gr_unlock` is not kept.  In
`ThreadPool` the joins of `tp_stop`, which read `nthreads` without the mutex
(`threadpool.c:368`), are not modelled: a worker that is counted out does
nothing more.

### The tree: RptPages, NodeUpdates, RptMem, RptCursor, ByteArray

`RptPages` has the two page types and what is done to them; `NodeUpdates` the
changes one layer hands to the next; `RptCursor` the cursor's state machine, one
call of `rptc_*_execute` a step.  A C function that changes several things is an
operator from a record of the state (World) to another, and an action assigns
the World its handler computes; a failed assertion sets `err` and stops the
program there.  `rptc_rebalance_move_up_stack`, which is deterministic and only
follows another step, is a step of its own.  `ByteArray` is what a variable
promises, in terms of `RptMem`, the repository's own reference in memory
(`rptree_mem.c`); `ImplementsByteArray` is the refinement.  That a request ends
is checked by a bound on its steps and by deadlock checking.  The writing cursor
and errors of the pager below are left out.

### Names: Variables, NameTable

Creating, looking up and deleting names over hash chains and tail pages; every
pager call is a step and may fail.  The model is the build with NDEBUG: what the
assertions of `varc_cleanup` and `pgr_release` guard against happens instead.
`NameTable` promises a set of names on which calls take effect one after the
other, a failing one wholly or not at all for its own name only.

### CBuffer, DirtyTable, TxnTable, FileIO

`CBuffer`: every call that moves bytes, and file transfers in two calls with
others in between, against a sequence.  Calls are single steps: those on one ring
hold its latch, but the move and copy between two rings and the first half of a
file transfer take none (`cbuffer.h:149`) and are single steps because their
callers let one thread at a time at the rings.  Two threads inside a move are
not modelled.  `DirtyTable`: the robin hood table, slot
by slot, with its clock allocator, through a checkpoint's table and a restart.
`TxnTable`: the chained table and its rehash a few nodes at a time, with structs
of clients and of a restart's growing array.  `FileIO`: the loops around `read`,
`write`, `pread`, `pwrite`, `readv` and `writev`, cut short by the system
anywhere.

### Scanner, Types

`Scanner`: one character or token a step, between two rings.  `Types`: the
builders, validation, storing and reading back from any prefix.  Both are the
build with assertions; a failed one is an outcome of the model, which the
properties then speak of.

### NsfsApi

Each of the ten calls is a handler: the steps it takes when all goes well and
those at its label `failed`.  Every step may fail.  The error `n->e` is shared
by all calls of a handle, as in the code, so that a call meets the error another
left; `begin_txn` keeps `dblock` to its commit.  What a call does to pages is a
number of logged updates, of which a rollback takes back as many as the code
does.

## 4. The runs

TLC finishes every run.  Deadlock checking is off where records, calls, tasks,
transfers and crashes run out and a behaviour ends for that reason alone; it is
on in `containers`, where `Rest` and `Over` say that nothing is left to do, so
that a cursor that is stuck is found.

| Run | What it shows |
|---|---|
| `recovery` | No checkpoints, which is how nsfslite uses the pager. WAL rule, page LSNs name the content, history is repeated, commits are durable, ids are fresh, rollback chains are well formed, a rollback that reaches its savepoint restored every page. |
| `store` | Aries implements `PrefixStore`, and `pgr_open` comes to its end with crashes in the middle of restarts. |
| `checkpoint` | With `pgr_checkpoint` at any point: the undo meets only records of the transaction it takes back, and restores what it undoes, also when the restart died in its undo and is begun anew with its CLRs in the log. |
| `parts` | Safety of latch, granular lock, thread pool, log stream and buffer pool: no conflicting holders, no lost wake-up, tasks in order and all run before `tp_stop` returns, no cell of the log lost, doubled or reordered, an LSN is where the record is (one thread), what was flushed stays, a frame has exactly the pins of its users (that of the root page also one for each deletion that found no frame, see section 6), without failures no free page is lost, a page is served with what was saved last. |
| `primitives_live` | Everyone who waits in latch, lock or pool comes back. |
| `containers` | A variable is the array of bytes it promises to be, its tree is valid on every level, each request ends without an assertion but the known ones of section 6; names are a set, chains are whole, nobody is served during another's transaction. |
| `structures` | Rings are queues, the two tables hold what was put in, file transfers are whole. |
| `front` | Tokens do not depend on how the text was cut; stored types come back; cursors are given back; what has ended stays. |
| `losers_stay`, `wal_latch_released`, `wal_torn_boundary`, `failed_edit_stays` | Each finds the disagreement of section 6. |

Seven more configurations are kept beside the runs, each with a counterexample
that section 6 tells: `AriesOpen.cfg` (module `Aries`), `AriesCommitted.cfg`
(`MCAries`), `SpxNested.cfg` (`MCSpxNested`), `IoInterrupted.cfg`,
`DirtyMerged.cfg` and `TxnMoved.cfg` (`MCStructures`), `TreeNsfslite.cfg`
(`MCRptCursor`).

**Scenes.**  `MCAries` and `MCWalStream` explore one specification under several
bounds in one run: the initial state picks a *scene*, which restricts the next
step.  Every scene's steps are steps of the specification, so a violation is
real; each restriction is one conjunct in the MC module with its reason.
`MCCheckpoint` gives the run `checkpoint` two constraints instead.  `Explored`:
two more records are explored only after a single transaction that does not
commit, which is what brings the undo to a CLR; and after a second crash only
the restart is explored.  `AgainInUndo`: the second crash hits an undo that has
come past a record of the transaction it takes back.  The restart after it reads
the CLRs of the first, repeats them, and takes the same updates back once more,
because the analysis keeps the first entry it makes of a transaction.

**Bounds.**

* `NPages`: the root and one or two data pages; two are what a transaction needs
  to have one page on disk and the other not, and a wrong page to be restored.
* `MaxLog`: no client operation starts on a longer log.  The history of `Init`
  takes 2*NPages+5 records.  In `recovery` (three pages, 11 records, `MaxLog` 17)
  the scene of savepoints has room for six calls, enough for a second rollback
  above a first one; the scenes of crashes and of two writers have room for
  four, which lets two transactions interleave a begin, updates and a commit.
  The records of commits, rollbacks and restarts are not bounded by it.
* `MaxTid`: ids 1 and 2 made the database, so one or two clients, or a client
  and a checkpoint.
* `MaxCrash`: 2, so that a crash hits the restart after a crash; in `checkpoint`
  the first leaves a transaction open and the second hits its undo.
* `CountMask` 7 in place of 2^31-1: more than there are threads, which is the
  assumption `CountAssumption` of the proofs.
* `Lockers` 3 with two calls each (one for liveness): a holder, an incompatible
  waiter and one that comes late.  Pool: two workers, two producers, a ring of
  one (liveness) or two slots, so full, empty and wrapped rings happen with
  every number of tasks.
* `Cap` 20 and `SmallCap` 6: room for all records, and room for one and a cell,
  so that every field of a record is once the one that overflows.
* `NFrames` 4, two handles, `MaxPages` 4, `MaxPageCalls` 12: two handles, their
  write siblings and the root page are one more than there is room for, and
  twelve calls fill, delete, reuse and fail once.
* Tree: leaves of four bytes, nodes of six pairs, lists of 16 + 5 * 6 node
  updates; a first fill of 3 to 180 bytes (one to four layers), then two requests
  (`MaxOps` 3), `MaxSteps` 250 per request, more than any takes.  The four
  layers of 180 bytes are read, split, merged and taken down to two; in variables
  of 150 bytes and more only both ends and the middle are changed.  A fill of
  204 bytes stands for the insert that the lists have no room for; it is the
  only request that may stop with 'too many updates'.  `Nsfslite` is FALSE: one
  cursor serves all requests, as in the tests of the cursor, and remembers the
  root; `TreeNsfslite.cfg` has a cursor per request and nsfslite's calls.
* Names of up to three letters in pages of two cells and tails of one, eight
  pages, four calls, one failing pager call: three names in one bucket, each
  with a tail or without.
* Rings of three and two bytes, transfers of up to three; a dirty table of three
  slots over the pages 0, 1, 3, 5, of which three collide; transactions 1..4 in
  tables of one to four slots, load factors 1 and 2, one unit of rehash per
  insertion, so that a rehash is under way most of the time; transfers of up to
  three bytes in a word of 8, two transfers, one interruption.  In `structures`
  only the vectored loops are interrupted: the plain ones fail then
  (`IoInterrupted.cfg`).
* Scanner: rings of two, words of three, five characters, so every token is cut
  at every place and every limit is met; numbers up to 11 stand for I32_MAX.
  Types: builders of two, four keys, members and dimensions held, two types,
  stores of 60 bytes.  Calls: two threads, two cursors, three calls, two
  updates, with threads symmetric; fsize fails as read does, and insert and
  remove as write does.

**Fairness.**  `RestartTerminates`: weak fairness of `Restart`, `pgr_open` is a
loop without waiting, in one thread.  Latch: weak fairness of each thread's
loop and of giving the latch up, and strong fairness of the compare-and-swap
that ends a drain (and of an upgrade's): a spinning thread retries for ever,
and a weak compare-and-swap may fail, not always.  None for readers' attempts:
they are what may be starved.  Granular lock and pool: weak fairness of each
thread's step once it can take the mutex, of unlocking, of a *signalled* waiter;
nothing is assumed of wake-ups without a signal, of new calls, of `tp_stop`.
`LockReturns` is about finitely many calls: `gr_lock` has no queue, and an
endless stream of compatible holders does starve X.

## 5. Proofs

For every value of the constants, under the named ASSUMEs (which TLC evaluates);
every invariant was checked by TLC before it was proved.

* `AriesProofs`: `TypeCorrect`, `TypesWithCheckpoints`, `WalRuleHolds`,
  `PageLsnsNameContent`, `DataWalRuleHolds`, `CommitLoggedHolds`.  `TypeOK` is
  inductive by itself, one lemma per action; the actions that compute a recLSN or
  a maximum need that finite nonempty sets of naturals have one.  `WalRule` alone
  is not inductive: `Evict` during a restart does not flush, so what is in
  memory must be covered as well.  `Named(p)` says that the LSN on the page, in
  memory and on disk, is that of a page record of p with this content, and
  `Covered(p)` that disk is behind `flushed` and, in a restart, memory too.
  `PageSteps` reduces the actions to five kinds of change of a page (untouched,
  written at the end of the log, saved, redone, lost in a crash), so the
  invariant is shown for five cases instead of thirty actions.
  `DataWalRuleHolds` is the same invariant for the pages other than the root
  with checkpoints; for the root it fails (`AriesOpen.cfg`).
  `CommitLoggedHolds`: `Committing(t)` follows a commit through its states
  (logged: the COMMIT record is at `txn[t].commit`; flushed and later: and
  before `flushed`).
* `AriesProofs`, restarts and rollbacks: `HistoryRepeats`, `CommitsDurable`, `ChainsWhole`,
  `DatabaseOpens`.  The invariant `RInv` begins with the shape of the log
  (`Shape`): what a record says of those before it (`Fits`) is true when it is
  appended and stays true, because a log grows and is cut at its end only.
  `Chained(t)` ties the table entry of a running transaction to its last record,
  `Analysed` is what the analysis found (every unended transaction is ended, no
  loser is undone), and `Repeated(p)` says how far the redo has brought page p:
  memory is behind `ctx.redo` or not yet due.  No transaction ever reaches the
  undo pass in `Spec` (see `losers_stay`): `RollbackChain` is about `pgr_rollback`
  only, and the undo pass is the subject of `UndoRestores` and the run
  `checkpoint`.
  `RollbacksRestore`: `BInv` follows one transaction: the records of a page tell one story, each update starting from what the one
  before left, and what lies between the UndoNxtLSN of a CLR and the CLR cancels
  out (`Story`); so does what lies behind the UndoNxtLSN of the transaction
  (`Stands`); and nobody else writes the page while the transaction is in the
  table (`Mine`).  It is over all
  records of the transaction, not over the rollback, because a later rollback
  jumps over what an earlier one compensated.  The attempt to prove it failed
  for a savepoint already given up: hence `Savepoints` in `Aries`.
* `AriesProofs`, the refinement: `StoreImplemented`, that `Spec` implements
  `ImplementsStore`.  `Mapped` says of a step that it is one of the store's or
  none; one lemma per kind of step shows it (`StepNote`, `StepWrite`, `StepSync`,
  `StepFail`, `StepRecover`), and every action is of one of these kinds.  `Recover` is where
  the other theorems meet: a page that history was repeated for (`RInv`) and
  whose LSN names the record of its content (`NamedInv`) holds the last write the
  history has of it.  `VInv` adds that every record has contents of the store.
* `NsfsProofs`: `NsfsTypes`, `CursorsComeBack`, `EndedStaysEnded`.  A call is at
  one of a few *places*, the steps it has left; from its place follow whether it
  holds `dblock`, how many cursors it has, whose its transaction is, and whether
  it may still set the error all calls share (`CallOK`, `OwnerOK` in `NsfsInv`).
  `CursorInv` counts: the slots taken are those that calls hold, so none is given
  back twice and with no call under way all are free.
* `BufferProofs`: `BufTyped`, `FramesAreAccounted`.  One call of the pager is many
  steps that may each fail, so the proof is about the state in the middle of a
  call and the frames the call has in its hands (`Sound(p, o)`): the table finds
  what is present; a handle is on its frame, a writer has the one copy of it
  (`HandlesOK`, `FramesOK`); no two handles share a page one of them writes
  (`ApartOK`); pins are counted, those left on the root page too (`PinsOK`).  Each
  primitive keeps `Sound` and says what a client sees of it; a call is a sequence
  of primitives that leaves nothing in its hands.  `BufInv` adds what lies between
  calls and the log.
* `BufferListProofs`: `LedgerAlways`, `PagesAreServed`, `FreeListIsExact`.  A crash
  puts the pages back to any record of the log, done or undone, so an invariant
  about the list of free pages of the moment is not inductive.  `LedgerInv` is
  about the log: what every prefix of it leaves of the last commit's pages is a
  file with a list of free pages (`PrefixesOK`), the first record of a page has
  what the last commit left (`UndoOK`), and a page is served as the log has it
  last (`ServedOK`).  `SuccessInv` adds, for `PagesServed`, that a page which was
  never written is there after a failure only; `ExactInv`, for
  `FreeListExact`, that the list is the *least* set with the root page's first
  that is closed under the next free page.  So the proof needs no induction over
  the list; that the list as it is followed (`FreeList`, a recursive function)
  has all of that set and ends at the end of the file follows from the least
  set and from no two pages of the list pointing to the same place.
* `SyncProofs`, the thread pool: `PoolTypes`, `PoolDrains`.  `InRing` is the ring
  as the part of `added` that is not in `started`; `Counted` says what the two counts count;
  `Carried` that a started task is finished or with a worker that runs; and
  `Accounted` what a stop has to wait for.  That a stopped pool has drained then
  follows at the last exit: a worker leaves only an empty ring, and with
  `nthreads` at 0 nobody carries a task.
* `VariablesProofs`: `ChainAlways`, `ChainsAreExact`, `TransactionIsAlone`.
  `ChainsExact` speaks of the pages that following the links reaches, and calls
  of the cursor change links one page at a time.  `ChainInv` has a set S of pages
  instead that the hash page and the links close, no two of them pointing to the
  same page and no smaller set being closed (`Linked`); five lemmas say how the
  cursor's changes keep it (a page behind the last, a first page, a tail, a page
  that leaves, a change of no link).  While a name is deleted a second set D has
  the pages off the chain and not yet deleted (`Cutting`).  `Reads`, `Writes` and
  `Deletes` are what the cursor knows in each step of its call: which of the
  pages it remembers are still on the chain.  `Accounted` says whose each page in
  use is while nothing failed.  That S is what the walks of `ChainsExact` reach
  follows from S being least and from a walk that never repeats a page, so that
  it ends before the pages do.  `LockInv` is the part about `dblock`; it makes
  `TransactionAlone` inductive.
* `StructureProofs`, the ring: `RingsQueue`, `RingsQueueAlways`.  Every sum of the
  code is taken modulo the size of the array; the lemma `TurnIsMod` replaces it by
  one turn back, as nothing goes round twice.  A copy in one stretch or two then
  takes the cells from a position on, in order (the lemmas about `Cells`,
  `Gather` and `Scatter`), and the content of a ring grows behind, grows in front
  and loses its first bytes as a sequence does.  `RingInv` has the flag (a full
  ring has head at tail) and the transfer under way: what was written out still
  lies at tail (`OutHolds`), what was read in lies behind head and still fits
  (`InHolds`), whatever the other side did since.
* `StructureProofs`, file transfers: `TransfersWhole`.  `MovedSoFar` says of a
  transfer where the bytes done are and that the others are untouched, `Ahead`
  that what is left of the vector is the rest of the buffer (`SkipIs`), and
  `OthersStay` that a write elsewhere in the file changes neither.  It assumes
  that signals hit only the vectored loops: for the others it is false
  (`IoInterrupted.cfg`).
* `WalProofs`: `LogIsKept`, `LsnsArePositions`, `ReadsKeepLog`.  The first two
  assume `~LiveReads`, and `LogIsKept` that one thread at a time uses the log
  (`Sole`, as nsfslite's `dblock` has it) or that the buffer has room for all
  that is appended (`Roomy`): the run `wal_latch_released` shows the assertions
  fail when neither holds.  In `WInv`,
  `Places` says who may be where, `Parts` that the file is a beginning and the
  buffer an end of the log, and `Meet` where the two meet: at `flushed_lsn`, but
  for the thread between the write and the count of a flush.  `Records` follows
  what a flush promised: before its target or in the file, then in the file, then
  synced.  A crash keeps it because what the restart cuts off is shorter than a
  record and begins where no record does (`CutKeepsRecords`).  `LsnsArePositions`
  adds `Positions`, where the record that was just begun will be, and needs
  `Sole`: `walos_get_next_lsn` takes no latch.  `ReadsKeepLog` is for records
  that a rollback reads from the open log, and needs `Sole` and `Roomy`: with
  another thread, or an overflow, a flush may leave a record half written, and the
  reader cuts it off.  `Edge` says that the file then never ends inside a record
  that was appended, so a read finds the record whole or nothing of it and changes
  nothing (`ReadChangesNothing`); the invariants of the other two do the rest.
* `SyncProofs`, the spin latch: `LatchExcludes`, `LatchCounts`, `LatchAsserts` for
  any number of threads.  `LatchInv` adds to the types that at most one thread drains or
  owns (`OneIn`), that an owner is alone (`Alone`), that the word is the count
  (`Counts`) and what a thread that is about to compare-and-swap knows of the
  word it expects (`Checked`): stale values are harmless because the
  compare-and-swap tests the whole word.
* `SyncProofs`, the granular lock: `HoldersNeverConflict`, `WakeupsNeverLost`,
  `HoldersCounted`.  `LockInv` has the counts and `MatrixKept`, the property in terms of the matrix of
  the code; the lemma `Matrix` shows that this matrix has no conflicting modes
  in the sense of what they let a holder read and write.

Proved and checked by no run of their own: `CommitLoggedHolds`,
`DataWalRuleHolds`, `DatabaseOpens`, `LsnsArePositions` (`LsnOfOneThread` is it,
in the scenes of one thread), `LatchCounts`, `LatchAsserts`,
`HoldersCounted`, `LedgerAlways`, `ChainAlways` and the type theorems `NsfsTypes`, `PoolTypes`,
`BufTyped`.

Only model-checked, and why:

* everything under fairness (`RestartTerminates`, `PendingGetsLatch`,
  `LockReturns`, `QueuedTaskRuns`, `StopReturns`): liveness and ENABLED are out
  of the prover's reach;
* what is computed by recursion over data, which needs an induction it cannot
  instantiate: the tree (`TreeValid`, `ImplementsByteArray`), `Scanner` and
  `Types` (both use RECURSIVE operators), `ImplementsNames` (a name is put together from the
  pieces on its tail, which is a recursive concatenation), `TablesExact` (both
  tables are folds of their calls);
* `UndoRestores`: it is about `CkptSpec`, where the restart starts from tables
  that a checkpoint copied while they changed; the invariant of the restart
  without checkpoints does not hold there.

## 6. Disagreements

The runs show four, whose lines `PROJECT.json` quotes.  `losers_stay`: a
transaction open at a crash is not undone unless a checkpoint recorded it.
`wal_latch_released`: an overflowing append releases the latch of the stream
twice.  `wal_torn_boundary`: a record torn at the border of two reads is kept.
`failed_edit_stays`: a rollback that is handed the error of the call stops after
one page.

The configurations beside the runs show seven more: a crash between the write of
the root by `pgr_checkpoint` and the flush of the log makes a database that does
not open (`AriesOpen.cfg`); a transaction that commits while a checkpoint runs is
undone by the restart (`AriesCommitted.cfg`); `pgr_commit` locks `tx->l` shared
twice and hangs on a pending writer (`SpxNested.cfg`); a signal inside a plain
read or write loop ends in an assertion or a wrong count (`IoInterrupted.cfg`); a
restart merges entries of a checkpoint's table that is closed right after
(`DirtyMerged.cfg`); its array of transactions moves when it grows, under the
table that points into it (`TxnMoved.cfg`); and the root of a tree is stored only
where the tree grows by a layer (`rptree_cursor.c:61`), so a variable of one leaf
is empty to the next cursor (`TreeNsfslite.cfg`).

Noticed while reading, without a configuration of their own:

* *Primitives.*  Two upgrades, or an upgrade and a writer, wait for each other
  (`spx_latch.c:198`); a failing `tp_spin` waits for threads it never started
  (`threadpool.c:345`); `promise_await` misses a signal given before it
  (`promise.h:56`); cbuffer_get compares an index of elements with a number of
  bytes, and its pop_back is pop_front; lmalloc refuses an exact fit;
  chunk_alloc_create_default and chunk_alloc_free_all assert; HT_INSERT loses an
  entry when it finds the table full after swaps.
* *Log.*  The LSN of a record is computed without the latch of the stream
  (`wal_ostream.c:181`), so it can be wrong with several threads; reading a live
  log can truncate it (`wal_istream.c:138`); a rollback of records still in the
  buffer stops at the end of the file (`pager.c:1767`), and one that leaves by
  an error keeps `tx->l`, on which the next commit spins.
* *Pager.*  pgr_rollback with a savepoint an earlier rollback gave up stops below
  it (nsfslite passes 0 only); `pgr_evict_all` loses errors (`pager.c:248`);
  pgr_delete_and_release returns with its pin on the root page when there is no
  frame for a copy of it (`pager.c:1376`): that frame is never evicted again, and
  closing the database meets the assertion of pgr_evict that nothing is pinned;
  `FramesAccounted` counts those pins (`leaks`); a page by which `fpgr_new`
  extended the file before a crash is lost, and refused as corrupt
  (`file_pager.c:147`); pgr_commit
  keeps a latch when the flush fails; merge_txn keeps one too
  (`txn_table.c:338`); dpgt_deserialize leaks its table on ERR_CORRUPT; the
  analysis ignores what txnt_merge_into returns.
* *Tree and names.*  An empty variable crashes read, write and remove;
  `nupd_append_right` and `_left` store without a bound and no caller bounds a
  request, so an insert of more leaves than the lists of node updates hold writes
  past the array, and only a build with assertions stops, one use later
  (`node_updates.c:120`, `:207`; `KnownCrash` lets exactly those inserts stop);
  rptc_write_execute writes through a shared handle (`_write.c:61`); vpc_new of a
  name that exists keeps a page (`var_cursor.c:150`); vpc_delete in an empty
  bucket releases a handle it does not have (`var_cursor.c:726`).
* *nsfslite.*  get_id always returns PGNO_NULL; delete does not delete the tree
  (`nsfslite.c:412`); remove calls the wrong step while rebalancing
  (`nsfslite.c:1003`); get_id, read and fsize wait for themselves inside a
  transaction (`nsfslite.c:519`); an edit without a transaction whose open fails
  rolls back NULL; new and delete never roll back; `n->e.cause_code` is read
  after the unlock; begin and commit report stale errors; open uses an
  uninitialised error.
* *Front.*  An empty string and "1." assert in the scanner; in its error state it
  takes no character (`scanner.c:482`); struct and union validation never looks
  at the members, the strict array takes dimension 0, its equality ignores the
  element type and its size is computed in 32 bits; type_deserialize ignores a
  failed read of the header.

## 7. Not modelled, and why

The parser: the tokens that start a statement never carry `t.stmt`, so
`parser_more` never creates the generated parser, and the grammar never sets
`res->result`; there is no state to speak of yet.  Literals and expressions are
sequential conversions of data.  The lock table is only made and destroyed.  The
OS layer beyond the transfer loops and other pure I/O, serialisation and
checksums (stateless conversions), promises (no caller), nsdblite (declarations
only), printing tools, bindings, examples and the vendored parser generator have
no state that outlives a call.

Inside the modelled parts: page formats are abstracted to what they hold; system
calls of the log and of the pager do not fail except where a module says so;
`merge_txn`'s kept latch, the assertion about MAX_DPGT_SRL_SIZE and failing
merges are left out of `TxnTable` and `DirtyTable`; the cursor that overwrites is
left out of `RptCursor`; sizes, printing, random values and equality of types are
left out of `Types`.
