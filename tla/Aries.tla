------------------------------- MODULE Aries -------------------------------
(***************************************************************************)
(* The pager's transactions, write-ahead log, checkpoints and restart      *)
(* (libs/nspager/pager.c, wal.c, txn_table.c, dirty_page_table.c), with a  *)
(* crash possible between any two steps.                                   *)
(*                                                                         *)
(* The log is a sequence of records; the LSN of a record, a byte offset in *)
(* the code, is its position counted from 0, so that LSN 0 is, as in the   *)
(* code, both the first record of the file and the "none" of undo_next_lsn *)
(* and master_lsn.  A page is its page LSN and one value: for a data page  *)
(* a member of Vals, for the root page the master LSN it stores.           *)
(*                                                                         *)
(* A page frame that is not dirty holds what the file holds, so the buffer *)
(* pool is mem (what a reader of the page gets) and dirty (the frames with *)
(* PW_DIRTY); which clean pages occupy a frame is BufferPool's business.   *)
(***************************************************************************)
EXTENDS Integers, Sequences, FiniteSets, FiniteSetsExt

CONSTANTS NPages,      \* pages of the file, the root is page 0
          Vals,        \* contents a transaction may write in a data page
          InitVal,     \* the content a data page is created with
          MaxTid,      \* transaction ids are 1..MaxTid
          MaxLog,      \* no client operation starts on a log this long
          MaxCrash     \* crashes and clean closes in a behaviour

ASSUME NPagesAssumption == NPages \in Nat \ {0, 1}
ASSUME MaxTidAssumption == MaxTid \in Nat /\ MaxTid > 2
ASSUME BoundsAssumption == MaxLog \in Nat /\ MaxCrash \in Nat

Root     == 0
Pages    == 0..(NPages - 1)
Tids     == 1..MaxTid
Contents == Vals \cup {InitVal} \cup Nat

-----------------------------------------------------------------------------
(* Log records, struct wal_rec_hdr_write. *)

BeginRec(t)              == [type |-> "begin", tid |-> t]
CommitRec(t, prev)       == [type |-> "commit", tid |-> t, prev |-> prev]
EndRec(t, prev)          == [type |-> "end", tid |-> t, prev |-> prev]
UpdateRec(t, prev, p, undo, redo) ==
  [type |-> "update", tid |-> t, prev |-> prev, pg |-> p, undo |-> undo, redo |-> redo]
ClrRec(t, prev, p, undoNext, redo) ==
  [type |-> "clr", tid |-> t, prev |-> prev, pg |-> p, undoNext |-> undoNext, redo |-> redo]
CkptBeginRec             == [type |-> "ckpt_begin"]
CkptEndRec(att, pages)   == [type |-> "ckpt_end", att |-> att, dpt |-> pages]

NoEntry == [st |-> "none", last |-> 0, undoNext |-> 0]
Entries == [st : {"none", "U", "committed"}, last : Nat, undoNext : Nat]

Records ==
  [type : {"begin"}, tid : Tids]
    \cup [type : {"commit", "end"}, tid : Tids, prev : Nat]
    \cup [type : {"update"}, tid : Tids, prev : Nat, pg : Pages, undo : Contents, redo : Contents]
    \cup [type : {"clr"}, tid : Tids, prev : Nat, pg : Pages, undoNext : Nat, redo : Contents]
    \cup [type : {"ckpt_begin"}]
    \cup [type : {"ckpt_end"}, att : [Tids -> Entries], dpt : [Pages -> Nat]]

-----------------------------------------------------------------------------
VARIABLES log,       \* every record appended, in the file or still in the buffer
          flushed,   \* how many of them are in the log file
          disk,      \* the database file: page -> [lsn, val]
          mem,       \* what the pager serves: page -> [lsn, val]
          dirty,     \* pages whose frame has PW_DIRTY
          dpt,       \* p->dpt: page -> recLSN, 0 for a page that is not in it
          txn,       \* struct txn of every id
          nextTid,   \* p->next_tid
          phase,     \* "down", "failed", the stages of pgr_restart, "up"
          ctx,       \* struct aries_ctx
          ckpt,      \* progress of pgr_checkpoint
          acked,     \* history: ids whose pgr_commit returned SUCCESS
          crashes    \* history: how often the process went down

walVars  == <<log, flushed>>
pageVars == <<disk, mem, dirty>>
runVars  == <<dpt, txn, nextTid, ckpt>>
vars == <<log, flushed, disk, mem, dirty, dpt, txn, nextTid, phase, ctx, ckpt, acked, crashes>>

Rec(l)   == log[l + 1]
NextLsn  == Len(log)          \* walos_get_next_lsn
InFile   == 0..(flushed - 1)  \* LSNs that a read of the log file finds

\* A page with its new content and, by page_set_page_lsn, its page LSN.
Bug_LsnOfNext(l, v) == [lsn |-> l + 1, val |-> v]
Image(l, v)         == [lsn |-> l, val |-> v]

IsPageRec(r) == r.type \in {"update", "clr"}
IsTxnRec(r)  == r.type \in {"begin", "commit", "end", "update", "clr"}

NoTxn  == [st |-> "none", last |-> 0, undoNext |-> 0, commit |-> 0, save |-> 0]
NoCkpt == [pc |-> "idle", begin |-> 0, tid |-> 0]
NoCtx  == [att |-> [t \in Tids |-> NoEntry], dpt |-> [p \in Pages |-> 0],
           redo |-> 0, maxTid |-> 0, master |-> 0]

\* Ids in p->tnxt: inserted by pgr_begin_txn, removed at the end of pgr_commit.
InTable == {t \in Tids : txn[t].st \in {"running", "rolling", "logged", "flushed", "ended"}}

-----------------------------------------------------------------------------
(***************************************************************************)
(* A database that pgr_open_new made (transaction 1 writes the root), that *)
(* transaction 2 gave its data pages by pgr_new (each call saves the root  *)
(* and the new page), and that was closed: everything is in the two files. *)
(***************************************************************************)
InitLog ==
  [i \in 1..(2 * NPages + 5) |->
     CASE i = 1              -> BeginRec(1)
       [] i = 2              -> UpdateRec(1, 0, Root, 0, 0)
       [] i = 3              -> CommitRec(1, 1)
       [] i = 4              -> EndRec(1, 2)
       [] i = 5              -> BeginRec(2)
       [] i = 2 * NPages + 4 -> CommitRec(2, i - 2)
       [] i = 2 * NPages + 5 -> EndRec(2, i - 2)
       [] OTHER              ->
            IF i % 2 = 0 THEN UpdateRec(2, i - 2, Root, 0, 0)
                         ELSE UpdateRec(2, i - 2, (i - 5) \div 2, InitVal, InitVal)]

InitDisk == [p \in Pages |-> IF p = Root THEN [lsn |-> 2 * NPages + 1, val |-> 0]
                                         ELSE [lsn |-> 2 * p + 4, val |-> InitVal]]

Init == /\ log = InitLog
        /\ flushed = Len(InitLog)
        /\ disk = InitDisk
        /\ mem = InitDisk
        /\ dirty = {}
        /\ dpt = [p \in Pages |-> 0]
        /\ txn = [t \in Tids |-> NoTxn]
        /\ nextTid = 1
        /\ phase = "down"
        /\ ctx = NoCtx
        /\ ckpt = NoCkpt
        /\ acked = {1, 2}
        /\ crashes = 0

-----------------------------------------------------------------------------
(* Transactions, while the database is open. *)

\* One client operation may start: the bound on the length of the log.
Room == phase = "up" /\ Len(log) < MaxLog

\* The transaction that txn_init makes for a BEGIN record at LSN l.
Bug_NoLastLsn(l) == [NoTxn EXCEPT !.st = "running"]
NewTxn(l)        == [NoTxn EXCEPT !.st = "running", !.last = l]

\* pgr_begin_txn: a fresh id, its BEGIN record, its entry in the table.
Begin(t) ==
  /\ Room
  /\ t = nextTid
  /\ nextTid' = nextTid + 1
  /\ log' = Append(log, BeginRec(t))
  /\ txn' = [txn EXCEPT ![t] = NewTxn(NextLsn)]
  /\ UNCHANGED <<flushed, pageVars, dpt, phase, ctx, ckpt, acked, crashes>>

\* What pgr_save does to the log, the page, the transaction and the DPT when
\* transaction t, last seen at LSN prev, replaces the content of p at LSN l.
SavePage(t, p, l, v) ==
  /\ mem' = [mem EXCEPT ![p] = Image(l, v)]
  /\ dirty' = dirty \cup {p}
  /\ dpt' = IF dpt[p] = 0 THEN [dpt EXCEPT ![p] = l] ELSE dpt
  /\ txn' = [txn EXCEPT ![t].st = "running", ![t].last = l, ![t].undoNext = l]

\* Pages that t wrote and has not given up by committing.
WrittenBy(t) == {Rec(l).pg : l \in {k \in 0..(NextLsn - 1) :
                                      Rec(k).type = "update" /\ Rec(k).tid = t}}

\* Client discipline: nsfslite holds n->dblock from nsfslite_begin_txn to
\* nsfslite_commit, so two open transactions never write the same page.
Bug_NotIsolated(t, p) == TRUE
Isolated(t, p) == \A u \in InTable \ {t} : p \notin WrittenBy(u)

\* pgr_get_writable, a change of the page by its owner, pgr_release (pgr_save).
Update(t, p, v) ==
  /\ Room
  /\ txn[t].st = "running"
  /\ ckpt.tid # t
  /\ p # Root
  /\ Isolated(t, p)
  /\ log' = Append(log, UpdateRec(t, txn[t].last, p, mem[p].val, v))
  /\ SavePage(t, p, NextLsn, v)
  /\ UNCHANGED <<flushed, disk, nextTid, phase, ctx, ckpt, acked, crashes>>

\* pgr_commit, in the steps a crash or another thread can come between.
CommitLog(t) ==
  /\ phase = "up"
  /\ txn[t].st = "running"
  /\ ckpt.tid = t => ckpt.pc = "commit"
  /\ log' = Append(log, CommitRec(t, txn[t].last))
  /\ txn' = [txn EXCEPT ![t].st = "logged", ![t].commit = NextLsn]
  /\ UNCHANGED <<flushed, pageVars, dpt, nextTid, phase, ctx, ckpt, acked, crashes>>

\* wal_flush_all of pgr_commit.
Bug_CommitUnflushed == flushed
CommitFlushed       == Len(log)

CommitFlush(t) ==
  /\ phase = "up"
  /\ txn[t].st = "logged"
  /\ flushed' = CommitFlushed
  /\ txn' = [txn EXCEPT ![t].st = "flushed"]
  /\ UNCHANGED <<log, pageVars, dpt, nextTid, phase, ctx, ckpt, acked, crashes>>

\* END points to the COMMIT record; last_lsn is not updated by either.
CommitEnd(t) ==
  /\ phase = "up"
  /\ txn[t].st = "flushed"
  /\ log' = Append(log, EndRec(t, txn[t].commit))
  /\ txn' = [txn EXCEPT ![t].st = "ended"]
  /\ UNCHANGED <<flushed, pageVars, dpt, nextTid, phase, ctx, ckpt, acked, crashes>>

CommitDone(t) ==
  /\ phase = "up"
  /\ txn[t].st = "ended"
  /\ txn' = [txn EXCEPT ![t].st = "done"]
  /\ acked' = acked \cup {t}
  /\ ckpt' = IF ckpt.tid = t THEN NoCkpt ELSE ckpt
  /\ UNCHANGED <<walVars, pageVars, dpt, nextTid, phase, ctx, crashes>>

-----------------------------------------------------------------------------
(***************************************************************************)
(* pgr_rollback, one iteration of its loop per step, under tx->l.  The     *)
(* chain is read from the log FILE: a record still in the WAL's buffer is  *)
(* the end of the file to wal_read_entry, and the loop's WL_EOF case       *)
(* leaves with SUCCESS.  The cases of the other record types return        *)
(* ERR_CORRUPT; RollbackChain below says that they are never reached.      *)
(***************************************************************************)
\* Client discipline: a transaction goes back to where it began (0, all that
\* nsfslite asks for) or to an update that it has not taken back since.  With a
\* savepoint it has given up, the loop would stop before it.
Savepoints(t) ==
  {0} \cup {l \in 0..(NextLsn - 1) :
             /\ Rec(l).type = "update" /\ Rec(l).tid = t
             /\ \A c \in (l + 1)..(NextLsn - 1) :
                  Rec(c).type = "clr" /\ Rec(c).tid = t => Rec(c).undoNext >= l}

Rollback(t, s) ==
  /\ phase = "up"
  /\ txn[t].st = "running"
  /\ ckpt.tid # t
  /\ s \in Savepoints(t)
  /\ s < txn[t].undoNext
  /\ txn' = [txn EXCEPT ![t].st = "rolling", ![t].save = s]
  /\ UNCHANGED <<walVars, pageVars, dpt, nextTid, phase, ctx, ckpt, acked, crashes>>

\* WHILE SaveSN < UndoNxt
Bug_UndoesSavepoint(t) == txn[t].save <= txn[t].undoNext
MoreToUndo(t)          == txn[t].save < txn[t].undoNext

\* The loop goes on, and reads the record at undo_next_lsn from the file.
Undoing(t) == /\ phase = "up"
              /\ txn[t].st = "rolling"
              /\ MoreToUndo(t)

UndoRec(t) == Rec(txn[t].undoNext)

\* Undo_Update(Page, LogRec): the content that undoing the update r gives its page.
Bug_Reapplies(r) == r.redo
Undone(r)        == r.undo

\* The page is made dirty and gets the CLR's LSN, but is not added to the DPT.
RollbackUpdate(t) ==
  /\ Undoing(t)
  /\ txn[t].undoNext \in InFile
  /\ UndoRec(t).type = "update"
  /\ LET r == UndoRec(t) IN
       /\ log' = Append(log, ClrRec(r.tid, txn[t].last, r.pg, r.prev, Undone(r)))
       /\ mem' = [mem EXCEPT ![r.pg] = Image(NextLsn, Undone(r))]
       /\ dirty' = dirty \cup {r.pg}
       /\ txn' = [txn EXCEPT ![t].last = NextLsn, ![t].undoNext = r.prev]
  /\ UNCHANGED <<flushed, disk, dpt, nextTid, phase, ctx, ckpt, acked, crashes>>

RollbackSkip(t) ==
  /\ Undoing(t)
  /\ txn[t].undoNext \in InFile
  /\ UndoRec(t).type \in {"clr", "begin"}
  /\ txn' = [txn EXCEPT ![t].undoNext =
               IF UndoRec(t).type = "clr" THEN UndoRec(t).undoNext ELSE 0]
  /\ UNCHANGED <<walVars, pageVars, dpt, nextTid, phase, ctx, ckpt, acked, crashes>>

RollbackEof(t) ==
  /\ Undoing(t)
  /\ txn[t].undoNext \notin InFile
  /\ txn' = [txn EXCEPT ![t].st = "running"]
  /\ UNCHANGED <<walVars, pageVars, dpt, nextTid, phase, ctx, ckpt, acked, crashes>>

RollbackReturn(t) ==
  /\ phase = "up"
  /\ txn[t].st = "rolling"
  /\ ~MoreToUndo(t)
  /\ txn' = [txn EXCEPT ![t].st = "running"]
  /\ UNCHANGED <<walVars, pageVars, dpt, nextTid, phase, ctx, ckpt, acked, crashes>>

-----------------------------------------------------------------------------
(* The buffer pool, the log buffer, and going down. *)

Restarting == phase \in {"ends", "redo", "undo"}

\* pgr_checkpoint holds a pin on the root from pgr_get_writable to pgr_release.
Pinned(p) == p = Root /\ ckpt.pc = "saved"

\* The WAL is flushed before the page is written, except in a restart.
Bug_EvictUnflushed == flushed
EvictFlushed       == IF Restarting THEN flushed ELSE Len(log)

\* pgr_evict of a dirty frame.
Evict(p) ==
  /\ phase = "up" \/ Restarting
  /\ p \in dirty
  /\ ~Pinned(p)
  /\ flushed' = EvictFlushed
  /\ disk' = [disk EXCEPT ![p] = mem[p]]
  /\ dirty' = dirty \ {p}
  /\ dpt' = [dpt EXCEPT ![p] = 0]
  /\ UNCHANGED <<log, mem, txn, nextTid, phase, ctx, ckpt, acked, crashes>>

\* pgr_flush_wall, or another thread's flush.
Flush ==
  /\ phase = "up"
  /\ flushed < Len(log)
  /\ flushed' = Len(log)
  /\ UNCHANGED <<log, pageVars, runVars, phase, ctx, acked, crashes>>

GoDown ==
  /\ crashes < MaxCrash
  /\ crashes' = crashes + 1
  /\ phase' = "down"
  /\ dirty' = {}
  /\ dpt' = [p \in Pages |-> 0]
  /\ txn' = [t \in Tids |-> NoTxn]
  /\ ctx' = NoCtx
  /\ ckpt' = NoCkpt
  /\ nextTid' = 1
  /\ UNCHANGED acked

\* The process dies.  The write of a flush may have reached the file in part:
\* some prefix of the buffered records survives.
Crash ==
  /\ phase = "up" \/ Restarting
  /\ GoDown
  /\ \E n \in flushed..Len(log) : log' = SubSeq(log, 1, n) /\ flushed' = n
  /\ mem' = disk
  /\ UNCHANGED disk

\* pgr_close between two operations: pgr_evict_all, then wal_close flushes.
Close ==
  /\ phase = "up"
  /\ ckpt.pc = "idle"
  /\ \A t \in InTable : txn[t].st = "running"
  /\ GoDown
  /\ flushed' = Len(log)
  /\ disk' = mem
  /\ UNCHANGED <<log, mem>>

-----------------------------------------------------------------------------
(* pgr_checkpoint, run by one thread beside the transactions. *)

CkptBegin ==
  /\ Room
  /\ ckpt.pc = "idle"
  /\ nextTid <= MaxTid            \* an id is left for the checkpoint's transaction
  /\ log' = Append(log, CkptBeginRec)
  /\ ckpt' = [pc |-> "begun", begin |-> NextLsn, tid |-> 0]
  /\ UNCHANGED <<flushed, pageVars, dpt, txn, nextTid, phase, ctx, acked, crashes>>

\* txnt_serialize waits for the latch of each transaction, which pgr_rollback holds.
CkptEnd ==
  /\ phase = "up"
  /\ ckpt.pc = "begun"
  /\ \A t \in Tids : txn[t].st # "rolling"
  /\ log' = Append(log, CkptEndRec(
              [t \in Tids |-> IF t \in InTable
                              THEN [st |-> "U", last |-> txn[t].last, undoNext |-> txn[t].undoNext]
                              ELSE NoEntry], dpt))
  /\ ckpt' = [ckpt EXCEPT !.pc = "ended"]
  /\ UNCHANGED <<flushed, pageVars, dpt, txn, nextTid, phase, ctx, acked, crashes>>

\* The checkpoint's own transaction (pgr_begin_txn).
CkptTxn(t) ==
  /\ phase = "up"
  /\ ckpt.pc = "ended"
  /\ t = nextTid
  /\ nextTid' = nextTid + 1
  /\ log' = Append(log, BeginRec(t))
  /\ txn' = [txn EXCEPT ![t] = NewTxn(NextLsn)]
  /\ ckpt' = [ckpt EXCEPT !.pc = "begin", !.tid = t]
  /\ UNCHANGED <<flushed, pageVars, dpt, phase, ctx, acked, crashes>>

\* It logs the master LSN in the root page (pgr_get_writable, pgr_save).
CkptSave(t) ==
  /\ phase = "up"
  /\ ckpt.pc = "begin"
  /\ t = ckpt.tid
  /\ log' = Append(log, UpdateRec(t, txn[t].last, Root, mem[Root].val, ckpt.begin))
  /\ SavePage(t, Root, NextLsn, ckpt.begin)
  /\ ckpt' = [ckpt EXCEPT !.pc = "saved"]
  /\ UNCHANGED <<flushed, disk, nextTid, phase, ctx, acked, crashes>>

\* The root page goes to the file before the log does.
CkptWriteRoot ==
  /\ phase = "up"
  /\ ckpt.pc = "saved"
  /\ disk' = [disk EXCEPT ![Root] = mem[Root]]
  /\ ckpt' = [ckpt EXCEPT !.pc = "written"]
  /\ UNCHANGED <<walVars, mem, dirty, dpt, txn, nextTid, phase, ctx, acked, crashes>>

\* wal_flush_all; pgr_commit of the checkpoint's transaction follows.
CkptFlush ==
  /\ phase = "up"
  /\ ckpt.pc = "written"
  /\ flushed' = Len(log)
  /\ ckpt' = [ckpt EXCEPT !.pc = "commit"]
  /\ UNCHANGED <<log, pageVars, dpt, txn, nextTid, phase, ctx, acked, crashes>>

-----------------------------------------------------------------------------
(* pgr_open_existing and pgr_restart. *)

\* LSNs that the analysis reads: the file, from the record after the master
\* record of a checkpoint at LSN m on.
Scanned(m) == {l \in InFile : m = 0 \/ l > m}

Mentions(l, t) == \/ IsTxnRec(Rec(l)) /\ Rec(l).tid = t
                  \/ Rec(l).type = "ckpt_end" /\ Rec(l).att[t].st # "none"

\* The records that mention t after its last END, at which it left the table.
Mentioned(t, m) ==
  {l \in Scanned(m) :
     /\ Mentions(l, t)
     /\ ~ \E e \in Scanned(m) : e >= l /\ Rec(e).type = "end" /\ Rec(e).tid = t}

\* wrh_get_prev_lsn of a BEGIN record.
Bug_BeginPrevNone == -1
BeginPrev         == 0

\* The entry made when l is the first of them.  What later records of t do
\* goes to a struct txn of their own that is not the one in the table:
\* txnt_insert_txn_if_not_exists does not give the caller the one it found.
FirstEntry(l, t) ==
  LET r == Rec(l) IN
  CASE r.type = "begin"    -> [st |-> "U", last |-> l, undoNext |-> BeginPrev]
    [] r.type = "update"   -> [st |-> "U", last |-> l, undoNext |-> l]
    [] r.type = "clr"      -> [st |-> "U", last |-> l, undoNext |-> r.undoNext]
    [] r.type = "commit"   -> [st |-> "committed", last |-> l, undoNext |-> r.prev]
    [] r.type = "ckpt_end" -> [r.att[t] EXCEPT !.st = "U"]

AttOf(m) ==
  [t \in Tids |-> IF Mentioned(t, m) = {} THEN NoEntry
                                          ELSE FirstEntry(Min(Mentioned(t, m)), t)]

\* A page enters the DPT with the first update read; every CKPT_END that lists
\* it replaces the entry by its own.  The merged entries live in memory that
\* dpgt_close frees right after the merge: for the pages in freed, what is
\* read back is no longer a recLSN of the log.
CkptsWith(p, m) == {l \in Scanned(m) : Rec(l).type = "ckpt_end" /\ Rec(l).dpt[p] # 0}
UpdatesOf(p, m) == {l \in Scanned(m) : Rec(l).type = "update" /\ Rec(l).pg = p}

DptOf(m, freed) ==
  [p \in Pages |->
     CASE CkptsWith(p, m) # {} -> IF p \in freed THEN Len(log)
                                                 ELSE Rec(Max(CkptsWith(p, m))).dpt[p]
       [] CkptsWith(p, m) = {} /\ UpdatesOf(p, m) # {} -> Min(UpdatesOf(p, m))
       [] OTHER -> 0]

RecLsns(d) == {d[p] : p \in Pages} \ {0}

\* The largest id read by the analysis from master m, or by the redo from LSN r.
MaxTidRead(m, r) ==
  Max({0} \cup {Rec(l).tid : l \in {k \in InFile : IsTxnRec(Rec(k)) /\ (k >= r \/ k \in Scanned(m))}})

\* pgr_restart_analysis, up to the END records it writes.  It fails when the
\* root page names a master record that is not a CKPT_BEGIN of the log; an
\* empty DPT makes the redo seek to LSN -1, which fails as well.
Open ==
  /\ phase = "down"
  /\ LET m == disk[Root].val IN
       IF m # 0 /\ (m \notin InFile \/ Rec(m).type # "ckpt_begin")
       THEN phase' = "failed" /\ UNCHANGED ctx
       ELSE \E freed \in SUBSET {p \in Pages : CkptsWith(p, m) # {}} :
              LET d == DptOf(m, freed) IN
              IF RecLsns(d) = {}
              THEN phase' = "failed" /\ UNCHANGED ctx
              ELSE /\ phase' = "ends"
                   /\ ctx' = [att |-> AttOf(m), dpt |-> d, redo |-> Min(RecLsns(d)),
                              maxTid |-> MaxTidRead(m, Min(RecLsns(d))), master |-> m]
  /\ UNCHANGED <<walVars, pageVars, runVars, acked, crashes>>

\* analaysis_end_phase_flush_ends: nothing to undo, or committed.
Finished == {t \in Tids : \/ ctx.att[t].st = "U" /\ ctx.att[t].undoNext = 0
                          \/ ctx.att[t].st = "committed"}

AnalysisEnd(t) ==
  /\ phase = "ends"
  /\ t \in Finished
  /\ log' = Append(log, EndRec(t, ctx.att[t].last))
  /\ ctx' = [ctx EXCEPT !.att[t] = NoEntry]
  /\ UNCHANGED <<flushed, pageVars, runVars, phase, acked, crashes>>

AnalysisDone ==
  /\ phase = "ends"
  /\ Finished = {}
  /\ phase' = "redo"
  /\ UNCHANGED <<walVars, pageVars, runVars, ctx, acked, crashes>>

\* IF Page.LSN < LogRec.LSN
Bug_RedoLate(p, l) == mem[p].lsn + 1 < l
RedoNeeded(p, l)   == mem[p].lsn < l

\* The log scan goes on behind the record at l.
Bug_SameRecord(l) == l
ReadNext(l)       == l + 1

\* pgr_restart_redo, one record.  A page that is already newer has its entry
\* in the DPT moved past its page LSN; its frame is made dirty all the same.
Redo ==
  /\ phase = "redo"
  /\ ctx.redo \in InFile
  /\ LET l == ctx.redo
         r == Rec(l)
     IN IF IsPageRec(r) /\ ctx.dpt[r.pg] # 0 /\ l >= ctx.dpt[r.pg]
        THEN /\ dirty' = dirty \cup {r.pg}
             /\ IF RedoNeeded(r.pg, l)
                THEN /\ mem' = [mem EXCEPT ![r.pg] = Image(l, r.redo)]
                     /\ ctx' = [ctx EXCEPT !.redo = ReadNext(l)]
                ELSE /\ mem' = mem
                     /\ ctx' = [ctx EXCEPT !.redo = ReadNext(l), !.dpt[r.pg] = mem[r.pg].lsn + 1]
        ELSE /\ ctx' = [ctx EXCEPT !.redo = ReadNext(l)]
             /\ UNCHANGED <<mem, dirty>>
  /\ UNCHANGED <<walVars, disk, runVars, phase, acked, crashes>>

RedoDone ==
  /\ phase = "redo"
  /\ ctx.redo \notin InFile
  /\ phase' = "undo"
  /\ UNCHANGED <<walVars, pageVars, runVars, ctx, acked, crashes>>

\* pgr_restart_undo: the largest undo_next_lsn of the transactions left.  An
\* LSN at which there is no update, CLR or BEGIN would be read for ever.
Losers  == {t \in Tids : ctx.att[t].st = "U"}
UndoLsn == Max({ctx.att[t].undoNext : t \in Losers})

UndoAt(l) == phase = "undo" /\ Losers # {} /\ l = UndoLsn /\ l \in InFile

\* The CLR is flushed before the page carries its LSN.
UndoUpdate ==
  \E l \in InFile :
    /\ UndoAt(l)
    /\ Rec(l).type = "update"
    /\ LET r == Rec(l) IN
         /\ log' = Append(log, ClrRec(r.tid, ctx.att[r.tid].last, r.pg, r.prev, Undone(r)))
         /\ flushed' = Len(log) + 1
         /\ mem' = [mem EXCEPT ![r.pg] = Image(NextLsn, Undone(r))]
         /\ dirty' = dirty \cup {r.pg}
         /\ ctx' = [ctx EXCEPT !.att[r.tid].last = NextLsn, !.att[r.tid].undoNext = r.prev]
    /\ UNCHANGED <<disk, runVars, phase, acked, crashes>>

UndoClr ==
  \E l \in InFile :
    /\ UndoAt(l)
    /\ Rec(l).type = "clr"
    /\ ctx' = [ctx EXCEPT !.att[Rec(l).tid].undoNext = Rec(l).undoNext]
    /\ UNCHANGED <<walVars, pageVars, runVars, phase, acked, crashes>>

UndoBegin ==
  \E l \in InFile :
    /\ UndoAt(l)
    /\ Rec(l).type = "begin"
    /\ log' = Append(log, EndRec(Rec(l).tid, l))
    /\ ctx' = [ctx EXCEPT !.att[Rec(l).tid] = NoEntry]
    /\ UNCHANGED <<flushed, pageVars, runVars, phase, acked, crashes>>

\* ret->next_tid of pgr_open_existing.
Bug_TidAgain == ctx.maxTid
FirstTid     == ctx.maxTid + 1

\* p->dpt and p->tnxt start empty: the tables of the restart are thrown away.
RestartDone ==
  /\ phase = "undo"
  /\ Losers = {}
  /\ phase' = "up"
  /\ nextTid' = FirstTid
  /\ ctx' = NoCtx
  /\ UNCHANGED <<walVars, pageVars, dpt, txn, ckpt, acked, crashes>>

-----------------------------------------------------------------------------
Transaction(t) ==
  \/ Begin(t)
  \/ \E p \in Pages, v \in Vals : Update(t, p, v)
  \/ CommitLog(t) \/ CommitFlush(t) \/ CommitEnd(t) \/ CommitDone(t)
  \/ \E s \in 0..(NextLsn - 1) : Rollback(t, s)
  \/ RollbackUpdate(t) \/ RollbackSkip(t) \/ RollbackEof(t) \/ RollbackReturn(t)

Restart == \/ Open
           \/ \E t \in Tids : AnalysisEnd(t)
           \/ AnalysisDone \/ Redo \/ RedoDone
           \/ UndoUpdate \/ UndoClr \/ UndoBegin \/ RestartDone

Checkpoint == \/ CkptBegin \/ CkptEnd
              \/ \E t \in Tids : CkptTxn(t) \/ CkptSave(t)
              \/ CkptWriteRoot \/ CkptFlush

\* nsfslite and nsdblite never call pgr_checkpoint: the library as it is used.
Next == \/ \E t \in Tids : Transaction(t)
        \/ \E p \in Pages : Evict(p)
        \/ Flush \/ Crash \/ Close
        \/ Restart

Spec == Init /\ [][Next]_vars

\* A program that calls pgr_checkpoint as well.
CkptSpec == Init /\ [][Next \/ Checkpoint]_vars

\* pgr_open runs to its end once called, unless the process dies.
FairSpec == Spec /\ WF_vars(Restart)

-----------------------------------------------------------------------------
(* Properties. *)

LogOK  == log \in Seq(Records) /\ flushed \in 0..Len(log)
PageOK == /\ disk \in [Pages -> [lsn : Nat, val : Contents]]
          /\ mem \in [Pages -> [lsn : Nat, val : Contents]]
          /\ dirty \subseteq Pages
RunOK  == /\ dpt \in [Pages -> Nat]
          /\ txn \in [Tids -> [st : {"none", "running", "rolling", "logged", "flushed",
                                     "ended", "done"},
                               last : Nat, undoNext : Nat, commit : Nat, save : Nat]]
          /\ nextTid \in 1..(MaxTid + 1)
          /\ ckpt \in [pc : {"idle", "begun", "ended", "begin", "saved", "written", "commit"},
                       begin : Nat, tid : 0..MaxTid]
CtxOK  == ctx \in [att : [Tids -> Entries], dpt : [Pages -> Nat], redo : Nat,
                   maxTid : 0..MaxTid, master : Nat]

\* The types of the variables.
TypeOK == /\ LogOK /\ PageOK /\ RunOK /\ CtxOK
          /\ phase \in {"down", "failed", "ends", "redo", "undo", "up"}
          /\ acked \subseteq Tids
          /\ crashes \in 0..MaxCrash

\* The rule the log is named for: a page is in the database file only if the
\* record that its page LSN names is in the log file, whatever evicts the page
\* and whenever the process dies (pgr_evict, pgr_restart_undo).
WalRule == \A p \in Pages : disk[p].lsn < flushed

\* The page LSN of a page, in the file or in memory, names the record that
\* produced its content: what makes the redo's comparison of LSNs sound.
Produced(p, img) == /\ img.lsn < Len(log)
                    /\ IsPageRec(Rec(img.lsn))
                    /\ Rec(img.lsn).pg = p
                    /\ Rec(img.lsn).redo = img.val
PageLsnNamesContent == \A p \in Pages : Produced(p, disk[p]) /\ Produced(p, mem[p])

\* An open database serves, for each page, the last record the log has of it:
\* the redo repeats history, and no eviction or crash loses an update that is
\* in the log (so none of a committed transaction either).
HistoryRepeated ==
  phase = "up" => \A p \in Pages, l \in 0..(NextLsn - 1) :
                    IsPageRec(Rec(l)) /\ Rec(l).pg = p => l <= mem[p].lsn

\* Once pgr_commit has returned SUCCESS the COMMIT record is in the log file for
\* good, after every update of the transaction.
CommitDurable ==
  \A t \in acked : \E c \in InFile :
     /\ Rec(c).type = "commit" /\ Rec(c).tid = t
     /\ \A l \in 0..(NextLsn - 1) : IsPageRec(Rec(l)) /\ Rec(l).tid = t => l < c

\* No id is given to two transactions of one log, crashes included: the analysis
\* finds the largest id (pgr_open_existing sets next_tid from it).
TidFresh == \A k, l \in 0..(NextLsn - 1) :
              Rec(k).type = "begin" /\ Rec(l).type = "begin" /\ Rec(k).tid = Rec(l).tid => k = l

\* pgr_rollback follows chains on which there are only updates, CLRs and the
\* BEGIN of the transaction itself: the branches that return ERR_CORRUPT are not
\* taken.  An id that is used again would make one chain of the records of two.
UndoableAt(l, t) == /\ l < Len(log)
                    /\ Rec(l).type \in {"update", "clr", "begin"}
                    /\ Rec(l).tid = t
RollbackChain ==
  /\ TidFresh
  /\ \A t \in Tids : txn[t].st \in {"running", "rolling"} =>
       /\ UndoableAt(txn[t].last, t)
       /\ txn[t].undoNext = 0 \/ UndoableAt(txn[t].undoNext, t)

\* A rollback that came to its savepoint has given every page the transaction
\* updated after it the content it had there, earlier rollbacks to other
\* savepoints included.
FirstAfter(l, t, s) ==
  /\ l > s /\ Rec(l).type = "update" /\ Rec(l).tid = t
  /\ \A k \in (s + 1)..(l - 1) : ~(IsPageRec(Rec(k)) /\ Rec(k).tid = t /\ Rec(k).pg = Rec(l).pg)
Restored(t, s) == \A l \in 0..(NextLsn - 1) : FirstAfter(l, t, s) => mem[Rec(l).pg].val = Rec(l).undo
RollbackReturns(t) == phase' = "up" /\ txn[t].st = "rolling" /\ txn'[t].st = "running"

RollbackRestores ==
  [][\A t \in Tids : RollbackReturns(t) /\ txn[t].undoNext <= txn[t].save
                       => Restored(t, txn[t].save)]_vars

\* After a restart no page shows an update of a transaction that never
\* committed and is not running.
LastOf(p) == CHOOSE l \in 0..(NextLsn - 1) :
               /\ IsPageRec(Rec(l)) /\ Rec(l).pg = p
               /\ \A k \in (l + 1)..(NextLsn - 1) : ~(IsPageRec(Rec(k)) /\ Rec(k).pg = p)
InLog(type, t) == \E l \in 0..(NextLsn - 1) : Rec(l).type = type /\ Rec(l).tid = t
LosersUndone ==
  phase = "up" => \A p \in Pages :
    \/ Rec(LastOf(p)).type = "clr"
    \/ Rec(LastOf(p)).tid \in InTable
    \/ InLog("commit", Rec(LastOf(p)).tid)

\* The undo of a restart meets only records in the file that are updates, CLRs
\* or the BEGIN of the transaction it takes back (at another one
\* pgr_restart_undo reads for ever), and when it is through with a transaction
\* no page is as that updated it up to the LSN at which the analysis left its
\* undo_next_lsn: also when an earlier restart died in its undo, whose CLRs are
\* then in the log and whose pages may be in the file or not.
UndoRestores ==
  [][phase = "undo" => \A t \in Losers :
       /\ ctx.att[t].undoNext \in InFile /\ UndoableAt(ctx.att[t].undoNext, t)
       /\ phase' = "undo" /\ ctx'.att[t].st = "none"
            => \A l \in 0..AttOf(ctx.master)[t].undoNext :
                 FirstAfter(l, t, 0) => mem[Rec(l).pg].val = Rec(l).undo]_vars

\* The WAL rule for the pages that only pgr_evict writes to the file.
DataWalRule == \A p \in Pages \ {Root} : disk[p].lsn < flushed

\* A COMMIT record is in the log file when pgr_commit has returned, for good.
CommitLogged == \A t \in acked : \E c \in InFile : Rec(c).type = "commit" /\ Rec(c).tid = t

\* What a transaction did is never taken back once its pgr_commit returned
\* SUCCESS (a CLR of its own older than its COMMIT is a rollback it asked for).
CommittedStays ==
  \A c, l \in 0..(NextLsn - 1) :
     /\ Rec(c).type = "commit" /\ Rec(c).tid \in acked
     /\ Rec(l).type = "clr" /\ Rec(l).tid = Rec(c).tid
     => l < c

\* Whatever happened before, the database can be opened.
OpenSucceeds == phase # "failed"

\* What a log says of the pages, record by record, and what a reader gets.
PagesWritten(r) == IF IsPageRec(r) THEN {[pg |-> r.pg, val |-> r.redo]} ELSE {}
WritesIn(l)     == [i \in DOMAIN l |-> PagesWritten(l[i])]
Served          == IF phase = "up" THEN {[pg |-> p, val |-> mem[p].val] : p \in Pages} ELSE {}

\* Seen through the page records of its log, the pager is a PrefixStore: page
\* writes become visible one by one, and a crash forgets only a suffix of those
\* that were not flushed (pager.c without checkpoints).
Worth == Vals \cup {InitVal, 0}
Store == INSTANCE PrefixStore WITH
           Contents <- Worth, history <- WritesIn(log), synced <- flushed, served <- Served
ImplementsStore == Store!StoreSpec

\* A call of pgr_open comes to an open database.
RestartTerminates == phase = "down" ~> phase = "up"
=============================================================================
