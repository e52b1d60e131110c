---------------------------- MODULE AriesProofs ----------------------------
(***************************************************************************)
(* Proofs about Aries for any number of pages, values, transactions, log   *)
(* records and crashes: the types, and after them the write-ahead rule,    *)
(* the soundness of page LSNs and the durability of COMMIT records, which  *)
(* rest on what one step may do to the log (LogStep) and to one page       *)
(* (PageStep).                                                             *)
(*                                                                         *)
(* Then restarts, chains and rollbacks, for the pager as it is used (no    *)
(* checkpoints): a restart repeats history, a commit stays, the chains of  *)
(* a rollback are whole and no transaction id is used twice, and a         *)
(* rollback gives back what was there at its savepoint, whatever was       *)
(* rolled back before and whatever other transactions do in between. All   *)
(* of it rests on the shape of the log. What a record says of those before *)
(* it (Fits) is true when the record is appended and stays true, because a *)
(* log only grows at its end and is only cut there.                        *)
(***************************************************************************)
EXTENDS Aries, SequenceTheorems, WellFoundedInduction, TLAPS

\* A non-empty set of naturals has a minimum.
LEMMA MinIsMember ==
  ASSUME NEW S \in SUBSET Nat, S # {}
  PROVE  Min(S) \in S /\ \A x \in S : Min(S) <= x
<1> DEFINE R == OpToRel(<, Nat)
<1>1. R = {ss \in Nat \X Nat : ss[1] < ss[2]}
  BY DEF OpToRel
<1>2. PICK m \in S : \A x \in S : ~ (<<x, m>> \in R)
  BY NatLessThanWellFounded, WFMin
<1> HIDE DEF R
<1>3. \A x, y \in Nat : x < y => <<x, y>> \in R
  BY <1>1
<1>4. \A x \in S : m <= x
  <2> SUFFICES ASSUME NEW x \in S PROVE m <= x
    OBVIOUS
  <2>1. x \in Nat /\ m \in Nat
    OBVIOUS
  <2>2. ~ (x < m)
    BY <1>2, <1>3, <2>1, Zenon
  <2> QED
    BY <2>1, <2>2
<1> QED
  BY <1>4 DEF Min

\* So has, by reflection, a non-empty set of naturals with an upper bound.
LEMMA MaxIsMember ==
  ASSUME NEW n \in Nat, NEW S \in SUBSET (0..n), S # {}
  PROVE  Max(S) \in S /\ \A x \in S : x <= Max(S)
<1> DEFINE T == {k \in 0..n : n - k \in S}
<1>1. T \in SUBSET Nat
  OBVIOUS
<1>2. T # {}
  <2>1. PICK x \in S : TRUE
    OBVIOUS
  <2>2. n - x \in 0..n /\ n - (n - x) = x
    OBVIOUS
  <2> QED
    BY <2>1, <2>2
<1>3. Min(T) \in T /\ \A y \in T : Min(T) <= y
  BY <1>1, <1>2, MinIsMember
<1> DEFINE m == n - Min(T)
<1>4. m \in S
  BY <1>3
<1>5. \A x \in S : x <= m
  <2> SUFFICES ASSUME NEW x \in S PROVE x <= m
    OBVIOUS
  <2>1. n - x \in 0..n /\ n - (n - x) = x
    OBVIOUS
  <2>2. Min(T) <= n - x
    BY <1>3, <2>1
  <2>3. Min(T) \in Int /\ x \in Int
    BY <1>3
  <2> QED
    BY <2>2, <2>3
<1> HIDE DEF m
<1> QED
  BY <1>4, <1>5 DEF Max

-----------------------------------------------------------------------------
(* The records the program writes, and their places in the log. *)

LEMMA RecordTypes ==
  /\ \A t \in Tids : BeginRec(t) \in Records
  /\ \A t \in Tids, prev \in Nat : CommitRec(t, prev) \in Records /\ EndRec(t, prev) \in Records
  /\ \A t \in Tids, prev \in Nat, p \in Pages, u, v \in Contents :
       UpdateRec(t, prev, p, u, v) \in Records
  /\ \A t \in Tids, prev, next \in Nat, p \in Pages, v \in Contents :
       ClrRec(t, prev, p, next, v) \in Records
  /\ CkptBeginRec \in Records
  /\ \A att \in [Tids -> Entries], d \in [Pages -> Nat] : CkptEndRec(att, d) \in Records
BY DEF Records, BeginRec, CommitRec, EndRec, UpdateRec, ClrRec, CkptBeginRec, CkptEndRec

\* What reading a record of one type finds in it.
LEMMA RecordFields ==
  ASSUME NEW r \in Records
  PROVE  /\ r.type \in {"begin", "commit", "end", "update", "clr", "ckpt_begin", "ckpt_end"}
         /\ IsTxnRec(r) => r.tid \in Tids
         /\ r.type \in {"commit", "end", "update", "clr"} => r.prev \in Nat
         /\ IsPageRec(r) => r.pg \in Pages /\ r.redo \in Contents
         /\ r.type = "update" => r.undo \in Contents
         /\ r.type = "clr" => r.undoNext \in Nat
         /\ r.type = "ckpt_end" => r.att \in [Tids -> Entries] /\ r.dpt \in [Pages -> Nat]
BY DEF Records, IsTxnRec, IsPageRec

LEMMA ContentsTypes ==
  /\ Vals \subseteq Contents /\ InitVal \in Contents /\ Nat \subseteq Contents
  /\ Pages \subseteq Nat /\ Tids \subseteq Nat /\ Root \in Pages
BY NPagesAssumption DEF Contents, Pages, Tids, Root

-----------------------------------------------------------------------------
(* What the analysis computes has the types of struct aries_ctx. *)

\* A record of the log file is a record.
LEMMA LogRecords ==
  ASSUME LogOK
  PROVE  /\ \A l \in 0..(NextLsn - 1) : Rec(l) \in Records
         /\ NextLsn \in Nat /\ flushed \in Nat /\ flushed <= NextLsn
         /\ InFile \subseteq 0..(NextLsn - 1)
BY DEF LogOK, Rec, NextLsn, InFile

LEMMA AttType ==
  ASSUME LogOK, NEW m \in Nat
  PROVE  AttOf(m) \in [Tids -> Entries]
<1> SUFFICES ASSUME NEW t \in Tids, Mentioned(t, m) # {}
             PROVE  FirstEntry(Min(Mentioned(t, m)), t) \in Entries
  BY DEF AttOf, Entries, NoEntry
<1> DEFINE l == Min(Mentioned(t, m))
<1>1. Mentioned(t, m) \in SUBSET Nat
  BY DEF Mentioned, Scanned, InFile
<1>2. l \in Mentioned(t, m)
  BY <1>1, MinIsMember
<1> HIDE DEF l
<1>3. l \in InFile /\ Mentions(l, t) /\ ~ (Rec(l).type = "end" /\ Rec(l).tid = t)
  <2>1. l \in Scanned(m) /\ l >= l
    BY <1>1, <1>2 DEF Mentioned
  <2> QED
    BY <1>2, <2>1 DEF Mentioned, Scanned
<1>4. l \in Nat /\ Rec(l) \in Records
  BY <1>3, LogRecords DEF InFile
<1> DEFINE r == Rec(l)
<1>5. \/ r.type \in {"begin", "update", "clr", "commit"}
      \/ r.type = "ckpt_end"
  BY <1>3, <1>4, RecordFields DEF Mentions, IsTxnRec
<1>6. /\ r.type = "commit" => r.prev \in Nat
      /\ r.type = "clr" => r.undoNext \in Nat
      /\ r.type = "ckpt_end" => r.att[t] \in Entries
  BY <1>4, RecordFields
<1> HIDE DEF r
<1>7. /\ r.type = "begin" => FirstEntry(l, t) = [st |-> "U", last |-> l, undoNext |-> BeginPrev]
      /\ r.type = "update" => FirstEntry(l, t) = [st |-> "U", last |-> l, undoNext |-> l]
      /\ r.type = "clr" => FirstEntry(l, t) = [st |-> "U", last |-> l, undoNext |-> r.undoNext]
      /\ r.type = "commit" => FirstEntry(l, t) = [st |-> "committed", last |-> l, undoNext |-> r.prev]
      /\ r.type = "ckpt_end" => FirstEntry(l, t) = [r.att[t] EXCEPT !.st = "U"]
  BY DEF FirstEntry, r
<1> QED
  BY <1>4, <1>5, <1>6, <1>7 DEF Entries, BeginPrev, l

LEMMA DptType ==
  ASSUME LogOK, NEW m \in Nat, NEW freed
  PROVE  DptOf(m, freed) \in [Pages -> Nat]
<1> SUFFICES ASSUME NEW p \in Pages
             PROVE  /\ CkptsWith(p, m) # {} => Rec(Max(CkptsWith(p, m))).dpt[p] \in Nat
                    /\ UpdatesOf(p, m) # {} => Min(UpdatesOf(p, m)) \in Nat
                    /\ Len(log) \in Nat
  BY DEF DptOf
<1>1. CkptsWith(p, m) \in SUBSET (0..flushed) /\ flushed \in Nat
  BY DEF CkptsWith, Scanned, InFile, LogOK
<1>2. UpdatesOf(p, m) \in SUBSET Nat
  BY DEF UpdatesOf, Scanned, InFile
<1>3. CkptsWith(p, m) # {} => Rec(Max(CkptsWith(p, m))).dpt[p] \in Nat
  <2> SUFFICES ASSUME CkptsWith(p, m) # {}
               PROVE  Rec(Max(CkptsWith(p, m))).dpt[p] \in Nat
    OBVIOUS
  <2>1. PICK c \in CkptsWith(p, m) : c = Max(CkptsWith(p, m))
    BY <1>1, MaxIsMember
  <2>2. Rec(c) \in Records /\ Rec(c).type = "ckpt_end"
    BY <2>1, LogRecords DEF CkptsWith, Scanned
  <2>3. Rec(c).dpt \in [Pages -> Nat]
    BY <2>2, RecordFields
  <2> QED
    BY <2>1, <2>3
<1>4. UpdatesOf(p, m) # {} => Min(UpdatesOf(p, m)) \in Nat
  BY <1>2, MinIsMember
<1> QED
  BY <1>3, <1>4 DEF LogOK

LEMMA MaxTidType ==
  ASSUME LogOK, NEW m \in Nat, NEW r \in Nat
  PROVE  MaxTidRead(m, r) \in 0..MaxTid
<1> DEFINE K == {k \in InFile : IsTxnRec(Rec(k)) /\ (k >= r \/ k \in Scanned(m))}
           S == {0} \cup {Rec(l).tid : l \in K}
<1>1. \A l \in K : Rec(l).tid \in Tids
  BY LogRecords, RecordFields
<1>2. S \in SUBSET (0..MaxTid) /\ MaxTid \in Nat
  BY <1>1, MaxTidAssumption DEF Tids
<1> HIDE DEF K
<1>3. Max(S) \in S
  BY <1>2, MaxIsMember
<1> QED
  BY <1>2, <1>3 DEF MaxTidRead, K

-----------------------------------------------------------------------------
(* Type correctness, with checkpoints and without. *)

LEMMA InitTypes == Init => TypeOK
<1> SUFFICES ASSUME Init PROVE TypeOK
  OBVIOUS
<1>1. NPages \in Nat /\ NPages > 1 /\ 1 \in Tids /\ 2 \in Tids
  BY NPagesAssumption, MaxTidAssumption DEF Tids
<1> DEFINE n == 2 * NPages + 5
<1>2. ASSUME NEW i \in 1..n
      PROVE  InitLog[i] \in Records
  <2>1. CASE i \in {1, 5}
    BY <2>1, <1>1, RecordTypes DEF InitLog
  <2>2. CASE i = 2
    BY SMTT(20), <2>2, <1>1, RecordTypes, ContentsTypes DEF InitLog
  <2>3. CASE i \in {3, 4}
    BY <2>3, <1>1, RecordTypes DEF InitLog
  <2>4. CASE i \in {n - 1, n} /\ i > 5
    BY <2>4, <1>1, RecordTypes DEF InitLog
  <2>5. CASE i \in 6..(n - 2)
    <3>1. i - 2 \in Nat /\ (i % 2 = 1 => (i - 5) \div 2 \in Pages)
      BY <2>5, <1>1 DEF Pages
    <3>2. UpdateRec(2, i - 2, Root, 0, 0) \in Records
      BY <3>1, <1>1, RecordTypes, ContentsTypes
    <3>3. i % 2 = 1 => UpdateRec(2, i - 2, (i - 5) \div 2, InitVal, InitVal) \in Records
      BY <3>1, <1>1, RecordTypes, ContentsTypes
    <3>4. i % 2 \in {0, 1}
      BY <2>5
    <3>5. InitLog[i] = IF i % 2 = 0 THEN UpdateRec(2, i - 2, Root, 0, 0)
                       ELSE UpdateRec(2, i - 2, (i - 5) \div 2, InitVal, InitVal)
      BY <2>5, <1>1 DEF InitLog
    <3> QED
      BY <3>2, <3>3, <3>4, <3>5
  <2> QED
    BY <1>1, <2>1, <2>2, <2>3, <2>4, <2>5
<1>3. InitLog \in Seq(Records) /\ Len(InitLog) = n
  <2>1. InitLog \in [1..n -> Records]
    BY <1>2 DEF InitLog
  <2> QED
    BY <2>1, <1>1
<1>4. InitDisk \in [Pages -> [lsn : Nat, val : Contents]]
  BY <1>1, ContentsTypes DEF InitDisk, Pages
<1>5. LogOK
  BY <1>1, <1>3 DEF Init, LogOK
<1>6. PageOK
  BY <1>4 DEF Init, PageOK
<1>7. RunOK
  BY MaxTidAssumption DEF Init, RunOK, NoTxn, NoCkpt
<1>8. CtxOK
  BY MaxTidAssumption DEF Init, CtxOK, NoCtx, NoEntry, Entries
<1> QED
  BY <1>1, <1>5, <1>6, <1>7, <1>8, BoundsAssumption DEF Init, TypeOK

\* The values of a struct txn.
TxnStates == [st : {"none", "running", "rolling", "logged", "flushed", "ended", "done"},
              last : Nat, undoNext : Nat, commit : Nat, save : Nat]

\* One more record.
LEMMA AppendTypes ==
  ASSUME LogOK, NEW r \in Records, log' = Append(log, r), flushed' \in {flushed, Len(log), Len(log) + 1}
  PROVE  LogOK'
BY DEF LogOK

LEMMA TransactionTypes ==
  ASSUME TypeOK, NEW t \in Tids, Transaction(t)
  PROVE  TypeOK'
<1> USE DEF TypeOK
<1>0. /\ NextLsn \in Nat /\ t \in Nat /\ txn[t].last \in Nat
      /\ \A p \in Pages : mem[p].val \in Contents
  BY LogRecords, ContentsTypes DEF RunOK, PageOK
<1>1. CASE Begin(t)
  <2>1. LogOK'
    BY <1>1, RecordTypes, AppendTypes DEF Begin
  <2>2. RunOK'
    <3>1. nextTid' \in 1..(MaxTid + 1)
      BY <1>1, MaxTidAssumption DEF Begin, Tids
    <3>2. txn' \in [Tids -> TxnStates]
      BY <1>0, <1>1 DEF Begin, RunOK, NewTxn, NoTxn, TxnStates
    <3> QED
      BY <1>1, <3>1, <3>2 DEF Begin, RunOK, TxnStates
  <2> QED
    BY <1>1, <2>1, <2>2 DEF Begin, PageOK, CtxOK, pageVars
<1>2. ASSUME NEW p \in Pages, NEW v \in Vals, Update(t, p, v)
      PROVE  TypeOK'
  <2>1. LogOK'
    <3>1. UpdateRec(t, txn[t].last, p, mem[p].val, v) \in Records
      BY <1>0, RecordTypes, ContentsTypes
    <3> QED
      BY <1>2, <3>1, AppendTypes DEF Update
  <2>2. PageOK'
    BY <1>0, <1>2, ContentsTypes DEF Update, SavePage, PageOK, Image
  <2>3. RunOK'
    <3>1. dpt' \in [Pages -> Nat]
      BY <1>0, <1>2 DEF Update, SavePage, RunOK
    <3>2. txn' = [txn EXCEPT ![t].st = "running", ![t].last = NextLsn, ![t].undoNext = NextLsn]
      BY <1>2 DEF Update, SavePage
    <3>3. txn' \in [Tids -> TxnStates]
      <4>1. txn \in [Tids -> TxnStates]
        BY DEF RunOK, TxnStates
      <4>2. [txn[t] EXCEPT !.st = "running", !.last = NextLsn, !.undoNext = NextLsn] \in TxnStates
        BY <1>0, <4>1 DEF TxnStates
      <4>3. txn' = [txn EXCEPT ![t] = [txn[t] EXCEPT !.st = "running", !.last = NextLsn,
                                                     !.undoNext = NextLsn]]
        BY <3>2, <4>1 DEF TxnStates
      <4> QED
        BY <4>1, <4>2, <4>3
    <3> QED
      BY <1>2, <3>1, <3>3 DEF Update, RunOK, TxnStates
  <2> QED
    BY <1>2, <2>1, <2>2, <2>3 DEF Update, CtxOK
<1>3. CASE CommitLog(t)
  <2>1. LogOK'
    BY <1>0, <1>3, RecordTypes, AppendTypes DEF CommitLog
  <2>2. RunOK'
    BY ZenonT(30), <1>0, <1>3 DEF CommitLog, RunOK
  <2> QED
    BY <1>3, <2>1, <2>2 DEF CommitLog, PageOK, CtxOK, pageVars
<1>4. CASE CommitFlush(t)
  <2>1. RunOK'
    BY <1>4 DEF CommitFlush, RunOK
  <2>2. LogOK'
    BY <1>4 DEF CommitFlush, CommitFlushed, LogOK
  <2> QED
    BY <1>4, <2>1, <2>2 DEF CommitFlush, PageOK, CtxOK, pageVars
<1>5. CASE CommitEnd(t)
  <2>1. LogOK'
    BY <1>0, <1>5, RecordTypes, AppendTypes DEF CommitEnd, RunOK
  <2>2. RunOK'
    BY <1>5 DEF CommitEnd, RunOK
  <2> QED
    BY <1>5, <2>1, <2>2 DEF CommitEnd, PageOK, CtxOK, pageVars
<1>6. CASE CommitDone(t)
  <2>1. RunOK'
    <3>1. NoCkpt \in [pc : {"idle"}, begin : Nat, tid : 0..MaxTid]
      BY MaxTidAssumption DEF NoCkpt
    <3>2. txn' \in [Tids -> TxnStates]
      BY <1>6 DEF CommitDone, RunOK, TxnStates
    <3> QED
      BY <1>6, <3>1, <3>2 DEF CommitDone, RunOK, TxnStates
  <2> QED
    BY <1>6, <2>1 DEF CommitDone, LogOK, PageOK, CtxOK, walVars, pageVars
<1>7. ASSUME NEW s \in 0..(NextLsn - 1), Rollback(t, s)
      PROVE  TypeOK'
  <2>1. RunOK'
    <3>1. s \in Nat
      BY <1>0
    <3> QED
      BY ZenonT(30), <1>7, <3>1 DEF Rollback, RunOK
  <2> QED
    BY <1>7, <2>1 DEF Rollback, LogOK, PageOK, CtxOK, walVars, pageVars
<1>8. CASE RollbackUpdate(t)
  <2> DEFINE r == UndoRec(t)
  <2>1. r \in Records /\ r.type = "update" /\ Undone(r) = r.undo
    BY <1>8, LogRecords DEF RollbackUpdate, UndoRec, Undone
  <2>2. r.tid \in Tids /\ r.prev \in Nat /\ r.pg \in Pages /\ r.undo \in Contents
    BY <2>1, RecordFields DEF IsTxnRec, IsPageRec
  <2> HIDE DEF r
  <2>3. /\ log' = Append(log, ClrRec(r.tid, txn[t].last, r.pg, r.prev, r.undo))
        /\ mem' = [mem EXCEPT ![r.pg] = Image(NextLsn, r.undo)]
        /\ dirty' = dirty \cup {r.pg}
        /\ txn' = [txn EXCEPT ![t].last = NextLsn, ![t].undoNext = r.prev]
        /\ UNCHANGED <<flushed, disk, dpt, nextTid, phase, ctx, ckpt, acked, crashes>>
    BY <1>8, <2>1 DEF RollbackUpdate, r
  <2>4. LogOK'
    BY <1>0, <2>2, <2>3, RecordTypes, AppendTypes
  <2>5. PageOK'
    BY <1>0, <2>2, <2>3 DEF PageOK, Image
  <2>6. RunOK'
    BY ZenonT(30), <1>0, <2>2, <2>3 DEF RunOK
  <2> QED
    BY <2>3, <2>4, <2>5, <2>6 DEF CtxOK
<1>9. CASE RollbackSkip(t)
  <2>1. UndoRec(t).type = "clr" => UndoRec(t).undoNext \in Nat
    BY <1>9, LogRecords, RecordFields DEF RollbackSkip, UndoRec
  <2>2. RunOK'
    BY <1>9, <2>1 DEF RollbackSkip, RunOK
  <2> QED
    BY <1>9, <2>2 DEF RollbackSkip, LogOK, PageOK, CtxOK, walVars, pageVars
<1>10. CASE RollbackEof(t) \/ RollbackReturn(t)
  <2>1. RunOK'
    BY <1>10 DEF RollbackEof, RollbackReturn, RunOK
  <2> QED
    BY <1>10, <2>1 DEF RollbackEof, RollbackReturn, LogOK, PageOK, CtxOK, walVars, pageVars
<1> QED
  BY <1>1, <1>2, <1>3, <1>4, <1>5, <1>6, <1>7, <1>8, <1>9, <1>10 DEF Transaction

\* The buffer pool, flushes, crashes and closes.
LEMMA PoolTypes ==
  ASSUME TypeOK, (\E p \in Pages : Evict(p)) \/ Flush \/ Crash \/ Close
  PROVE  TypeOK'
<1> USE DEF TypeOK
<1>1. ASSUME NEW p \in Pages, Evict(p)
      PROVE  TypeOK'
  <2>1. LogOK'
    BY <1>1 DEF Evict, EvictFlushed, LogOK
  <2>2. PageOK'
    BY <1>1 DEF Evict, PageOK
  <2>3. RunOK'
    BY <1>1 DEF Evict, RunOK
  <2> QED
    BY <1>1, <2>1, <2>2, <2>3 DEF Evict, CtxOK
<1>2. CASE Flush
  <2>1. LogOK'
    BY <1>2 DEF Flush, LogOK
  <2> QED
    BY <1>2, <2>1 DEF Flush, PageOK, RunOK, CtxOK, pageVars, runVars
<1>3. ASSUME GoDown
      PROVE  RunOK' /\ CtxOK' /\ crashes' \in 0..MaxCrash /\ acked' \subseteq Tids /\ dirty' = {}
  <2>1. RunOK'
    <3>1. NoCkpt \in [pc : {"idle"}, begin : Nat, tid : 0..MaxTid] /\ 1 \in 1..(MaxTid + 1)
      BY MaxTidAssumption DEF NoCkpt
    <3> QED
      BY <1>3, <3>1 DEF GoDown, RunOK, NoTxn
  <2>2. CtxOK'
    BY <1>3, MaxTidAssumption DEF GoDown, CtxOK, NoCtx, NoEntry, Entries
  <2>3. crashes' \in 0..MaxCrash
    BY <1>3, BoundsAssumption DEF GoDown
  <2> QED
    BY <1>3, <2>1, <2>2, <2>3 DEF GoDown
<1>4. CASE Crash
  <2>1. LogOK'
    <3>1. PICK n \in flushed..Len(log) : log' = SubSeq(log, 1, n) /\ flushed' = n
      BY <1>4 DEF Crash
    <3> QED
      BY <3>1 DEF LogOK
  <2>2. GoDown /\ mem' = disk /\ disk' = disk /\ phase' = "down"
    BY <1>4 DEF Crash, GoDown
  <2> QED
    BY <1>3, <2>1, <2>2 DEF PageOK
<1>5. CASE Close
  <2>1. LogOK'
    BY <1>5 DEF Close, LogOK
  <2>2. GoDown /\ mem' = mem /\ disk' = mem /\ phase' = "down"
    BY <1>5 DEF Close, GoDown
  <2> QED
    BY <1>3, <2>1, <2>2 DEF PageOK
<1> QED
  BY <1>1, <1>2, <1>4, <1>5

LEMMA CheckpointTypes ==
  ASSUME TypeOK, Checkpoint
  PROVE  TypeOK'
<1> USE DEF TypeOK
<1>0. NextLsn \in Nat /\ \A p \in Pages : mem[p].val \in Contents
  BY LogRecords DEF PageOK
<1>1. CASE CkptBegin
  <2>1. LogOK'
    BY <1>1, RecordTypes, AppendTypes DEF CkptBegin
  <2>2. RunOK'
    BY <1>0, <1>1, MaxTidAssumption DEF CkptBegin, RunOK
  <2> QED
    BY <1>1, <2>1, <2>2 DEF CkptBegin, PageOK, CtxOK, pageVars
<1>2. CASE CkptEnd
  <2> DEFINE att == [t \in Tids |-> IF t \in InTable
                        THEN [st |-> "U", last |-> txn[t].last, undoNext |-> txn[t].undoNext]
                        ELSE NoEntry]
  <2>1. att \in [Tids -> Entries] /\ dpt \in [Pages -> Nat]
    BY DEF RunOK, Entries, NoEntry
  <2>2. log' = Append(log, CkptEndRec(att, dpt))
    BY <1>2 DEF CkptEnd
  <2> HIDE DEF att
  <2>3. LogOK'
    BY <1>2, <2>1, <2>2, RecordTypes, AppendTypes DEF CkptEnd
  <2>4. RunOK'
    BY <1>2 DEF CkptEnd, RunOK
  <2> QED
    BY <1>2, <2>3, <2>4 DEF CkptEnd, PageOK, CtxOK, pageVars
<1>3. ASSUME NEW t \in Tids, CkptTxn(t)
      PROVE  TypeOK'
  <2>1. LogOK'
    BY <1>3, RecordTypes, AppendTypes DEF CkptTxn
  <2>2. nextTid' \in 1..(MaxTid + 1) /\ t \in 0..MaxTid
    BY <1>3, MaxTidAssumption DEF CkptTxn, Tids
  <2>3. txn' \in [Tids -> TxnStates]
    BY <1>0, <1>3 DEF CkptTxn, RunOK, NewTxn, NoTxn, TxnStates
  <2>4. ckpt' \in [pc : {"begin"}, begin : Nat, tid : 0..MaxTid]
    BY <1>3, <2>2 DEF CkptTxn, RunOK
  <2>5. RunOK'
    BY <1>3, <2>2, <2>3, <2>4 DEF CkptTxn, RunOK, TxnStates
  <2> QED
    BY <1>3, <2>1, <2>5 DEF CkptTxn, PageOK, CtxOK, pageVars
<1>4. ASSUME NEW t \in Tids, CkptSave(t)
      PROVE  TypeOK'
  <2>1. ckpt.begin \in Nat /\ txn[t].last \in Nat /\ ckpt.begin \in Contents /\ Root \in Pages
    BY ContentsTypes DEF RunOK
  <2>2. LogOK'
    <3>1. UpdateRec(t, txn[t].last, Root, mem[Root].val, ckpt.begin) \in Records
      BY <1>0, <2>1, RecordTypes
    <3> QED
      BY <1>4, <3>1, AppendTypes DEF CkptSave
  <2>3. PageOK'
    BY <1>0, <1>4, <2>1 DEF CkptSave, SavePage, PageOK, Image
  <2>4. dpt' \in [Pages -> Nat]
    BY <1>0, <1>4 DEF CkptSave, SavePage, RunOK
  <2>5. txn' \in [Tids -> TxnStates]
    <3>1. txn' = [txn EXCEPT ![t].st = "running", ![t].last = NextLsn, ![t].undoNext = NextLsn]
      BY <1>4 DEF CkptSave, SavePage
    <3> QED
      BY ZenonT(30), <1>0, <3>1 DEF RunOK, TxnStates
  <2>6. RunOK'
    BY <1>4, <2>4, <2>5 DEF CkptSave, RunOK, TxnStates
  <2> QED
    BY <1>4, <2>2, <2>3, <2>6 DEF CkptSave, CtxOK
<1>5. CASE CkptWriteRoot
  <2>1. PageOK'
    BY <1>5, ContentsTypes DEF CkptWriteRoot, PageOK
  <2>2. RunOK'
    BY <1>5 DEF CkptWriteRoot, RunOK
  <2> QED
    BY <1>5, <2>1, <2>2 DEF CkptWriteRoot, LogOK, CtxOK, walVars
<1>6. CASE CkptFlush
  <2>1. LogOK'
    BY <1>6 DEF CkptFlush, LogOK
  <2>2. RunOK'
    BY <1>6 DEF CkptFlush, RunOK
  <2> QED
    BY <1>6, <2>1, <2>2 DEF CkptFlush, PageOK, CtxOK, pageVars
<1> QED
  BY <1>1, <1>2, <1>3, <1>4, <1>5, <1>6 DEF Checkpoint

LEMMA RestartTypes ==
  ASSUME TypeOK, Restart
  PROVE  TypeOK'
<1> USE DEF TypeOK
<1>0. NextLsn \in Nat /\ Len(log) = NextLsn
  BY LogRecords DEF NextLsn
<1>1. CASE Open
  <2> DEFINE m == disk[Root].val
  <2>1. CASE UNCHANGED ctx
    BY <1>1, <2>1 DEF Open, LogOK, PageOK, RunOK, CtxOK, walVars, pageVars, runVars
  <2>2. CASE ctx' # ctx
    <3>1. PICK freed \in SUBSET {p \in Pages : CkptsWith(p, m) # {}} :
            /\ RecLsns(DptOf(m, freed)) # {}
            /\ ctx' = [att |-> AttOf(m), dpt |-> DptOf(m, freed), redo |-> Min(RecLsns(DptOf(m, freed))),
                       maxTid |-> MaxTidRead(m, Min(RecLsns(DptOf(m, freed)))), master |-> m]
      BY <1>1, <2>2 DEF Open
    <3>2. m \in Nat
      BY <1>1, <2>2 DEF Open, InFile
    <3> DEFINE d == DptOf(m, freed)
               r == Min(RecLsns(d))
    <3>3. AttOf(m) \in [Tids -> Entries] /\ d \in [Pages -> Nat]
      BY <3>2, AttType, DptType
    <3> HIDE DEF m, d
    <3>4. r \in Nat
      <4>1. RecLsns(d) \in SUBSET Nat
        BY <3>3 DEF RecLsns
      <4>2. r \in RecLsns(d)
        BY <3>1, <4>1, MinIsMember DEF d
      <4> QED
        BY <4>1, <4>2
    <3>5. MaxTidRead(m, r) \in 0..MaxTid
      BY <3>2, <3>4, MaxTidType
    <3>6. CtxOK'
      BY <3>1, <3>2, <3>3, <3>4, <3>5 DEF CtxOK, d
    <3> QED
      BY <1>1, <2>2, <3>6 DEF Open, LogOK, PageOK, RunOK, walVars, pageVars, runVars
  <2> QED
    BY <2>1, <2>2
<1>2. ASSUME NEW t \in Tids, AnalysisEnd(t)
      PROVE  TypeOK'
  <2>1. ctx.att[t].last \in Nat /\ NoEntry \in Entries
    BY DEF CtxOK, Entries, NoEntry
  <2>2. LogOK'
    BY <1>2, <2>1, RecordTypes, AppendTypes DEF AnalysisEnd
  <2>3. CtxOK'
    BY <1>2, <2>1 DEF AnalysisEnd, CtxOK
  <2> QED
    BY <1>2, <2>2, <2>3 DEF AnalysisEnd, PageOK, RunOK, pageVars, runVars
<1>3. CASE AnalysisDone \/ RedoDone
  BY <1>3 DEF AnalysisDone, RedoDone, LogOK, PageOK, RunOK, CtxOK, walVars, pageVars, runVars
<1>4. CASE Redo
  <2> DEFINE l == ctx.redo
             r == Rec(l)
  <2>1. l \in InFile /\ l \in Nat /\ r \in Records
    BY <1>4, LogRecords DEF Redo, CtxOK
  <2>2. IsPageRec(r) => r.pg \in Pages /\ r.redo \in Contents
    BY <2>1, RecordFields
  <2>3. /\ dirty' \in {dirty, dirty \cup {r.pg}} /\ (dirty' = dirty \/ IsPageRec(r))
        /\ mem' = mem \/ (IsPageRec(r) /\ mem' = [mem EXCEPT ![r.pg] = Image(l, r.redo)])
        /\ \/ ctx' = [ctx EXCEPT !.redo = l + 1]
           \/ IsPageRec(r) /\ ctx' = [ctx EXCEPT !.redo = l + 1, !.dpt[r.pg] = mem[r.pg].lsn + 1]
        /\ UNCHANGED <<walVars, disk, runVars, phase, acked, crashes>>
    BY <1>4 DEF Redo, ReadNext
  <2> HIDE DEF l, r
  <2>4. PageOK'
    BY <2>1, <2>2, <2>3 DEF PageOK, Image
  <2>5. CtxOK'
    <3>1. CASE ctx' = [ctx EXCEPT !.redo = l + 1]
      BY <2>1, <3>1 DEF CtxOK
    <3>2. CASE IsPageRec(r) /\ ctx' = [ctx EXCEPT !.redo = l + 1, !.dpt[r.pg] = mem[r.pg].lsn + 1]
      <4>1. mem[r.pg].lsn + 1 \in Nat
        BY <2>2, <3>2 DEF PageOK
      <4> DEFINE d == [ctx.dpt EXCEPT ![r.pg] = mem[r.pg].lsn + 1]
      <4>2. d \in [Pages -> Nat]
        BY <2>2, <3>2, <4>1 DEF CtxOK
      <4>3. ctx' = [att |-> ctx.att, dpt |-> d, redo |-> l + 1, maxTid |-> ctx.maxTid,
                    master |-> ctx.master]
        BY <3>2 DEF CtxOK
      <4> HIDE DEF d
      <4> QED
        BY <2>1, <4>2, <4>3 DEF CtxOK
    <3> QED
      BY <2>3, <3>1, <3>2
  <2> QED
    BY <2>3, <2>4, <2>5 DEF LogOK, RunOK, walVars, runVars
<1>5. CASE UndoUpdate
  <2>1. PICK l \in InFile :
          /\ Rec(l).type = "update"
          /\ LET r == Rec(l) IN
               /\ log' = Append(log, ClrRec(r.tid, ctx.att[r.tid].last, r.pg, r.prev, Undone(r)))
               /\ flushed' = Len(log) + 1
               /\ mem' = [mem EXCEPT ![r.pg] = Image(NextLsn, Undone(r))]
               /\ dirty' = dirty \cup {r.pg}
               /\ ctx' = [ctx EXCEPT !.att[r.tid].last = NextLsn, !.att[r.tid].undoNext = r.prev]
          /\ UNCHANGED <<disk, runVars, phase, acked, crashes>>
    BY <1>5 DEF UndoUpdate
  <2> DEFINE r == Rec(l)
  <2>2. r \in Records /\ r.type = "update" /\ Undone(r) = r.undo
    BY <2>1, LogRecords DEF Undone
  <2>3. r.tid \in Tids /\ r.prev \in Nat /\ r.pg \in Pages /\ r.undo \in Contents
    BY <2>2, RecordFields DEF IsTxnRec, IsPageRec
  <2>4. ctx.att[r.tid].last \in Nat
    BY <2>3 DEF CtxOK, Entries
  <2> HIDE DEF r
  <2>5. /\ log' = Append(log, ClrRec(r.tid, ctx.att[r.tid].last, r.pg, r.prev, r.undo))
        /\ flushed' = Len(log) + 1
        /\ mem' = [mem EXCEPT ![r.pg] = Image(NextLsn, r.undo)]
        /\ dirty' = dirty \cup {r.pg}
        /\ ctx' = [ctx EXCEPT !.att[r.tid].last = NextLsn, !.att[r.tid].undoNext = r.prev]
        /\ UNCHANGED <<disk, runVars, phase, acked, crashes>>
    BY <2>1, <2>2 DEF r
  <2>6. LogOK'
    BY <2>3, <2>4, <2>5, RecordTypes, AppendTypes
  <2>7. PageOK'
    BY <1>0, <2>3, <2>5 DEF PageOK, Image
  <2>8. CtxOK'
    <3> DEFINE entry == [ctx.att[r.tid] EXCEPT !.last = NextLsn, !.undoNext = r.prev]
    <3>1. entry \in Entries
      BY <1>0, <2>3 DEF CtxOK, Entries
    <3>2. ctx' = [ctx EXCEPT !.att = [ctx.att EXCEPT ![r.tid] = entry]]
      BY <2>3, <2>5 DEF CtxOK
    <3> HIDE DEF entry
    <3>3. [ctx.att EXCEPT ![r.tid] = entry] \in [Tids -> Entries]
      BY <2>3, <3>1 DEF CtxOK
    <3> QED
      BY <3>2, <3>3 DEF CtxOK
  <2> QED
    BY <2>5, <2>6, <2>7, <2>8 DEF RunOK, runVars
<1>6. CASE UndoClr
  <2>1. PICK l \in InFile :
          /\ Rec(l).type = "clr"
          /\ ctx' = [ctx EXCEPT !.att[Rec(l).tid].undoNext = Rec(l).undoNext]
          /\ UNCHANGED <<walVars, pageVars, runVars, phase, acked, crashes>>
    BY <1>6 DEF UndoClr
  <2>2. Rec(l).tid \in Tids /\ Rec(l).undoNext \in Nat
    BY <2>1, LogRecords, RecordFields DEF IsTxnRec
  <2>3. CtxOK'
    BY ZenonT(30), <2>1, <2>2 DEF CtxOK, Entries
  <2> QED
    BY <2>1, <2>3 DEF LogOK, PageOK, RunOK, walVars, pageVars, runVars
<1>7. CASE UndoBegin
  <2>1. PICK l \in InFile :
          /\ Rec(l).type = "begin"
          /\ log' = Append(log, EndRec(Rec(l).tid, l))
          /\ ctx' = [ctx EXCEPT !.att[Rec(l).tid] = NoEntry]
          /\ UNCHANGED <<flushed, pageVars, runVars, phase, acked, crashes>>
    BY <1>7 DEF UndoBegin
  <2>2. Rec(l).tid \in Tids /\ l \in Nat
    BY <2>1, LogRecords, RecordFields DEF IsTxnRec
  <2>3. LogOK'
    BY <2>1, <2>2, RecordTypes, AppendTypes
  <2>4. CtxOK'
    BY <2>1, <2>2 DEF CtxOK, NoEntry, Entries
  <2> QED
    BY <2>1, <2>3, <2>4 DEF PageOK, RunOK, pageVars, runVars
<1>8. CASE RestartDone
  <2>1. RunOK'
    <3>1. ctx.maxTid + 1 \in 1..(MaxTid + 1)
      BY MaxTidAssumption DEF CtxOK
    <3> QED
      BY <1>8, <3>1 DEF RestartDone, FirstTid, RunOK
  <2>2. CtxOK'
    BY <1>8, MaxTidAssumption DEF RestartDone, CtxOK, NoCtx, NoEntry, Entries
  <2> QED
    BY <1>8, <2>1, <2>2 DEF RestartDone, LogOK, PageOK, walVars, pageVars
<1> QED
  BY <1>1, <1>2, <1>3, <1>4, <1>5, <1>6, <1>7, <1>8 DEF Restart

LEMMA StepTypes == TypeOK /\ [Next \/ Checkpoint]_vars => TypeOK'
<1> SUFFICES ASSUME TypeOK, [Next \/ Checkpoint]_vars PROVE TypeOK'
  OBVIOUS
<1>1. CASE UNCHANGED vars
  BY <1>1 DEF TypeOK, vars, LogOK, PageOK, RunOK, CtxOK
<1> QED
  BY <1>1, TransactionTypes, PoolTypes, CheckpointTypes, RestartTypes DEF Next

\* The library as nsfslite and nsdblite use it is the library of a program that
\* never calls pgr_checkpoint.
LEMMA SpecIsCkptSpec == Spec => CkptSpec
<1>1. [Next]_vars => [Next \/ Checkpoint]_vars
  OBVIOUS
<1> QED
  BY <1>1, PTL DEF Spec, CkptSpec

\* The types of the variables, in every behaviour with checkpoints.
THEOREM TypesWithCheckpoints == CkptSpec => []TypeOK
BY InitTypes, StepTypes, PTL DEF CkptSpec

\* The types of the variables, in every behaviour of Spec.
THEOREM TypeCorrect == Spec => []TypeOK
BY SpecIsCkptSpec, TypesWithCheckpoints, PTL

-----------------------------------------------------------------------------
(* Page LSNs and the synced log. *)

AnyNext == Next \/ Checkpoint

-----------------------------------------------------------------------------
(* The log: records are only added, or the tail that is not in the file is *)
(* lost in a crash.                                                        *)

\* The first n records are still there, unchanged.
Kept(n) == /\ n <= Len(log')
           /\ \A l \in 0..(n - 1) : Rec(l)' = Rec(l)

LogStep == /\ flushed <= flushed' /\ flushed' <= Len(log')
           /\ Kept(IF Crash THEN flushed' ELSE Len(log))

LEMMA AppendKeeps ==
  ASSUME LogOK, NEW r, log' = Append(log, r)
  PROVE  Kept(Len(log)) /\ Len(log') = Len(log) + 1 /\ log'[Len(log) + 1] = r
<1> DEFINE S == Records \cup {r}
<1>1. log \in Seq(S) /\ r \in S
  BY DEF LogOK
<1> HIDE DEF S
<1>2. /\ Len(log') = Len(log) + 1 /\ Len(log) \in Nat
      /\ \A i \in 1..Len(log) : log'[i] = log[i]
      /\ log'[Len(log) + 1] = r
  BY <1>1
<1> QED
  BY <1>2 DEF Kept, Rec

LEMMA LogSteps ==
  ASSUME TypeOK, [AnyNext]_vars
  PROVE  LogStep
<1> DEFINE appended == \E r : log' = Append(log, r)
<1>1. \/ log' = log \/ appended
      \/ Crash
  <2>1. ASSUME NEW t \in Tids, Transaction(t) PROVE log' = log \/ appended
    BY <2>1 DEF Transaction, Begin, Update, CommitLog, CommitFlush, CommitEnd, CommitDone, Rollback,
                RollbackUpdate, RollbackSkip, RollbackEof, RollbackReturn, walVars
  <2>2. CASE (\E p \in Pages : Evict(p)) \/ Flush \/ Close
    BY <2>2 DEF Evict, Flush, Close
  <2>3. CASE Restart
    BY <2>3 DEF Restart, Open, AnalysisEnd, AnalysisDone, Redo, RedoDone, UndoUpdate, UndoClr,
                UndoBegin, RestartDone, walVars
  <2>4. CASE Checkpoint
    BY <2>4 DEF Checkpoint, CkptBegin, CkptEnd, CkptTxn, CkptSave, CkptWriteRoot, CkptFlush, walVars
  <2>5. CASE UNCHANGED vars
    BY <2>5 DEF vars
  <2> QED
    BY <2>1, <2>2, <2>3, <2>4, <2>5 DEF AnyNext, Next
<1>2. LogOK /\ LogOK'
  BY StepTypes DEF TypeOK, AnyNext
<1>3. \/ flushed' = flushed \/ flushed' = Len(log)
      \/ appended /\ flushed' = Len(log) + 1
      \/ Crash
  <2>1. ASSUME NEW t \in Tids, Transaction(t) PROVE flushed' \in {flushed, Len(log)}
    BY <2>1 DEF Transaction, Begin, Update, CommitLog, CommitFlush, CommitFlushed, CommitEnd,
                CommitDone, Rollback, RollbackUpdate, RollbackSkip, RollbackEof, RollbackReturn, walVars
  <2>2. CASE (\E p \in Pages : Evict(p)) \/ Flush \/ Close
    BY <2>2 DEF Evict, EvictFlushed, Flush, Close
  <2>3. CASE Restart
    BY <2>3 DEF Restart, Open, AnalysisEnd, AnalysisDone, Redo, RedoDone, UndoUpdate, UndoClr,
                UndoBegin, RestartDone, walVars
  <2>4. CASE Checkpoint
    BY <2>4 DEF Checkpoint, CkptBegin, CkptEnd, CkptTxn, CkptSave, CkptWriteRoot, CkptFlush, walVars
  <2>5. CASE UNCHANGED vars
    BY <2>5 DEF vars
  <2> QED
    BY <2>1, <2>2, <2>3, <2>4, <2>5 DEF AnyNext, Next
<1>4. CASE Crash
  <2>1. PICK n \in flushed..Len(log) : log' = SubSeq(log, 1, n) /\ flushed' = n
    BY <1>4 DEF Crash
  <2>2. flushed \in Nat /\ n \in Nat /\ n <= Len(log)
    BY <1>2 DEF LogOK
  <2>3. Len(log') = n /\ \A i \in 1..n : log'[i] = log[i]
    BY <1>2, <2>1, <2>2 DEF LogOK
  <2>4. Kept(n)
    BY <2>2, <2>3 DEF Kept, Rec
  <2> QED
    BY <1>4, <2>1, <2>2, <2>3, <2>4 DEF LogStep
<1>5. CASE log' = log
  BY <1>2, <1>3, <1>4, <1>5 DEF LogStep, LogOK, Kept, Rec
<1>6. CASE appended
  BY <1>2, <1>3, <1>4, <1>6, AppendKeeps DEF LogStep, LogOK
<1> QED
  BY <1>1, <1>4, <1>5, <1>6

-----------------------------------------------------------------------------
(* One page: what a step may do to it. *)

\* Nothing, and the pager does not leave normal processing.
Untouched(p) == /\ mem'[p] = mem[p] /\ disk'[p] = disk[p]
                /\ phase' # "up" => phase # "up"

\* pgr_save, pgr_rollback, pgr_restart_undo: a new record and its image.
Written(p) ==
  /\ disk'[p] = disk[p]
  /\ phase' = phase
  /\ phase = "up" \/ flushed' = Len(log')
  /\ \E r : /\ IsPageRec(r) /\ r.pg = p
           /\ log' = Append(log, r)
           /\ mem'[p] = Image(Len(log), r.redo)

\* pgr_evict and pgr_close.
Saved(p) == /\ disk'[p] = mem[p] /\ mem'[p] = mem[p]
            /\ log' = log
            /\ flushed' = Len(log) \/ (phase # "up" /\ flushed' = flushed)

\* pgr_restart_redo.
Redone(p) == /\ disk'[p] = disk[p]
             /\ log' = log /\ flushed' = flushed
             /\ \E l \in InFile : /\ IsPageRec(Rec(l)) /\ Rec(l).pg = p
                                 /\ mem'[p] = Image(l, Rec(l).redo)

\* A crash.
Lost(p) == Crash /\ mem'[p] = disk[p] /\ disk'[p] = disk[p]

PageStep(p) == Untouched(p) \/ Written(p) \/ Saved(p) \/ Redone(p) \/ Lost(p)

LEMMA PageSteps ==
  ASSUME TypeOK, [AnyNext]_vars, NEW p \in Pages, p # Root \/ ~ CkptWriteRoot
  PROVE  PageStep(p)
<1> USE DEF PageStep
<1>0. /\ mem \in [Pages -> [lsn : Nat, val : Contents]] /\ disk \in [Pages -> [lsn : Nat, val : Contents]]
      /\ NextLsn = Len(log)
  BY DEF TypeOK, PageOK, NextLsn
<1>1. ASSUME NEW t \in Tids, Transaction(t)
      PROVE  PageStep(p)
  <2>1. ASSUME NEW q \in Pages, NEW v \in Vals, Update(t, q, v)
        PROVE  PageStep(p)
    <3> DEFINE r == UpdateRec(t, txn[t].last, q, mem[q].val, v)
    <3>1. IsPageRec(r) /\ r.pg = q /\ r.redo = v
      BY DEF UpdateRec, IsPageRec
    <3> HIDE DEF r
    <3>2. /\ phase = "up" /\ phase' = phase /\ disk' = disk /\ log' = Append(log, r)
          /\ mem' = [mem EXCEPT ![q] = Image(Len(log), v)]
      BY <1>0, <2>1 DEF Update, Room, SavePage, r
    <3> QED
      BY <1>0, <3>1, <3>2 DEF Untouched, Written
  <2>2. CASE RollbackUpdate(t)
    <3> DEFINE u == UndoRec(t)
               r == ClrRec(u.tid, txn[t].last, u.pg, u.prev, Undone(u))
    <3>1. IsPageRec(r) /\ r.pg = u.pg /\ r.redo = Undone(u)
      BY DEF ClrRec, IsPageRec
    <3>2. /\ phase = "up" /\ phase' = phase /\ disk' = disk /\ log' = Append(log, r)
          /\ mem' = [mem EXCEPT ![u.pg] = Image(Len(log), Undone(u))]
      BY <1>0, <2>2 DEF RollbackUpdate, Undoing
    <3> HIDE DEF r, u
    <3> QED
      BY <1>0, <3>1, <3>2 DEF Untouched, Written
  <2>3. ASSUME NEW s \in 0..(NextLsn - 1), Rollback(t, s)
        PROVE  PageStep(p)
    BY <2>3 DEF Rollback, Untouched, pageVars
  <2>4. CASE Begin(t) \/ CommitLog(t) \/ CommitFlush(t) \/ CommitEnd(t) \/ CommitDone(t)
             \/ RollbackSkip(t) \/ RollbackEof(t) \/ RollbackReturn(t)
    BY <2>4 DEF Begin, CommitLog, CommitFlush, CommitEnd, CommitDone, RollbackSkip, RollbackEof,
                RollbackReturn, Untouched, pageVars
  <2> QED
    BY <1>1, <2>1, <2>2, <2>3, <2>4 DEF Transaction
<1>2. ASSUME NEW q \in Pages, Evict(q)
      PROVE  PageStep(p)
  <2>1. CASE p = q
    <3>1. disk'[p] = mem[p] /\ mem'[p] = mem[p] /\ log' = log
      BY <1>0, <1>2, <2>1 DEF Evict
    <3>2. flushed' = Len(log) \/ (phase # "up" /\ flushed' = flushed)
      BY <1>2 DEF Evict, EvictFlushed, Restarting
    <3>3. Saved(p)
      BY ONLY <3>1, <3>2 DEF Saved
    <3> QED
      BY <3>3
  <2>2. CASE p # q
    BY <1>0, <1>2, <2>2 DEF Evict, Untouched
  <2> QED
    BY <2>1, <2>2
<1>3. CASE Flush
  BY <1>3 DEF Flush, Untouched, pageVars
<1>4. CASE Crash
  BY <1>4 DEF Crash, Lost
<1>5. CASE Close
  <2>1. disk' = mem /\ mem' = mem /\ log' = log /\ flushed' = Len(log)
    BY <1>5 DEF Close
  <2>2. Saved(p)
    BY ONLY <2>1 DEF Saved
  <2> QED
    BY <2>2
<1>6. CASE Restart
  <2>1. CASE Open \/ (\E t \in Tids : AnalysisEnd(t)) \/ AnalysisDone \/ RedoDone \/ UndoClr
             \/ UndoBegin \/ RestartDone
    BY <2>1 DEF Open, AnalysisEnd, AnalysisDone, RedoDone, UndoClr, UndoAt, UndoBegin, RestartDone,
                Untouched, pageVars
  <2>2. CASE Redo
    <3>1. CASE mem' = mem
      BY <2>2, <3>1 DEF Redo, Untouched
    <3>2. CASE mem' # mem
      <4> DEFINE l == ctx.redo
                 r == Rec(l)
      <4>1. /\ l \in InFile /\ IsPageRec(r) /\ mem' = [mem EXCEPT ![r.pg] = Image(l, r.redo)]
            /\ disk' = disk /\ log' = log /\ flushed' = flushed /\ phase' = phase /\ phase = "redo"
        BY <2>2, <3>2 DEF Redo, walVars
      <4>2. CASE r.pg = p
        BY <1>0, <4>1, <4>2 DEF Redone
      <4>3. CASE r.pg # p
        BY <1>0, <4>1, <4>3 DEF Untouched
      <4> QED
        BY <4>2, <4>3
    <3> QED
      BY <3>1, <3>2
  <2>3. CASE UndoUpdate
    <3>1. PICK l \in InFile :
            /\ UndoAt(l)
            /\ LET u == Rec(l) IN
                 /\ log' = Append(log, ClrRec(u.tid, ctx.att[u.tid].last, u.pg, u.prev, Undone(u)))
                 /\ flushed' = Len(log) + 1
                 /\ mem' = [mem EXCEPT ![u.pg] = Image(NextLsn, Undone(u))]
            /\ UNCHANGED <<disk, phase>>
      BY <2>3 DEF UndoUpdate
    <3> DEFINE u == Rec(l)
               r == ClrRec(u.tid, ctx.att[u.tid].last, u.pg, u.prev, Undone(u))
    <3>2. IsPageRec(r) /\ r.pg = u.pg /\ r.redo = Undone(u)
      BY DEF ClrRec, IsPageRec
    <3>3. /\ log' = Append(log, r) /\ flushed' = Len(log) + 1
          /\ mem' = [mem EXCEPT ![u.pg] = Image(Len(log), Undone(u))]
          /\ disk' = disk /\ phase' = phase
      BY <1>0, <3>1
    <3>4. Len(log') = Len(log) + 1
      BY <3>3, AppendKeeps DEF TypeOK
    <3> HIDE DEF r, u
    <3> QED
      BY <1>0, <3>2, <3>3, <3>4 DEF Untouched, Written
  <2> QED
    BY <1>6, <2>1, <2>2, <2>3 DEF Restart
<1>7. CASE Checkpoint
  <2>1. ASSUME NEW t \in Tids, CkptSave(t)
        PROVE  PageStep(p)
    <3> DEFINE r == UpdateRec(t, txn[t].last, Root, mem[Root].val, ckpt.begin)
    <3>1. IsPageRec(r) /\ r.pg = Root /\ r.redo = ckpt.begin
      BY DEF UpdateRec, IsPageRec
    <3> HIDE DEF r
    <3>2. /\ phase = "up" /\ phase' = phase /\ disk' = disk /\ log' = Append(log, r)
          /\ mem' = [mem EXCEPT ![Root] = Image(Len(log), ckpt.begin)]
      BY <1>0, <2>1 DEF CkptSave, SavePage, r
    <3> QED
      BY <1>0, <3>1, <3>2 DEF Untouched, Written
  <2>2. CASE CkptWriteRoot
    BY <1>0, <2>2 DEF CkptWriteRoot, Untouched
  <2>3. CASE CkptBegin \/ CkptEnd \/ (\E t \in Tids : CkptTxn(t)) \/ CkptFlush
    BY <2>3 DEF CkptBegin, CkptEnd, CkptTxn, CkptFlush, Untouched, pageVars
  <2> QED
    BY <1>7, <2>1, <2>2, <2>3 DEF Checkpoint
<1>8. CASE UNCHANGED vars
  BY <1>8 DEF vars, Untouched
<1> QED
  BY <1>1, <1>2, <1>3, <1>4, <1>5, <1>6, <1>7, <1>8 DEF AnyNext, Next

-----------------------------------------------------------------------------
(***************************************************************************)
(* The write-ahead rule and the page LSNs, one page at a time.  That the   *)
(* page in the file is covered by the log file is not inductive: the page  *)
(* in memory must be covered by the log, and by the log file as long as    *)
(* the restart has not finished, because pgr_evict does not flush then.    *)
(***************************************************************************)
Covered(p) == /\ mem[p].lsn < Len(log)
              /\ phase # "up" => mem[p].lsn < flushed
              /\ disk[p].lsn < flushed

\* Page LSNs name the records that produced the content, in the two copies.
Named(p) == Covered(p) /\ Produced(p, mem[p]) /\ Produced(p, disk[p])

LEMMA InitNamed ==
  ASSUME Init, NEW p \in Pages
  PROVE  Named(p)
<1>1. NPages \in Nat /\ NPages > 1 /\ p \in 0..(NPages - 1)
  BY NPagesAssumption DEF Pages
<1> DEFINE n == 2 * NPages + 5
<1>2. LogOK /\ Len(log) = n /\ flushed = n /\ mem = disk /\ disk[p] = InitDisk[p]
  <2>1. LogOK
    BY InitTypes DEF TypeOK
  <2>2. DOMAIN InitLog = 1..n
    BY DEF InitLog
  <2> QED
    BY <1>1, <2>1, <2>2 DEF Init, LogOK
<1>3. CASE p = Root
  <2>1. disk[p] = [lsn |-> 2 * NPages + 1, val |-> 0]
    BY <1>2, <1>3 DEF InitDisk
  <2>2. log[2 * NPages + 2] = UpdateRec(2, 2 * NPages, Root, 0, 0)
    <3>1. (2 * NPages + 2) % 2 = 0 /\ 2 * NPages + 2 \in 6..(n - 2)
      BY <1>1
    <3> QED
      BY <1>1, <3>1 DEF Init, InitLog
  <2> QED
    BY <1>1, <1>2, <1>3, <2>1, <2>2 DEF Named, Covered, Produced, Rec, IsPageRec, UpdateRec
<1>4. CASE p # Root
  <2>1. disk[p] = [lsn |-> 2 * p + 4, val |-> InitVal]
    BY <1>2, <1>4 DEF InitDisk
  <2>2. log[2 * p + 5] = UpdateRec(2, 2 * p + 3, p, InitVal, InitVal)
    <3>1. (2 * p + 5) % 2 = 1 /\ 2 * p + 5 \in 6..(n - 2) /\ (2 * p + 5 - 5) \div 2 = p
      BY <1>1, <1>4 DEF Root
    <3> QED
      BY <1>1, <3>1 DEF Init, InitLog
  <2> QED
    BY <1>1, <1>2, <2>1, <2>2 DEF Named, Covered, Produced, Rec, IsPageRec, UpdateRec
<1> QED
  BY <1>3, <1>4

\* A record that is kept still produces the image whose LSN names it.
StillProduced(p, l, v) == /\ l < Len(log') /\ IsPageRec(log'[l + 1])
                          /\ log'[l + 1].pg = p /\ log'[l + 1].redo = v

LEMMA ProducedKept ==
  ASSUME NEW k \in Nat, Kept(k), Len(log') \in Nat, NEW p,
         NEW img, img.lsn \in Nat, img.lsn < k, Produced(p, img)
  PROVE  StillProduced(p, img.lsn, img.val)
<1>1. log'[img.lsn + 1] = log[img.lsn + 1] /\ k <= Len(log')
  BY DEF Kept, Rec
<1> QED
  BY <1>1 DEF Produced, StillProduced, Rec

LEMMA StepNamed ==
  ASSUME TypeOK, [AnyNext]_vars, NEW p \in Pages, p # Root \/ ~ CkptWriteRoot, Named(p)
  PROVE  Named(p)'
<1>1. PageStep(p) /\ LogStep /\ LogOK /\ LogOK'
  BY PageSteps, LogSteps, StepTypes DEF TypeOK, AnyNext
<1>2. /\ mem[p] \in [lsn : Nat, val : Contents] /\ disk[p] \in [lsn : Nat, val : Contents]
      /\ mem[p].lsn \in Nat /\ disk[p].lsn \in Nat
  BY DEF TypeOK, PageOK
<1>3. /\ disk[p].lsn < flushed /\ mem[p].lsn < Len(log) /\ flushed <= Len(log)
      /\ flushed \in Nat /\ flushed' \in Nat /\ Len(log) \in Nat /\ Len(log') \in Nat
      /\ flushed <= flushed' /\ flushed' <= Len(log')
  BY <1>1 DEF Named, Covered, LogOK, LogStep
<1>4. CASE Crash
  <2>1. mem'[p] = disk[p] /\ disk'[p] = disk[p]
    BY <1>4 DEF Crash
  <2>2. Kept(flushed')
    BY <1>1, <1>4 DEF LogStep
  <2>3. PICK d : d = disk[p]
    OBVIOUS
  <2>4. d.lsn \in Nat /\ d.lsn < flushed' /\ Produced(p, d)
    BY <1>2, <1>3, <2>3 DEF Named
  <2>5. StillProduced(p, d.lsn, d.val)
    BY <1>2, <1>3, <2>2, <2>4, ProducedKept
  <2> QED
    BY <1>2, <1>3, <2>1, <2>3, <2>4, <2>5
       DEF Named, Covered, Produced, StillProduced, Rec, IsPageRec
<1>5. CASE ~ Crash
  <2>1. Kept(Len(log)) /\ Len(log) <= Len(log')
    BY <1>1, <1>5 DEF LogStep, Kept
  <2>2. StillProduced(p, disk[p].lsn, disk[p].val)
    <3>1. PICK d : d = disk[p]
      OBVIOUS
    <3>2. StillProduced(p, d.lsn, d.val)
      BY <1>2, <1>3, <2>1, <3>1, ProducedKept DEF Named
    <3> QED
      BY <3>1, <3>2
  <2>3. StillProduced(p, mem[p].lsn, mem[p].val)
    <3>1. PICK d : d = mem[p]
      OBVIOUS
    <3>2. StillProduced(p, d.lsn, d.val)
      BY <1>2, <1>3, <2>1, <3>1, ProducedKept DEF Named
    <3> QED
      BY <3>1, <3>2
  <2>4. CASE Untouched(p)
    BY <1>2, <1>3, <2>2, <2>3, <2>4 DEF Untouched, Named, Covered, Produced, StillProduced, Rec, IsPageRec
  <2>5. CASE Written(p)
    <3>1. PICK r : /\ IsPageRec(r) /\ r.pg = p
                   /\ log' = Append(log, r)
                   /\ mem'[p] = Image(Len(log), r.redo)
      BY <2>5 DEF Written
    <3>2. Len(log') = Len(log) + 1 /\ log'[Len(log) + 1] = r
      BY <1>1, <3>1, AppendKeeps
    <3>3. mem'[p].lsn = Len(log) /\ mem'[p].val = r.redo
      BY <3>1 DEF Image
    <3>4. Covered(p)'
      BY <1>2, <1>3, <2>5, <3>2, <3>3 DEF Written, Named, Covered
    <3>5. Produced(p, mem[p])'
      BY <1>3, <3>1, <3>2, <3>3 DEF Produced, StillProduced, Rec, IsPageRec
    <3> QED
      BY <2>2, <2>5, <3>4, <3>5 DEF Written, Named, Produced, StillProduced, Rec, IsPageRec
  <2>6. CASE Saved(p)
    BY <1>2, <1>3, <2>2, <2>3, <2>6 DEF Saved, Named, Covered, Produced, StillProduced, Rec, IsPageRec
  <2>7. CASE Redone(p)
    <3>1. PICK l \in InFile : /\ IsPageRec(Rec(l)) /\ Rec(l).pg = p
                              /\ mem'[p] = Image(l, Rec(l).redo)
      BY <2>7 DEF Redone
    <3>2. /\ mem'[p].lsn = l /\ mem'[p].val = Rec(l).redo
          /\ l \in Nat /\ l < flushed /\ log' = log /\ flushed' = flushed /\ disk'[p] = disk[p]
      BY <1>3, <2>7, <3>1 DEF Redone, Image, InFile
    <3>3. Covered(p)'
      BY <1>2, <1>3, <3>2 DEF Named, Covered
    <3>4. Produced(p, mem[p])'
      BY <1>3, <3>1, <3>2 DEF Produced, StillProduced, Rec, IsPageRec
    <3> QED
      BY <2>2, <3>2, <3>3, <3>4 DEF Named, Produced, StillProduced, Rec, IsPageRec
  <2> QED
    BY <1>1, <1>5, <2>4, <2>5, <2>6, <2>7 DEF PageStep, Lost
<1> QED
  BY <1>4, <1>5

-----------------------------------------------------------------------------
\* The inductive invariant of the pager as it is used: no checkpoint runs, so
\* every page reaches the file through pgr_evict and pgr_close.
NamedInv == ckpt = NoCkpt /\ \A p \in Pages : Named(p)

LEMMA SpecNamed == Spec => []NamedInv
<1>1. Init => NamedInv
  BY InitNamed DEF NamedInv, Init
<1>2. TypeOK /\ NamedInv /\ [Next]_vars => NamedInv'
  <2> SUFFICES ASSUME TypeOK, NamedInv, [Next]_vars PROVE NamedInv'
    OBVIOUS
  <2>1. ~ CkptWriteRoot
    BY DEF NamedInv, NoCkpt, CkptWriteRoot
  <2>2. ASSUME NEW p \in Pages PROVE Named(p)'
    BY <2>1, StepNamed DEF NamedInv, AnyNext
  <2>3. ckpt' = NoCkpt
    <3>1. ASSUME NEW t \in Tids, Transaction(t) PROVE ckpt' = NoCkpt
      BY <3>1 DEF Transaction, Begin, Update, CommitLog, CommitFlush, CommitEnd, CommitDone, Rollback,
                  RollbackUpdate, RollbackSkip, RollbackEof, RollbackReturn, NamedInv
    <3>2. CASE (\E p \in Pages : Evict(p)) \/ Flush \/ Crash \/ Close
      BY <3>2 DEF Evict, Flush, Crash, Close, GoDown, runVars, NamedInv
    <3>3. CASE Restart
      BY <3>3 DEF Restart, Open, AnalysisEnd, AnalysisDone, Redo, RedoDone, UndoUpdate, UndoClr,
                  UndoBegin, RestartDone, runVars, NamedInv
    <3>4. CASE UNCHANGED vars
      BY <3>4 DEF vars, NamedInv
    <3> QED
      BY <3>1, <3>2, <3>3, <3>4 DEF Next
  <2> QED
    BY <2>2, <2>3 DEF NamedInv
<1> QED
  BY <1>1, <1>2, TypeCorrect, PTL DEF Spec

\* The write-ahead rule for every page, in the pager without checkpoints
\* (pgr_evict flushes the log before it writes a page).
THEOREM WalRuleHolds == Spec => []WalRule
<1>1. NamedInv => WalRule
  BY DEF NamedInv, Named, Covered, WalRule
<1> QED
  BY <1>1, SpecNamed, PTL

\* The page LSN names the record that produced the content, in the file and
\* in memory, whatever was lost in crashes (page_set_page_lsn).
THEOREM PageLsnsNameContent == Spec => []PageLsnNamesContent
<1>1. NamedInv => PageLsnNamesContent
  BY DEF NamedInv, Named, PageLsnNamesContent
<1> QED
  BY <1>1, SpecNamed, PTL

\* With checkpoints the rule still holds for the pages that pgr_checkpoint
\* does not write itself.
THEOREM DataWalRuleHolds == CkptSpec => []DataWalRule
<1> DEFINE Inv == \A p \in Pages \ {Root} : Named(p)
<1>1. Init => Inv
  BY InitNamed
<1>2. TypeOK /\ Inv /\ [AnyNext]_vars => Inv'
  BY StepNamed
<1>3. Inv => DataWalRule
  BY DEF Named, Covered, DataWalRule
<1> QED
  BY <1>1, <1>2, <1>3, TypesWithCheckpoints, PTL DEF CkptSpec, AnyNext

-----------------------------------------------------------------------------
(***************************************************************************)
(* COMMIT records.  A transaction between the COMMIT record and the return *)
(* of pgr_commit knows where the record is; from the flush on the record   *)
(* is in the part of the log that a crash keeps.                           *)
(***************************************************************************)
IsCommitOf(l, t) == Rec(l).type = "commit" /\ Rec(l).tid = t

Committing(t) ==
  /\ txn[t].st \in {"logged", "flushed", "ended"} =>
       /\ txn[t].commit < Len(log) /\ IsCommitOf(txn[t].commit, t)
  /\ txn[t].st \in {"flushed", "ended"} => txn[t].commit < flushed
  /\ t \in acked => \E c \in InFile : IsCommitOf(c, t)

\* What one step may do to a committing transaction t.
CommitStep(t) ==
  \/ /\ t \in acked' => t \in acked
     /\ \/ txn'[t].st \notin {"logged", "flushed", "ended"}
        \/ txn'[t].st = txn[t].st /\ txn'[t].commit = txn[t].commit
  \/ CommitLog(t) \/ CommitFlush(t) \/ CommitEnd(t) \/ CommitDone(t)

LEMMA CommitSteps ==
  ASSUME TypeOK, [AnyNext]_vars, NEW t \in Tids
  PROVE  CommitStep(t)
<1> USE DEF CommitStep
<1>1. /\ DOMAIN txn = Tids /\ acked \subseteq Tids
      /\ txn[t] = [st |-> txn[t].st, last |-> txn[t].last, undoNext |-> txn[t].undoNext,
                   commit |-> txn[t].commit, save |-> txn[t].save]
  BY DEF TypeOK, RunOK
<1>2. ASSUME NEW u \in Tids, Transaction(u) PROVE CommitStep(t)
  <2>1. CASE Begin(u)
    BY <1>1, <2>1 DEF Begin, NewTxn, NoTxn
  <2>2. ASSUME NEW p \in Pages, NEW v \in Vals, Update(u, p, v) PROVE CommitStep(t)
    BY <1>1, <2>2 DEF Update, SavePage
  <2>3. ASSUME CommitLog(u) \/ CommitFlush(u) \/ CommitEnd(u) \/ CommitDone(u), u # t
        PROVE  CommitStep(t)
    BY <1>1, <2>3 DEF CommitLog, CommitFlush, CommitEnd, CommitDone
  <2>4. ASSUME NEW s \in 0..(NextLsn - 1), Rollback(u, s) PROVE CommitStep(t)
    BY <1>1, <2>4 DEF Rollback
  <2>5. CASE RollbackUpdate(u)
    BY <1>1, <2>5 DEF RollbackUpdate
  <2>6. CASE RollbackSkip(u)
    BY <1>1, <2>6 DEF RollbackSkip
  <2>7. CASE RollbackEof(u) \/ RollbackReturn(u)
    BY <1>1, <2>7 DEF RollbackEof, RollbackReturn
  <2> QED
    BY <1>2, <2>1, <2>2, <2>3, <2>4, <2>5, <2>6, <2>7 DEF Transaction
<1>3. CASE (\E p \in Pages : Evict(p)) \/ Flush
  BY <1>3 DEF Evict, Flush, runVars
<1>4. CASE Crash \/ Close
  BY <1>4 DEF Crash, Close, GoDown, NoTxn
<1>5. CASE Restart
  BY <1>5 DEF Restart, Open, AnalysisEnd, AnalysisDone, Redo, RedoDone, UndoUpdate, UndoClr,
              UndoBegin, RestartDone, runVars
<1>6. CASE Checkpoint
  <2>1. ASSUME NEW u \in Tids, CkptTxn(u) PROVE CommitStep(t)
    BY <1>1, <2>1 DEF CkptTxn, NewTxn, NoTxn
  <2>2. ASSUME NEW u \in Tids, CkptSave(u) PROVE CommitStep(t)
    BY <1>1, <2>2 DEF CkptSave, SavePage
  <2>3. CASE CkptBegin \/ CkptEnd \/ CkptWriteRoot \/ CkptFlush
    BY <2>3 DEF CkptBegin, CkptEnd, CkptWriteRoot, CkptFlush
  <2> QED
    BY <1>6, <2>1, <2>2, <2>3 DEF Checkpoint
<1>7. CASE UNCHANGED vars
  BY <1>7 DEF vars
<1> QED
  BY <1>2, <1>3, <1>4, <1>5, <1>6, <1>7 DEF AnyNext, Next

LEMMA StepCommitting ==
  ASSUME TypeOK, [AnyNext]_vars, NEW t \in Tids, Committing(t)
  PROVE  Committing(t)'
<1>1. LogStep /\ CommitStep(t) /\ LogOK /\ LogOK' /\ TypeOK'
  BY LogSteps, CommitSteps, StepTypes DEF TypeOK, AnyNext
<1>2. /\ flushed \in Nat /\ flushed' \in Nat /\ Len(log) \in Nat /\ Len(log') \in Nat
      /\ flushed <= flushed' /\ flushed' <= Len(log') /\ flushed <= Len(log)
      /\ txn[t].commit \in Nat /\ DOMAIN txn = Tids
  <2>1. /\ flushed \in Nat /\ Len(log) \in Nat /\ flushed <= Len(log)
        /\ flushed' \in Nat /\ Len(log') \in Nat
    BY <1>1 DEF LogOK
  <2>2. flushed <= flushed' /\ flushed' <= Len(log')
    BY <1>1 DEF LogStep
  <2>3. txn[t].commit \in Nat /\ DOMAIN txn = Tids
    BY DEF TypeOK, RunOK
  <2> QED
    BY <2>1, <2>2, <2>3
\* What is in the log file stays there.
<1>3. ASSUME NEW c \in Nat, c < flushed, IsCommitOf(c, t) PROVE c < flushed' /\ IsCommitOf(c, t)'
  <2>1. PICK n \in Nat : flushed <= n /\ Kept(n)
    BY <1>1, <1>2 DEF LogStep
  <2>2. c \in 0..(n - 1)
    BY <1>2, <1>3, <2>1
  <2>3. IsCommitOf(c, t)'
    BY <1>3, <2>1, <2>2 DEF Kept, IsCommitOf
  <2> QED
    BY <1>2, <1>3, <2>3
<1>4. ASSUME t \in acked PROVE \E c \in InFile' : IsCommitOf(c, t)'
  <2>1. PICK c \in Nat : c < flushed /\ IsCommitOf(c, t)
    BY <1>2, <1>4 DEF Committing, InFile
  <2>2. c < flushed' /\ IsCommitOf(c, t)'
    BY <1>3, <2>1
  <2>3. PICK f \in Nat : f = flushed'
    BY <1>2
  <2>4. c < f
    BY <2>2, <2>3
  <2>5. c \in 0..(f - 1)
    BY ONLY <2>4
  <2> QED
    BY <2>2, <2>3, <2>5 DEF InFile
<1>5. ASSUME ~ Crash, NEW c \in 0..(Len(log) - 1), IsCommitOf(c, t)
      PROVE  c < Len(log') /\ IsCommitOf(c, t)'
  BY <1>1, <1>2, <1>5 DEF LogStep, Kept, IsCommitOf
<1>6. CASE CommitLog(t)
  <2>1. log' = Append(log, CommitRec(t, txn[t].last)) /\ acked' = acked
    BY <1>6 DEF CommitLog
  <2>2. txn'[t].st = "logged" /\ txn'[t].commit = Len(log)
    BY <1>2, <1>6 DEF CommitLog, NextLsn
  <2>3. Len(log') = Len(log) + 1 /\ log'[Len(log) + 1] = CommitRec(t, txn[t].last)
    BY <1>1, <2>1, AppendKeeps
  <2>4. IsCommitOf(txn[t].commit, t)'
    BY <1>2, <2>2, <2>3 DEF IsCommitOf, CommitRec, Rec
  <2> QED
    BY <1>2, <1>4, <2>1, <2>2, <2>3, <2>4 DEF Committing
<1>7. CASE CommitFlush(t)
  <2>1. log' = log /\ flushed' = Len(log) /\ acked' = acked /\ txn[t].st = "logged"
    BY <1>7 DEF CommitFlush, CommitFlushed
  <2>2. txn'[t].st = "flushed" /\ txn'[t].commit = txn[t].commit
    BY <1>2, <1>7 DEF CommitFlush
  <2> QED
    BY <1>2, <1>4, <2>1, <2>2 DEF Committing, IsCommitOf, Rec
<1>8. CASE CommitEnd(t)
  <2>1. /\ log' = Append(log, EndRec(t, txn[t].commit)) /\ flushed' = flushed
        /\ acked' = acked /\ txn[t].st = "flushed"
    BY <1>8 DEF CommitEnd
  <2>2. txn'[t].st = "ended" /\ txn'[t].commit = txn[t].commit
    BY <1>2, <1>8 DEF CommitEnd
  <2>3. Kept(Len(log)) /\ Len(log') = Len(log) + 1
    BY <1>1, <2>1, AppendKeeps
  <2>4. PICK c : c = txn[t].commit
    OBVIOUS
  <2>5. c \in Nat /\ c < Len(log) /\ c < flushed /\ IsCommitOf(c, t)
    BY <1>2, <2>1, <2>4 DEF Committing
  <2>6. IsCommitOf(c, t)'
    BY <1>2, <2>3, <2>5 DEF Kept, IsCommitOf
  <2> QED
    BY <1>2, <1>4, <2>1, <2>2, <2>3, <2>4, <2>5, <2>6 DEF Committing
<1>9. CASE CommitDone(t)
  <2>1. log' = log /\ flushed' = flushed /\ txn[t].st = "ended"
    BY <1>9 DEF CommitDone, walVars
  <2>2. txn'[t].st = "done"
    BY <1>2, <1>9 DEF CommitDone
  <2>3. txn[t].commit \in InFile /\ IsCommitOf(txn[t].commit, t)
    BY <1>2, <2>1 DEF Committing, InFile
  <2> QED
    BY <2>1, <2>2, <2>3 DEF Committing, IsCommitOf, Rec, InFile
<1>10. ASSUME t \in acked' => t \in acked, txn'[t].st \notin {"logged", "flushed", "ended"}
       PROVE  Committing(t)'
  BY <1>4, <1>10 DEF Committing
<1>11. ASSUME t \in acked' => t \in acked, txn'[t].st \in {"logged", "flushed", "ended"},
              txn'[t].st = txn[t].st, txn'[t].commit = txn[t].commit
       PROVE  Committing(t)'
  <2>1. ~ Crash
    BY <1>11 DEF Crash, GoDown, NoTxn
  <2>2. PICK c : c = txn[t].commit
    OBVIOUS
  <2>3. c \in 0..(Len(log) - 1) /\ IsCommitOf(c, t)
    BY <1>2, <1>11, <2>2 DEF Committing
  <2>4. c < Len(log') /\ IsCommitOf(c, t)'
    BY <1>5, <2>1, <2>3
  <2>5. txn'[t].st \in {"flushed", "ended"} => c < flushed'
    BY <1>2, <1>11, <2>2, <2>3 DEF Committing
  <2> QED
    BY <1>4, <1>11, <2>2, <2>4, <2>5 DEF Committing
<1> QED
  BY <1>1, <1>6, <1>7, <1>8, <1>9, <1>10, <1>11 DEF CommitStep

\* A pgr_commit that returned SUCCESS left its COMMIT record in the log file,
\* where every later crash keeps it, checkpoints or not.
THEOREM CommitLoggedHolds == CkptSpec => []CommitLogged
<1> DEFINE Inv == \A t \in Tids : Committing(t)
<1>1. Init => Inv
  <2> SUFFICES ASSUME Init, NEW t \in Tids PROVE Committing(t)
    OBVIOUS
  <2>1. txn[t].st = "none" /\ acked = {1, 2} /\ log = InitLog /\ flushed = Len(InitLog)
    BY DEF Init, NoTxn
  <2>2. NPages \in Nat /\ NPages > 1 /\ DOMAIN InitLog = 1..(2 * NPages + 5) /\ LogOK
    BY NPagesAssumption, InitTypes DEF InitLog, TypeOK
  <2>3. flushed = 2 * NPages + 5
    BY <2>1, <2>2 DEF LogOK
  <2>4. log[3] = CommitRec(1, 1) /\ log[2 * NPages + 4] = CommitRec(2, 2 * NPages + 2)
    BY <2>1, <2>2 DEF InitLog
  <2>5. /\ 2 \in InFile /\ IsCommitOf(2, 1)
        /\ 2 * NPages + 3 \in InFile /\ IsCommitOf(2 * NPages + 3, 2)
    BY <2>2, <2>3, <2>4 DEF InFile, IsCommitOf, Rec, CommitRec
  <2> QED
    BY <2>1, <2>5 DEF Committing
<1>2. TypeOK /\ Inv /\ [AnyNext]_vars => Inv'
  BY StepCommitting
<1>3. TypeOK /\ Inv => CommitLogged
  BY DEF TypeOK, Committing, CommitLogged, IsCommitOf
<1> QED
  BY <1>1, <1>2, <1>3, TypesWithCheckpoints, PTL DEF CkptSpec, AnyNext

-----------------------------------------------------------------------------
(* Restarts, chains and rollbacks.                                         *)

Lsns == 0..(Len(log) - 1)

\* Record k is one a transaction t can go back to.
LinksTo(k, l, t) == /\ k \in Nat /\ k < l
                    /\ Rec(k).type \in {"update", "clr", "begin"}
                    /\ Rec(k).tid = t

\* Of the first l records none is of that type and transaction.
NoneOf(type, l, t) == \A k \in 0..(l - 1) : ~ (Rec(k).type = type /\ Rec(k).tid = t)

\* What a record r behind l others says of them: it is of a transaction, which
\* begins with its BEGIN, ends with its END and writes no page after its COMMIT;
\* its links stay in the transaction; a page is updated before it is restored;
\* the root keeps master LSN 0.
Fits(r, l) ==
  /\ IsTxnRec(r)
  /\ (r.type = "begin") <=> (\A k \in 0..(l - 1) : Rec(k).tid # r.tid)
  /\ NoneOf("end", l, r.tid)
  /\ IsPageRec(r) => /\ LinksTo(r.prev, l, r.tid)
                     /\ NoneOf("commit", l, r.tid)
                     /\ r.pg = Root => r.redo = 0
  /\ r.type = "update" => (r.pg = Root => r.undo = 0)
  /\ r.type = "clr" => /\ r.undoNext = 0 \/ LinksTo(r.undoNext, l, r.tid)
                       /\ \E k \in 0..(l - 1) : Rec(k).type = "update" /\ Rec(k).pg = r.pg

Shape == \A l \in Lsns : Fits(Rec(l), l)

\* A transaction that runs: where it stands on its chain, and what it has not
\* logged yet.
Chained(t) ==
  /\ txn[t].st # "none" => phase = "up"
  /\ txn[t].st \in {"running", "rolling"} =>
       /\ LinksTo(txn[t].last, Len(log), t)
       /\ txn[t].undoNext = 0 \/ LinksTo(txn[t].undoNext, Len(log), t)
       /\ NoneOf("commit", Len(log), t)
  /\ txn[t].st \in {"running", "rolling", "logged", "flushed"} =>
       /\ NoneOf("end", Len(log), t)
       /\ \E k \in Lsns : Rec(k).tid = t

\* What the analysis leaves: ids above all it has read, and no loser at all, as
\* every transaction that did not end is entered with its BEGIN.
Unended(t) == /\ ctx.att[t].st = "U" /\ ctx.att[t].undoNext = 0
              /\ NoneOf("end", Len(log), t)
              /\ \E k \in Lsns : Rec(k).tid = t

Analysed ==
  /\ phase \notin {"up", "ends", "redo", "undo"} => phase = "down" /\ flushed = Len(log)
  /\ phase = "up" => \A l \in Lsns : Rec(l).tid < nextTid
  /\ Restarting => \A l \in Lsns : Rec(l).tid <= ctx.maxTid
  /\ phase = "ends" => \A t \in Tids : ctx.att[t].st = "none" \/ Unended(t)
  /\ phase \in {"redo", "undo"} => \A t \in Tids : ctx.att[t].st = "none"

\* How far history is repeated for page p: while the redo runs, up to where it
\* reads, and where the table of dirty pages tells it to do nothing.
IsOfPage(l, p) == IsPageRec(Rec(l)) /\ Rec(l).pg = p
Done(l, p)     == l < ctx.redo \/ ctx.dpt[p] = 0 \/ l < ctx.dpt[p]

Repeated(p) ==
  \A l \in Lsns : IsOfPage(l, p) =>
    /\ phase \in {"ends", "redo"} => l < flushed /\ (Done(l, p) => l <= mem[p].lsn)
    /\ phase \in {"undo", "up"} => l <= mem[p].lsn

RInv == /\ Shape
        /\ \A t \in Tids : Chained(t)
        /\ Analysed
        /\ \A p \in Pages : Repeated(p)

-----------------------------------------------------------------------------
(* The shape of the log is kept by every step. *)

\* What is said of the first l records stays true while they are kept.
LEMMA FitsKept ==
  ASSUME NEW n \in Nat, Kept(n), NEW l \in 0..n, NEW r, Fits(r, l)
  PROVE  Fits(r, l)'
<1>1. \A k \in 0..(l - 1) : Rec(k)' = Rec(k)
  BY DEF Kept
<1>2. ASSUME NEW k, NEW t, LinksTo(k, l, t) PROVE LinksTo(k, l, t)'
  BY <1>1, <1>2 DEF LinksTo
<1>3. ASSUME NEW type, NEW t, NoneOf(type, l, t) PROVE NoneOf(type, l, t)'
  BY <1>1, <1>3 DEF NoneOf
<1> QED
  BY <1>1, <1>2, <1>3 DEF Fits

\* The log after a step: as it was, one record longer, or cut by a crash.
LEMMA ShapeKept ==
  ASSUME LogOK, LogOK', Shape,
         \/ log' = log
         \/ \E r : log' = Append(log, r) /\ Fits(r, Len(log))
         \/ Crash
  PROVE  Shape'
<1> SUFFICES ASSUME NEW l \in Lsns' PROVE Fits(Rec(l), l)'
  BY DEF Shape
<1>1. Len(log) \in Nat /\ Len(log') \in Nat /\ l \in Nat /\ l < Len(log')
  BY DEF LogOK, Lsns
<1>2. ASSUME NEW n \in Nat, n <= Len(log), Kept(n), l < n PROVE Fits(Rec(l), l)'
  <2>1. PICK r : r = Rec(l)
    OBVIOUS
  <2>2. Fits(r, l) /\ Rec(l)' = r
    BY <1>1, <1>2, <2>1 DEF Shape, Lsns, Kept
  <2> QED
    <3>1. Fits(r, l)'
      BY <1>1, <1>2, <2>2, FitsKept
    <3> QED
      BY <2>2, <3>1 DEF Fits, IsTxnRec, IsPageRec
<1>3. CASE log' = log
  BY <1>1, <1>2, <1>3 DEF Kept, Rec
<1>4. ASSUME NEW r, log' = Append(log, r), Fits(r, Len(log)) PROVE Fits(Rec(l), l)'
  <2>1. Kept(Len(log)) /\ Len(log') = Len(log) + 1 /\ log'[Len(log) + 1] = r
    BY <1>4, AppendKeeps
  <2>2. CASE l < Len(log)
    BY <1>1, <1>2, <2>1, <2>2
  <2>3. CASE l = Len(log)
    <3>1. Fits(r, l) /\ l \in 0..Len(log)
      BY <1>1, <1>4, <2>3
    <3>2. Fits(r, l)'
      BY <1>1, <2>1, <3>1, FitsKept
    <3>3. Rec(l)' = r
      BY <2>1, <2>3 DEF Rec
    <3> QED
      BY <3>2, <3>3 DEF Fits, IsTxnRec, IsPageRec
  <2> QED
    BY <1>1, <2>1, <2>2, <2>3
<1>5. CASE Crash
  <2>1. PICK n \in flushed..Len(log) : log' = SubSeq(log, 1, n)
    BY <1>5 DEF Crash
  <2>2. n \in Nat /\ n <= Len(log) /\ Len(log') = n /\ \A i \in 1..n : log'[i] = log[i]
    BY <1>1, <2>1 DEF LogOK
  <2>3. Kept(n)
    BY <2>2 DEF Kept, Rec
  <2> QED
    BY <1>1, <1>2, <2>2, <2>3
<1> QED
  BY <1>3, <1>4, <1>5

-----------------------------------------------------------------------------
(* Steps of transactions: at most one record of the transaction is added,  *)
(* and only a page record changes a page.                                  *)

LEMMA Longer ==
  ASSUME LogOK, NEW r, log' = Append(log, r)
  PROVE  /\ Len(log) \in Nat /\ Len(log') = Len(log) + 1
         /\ log'[Len(log) + 1] = r
         /\ \A k \in Lsns : Rec(k)' = Rec(k)
         /\ Lsns' = Lsns \cup {Len(log)}
<1>1. Kept(Len(log)) /\ Len(log') = Len(log) + 1 /\ log'[Len(log) + 1] = r /\ Len(log) \in Nat
  BY AppendKeeps DEF LogOK
<1> QED
  BY <1>1 DEF Kept, Lsns, Rec

\* What a chain says of the log is not disturbed by a record of another kind.
LEMMA LongerChain ==
  ASSUME LogOK, NEW r, log' = Append(log, r)
  PROVE  /\ \A k, t : LinksTo(k, Len(log), t) => LinksTo(k, Len(log), t)'
         /\ \A type, t : NoneOf(type, Len(log), t) /\ ~ (r.type = type /\ r.tid = t)
                           => NoneOf(type, Len(log), t)'
<1>1. /\ Len(log) \in Nat /\ Len(log') = Len(log) + 1 /\ log'[Len(log) + 1] = r
      /\ \A k \in Lsns : Rec(k)' = Rec(k)
  BY Longer
<1>2. ASSUME NEW k, NEW t, LinksTo(k, Len(log), t) PROVE LinksTo(k, Len(log), t)'
  <2>1. k \in Lsns
    BY <1>1, <1>2 DEF LinksTo, Lsns
  <2> QED
    BY <1>1, <1>2, <2>1 DEF LinksTo
<1>3. ASSUME NEW type, NEW t, NoneOf(type, Len(log), t), ~ (r.type = type /\ r.tid = t)
      PROVE  NoneOf(type, Len(log), t)'
  <2> SUFFICES ASSUME NEW k \in 0..(Len(log') - 1) PROVE ~ (Rec(k)'.type = type /\ Rec(k)'.tid = t)
    BY DEF NoneOf
  <2>1. k \in Lsns \/ k = Len(log)
    BY <1>1 DEF Lsns
  <2>2. CASE k = Len(log)
    BY <1>1, <1>3, <2>2 DEF Rec
  <2>3. CASE k \in Lsns
    BY <1>1, <1>3, <2>3 DEF NoneOf, Lsns
  <2> QED
    BY <2>1, <2>2, <2>3
<1> QED
  BY <1>2, <1>3

\* A transaction that makes no step stays on its chain.
LEMMA ChainedKept ==
  ASSUME LogOK, NEW t, Chained(t), txn'[t] = txn[t], phase' = phase,
         log' = log \/ \E r : log' = Append(log, r) /\ r.tid # t
  PROVE  Chained(t)'
<1>1. CASE log' = log
  BY <1>1 DEF Chained, LinksTo, NoneOf, Lsns, Rec
<1>2. ASSUME NEW r, log' = Append(log, r), r.tid # t PROVE Chained(t)'
  <2>1. \A k : LinksTo(k, Len(log), t) => LinksTo(k, Len(log), t)'
    BY <1>2, LongerChain
  <2>2. \A type : NoneOf(type, Len(log), t) => NoneOf(type, Len(log), t)'
    BY <1>2, LongerChain
  <2>3. (\E k \in Lsns : Rec(k).tid = t) => (\E k \in Lsns' : Rec(k)'.tid = t)
    BY <1>2, Longer
  <2> QED
    BY <2>1, <2>2, <2>3 DEF Chained
<1> QED
  BY <1>1, <1>2

TxStep(t) ==
  /\ phase = "up" /\ phase' = "up" /\ ctx' = ctx /\ nextTid <= nextTid'
  /\ \A u \in Tids \ {t} : txn'[u] = txn[u]
  /\ Chained(t)'
  /\ \/ log' = log /\ mem' = mem
     \/ \E r : /\ log' = Append(log, r) /\ Fits(r, Len(log))
               /\ r.tid = t /\ t < nextTid'
               /\ \A p \in Pages : IF IsPageRec(r) /\ r.pg = p THEN mem'[p].lsn = Len(log)
                                                              ELSE mem'[p] = mem[p]

LEMMA TxStepKeeps ==
  ASSUME TypeOK, TypeOK', RInv, NEW t \in Tids, TxStep(t)
  PROVE  RInv'
<1>1. LogOK /\ LogOK' /\ nextTid \in Int /\ nextTid' \in Int /\ Tids \subseteq Nat
  BY ContentsTypes DEF TypeOK, RunOK
<1>2. Shape'
  BY <1>1, ShapeKept DEF TxStep, RInv
<1>3. \A u \in Tids : Chained(u)'
  <2> SUFFICES ASSUME NEW u \in Tids \ {t} PROVE Chained(u)'
    BY DEF TxStep
  <2> QED
    BY <1>1, ChainedKept DEF TxStep, RInv
<1>4. CASE log' = log /\ mem' = mem
  <2>1. \A l \in Lsns : Rec(l).tid \in Tids
    BY <1>1, LogRecords, RecordFields DEF RInv, Shape, Fits, Lsns, NextLsn
  <2>2. Analysed'
    <3>1. Lsns' = Lsns /\ \A l : Rec(l)' = Rec(l)
      BY <1>4 DEF Lsns, Rec
    <3>2. \A l \in Lsns : Rec(l).tid < nextTid /\ Rec(l).tid \in Nat
      BY <1>1, <2>1 DEF RInv, Analysed, TxStep
    <3>3. nextTid <= nextTid'
      BY DEF TxStep
    <3>4. \A l \in Lsns : Rec(l).tid < nextTid'
      BY <1>1, <3>2, <3>3
    <3> QED
      BY <3>1, <3>4 DEF Analysed, TxStep, Restarting
  <2>3. ASSUME NEW p \in Pages PROVE Repeated(p)'
    BY <1>4 DEF RInv, Repeated, TxStep, Lsns, Rec, IsOfPage, IsPageRec
  <2> QED
    BY <1>2, <1>3, <2>2, <2>3 DEF RInv
<1>5. ASSUME NEW r, log' = Append(log, r), Fits(r, Len(log)), r.tid = t, t < nextTid',
             \A p \in Pages : IF IsPageRec(r) /\ r.pg = p THEN mem'[p].lsn = Len(log)
                                                         ELSE mem'[p] = mem[p]
      PROVE  RInv'
  <2>1. /\ Len(log) \in Nat /\ Len(log') = Len(log) + 1 /\ log'[Len(log) + 1] = r
        /\ \A k \in Lsns : Rec(k)' = Rec(k)
        /\ Lsns' = Lsns \cup {Len(log)}
    BY <1>1, <1>5, Longer
  <2>2. \A l \in Lsns : Rec(l).tid \in Tids
    BY <1>1, LogRecords, RecordFields DEF RInv, Shape, Fits, Lsns, NextLsn
  <2>3. Analysed'
    <3>1. ASSUME NEW l \in Lsns' PROVE Rec(l)'.tid < nextTid'
      <4>1. CASE l = Len(log)
        BY <1>5, <2>1, <4>1 DEF Rec
      <4>2. CASE l \in Lsns
        <5>1. Rec(l).tid < nextTid /\ nextTid <= nextTid'
          BY <4>2 DEF RInv, Analysed, TxStep
        <5>2. Rec(l).tid \in Nat /\ Rec(l)' = Rec(l)
          BY <1>1, <2>1, <2>2, <4>2
        <5> QED
          BY <1>1, <5>1, <5>2
      <4> QED
        BY <2>1, <4>1, <4>2
    <3> QED
      BY <3>1 DEF Analysed, TxStep, Restarting
  <2>4. ASSUME NEW p \in Pages PROVE Repeated(p)'
    <3> SUFFICES ASSUME NEW l \in Lsns', IsOfPage(l, p)' PROVE l <= mem'[p].lsn
      BY DEF Repeated, TxStep
    <3>1. mem[p].lsn \in Nat
      BY DEF TypeOK, PageOK
    <3>2. CASE l = Len(log)
      BY <1>5, <2>1, <3>2 DEF IsOfPage, IsPageRec, Rec
    <3>3. CASE l \in Lsns
      <4>1. l <= mem[p].lsn /\ l < Len(log)
        BY <2>1, <3>3 DEF RInv, Repeated, TxStep, IsOfPage, IsPageRec, Lsns
      <4> QED
        BY <1>5, <2>1, <3>1, <3>3, <4>1 DEF Lsns
    <3> QED
      BY <2>1, <3>2, <3>3
  <2> QED
    BY <1>2, <1>3, <2>3, <2>4 DEF RInv
<1> QED
  BY <1>4, <1>5 DEF TxStep

\* What the invariant says of a transaction in the table.
LEMMA OfTable ==
  ASSUME TypeOK, RInv, NEW t \in Tids
  PROVE  /\ LogOK /\ t \in Nat /\ nextTid \in Nat /\ Len(log) \in Nat
         /\ DOMAIN txn = Tids /\ DOMAIN mem = Pages /\ Pages \subseteq Nat
         /\ txn[t].undoNext \in Nat /\ txn[t].save \in Nat /\ txn[t].last \in Nat
         /\ txn[t] = [st |-> txn[t].st, last |-> txn[t].last, undoNext |-> txn[t].undoNext,
                      commit |-> txn[t].commit, save |-> txn[t].save]
         /\ \A l \in Lsns : Fits(Rec(l), l) /\ Rec(l) \in Records
         /\ Chained(t)
<1>1. /\ LogOK /\ t \in Nat /\ nextTid \in Nat /\ Len(log) \in Nat
      /\ DOMAIN txn = Tids /\ DOMAIN mem = Pages /\ Pages \subseteq Nat
  <2>1. t \in Nat /\ Pages \subseteq Nat
    BY ContentsTypes
  <2>2. LogOK /\ Len(log) \in Nat
    BY DEF TypeOK, LogOK
  <2>3. nextTid \in Nat /\ DOMAIN txn = Tids
    BY DEF TypeOK, RunOK, Tids
  <2>4. DOMAIN mem = Pages
    BY DEF TypeOK, PageOK
  <2> QED
    BY <2>1, <2>2, <2>3, <2>4
<1>2. /\ txn[t].undoNext \in Nat /\ txn[t].save \in Nat /\ txn[t].last \in Nat
      /\ txn[t] = [st |-> txn[t].st, last |-> txn[t].last, undoNext |-> txn[t].undoNext,
                   commit |-> txn[t].commit, save |-> txn[t].save]
  BY DEF TypeOK, RunOK
<1>3. \A l \in Lsns : Fits(Rec(l), l) /\ Rec(l) \in Records
  BY LogRecords DEF TypeOK, RInv, Shape, Lsns, NextLsn
<1>4. Chained(t)
  BY DEF RInv
<1> QED
  BY <1>1, <1>2, <1>3, <1>4

\* A record that t adds while it runs.
LEMMA OwnRecord ==
  ASSUME TypeOK, RInv, phase = "up", NEW t \in Tids,
         NEW k \in Lsns, Rec(k).tid = t, NoneOf("end", Len(log), t),
         NEW r, r.tid = t, r.type \in {"update", "clr", "commit", "end"},
         IsPageRec(r) => /\ LinksTo(r.prev, Len(log), t)
                         /\ NoneOf("commit", Len(log), t)
                         /\ r.pg = Root => r.redo = 0,
         r.type = "update" => (r.pg = Root => r.undo = 0),
         r.type = "clr" => /\ r.undoNext = 0 \/ LinksTo(r.undoNext, Len(log), t)
                           /\ \E l \in Lsns : Rec(l).type = "update" /\ Rec(l).pg = r.pg
  PROVE  Fits(r, Len(log)) /\ t < nextTid
<1>1. Fits(r, Len(log))
  BY DEF Fits, IsTxnRec, IsPageRec, Lsns
<1>2. t < nextTid
  BY DEF RInv, Analysed
<1> QED
  BY <1>1, <1>2

LEMMA BeginStep ==
  ASSUME TypeOK, RInv, NEW t \in Tids, Begin(t)
  PROVE  TxStep(t)
<1> DEFINE r == BeginRec(t)
<1>1. /\ phase = "up" /\ phase' = "up" /\ ctx' = ctx /\ nextTid' = nextTid + 1 /\ t = nextTid
      /\ log' = Append(log, r) /\ txn' = [txn EXCEPT ![t] = NewTxn(Len(log))] /\ mem' = mem
  BY DEF Begin, Room, pageVars, NextLsn
<1>2. LogOK /\ t \in Nat /\ Len(log) \in Nat /\ DOMAIN txn = Tids /\ r.type = "begin" /\ r.tid = t
  BY OfTable DEF BeginRec
<1> HIDE DEF r
<1>3. \A k \in Lsns : Rec(k).tid # t
  <2>1. \A k \in Lsns : Rec(k).tid < t
    BY <1>1 DEF RInv, Analysed
  <2> QED
    BY <1>2, <2>1
<1>4. Fits(r, Len(log))
  BY <1>2, <1>3 DEF Fits, IsTxnRec, IsPageRec, NoneOf, Lsns
<1>5. Chained(t)'
  <2>1. txn'[t] = NewTxn(Len(log))
    BY <1>1, <1>2
  <2>2. /\ Len(log') = Len(log) + 1 /\ log'[Len(log) + 1] = r
        /\ NoneOf("end", Len(log), t)' /\ NoneOf("commit", Len(log), t)'
    <3>1. NoneOf("end", Len(log), t) /\ NoneOf("commit", Len(log), t)
      BY <1>2, <1>3 DEF NoneOf, Lsns
    <3> QED
      BY <1>1, <1>2, <3>1, Longer, LongerChain
  <2>3. PICK l : l = Len(log)
    OBVIOUS
  <2>4. LinksTo(l, Len(log), t)' /\ l \in Lsns' /\ Rec(l)'.tid = t
    BY <1>2, <2>2, <2>3 DEF LinksTo, Lsns, Rec
  <2> QED
    BY <1>1, <2>1, <2>2, <2>3, <2>4 DEF Chained, NewTxn, NoTxn
<1> QED
  BY <1>1, <1>2, <1>4, <1>5 DEF TxStep, IsPageRec

LEMMA UpdateStep ==
  ASSUME TypeOK, RInv, NEW t \in Tids, NEW p \in Pages, NEW v, Update(t, p, v)
  PROVE  TxStep(t)
<1> DEFINE r == UpdateRec(t, txn[t].last, p, mem[p].val, v)
<1>1. /\ phase = "up" /\ phase' = "up" /\ ctx' = ctx /\ nextTid' = nextTid /\ p # Root
      /\ txn[t].st = "running" /\ log' = Append(log, r)
      /\ mem' = [mem EXCEPT ![p] = Image(Len(log), v)]
      /\ txn' = [txn EXCEPT ![t].st = "running", ![t].last = Len(log), ![t].undoNext = Len(log)]
  BY DEF Update, Room, SavePage, NextLsn
<1>2. /\ LogOK /\ nextTid \in Nat /\ Len(log) \in Nat /\ DOMAIN txn = Tids /\ DOMAIN mem = Pages
      /\ txn[t] = [st |-> txn[t].st, last |-> txn[t].last, undoNext |-> txn[t].undoNext,
                   commit |-> txn[t].commit, save |-> txn[t].save]
      /\ Chained(t)
  BY OfTable
<1>3. r.type = "update" /\ r.tid = t /\ r.prev = txn[t].last /\ r.pg = p
  BY DEF UpdateRec
<1> HIDE DEF r
<1>4. PICK k \in Lsns : Rec(k).tid = t
  BY <1>1, <1>2 DEF Chained
<1>5. /\ NoneOf("end", Len(log), t) /\ NoneOf("commit", Len(log), t)
      /\ LinksTo(r.prev, Len(log), t)
  BY <1>1, <1>2, <1>3 DEF Chained
<1>6. Fits(r, Len(log)) /\ t < nextTid
  BY <1>1, <1>3, <1>4, <1>5, OwnRecord
<1>7. Chained(t)'
  <2>1. txn'[t].st = "running" /\ txn'[t].last = Len(log) /\ txn'[t].undoNext = Len(log)
    BY <1>1, <1>2
  <2>2. /\ Len(log') = Len(log) + 1 /\ log'[Len(log) + 1] = r
        /\ NoneOf("end", Len(log), t)' /\ NoneOf("commit", Len(log), t)'
    BY <1>1, <1>2, <1>3, <1>5, Longer, LongerChain
  <2>3. PICK l : l = Len(log)
    OBVIOUS
  <2>4. LinksTo(l, Len(log), t)' /\ l \in Lsns' /\ Rec(l)'.tid = t
    BY <1>2, <1>3, <2>2, <2>3 DEF LinksTo, Lsns, Rec
  <2> QED
    BY <1>1, <2>1, <2>2, <2>3, <2>4 DEF Chained
<1>8. \A q \in Pages : IF IsPageRec(r) /\ r.pg = q THEN mem'[q].lsn = Len(log)
                                                 ELSE mem'[q] = mem[q]
  BY <1>1, <1>2, <1>3 DEF IsPageRec, Image
<1> QED
  BY <1>1, <1>2, <1>3, <1>6, <1>7, <1>8 DEF TxStep

\* What a chain of t finds while it runs: it stays on it with a record at the
\* end of the log, and the savepoint that it keeps.
LEMMA StaysChained ==
  ASSUME TypeOK, RInv, NEW t \in Tids, txn[t].st \in {"running", "rolling"},
         NEW r, log' = Append(log, r), r.tid = t, r.type \in {"update", "clr"},
         phase' = "up", txn'[t].st \in {"running", "rolling"}, txn'[t].last = Len(log),
         \/ txn'[t].undoNext \in {0, Len(log)}
         \/ LinksTo(txn'[t].undoNext, Len(log), t)
  PROVE  Chained(t)'
<1>1. LogOK /\ t \in Nat /\ Len(log) \in Nat /\ Chained(t)
  BY OfTable
<1>2. /\ Len(log') = Len(log) + 1 /\ log'[Len(log) + 1] = r
      /\ NoneOf("end", Len(log), t)' /\ NoneOf("commit", Len(log), t)'
  <2>1. NoneOf("end", Len(log), t) /\ NoneOf("commit", Len(log), t)
    BY <1>1 DEF Chained
  <2> QED
    BY <1>1, <2>1, Longer, LongerChain
<1>3. PICK l : l = Len(log)
  OBVIOUS
<1>4. LinksTo(l, Len(log), t)' /\ l \in Lsns' /\ Rec(l)'.tid = t
  BY <1>1, <1>2, <1>3 DEF LinksTo, Lsns, Rec
<1>5. PICK u : u = txn'[t].undoNext
  OBVIOUS
<1>6. u = 0 \/ LinksTo(u, Len(log), t)'
  <2>1. CASE LinksTo(u, Len(log), t)
    BY <1>1, <2>1, LongerChain
  <2> QED
    BY <1>3, <1>4, <1>5, <2>1
<1> QED
  BY <1>2, <1>3, <1>4, <1>5, <1>6 DEF Chained

\* A step of t that leaves the log and the pages as they are.
LEMMA QuietStep ==
  ASSUME TypeOK, RInv, NEW t \in Tids, phase = "up", phase' = "up",
         UNCHANGED <<log, mem, ctx, nextTid>>,
         \A u \in Tids \ {t} : txn'[u] = txn[u], Chained(t)'
  PROVE  TxStep(t)
<1>1. nextTid \in Nat
  BY OfTable
<1> QED
  BY <1>1 DEF TxStep

LEMMA CommitTxSteps ==
  ASSUME TypeOK, RInv, NEW t \in Tids, CommitLog(t) \/ CommitFlush(t) \/ CommitEnd(t) \/ CommitDone(t)
  PROVE  TxStep(t)
<1>1. /\ LogOK /\ nextTid \in Nat /\ t \in Nat /\ Len(log) \in Nat /\ DOMAIN txn = Tids
      /\ Chained(t)
      /\ txn[t] = [st |-> txn[t].st, last |-> txn[t].last, undoNext |-> txn[t].undoNext,
                   commit |-> txn[t].commit, save |-> txn[t].save]
  BY OfTable
<1>2. CASE CommitLog(t) \/ CommitEnd(t)
  <2>1. PICK r : /\ r.tid = t /\ log' = Append(log, r)
                 /\ \/ r.type = "commit" /\ txn[t].st = "running" /\ txn'[t].st = "logged"
                    \/ r.type = "end" /\ txn[t].st = "flushed" /\ txn'[t].st = "ended"
    <3>1. CASE CommitLog(t)
      BY <1>1, <3>1 DEF CommitLog, CommitRec
    <3>2. CASE CommitEnd(t)
      BY <1>1, <3>2 DEF CommitEnd, EndRec
    <3> QED
      BY <1>2, <3>1, <3>2
  <2>2. /\ phase = "up" /\ phase' = "up" /\ ctx' = ctx /\ nextTid' = nextTid /\ mem' = mem
        /\ \A u \in Tids \ {t} : txn'[u] = txn[u]
    BY <1>1, <1>2 DEF CommitLog, CommitEnd, pageVars
  <2>3. NoneOf("end", Len(log), t)
    BY <1>1, <2>1 DEF Chained
  <2>4. PICK k \in Lsns : Rec(k).tid = t
    BY <1>1, <2>1 DEF Chained
  <2>5. Fits(r, Len(log)) /\ t < nextTid
    BY <2>1, <2>2, <2>3, <2>4, OwnRecord DEF IsPageRec
  <2>6. Chained(t)'
    <3>1. \E l \in Lsns' : Rec(l)'.tid = t
      BY <1>1, <2>1, <2>4, Longer
    <3>2. CASE r.type = "end"
      BY <2>1, <2>2, <3>2 DEF Chained
    <3>3. CASE r.type = "commit"
      <4>1. NoneOf("end", Len(log), t)'
        BY <1>1, <2>1, <2>3, <3>3, LongerChain
      <4> QED
        BY <2>1, <2>2, <3>1, <3>3, <4>1 DEF Chained
    <3> QED
      BY <2>1, <3>2, <3>3
  <2> QED
    BY <1>1, <2>1, <2>2, <2>5, <2>6 DEF TxStep, IsPageRec
<1>3. CASE CommitFlush(t) \/ CommitDone(t)
  <2>1. /\ phase = "up" /\ phase' = "up" /\ UNCHANGED <<log, mem, ctx, nextTid>>
        /\ \A u \in Tids \ {t} : txn'[u] = txn[u]
        /\ \/ txn[t].st = "logged" /\ txn'[t].st = "flushed"
           \/ txn[t].st = "ended" /\ txn'[t].st = "done"
    <3>1. CASE CommitFlush(t)
      BY <1>1, <3>1 DEF CommitFlush, pageVars, walVars
    <3>2. CASE CommitDone(t)
      BY <1>1, <3>2 DEF CommitDone, pageVars, walVars
    <3> QED
      BY <1>3, <3>1, <3>2
  <2>2. Chained(t)'
    BY <1>1, <2>1 DEF Chained, NoneOf, Lsns, Rec
  <2> QED
    BY <2>1, <2>2, QuietStep
<1> QED
  BY <1>2, <1>3

LEMMA RollbackTxSteps ==
  ASSUME TypeOK, RInv, NEW t \in Tids,
         \/ \E s \in 0..(NextLsn - 1) : Rollback(t, s)
         \/ RollbackUpdate(t) \/ RollbackSkip(t) \/ RollbackEof(t) \/ RollbackReturn(t)
  PROVE  TxStep(t)
<1>1. /\ LogOK /\ nextTid \in Nat /\ t \in Nat /\ Len(log) \in Nat /\ DOMAIN txn = Tids
      /\ DOMAIN mem = Pages /\ Chained(t) /\ txn[t].undoNext \in Nat /\ txn[t].save \in Nat
      /\ \A l \in Lsns : Fits(Rec(l), l) /\ Rec(l) \in Records
      /\ txn[t] = [st |-> txn[t].st, last |-> txn[t].last, undoNext |-> txn[t].undoNext,
                   commit |-> txn[t].commit, save |-> txn[t].save]
  BY OfTable
<1> DEFINE Turns == /\ phase = "up" /\ phase' = "up" /\ ctx' = ctx /\ nextTid' = nextTid
                    /\ txn[t].st \in {"running", "rolling"} /\ txn'[t].st \in {"running", "rolling"}
                    /\ \A u \in Tids \ {t} : txn'[u] = txn[u]
           Stays == /\ UNCHANGED <<log, mem>>
                    /\ txn'[t].last = txn[t].last /\ txn'[t].undoNext = txn[t].undoNext
<1>2. Turns
  <2>1. ASSUME NEW s \in 0..(NextLsn - 1), Rollback(t, s) PROVE Turns
    BY <1>1, <2>1 DEF Rollback
  <2>2. CASE RollbackUpdate(t)
    BY <1>1, <2>2 DEF RollbackUpdate, Undoing
  <2>3. CASE RollbackSkip(t)
    BY <1>1, <2>3 DEF RollbackSkip, Undoing
  <2>4. CASE RollbackEof(t) \/ RollbackReturn(t)
    BY <1>1, <2>4 DEF RollbackEof, RollbackReturn, Undoing
  <2> QED
    BY <2>1, <2>2, <2>3, <2>4
<1>3. CASE (\E s \in 0..(NextLsn - 1) : Rollback(t, s)) \/ RollbackEof(t) \/ RollbackReturn(t)
  <2>1. Stays
    <3>1. ASSUME NEW s \in 0..(NextLsn - 1), Rollback(t, s) PROVE Stays
      BY <1>1, <3>1 DEF Rollback, walVars, pageVars
    <3>2. CASE RollbackEof(t)
      BY <1>1, <3>2 DEF RollbackEof, walVars, pageVars
    <3>3. CASE RollbackReturn(t)
      BY <1>1, <3>3 DEF RollbackReturn, walVars, pageVars
    <3> QED
      BY <1>3, <3>1, <3>2, <3>3
  <2>2. Chained(t)'
    BY <1>1, <1>2, <2>1 DEF Chained, LinksTo, NoneOf, Lsns, Rec
  <2> QED
    BY <1>2, <2>1, <2>2, QuietStep
<1>4. ASSUME MoreToUndo(t), txn[t].undoNext # 0
      PROVE  LinksTo(txn[t].undoNext, Len(log), t)
  BY <1>1, <1>2, <1>4 DEF Chained
<1> DEFINE n == txn[t].undoNext
<1>5. ASSUME MoreToUndo(t) PROVE n \in Lsns /\ Rec(n).tid = t /\ Fits(Rec(n), n) /\ Rec(n) \in Records
  <2>1. n # 0
    BY <1>1, <1>5 DEF MoreToUndo
  <2> QED
    BY <1>1, <1>4, <1>5, <2>1 DEF LinksTo, Lsns
<1>6. ASSUME NEW k, MoreToUndo(t), LinksTo(k, n, t) PROVE LinksTo(k, Len(log), t)
  BY <1>1, <1>5, <1>6 DEF LinksTo, Lsns
<1>7. CASE RollbackSkip(t)
  <2>1. /\ MoreToUndo(t) /\ UNCHANGED <<log, mem>> /\ txn'[t].last = txn[t].last
        /\ txn'[t].undoNext = (IF Rec(n).type = "clr" THEN Rec(n).undoNext ELSE 0)
    BY <1>1, <1>7 DEF RollbackSkip, Undoing, UndoRec, walVars, pageVars
  <2>2. PICK u : u = txn'[t].undoNext
    OBVIOUS
  <2>3. u = 0 \/ LinksTo(u, Len(log), t)
    <3>1. CASE Rec(n).type = "clr"
      BY <1>5, <1>6, <2>1, <2>2, <3>1 DEF Fits
    <3> QED
      BY <2>1, <2>2, <3>1
  <2>4. Chained(t)'
    BY <1>1, <1>2, <2>1, <2>2, <2>3 DEF Chained, LinksTo, NoneOf, Lsns, Rec
  <2> QED
    BY <1>2, <2>1, <2>4, QuietStep
<1>8. CASE RollbackUpdate(t)
  <2> DEFINE u == Rec(n)
             r == ClrRec(u.tid, txn[t].last, u.pg, u.prev, Undone(u))
  <2>1. /\ MoreToUndo(t) /\ u.type = "update" /\ log' = Append(log, r)
        /\ mem' = [mem EXCEPT ![u.pg] = Image(Len(log), Undone(u))]
        /\ txn'[t].last = Len(log) /\ txn'[t].undoNext = u.prev
    BY <1>1, <1>8 DEF RollbackUpdate, Undoing, UndoRec, NextLsn
  <2>2. n \in Lsns /\ u.tid = t /\ Fits(u, n)
    BY <1>5, <2>1
  <2>3. LinksTo(u.prev, Len(log), t) /\ (u.pg = Root => u.undo = 0)
    BY <1>6, <2>1, <2>2 DEF Fits, IsPageRec
  <2>4. /\ r.type = "clr" /\ r.tid = t /\ r.pg = u.pg /\ r.prev = txn[t].last
        /\ r.undoNext = u.prev /\ r.redo = u.undo
    BY <2>2 DEF ClrRec, Undone
  <2> HIDE DEF r
  <2>5. Chained(t)'
    BY <1>2, <2>1, <2>3, <2>4, StaysChained
  <2>6. PICK k \in Lsns : Rec(k).tid = t
    BY <2>2
  <2>7. /\ NoneOf("end", Len(log), t) /\ NoneOf("commit", Len(log), t)
        /\ LinksTo(txn[t].last, Len(log), t)
    BY <1>1, <1>2 DEF Chained
  <2>8. Fits(r, Len(log)) /\ t < nextTid
    <3>1. \E l \in Lsns : Rec(l).type = "update" /\ Rec(l).pg = r.pg
      BY <2>1, <2>2, <2>4
    <3> QED
      BY <1>2, <2>3, <2>4, <2>6, <2>7, <3>1, OwnRecord
  <2>9. \A q \in Pages : IF IsPageRec(r) /\ r.pg = q THEN mem'[q].lsn = Len(log)
                                                   ELSE mem'[q] = mem[q]
    BY <1>1, <2>1, <2>4 DEF IsPageRec, Image
  <2> QED
    BY <1>1, <1>2, <2>1, <2>4, <2>5, <2>8, <2>9 DEF TxStep
<1> QED
  BY <1>3, <1>7, <1>8

LEMMA TransactionKeeps ==
  ASSUME TypeOK, TypeOK', RInv, NEW t \in Tids, Transaction(t)
  PROVE  RInv'
<1>1. TxStep(t)
  BY BeginStep, UpdateStep, CommitTxSteps, RollbackTxSteps DEF Transaction
<1> QED
  BY <1>1, TxStepKeeps

-----------------------------------------------------------------------------
(* The buffer pool, a crash and a clean close. *)

LEMMA PoolKeeps ==
  ASSUME TypeOK, TypeOK', RInv, (\E p \in Pages : Evict(p)) \/ Flush \/ Crash \/ Close
  PROVE  RInv'
<1>1. LogOK /\ LogOK' /\ Len(log) \in Nat /\ flushed \in Nat /\ flushed' \in Nat
  BY DEF TypeOK, LogOK
<1>2. CASE Crash \/ Close
  <2>1. phase' = "down" /\ flushed' = Len(log') /\ \A t \in Tids : txn'[t].st = "none"
    <3>1. phase' = "down" /\ \A t \in Tids : txn'[t].st = "none"
      BY <1>2 DEF Crash, Close, GoDown, NoTxn
    <3>2. CASE Crash
      <4>1. PICK n \in flushed..Len(log) : log' = SubSeq(log, 1, n) /\ flushed' = n
        BY <3>2 DEF Crash
      <4>2. n \in Nat /\ n <= Len(log) /\ Len(log') = n
        BY <1>1, <4>1 DEF LogOK
      <4> QED
        BY <3>1, <4>1, <4>2
    <3>3. CASE Close
      BY <3>1, <3>3 DEF Close
    <3> QED
      BY <1>2, <3>1, <3>2, <3>3
  <2>2. Shape'
    BY <1>1, <1>2, ShapeKept DEF RInv, Close
  <2>3. (\A t \in Tids : Chained(t)') /\ Analysed' /\ \A p \in Pages : Repeated(p)'
    BY <2>1 DEF Chained, Analysed, Repeated, Restarting
  <2> QED
    BY <2>2, <2>3 DEF RInv
<1>3. CASE (\E p \in Pages : Evict(p)) \/ Flush
  <2>1. /\ UNCHANGED <<log, mem, txn, nextTid, phase, ctx>>
        /\ phase \in {"up", "ends", "redo", "undo"}
        /\ flushed' \in {flushed, Len(log)}
    <3>1. ASSUME NEW p \in Pages, Evict(p)
          PROVE  /\ UNCHANGED <<log, mem, txn, nextTid, phase, ctx>>
                 /\ phase \in {"up", "ends", "redo", "undo"} /\ flushed' \in {flushed, Len(log)}
      BY <3>1 DEF Evict, Restarting, EvictFlushed
    <3>2. CASE Flush
      BY <3>2 DEF Flush, pageVars, runVars
    <3> QED
      BY <1>3, <3>1, <3>2
  <2>2. flushed <= flushed'
    BY <1>1, <2>1 DEF LogOK
  <2>3. Lsns' = Lsns /\ (\A l : Rec(l)' = Rec(l))
    BY <2>1 DEF Lsns, Rec
  <2>4. Shape'
    BY <1>1, <2>1, ShapeKept DEF RInv
  <2>5. ASSUME NEW t \in Tids PROVE Chained(t)'
    BY <1>1, <2>1, <2>5, ChainedKept DEF RInv
  <2>6. Analysed'
    BY <2>1, <2>3 DEF RInv, Analysed, Restarting, Unended, NoneOf
  <2>7. ASSUME NEW p \in Pages PROVE Repeated(p)'
    <3> SUFFICES ASSUME NEW l \in Lsns, IsOfPage(l, p)
                 PROVE  /\ phase \in {"ends", "redo"} =>
                             l < flushed' /\ (Done(l, p) => l <= mem[p].lsn)
                        /\ phase \in {"undo", "up"} => l <= mem[p].lsn
      BY <2>1, <2>3 DEF Repeated, IsOfPage, IsPageRec, Done
    <3>1. /\ phase \in {"ends", "redo"} => l < flushed /\ (Done(l, p) => l <= mem[p].lsn)
          /\ phase \in {"undo", "up"} => l <= mem[p].lsn
      BY DEF RInv, Repeated
    <3>2. l \in Int
      BY DEF Lsns
    <3> QED
      BY <1>1, <2>2, <3>1, <3>2
  <2> QED
    BY <2>4, <2>5, <2>6, <2>7 DEF RInv
<1> QED
  BY <1>2, <1>3

-----------------------------------------------------------------------------
(***************************************************************************)
(* The restart.  Without checkpoints the root keeps master LSN 0, so the   *)
(* analysis reads the whole file.                                          *)
(***************************************************************************)
LEMMA NoMaster ==
  ASSUME TypeOK, RInv, NamedInv
  PROVE  /\ disk[Root].val = 0 /\ disk[Root].lsn \in Lsns /\ IsOfPage(disk[Root].lsn, Root)
<1>1. Root \in Pages
  BY NPagesAssumption DEF Root, Pages
<1>2. PICK l : l = disk[Root].lsn
  OBVIOUS
<1>3. /\ l \in Nat /\ l < Len(log) /\ IsPageRec(Rec(l)) /\ Rec(l).pg = Root
      /\ Rec(l).redo = disk[Root].val /\ Len(log) \in Nat
  BY <1>1, <1>2 DEF NamedInv, Named, Produced, TypeOK, PageOK, LogOK
<1>4. l \in Lsns
  BY <1>3 DEF Lsns
<1> QED
  BY <1>2, <1>3, <1>4 DEF RInv, Shape, Fits, IsOfPage

\* What the log says when all of it is in the file: the first record of a
\* transaction that did not end is its BEGIN.
LEMMA FirstIsBegin ==
  ASSUME TypeOK, RInv, flushed = Len(log), NEW t \in Tids, Mentioned(t, 0) # {}
  PROVE  /\ FirstEntry(Min(Mentioned(t, 0)), t).st = "U"
         /\ FirstEntry(Min(Mentioned(t, 0)), t).undoNext = 0
         /\ NoneOf("end", Len(log), t)
         /\ \E k \in Lsns : Rec(k).tid = t
<1> DEFINE S == Mentioned(t, 0)
           l == Min(S)
<1>1. Len(log) \in Nat /\ Scanned(0) = Lsns /\ Lsns \subseteq Nat
  BY DEF TypeOK, LogOK, Scanned, InFile, Lsns
<1>2. ASSUME NEW k \in Lsns PROVE /\ Fits(Rec(k), k) /\ IsTxnRec(Rec(k))
                                  /\ Mentions(k, t) <=> Rec(k).tid = t
  BY DEF RInv, Shape, Fits, Mentions, IsTxnRec
<1>3. S \in SUBSET Nat /\ S \subseteq Lsns
  BY <1>1 DEF Mentioned
<1>4. l \in S /\ \A x \in S : l <= x
  BY <1>3, MinIsMember
<1>5. l \in Lsns /\ Rec(l).tid = t /\ \A e \in Lsns : e >= l => ~ (Rec(e).type = "end" /\ Rec(e).tid = t)
  BY <1>1, <1>2, <1>3, <1>4 DEF Mentioned
<1> HIDE DEF S, l
<1>6. NoneOf("end", Len(log), t)
  <2> SUFFICES ASSUME NEW e \in Lsns, Rec(e).type = "end", Rec(e).tid = t PROVE FALSE
    BY DEF NoneOf, Lsns
  <2>1. e < l
    BY <1>1, <1>5
  <2>2. NoneOf("end", l, t)
    BY <1>2, <1>5 DEF Fits
  <2> QED
    BY <1>1, <1>5, <2>1, <2>2 DEF NoneOf, Lsns
<1>7. Rec(l).type = "begin"
  <2>1. ASSUME NEW k \in 0..(l - 1) PROVE Rec(k).tid # t
    <3>1. k \in Lsns /\ k < l /\ k \in Nat
      BY <1>1, <1>5 DEF Lsns
    <3>2. k \notin S
      BY <1>1, <1>4, <1>5, <3>1
    <3>3. \A e \in Lsns : ~ (Rec(e).type = "end" /\ Rec(e).tid = t)
      BY <1>6 DEF NoneOf, Lsns
    <3> QED
      BY <1>1, <1>2, <3>1, <3>2, <3>3 DEF S, Mentioned
  <2> QED
    BY <1>2, <1>5, <2>1 DEF Fits
<1>8. FirstEntry(l, t) = [st |-> "U", last |-> l, undoNext |-> 0]
  BY <1>7 DEF FirstEntry, BeginPrev
<1> QED
  BY <1>5, <1>6, <1>8 DEF S, l

\* Each page that the log knows is in the table of dirty pages, with its first
\* update, which no page record precedes.
LEMMA TableOfPages ==
  ASSUME TypeOK, RInv, flushed = Len(log)
  PROVE  /\ \A p \in Pages : CkptsWith(p, 0) = {}
         /\ \A p \in Pages, l \in Lsns : IsOfPage(l, p) =>
              DptOf(0, {})[p] \in Nat \ {0} /\ DptOf(0, {})[p] <= l
<1>1. Len(log) \in Nat /\ Scanned(0) = Lsns /\ Lsns \subseteq Nat
  BY DEF TypeOK, LogOK, Scanned, InFile, Lsns
<1>2. ASSUME NEW k \in Lsns PROVE Fits(Rec(k), k)
  BY DEF RInv, Shape
<1>3. ASSUME NEW p \in Pages PROVE CkptsWith(p, 0) = {}
  BY <1>1, <1>2 DEF CkptsWith, Fits, IsTxnRec
<1>4. ASSUME NEW p \in Pages, NEW l \in Lsns, IsOfPage(l, p)
      PROVE  DptOf(0, {})[p] \in Nat \ {0} /\ DptOf(0, {})[p] <= l
  <2>1. PICK k \in Lsns : k <= l /\ Rec(k).type = "update" /\ Rec(k).pg = p
    <3>1. CASE Rec(l).type = "update"
      BY <1>1, <1>4, <3>1 DEF IsOfPage
    <3>2. CASE Rec(l).type = "clr"
      <4>1. PICK k \in 0..(l - 1) : Rec(k).type = "update" /\ Rec(k).pg = p
        BY <1>2, <1>4, <3>2 DEF Fits, IsOfPage
      <4> QED
        BY <1>1, <4>1 DEF Lsns
    <3> QED
      BY <1>4, <3>1, <3>2 DEF IsOfPage, IsPageRec
  <2> DEFINE S == UpdatesOf(p, 0)
             m == Min(S)
  <2>2. S \in SUBSET Nat /\ k \in S /\ S \subseteq Lsns
    BY <1>1, <2>1 DEF UpdatesOf
  <2>3. m \in S /\ m <= k
    BY <2>2, MinIsMember
  <2>4. DptOf(0, {})[p] = m
    BY <1>3, <2>2 DEF DptOf
  <2>5. m # 0
    <3>1. Rec(m).type = "update" /\ Fits(Rec(m), m)
      BY <1>2, <2>2, <2>3 DEF UpdatesOf
    <3> QED
      BY <3>1 DEF Fits, IsPageRec, LinksTo
  <2> HIDE DEF m, S
  <2> QED
    BY <1>1, <2>1, <2>2, <2>3, <2>4, <2>5
<1> QED
  BY <1>3, <1>4

LEMMA OpenKeeps ==
  ASSUME TypeOK, TypeOK', RInv, NamedInv, Open
  PROVE  RInv' /\ phase' # "failed"
<1> DEFINE d == DptOf(0, {})
           m == Min(RecLsns(d))
<1>1. /\ LogOK /\ Len(log) \in Nat /\ flushed = Len(log) /\ InFile = Lsns /\ Lsns \subseteq Nat
      /\ phase = "down" /\ UNCHANGED <<log, flushed, mem, txn, nextTid>>
  BY DEF TypeOK, LogOK, RInv, Analysed, Open, walVars, pageVars, runVars, InFile, Lsns
<1>2. PICK l0 \in Lsns : IsOfPage(l0, Root)
  BY NoMaster
<1>3. /\ \A p \in Pages : CkptsWith(p, 0) = {}
      /\ \A p \in Pages, l \in Lsns : IsOfPage(l, p) => d[p] \in Nat \ {0} /\ d[p] <= l
  BY <1>1, TableOfPages
<1>4. d \in [Pages -> Nat]
  BY <1>1, <1>3, DptType
<1>5. RecLsns(d) \in SUBSET Nat /\ \A p \in Pages : d[p] # 0 => d[p] \in RecLsns(d)
  BY <1>4 DEF RecLsns
<1>6. RecLsns(d) # {}
  <2>1. Root \in Pages
    BY NPagesAssumption DEF Root, Pages
  <2> QED
    BY <1>2, <1>3, <1>5, <2>1
<1>7. phase' = "ends" /\ ctx' = [att |-> AttOf(0), dpt |-> d, redo |-> m,
                                 maxTid |-> MaxTidRead(0, m), master |-> 0]
  <2>1. disk[Root].val = 0
    BY NoMaster
  <2>2. {p \in Pages : CkptsWith(p, 0) # {}} = {}
    BY <1>3
  <2> QED
    BY <1>6, <2>1, <2>2 DEF Open
<1>8. m \in Nat /\ \A x \in RecLsns(d) : m <= x
  BY <1>5, <1>6, MinIsMember
<1> HIDE DEF d, m
<1>9. Lsns' = Lsns /\ (\A l : Rec(l)' = Rec(l))
  BY <1>1 DEF Lsns, Rec
<1>10. Shape'
  BY <1>1, ShapeKept DEF TypeOK, RInv
<1>11. ASSUME NEW t \in Tids PROVE Chained(t)'
  BY <1>1 DEF RInv, Chained
<1>12. \A l \in Lsns : Rec(l).tid <= MaxTidRead(0, m)
  <2> DEFINE S == {0} \cup {Rec(l).tid : l \in {k \in InFile : IsTxnRec(Rec(k)) /\ (k >= m \/ k \in Scanned(0))}}
  <2>1. \A l \in Lsns : IsTxnRec(Rec(l)) /\ Rec(l) \in Records
    BY <1>1, LogRecords DEF RInv, Shape, Fits, NextLsn, Lsns
  <2>2. \A l \in Lsns : Rec(l).tid \in Tids
    BY <2>1, RecordFields
  <2>3. Scanned(0) = Lsns
    BY <1>1 DEF Scanned
  <2>4. \A l \in Lsns : Rec(l).tid \in S
    BY <1>1, <2>1, <2>3
  <2>5. S \in SUBSET (0..MaxTid) /\ S # {} /\ MaxTid \in Nat
    BY <1>1, <2>2, MaxTidAssumption DEF Tids
  <2>6. \A x \in S : x <= Max(S)
    BY <2>5, MaxIsMember
  <2> QED
    BY <2>4, <2>6 DEF MaxTidRead
<1>13. ASSUME NEW t \in Tids, AttOf(0)[t].st # "none"
       PROVE  /\ AttOf(0)[t].st = "U" /\ AttOf(0)[t].undoNext = 0 /\ NoneOf("end", Len(log), t)
              /\ \E k \in Lsns : Rec(k).tid = t
  <2>1. Mentioned(t, 0) # {}
    BY <1>13 DEF AttOf, NoEntry
  <2>2. AttOf(0)[t] = FirstEntry(Min(Mentioned(t, 0)), t)
    BY <2>1 DEF AttOf
  <2> QED
    BY <1>1, <2>1, <2>2, FirstIsBegin
<1>14. Analysed'
  <2>1. ctx'.att = AttOf(0) /\ ctx'.maxTid = MaxTidRead(0, m)
    BY <1>7
  <2>2. ASSUME NEW t \in Tids PROVE ctx'.att[t].st = "none" \/ Unended(t)'
    BY <1>1, <1>9, <1>13, <2>1 DEF Unended, NoneOf
  <2> QED
    BY <1>7, <1>9, <1>12, <2>1, <2>2 DEF Analysed
<1>15. ASSUME NEW p \in Pages PROVE Repeated(p)'
  <2> SUFFICES ASSUME NEW l \in Lsns, IsOfPage(l, p) PROVE l < flushed /\ ~ Done(l, p)'
    BY <1>1, <1>7, <1>9 DEF Repeated, IsOfPage, IsPageRec
  <2>1. d[p] \in Nat \ {0} /\ d[p] <= l /\ l \in Nat
    BY <1>1, <1>3
  <2>2. m <= d[p]
    BY <1>5, <1>8, <2>1
  <2>3. ctx'.redo = m /\ ctx'.dpt = d
    BY <1>7
  <2>4. l < flushed
    BY <1>1 DEF Lsns
  <2> QED
    BY <1>8, <2>1, <2>2, <2>3, <2>4 DEF Done
<1> QED
  BY <1>7, <1>10, <1>11, <1>14, <1>15 DEF RInv

\* Where a restart stands: no transaction runs, and the analysis has no loser.
LEMMA InRestart ==
  ASSUME TypeOK, RInv, Restarting
  PROVE  /\ LogOK /\ Len(log) \in Nat /\ flushed \in Nat /\ ctx.redo \in Nat
         /\ DOMAIN ctx.att = Tids /\ ctx.dpt \in [Pages -> Nat] /\ mem \in [Pages -> [lsn : Nat, val : Contents]]
         /\ ctx = [att |-> ctx.att, dpt |-> ctx.dpt, redo |-> ctx.redo, maxTid |-> ctx.maxTid,
                   master |-> ctx.master]
         /\ \A t \in Tids : txn[t].st = "none"
         /\ \A l \in Lsns : Rec(l).tid <= ctx.maxTid
         /\ phase = "ends" => \A t \in Tids : ctx.att[t].st = "none" \/ Unended(t)
         /\ phase \in {"redo", "undo"} => \A t \in Tids : ctx.att[t].st = "none"
<1>1. \A t \in Tids : txn[t].st = "none"
  BY DEF RInv, Chained, Restarting
<1> QED
  BY <1>1 DEF TypeOK, LogOK, PageOK, CtxOK, RInv, Analysed

LEMMA AnalysisKeeps ==
  ASSUME TypeOK, TypeOK', RInv, NEW t \in Tids, AnalysisEnd(t)
  PROVE  RInv'
<1> DEFINE r == EndRec(t, ctx.att[t].last)
<1>1. /\ phase = "ends" /\ phase' = "ends" /\ t \in Finished /\ log' = Append(log, r)
      /\ ctx' = [ctx EXCEPT !.att[t] = NoEntry] /\ UNCHANGED <<flushed, mem, txn, nextTid>>
  BY DEF AnalysisEnd, pageVars, runVars
<1>2. r.type = "end" /\ r.tid = t
  BY DEF EndRec
<1> HIDE DEF r
<1>3. /\ LogOK /\ Len(log) \in Nat /\ DOMAIN ctx.att = Tids
      /\ ctx = [att |-> ctx.att, dpt |-> ctx.dpt, redo |-> ctx.redo, maxTid |-> ctx.maxTid,
                master |-> ctx.master]
      /\ \A u \in Tids : txn[u].st = "none"
      /\ \A l \in Lsns : Rec(l).tid <= ctx.maxTid
      /\ \A u \in Tids : ctx.att[u].st = "none" \/ Unended(u)
  BY <1>1, InRestart DEF Restarting
<1>4. Unended(t)
  BY <1>1, <1>3 DEF Finished
<1>5. PICK k \in Lsns : Rec(k).tid = t
  BY <1>4 DEF Unended
<1>6. Fits(r, Len(log))
  BY <1>2, <1>4, <1>5 DEF Fits, IsTxnRec, IsPageRec, Unended, Lsns
<1>7. /\ Len(log') = Len(log) + 1 /\ log'[Len(log) + 1] = r
      /\ \A l \in Lsns : Rec(l)' = Rec(l)
      /\ Lsns' = Lsns \cup {Len(log)}
  BY <1>1, <1>3, Longer
<1>8. Shape'
  BY <1>1, <1>6, ShapeKept DEF TypeOK, RInv
<1>9. ASSUME NEW u \in Tids PROVE Chained(u)'
  BY <1>1, <1>3 DEF Chained
<1>10. Analysed'
  <2>1. ctx'.maxTid = ctx.maxTid /\ ctx'.att = [ctx.att EXCEPT ![t] = NoEntry]
    BY <1>1, <1>3
  <2>2. ASSUME NEW l \in Lsns' PROVE Rec(l)'.tid <= ctx'.maxTid
    <3>1. CASE l = Len(log)
      <4>1. Rec(l)' = r
        BY <1>7, <3>1 DEF Rec
      <4> QED
        BY <1>2, <1>3, <1>5, <2>1, <4>1
    <3>2. CASE l \in Lsns
      BY <1>3, <1>7, <2>1, <3>2
    <3> QED
      BY <1>7, <3>1, <3>2
  <2>3. ASSUME NEW u \in Tids PROVE ctx'.att[u].st = "none" \/ Unended(u)'
    <3>1. CASE u = t
      BY <1>3, <2>1, <3>1 DEF NoEntry
    <3>2. CASE u # t
      <4>1. ctx'.att[u] = ctx.att[u]
        BY <1>3, <2>1, <3>2
      <4>2. SUFFICES ASSUME Unended(u) PROVE Unended(u)'
        BY <1>3, <4>1
      <4>3. NoneOf("end", Len(log), u)'
        BY <1>1, <1>2, <1>3, <3>2, <4>2, LongerChain DEF Unended
      <4>4. \E j \in Lsns' : Rec(j)'.tid = u
        BY <1>7, <4>2 DEF Unended
      <4> QED
        BY <4>1, <4>2, <4>3, <4>4 DEF Unended
    <3> QED
      BY <3>1, <3>2
  <2> QED
    BY <1>1, <2>2, <2>3 DEF Analysed
<1>11. ASSUME NEW p \in Pages PROVE Repeated(p)'
  <2>1. ctx'.redo = ctx.redo /\ ctx'.dpt = ctx.dpt
    BY <1>1, <1>3
  <2> SUFFICES ASSUME NEW l \in Lsns', IsOfPage(l, p)'
               PROVE  l < flushed /\ (Done(l, p) => l <= mem[p].lsn)
    BY <1>1, <2>1 DEF Repeated, Done
  <2>2. l # Len(log)
    BY <1>2, <1>7 DEF IsOfPage, IsPageRec, Rec
  <2>3. l \in Lsns /\ IsOfPage(l, p)
    BY <1>7, <2>2 DEF IsOfPage, IsPageRec
  <2> QED
    BY <1>1, <2>3 DEF RInv, Repeated
<1> QED
  BY <1>8, <1>9, <1>10, <1>11 DEF RInv

LEMMA RedoKeeps ==
  ASSUME TypeOK, TypeOK', RInv, Redo
  PROVE  RInv'
<1> DEFINE l == ctx.redo
           r == Rec(l)
           q == r.pg
<1>1. /\ phase = "redo" /\ phase' = "redo" /\ UNCHANGED <<log, flushed, txn, nextTid>>
      /\ l \in InFile
  BY DEF Redo, walVars, runVars
<1>2. /\ LogOK /\ flushed \in Nat /\ Len(log) \in Nat /\ l \in Nat
      /\ ctx.dpt \in [Pages -> Nat] /\ mem \in [Pages -> [lsn : Nat, val : Contents]]
      /\ ctx = [att |-> ctx.att, dpt |-> ctx.dpt, redo |-> ctx.redo, maxTid |-> ctx.maxTid,
                master |-> ctx.master]
      /\ \A t \in Tids : txn[t].st = "none" /\ ctx.att[t].st = "none"
      /\ \A k \in Lsns : Rec(k).tid <= ctx.maxTid
  BY <1>1, InRestart DEF Restarting
<1>3. /\ ctx'.att = ctx.att /\ ctx'.maxTid = ctx.maxTid /\ ctx'.redo = l + 1
      /\ \/ /\ IsPageRec(r) /\ ctx.dpt[q] # 0 /\ l >= ctx.dpt[q]
            /\ \/ mem' = [mem EXCEPT ![q] = Image(l, r.redo)] /\ ctx'.dpt = ctx.dpt
               \/ /\ mem' = mem /\ ~ (mem[q].lsn < l)
                  /\ ctx'.dpt = [ctx.dpt EXCEPT ![q] = mem[q].lsn + 1]
         \/ /\ ~ (IsPageRec(r) /\ ctx.dpt[q] # 0 /\ l >= ctx.dpt[q])
            /\ mem' = mem /\ ctx'.dpt = ctx.dpt
  <2>1. CASE IsPageRec(r) /\ ctx.dpt[q] # 0 /\ l >= ctx.dpt[q]
    <3>1. CASE RedoNeeded(q, l)
      BY <1>2, <2>1, <3>1 DEF Redo, ReadNext
    <3>2. CASE ~ RedoNeeded(q, l)
      BY <1>2, <2>1, <3>2 DEF Redo, ReadNext, RedoNeeded
    <3> QED
      BY <3>1, <3>2
  <2>2. CASE ~ (IsPageRec(r) /\ ctx.dpt[q] # 0 /\ l >= ctx.dpt[q])
    BY <1>2, <2>2 DEF Redo, ReadNext
  <2> QED
    BY <2>1, <2>2
<1>4. Lsns' = Lsns /\ (\A k : Rec(k)' = Rec(k)) /\ Shape'
  BY <1>1, ShapeKept DEF Lsns, Rec, TypeOK, RInv
<1>5. (\A t \in Tids : Chained(t)') /\ Analysed'
  BY <1>1, <1>2, <1>3, <1>4 DEF Chained, Analysed, Restarting
<1>6. ASSUME NEW p \in Pages PROVE Repeated(p)'
  <2> SUFFICES ASSUME NEW k \in Lsns, IsOfPage(k, p), Done(k, p)'
               PROVE  k < flushed /\ k <= mem'[p].lsn
    BY <1>1, <1>4 DEF Repeated, IsOfPage, IsPageRec, RInv
  <2>1. k < flushed /\ (Done(k, p) => k <= mem[p].lsn)
    BY <1>1 DEF RInv, Repeated
  <2>2. k \in Nat /\ mem[p].lsn \in Nat /\ ctx.dpt[p] \in Nat
    BY <1>2 DEF Lsns
  <2>3. k < l + 1 \/ ctx'.dpt[p] = 0 \/ k < ctx'.dpt[p]
    BY <1>3 DEF Done
  <2>4. k = l => q = p /\ IsPageRec(r)
    BY DEF IsOfPage
  <2>5. k < l \/ k = l \/ k > l
    BY <1>2, <2>2
  <2>6. CASE mem' = [mem EXCEPT ![q] = Image(l, r.redo)] /\ ctx'.dpt = ctx.dpt
             /\ IsPageRec(r) /\ ctx.dpt[q] # 0 /\ l >= ctx.dpt[q]
    <3>1. CASE p = q
      <4>1. mem'[p].lsn = l
        BY <1>2, <2>6, <3>1 DEF Image
      <4> QED
        BY <1>2, <2>1, <2>2, <2>3, <2>6, <3>1, <4>1
    <3>2. CASE p # q
      <4>1. mem'[p] = mem[p] /\ Done(k, p)
        BY <1>2, <2>2, <2>3, <2>4, <2>6, <3>2 DEF Done
      <4> QED
        BY <2>1, <4>1
    <3> QED
      BY <3>1, <3>2
  <2>7. CASE mem' = mem /\ ~ (mem[q].lsn < l) /\ ctx'.dpt = [ctx.dpt EXCEPT ![q] = mem[q].lsn + 1]
             /\ IsPageRec(r) /\ ctx.dpt[q] # 0 /\ l >= ctx.dpt[q]
    <3>1. CASE p = q
      <4>1. ctx'.dpt[p] = mem[p].lsn + 1 /\ ~ (mem[p].lsn < l)
        BY <1>2, <2>7, <3>1
      <4> QED
        BY <1>2, <2>1, <2>2, <2>3, <2>7, <4>1
    <3>2. CASE p # q
      <4>1. Done(k, p)
        BY <1>2, <2>2, <2>3, <2>4, <2>7, <3>2 DEF Done
      <4> QED
        BY <2>1, <2>7, <4>1
    <3> QED
      BY <3>1, <3>2
  <2>8. CASE mem' = mem /\ ctx'.dpt = ctx.dpt /\ ~ (IsPageRec(r) /\ ctx.dpt[q] # 0 /\ l >= ctx.dpt[q])
    <3>1. Done(k, p)
      BY <1>2, <2>2, <2>3, <2>4, <2>8 DEF Done
    <3> QED
      BY <2>1, <2>8, <3>1
  <2> QED
    BY <1>3, <2>6, <2>7, <2>8
<1> QED
  BY <1>4, <1>5, <1>6 DEF RInv

LEMMA RestartKeeps ==
  ASSUME TypeOK, TypeOK', RInv, NamedInv, Restart
  PROVE  RInv' /\ phase' # "failed"
<1> DEFINE quiet == UNCHANGED <<log, flushed, mem, txn, ctx>>
<1>1. CASE Open
  BY <1>1, OpenKeeps
<1>2. ASSUME NEW t \in Tids, AnalysisEnd(t) PROVE RInv' /\ phase' # "failed"
  BY <1>2, AnalysisKeeps DEF AnalysisEnd
<1>3. CASE Redo
  BY <1>3, RedoKeeps DEF Redo
<1>4. CASE AnalysisDone
  <2>1. phase = "ends" /\ phase' = "redo" /\ quiet /\ Finished = {}
    BY <1>4 DEF AnalysisDone, walVars, pageVars, runVars
  <2>2. \A t \in Tids : txn[t].st = "none" /\ (ctx.att[t].st = "none" \/ Unended(t))
    BY <2>1, InRestart DEF Restarting
  <2>3. \A t \in Tids : ctx.att[t].st = "none"
    BY <2>1, <2>2 DEF Finished, Unended
  <2>4. Lsns' = Lsns /\ (\A k : Rec(k)' = Rec(k)) /\ Shape'
    BY <2>1, ShapeKept DEF Lsns, Rec, TypeOK, RInv
  <2>5. (\A t \in Tids : Chained(t)') /\ Analysed'
    BY <2>1, <2>2, <2>3, <2>4 DEF RInv, Chained, Analysed, Restarting
  <2>6. \A p \in Pages : Repeated(p)'
    BY <2>1, <2>4 DEF RInv, Repeated, IsOfPage, IsPageRec, Done
  <2> QED
    BY <2>1, <2>4, <2>5, <2>6 DEF RInv
<1>5. CASE RedoDone
  <2>1. phase = "redo" /\ phase' = "undo" /\ quiet /\ ctx.redo \notin InFile
    BY <1>5 DEF RedoDone, walVars, pageVars, runVars
  <2>2. /\ flushed \in Nat /\ ctx.redo \in Nat
        /\ \A t \in Tids : txn[t].st = "none" /\ ctx.att[t].st = "none"
    BY <2>1, InRestart DEF Restarting
  <2>3. Lsns' = Lsns /\ (\A k : Rec(k)' = Rec(k)) /\ Shape'
    BY <2>1, ShapeKept DEF Lsns, Rec, TypeOK, RInv
  <2>4. (\A t \in Tids : Chained(t)') /\ Analysed'
    BY <2>1, <2>2, <2>3 DEF RInv, Chained, Analysed, Restarting
  <2>5. ASSUME NEW p \in Pages PROVE Repeated(p)'
    <3> SUFFICES ASSUME NEW l \in Lsns, IsOfPage(l, p) PROVE l <= mem[p].lsn
      BY <2>1, <2>3 DEF Repeated, IsOfPage, IsPageRec
    <3>1. l < flushed /\ (Done(l, p) => l <= mem[p].lsn)
      BY <2>1 DEF RInv, Repeated
    <3>2. l < ctx.redo
      BY <2>1, <2>2, <3>1 DEF InFile, Lsns
    <3> QED
      BY <3>1, <3>2 DEF Done
  <2> QED
    BY <2>1, <2>3, <2>4, <2>5 DEF RInv
<1>6. CASE UndoUpdate \/ UndoClr \/ UndoBegin
  <2>1. phase = "undo" /\ Losers # {}
    BY <1>6 DEF UndoUpdate, UndoClr, UndoBegin, UndoAt
  <2> QED
    BY <2>1 DEF RInv, Analysed, Losers
<1>7. CASE RestartDone
  <2>1. /\ phase = "undo" /\ phase' = "up" /\ UNCHANGED <<log, mem, txn>>
        /\ nextTid' = ctx.maxTid + 1
    BY <1>7 DEF RestartDone, FirstTid, walVars, pageVars
  <2>2. /\ LogOK /\ ctx.maxTid \in Nat
        /\ \A t \in Tids : txn[t].st = "none"
        /\ \A l \in Lsns : Rec(l).tid <= ctx.maxTid
    BY <2>1, InRestart DEF Restarting, TypeOK, CtxOK
  <2>3. Lsns' = Lsns /\ (\A k : Rec(k)' = Rec(k)) /\ Shape'
    BY <2>1, ShapeKept DEF Lsns, Rec, TypeOK, RInv
  <2>4. \A l \in Lsns : Rec(l).tid \in Nat
    <3>1. \A l \in Lsns : IsTxnRec(Rec(l)) /\ Rec(l) \in Records
      BY <2>2, LogRecords DEF RInv, Shape, Fits, NextLsn, Lsns
    <3> QED
      BY <3>1, RecordFields DEF Tids
  <2>5. \A l \in Lsns : Rec(l).tid < nextTid'
    BY <2>1, <2>2, <2>4
  <2>6. (\A t \in Tids : Chained(t)') /\ Analysed'
    BY <2>1, <2>2, <2>3, <2>5 DEF Chained, Analysed, Restarting
  <2>7. \A p \in Pages : Repeated(p)'
    BY <2>1, <2>3 DEF RInv, Repeated, IsOfPage, IsPageRec
  <2> QED
    BY <2>1, <2>3, <2>6, <2>7 DEF RInv
<1> QED
  BY <1>1, <1>2, <1>3, <1>4, <1>5, <1>6, <1>7 DEF Restart

LEMMA NextKeeps ==
  ASSUME TypeOK, TypeOK', RInv, NamedInv, phase # "failed", [Next]_vars
  PROVE  RInv' /\ phase' # "failed"
<1>1. ASSUME NEW t \in Tids, Transaction(t) PROVE RInv' /\ phase' # "failed"
  <2>1. TxStep(t)
    BY <1>1, BeginStep, UpdateStep, CommitTxSteps, RollbackTxSteps DEF Transaction
  <2> QED
    BY <1>1, <2>1, TransactionKeeps DEF TxStep
<1>2. CASE (\E p \in Pages : Evict(p)) \/ Flush \/ Crash \/ Close
  <2>1. phase' # "failed"
    BY <1>2 DEF Evict, Flush, Crash, Close, GoDown
  <2> QED
    BY <1>2, <2>1, PoolKeeps
<1>3. CASE Restart
  BY <1>3, RestartKeeps
<1>4. CASE UNCHANGED vars
  <2>1. UNCHANGED <<log, flushed, mem, txn, nextTid, phase, ctx>>
    BY <1>4 DEF vars
  <2> QED
    BY <2>1 DEF RInv, Shape, Fits, LinksTo, NoneOf, Lsns, Rec, Chained, Analysed, Unended,
                Restarting, Repeated, IsOfPage, Done, IsPageRec, IsTxnRec
<1> QED
  BY <1>1, <1>2, <1>3, <1>4 DEF Next

-----------------------------------------------------------------------------
(* The log of a new database. *)

LEMMA InitRecords ==
  ASSUME Init
  PROVE  /\ NPages \in Nat /\ NPages > 1 /\ Len(log) = 2 * NPages + 5 /\ flushed = Len(log)
         /\ Rec(0).type = "begin" /\ Rec(0).tid = 1
         /\ Rec(1).type = "update" /\ Rec(1).tid = 1 /\ Rec(1).prev = 0
         /\ Rec(1).redo = 0 /\ Rec(1).undo = 0
         /\ Rec(2).type = "commit" /\ Rec(2).tid = 1
         /\ Rec(3).type = "end" /\ Rec(3).tid = 1
         /\ Rec(4).type = "begin" /\ Rec(4).tid = 2
         /\ \A l \in 5..(2 * NPages + 2) :
              /\ Rec(l).type = "update" /\ Rec(l).tid = 2 /\ Rec(l).prev = l - 1
              /\ Rec(l).pg = Root => Rec(l).redo = 0 /\ Rec(l).undo = 0
         /\ Rec(2 * NPages + 3).type = "commit" /\ Rec(2 * NPages + 3).tid = 2
         /\ Rec(2 * NPages + 4).type = "end" /\ Rec(2 * NPages + 4).tid = 2
<1>1. NPages \in Nat /\ NPages > 1 /\ log = InitLog
  BY NPagesAssumption DEF Init
<1> DEFINE n == 2 * NPages + 5
<1>2. Len(log) = n /\ flushed = Len(log)
  <2>1. LogOK
    BY InitTypes DEF TypeOK
  <2>2. DOMAIN InitLog = 1..n
    BY DEF InitLog
  <2> QED
    BY <1>1, <2>1, <2>2 DEF Init, LogOK
<1>3. /\ Rec(0) = BeginRec(1) /\ Rec(1) = UpdateRec(1, 0, Root, 0, 0)
      /\ Rec(2) = CommitRec(1, 1) /\ Rec(3) = EndRec(1, 2) /\ Rec(4) = BeginRec(2)
  BY <1>1 DEF Rec, InitLog
<1>4. Rec(2 * NPages + 3) = CommitRec(2, 2 * NPages + 2) /\ Rec(2 * NPages + 4) = EndRec(2, 2 * NPages + 3)
  <2>1. /\ 2 * NPages + 4 \in 6..n /\ 2 * NPages + 5 \in 6..n /\ 2 * NPages + 4 # 2 * NPages + 5
        /\ 2 * NPages + 3 + 1 = 2 * NPages + 4 /\ 2 * NPages + 4 + 1 = 2 * NPages + 5
        /\ 2 * NPages + 4 - 2 = 2 * NPages + 2 /\ 2 * NPages + 5 - 2 = 2 * NPages + 3
    BY <1>1
  <2>2. InitLog[2 * NPages + 4] = CommitRec(2, 2 * NPages + 2)
    BY <1>1, <2>1 DEF InitLog
  <2>3. InitLog[2 * NPages + 5] = EndRec(2, 2 * NPages + 3)
    BY <1>1, <2>1 DEF InitLog
  <2> QED
    BY <1>1, <2>1, <2>2, <2>3 DEF Rec
<1>5. ASSUME NEW l \in 5..(2 * NPages + 2)
      PROVE  /\ Rec(l).type = "update" /\ Rec(l).tid = 2 /\ Rec(l).prev = l - 1
             /\ Rec(l).pg = Root => Rec(l).redo = 0 /\ Rec(l).undo = 0
  <2>1. /\ l + 1 \in 6..n /\ l + 1 # 2 * NPages + 4 /\ l + 1 # 2 * NPages + 5
        /\ l + 1 - 2 = l - 1 /\ l + 1 - 5 = l - 4
    BY <1>1
  <2>2. Rec(l) = IF (l + 1) % 2 = 0 THEN UpdateRec(2, l - 1, Root, 0, 0)
                                    ELSE UpdateRec(2, l - 1, (l - 4) \div 2, InitVal, InitVal)
    <3>1. /\ l + 1 \in 1..n
          /\ l + 1 # 1 /\ l + 1 # 2 /\ l + 1 # 3 /\ l + 1 # 4 /\ l + 1 # 5
      BY <1>1
    <3>2. InitLog[l + 1] = IF (l + 1) % 2 = 0 THEN UpdateRec(2, l - 1, Root, 0, 0)
                           ELSE UpdateRec(2, l - 1, (l - 4) \div 2, InitVal, InitVal)
      BY <2>1, <3>1, SMTT(30) DEF InitLog
    <3> QED
      BY <1>1, <3>2 DEF Rec
  <2>3. CASE (l + 1) % 2 = 0
    BY <2>2, <2>3 DEF UpdateRec
  <2>4. CASE (l + 1) % 2 # 0
    <3>1. (l - 4) \div 2 # 0
      BY <1>1, <2>4
    <3> QED
      BY <2>2, <2>4, <3>1 DEF UpdateRec, Root
  <2> QED
    BY <2>3, <2>4
<1> QED
  BY <1>1, <1>2, <1>3, <1>4, <1>5 DEF BeginRec, UpdateRec, CommitRec, EndRec

LEMMA InitShape == Init => RInv
<1> SUFFICES ASSUME Init PROVE Shape
  BY InitRecords DEF Init, RInv, Chained, Analysed, Repeated, Restarting, NoTxn
<1> DEFINE n == 2 * NPages
<1>1. /\ n \in Nat /\ n > 3 /\ Len(log) = n + 5
      /\ Rec(0).type = "begin" /\ Rec(0).tid = 1
      /\ Rec(1).type = "update" /\ Rec(1).tid = 1 /\ Rec(1).prev = 0
      /\ Rec(1).redo = 0 /\ Rec(1).undo = 0
      /\ Rec(2).type = "commit" /\ Rec(2).tid = 1
      /\ Rec(3).type = "end" /\ Rec(3).tid = 1
      /\ Rec(4).type = "begin" /\ Rec(4).tid = 2
      /\ \A l \in 5..(n + 2) :
           /\ Rec(l).type = "update" /\ Rec(l).tid = 2 /\ Rec(l).prev = l - 1
           /\ Rec(l).pg = Root => Rec(l).redo = 0 /\ Rec(l).undo = 0
      /\ Rec(n + 3).type = "commit" /\ Rec(n + 3).tid = 2
      /\ Rec(n + 4).type = "end" /\ Rec(n + 4).tid = 2
  BY InitRecords
<1> HIDE DEF n
<1>2. \A k \in 0..(n + 4) : k \in 0..4 \/ k \in 5..(n + 2) \/ k = n + 3 \/ k = n + 4
  BY <1>1
<1>3. \A k \in 4..(n + 4) : Rec(k).tid = 2
  BY <1>1, <1>2
<1>4. \A k \in 0..3 : Rec(k).tid = 1
  BY <1>1
<1>5. /\ \A k \in 0..(n + 3) : Rec(k).type = "end" => k = 3
      /\ \A k \in 0..(n + 2) : Rec(k).type = "commit" => k = 2
  BY <1>1, <1>2
<1>6. ASSUME NEW l \in 0..3 PROVE Fits(Rec(l), l)
  <2>1. NoneOf("end", l, Rec(l).tid)
    BY <1>1, <1>5 DEF NoneOf
  <2>2. CASE l = 0
    BY <1>1, <2>1, <2>2 DEF Fits, IsTxnRec, IsPageRec
  <2>3. CASE l = 1
    <3>1. LinksTo(0, 1, 1) /\ NoneOf("commit", 1, 1) /\ 0 \in 0..(1 - 1)
      BY <1>1 DEF LinksTo, NoneOf
    <3> QED
      BY <1>1, <2>1, <2>3, <3>1 DEF Fits, IsTxnRec, IsPageRec
  <2>4. CASE l \in {2, 3}
    <3>1. 0 \in 0..(l - 1)
      BY <2>4
    <3> QED
      BY <1>1, <2>1, <2>4, <3>1 DEF Fits, IsTxnRec, IsPageRec
  <2> QED
    BY <2>2, <2>3, <2>4
<1>7. ASSUME NEW l \in 4..(n + 4) PROVE Fits(Rec(l), l)
  <2>1. NoneOf("end", l, Rec(l).tid)
    BY <1>1, <1>3, <1>4, <1>5 DEF NoneOf
  <2>2. l > 4 => 4 \in 0..(l - 1)
    BY <1>1
  <2>3. CASE l = 4
    BY <1>1, <1>4, <2>1, <2>3 DEF Fits, IsTxnRec, IsPageRec
  <2>4. CASE l \in 5..(n + 2)
    <3>1. Rec(l).type = "update" /\ Rec(l).tid = 2 /\ Rec(l).prev = l - 1
          /\ (Rec(l).pg = Root => Rec(l).redo = 0 /\ Rec(l).undo = 0)
      BY <1>1, <2>4
    <3>2. LinksTo(l - 1, l, 2)
      <4>1. l - 1 \in Nat /\ l - 1 < l /\ (l - 1 = 4 \/ l - 1 \in 5..(n + 2))
        BY <1>1, <2>4
      <4>2. Rec(l - 1).type \in {"update", "begin"} /\ Rec(l - 1).tid = 2
        BY <1>1, <4>1
      <4> QED
        BY <4>1, <4>2 DEF LinksTo
    <3>3. NoneOf("commit", l, 2)
      BY <1>1, <1>4, <1>5, <2>4 DEF NoneOf
    <3> QED
      BY <1>1, <2>1, <2>2, <2>4, <3>1, <3>2, <3>3 DEF Fits, IsTxnRec, IsPageRec
  <2>5. CASE l \in {n + 3, n + 4}
    BY <1>1, <2>1, <2>2, <2>5 DEF Fits, IsTxnRec, IsPageRec
  <2> QED
    BY <1>1, <2>3, <2>4, <2>5
<1> QED
  BY <1>1, <1>6, <1>7 DEF Shape, Lsns

-----------------------------------------------------------------------------
LEMMA SpecRecovers == Spec => [](RInv /\ phase # "failed")
<1>1. Init => RInv /\ phase # "failed"
  BY InitShape DEF Init
<1>2. TypeOK /\ TypeOK' /\ NamedInv /\ RInv /\ phase # "failed" /\ [Next]_vars
        => (RInv /\ phase # "failed")'
  BY NextKeeps
<1> QED
  BY <1>1, <1>2, TypeCorrect, SpecNamed, PTL DEF Spec

\* Redo repeats history: an open database serves, for every page, at least the
\* last record that its log has of the page, however often the process died
\* before and during the restarts (pgr_restart_redo).
THEOREM HistoryRepeats == Spec => []HistoryRepeated
<1>1. RInv /\ TypeOK => HistoryRepeated
  BY DEF RInv, Repeated, IsOfPage, Lsns, HistoryRepeated, NextLsn
<1> QED
  BY <1>1, SpecRecovers, TypeCorrect, PTL

\* What pgr_commit acknowledged stays: the COMMIT record is in the log file for
\* good, behind every page record that the transaction ever gets.
THEOREM CommitsDurable == Spec => []CommitDurable
<1>1. RInv /\ TypeOK /\ CommitLogged => CommitDurable
  <2> SUFFICES ASSUME RInv, TypeOK, CommitLogged, NEW t \in acked PROVE
                 \E c \in InFile : /\ Rec(c).type = "commit" /\ Rec(c).tid = t
                                   /\ \A l \in Lsns : IsPageRec(Rec(l)) /\ Rec(l).tid = t => l < c
    BY DEF CommitDurable, Lsns, NextLsn
  <2>1. PICK c \in InFile : Rec(c).type = "commit" /\ Rec(c).tid = t
    BY DEF CommitLogged
  <2>2. ASSUME NEW l \in Lsns, IsPageRec(Rec(l)), Rec(l).tid = t PROVE l < c
    <3>1. NoneOf("commit", l, t)
      BY <2>2 DEF RInv, Shape, Fits
    <3>2. l \in Nat /\ c \in Nat /\ l # c
      BY <2>1, <2>2 DEF InFile, Lsns, IsPageRec
    <3> QED
      BY <2>1, <3>1, <3>2 DEF NoneOf
  <2> QED
    BY <2>1, <2>2
<1> QED
  BY <1>1, SpecRecovers, TypeCorrect, SpecIsCkptSpec, CommitLoggedHolds, PTL

\* A rollback walks a chain of updates, CLRs and the BEGIN of its own
\* transaction, and no transaction id is given twice (pgr_rollback,
\* pgr_open_existing).
THEOREM ChainsWhole == Spec => []RollbackChain
<1>1. RInv /\ TypeOK => RollbackChain
  <2> SUFFICES ASSUME RInv, TypeOK PROVE RollbackChain
    OBVIOUS
  <2>1. ASSUME NEW k \in Lsns, NEW l \in Lsns, Rec(k).type = "begin", Rec(l).type = "begin",
               Rec(k).tid = Rec(l).tid, k < l
        PROVE  FALSE
    <3>1. Fits(Rec(l), l) /\ k \in 0..(l - 1)
      BY <2>1 DEF RInv, Shape, Lsns
    <3> QED
      BY <2>1, <3>1 DEF Fits
  <2>2. TidFresh
    <3>1. \A k, l \in Lsns : k < l \/ l < k \/ k = l
      BY DEF Lsns
    <3> QED
      BY <2>1, <3>1 DEF TidFresh, Lsns, NextLsn
  <2>3. ASSUME NEW t \in Tids, txn[t].st \in {"running", "rolling"}
        PROVE  /\ UndoableAt(txn[t].last, t)
               /\ txn[t].undoNext = 0 \/ UndoableAt(txn[t].undoNext, t)
    BY <2>3 DEF RInv, Chained, LinksTo, UndoableAt
  <2> QED
    BY <2>2, <2>3 DEF RollbackChain
<1> QED
  BY <1>1, SpecRecovers, TypeCorrect, PTL

\* As the library is used, the database opens again after any crash: the
\* analysis never meets the master record or the empty table of dirty pages
\* that make pgr_open fail (pgr_restart_analysis).
THEOREM DatabaseOpens == Spec => []OpenSucceeds
BY SpecRecovers, PTL DEF OpenSucceeds

-----------------------------------------------------------------------------
(* What a rollback gives back.                                             *)
(*                                                                         *)
(* The invariant is about the records of one transaction: read in order,   *)
(* those of a page tell one story (an update starts from what the record   *)
(* before it left), nobody else writes in it while the transaction is in   *)
(* the table, and the records behind the place a CLR leads back to, up to  *)
(* the CLR, cancel out.                                                    *)

OwnPage(k, t, p) == IsPageRec(Rec(k)) /\ Rec(k).pg = p /\ Rec(k).tid = t

\* No record of t between the LSNs a and b.
Alone(a, b, t) == \A k \in (a + 1)..(b - 1) : Rec(k).tid # t

\* The first record of t for page p behind u, and the last one before n.
First(k, u, t, p) == OwnPage(k, t, p) /\ \A j \in (u + 1)..(k - 1) : ~ OwnPage(j, t, p)
Last(k, n, t, p)  == OwnPage(k, t, p) /\ \A j \in (k + 1)..(n - 1) : ~ OwnPage(j, t, p)

\* The records of t between u and n leave every page as it was at u.
Level(u, n, t) ==
  \A p \in Pages : \A f, l \in (u + 1)..(n - 1) :
    First(f, u, t, p) /\ Last(l, n, t, p) => Rec(f).type = "update" /\ Rec(l).redo = Rec(f).undo

Told(l, t) ==
  /\ Alone(Rec(l).prev, l, t)
  /\ Rec(l).type = "update" =>
       \A k \in 0..(l - 1) : Last(k, l, t, Rec(l).pg) => Rec(l).undo = Rec(k).redo
  /\ Rec(l).type = "clr" =>
       /\ Level(Rec(l).undoNext, l + 1, t)
       /\ \E k \in 0..(l - 1) : OwnPage(k, t, Rec(l).pg) /\ Rec(k).type = "update"
Story(t) == \A l \in Lsns : IsPageRec(Rec(l)) /\ Rec(l).tid = t => Told(l, t)

Mine(t) == \A k, l \in Lsns : OwnPage(k, t, Rec(l).pg) /\ IsPageRec(Rec(l)) /\ k < l => Rec(l).tid = t

Stands(t) ==
  txn[t].st \in {"running", "rolling"} =>
    /\ Level(txn[t].undoNext, Len(log), t)
    /\ Alone(txn[t].last, Len(log), t)
    /\ txn[t].st = "rolling" => txn[t].save \in Savepoints(t) /\ txn[t].save <= txn[t].undoNext

BInv == \A t \in InTable : Story(t) /\ Mine(t) /\ Stands(t)

-----------------------------------------------------------------------------
(* What a longer log keeps. *)

LEMMA OwnPageKept ==
  ASSUME NEW n \in Nat, Kept(n), NEW k \in 0..(n - 1), NEW t, NEW p
  PROVE  OwnPage(k, t, p)' <=> OwnPage(k, t, p)
<1>1. Rec(k)' = Rec(k)
  BY DEF Kept
<1> QED
  BY <1>1 DEF OwnPage, IsPageRec

LEMMA LevelKept ==
  ASSUME NEW n \in Nat, Kept(n), NEW u \in Nat, NEW t, NEW m \in 0..n
  PROVE  Level(u, m, t)' <=> Level(u, m, t)
<1>1. \A k \in 0..(n - 1) : Rec(k)' = Rec(k)
  BY DEF Kept
<1>2. \A k \in 0..(n - 1) : \A p : OwnPage(k, t, p)' <=> OwnPage(k, t, p)
  BY OwnPageKept
<1>3. ASSUME NEW k \in (u + 1)..(m - 1), NEW p
      PROVE  (First(k, u, t, p)' <=> First(k, u, t, p)) /\ (Last(k, m, t, p)' <=> Last(k, m, t, p))
  BY <1>2 DEF First, Last
<1>4. \A k \in (u + 1)..(m - 1) : Rec(k)' = Rec(k)
  BY <1>1
<1> QED
  BY <1>3, <1>4 DEF Level

LEMMA AloneKept ==
  ASSUME NEW n \in Nat, Kept(n), NEW a \in Nat, NEW t, NEW m \in 0..n
  PROVE  Alone(a, m, t)' <=> Alone(a, m, t)
<1>1. \A k \in (a + 1)..(m - 1) : Rec(k)' = Rec(k)
  BY DEF Kept
<1> QED
  BY <1>1 DEF Alone

LEMMA ToldKept ==
  ASSUME NEW n \in Nat, Kept(n), NEW l \in 0..(n - 1), NEW t, IsPageRec(Rec(l)),
         Rec(l).prev \in Nat, Rec(l).type = "clr" => Rec(l).undoNext \in Nat, Told(l, t)
  PROVE  Told(l, t)'
<1>1. PICK r : r = Rec(l)
  OBVIOUS
<1>2. Rec(l)' = r /\ \A k \in 0..(l - 1) : Rec(k)' = Rec(k)
  BY <1>1 DEF Kept
<1>3. Alone(r.prev, l, t)'
  BY <1>1, AloneKept DEF Told
<1>4. \A k \in 0..(l - 1) : \A p : OwnPage(k, t, p)' <=> OwnPage(k, t, p)
  BY OwnPageKept
<1>5. CASE r.type = "update"
  <2>1. \A k \in 0..(l - 1) : Last(k, l, t, r.pg)' => Last(k, l, t, r.pg)
    BY <1>4 DEF Last
  <2>2. \A k \in 0..(l - 1) : Last(k, l, t, r.pg)' => r.undo = Rec(k)'.redo
    BY <1>1, <1>2, <1>5, <2>1 DEF Told
  <2> QED
    BY <1>2, <1>3, <1>5, <2>2 DEF Told
<1>6. CASE r.type = "clr"
  <2>1. Level(r.undoNext, l + 1, t) /\ r.undoNext \in Nat /\ l + 1 \in 0..n
    BY <1>1, <1>6 DEF Told
  <2>2. Level(r.undoNext, l + 1, t)'
    BY <2>1, LevelKept
  <2>3. PICK k \in 0..(l - 1) : OwnPage(k, t, r.pg) /\ Rec(k).type = "update"
    BY <1>1, <1>6 DEF Told
  <2>4. OwnPage(k, t, r.pg)' /\ Rec(k)'.type = "update"
    BY <1>2, <1>4, <2>3
  <2> QED
    BY <1>2, <1>3, <1>6, <2>2, <2>4 DEF Told
<1> QED
  BY <1>1, <1>5, <1>6 DEF IsPageRec

-----------------------------------------------------------------------------
(* A longer log, and a record that is not one of t's pages. *)

LEMMA LevelQuiet ==
  ASSUME NEW n \in Nat, NEW u \in Nat, NEW t, Level(u, n, t)', \A p \in Pages : ~ OwnPage(n, t, p)'
  PROVE  Level(u, n + 1, t)'
<1> SUFFICES ASSUME NEW p \in Pages, NEW f \in (u + 1)..n, NEW l \in (u + 1)..n,
                    First(f, u, t, p)', Last(l, n + 1, t, p)'
             PROVE  Rec(f)'.type = "update" /\ Rec(l)'.redo = Rec(f)'.undo
  BY DEF Level
<1>1. f # n /\ l # n
  BY DEF First, Last
<1>2. f \in (u + 1)..(n - 1) /\ l \in (u + 1)..(n - 1)
  BY <1>1
<1>3. Last(l, n, t, p)'
  BY <1>2 DEF Last
<1> QED
  BY <1>2, <1>3 DEF Level

\* What is kept of a transaction t when a record r is appended.
LEMMA Grown ==
  ASSUME TypeOK, TypeOK', RInv, NEW t, Story(t), NEW r, log' = Append(log, r)
  PROVE  /\ \A l \in Lsns : IsPageRec(Rec(l)) /\ Rec(l).tid = t => Told(l, t)'
         /\ \A k \in Lsns : \A p : OwnPage(k, t, p)' <=> OwnPage(k, t, p)
         /\ \A u \in Nat : \A m \in 0..Len(log) : /\ Level(u, m, t)' <=> Level(u, m, t)
                                                 /\ Alone(u, m, t)' <=> Alone(u, m, t)
         /\ \A u \in Nat : Alone(u, Len(log), t) /\ r.tid # t => Alone(u, Len(log), t)'
         /\ \A u \in Nat : Level(u, Len(log), t) /\ ~ (IsPageRec(r) /\ r.tid = t) => Level(u, Len(log), t)'
         /\ \A s \in Savepoints(t) : ~ (r.type = "clr" /\ r.tid = t /\ r.undoNext < s) => s \in Savepoints(t)'
<1>1. /\ LogOK /\ Len(log) \in Nat /\ Len(log') = Len(log) + 1 /\ log'[Len(log) + 1] = r
      /\ Kept(Len(log)) /\ Lsns' = Lsns \cup {Len(log)}
      /\ \A k \in Lsns : Rec(k)' = Rec(k)
  BY AppendKeeps, Longer DEF TypeOK
<1>2. \A l \in Lsns : l \in 0..(Len(log) - 1) /\ Rec(l) \in Records /\ Fits(Rec(l), l)
  BY <1>1, LogRecords DEF RInv, Shape, Lsns, NextLsn
<1>3. ASSUME NEW l \in Lsns, IsPageRec(Rec(l)), Rec(l).tid = t PROVE Told(l, t)'
  <2>1. Rec(l).prev \in Nat /\ (Rec(l).type = "clr" => Rec(l).undoNext \in Nat)
    BY <1>2, <1>3, RecordFields DEF IsPageRec
  <2> QED
    BY <1>1, <1>2, <1>3, <2>1, ToldKept DEF Story
<1>4. \A k \in Lsns : \A p : OwnPage(k, t, p)' <=> OwnPage(k, t, p)
  BY <1>1, <1>2, OwnPageKept
<1>5. ASSUME NEW u \in Nat, NEW m \in 0..Len(log)
      PROVE  (Level(u, m, t)' <=> Level(u, m, t)) /\ (Alone(u, m, t)' <=> Alone(u, m, t))
  BY <1>1, LevelKept, AloneKept
<1>6. PICK n \in Nat : n = Len(log)
  BY <1>1
<1>7. Rec(n)' = r
  BY <1>1, <1>6 DEF Rec
<1>8. ASSUME NEW u \in Nat, Alone(u, Len(log), t), r.tid # t PROVE Alone(u, Len(log), t)'
  <2>1. Alone(u, n, t)'
    BY <1>5, <1>6, <1>8
  <2>2. Alone(u, n + 1, t)'
    BY <1>7, <1>8, <2>1 DEF Alone
  <2> QED
    BY <1>1, <1>6, <2>2
<1>9. ASSUME NEW u \in Nat, Level(u, Len(log), t), ~ (IsPageRec(r) /\ r.tid = t)
      PROVE  Level(u, Len(log), t)'
  <2>1. Level(u, n, t)'
    BY <1>5, <1>6, <1>9
  <2>2. \A p \in Pages : ~ OwnPage(n, t, p)'
    BY <1>7, <1>9 DEF OwnPage, IsPageRec
  <2>3. Level(u, n + 1, t)'
    BY <2>1, <2>2, LevelQuiet
  <2> QED
    BY <1>1, <1>6, <2>3
<1>10. ASSUME NEW s \in Savepoints(t), ~ (r.type = "clr" /\ r.tid = t /\ r.undoNext < s), s # 0
       PROVE  s \in Savepoints(t)'
  <2>1. /\ s \in Lsns /\ Rec(s).type = "update" /\ Rec(s).tid = t
        /\ \A c \in (s + 1)..(n - 1) :
             Rec(c).type = "clr" /\ Rec(c).tid = t => Rec(c).undoNext >= s
    BY <1>6, <1>10 DEF Savepoints, Lsns, NextLsn
  <2>2. s \in 0..n /\ Rec(s)' = Rec(s) /\ s \in Nat
    BY <1>1, <1>2, <1>6, <2>1
  <2>3. ASSUME NEW c \in (s + 1)..n, Rec(c)'.type = "clr", Rec(c)'.tid = t
        PROVE  Rec(c)'.undoNext >= s
    <3>1. CASE c = n
      <4>1. r \in Records
        BY <1>1 DEF TypeOK, LogOK
      <4> QED
        BY <1>7, <1>10, <2>2, <2>3, <3>1, <4>1, RecordFields
    <3>2. CASE c # n
      <4>1. c \in (s + 1)..(n - 1) /\ c \in Lsns
        BY <1>6, <2>2, <3>2 DEF Lsns
      <4>2. Rec(c)' = Rec(c)
        BY <1>1, <4>1
      <4> QED
        BY <2>1, <2>3, <4>1, <4>2
    <3> QED
      BY <3>1, <3>2
  <2> QED
    BY <1>1, <1>6, <2>1, <2>2, <2>3 DEF Savepoints, NextLsn
<1>11. 0 \in Savepoints(t)'
  BY DEF Savepoints
<1> QED
  BY <1>3, <1>4, <1>5, <1>8, <1>9, <1>10, <1>11

\* A step that leaves the log as it is.
LEMMA SameLog ==
  ASSUME NEW t, Story(t), Mine(t), log' = log
  PROVE  /\ Story(t)' /\ Mine(t)' /\ Savepoints(t)' = Savepoints(t)
         /\ \A u, m : (Level(u, m, t)' <=> Level(u, m, t)) /\ (Alone(u, m, t)' <=> Alone(u, m, t))
<1>1. Lsns' = Lsns /\ (\A k : Rec(k)' = Rec(k)) /\ Len(log') = Len(log)
  BY DEF Lsns, Rec
<1>2. \A k, p : OwnPage(k, t, p)' <=> OwnPage(k, t, p)
  BY <1>1 DEF OwnPage, IsPageRec
<1>3. \A u, m : (Level(u, m, t)' <=> Level(u, m, t)) /\ (Alone(u, m, t)' <=> Alone(u, m, t))
  BY <1>1, <1>2 DEF Level, Alone, First, Last
<1>4. \A l : Told(l, t)' <=> Told(l, t)
  BY <1>1, <1>2, <1>3 DEF Told, Last
<1> QED
  BY <1>1, <1>2, <1>3, <1>4 DEF Story, Mine, Savepoints, IsPageRec, NextLsn

\* The story of t after a record that is not for a page of t.
LEMMA StoryQuiet ==
  ASSUME TypeOK, TypeOK', RInv, NEW t, Story(t), Mine(t), NEW r, log' = Append(log, r),
         IsPageRec(r) => r.tid # t /\ \A k \in Lsns : ~ OwnPage(k, t, r.pg)
  PROVE  Story(t)' /\ Mine(t)'
<1>1. PICK n \in Nat : n = Len(log)
  BY DEF TypeOK, LogOK
<1>2. Rec(n)' = r /\ Lsns' = Lsns \cup {n} /\ \A k \in Lsns : Rec(k)' = Rec(k)
  BY <1>1, Longer DEF TypeOK, Rec
<1>3. /\ \A l \in Lsns : IsPageRec(Rec(l)) /\ Rec(l).tid = t => Told(l, t)'
      /\ \A k \in Lsns : \A p : OwnPage(k, t, p)' <=> OwnPage(k, t, p)
  BY Grown
<1>4. Story(t)'
  BY <1>2, <1>3 DEF Story, IsPageRec
<1>5. ASSUME NEW k \in Lsns', NEW l \in Lsns', k < l,
             OwnPage(k, t, Rec(l).pg)', IsPageRec(Rec(l))'
      PROVE  Rec(l)'.tid = t
  <2>1. k \in Lsns
    BY <1>1, <1>2, <1>5 DEF Lsns
  <2>2. CASE l = n
    BY <1>2, <1>3, <1>5, <2>1, <2>2 DEF IsPageRec
  <2>3. CASE l \in Lsns
    BY <1>2, <1>3, <1>5, <2>1, <2>3 DEF Mine, IsPageRec
  <2> QED
    BY <1>2, <2>2, <2>3
<1> QED
  BY <1>4, <1>5 DEF Mine

\* The story of t goes on with a record for a page.
LEMMA StoryGoesOn ==
  ASSUME TypeOK, TypeOK', RInv, NEW t, Story(t), Mine(t), NEW r, log' = Append(log, r),
         IsPageRec(r), r.tid = t, r.prev \in Nat, Alone(r.prev, Len(log), t),
         r.type = "update" =>
           \A k \in Lsns : Last(k, Len(log), t, r.pg) => r.undo = Rec(k).redo,
         r.type = "clr" => /\ r.undoNext \in Nat /\ Level(r.undoNext, Len(log), t)'
                           /\ \E k \in Lsns : OwnPage(k, t, r.pg) /\ Rec(k).type = "update"
  PROVE  Story(t)' /\ Mine(t)'
<1>1. PICK n \in Nat : n = Len(log) /\ n \in 0..Len(log)
  BY DEF TypeOK, LogOK
<1>2. /\ Rec(n)' = r /\ Lsns' = Lsns \cup {n} /\ \A k \in Lsns : Rec(k)' = Rec(k)
      /\ Len(log') = n + 1
  BY <1>1, Longer DEF TypeOK, Rec
<1>3. /\ \A l \in Lsns : IsPageRec(Rec(l)) /\ Rec(l).tid = t => Told(l, t)'
      /\ \A k \in Lsns : \A p : OwnPage(k, t, p)' <=> OwnPage(k, t, p)
  BY Grown
<1>4. Told(n, t)'
  <2>1. Alone(r.prev, n, t)'
    <3>1. Kept(n)
      BY <1>1, AppendKeeps DEF TypeOK
    <3>2. Alone(r.prev, n, t)
      BY <1>1
    <3> QED
      BY <1>1, <3>1, <3>2, AloneKept
  <2>2. 0..(n - 1) = Lsns
    BY <1>1 DEF Lsns
  <2>3. CASE r.type = "update"
    <3>1. ASSUME NEW k \in Lsns, Last(k, n, t, r.pg)' PROVE Last(k, n, t, r.pg)
      <4>1. \A j \in (k + 1)..(n - 1) : j \in Lsns
        BY <2>2
      <4> QED
        BY <1>3, <3>1, <4>1 DEF Last
    <3>2. \A k \in Lsns : Last(k, n, t, r.pg)' => r.undo = Rec(k)'.redo
      BY <1>1, <1>2, <2>3, <3>1
    <3> QED
      BY <1>2, <2>1, <2>2, <2>3, <3>2 DEF Told
  <2>4. CASE r.type = "clr"
    <3>1. Level(r.undoNext, n + 1, t)'
      BY <1>2, <2>4
    <3>2. PICK k \in Lsns : OwnPage(k, t, r.pg) /\ Rec(k).type = "update"
      BY <2>4
    <3>3. OwnPage(k, t, r.pg)' /\ Rec(k)'.type = "update"
      BY <1>2, <1>3, <3>2
    <3> QED
      BY <1>2, <2>1, <2>2, <2>4, <3>1, <3>3 DEF Told
  <2> QED
    BY <2>3, <2>4 DEF IsPageRec
<1>5. Story(t)'
  BY <1>2, <1>3, <1>4 DEF Story, IsPageRec
<1>6. ASSUME NEW k \in Lsns', NEW l \in Lsns', k < l,
             OwnPage(k, t, Rec(l).pg)', IsPageRec(Rec(l))'
      PROVE  Rec(l)'.tid = t
  <2>1. k \in Lsns
    BY <1>1, <1>2, <1>6 DEF Lsns
  <2>2. CASE l \in Lsns
    BY <1>2, <1>3, <1>6, <2>1, <2>2 DEF Mine, IsPageRec
  <2> QED
    BY <1>2, <2>2
<1> QED
  BY <1>5, <1>6 DEF Mine

\* Transaction t does nothing: another one appends a record, for a page that t
\* has not written, or the log does not change.
LEMMA OthersStep ==
  ASSUME TypeOK, TypeOK', RInv, NEW t \in Tids, Story(t), Mine(t), Stands(t), txn'[t] = txn[t],
         \/ log' = log
         \/ \E r : /\ log' = Append(log, r) /\ r.tid # t
                   /\ IsPageRec(r) => \A k \in Lsns : ~ OwnPage(k, t, r.pg)
  PROVE  Story(t)' /\ Mine(t)' /\ Stands(t)'
<1>1. CASE log' = log
  BY <1>1, SameLog DEF Stands
<1>2. ASSUME NEW r, log' = Append(log, r), r.tid # t,
             IsPageRec(r) => \A k \in Lsns : ~ OwnPage(k, t, r.pg)
      PROVE  Story(t)' /\ Mine(t)' /\ Stands(t)'
  <2>1. Story(t)' /\ Mine(t)'
    BY <1>2, StoryQuiet
  <2>2. /\ \A u \in Nat : Alone(u, Len(log), t) => Alone(u, Len(log), t)'
        /\ \A u \in Nat : Level(u, Len(log), t) => Level(u, Len(log), t)'
        /\ \A s \in Savepoints(t) : s \in Savepoints(t)'
    BY <1>2, Grown
  <2>3. PICK x : x = txn[t]
    OBVIOUS
  <2>4. x.undoNext \in Nat /\ x.last \in Nat
    BY <2>3 DEF TypeOK, RunOK
  <2> QED
    BY <2>1, <2>2, <2>3, <2>4 DEF Stands
<1> QED
  BY <1>1, <1>2

-----------------------------------------------------------------------------
(* The steps of t itself. *)

LEMMA BeginTells ==
  ASSUME TypeOK, TypeOK', RInv, NEW t \in Tids, Begin(t)
  PROVE  Story(t)' /\ Mine(t)' /\ Stands(t)'
<1> DEFINE r == BeginRec(t)
<1>1. /\ phase = "up" /\ t = nextTid /\ log' = Append(log, r)
      /\ txn' = [txn EXCEPT ![t] = NewTxn(Len(log))]
  BY DEF Begin, Room, NextLsn
<1>2. LogOK /\ t \in Nat /\ Len(log) \in Nat /\ DOMAIN txn = Tids /\ r.type = "begin" /\ r.tid = t
  BY OfTable DEF BeginRec
<1> HIDE DEF r
<1>3. \A k \in Lsns : Rec(k).tid # t
  <2>1. \A k \in Lsns : Rec(k).tid < t
    BY <1>1 DEF RInv, Analysed
  <2> QED
    BY <1>2, <2>1
<1>4. Story(t) /\ Mine(t)
  BY <1>3 DEF Story, Mine, OwnPage
<1>5. Story(t)' /\ Mine(t)'
  BY <1>1, <1>2, <1>4, StoryQuiet DEF IsPageRec
<1>6. PICK n \in Nat : n = Len(log)
  BY <1>2
<1>7. Len(log') = n + 1 /\ Rec(n)' = r /\ \A k \in Lsns : Rec(k)' = Rec(k)
  BY <1>1, <1>2, <1>6, Longer DEF Rec
<1>8. Level(0, n + 1, t)'
  <2>1. \A f \in 1..n : \A p : ~ OwnPage(f, t, p)'
    <3>1. ASSUME NEW f \in 1..n, NEW p PROVE ~ OwnPage(f, t, p)'
      <4>1. CASE f = n
        BY <1>2, <1>7, <4>1 DEF OwnPage, IsPageRec
      <4>2. CASE f # n
        BY <1>3, <1>6, <1>7, <4>2 DEF OwnPage, Lsns
      <4> QED
        BY <4>1, <4>2
    <3> QED
      BY <3>1
  <2> QED
    BY <2>1 DEF Level, First
<1>9. Alone(n, n + 1, t)'
  BY DEF Alone
<1>10. txn'[t].st = "running" /\ txn'[t].undoNext = 0 /\ txn'[t].last = n
  BY <1>1, <1>2, <1>6 DEF NewTxn, NoTxn
<1> QED
  BY <1>5, <1>7, <1>8, <1>9, <1>10 DEF Stands

LEMMA CommitTells ==
  ASSUME TypeOK, TypeOK', RInv, NEW t \in Tids, Story(t), Mine(t),
         CommitLog(t) \/ CommitFlush(t) \/ CommitEnd(t) \/ CommitDone(t)
  PROVE  Story(t)' /\ Mine(t)' /\ Stands(t)'
<1>1. /\ DOMAIN txn = Tids
      /\ txn[t] = [st |-> txn[t].st, last |-> txn[t].last, undoNext |-> txn[t].undoNext,
                   commit |-> txn[t].commit, save |-> txn[t].save]
  BY OfTable
<1>2. txn'[t].st \notin {"running", "rolling"}
      /\ (log' = log \/ \E r : log' = Append(log, r) /\ ~ IsPageRec(r))
  <2>1. CASE CommitLog(t)
    BY <1>1, <2>1 DEF CommitLog, CommitRec, IsPageRec
  <2>2. CASE CommitFlush(t)
    BY <1>1, <2>2 DEF CommitFlush
  <2>3. CASE CommitEnd(t)
    BY <1>1, <2>3 DEF CommitEnd, EndRec, IsPageRec
  <2>4. CASE CommitDone(t)
    BY <1>1, <2>4 DEF CommitDone, walVars
  <2> QED
    BY <2>1, <2>2, <2>3, <2>4
<1>3. Story(t)' /\ Mine(t)'
  BY <1>2, SameLog, StoryQuiet
<1> QED
  BY <1>2, <1>3 DEF Stands

\* The page that an update of t starts from: what the last record of t for it left.
LEMMA LastServed ==
  ASSUME TypeOK, RInv, NamedInv, phase = "up", NEW t \in Tids, Mine(t), NEW p \in Pages,
         NEW k \in Lsns, Last(k, Len(log), t, p)
  PROVE  mem[p].val = Rec(k).redo
<1>1. PICK l : l = mem[p].lsn
  OBVIOUS
<1>2. /\ l \in Nat /\ l < Len(log) /\ Len(log) \in Nat /\ IsPageRec(Rec(l)) /\ Rec(l).pg = p
      /\ Rec(l).redo = mem[p].val
  BY <1>1 DEF NamedInv, Named, Produced, TypeOK, PageOK, LogOK
<1>3. k \in Nat /\ k < Len(log) /\ IsPageRec(Rec(k)) /\ Rec(k).pg = p /\ Rec(k).tid = t
  BY <1>2 DEF Last, OwnPage, Lsns
<1>4. k <= l
  BY <1>1, <1>3 DEF RInv, Repeated, IsOfPage
<1>5. k < l => OwnPage(l, t, p)
  <2> HAVE k < l
  <2>1. l \in Lsns
    BY <1>2 DEF Lsns
  <2> QED
    BY <1>2, <1>3, <2>1 DEF Mine, OwnPage
<1>6. ~ (k < l)
  BY <1>2, <1>3, <1>5 DEF Last
<1> QED
  BY <1>2, <1>3, <1>4, <1>6

LEMMA UpdateTells ==
  ASSUME TypeOK, TypeOK', RInv, NamedInv, NEW t \in Tids, Story(t), Mine(t), Stands(t),
         NEW p \in Pages, NEW v, Update(t, p, v)
  PROVE  Story(t)' /\ Mine(t)' /\ Stands(t)'
<1> DEFINE r == UpdateRec(t, txn[t].last, p, mem[p].val, v)
<1>1. /\ phase = "up" /\ txn[t].st = "running" /\ log' = Append(log, r)
      /\ txn' = [txn EXCEPT ![t].st = "running", ![t].last = Len(log), ![t].undoNext = Len(log)]
  BY DEF Update, Room, SavePage, NextLsn
<1>2. /\ LogOK /\ Len(log) \in Nat /\ DOMAIN txn = Tids /\ txn[t].last \in Nat
      /\ txn[t] = [st |-> txn[t].st, last |-> txn[t].last, undoNext |-> txn[t].undoNext,
                   commit |-> txn[t].commit, save |-> txn[t].save]
  BY OfTable
<1>3. r.type = "update" /\ r.tid = t /\ r.prev = txn[t].last /\ r.pg = p /\ r.undo = mem[p].val
  BY DEF UpdateRec
<1> HIDE DEF r
<1>4. Story(t)' /\ Mine(t)'
  <2>1. Alone(r.prev, Len(log), t)
    BY <1>1, <1>3 DEF Stands
  <2>2. \A k \in Lsns : Last(k, Len(log), t, r.pg) => r.undo = Rec(k).redo
    BY <1>1, <1>3, LastServed
  <2> QED
    BY <1>1, <1>2, <1>3, <2>1, <2>2, StoryGoesOn DEF IsPageRec
<1>5. PICK n \in Nat : n = Len(log)
  BY <1>2
<1>6. Len(log') = n + 1
  BY <1>1, <1>2, <1>5, Longer
<1>7. Level(n, n + 1, t)' /\ Alone(n, n + 1, t)'
  BY DEF Level, Alone
<1>8. txn'[t].st = "running" /\ txn'[t].last = n /\ txn'[t].undoNext = n
  BY <1>1, <1>2, <1>5
<1> QED
  BY <1>4, <1>6, <1>7, <1>8 DEF Stands

\* A rollback begins, or stops.
LEMMA TurnTells ==
  ASSUME TypeOK, TypeOK', RInv, NEW t \in Tids, Story(t), Mine(t), Stands(t),
         \/ \E s \in 0..(NextLsn - 1) : Rollback(t, s)
         \/ RollbackEof(t) \/ RollbackReturn(t)
  PROVE  Story(t)' /\ Mine(t)' /\ Stands(t)'
<1>1. /\ DOMAIN txn = Tids /\ txn[t].undoNext \in Nat
      /\ txn[t] = [st |-> txn[t].st, last |-> txn[t].last, undoNext |-> txn[t].undoNext,
                   commit |-> txn[t].commit, save |-> txn[t].save]
  BY OfTable
<1>2. /\ log' = log /\ txn[t].st \in {"running", "rolling"}
      /\ txn'[t].last = txn[t].last /\ txn'[t].undoNext = txn[t].undoNext
      /\ \/ txn'[t].st = "running"
         \/ /\ txn'[t].st = "rolling" /\ txn'[t].save \in Savepoints(t)
            /\ txn'[t].save \in Nat /\ txn'[t].save < txn[t].undoNext
  <2>1. ASSUME NEW s \in 0..(NextLsn - 1), Rollback(t, s)
        PROVE  /\ log' = log /\ txn[t].st = "running" /\ txn'[t].st = "rolling"
               /\ txn'[t].last = txn[t].last /\ txn'[t].undoNext = txn[t].undoNext
               /\ txn'[t].save = s /\ s \in Savepoints(t) /\ s \in Nat /\ s < txn[t].undoNext
    <3>1. txn' = [txn EXCEPT ![t].st = "rolling", ![t].save = s] /\ s \in Nat
      BY <2>1 DEF Rollback
    <3> QED
      BY <1>1, <2>1, <3>1 DEF Rollback, walVars
  <2>2. CASE RollbackEof(t)
    BY <1>1, <2>2 DEF RollbackEof, Undoing, walVars
  <2>3. CASE RollbackReturn(t)
    BY <1>1, <2>3 DEF RollbackReturn, walVars
  <2> QED
    BY <2>1, <2>2, <2>3
<1>3. /\ Story(t)' /\ Mine(t)' /\ Savepoints(t)' = Savepoints(t)
      /\ \A u, m : (Level(u, m, t)' <=> Level(u, m, t)) /\ (Alone(u, m, t)' <=> Alone(u, m, t))
  BY <1>2, SameLog
<1>4. Level(txn[t].undoNext, Len(log), t) /\ Alone(txn[t].last, Len(log), t)
  BY <1>2 DEF Stands
<1>5. PICK u, l, n : u = txn[t].undoNext /\ l = txn[t].last /\ n = Len(log)
  OBVIOUS
<1>6. Level(u, n, t)' /\ Alone(l, n, t)' /\ Len(log') = n
  BY <1>2, <1>3, <1>4, <1>5
<1> QED
  BY <1>1, <1>2, <1>3, <1>5, <1>6 DEF Stands

\* Records between u and c that cancel out, then records between c and n that do.
LEMMA LevelJoins ==
  ASSUME TypeOK, NEW t, Story(t), NEW u \in Nat, NEW c \in Nat, NEW n \in Nat,
         u <= c, c < n, n <= Len(log), Level(u, c + 1, t), Level(c, n, t)
  PROVE  Level(u, n, t)
<1> SUFFICES ASSUME NEW p \in Pages, NEW f \in (u + 1)..(n - 1), NEW l \in (u + 1)..(n - 1),
                    First(f, u, t, p), Last(l, n, t, p)
             PROVE  Rec(f).type = "update" /\ Rec(l).redo = Rec(f).undo
  BY DEF Level
<1>1. /\ OwnPage(f, t, p) /\ OwnPage(l, t, p) /\ f \in Nat /\ l \in Nat /\ f <= l
      /\ \A j \in (u + 1)..(f - 1) : ~ OwnPage(j, t, p)
      /\ \A j \in (l + 1)..(n - 1) : ~ OwnPage(j, t, p)
  BY DEF First, Last
<1>2. CASE l <= c
  <2>1. f \in (u + 1)..(c + 1 - 1) /\ l \in (u + 1)..(c + 1 - 1)
    BY <1>1, <1>2
  <2>2. Last(l, c + 1, t, p)
    BY <1>1 DEF Last
  <2> QED
    BY <2>1, <2>2 DEF Level
<1>3. CASE f > c
  <2>1. f \in (c + 1)..(n - 1) /\ l \in (c + 1)..(n - 1)
    BY <1>1, <1>3
  <2>2. First(f, c, t, p)
    BY <1>1, <1>3 DEF First
  <2> QED
    BY <2>1, <2>2 DEF Level
<1>4. CASE f <= c /\ c < l
  <2> DEFINE A == {k \in 0..c : k >= f /\ OwnPage(k, t, p)}
             B == {k \in Nat : c < k /\ k <= l /\ OwnPage(k, t, p)}
  <2>1. PICK a \in A : \A k \in A : k <= a
    <3>1. f \in A /\ A \in SUBSET (0..c)
      BY <1>1, <1>4
    <3> HIDE DEF A
    <3> QED
      BY <3>1, MaxIsMember
  <2>2. PICK b \in B : \A k \in B : b <= k
    <3>1. l \in B /\ B \in SUBSET Nat
      BY <1>1, <1>4
    <3> HIDE DEF B
    <3> QED
      BY <3>1, MinIsMember
  <2>3. /\ OwnPage(a, t, p) /\ OwnPage(b, t, p) /\ a \in Nat /\ b \in Nat
        /\ f <= a /\ a <= c /\ c < b /\ b <= l
    BY <2>1, <2>2
  <2>4. \A j \in (a + 1)..(b - 1) : ~ OwnPage(j, t, p)
    BY <1>1, <2>1, <2>2, <2>3
  <2>5. Rec(f).type = "update" /\ Rec(a).redo = Rec(f).undo
    <3>1. f \in (u + 1)..(c + 1 - 1) /\ a \in (u + 1)..(c + 1 - 1)
      BY <1>1, <1>4, <2>3
    <3>2. Last(a, c + 1, t, p)
      BY <2>3, <2>4 DEF Last
    <3> QED
      BY <3>1, <3>2 DEF Level
  <2>6. Rec(b).type = "update" /\ Rec(l).redo = Rec(b).undo
    <3>1. b \in (c + 1)..(n - 1) /\ l \in (c + 1)..(n - 1)
      BY <1>1, <2>3
    <3>2. First(b, c, t, p)
      BY <2>3, <2>4 DEF First
    <3> QED
      BY <3>1, <3>2 DEF Level
  <2>7. Rec(b).undo = Rec(a).redo
    <3>1. b \in Lsns /\ a \in 0..(b - 1)
      BY <2>3 DEF Lsns, TypeOK, LogOK
    <3>2. Told(b, t) /\ Last(a, b, t, Rec(b).pg)
      BY <2>3, <2>4, <3>1 DEF Story, OwnPage, Last
    <3> QED
      BY <2>6, <3>1, <3>2 DEF Told
  <2> QED
    BY <2>5, <2>6, <2>7
<1> QED
  BY <1>1, <1>2, <1>3, <1>4

\* Where the loop of pgr_rollback stands: on a record c of t, above its savepoint.
LEMMA AtRecord ==
  ASSUME TypeOK, RInv, NEW t \in Tids, Story(t), Stands(t), Undoing(t), NEW c, c = txn[t].undoNext
  PROVE  /\ LogOK /\ Len(log) \in Nat /\ c \in Lsns /\ c \in Nat /\ c < Len(log)
         /\ Rec(c).tid = t /\ Fits(Rec(c), c) /\ Rec(c) \in Records
         /\ IsPageRec(Rec(c)) => Told(c, t)
         /\ Level(c, Len(log), t)
         /\ txn[t].save \in Nat /\ txn[t].save < c /\ txn[t].save \in Savepoints(t)
         /\ txn[t].save # 0 => /\ txn[t].save \in Lsns /\ Rec(txn[t].save).tid = t
                               /\ Rec(txn[t].save).type = "update"
                               /\ Rec(c).type = "clr" => Rec(c).undoNext >= txn[t].save
<1>1. /\ LogOK /\ Len(log) \in Nat /\ txn[t].undoNext \in Nat /\ txn[t].save \in Nat /\ Chained(t)
      /\ \A l \in Lsns : Fits(Rec(l), l) /\ Rec(l) \in Records
  BY OfTable
<1>2. txn[t].st = "rolling" /\ txn[t].save < c
  BY DEF Undoing, MoreToUndo
<1>3. LinksTo(c, Len(log), t)
  BY <1>1, <1>2 DEF Chained
<1>4. c \in Lsns /\ c \in Nat /\ c < Len(log) /\ Rec(c).tid = t
  BY <1>1, <1>3 DEF LinksTo, Lsns
<1>5. Level(c, Len(log), t) /\ txn[t].save \in Savepoints(t)
  BY <1>2 DEF Stands
<1>6. ASSUME txn[t].save # 0
      PROVE  /\ txn[t].save \in Lsns /\ Rec(txn[t].save).tid = t /\ Rec(txn[t].save).type = "update"
             /\ Rec(c).type = "clr" => Rec(c).undoNext >= txn[t].save
  <2>1. PICK s : s = txn[t].save
    OBVIOUS
  <2>2. /\ s \in 0..(Len(log) - 1) /\ Rec(s).type = "update" /\ Rec(s).tid = t
        /\ \A k \in (s + 1)..(Len(log) - 1) :
             Rec(k).type = "clr" /\ Rec(k).tid = t => Rec(k).undoNext >= s
    BY <1>5, <1>6, <2>1 DEF Savepoints, NextLsn
  <2>3. c \in (s + 1)..(Len(log) - 1)
    BY <1>1, <1>2, <1>4, <2>1
  <2> QED
    BY <1>4, <2>1, <2>2, <2>3 DEF Lsns
<1> QED
  BY <1>1, <1>2, <1>4, <1>5, <1>6 DEF Story

LEMMA SkipTells ==
  ASSUME TypeOK, TypeOK', RInv, NEW t \in Tids, Story(t), Mine(t), Stands(t), RollbackSkip(t)
  PROVE  Story(t)' /\ Mine(t)' /\ Stands(t)'
<1>1. PICK c : c = txn[t].undoNext
  OBVIOUS
<1>2. PICK s : s = txn[t].save
  OBVIOUS
<1>3. /\ LogOK /\ Len(log) \in Nat /\ c \in Lsns /\ c \in Nat /\ c < Len(log)
      /\ Rec(c).tid = t /\ Fits(Rec(c), c) /\ Rec(c) \in Records
      /\ IsPageRec(Rec(c)) => Told(c, t)
      /\ Level(c, Len(log), t)
      /\ s \in Nat /\ s < c /\ s \in Savepoints(t)
      /\ s # 0 => /\ s \in Lsns /\ Rec(s).tid = t /\ Rec(s).type = "update"
                  /\ Rec(c).type = "clr" => Rec(c).undoNext >= s
  BY <1>1, <1>2, AtRecord DEF RollbackSkip
<1>4. PICK x : x = IF Rec(c).type = "clr" THEN Rec(c).undoNext ELSE 0
  OBVIOUS
<1>5. /\ log' = log /\ Rec(c).type \in {"clr", "begin"} /\ txn'[t].st = "rolling"
      /\ txn'[t].last = txn[t].last /\ txn'[t].undoNext = x /\ txn'[t].save = s
  <2>1. /\ DOMAIN txn = Tids
        /\ txn[t] = [st |-> txn[t].st, last |-> txn[t].last, undoNext |-> txn[t].undoNext,
                     commit |-> txn[t].commit, save |-> txn[t].save]
    BY OfTable
  <2> QED
    BY <1>1, <1>2, <1>4, <2>1 DEF RollbackSkip, Undoing, UndoRec, walVars
<1>6. Level(x, Len(log), t) /\ s <= x
  <2>1. CASE Rec(c).type = "clr"
    <3>1. x = Rec(c).undoNext /\ x \in Nat /\ x <= c
      BY <1>3, <1>4, <2>1, RecordFields DEF Fits, LinksTo
    <3>2. Level(x, c + 1, t)
      BY <1>3, <2>1, <3>1 DEF Told, IsPageRec
    <3>3. Level(x, Len(log), t)
      BY <1>3, <3>1, <3>2, LevelJoins
    <3> QED
      BY <1>3, <2>1, <3>1, <3>3
  <2>2. CASE Rec(c).type = "begin"
    <3>1. \A k \in 0..c : \A p : ~ OwnPage(k, t, p)
      BY <1>3, <2>2 DEF Fits, OwnPage, IsPageRec
    <3>2. s = 0
      BY <1>3, <2>2 DEF Fits
    <3>3. Level(0, Len(log), t)
      <4> SUFFICES ASSUME NEW p \in Pages, NEW f \in 1..(Len(log) - 1), NEW l \in 1..(Len(log) - 1),
                          First(f, 0, t, p), Last(l, Len(log), t, p)
                   PROVE  Rec(f).type = "update" /\ Rec(l).redo = Rec(f).undo
        BY DEF Level
      <4>1. f \in (c + 1)..(Len(log) - 1) /\ l \in (c + 1)..(Len(log) - 1)
        BY <1>3, <3>1 DEF First, Last
      <4>2. First(f, c, t, p)
        BY <1>3, <4>1 DEF First
      <4> QED
        BY <1>3, <4>1, <4>2 DEF Level
    <3> QED
      BY <1>4, <2>2, <3>2, <3>3
  <2> QED
    BY <1>5, <2>1, <2>2
<1>7. /\ Story(t)' /\ Mine(t)' /\ Savepoints(t)' = Savepoints(t)
      /\ \A u, m : (Level(u, m, t)' <=> Level(u, m, t)) /\ (Alone(u, m, t)' <=> Alone(u, m, t))
  BY <1>5, SameLog
<1>8. PICK l, n : l = txn[t].last /\ n = Len(log)
  OBVIOUS
<1>9. Alone(l, n, t)
  BY <1>8 DEF Stands, RollbackSkip, Undoing
<1>10. Level(x, n, t)' /\ Alone(l, n, t)' /\ Len(log') = n /\ s \in Savepoints(t)'
  BY <1>3, <1>5, <1>6, <1>7, <1>8, <1>9
<1> QED
  BY <1>5, <1>6, <1>7, <1>8, <1>10 DEF Stands

LEMMA UndoTells ==
  ASSUME TypeOK, TypeOK', RInv, NEW t \in Tids, Story(t), Mine(t), Stands(t), RollbackUpdate(t)
  PROVE  Story(t)' /\ Mine(t)' /\ Stands(t)'
<1>1. PICK c : c = txn[t].undoNext
  OBVIOUS
<1>2. PICK s : s = txn[t].save
  OBVIOUS
<1>3. PICK n : n = Len(log)
  OBVIOUS
<1>4. /\ LogOK /\ n \in Nat /\ c \in Lsns /\ c \in Nat /\ c < n
      /\ Rec(c).tid = t /\ Fits(Rec(c), c) /\ Rec(c) \in Records
      /\ IsPageRec(Rec(c)) => Told(c, t)
      /\ Level(c, n, t)
      /\ s \in Nat /\ s < c /\ s \in Savepoints(t)
      /\ s # 0 => s \in Lsns /\ Rec(s).tid = t /\ Rec(s).type = "update"
  BY <1>1, <1>2, <1>3, AtRecord DEF RollbackUpdate
<1> DEFINE o == Rec(c)
<1>0. PICK r : r = ClrRec(o.tid, txn[t].last, o.pg, o.prev, Undone(o))
  OBVIOUS
<1>5. /\ o.type = "update" /\ log' = Append(log, r) /\ txn[t].st = "rolling"
      /\ txn'[t].st = "rolling" /\ txn'[t].last = n /\ txn'[t].undoNext = o.prev
      /\ txn'[t].save = s /\ txn[t].last \in Nat
  <2>1. /\ DOMAIN txn = Tids /\ txn[t].last \in Nat
        /\ txn[t] = [st |-> txn[t].st, last |-> txn[t].last, undoNext |-> txn[t].undoNext,
                     commit |-> txn[t].commit, save |-> txn[t].save]
    BY OfTable
  <2> QED
    BY <1>0, <1>1, <1>2, <1>3, <2>1 DEF RollbackUpdate, Undoing, UndoRec, NextLsn
<1>6. PICK x : x = o.prev
  OBVIOUS
<1>7. /\ r.type = "clr" /\ r.tid = t /\ r.pg = o.pg /\ r.prev = txn[t].last
      /\ r.undoNext = x /\ r.redo = o.undo
  BY <1>0, <1>4, <1>6 DEF ClrRec, Undone
<1>8. x \in Nat /\ x < c /\ Alone(x, c, t) /\ OwnPage(c, t, o.pg)
  BY <1>4, <1>5, <1>6 DEF Fits, LinksTo, Told, IsPageRec, OwnPage
<1>9. s <= x
  <2>1. CASE s # 0
    <3>1. s \notin (x + 1)..(c - 1)
      BY <1>4, <1>8, <2>1 DEF Alone
    <3> QED
      BY <1>4, <1>8, <3>1
  <2> QED
    BY <1>4, <1>8, <2>1
<1>10. Len(log') = n + 1 /\ Rec(n)' = r /\ \A k \in Lsns : Rec(k)' = Rec(k)
  BY <1>3, <1>4, <1>5, Longer DEF Rec
<1>11. \A k \in Lsns : \A p : OwnPage(k, t, p)' <=> OwnPage(k, t, p)
  BY <1>5, Grown
<1>12. Level(x, n + 1, t)'
  <2> SUFFICES ASSUME NEW p \in Pages, NEW f \in (x + 1)..n, NEW l \in (x + 1)..n,
                      First(f, x, t, p)', Last(l, n + 1, t, p)'
               PROVE  Rec(f)'.type = "update" /\ Rec(l)'.redo = Rec(f)'.undo
    BY <1>4 DEF Level
  <2>1. /\ OwnPage(f, t, p)' /\ OwnPage(l, t, p)' /\ f <= l
        /\ \A j \in (x + 1)..(f - 1) : ~ OwnPage(j, t, p)'
        /\ \A j \in (l + 1)..n : ~ OwnPage(j, t, p)'
    BY <1>4, <1>8 DEF First, Last
  <2>2. \A j \in (x + 1)..(c - 1) : ~ OwnPage(j, t, p)'
    <3>1. \A j \in (x + 1)..(c - 1) : j \in Lsns /\ ~ OwnPage(j, t, p)
      BY <1>3, <1>4, <1>8 DEF Alone, OwnPage, Lsns
    <3> QED
      BY <1>11, <3>1
  <2>3. f >= c
    BY <1>4, <1>8, <2>1, <2>2
  <2>4. CASE p = o.pg
    <3>1. OwnPage(c, t, p)' /\ OwnPage(n, t, p)'
      <4>1. OwnPage(c, t, p)'
        BY <1>4, <1>8, <1>11, <2>4
      <4>2. OwnPage(n, t, p)'
        BY <1>7, <1>10, <2>4 DEF OwnPage, IsPageRec
      <4> QED
        BY <4>1, <4>2
    <3>2. f = c /\ l = n
      BY <1>4, <1>8, <2>1, <2>3, <3>1
    <3> QED
      BY <1>4, <1>5, <1>7, <1>10, <3>2
  <2>5. CASE p # o.pg
    <3>1. ~ OwnPage(c, t, p)' /\ ~ OwnPage(n, t, p)'
      BY <1>4, <1>7, <1>8, <1>10, <1>11, <2>5 DEF OwnPage
    <3>2. f # c /\ f # n /\ l # n
      BY <2>1, <3>1
    <3>3. f \in (c + 1)..(n - 1) /\ l \in (c + 1)..(n - 1)
      BY <1>4, <1>8, <2>1, <2>3, <3>2
    <3>4. \A j \in (c + 1)..(n - 1) : j \in Lsns
      BY <1>3, <1>4 DEF Lsns
    <3>5. \A j \in (c + 1)..(n - 1) : OwnPage(j, t, p)' <=> OwnPage(j, t, p)
      BY <1>11, <3>4
    <3>6. First(f, c, t, p)
      BY <1>4, <1>8, <2>1, <3>3, <3>5 DEF First
    <3>7. Last(l, n, t, p)
      BY <1>4, <1>8, <2>1, <3>3, <3>5 DEF Last
    <3>8. Rec(f).type = "update" /\ Rec(l).redo = Rec(f).undo
      BY <1>4, <3>3, <3>6, <3>7 DEF Level
    <3> QED
      BY <1>10, <3>3, <3>4, <3>8
  <2> QED
    BY <2>4, <2>5
<1>13. Story(t)' /\ Mine(t)'
  <2>1. Alone(r.prev, Len(log), t) /\ r.prev \in Nat
    BY <1>5, <1>7 DEF Stands
  <2>2. Level(r.undoNext, Len(log), t)' /\ r.undoNext \in Nat
    BY <1>7, <1>8, <1>10, <1>12
  <2>3. \E k \in Lsns : OwnPage(k, t, r.pg) /\ Rec(k).type = "update"
    BY <1>4, <1>5, <1>7, <1>8
  <2> QED
    BY <1>5, <1>7, <2>1, <2>2, <2>3, StoryGoesOn DEF IsPageRec
<1>14. s \in Savepoints(t)'
  BY <1>4, <1>5, <1>7, <1>8, <1>9, Grown
<1>15. Alone(n, n + 1, t)'
  BY <1>4 DEF Alone
<1> QED
  BY <1>5, <1>6, <1>9, <1>10, <1>12, <1>13, <1>14, <1>15 DEF Stands

-----------------------------------------------------------------------------
(* The other transactions in the table. *)

\* A page that u updates or restores has no record of another transaction t.
LEMMA NotOthersPage ==
  ASSUME TypeOK, RInv, BInv, NEW t \in InTable, NEW u \in Tids \ {t}, NEW p \in Pages,
         \/ Isolated(u, p)
         \/ u \in InTable /\ \E c \in Lsns : OwnPage(c, u, p)
  PROVE  \A k \in Lsns : ~ OwnPage(k, t, p)
<1>1. Story(t) /\ Mine(t) /\ t \in Tids
  BY DEF BInv, InTable
<1> SUFFICES ASSUME NEW k \in Lsns, OwnPage(k, t, p) PROVE FALSE
  OBVIOUS
<1>2. k \in Nat /\ Lsns \subseteq Nat
  BY DEF Lsns
<1>3. CASE Isolated(u, p)
  <2>1. PICK j \in Lsns : OwnPage(j, t, p) /\ Rec(j).type = "update"
    <3>1. CASE Rec(k).type = "clr"
      <4>1. PICK j \in 0..(k - 1) : OwnPage(j, t, p) /\ Rec(j).type = "update"
        BY <1>1, <3>1 DEF Story, Told, OwnPage
      <4> QED
        BY <1>2, <4>1 DEF Lsns
    <3> QED
      BY <3>1 DEF OwnPage, IsPageRec
  <2>2. p \in WrittenBy(t)
    BY <2>1 DEF WrittenBy, OwnPage, Lsns, NextLsn
  <2> QED
    BY <1>3, <2>2 DEF Isolated
<1>4. CASE u \in InTable /\ \E c \in Lsns : OwnPage(c, u, p)
  <2>1. PICK c \in Lsns : OwnPage(c, u, p)
    BY <1>4
  <2>2. Mine(u)
    BY <1>4 DEF BInv
  <2>3. c \in Nat /\ ~ (k < c) /\ ~ (c < k) /\ c # k
    BY <1>1, <1>2, <2>1, <2>2 DEF Mine, OwnPage
  <2> QED
    BY <1>2, <2>3
<1> QED
  BY <1>3, <1>4

LEMMA OthersKeep ==
  ASSUME TypeOK, TypeOK', RInv, BInv, NEW t \in InTable, NEW u \in Tids \ {t}, Transaction(u)
  PROVE  Story(t)' /\ Mine(t)' /\ Stands(t)'
<1>1. t \in Tids /\ Story(t) /\ Mine(t) /\ Stands(t)
  BY DEF BInv, InTable
<1>2. txn'[t] = txn[t]
  <2>1. TxStep(u)
    BY BeginStep, UpdateStep, CommitTxSteps, RollbackTxSteps DEF Transaction
  <2> QED
    BY <1>1, <2>1 DEF TxStep
<1>3. \/ log' = log
      \/ \E r : /\ log' = Append(log, r) /\ r.tid # t
                /\ IsPageRec(r) => \A k \in Lsns : ~ OwnPage(k, t, r.pg)
  <2>1. CASE Begin(u)
    BY <2>1 DEF Begin, BeginRec, IsPageRec
  <2>2. ASSUME NEW p \in Pages, NEW v, Update(u, p, v)
        PROVE  \E r : /\ log' = Append(log, r) /\ r.tid # t
                      /\ \A k \in Lsns : ~ OwnPage(k, t, r.pg)
    <3>1. \A k \in Lsns : ~ OwnPage(k, t, p)
      BY <2>2, NotOthersPage DEF Update
    <3>2. PICK r : r = UpdateRec(u, txn[u].last, p, mem[p].val, v)
      OBVIOUS
    <3>3. log' = Append(log, r) /\ r.tid = u /\ r.pg = p
      BY <2>2, <3>2 DEF Update, UpdateRec
    <3> QED
      BY <3>1, <3>3
  <2>3. CASE CommitLog(u) \/ CommitFlush(u) \/ CommitEnd(u) \/ CommitDone(u)
    BY <2>3 DEF CommitLog, CommitFlush, CommitEnd, CommitDone, CommitRec, EndRec, IsPageRec, walVars
  <2>4. CASE (\E s \in 0..(NextLsn - 1) : Rollback(u, s)) \/ RollbackSkip(u) \/ RollbackEof(u)
               \/ RollbackReturn(u)
    BY <2>4 DEF Rollback, RollbackSkip, RollbackEof, RollbackReturn, walVars
  <2>5. CASE RollbackUpdate(u)
    <3>1. u \in InTable /\ Story(u) /\ Stands(u) /\ Undoing(u)
      BY <2>5 DEF BInv, InTable, RollbackUpdate, Undoing
    <3>2. PICK c : c = txn[u].undoNext
      OBVIOUS
    <3>3. c \in Lsns /\ Rec(c).tid = u /\ Rec(c).type = "update" /\ Rec(c) \in Records
      BY <2>5, <3>1, <3>2, AtRecord DEF RollbackUpdate, UndoRec
    <3>4. Rec(c).pg \in Pages /\ OwnPage(c, u, Rec(c).pg)
      BY <3>3, RecordFields DEF OwnPage, IsPageRec
    <3>5. \A k \in Lsns : ~ OwnPage(k, t, Rec(c).pg)
      BY <3>1, <3>3, <3>4, NotOthersPage
    <3>6. PICK r : r = ClrRec(Rec(c).tid, txn[u].last, Rec(c).pg, Rec(c).prev, Undone(Rec(c)))
      OBVIOUS
    <3>7. log' = Append(log, r) /\ r.tid = u /\ r.pg = Rec(c).pg
      BY <2>5, <3>2, <3>3, <3>6 DEF RollbackUpdate, UndoRec, ClrRec
    <3> QED
      BY <3>5, <3>7
  <2> QED
    BY <2>1, <2>2, <2>3, <2>4, <2>5 DEF Transaction
<1> QED
  BY <1>1, <1>2, <1>3, OthersStep

-----------------------------------------------------------------------------
LEMMA StoriesGoOn ==
  ASSUME TypeOK, TypeOK', RInv, NamedInv, BInv, [Next]_vars
  PROVE  BInv'
<1>1. ASSUME NEW u \in Tids, Transaction(u), NEW t \in InTable'
      PROVE  Story(t)' /\ Mine(t)' /\ Stands(t)'
  <2>1. t \in Tids
    BY <1>1 DEF InTable
  <2>2. CASE t # u
    <3>1. txn'[t] = txn[t]
      <4>1. TxStep(u)
        BY <1>1, BeginStep, UpdateStep, CommitTxSteps, RollbackTxSteps DEF Transaction
      <4> QED
        BY <2>1, <2>2, <4>1 DEF TxStep
    <3>2. t \in InTable
      BY <1>1, <2>1, <3>1 DEF InTable
    <3> QED
      BY <1>1, <2>2, <3>2, OthersKeep
  <2>3. CASE t = u
    <3>1. CASE Begin(t)
      BY <2>1, <3>1, BeginTells
    <3>2. CASE ~ Begin(t)
      <4>1. t \in InTable
        BY <1>1, <2>1, <2>3, <3>2 DEF InTable, Transaction, Update, CommitLog, CommitFlush, CommitEnd,
             CommitDone, Rollback, RollbackUpdate, RollbackSkip, RollbackEof, RollbackReturn, Undoing
      <4>2. Story(t) /\ Mine(t) /\ Stands(t)
        BY <4>1 DEF BInv
      <4> QED
        BY <1>1, <2>1, <2>3, <3>2, <4>2, UpdateTells, CommitTells, TurnTells, UndoTells, SkipTells
           DEF Transaction
    <3> QED
      BY <3>1, <3>2
  <2> QED
    BY <2>2, <2>3
<1>2. CASE Crash \/ Close
  <2>1. InTable' = {}
    BY <1>2 DEF Crash, Close, GoDown, InTable, NoTxn
  <2> QED
    BY <2>1 DEF BInv
<1>3. CASE Restart
  <2>1. txn' = txn /\ phase # "up"
    BY <1>3 DEF Restart, Open, AnalysisEnd, AnalysisDone, Redo, RedoDone, UndoUpdate, UndoClr,
                UndoBegin, UndoAt, RestartDone, runVars
  <2>2. InTable' = {}
    BY <2>1 DEF RInv, Chained, InTable
  <2> QED
    BY <2>2 DEF BInv
<1>4. CASE (\E p \in Pages : Evict(p)) \/ Flush \/ UNCHANGED vars
  <2>1. log' = log /\ txn' = txn
    BY <1>4 DEF Evict, Flush, runVars, vars
  <2>2. ASSUME NEW t \in InTable PROVE Story(t)' /\ Mine(t)' /\ Stands(t)'
    BY <2>1, <2>2, OthersStep DEF BInv, InTable
  <2>3. InTable' = InTable
    BY <2>1 DEF InTable
  <2> QED
    BY <2>2, <2>3 DEF BInv
<1> QED
  BY <1>1, <1>2, <1>3, <1>4 DEF BInv, Next

LEMMA SpecStories == Spec => []BInv
<1>1. Init => BInv
  BY DEF Init, BInv, InTable, NoTxn
<1>2. TypeOK /\ TypeOK' /\ RInv /\ NamedInv /\ BInv /\ [Next]_vars => BInv'
  BY StoriesGoOn
<1> QED
  BY <1>1, <1>2, TypeCorrect, SpecNamed, SpecRecovers, PTL DEF Spec

\* The records behind the savepoint, and what the pages hold.
LEMMA LevelRestores ==
  ASSUME TypeOK, RInv, NamedInv, phase = "up", NEW t \in Tids, Mine(t), NEW s \in Nat,
         Level(s, Len(log), t)
  PROVE  Restored(t, s)
<1> SUFFICES ASSUME NEW f \in Lsns, FirstAfter(f, t, s) PROVE mem[Rec(f).pg].val = Rec(f).undo
  BY DEF Restored, Lsns, NextLsn
<1>1. /\ Len(log) \in Nat /\ Rec(f) \in Records /\ f \in Nat /\ f < Len(log) /\ s < f
      /\ Rec(f).type = "update" /\ Rec(f).tid = t
  <2>1. Len(log) \in Nat /\ Rec(f) \in Records
    BY OfTable
  <2> QED
    BY <2>1 DEF FirstAfter, Lsns
<1>2. PICK p \in Pages : p = Rec(f).pg
  BY <1>1, RecordFields DEF IsPageRec
<1>3. First(f, s, t, p)
  BY <1>1, <1>2 DEF First, FirstAfter, OwnPage, IsPageRec
<1>4. PICK l \in Lsns : f <= l /\ Last(l, Len(log), t, p)
  <2> DEFINE A == {k \in Lsns : k >= f /\ OwnPage(k, t, p)}
  <2>1. PICK l \in A : \A k \in A : k <= l
    <3>1. f \in A /\ A \in SUBSET (0..(Len(log) - 1)) /\ Len(log) - 1 \in Nat
      BY <1>1, <1>3 DEF Lsns, First
    <3> HIDE DEF A
    <3> QED
      BY <3>1, MaxIsMember
  <2>2. \A k \in (l + 1)..(Len(log) - 1) : k \in Lsns /\ k >= f /\ ~ (k <= l)
    BY <1>1, <2>1 DEF Lsns
  <2>3. Last(l, Len(log), t, p)
    BY <2>1, <2>2 DEF Last
  <2> QED
    BY <2>1, <2>3
<1>5. Rec(l).redo = Rec(f).undo
  <2>1. f \in (s + 1)..(Len(log) - 1) /\ l \in (s + 1)..(Len(log) - 1)
    BY <1>1, <1>4 DEF Lsns
  <2> QED
    BY <1>3, <1>4, <2>1 DEF Level
<1>6. mem[p].val = Rec(l).redo
  BY <1>4, LastServed
<1> QED
  BY <1>2, <1>5, <1>6

\* A rollback that comes to its savepoint, or to the beginning of its
\* transaction, has given every page back what it held there, whatever other
\* rollbacks the transaction had before and whatever the other transactions,
\* the buffer pool and the log did meanwhile (pgr_rollback).
THEOREM RollbacksRestore == Spec => RollbackRestores
<1>1. ASSUME TypeOK, RInv, NamedInv, BInv, Next, NEW t \in Tids, RollbackReturns(t),
             txn[t].undoNext <= txn[t].save
      PROVE  Restored(t, txn[t].save)
  <2>1. txn[t].st = "rolling" /\ t \in InTable /\ phase = "up"
    <3>1. txn[t].st = "rolling" /\ t \in InTable
      BY <1>1 DEF RollbackReturns, InTable
    <3> QED
      BY <1>1, <3>1 DEF RInv, Chained
  <2>2. Mine(t) /\ Stands(t)
    BY <1>1, <2>1 DEF BInv
  <2>3. PICK s : s = txn[t].save
    OBVIOUS
  <2>4. s \in Nat /\ Level(s, Len(log), t)
    <3>1. txn[t].undoNext \in Nat /\ s \in Nat
      BY <1>1, <2>3, OfTable
    <3>2. txn[t].undoNext = s
      BY <1>1, <2>1, <2>2, <2>3, <3>1 DEF Stands
    <3> QED
      BY <2>1, <2>2, <3>1, <3>2 DEF Stands
  <2> QED
    BY <1>1, <2>1, <2>2, <2>3, <2>4, LevelRestores
<1>2. TypeOK /\ RInv /\ NamedInv /\ BInv /\ [Next]_vars
        => [\A t \in Tids : RollbackReturns(t) /\ txn[t].undoNext <= txn[t].save
                              => Restored(t, txn[t].save)]_vars
  BY <1>1
<1> QED
  BY <1>2, TypeCorrect, SpecNamed, SpecRecovers, SpecStories, PTL DEF Spec, RollbackRestores

-----------------------------------------------------------------------------
(* The refinement: seen from outside, the pager is a PrefixStore.          *)

\* What a page record leaves, and takes away, is a content of the store.
Valued(r) == IsPageRec(r) => r.redo \in Worth /\ (r.type = "update" => r.undo \in Worth)
VInv      == \A l \in Lsns : Valued(Rec(l))

LEMMA ValuedRecords ==
  /\ \A t, prev, p : \A u, v \in Worth : Valued(UpdateRec(t, prev, p, u, v))
  /\ \A t, prev, p, next : \A v \in Worth : Valued(ClrRec(t, prev, p, next, v))
  /\ \A t, prev : Valued(BeginRec(t)) /\ Valued(CommitRec(t, prev)) /\ Valued(EndRec(t, prev))
BY DEF Valued, IsPageRec, UpdateRec, ClrRec, BeginRec, CommitRec, EndRec

LEMMA InitValued == Init => VInv
<1> SUFFICES ASSUME Init, NEW l \in Lsns PROVE Valued(Rec(l))
  BY DEF VInv
<1>1. l + 1 \in 1..(2 * NPages + 5) /\ log = InitLog /\ Rec(l) = InitLog[l + 1]
  BY InitRecords DEF Init, Lsns, Rec
<1>2. PICK i \in 1..(2 * NPages + 5) : i = l + 1
  BY <1>1
<1>3. 0 \in Worth /\ InitVal \in Worth
  BY DEF Worth
<1> DEFINE n == 2 * NPages + 5
<1>4. /\ n \in Nat /\ n > 8
      /\ \A t, prev, p : Valued(UpdateRec(t, prev, p, 0, 0)) /\ Valued(UpdateRec(t, prev, p, InitVal, InitVal))
  BY <1>3, NPagesAssumption, ValuedRecords
<1>5. Valued(InitLog[i])
  <2>1. CASE i \in {1, 5}
    BY <2>1, <1>4, ValuedRecords DEF InitLog
  <2>2. CASE i = 2
    <3>1. InitLog[2] = UpdateRec(1, 0, Root, 0, 0)
      BY NPagesAssumption DEF InitLog
    <3> QED
      BY <1>4, <2>2, <3>1
  <2>3. CASE i \in {3, 4}
    BY <2>3, <1>4, ValuedRecords DEF InitLog
  <2>4. CASE i \in {n - 1, n} /\ i > 5
    BY <2>4, <1>4, ValuedRecords DEF InitLog
  <2>5. CASE i \in 6..(n - 2)
    <3>1. /\ i \in 1..n /\ i # n - 1 /\ i # n
          /\ i # 1 /\ i # 2 /\ i # 3 /\ i # 4 /\ i # 5
      BY <1>2, <1>4, <2>5
    <3>2. NPages \in Nat
      BY NPagesAssumption
    <3>3. InitLog[i] = IF i % 2 = 0 THEN UpdateRec(2, i - 2, Root, 0, 0)
                       ELSE UpdateRec(2, i - 2, (i - 5) \div 2, InitVal, InitVal)
      BY SMTT(30), <3>1, <3>2 DEF InitLog
    <3> QED
      BY <1>4, <3>3
  <2> QED
    BY <1>2, <1>4, <2>1, <2>2, <2>3, <2>4, <2>5
<1> QED
  BY <1>1, <1>2, <1>5

\* The log after a step: as it was, cut, or one record longer.
LEMMA ValuedKept ==
  ASSUME TypeOK, VInv,
         \/ log' = log
         \/ \E n \in 0..Len(log) : log' = SubSeq(log, 1, n)
         \/ \E r : Valued(r) /\ log' = Append(log, r)
  PROVE  VInv'
<1>0. LogOK /\ Len(log) \in Nat
  BY DEF TypeOK, LogOK
<1>1. CASE log' = log
  BY <1>1 DEF VInv, Lsns, Rec, Valued, IsPageRec
<1>2. CASE \E n \in 0..Len(log) : log' = SubSeq(log, 1, n)
  <2>1. PICK n \in 0..Len(log) : log' = SubSeq(log, 1, n)
    BY <1>2
  <2>2. Len(log') = n /\ \A i \in 1..n : log'[i] = log[i]
    BY <1>0, <2>1 DEF LogOK
  <2>3. \A l \in Lsns' : l \in Lsns /\ Rec(l)' = Rec(l)
    BY <1>0, <2>2 DEF Lsns, Rec
  <2> QED
    BY <2>3 DEF VInv, Valued, IsPageRec
<1>3. CASE \E r : Valued(r) /\ log' = Append(log, r)
  <2>1. PICK r : Valued(r) /\ log' = Append(log, r)
    BY <1>3
  <2>2. Kept(Len(log)) /\ Len(log') = Len(log) + 1 /\ log'[Len(log) + 1] = r
    BY <1>0, <2>1, AppendKeeps
  <2>3. \A l \in Lsns' : (l \in Lsns /\ Rec(l)' = Rec(l)) \/ Rec(l)' = r
    BY <1>0, <2>2 DEF Lsns, Rec, Kept
  <2> QED
    BY <2>1, <2>3 DEF VInv, Valued, IsPageRec
<1> QED
  BY <1>1, <1>2, <1>3

\* What is served is a content of the store.
LEMMA ServedWorth ==
  ASSUME TypeOK, NamedInv, VInv, NEW p \in Pages
  PROVE  mem[p].val \in Worth
<1>1. Produced(p, mem[p]) /\ mem[p].lsn \in Nat /\ Len(log) \in Nat
  BY DEF NamedInv, Named, TypeOK, PageOK, LogOK
<1>2. mem[p].lsn \in Lsns
  BY <1>1 DEF Produced, Lsns
<1> QED
  BY <1>1, <1>2 DEF Produced, VInv, Valued

-----------------------------------------------------------------------------
(* The history that a log stands for. *)

LEMMA History ==
  ASSUME NEW l \in Seq(Records)
  PROVE  /\ WritesIn(l) \in Seq({PagesWritten(r) : r \in Records})
         /\ Len(WritesIn(l)) = Len(l)
         /\ \A i \in 1..Len(l) : WritesIn(l)[i] = PagesWritten(l[i])
BY DEF WritesIn

LEMMA LogHistory ==
  ASSUME TypeOK
  PROVE  /\ Len(WritesIn(log)) = Len(log)
         /\ \A i \in 1..Len(log) : WritesIn(log)[i] = PagesWritten(log[i])
         /\ Len(log) \in Nat /\ flushed \in Nat /\ flushed <= Len(log)
<1>1. log \in Seq(Records) /\ flushed \in 0..Len(log)
  BY DEF TypeOK, LogOK
<1>2. PICK l \in Seq(Records) : l = log
  BY <1>1
<1>3. /\ Len(WritesIn(l)) = Len(l)
      /\ \A i \in 1..Len(l) : WritesIn(l)[i] = PagesWritten(l[i])
  BY ONLY <1>2, History
<1>4. Len(log) \in Nat
  BY <1>1
<1>5. flushed \in Nat /\ flushed <= Len(log)
  BY <1>1, <1>4
<1> QED
  BY <1>2, <1>3, <1>4, <1>5

LEMMA HistoryGrows ==
  ASSUME LogOK, NEW r, r \in Records, log' = Append(log, r)
  PROVE  WritesIn(log') = Append(WritesIn(log), PagesWritten(r))
<1> DEFINE S == {PagesWritten(q) : q \in Records}
           a == WritesIn(log')
           b == Append(WritesIn(log), PagesWritten(r))
<1>1. log \in Seq(Records) /\ log' \in Seq(Records) /\ Len(log) \in Nat
  BY DEF LogOK
<1>2. Len(log') = Len(log) + 1 /\ log'[Len(log) + 1] = r /\ \A i \in 1..Len(log) : log'[i] = log[i]
  BY <1>1
<1>3. PagesWritten(r) \in S
  OBVIOUS
<1>4. /\ a \in Seq(S) /\ Len(a) = Len(log) + 1
      /\ \A i \in 1..(Len(log) + 1) : a[i] = PagesWritten(log'[i])
  BY <1>1, <1>2, History
<1>5. /\ WritesIn(log) \in Seq(S) /\ Len(WritesIn(log)) = Len(log)
      /\ \A i \in 1..Len(log) : WritesIn(log)[i] = PagesWritten(log[i])
  BY <1>1, History
<1> HIDE DEF S
<1>6. /\ b \in Seq(S) /\ Len(b) = Len(log) + 1
      /\ \A i \in 1..Len(log) : b[i] = WritesIn(log)[i]
      /\ b[Len(log) + 1] = PagesWritten(r)
  BY <1>1, <1>3, <1>5
<1>7. \A i \in 1..(Len(log) + 1) : i \in 1..Len(log) \/ i = Len(log) + 1
  BY <1>1
<1>8. \A i \in 1..Len(a) : a[i] = b[i]
  BY <1>1, <1>2, <1>4, <1>5, <1>6, <1>7
<1>9. Len(a) = Len(b)
  BY <1>4, <1>6
<1> HIDE DEF a, b
<1>10. a = b
  BY <1>4, <1>6, <1>8, <1>9, SeqEqual
<1> QED
  BY <1>10 DEF a, b

LEMMA HistoryCut ==
  ASSUME LogOK, NEW n \in 0..Len(log)
  PROVE  WritesIn(SubSeq(log, 1, n)) = SubSeq(WritesIn(log), 1, n)
<1> DEFINE S == {PagesWritten(q) : q \in Records}
           l == SubSeq(log, 1, n)
           a == WritesIn(l)
           b == SubSeq(WritesIn(log), 1, n)
<1>1. log \in Seq(Records) /\ Len(log) \in Nat /\ n \in Nat /\ n <= Len(log)
  BY DEF LogOK
<1>2. l \in Seq(Records) /\ Len(l) = n /\ \A i \in 1..n : l[i] = log[i]
  BY <1>1
<1> HIDE DEF l
<1>3. a \in Seq(S) /\ Len(a) = n /\ \A i \in 1..n : a[i] = PagesWritten(l[i])
  BY <1>2, History
<1>4. /\ WritesIn(log) \in Seq(S) /\ Len(WritesIn(log)) = Len(log)
      /\ \A i \in 1..Len(log) : WritesIn(log)[i] = PagesWritten(log[i])
  BY <1>1, History
<1> HIDE DEF S
<1>5. b \in Seq(S) /\ Len(b) = n /\ \A i \in 1..n : b[i] = WritesIn(log)[i]
  BY <1>1, <1>4
<1>6. \A i \in 1..Len(a) : a[i] = b[i]
  BY <1>1, <1>2, <1>3, <1>4, <1>5
<1>7. Len(a) = Len(b)
  BY <1>3, <1>5
<1> HIDE DEF a, b
<1>8. a = b
  BY <1>3, <1>5, <1>6, <1>7, SeqEqual
<1> QED
  BY <1>8 DEF a, b, l

-----------------------------------------------------------------------------
(* One step of the pager, one of the store or none. *)

LEMMA ServesAll == phase = "up" => Served # {}
<1>1. Root \in Pages
  BY ContentsTypes
<1> QED
  BY <1>1 DEF Served

LEMMA StepNote ==
  ASSUME TypeOK, NEW r \in Records, ~ IsPageRec(r), log' = Append(log, r),
         UNCHANGED <<flushed, mem, phase>>
  PROVE  Store!Note
<1>1. WritesIn(log') = Append(WritesIn(log), {})
  BY HistoryGrows DEF TypeOK, PagesWritten
<1> QED
  BY <1>1 DEF Store!Note, Served

LEMMA StepWrite ==
  ASSUME TypeOK, NEW r \in Records, IsPageRec(r), log' = Append(log, r),
         mem' = [mem EXCEPT ![r.pg] = Image(Len(log), r.redo)],
         phase = "up", UNCHANGED <<flushed, phase>>
  PROVE  Store!Write(r.pg, r.redo)
<1>1. WritesIn(log') = Append(WritesIn(log), {Store!Image(r.pg, r.redo)})
  BY HistoryGrows DEF TypeOK, PagesWritten, Store!Image
<1>2. r.pg \in Pages
  BY RecordFields
<1>3. Served' = {s \in Served : s.pg # r.pg} \cup {Store!Image(r.pg, r.redo)}
  <2>1. \A q \in Pages : mem'[q].val = IF q = r.pg THEN r.redo ELSE mem[q].val
    BY <1>2 DEF TypeOK, PageOK, Image
  <2>2. Served = {[pg |-> q, val |-> mem[q].val] : q \in Pages}
    BY DEF Served
  <2>3. Served' = {[pg |-> q, val |-> mem'[q].val] : q \in Pages}
    BY DEF Served
  <2> QED
    BY <1>2, <2>1, <2>2, <2>3 DEF Store!Image
<1> QED
  BY <1>1, <1>3, ServesAll DEF Store!Write

LEMMA StepSync ==
  ASSUME TypeOK, log' = log, flushed' \in {flushed, Len(log)}, flushed' = flushed \/ phase = "up",
         UNCHANGED <<mem, phase>>
  PROVE  [Store!Sync]_(Store!svars)
<1>1. Len(WritesIn(log)) = Len(log) /\ flushed \in Nat /\ Len(log) \in Nat /\ flushed <= Len(log)
  BY LogHistory
<1>2. WritesIn(log') = WritesIn(log) /\ Served' = Served
  BY DEF Served
<1> QED
  BY <1>1, <1>2, ServesAll DEF Store!Sync, Store!svars

LEMMA StepFail ==
  ASSUME TypeOK, NEW n \in flushed..Len(log), log' = SubSeq(log, 1, n), flushed' = n, phase' # "up"
  PROVE  Store!Fail
<1>1. /\ Len(WritesIn(log)) = Len(log) /\ n \in 0..Len(log)
  BY LogHistory
<1>2. WritesIn(log') = SubSeq(WritesIn(log), 1, n)
  BY <1>1, HistoryCut DEF TypeOK
<1> QED
  BY <1>1, <1>2 DEF Store!Fail, Served

\* The last write of a page in the history is the one its page LSN names.
LEMMA LastServedIsLast ==
  ASSUME TypeOK, NamedInv, NEW p \in Pages,
         \A l \in Lsns : IsOfPage(l, p) => l <= mem[p].lsn
  PROVE  Store!LastOf(WritesIn(log), p) = mem[p].val
<1> DEFINE h == WritesIn(log)
           k == mem[p].lsn + 1
           W == Store!WritesOf(h, p)
<1>1. /\ Len(h) = Len(log) /\ Len(log) \in Nat
      /\ \A i \in 1..Len(log) : h[i] = PagesWritten(log[i])
  BY LogHistory DEF h
<1>2. mem[p].lsn \in Nat /\ Produced(p, mem[p])
  BY DEF NamedInv, Named, TypeOK, PageOK
<1>3. /\ k \in 1..Len(log) /\ IsPageRec(log[k]) /\ log[k].pg = p /\ log[k].redo = mem[p].val
  BY <1>1, <1>2 DEF Produced, Rec
<1>4. h[k] = {[pg |-> p, val |-> mem[p].val]}
  BY <1>1, <1>3 DEF PagesWritten
<1> HIDE DEF h
<1>5. W \in SUBSET (0..Len(log)) /\ k \in W
  <2>1. W = {i \in 1..Len(log) : \E w \in h[i] : w.pg = p}
    BY <1>1 DEF Store!WritesOf
  <2>2. \E w \in h[k] : w.pg = p
    BY <1>4
  <2> HIDE DEF W, k
  <2> QED
    BY <1>1, <1>3, <2>1, <2>2
<1>6. ASSUME NEW i \in W PROVE i <= k
  <2>1. i \in 1..Len(log) /\ \E w \in PagesWritten(log[i]) : w.pg = p
    BY <1>1 DEF Store!WritesOf
  <2>2. IsPageRec(log[i]) /\ log[i].pg = p
    BY <2>1 DEF PagesWritten
  <2>3. i - 1 \in Lsns /\ IsOfPage(i - 1, p)
    BY <1>1, <2>1, <2>2 DEF Lsns, IsOfPage, Rec
  <2>4. i - 1 <= mem[p].lsn
    BY <2>3
  <2> QED
    BY <1>2, <2>1, <2>4
<1> HIDE DEF k, W
<1>7. Store!Max(W) = Max(W)
  BY DEF Store!Max, Max
<1>8. Max(W) \in W /\ \A x \in W : x <= Max(W)
  BY <1>1, <1>5, MaxIsMember
<1>9. Max(W) = k
  <2>1. PICK m \in W : m = Max(W)
    BY <1>8
  <2>2. m <= k /\ k <= m
    BY <1>5, <1>6, <1>8, <2>1
  <2>3. m \in Int /\ k \in Int
    BY <1>1, <1>5
  <2> QED
    BY <2>1, <2>2, <2>3
<1>10. Store!LastOf(h, p) = (CHOOSE w \in h[k] : w.pg = p).val
  BY <1>7, <1>9 DEF Store!LastOf, W
<1>11. (CHOOSE w \in {[pg |-> p, val |-> mem[p].val]} : w.pg = p) = [pg |-> p, val |-> mem[p].val]
  OBVIOUS
<1> QED
  BY <1>4, <1>10, <1>11 DEF h

LEMMA StepRecover ==
  ASSUME TypeOK, NamedInv, RInv, RestartDone
  PROVE  Store!Recover
<1>1. phase = "undo" /\ phase' = "up" /\ log' = log /\ flushed' = flushed /\ mem' = mem
  BY DEF RestartDone, walVars, pageVars
<1>2. \A p \in Pages : Store!LastOf(WritesIn(log), p) = mem[p].val
  BY <1>1, LastServedIsLast DEF RInv, Repeated
<1>3. Served = {} /\ Served' = {[pg |-> p, val |-> mem[p].val] : p \in Pages}
  BY <1>1 DEF Served
<1>4. Served' = Store!Contained(WritesIn(log))
  BY <1>2, <1>3 DEF Store!Contained, Store!Image
<1> QED
  BY <1>1, <1>3, <1>4 DEF Store!Recover

\* Every step of the pager is one of the store, or none; and it leaves records
\* of contents only.
Mapped == /\ [Store!StoreNext]_(Store!svars)
          /\ \/ log' = log
             \/ \E n \in 0..Len(log) : log' = SubSeq(log, 1, n)
             \/ \E r : Valued(r) /\ log' = Append(log, r)

LEMMA MappedNote ==
  ASSUME TypeOK, NEW r \in Records, Valued(r), ~ IsPageRec(r), log' = Append(log, r),
         UNCHANGED <<flushed, mem, phase>>
  PROVE  Mapped
BY StepNote DEF Mapped, Store!StoreNext

LEMMA MappedWrite ==
  ASSUME TypeOK, NEW r \in Records, Valued(r), IsPageRec(r), log' = Append(log, r),
         mem' = [mem EXCEPT ![r.pg] = Image(Len(log), r.redo)],
         phase = "up", UNCHANGED <<flushed, phase>>
  PROVE  Mapped
<1>1. Store!Write(r.pg, r.redo) /\ r.pg \in Pages /\ r.redo \in Worth
  BY StepWrite, RecordFields DEF Valued
<1> QED
  BY <1>1 DEF Mapped, Store!StoreNext

LEMMA MappedSync ==
  ASSUME TypeOK, log' = log, flushed' \in {flushed, Len(log)}, flushed' = flushed \/ phase = "up",
         UNCHANGED <<mem, phase>>
  PROVE  Mapped
<1>1. [Store!Sync]_(Store!svars)
  BY StepSync
<1> QED
  BY <1>1 DEF Mapped, Store!StoreNext

\* The restart repeats history behind closed doors.
LEMMA MappedClosed ==
  ASSUME UNCHANGED <<log, flushed>>, phase # "up", phase' # "up"
  PROVE  Mapped
BY DEF Mapped, Store!svars, Served

LEMMA TransactionMaps ==
  ASSUME TypeOK, NamedInv, VInv, NEW t \in Tids, Transaction(t)
  PROVE  Mapped
<1>1. CASE Begin(t)
  <2>1. BeginRec(t) \in Records /\ Valued(BeginRec(t)) /\ ~ IsPageRec(BeginRec(t))
    BY RecordTypes, ValuedRecords DEF BeginRec, IsPageRec
  <2>2. log' = Append(log, BeginRec(t)) /\ UNCHANGED <<flushed, mem, phase>>
    BY <1>1 DEF Begin, pageVars
  <2> QED
    BY <2>1, <2>2, MappedNote
<1>2. ASSUME NEW p \in Pages, NEW v \in Vals, Update(t, p, v)
      PROVE  Mapped
  <2> DEFINE r == UpdateRec(t, txn[t].last, p, mem[p].val, v)
  <2>1. v \in Worth /\ mem[p].val \in Worth
    BY ServedWorth DEF Worth
  <2>2. r \in Records
    BY RecordTypes, ContentsTypes DEF TypeOK, RunOK, PageOK
  <2>3. Valued(r) /\ IsPageRec(r) /\ r.pg = p /\ r.redo = v
    BY <2>1, ValuedRecords DEF UpdateRec, IsPageRec
  <2>4. /\ phase = "up" /\ log' = Append(log, r) /\ UNCHANGED <<flushed, phase>>
        /\ mem' = [mem EXCEPT ![p] = Image(Len(log), v)]
    BY <1>2 DEF Update, Room, SavePage, NextLsn
  <2> HIDE DEF r
  <2> QED
    BY <2>2, <2>3, <2>4, MappedWrite
<1>3. CASE CommitLog(t)
  <2> DEFINE r == CommitRec(t, txn[t].last)
  <2>1. r \in Records /\ Valued(r) /\ ~ IsPageRec(r)
    BY RecordTypes, ValuedRecords DEF CommitRec, IsPageRec, TypeOK, RunOK
  <2>2. log' = Append(log, r) /\ UNCHANGED <<flushed, mem, phase>>
    BY <1>3 DEF CommitLog, pageVars
  <2> QED
    BY <2>1, <2>2, MappedNote
<1>4. CASE CommitFlush(t)
  <2>1. log' = log /\ flushed' = Len(log) /\ phase = "up" /\ UNCHANGED <<mem, phase>>
    BY <1>4 DEF CommitFlush, CommitFlushed, pageVars
  <2> QED
    BY <2>1, MappedSync
<1>5. CASE CommitEnd(t)
  <2> DEFINE r == EndRec(t, txn[t].commit)
  <2>1. r \in Records /\ Valued(r) /\ ~ IsPageRec(r)
    BY RecordTypes, ValuedRecords DEF EndRec, IsPageRec, TypeOK, RunOK
  <2>2. log' = Append(log, r) /\ UNCHANGED <<flushed, mem, phase>>
    BY <1>5 DEF CommitEnd, pageVars
  <2> QED
    BY <2>1, <2>2, MappedNote
<1>6. CASE RollbackUpdate(t)
  <2> DEFINE u == UndoRec(t)
             r == ClrRec(u.tid, txn[t].last, u.pg, u.prev, Undone(u))
  <2>1. txn[t].undoNext \in Lsns /\ u \in Records /\ u.type = "update" /\ txn[t].last \in Nat
    <3>1. txn[t].undoNext \in InFile /\ u = Rec(txn[t].undoNext) /\ u.type = "update"
      BY <1>6 DEF RollbackUpdate, UndoRec
    <3> QED
      BY <3>1, LogRecords DEF TypeOK, RunOK, Lsns, NextLsn
  <2>2. u.tid \in Tids /\ u.pg \in Pages /\ u.prev \in Nat /\ u.undo \in Contents
    BY <2>1, RecordFields DEF IsTxnRec, IsPageRec
  <2>3. u.undo \in Worth
    BY <2>1 DEF VInv, Valued, IsPageRec, UndoRec
  <2>4. /\ phase = "up" /\ log' = Append(log, r) /\ UNCHANGED <<flushed, phase>>
        /\ mem' = [mem EXCEPT ![u.pg] = Image(Len(log), u.undo)]
    BY <1>6 DEF RollbackUpdate, Undoing, NextLsn, Undone
  <2> HIDE DEF u
  <2>5. r \in Records
    BY <2>1, <2>2, RecordTypes DEF Undone
  <2>6. Valued(r) /\ IsPageRec(r) /\ r.pg = u.pg /\ r.redo = u.undo
    BY <2>3, ValuedRecords DEF ClrRec, IsPageRec, Undone
  <2> HIDE DEF r
  <2> QED
    BY <2>4, <2>5, <2>6, MappedWrite
<1>7. CASE \/ CommitDone(t) \/ RollbackSkip(t) \/ RollbackEof(t) \/ RollbackReturn(t)
           \/ \E s \in 0..(NextLsn - 1) : Rollback(t, s)
  <2>1. UNCHANGED <<log, flushed, mem, phase>>
    BY <1>7 DEF CommitDone, RollbackSkip, RollbackEof, RollbackReturn, Rollback, walVars, pageVars
  <2> QED
    BY <2>1, MappedSync
<1> QED
  BY <1>1, <1>2, <1>3, <1>4, <1>5, <1>6, <1>7 DEF Transaction

LEMMA PoolMaps ==
  ASSUME TypeOK, (\E p \in Pages : Evict(p)) \/ Flush \/ Crash \/ Close
  PROVE  Mapped
<1>0. flushed \in Nat /\ Len(log) \in Nat /\ flushed <= Len(log)
  BY LogHistory
<1>1. ASSUME NEW n \in flushed..Len(log), log' = SubSeq(log, 1, n), flushed' = n, phase' # "up"
      PROVE  Mapped
  <2>1. n \in 0..Len(log)
    BY <1>0
  <2> QED
    BY <1>1, <2>1, StepFail DEF Mapped, Store!StoreNext
<1>2. CASE \E p \in Pages : Evict(p)
  <2>1. /\ log' = log /\ UNCHANGED <<mem, phase>> /\ flushed' \in {flushed, Len(log)}
        /\ flushed' = flushed \/ phase = "up"
    BY <1>2 DEF Evict, EvictFlushed, Restarting
  <2> QED
    BY <2>1, MappedSync
<1>3. CASE Flush
  <2>1. log' = log /\ flushed' = Len(log) /\ phase = "up" /\ UNCHANGED <<mem, phase>>
    BY <1>3 DEF Flush, pageVars
  <2> QED
    BY <2>1, MappedSync
<1>4. CASE Crash
  BY <1>1, <1>4 DEF Crash, GoDown
<1>5. CASE Close
  <2>1. phase' # "up" /\ flushed' = Len(log) /\ log' = log
    BY <1>5 DEF Close, GoDown
  <2>2. log = SubSeq(log, 1, Len(log)) /\ Len(log) \in flushed..Len(log)
    BY <1>0 DEF TypeOK, LogOK
  <2> QED
    BY <1>1, <2>1, <2>2
<1> QED
  BY <1>2, <1>3, <1>4, <1>5

LEMMA RestartMaps ==
  ASSUME TypeOK, NamedInv, RInv, Restart
  PROVE  Mapped
<1>1. CASE Open \/ AnalysisDone \/ Redo \/ RedoDone
  <2>1. UNCHANGED <<log, flushed>> /\ phase # "up" /\ phase' # "up"
    BY <1>1 DEF Open, AnalysisDone, Redo, RedoDone, walVars
  <2> QED
    BY <2>1, MappedClosed
<1>2. ASSUME NEW t \in Tids, AnalysisEnd(t)
      PROVE  Mapped
  <2> DEFINE r == EndRec(t, ctx.att[t].last)
  <2>1. r \in Records /\ Valued(r) /\ ~ IsPageRec(r)
    <3>1. ctx.att[t].last \in Nat
      BY DEF TypeOK, CtxOK, Entries
    <3> QED
      BY <3>1, RecordTypes, ValuedRecords DEF EndRec, IsPageRec
  <2>2. log' = Append(log, r) /\ UNCHANGED <<flushed, mem, phase>>
    BY <1>2 DEF AnalysisEnd, pageVars
  <2> QED
    BY <2>1, <2>2, MappedNote
<1>3. CASE UndoUpdate \/ UndoClr \/ UndoBegin
  <2>1. phase = "undo" /\ Losers # {}
    BY <1>3 DEF UndoUpdate, UndoClr, UndoBegin, UndoAt
  <2> QED
    BY <2>1 DEF RInv, Analysed, Losers
<1>4. CASE RestartDone
  <2>1. log' = log
    BY <1>4 DEF RestartDone, walVars
  <2> QED
    BY <1>4, <2>1, StepRecover DEF Mapped, Store!StoreNext
<1> QED
  BY <1>1, <1>2, <1>3, <1>4 DEF Restart

LEMMA NextMaps ==
  ASSUME TypeOK, NamedInv, RInv, VInv, [Next]_vars
  PROVE  Mapped
<1>1. CASE UNCHANGED vars
  <2>1. UNCHANGED <<log, flushed, mem, phase>>
    BY <1>1 DEF vars
  <2> QED
    BY <2>1, MappedSync
<1> QED
  BY <1>1, TransactionMaps, PoolMaps, RestartMaps DEF Next

LEMMA SpecValued == Spec => []VInv
<1>1. TypeOK /\ NamedInv /\ RInv /\ VInv /\ [Next]_vars => VInv'
  BY NextMaps, ValuedKept DEF Mapped
<1> QED
  BY <1>1, InitValued, TypeCorrect, SpecNamed, SpecRecovers, PTL DEF Spec

LEMMA InitMaps == Init => Store!StoreInit
<1> SUFFICES ASSUME Init PROVE Store!StoreInit
  OBVIOUS
<1>1. TypeOK /\ VInv /\ phase = "down" /\ flushed = Len(log)
  BY InitTypes, InitValued, InitRecords DEF Init
<1>2. /\ Len(WritesIn(log)) = Len(log) /\ Len(log) \in Nat
      /\ \A i \in 1..Len(log) : WritesIn(log)[i] = PagesWritten(log[i])
  BY <1>1, LogHistory
<1>3. ASSUME NEW i \in 1..Len(log)
      PROVE  PagesWritten(log[i]) \in SUBSET [pg : Pages, val : Worth]
  <2>1. i - 1 \in Lsns /\ log[i] = Rec(i - 1) /\ log[i] \in Records
    BY <1>1, <1>2 DEF Lsns, Rec, TypeOK, LogOK
  <2>2. Valued(log[i])
    BY <1>1, <2>1 DEF VInv
  <2> QED
    BY <2>1, <2>2, RecordFields DEF Valued, PagesWritten
<1>4. WritesIn(log) \in Seq(SUBSET [pg : Pages, val : Worth])
  <2>1. PICK n \in Nat : n = Len(log)
    BY <1>2
  <2>2. WritesIn(log) = [i \in 1..n |-> PagesWritten(log[i])]
    BY <1>1, <2>1 DEF WritesIn, TypeOK, LogOK
  <2>3. WritesIn(log) \in [1..n -> SUBSET [pg : Pages, val : Worth]]
    BY <1>3, <2>1, <2>2
  <2> QED
    BY <2>3
<1>5. ASSUME NEW p \in Pages
      PROVE  Store!WritesOf(WritesIn(log), p) # {}
  <2>1. Produced(p, mem[p]) /\ mem[p].lsn \in Nat
    BY <1>1, InitNamed DEF Named, TypeOK, PageOK
  <2>2. PICK i \in 1..Len(log) : i = mem[p].lsn + 1 /\ IsPageRec(log[i]) /\ log[i].pg = p
    BY <1>2, <2>1 DEF Produced, Rec
  <2>3. \E w \in WritesIn(log)[i] : w.pg = p
    <3>1. WritesIn(log)[i] = {[pg |-> p, val |-> log[i].redo]}
      BY <1>2, <2>2 DEF PagesWritten
    <3> QED
      BY <3>1
  <2> QED
    BY <1>2, <2>2, <2>3 DEF Store!WritesOf
<1> QED
  BY <1>1, <1>2, <1>4, <1>5 DEF Store!StoreInit, Served

\* Seen from outside, the pager as it is used is a PrefixStore, in every
\* behaviour: one page write becomes visible at a time, a crash at any moment,
\* a restart included, forgets a suffix of the history that was not flushed and
\* nothing else, and pgr_open serves the last write that is left of every page.
THEOREM StoreImplemented == Spec => ImplementsStore
<1>1. TypeOK /\ NamedInv /\ RInv /\ VInv /\ [Next]_vars => [Store!StoreNext]_(Store!svars)
  BY NextMaps DEF Mapped
<1> QED
  BY <1>1, InitMaps, TypeCorrect, SpecNamed, SpecRecovers, SpecValued, PTL
     DEF Spec, ImplementsStore, Store!StoreSpec
=============================================================================
