------------------------------ MODULE TxnTable ------------------------------
(***************************************************************************)
(* The transaction table (txn_table.c): transactions by tid in a chained   *)
(* hash table that grows and shrinks by moving a few nodes per call        *)
(* (adptv_hash_table.c over hash_table.c).  The nodes lie inside the       *)
(* structs of the transactions: those of clients stay where they are,      *)
(* those of a restart live in a growing array (dbl_buffer.c).              *)
(***************************************************************************)
EXTENDS SequencesExt

CONSTANTS Tids,                  \* transaction ids, which are their own hash
          MinSize, MaxSize,      \* capacities of the table
          MinLoad, MaxLoad,      \* load factors
          Work,                  \* units of rehashing in one insertion
          BankCap,               \* first capacity of the array of a restart
          MaxNoMem,              \* allocations that fail
          MaxScanned             \* log records of a transaction in one restart

ASSUME TxnAssumption == /\ Tids \subseteq Nat /\ {MinSize, MinLoad, MaxLoad, Work, BankCap} \subseteq Nat \ {0}
                        /\ MinSize <= MaxSize

VARIABLES att,   \* [cur, prev, mig]: the two hash tables, and the bucket being moved
          txnData, \* tid -> [state, undo] of the struct whose node is in the table
          listed, \* transactions the callers put in and did not take out
          trole, \* "pager", or the pass of the restart
          saved, \* the entries of the checkpoint the restart reads
          bank,  \* array of the restart: [n, cap]
          stale, \* transactions of the table whose struct was in memory since moved
          nomem  \* allocations that may still fail

txnVars == <<att, txnData, listed, trole, saved, bank, stale, nomem>>

\* hash_table.c
htable_create(n) == [b \in 0..(n - 1) |-> << >>]
HCap(h)  == Cardinality(DOMAIN h)
Pos(h, tid) == tid % HCap(h)
htable_insert(h, tid) == [h EXCEPT ![Pos(h, tid)] = <<tid>> \o @]
htable_lookup(h, tid) == {tid} \cap ToSet(h[Pos(h, tid)])
htable_delete(h, tid) == [h EXCEPT ![Pos(h, tid)] = Remove(@, tid)]
Chained(h) == FlattenSeq([k \in 1..HCap(h) |-> h[k - 1]])
HSize(h) == Len(Chained(h))

\* adptv_hash_table.c: one unit of rehashing passes an empty bucket or moves
\* the first node of a chain; none is left when prev is empty.
MoveOne(a) ==
  IF HSize(a.prev) = 0 THEN a
  ELSE IF a.prev[a.mig] = << >> THEN [a EXCEPT !.mig = @ + 1]
  ELSE [a EXCEPT !.cur = htable_insert(@, Head(a.prev[a.mig])), !.prev[a.mig] = Tail(@)]
Moved(a, units) == FoldLeft(LAMBDA x, k : MoveOne(x), a, [k \in 1..units |-> k])
finish_rehashing(a) == Moved(a, HCap(a.prev) + HSize(a.prev))

adptv_htable_init == [cur |-> htable_create(MinSize), prev |-> htable_create(MinSize), mig |-> 0]
adptv_size(a) == HSize(a.cur) + HSize(a.prev)
\* Mutant: the nodes that have not moved yet are not looked for.
Bug_CurrentOnly(a, tid) == htable_lookup(a.cur, tid)
adptv_htable_lookup(a, tid) == htable_lookup(a.cur, tid) \cup htable_lookup(a.prev, tid)

\* A new table takes over, or cannot be had: the call fails then, with the
\* old nodes all moved.
Triggered(a, newcap, fails) ==
  IF fails THEN finish_rehashing(a)
  ELSE [cur |-> htable_create(newcap), prev |-> finish_rehashing(a).cur, mig |-> 0]

Grows(a)   == adptv_size(a) + 1 >= HCap(a.cur) * MaxLoad /\ 2 * HCap(a.cur) <= MaxSize
Shrinks(a) == adptv_size(a) <= (HCap(a.cur) + 1) * MinLoad + 1 /\ HCap(a.cur) \div 2 >= MinSize

WithNode(a, tid) == Moved([a EXCEPT !.cur = htable_insert(@, tid)], Work)
adptv_htable_insert(a, tid) ==
  WithNode(IF Grows(a) THEN Triggered(a, 2 * HCap(a.cur), FALSE) ELSE a, tid)

WithoutNode(a, tid) == IF htable_lookup(a.cur, tid) # {} THEN [a EXCEPT !.cur = htable_delete(@, tid)]
                       ELSE [a EXCEPT !.prev = htable_delete(@, tid)]
adptv_htable_delete(a, tid) ==
  WithoutNode(IF Shrinks(a) THEN Triggered(a, HCap(a.cur) \div 2, FALSE) ELSE a, tid)

\* adptv_htable_foreach: the chains of prev, then those of current.
Foreach(a) == Chained(a.prev) \o Chained(a.cur)
-----------------------------------------------------------------------------
txnt_serialize(a) == [k \in 1..adptv_size(a) |-> [tid |-> Foreach(a)[k], undo |-> txnData[Foreach(a)[k]].undo]]
txnt_deserialize(s) == FoldLeft(LAMBDA a, x : adptv_htable_insert(a, x.tid), adptv_htable_init, s)

Known(tid) == adptv_htable_lookup(att, tid) # {}

\* pgr_begin_txn, whose insertion may find no memory.
txnt_insert_txn(tid) ==
  /\ trole = "pager" /\ ~Known(tid)
  /\ \/ /\ att' = adptv_htable_insert(att, tid) /\ listed' = listed \cup {tid}
        /\ txnData' = [txnData EXCEPT ![tid] = [state |-> "running", undo |-> 0]] /\ UNCHANGED nomem
     \/ /\ Grows(att) /\ nomem > 0 /\ nomem' = nomem - 1
        /\ att' = Triggered(att, 2 * HCap(att.cur), TRUE) /\ UNCHANGED <<txnData, listed>>
  /\ UNCHANGED <<trole, saved, bank, stale>>

\* A logged update of the transaction.
txn_update(tid) ==
  /\ trole = "pager" /\ tid \in listed /\ txnData' = [txnData EXCEPT ![tid].undo = 1]
  /\ UNCHANGED <<att, listed, trole, saved, bank, stale, nomem>>

\* pgr_commit; in the undo pass, the record that began the transaction.
txnt_remove_txn_expect(tid) ==
  /\ trole \in {"pager", "undo"} /\ Known(tid)
  /\ \/ att' = adptv_htable_delete(att, tid) /\ listed' = listed \ {tid} /\ UNCHANGED nomem
     \/ /\ Shrinks(att) /\ nomem > 0 /\ nomem' = nomem - 1
        /\ att' = Triggered(att, HCap(att.cur) \div 2, TRUE) /\ UNCHANGED listed
  /\ stale' = stale \cap listed'
  /\ UNCHANGED <<txnData, trole, saved, bank>>

\* Restart from a checkpoint of this table.
BeginAnalysis ==
  /\ trole = "pager" /\ trole' = "analysis" /\ saved' = txnt_serialize(att)
  /\ att' = adptv_htable_init /\ listed' = {} /\ bank' = [n |-> 0, cap |-> BankCap]
  /\ UNCHANGED <<txnData, stale, nomem>>

\* dblb_append_alloc: the array moves, or not, when it grows.
Grown(b) == IF b.n + 1 >= b.cap THEN [n |-> b.n + 1, cap |-> 2 * (b.n + 1)] ELSE [b EXCEPT !.n = @ + 1]
MayMove(b, nodes) == IF b.n + 1 >= b.cap THEN {{}, nodes} ELSE {{}}

insert_if_not_exists(a, tid) ==
  IF adptv_htable_lookup(a, tid) # {} THEN a ELSE adptv_htable_insert(a, tid)

\* The analysis reads a record of the transaction: a struct for each record,
\* of which the table keeps the first; END takes it out again.
ScanRecord(tid, kind) ==
  /\ trole = "analysis" /\ bank.n < MaxScanned /\ bank' = Grown(bank)
  /\ \E moved \in MayMove(bank, listed) : stale' = (stale \cup moved) \ (IF kind = "end" THEN {tid} ELSE {})
  /\ \E a \in {insert_if_not_exists(att, tid)} :
       att' = IF kind = "end" THEN adptv_htable_delete(a, tid) ELSE a
  /\ txnData' = IF Known(tid) THEN txnData
             ELSE [txnData EXCEPT ![tid] = [state |-> "candidate", undo |-> IF kind = "begin" THEN 0 ELSE 1]]
  /\ listed' = IF kind = "end" THEN listed \ {tid} ELSE listed \cup {tid}
  /\ UNCHANGED <<trole, saved, nomem>>

\* CKPT_END: entries the scan did not meet are copied to the array.
MergeOne(m, x) ==
  IF adptv_htable_lookup(m.a, x.tid) # {} THEN m
  ELSE [a |-> adptv_htable_insert(m.a, x.tid), b |-> Grown(m.b),
        s |-> IF m.b.n + 1 >= m.b.cap THEN ToSet(Foreach(m.a)) ELSE m.s,
        d |-> [m.d EXCEPT ![x.tid] = [state |-> "candidate", undo |-> x.undo]]]
txnt_merge_into ==
  /\ trole = "analysis" /\ saved # << >> /\ saved' = << >>
  /\ \E m \in {FoldLeft(MergeOne, [a |-> att, b |-> bank, s |-> {}, d |-> txnData], saved)} :
       /\ att' = m.a /\ bank' = m.b /\ txnData' = m.d
       /\ \E moved \in {{}, m.s} : stale' = stale \cup moved
  /\ listed' = listed \cup {saved[k].tid : k \in DOMAIN saved}
  /\ UNCHANGED <<trole, nomem>>

\* Transactions with nothing to undo are done, and leave in the order of the array.
Finished == {tid \in listed : txnData[tid].undo = 0}
EndAnalysis ==
  /\ trole = "analysis" /\ trole' = "undo" /\ saved' = << >>
  /\ att' = FoldLeft(adptv_htable_delete, att, SetToSeq(Finished))
  /\ listed' = listed \ Finished /\ stale' = stale \ Finished
  /\ txnData' = [tid \in Tids |-> IF tid \in Finished THEN [txnData[tid] EXCEPT !.state = "done"] ELSE txnData[tid]]
  /\ UNCHANGED <<bank, nomem>>

\* The restart is over: its table and its array are freed, the pager starts empty.
Reopened ==
  /\ trole = "undo" /\ listed = {} /\ trole' = "pager"
  /\ att' = adptv_htable_init /\ bank' = [n |-> 0, cap |-> BankCap]
  /\ UNCHANGED <<txnData, listed, saved, stale, nomem>>

TxnInit ==
  /\ att = adptv_htable_init /\ txnData = [tid \in Tids |-> [state |-> "running", undo |-> 0]]
  /\ listed = {} /\ trole = "pager" /\ saved = << >> /\ bank = [n |-> 0, cap |-> BankCap]
  /\ stale = {} /\ nomem = MaxNoMem

TxnNext ==
  \/ \E tid \in Tids : \/ txnt_insert_txn(tid) \/ txn_update(tid) \/ txnt_remove_txn_expect(tid)
                       \/ \E kind \in {"begin", "other", "end"} : ScanRecord(tid, kind)
  \/ BeginAnalysis \/ txnt_merge_into \/ EndAnalysis \/ Reopened

TxnSpec == TxnInit /\ [][TxnNext]_txnVars
-----------------------------------------------------------------------------
TxnTypeOK ==
  /\ \A h \in {att.cur, att.prev} : \A b \in DOMAIN h : ToSet(h[b]) \subseteq Tids
  /\ att.mig \in 0..HCap(att.prev) /\ HCap(att.cur) \in MinSize..MaxSize
  /\ listed \subseteq Tids /\ stale \subseteq Tids /\ nomem \in 0..MaxNoMem
  /\ txnData \in [Tids -> [state : {"running", "candidate", "done"}, undo : {0, 1}]]

\* However far the nodes have moved between the two tables, in whatever
\* order transactions came and went and allocations failed: each transaction
\* that was put in and not taken out is found, in one chain and once, nothing
\* else is, no bucket below the mark holds a node, the size is the sum of
\* both, and the entries a checkpoint keeps make the same table again.
TxnTableExact ==
  /\ \A tid \in Tids : Known(tid) <=> tid \in listed
  /\ adptv_size(att) = Cardinality(listed)
  /\ \A b \in 0..(att.mig - 1) : att.prev[b] = << >>
  /\ \A tid \in Tids : adptv_htable_lookup(txnt_deserialize(txnt_serialize(att)), tid) # {} <=> tid \in listed

\* The structs of the transactions in the table are where the table says.
NodesLive == stale = {}
=============================================================================
