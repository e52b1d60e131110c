------------------------------ MODULE NsfsApi ------------------------------
(***************************************************************************)
(* The calls of nsfslite as their callers meet them: the lock dblock, the  *)
(* one error n->e that all calls share, the cursors, and the transaction a *)
(* call begins itself or is given.  Every step that may fail does, so that *)
(* each error path is taken; what a call does to pages is a number of      *)
(* logged updates.                                                         *)
(*                                                                         *)
(* The library is built as it is configured, with ENABLE_GLOBAL_DB_LOCK,   *)
(* and opened with a log.  A client does not wait for itself: while it     *)
(* has a transaction it makes no call without one, and it gives up a       *)
(* transaction whose commit has failed.                                    *)
(***************************************************************************)
EXTENDS SequencesExt, FiniteSetsExt, Integers

CONSTANTS Threads,     \* threads that share one nsfslite
          Ops,         \* calls the clients make
          Trouble,     \* what a rollback may meet: "io" fails, "unflushed" records
          NCursors,    \* slots of n->cursors, 512
          MaxCalls,    \* bound: calls of a behaviour
          MaxUpdates   \* bound: updates a transaction makes

NoOne == "no one"
NoTx  == 0

(***************************************************************************)
(* Each call as the steps it takes when all goes well, and those at its    *)
(* label failed; tree: its cursor is on a tree, not on the variables.      *)
(***************************************************************************)
Handler(ok, failed, cursors, tree) == [ok |-> ok, failed |-> failed, cursors |-> cursors, tree |-> tree]

Reading   == <<"start", "open", "work", "cleanup", "free", "unlock", "return">>
Changing  == <<"start", "open", "begin", "work", "commit", "cleanup", "free", "unlock", "return">>
GivenUp   == <<"free", "unlock", "return">>
TakenBack == <<"free", "rollback", "unlock", "return">>

nsfslite_new       == Handler(Changing, GivenUp, 2, FALSE)
nsfslite_get_id    == Handler(Reading, GivenUp, 1, FALSE)
nsfslite_delete    == Handler(Changing, <<"unlock", "free", "return">>, 1, FALSE)
nsfslite_fsize     == Handler(<<"start", "open", "cleanup", "free", "unlock", "return">>, GivenUp, 1, TRUE)
nsfslite_begin_txn == Handler(<<"begin">>, <<"unlock", "return">>, 0, FALSE)
nsfslite_commit    == Handler(<<"commit", "unlock", "return">>, <<"unlock", "return">>, 0, FALSE)
nsfslite_insert    == Handler(Changing, TakenBack, 1, TRUE)
Bug_LeaksCursor    == Handler(Changing, <<"rollback", "unlock", "return">>, 1, TRUE)
nsfslite_write     == Handler(Changing, TakenBack, 1, TRUE)
nsfslite_read      == Handler(Reading, GivenUp, 1, TRUE)
nsfslite_remove    == Handler(Changing, TakenBack, 1, TRUE)

Handlers == [new |-> nsfslite_new, get_id |-> nsfslite_get_id, delete |-> nsfslite_delete,
             fsize |-> nsfslite_fsize, begin_txn |-> nsfslite_begin_txn, commit |-> nsfslite_commit,
             insert |-> nsfslite_insert, write |-> nsfslite_write, read |-> nsfslite_read,
             remove |-> nsfslite_remove]

Edits   == {"insert", "write", "remove"}
Changes == Edits \cup {"new", "delete"}

ASSUME NsfsAssumption == /\ {NCursors, MaxCalls, MaxUpdates} \subseteq Nat
                         /\ Ops \subseteq DOMAIN Handlers
                         /\ Trouble \subseteq {"io", "unflushed"}
                         /\ NoOne \notin Threads

VARIABLES dblock,    \* thread that holds n->dblock
          err,       \* n->e.cause_code is not SUCCESS
          cursors,   \* slots of n->cursors that are occupied
          call,      \* of each thread, the call it is in and what is left of it
          mine,      \* of each thread, the transaction it began
          txns,      \* transactions begun, by id
          pages,     \* updates the pages show, <<transaction, number>>
          alive,     \* the process has not crashed
          ncalls,    \* number of calls made
          acked      \* ghost: own transactions of calls that returned success

nsfsVars == <<dblock, err, cursors, call, mine, txns, pages, alive, ncalls, acked>>

Idle    == [op |-> "none", todo |-> << >>, tx |-> NoTx, own |-> FALSE, need |-> FALSE,
            cur |-> 0, good |-> TRUE]
NewTxn  == [run |-> TRUE, latch |-> "free", made |-> 0, undo |-> << >>]

\* The thread's call is at a step; it goes on, or turns to its error path.
Stands(t, step) == alive /\ call[t].todo # << >> /\ Head(call[t].todo) = step
NextStep(t)     == call' = [call EXCEPT ![t].todo = Tail(@)]
Failing(t)      == call' = [call EXCEPT ![t].todo = Handlers[call[t].op].failed, ![t].good = FALSE]
Txn(t)          == txns[call[t].tx]

(***************************************************************************)
(* A call begins: the lock unless it is given a transaction, then the      *)
(* error is reset and the cursors are taken.  A change that is given a     *)
(* transaction begins and commits none: its steps are those of a reading.  *)
(***************************************************************************)
Bug_BeginsUnlocked(op, tx) == IF op \in {"begin_txn", "commit"} THEN Handlers[op].ok
                              ELSE IF tx # NoTx THEN Reading ELSE <<"lock">> \o Handlers[op].ok
Route(op, tx) == IF op = "commit" THEN Handlers[op].ok
                 ELSE IF tx # NoTx THEN Reading ELSE <<"lock">> \o Handlers[op].ok
CallApi(t, op, tx) ==
  /\ alive /\ call[t] = Idle /\ ncalls < MaxCalls
  /\ tx # NoTx => op \in Changes \cup {"commit"}
  /\ op = "commit" => tx # NoTx
  /\ call' = [call EXCEPT ![t] = [Idle EXCEPT !.op = op, !.tx = tx, !.need = (tx = NoTx),
                                              !.todo = Route(op, tx)]]
  /\ ncalls' = ncalls + 1
  /\ UNCHANGED <<dblock, err, cursors, mine, txns, pages, alive, acked>>

Lock(t) == /\ Stands(t, "lock") /\ dblock = NoOne
           /\ dblock' = t
           /\ NextStep(t)
           /\ UNCHANGED <<err, cursors, mine, txns, pages, alive, ncalls, acked>>

Start(t) ==
  /\ Stands(t, "start")
  /\ LET wanted == Handlers[call[t].op].cursors
         got    == Min({wanted, NCursors - cursors})
     IN  /\ cursors' = cursors + got
         /\ err' = (got < wanted)
         /\ call' = [call EXCEPT ![t].cur = got, ![t].good = ~err',
                                 ![t].todo = IF err' THEN Handlers[call[t].op].failed ELSE Tail(@)]
  /\ UNCHANGED <<dblock, mine, txns, pages, alive, ncalls, acked>>

\* rptc_open reads pages, varc_initialize does not.
Open(t) ==
  /\ Stands(t, "open")
  /\ \/ NextStep(t) /\ UNCHANGED err
     \/ Handlers[call[t].op].tree /\ Failing(t) /\ err' = TRUE
  /\ UNCHANGED <<dblock, cursors, mine, txns, pages, alive, ncalls, acked>>

(***************************************************************************)
(* pgr_begin_txn, for a call of its own or for the client.  Like every     *)
(* append to the log it fails when the error it is handed is set.          *)
(***************************************************************************)
pgr_begin_txn(t) ==
  /\ Stands(t, "begin")
  /\ \/ /\ ~err
        /\ txns' = Append(txns, NewTxn)
        /\ IF call[t].op = "begin_txn"
           THEN call' = [call EXCEPT ![t] = Idle] /\ mine' = [mine EXCEPT ![t] = Len(txns')]
           ELSE /\ call' = [call EXCEPT ![t].tx = Len(txns'), ![t].own = TRUE, ![t].todo = Tail(@)]
                /\ UNCHANGED mine
        /\ UNCHANGED err
     \/ Failing(t) /\ err' = TRUE /\ UNCHANGED <<mine, txns>>
  /\ UNCHANGED <<dblock, cursors, pages, alive, ncalls, acked>>

(***************************************************************************)
(* The work: a change is any number of updates (pgr_save), each under the  *)
(* latch of the transaction; any of them, or a read, may fail.             *)
(***************************************************************************)
Update(t) ==
  /\ Stands(t, "work") /\ call[t].op \in Changes
  /\ Txn(t).latch = "free" /\ Txn(t).made < MaxUpdates
  /\ ~err
  /\ LET n == Txn(t).made + 1
     IN  /\ txns' = [txns EXCEPT ![call[t].tx].made = n, ![call[t].tx].undo = Append(@, n)]
         /\ pages' = pages \cup {<<call[t].tx, n>>}
  /\ UNCHANGED <<dblock, err, cursors, call, mine, alive, ncalls, acked>>

WorkFails(t) == /\ Stands(t, "work")
                /\ Failing(t) /\ err' = TRUE
                /\ UNCHANGED <<dblock, cursors, mine, txns, pages, alive, ncalls, acked>>

WorkDone(t) == /\ Stands(t, "work")
               /\ NextStep(t)
               /\ UNCHANGED <<dblock, err, cursors, mine, txns, pages, alive, ncalls, acked>>

(***************************************************************************)
(* pgr_commit.  A record that is not appended leaves the latch free, a     *)
(* failed flush or a failed removal from the table leaves it held.         *)
(***************************************************************************)
Committed(t, fails) ==
  /\ IF fails THEN Failing(t) ELSE NextStep(t)
  /\ mine' = IF call[t].op = "commit" THEN [mine EXCEPT ![t] = NoTx] ELSE mine

pgr_commit(t) ==
  /\ Stands(t, "commit") /\ Txn(t).latch = "free"
  /\ \/ /\ ~err
        /\ txns' = [txns EXCEPT ![call[t].tx].run = FALSE]
        /\ Committed(t, FALSE) /\ UNCHANGED err
     \/ /\ UNCHANGED txns
        /\ Committed(t, TRUE) /\ err' = TRUE
     \/ /\ ~err
        /\ txns' = [txns EXCEPT ![call[t].tx].latch = "s"]
        /\ Committed(t, TRUE) /\ err' = TRUE
  /\ UNCHANGED <<dblock, cursors, pages, alive, ncalls, acked>>

\* rptc_cleanup returns the error it is handed, varc_cleanup does not.
Cleanup(t) ==
  /\ Stands(t, "cleanup")
  /\ IF err /\ Handlers[call[t].op].tree THEN Failing(t) ELSE NextStep(t)
  /\ UNCHANGED <<dblock, err, cursors, mine, txns, pages, alive, ncalls, acked>>

(***************************************************************************)
(* The end of a call.  A failed edit rolls its transaction back after it   *)
(* gave its cursor back; a failed delete gives it back after the lock.     *)
(***************************************************************************)
Free(t) ==
  /\ Stands(t, "free")
  /\ cursors' = cursors - call[t].cur
  /\ call' = [call EXCEPT ![t].cur = 0, ![t].todo = Tail(@),
                          ![t].good = @ /\ (call[t].op = "new" => ~err)]
  /\ UNCHANGED <<dblock, err, mine, txns, pages, alive, ncalls, acked>>

(***************************************************************************)
(* pgr_rollback to save point 0, one record a step.  It reads the file:    *)
(* what is still in the buffer of the log is the end of it.                *)
(***************************************************************************)
RollbackNothing(t) == /\ Stands(t, "rollback") /\ call[t].tx = NoTx
                      /\ alive' = FALSE
                      /\ UNCHANGED <<dblock, err, cursors, call, mine, txns, pages, ncalls, acked>>

RollbackRecord(t) ==
  /\ Stands(t, "rollback") /\ call[t].tx # NoTx
  /\ Txn(t).latch = "free" /\ Txn(t).undo # << >>
  /\ ~err
  /\ pages' = pages \ {<<call[t].tx, Last(Txn(t).undo)>>}
  /\ txns' = [txns EXCEPT ![call[t].tx].undo = Front(@)]
  /\ UNCHANGED <<dblock, err, cursors, call, mine, alive, ncalls, acked>>

\* The record is not read, or its page is restored and the append for it fails,
\* which it does whenever the error of the call is still set.
RollbackFails(t) ==
  /\ Stands(t, "rollback") /\ call[t].tx # NoTx
  /\ Txn(t).latch = "free" /\ Txn(t).undo # << >>
  /\ \/ (err \/ "io" \in Trouble) /\ pages' = pages \ {<<call[t].tx, Last(Txn(t).undo)>>}
     \/ "io" \in Trouble /\ UNCHANGED pages
  /\ txns' = [txns EXCEPT ![call[t].tx].latch = "x"]
  /\ err' = TRUE /\ NextStep(t)
  /\ UNCHANGED <<dblock, cursors, mine, alive, ncalls, acked>>

\* The chain is at its end, or what is next is not in the file yet.
RollbackEnds(t) ==
  /\ Stands(t, "rollback") /\ call[t].tx # NoTx
  /\ Txn(t).latch = "free"
  /\ Txn(t).undo = << >> \/ "unflushed" \in Trouble
  /\ NextStep(t)
  /\ UNCHANGED <<dblock, err, cursors, mine, txns, pages, alive, ncalls, acked>>

Unlock(t) ==
  /\ Stands(t, "unlock")
  /\ dblock' = IF call[t].need \/ call[t].op = "commit" THEN NoOne ELSE dblock
  /\ NextStep(t)
  /\ UNCHANGED <<err, cursors, mine, txns, pages, alive, ncalls, acked>>

\* What a failed call returns is read from n->e only here.
Return(t) ==
  /\ Stands(t, "return")
  /\ acked' = IF call[t].good /\ call[t].own THEN acked \cup {call[t].tx} ELSE acked
  /\ call' = [call EXCEPT ![t] = Idle]
  /\ UNCHANGED <<dblock, err, cursors, mine, txns, pages, alive, ncalls>>

nsfslite_reset_errors(t) ==
  /\ alive /\ call[t] = Idle /\ err
  /\ err' = FALSE
  /\ UNCHANGED <<dblock, cursors, call, mine, txns, pages, alive, ncalls, acked>>

NsfsInit == /\ dblock = NoOne /\ err = FALSE /\ cursors = 0 /\ alive = TRUE /\ ncalls = 0
            /\ call = [t \in Threads |-> Idle] /\ mine = [t \in Threads |-> NoTx]
            /\ txns = << >> /\ pages = {} /\ acked = {}
NsfsNext ==
  \E t \in Threads :
    \/ \E op \in Ops : CallApi(t, op, mine[t])
    \/ Lock(t) \/ Start(t) \/ Open(t) \/ pgr_begin_txn(t)
    \/ Update(t) \/ WorkFails(t) \/ WorkDone(t)
    \/ pgr_commit(t) \/ Cleanup(t) \/ Free(t)
    \/ RollbackNothing(t) \/ RollbackRecord(t) \/ RollbackFails(t) \/ RollbackEnds(t)
    \/ Unlock(t) \/ Return(t) \/ nsfslite_reset_errors(t)
NsfsSpec == NsfsInit /\ [][NsfsNext]_nsfsVars

\* The variables have their types.
NsfsTypeOK == /\ dblock \in Threads \cup {NoOne} /\ {err, alive} \subseteq BOOLEAN
              /\ cursors \in 0..NCursors
              /\ \A t \in Threads : mine[t] \in 0..Len(txns) /\ call[t].tx \in 0..Len(txns)
              /\ pages \subseteq (1..Len(txns)) \X (1..MaxUpdates) /\ acked \subseteq 1..Len(txns)

\* When no call is under way every cursor is free, whichever error paths the calls
\* took (the labels failed and theend of nsfslite.c).
CursorsReturned == alive /\ (\A t \in Threads : call[t] = Idle) => cursors = 0

\* No call rolls back a transaction that has ended: the error that rptc_cleanup
\* returns after the commit was not set by another call (nsfslite.c:646-660).
EndedNotUndone == \A t \in Threads : Stands(t, "rollback") /\ call[t].tx # NoTx => Txn(t).run

\* A call that succeeded without a transaction of the client has ended its own, and
\* all it did stays in the pages.
Shown(x) == \A n \in 1..txns[x].made : <<x, n>> \in pages
SuccessStays == \A x \in acked : ~txns[x].run /\ Shown(x)

\* Both: what has ended well is not touched again by the error path of any call.
EndedStays == EndedNotUndone /\ SuccessStays

\* A failed edit has undone its transaction when it gives up the lock
\* (WHILE SaveSN < UndoNxt DO, pager.c:1655).
FailedEditUndone == \A t \in Threads :
  Stands(t, "unlock") /\ call[t].op \in Edits /\ ~call[t].good => \A u \in pages : u[1] # call[t].tx
=============================================================================
