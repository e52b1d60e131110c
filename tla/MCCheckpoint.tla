---------------------------- MODULE MCCheckpoint ----------------------------
(***************************************************************************)
(* Aries with pgr_checkpoint for TLC: everything on logs of MaxLog - 2     *)
(* records, and on longer ones only the restarts that have a transaction   *)
(* to take back, which may have rolled back to a savepoint before the      *)
(* checkpoint.  The restart itself may die in its undo and is begun anew.  *)
(***************************************************************************)
EXTENDS Aries

\* Records of this behaviour, and transactions of its checkpoints.
NewLsns   == Len(InitLog)..(NextLsn - 1)
OfCkpt(t) == \/ ckpt.tid = t
             \/ \E l \in NewLsns : Rec(l).type = "update" /\ Rec(l).tid = t /\ Rec(l).pg = Root

\* A client did something, or a checkpoint began, on a log already that long.
StartedLate ==
  \E l \in (MaxLog - 2)..(NextLsn - 1) :
     \/ Rec(l).type = "ckpt_begin"
     \/ Rec(l).type \in {"begin", "update"} /\ ~OfCkpt(Rec(l).tid)

\* One client transaction, which did not commit, and no data page was evicted.
Clients  == {Rec(l).tid : l \in {k \in NewLsns : Rec(k).type = "begin" /\ ~OfCkpt(Rec(k).tid)}}
OneLoser == /\ Cardinality(Clients) = 1
            /\ \A l \in NewLsns : Rec(l).type = "commit" => Rec(l).tid \notin Clients
            /\ \A p \in Pages \ {Root} : disk[p] = InitDisk[p]

\* The second crash hits the undo of a transaction, of which a CLR is in the
\* log, or whose undo_next_lsn an older CLR has moved.
AgainInUndo ==
  crashes = 1 /\ crashes' = 2 =>
    /\ phase = "undo"
    /\ \E t \in Losers : ctx.att[t].undoNext # AttOf(ctx.master)[t].undoNext

\* After it only the restart is explored.
Explored == /\ StartedLate => OneLoser
            /\ crashes = 2 => phase # "up"
=============================================================================
