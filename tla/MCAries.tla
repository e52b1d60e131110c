------------------------------ MODULE MCAries ------------------------------
(***************************************************************************)
(* Instances of Aries for TLC.  A question is split in scenes, fixed by    *)
(* the initial state, each of which leaves out actions the others explore, *)
(* so that TLC gets to the depth each of them needs.                       *)
(***************************************************************************)
EXTENDS Aries

VARIABLE scene   \* which part of the behaviours is explored

sceneVars == <<vars, scene>>

InScenes(scenes) == Init /\ scene \in scenes
Scene(s)         == scene = s /\ UNCHANGED scene

\* Two records less room in the log, for the scenes with more actions.
ClientWrote == /\ phase = "up" /\ Len(log') > Len(log)
               /\ log'[Len(log')].type \in {"begin", "update"}
Shorter     == ClientWrote => Len(log) < MaxLog - 2

\* Without checkpoints.
\* "crashes": crashes at any time, and one client transaction besides those of
\* the restarts.
\* "writers": one run of the program and nothing evicted, but two transactions
\* whose records interleave, one of which rolls back.
\* "savepoints": one run and one transaction, with room to go on and to roll
\* back again after a rollback.
CrashNext      == Scene("crashes") /\ Next /\ Shorter /\ nextTid' <= MaxTid
WritersNext    == Scene("writers") /\ (Flush \/ Restart \/ \E t \in Tids : Transaction(t)) /\ Shorter
SavepointsNext == Scene("savepoints") /\ (Flush \/ Restart \/ Transaction(3))

RecoverySpec == /\ InScenes({"crashes", "writers", "savepoints"})
                /\ [][CrashNext \/ WritersNext \/ SavepointsNext]_sceneVars

\* No rollback, no eviction: a checkpoint that meets a transaction which commits.
CommitNext == \/ \E t \in Tids : \/ Begin(t)
                                 \/ \E p \in Pages, v \in Vals : Update(t, p, v)
                                 \/ CommitLog(t) \/ CommitFlush(t) \/ CommitEnd(t) \/ CommitDone(t)
              \/ Crash \/ Restart \/ Checkpoint
CommitSpec == InScenes({"commits"}) /\ [][Scene("commits") /\ CommitNext]_sceneVars
=============================================================================
