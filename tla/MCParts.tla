------------------------------ MODULE MCParts ------------------------------
(***************************************************************************)
(* Components that share no state, checked in one run: the synchronisation *)
(* primitives, the log stream and the buffer pool.  A behaviour picks one  *)
(* of them and leaves the others in their initial states.                  *)
(***************************************************************************)
EXTENDS MCSync, MCWalStream, BufferPool

CONSTANT MaxPageCalls   \* calls of the pager in a behaviour

VARIABLE pageCalls

streamVars == <<vars, scene>>
pagerVars == <<bufVars, pageCalls>>

PartsInit ==
  /\ LatchInit /\ LockInit /\ PoolInit /\ SceneInit /\ BufInit /\ pageCalls = 0
  /\ part \in {"latch", "lock", "pool", "stream", "pages"}
  /\ part # "stream" => scene = "threads"

SyncPart == SyncNext /\ UNCHANGED <<streamVars, pagerVars>>

StreamPart ==
  /\ part = "stream" /\ (ThreadsNext \/ AloneNext \/ ReadsNext)
  /\ UNCHANGED <<syncVars, pagerVars>>

PagesPart ==
  /\ part = "pages" /\ pageCalls < MaxPageCalls /\ pageCalls' = pageCalls + 1 /\ BufNext
  /\ UNCHANGED <<syncVars, streamVars>>

PartsSpec ==
  PartsInit /\ [][SyncPart \/ StreamPart \/ PagesPart]_<<syncVars, streamVars, pagerVars>>

\* The variables of every part have their types.
PartsTypeOK == LatchTypeOK /\ LockTypeOK /\ PoolTypeOK /\ TypeOK /\ BufTypeOK
=============================================================================
