------------------------------- MODULE MCSync -------------------------------
(***************************************************************************)
(* The synchronisation primitives of nscore for TLC: the latch, the        *)
(* granular lock and the thread pool.  They share no state, so a behaviour *)
(* picks one of them and leaves the others in their initial states: their  *)
(* state spaces add up instead of multiplying.                             *)
(***************************************************************************)
EXTENDS SpxLatch, GrLock, ThreadPool, TLC

VARIABLE part   \* the primitive this behaviour is about

syncVars == <<latchVars, lockVars, poolVars, part>>

SyncInit == LatchInit /\ LockInit /\ PoolInit /\ part \in {"latch", "lock", "pool"}

LatchPart == part = "latch" /\ LatchNext /\ UNCHANGED <<lockVars, poolVars, part>>
LockPart  == part = "lock" /\ LockNext /\ UNCHANGED <<latchVars, poolVars, part>>
PoolPart  == part = "pool" /\ PoolNext /\ UNCHANGED <<latchVars, lockVars, part>>

\* A latch whose callers all give it back is never stuck for good; calls of the
\* lock and tasks of the pool run out.
SyncNext == LatchPart \/ LockPart \/ PoolPart

SyncSpec == SyncInit /\ [][SyncNext]_syncVars

SyncFairSpec == /\ SyncSpec
                /\ \A t \in Latchers : LatchFair(t)
                /\ LockFairness
                /\ PoolFairness
=============================================================================
