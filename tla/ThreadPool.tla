------------------------------ MODULE ThreadPool ------------------------------
(***************************************************************************)
(* The thread pool (libs/nscore/threadpool.c): a ring of tasks and three   *)
(* counts under one mutex, a condition work_ready on which idle workers    *)
(* AND producers that found the ring full wait, and a condition            *)
(* none_working on which the owner waits for its workers to exit.  What a  *)
(* thread does between taking the mutex and giving it up, or waiting, is   *)
(* one step; threads other than the owner only add tasks.                  *)
(***************************************************************************)
EXTENDS Integers, Sequences, FiniteSets

CONSTANTS Workers,      \* threads the pool can create
          Producers,    \* threads that call tp_add_task
          Size,         \* WORK_QUEUE_SIZE
          MaxAdds,      \* tasks a producer adds
          MaxSpins,     \* calls of tp_spin
          CreateCanFail \* whether i_thread_create may fail

ASSUME WorkersAssumption   == IsFiniteSet(Workers) /\ Workers # {}
ASSUME ProducersAssumption == IsFiniteSet(Producers) /\ Producers \cap Workers = {}
ASSUME SizeAssumption      == Size \in Nat \ {0}
ASSUME PoolBoundsAssumption == MaxAdds \in Nat /\ MaxSpins \in Nat
ASSUME FailAssumption      == CreateCanFail \in BOOLEAN

Tasks == Producers \X (1..MaxAdds)

VARIABLES slots,     \* w->work_queue
          head,      \* w->head, the index the next task is written to
          tail,      \* w->tail, the index the next task is read from
          count,     \* w->count
          nworking,  \* w->nworking
          nthreads,  \* w->nthreads
          stopped,   \* w->stopped
          waiting,   \* threads waiting for work_ready
          ownerWaits,\* the owner waits for none_working
          worker,    \* thread -> "none", "wants" the mutex, "runs", "done" or "dead"
          task,      \* thread -> the task it took last
          adds,      \* producer -> tasks it has asked the pool to take
          producer,  \* producer -> "out" or "adds"
          owner,     \* "idle", "creates", "fails", "stops" or "freed"
          spins,     \* calls of tp_spin so far
          added,     \* every task put in the ring, in order
          started,   \* every task taken out of it, in order
          finished,  \* tasks whose function has returned
          accepted   \* tasks in the ring or out of it when tp_stop was called

ring  == <<slots, head, tail, count>>
pool  == <<nworking, nthreads, stopped>>
history == <<added, started, finished, accepted>>
poolVars  == <<ring, pool, waiting, ownerWaits, worker, task, adds, producer, owner,
           spins, history>>

PoolInit ==
  /\ slots = [i \in 0..Size - 1 |-> <<>>]
  /\ head = 0 /\ tail = 0 /\ count = 0
  /\ nworking = 0 /\ nthreads = 0 /\ stopped = TRUE
  /\ waiting = {} /\ ownerWaits = FALSE
  /\ worker = [t \in Workers |-> "none"]
  /\ task = [t \in Workers |-> <<>>]
  /\ adds = [p \in Producers |-> 0]
  /\ producer = [p \in Producers |-> "out"]
  /\ owner = "idle" /\ spins = 0
  /\ added = <<>> /\ started = <<>> /\ finished = {} /\ accepted = {}

Bug_NoWrap(i) == i + 1
NextIndex(i)  == (i + 1) % Size

Full == count >= Size

\* Threads that still wait for work_ready after a broadcast, where the code has
\* one: when a task is added, when one is taken, when the pool is stopped.
Bug_AddIsSilent  == waiting
AfterAdd         == {}
AfterTake        == {}
Bug_StopIsSilent == waiting
AfterStop        == {}

-----------------------------------------------------------------------------
(* tp_add_task *)

AddCall(p) ==
  /\ owner # "freed"
  /\ producer[p] = "out"
  /\ adds[p] < MaxAdds
  /\ adds' = [adds EXCEPT ![p] = @ + 1]
  /\ producer' = [producer EXCEPT ![p] = "adds"]
  /\ UNCHANGED <<ring, pool, waiting, ownerWaits, worker, task, owner, spins, history>>

AddWaits(p) ==
  /\ producer[p] = "adds" /\ p \notin waiting
  /\ Full
  /\ waiting' = waiting \cup {p}
  /\ UNCHANGED <<ring, pool, ownerWaits, worker, task, adds, producer, owner, spins,
                 history>>

AddPuts(p) ==
  /\ producer[p] = "adds" /\ p \notin waiting
  /\ ~Full
  /\ slots' = [slots EXCEPT ![head] = <<p, adds[p]>>]
  /\ head' = NextIndex(head)
  /\ count' = count + 1
  /\ added' = Append(added, <<p, adds[p]>>)
  /\ waiting' = AfterAdd
  /\ producer' = [producer EXCEPT ![p] = "out"]
  /\ UNCHANGED <<tail, pool, ownerWaits, worker, task, adds, owner, spins, started,
                 finished, accepted>>

-----------------------------------------------------------------------------
(* worker_thread *)

Bug_StopIsEnough == stopped
MayExit          == stopped /\ count = 0

WorkerWaits(t) ==
  /\ worker[t] = "wants" /\ t \notin waiting
  /\ count = 0 /\ ~stopped
  /\ waiting' = waiting \cup {t}
  /\ UNCHANGED <<ring, pool, ownerWaits, worker, task, adds, producer, owner, spins,
                 history>>

\* Whether the owner still waits after the i_cond_signal of a worker that exits.
Bug_ExitIsSilent == ownerWaits
AfterExit        == FALSE

WorkerExits(t) ==
  /\ worker[t] = "wants" /\ t \notin waiting
  /\ MayExit
  /\ nthreads' = nthreads - 1
  /\ ownerWaits' = AfterExit
  /\ worker' = [worker EXCEPT ![t] = "dead"]
  /\ UNCHANGED <<ring, nworking, stopped, waiting, task, adds, producer, owner, spins,
                 history>>

WorkerTakes(t) ==
  /\ worker[t] = "wants" /\ t \notin waiting
  /\ ~MayExit /\ count > 0
  /\ task' = [task EXCEPT ![t] = slots[tail]]
  /\ tail' = NextIndex(tail)
  /\ count' = count - 1
  /\ nworking' = nworking + 1
  /\ waiting' = AfterTake
  /\ started' = Append(started, slots[tail])
  /\ worker' = [worker EXCEPT ![t] = "runs"]
  /\ UNCHANGED <<slots, head, nthreads, stopped, ownerWaits, adds, producer, owner,
                 spins, added, finished, accepted>>

\* closure_execute, outside the mutex.
WorkerRuns(t) ==
  /\ worker[t] = "runs"
  /\ finished' = finished \cup {task[t]}
  /\ worker' = [worker EXCEPT ![t] = "done"]
  /\ UNCHANGED <<ring, pool, waiting, ownerWaits, task, adds, producer, owner, spins,
                 added, started, accepted>>

WorkerDone(t) ==
  /\ worker[t] = "done"
  /\ nworking' = nworking - 1
  /\ ownerWaits' = IF ~stopped /\ nworking' = 0 /\ count = 0 THEN FALSE ELSE ownerWaits
  /\ worker' = [worker EXCEPT ![t] = "wants"]
  /\ UNCHANGED <<ring, nthreads, stopped, waiting, task, adds, producer, owner, spins,
                 history>>

-----------------------------------------------------------------------------
(* The owner: tp_spin, tp_stop, tp_free.  tp_execute_until_done is tp_spin   *)
(* and then tp_stop.                                                         *)

Spin(n) ==
  /\ owner = "idle"
  /\ spins < MaxSpins
  /\ nthreads = 0
  /\ stopped' = FALSE
  /\ nthreads' = n
  /\ worker' = [t \in Workers |-> "none"]
  /\ owner' = "creates"
  /\ spins' = spins + 1
  /\ UNCHANGED <<ring, nworking, waiting, ownerWaits, task, adds, producer, history>>

Created == {t \in Workers : worker[t] # "none"}

\* i_thread_create; nthreads already counts the threads that are to come, and
\* those that came may have run.
Create(t) ==
  /\ owner = "creates"
  /\ worker[t] = "none"
  /\ worker' = [worker EXCEPT ![t] = "wants"]
  /\ owner' = IF Cardinality(Created) + 1 = nthreads
              THEN "idle" ELSE "creates"
  /\ UNCHANGED <<ring, pool, waiting, ownerWaits, task, adds, producer, spins, history>>

CreateFails ==
  /\ CreateCanFail
  /\ owner = "creates"
  /\ stopped' = TRUE
  /\ waiting' = AfterStop
  /\ owner' = "fails"
  /\ UNCHANGED <<ring, nworking, nthreads, ownerWaits, worker, task, adds, producer,
                 spins, history>>

Stop ==
  /\ owner = "idle"
  /\ nthreads > 0
  /\ stopped' = TRUE
  /\ waiting' = AfterStop
  /\ accepted' = {added[i] : i \in DOMAIN added}
  /\ owner' = "stops"
  /\ UNCHANGED <<ring, nworking, nthreads, ownerWaits, worker, task, adds, producer,
                 spins, added, started, finished>>

\* while (nthreads > 0) wait (none_working), in tp_stop and in a failing tp_spin.
OwnerWaits ==
  /\ owner \in {"fails", "stops"} /\ ~ownerWaits
  /\ nthreads > 0
  /\ ownerWaits' = TRUE
  /\ UNCHANGED <<ring, pool, waiting, worker, task, adds, producer, owner, spins, history>>

OwnerReturns ==
  /\ owner \in {"fails", "stops"} /\ ~ownerWaits
  /\ nthreads = 0
  /\ owner' = "idle"
  /\ UNCHANGED <<ring, pool, waiting, ownerWaits, worker, task, adds, producer, spins,
                 history>>

\* tp_free, which asserts stopped, drops what is in the ring; nobody is to be in
\* a call then.
Free ==
  /\ owner = "idle" /\ stopped /\ nthreads = 0
  /\ \A p \in Producers : producer[p] = "out"
  /\ head' = 0 /\ tail' = 0 /\ count' = 0
  /\ waiting' = AfterStop
  /\ owner' = "freed"
  /\ UNCHANGED <<slots, pool, ownerWaits, worker, task, adds, producer, spins, history>>

\* A condition may wake a waiter that nobody signalled.
Spurious ==
  \/ /\ \E t \in waiting : waiting' = waiting \ {t}
     /\ UNCHANGED <<ring, pool, ownerWaits, worker, task, adds, producer, owner, spins,
                    history>>
  \/ /\ ownerWaits /\ ownerWaits' = FALSE
     /\ UNCHANGED <<ring, pool, waiting, worker, task, adds, producer, owner, spins, history>>

-----------------------------------------------------------------------------
ProducerStep(p) == AddWaits(p) \/ AddPuts(p)
WorkerStep(t)   == \/ WorkerWaits(t) \/ WorkerExits(t) \/ WorkerTakes(t)
                   \/ WorkerRuns(t) \/ WorkerDone(t)
OwnerStep       == (\E t \in Workers : Create(t)) \/ OwnerWaits \/ OwnerReturns

PoolNext == \/ \E p \in Producers : AddCall(p) \/ ProducerStep(p)
            \/ \E t \in Workers : WorkerStep(t)
            \/ \E n \in 1..Cardinality(Workers) : Spin(n)
            \/ CreateFails \/ Stop \/ OwnerStep \/ Free \/ Spurious

PoolSpec == PoolInit /\ [][PoolNext]_poolVars

\* Every thread inside a call goes on: it gets the mutex some time, and the
\* functions it is given return.
PoolFairness == /\ \A p \in Producers : WF_poolVars(ProducerStep(p))
                /\ \A t \in Workers : WF_poolVars(WorkerStep(t))
                /\ WF_poolVars(OwnerStep)

PoolFairSpec == PoolSpec /\ PoolFairness

-----------------------------------------------------------------------------
PoolTypeOK ==
  /\ slots \in [0..Size - 1 -> Tasks \cup {<<>>}]
  /\ head \in 0..Size - 1 /\ tail \in 0..Size - 1 /\ count \in 0..Size
  /\ nworking \in 0..Cardinality(Workers) /\ nthreads \in 0..Cardinality(Workers)
  /\ stopped \in BOOLEAN /\ ownerWaits \in BOOLEAN
  /\ waiting \subseteq Workers \cup Producers
  /\ worker \in [Workers -> {"none", "wants", "runs", "done", "dead"}]
  /\ task \in [Workers -> Tasks \cup {<<>>}]
  /\ adds \in [Producers -> 0..MaxAdds]
  /\ producer \in [Producers -> {"out", "adds"}]
  /\ owner \in {"idle", "creates", "fails", "stops", "freed"}
  /\ spins \in 0..MaxSpins
  /\ finished \subseteq Tasks /\ accepted \subseteq Tasks

Queued == [i \in 1..count |-> slots[(tail + i - 1) % Size]]

\* Tasks are started in the order in which they were added, each once, and none
\* is overwritten in the ring, up to the stop; and when tp_stop has returned,
\* every task that was added before it was called has run, although the workers
\* leave as soon as they see the pool stopped (threadpool_tests.c asserts the
\* results right after tp_stop).
StopDrains ==
  /\ owner # "freed" => added = started \o Queued
  /\ owner \in {"idle", "freed"} => accepted \subseteq finished

\* A task that is in the ring of a pool with workers is run.
QueuedTaskRuns ==
  \A k \in Tasks : (k \in {Queued[i] : i \in 1..count} /\ nthreads > 0) ~> (k \in finished)

\* tp_stop returns.
StopReturns == (owner = "stops") ~> (owner = "idle")
===============================================================================
