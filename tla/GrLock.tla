-------------------------------- MODULE GrLock --------------------------------
(***************************************************************************)
(* The granular lock (libs/nscore/gr_lock.c): five modes, a mutex, a count *)
(* of holders for every mode and a list of waiters, each with a condition  *)
(* variable of its own.  All that a call does between two points where it  *)
(* has the mutex is one step; waiting for a condition gives the mutex up.  *)
(***************************************************************************)
EXTENDS Integers, FiniteSets

CONSTANTS Lockers,    \* threads that use the lock
          MaxCalls    \* calls of gr_lock or gr_trylock a thread makes

ASSUME LockersAssumption == IsFiniteSet(Lockers)
ASSUME CallsAssumption   == MaxCalls \in Nat

Modes == {"IS", "IX", "S", "SIX", "X"}

\* compatible[mode], the modes that others may hold at the same time.
Bug_SharesIntent == [IS |-> {"IS", "IX", "S", "SIX"}, IX |-> {"IS", "IX", "S"},
                     S |-> {"IS", "IX", "S"}, SIX |-> {"IS"}, X |-> {}]
CompatibleWith   == [IS |-> {"IS", "IX", "S", "SIX"}, IX |-> {"IS", "IX"},
                     S |-> {"IS", "S"}, SIX |-> {"IS"}, X |-> {}]

VARIABLES holders,   \* l->holder_counts
          waiters,   \* threads whose gr_lock_waiter is in l->waiters
          signalled, \* waiters whose condition was signalled
          held,      \* thread -> the mode it holds, or asks for in waiters
          place,     \* thread -> "out", "wants", "waits" or "holds"
          calls      \* thread -> calls it may still make

lockVars == <<holders, waiters, signalled, held, place, calls>>

IsCompatible(m) == \A i \in Modes : holders[i] > 0 => i \in CompatibleWith[m]

LockInit == /\ holders = [m \in Modes |-> 0]
            /\ waiters = {}
            /\ signalled = {}
            /\ held = [t \in Lockers |-> "IS"]
            /\ place = [t \in Lockers |-> "out"]
            /\ calls = [t \in Lockers |-> MaxCalls]

-----------------------------------------------------------------------------
\* gr_lock is called and has not got the mutex yet.
LockCall(t, m) ==
  /\ place[t] = "out"
  /\ calls[t] > 0
  /\ calls' = [calls EXCEPT ![t] = @ - 1]
  /\ held' = [held EXCEPT ![t] = m]
  /\ place' = [place EXCEPT ![t] = "wants"]
  /\ UNCHANGED <<holders, waiters, signalled>>

\* What is left of the list when the waiter of t is taken out: it is a variable
\* of the caller, and gone when gr_lock returns.
Bug_StaysInList(t) == waiters
Unlinked(t)        == waiters \ {t}

\* holder_counts[mode]++, by a thread that is not in the list (any more).
Grant(t) ==
  /\ IsCompatible(held[t])
  /\ holders' = [holders EXCEPT ![held[t]] = @ + 1]
  /\ place' = [place EXCEPT ![t] = "holds"]
  /\ waiters' = Unlinked(t)

\* i_cond_create, the insertion in the list and i_cond_wait.
Wait(t) ==
  /\ ~IsCompatible(held[t])
  /\ place' = [place EXCEPT ![t] = "waits"]
  /\ waiters' = waiters \cup {t}
  /\ UNCHANGED holders

\* i_cond_create fails and so does gr_lock.
NoCond(t) ==
  /\ ~IsCompatible(held[t])
  /\ place' = [place EXCEPT ![t] = "out"]
  /\ waiters' = Unlinked(t)
  /\ UNCHANGED holders

Lock(t) ==
  /\ place[t] = "wants"
  /\ Grant(t) \/ Wait(t) \/ NoCond(t)
  /\ UNCHANGED <<signalled, held, calls>>

\* i_cond_wait returns, signalled or not, with the mutex; the waiter leaves the
\* list and looks again.
Wake(t) ==
  /\ place[t] = "waits"
  /\ Grant(t) \/ Wait(t) \/ NoCond(t)
  /\ signalled' = signalled \ {t}
  /\ UNCHANGED <<held, calls>>

\* gr_trylock: a mutex that is taken, or an incompatible holder, is FALSE.
TryLock(t, m) ==
  /\ place[t] = "out"
  /\ calls[t] > 0
  /\ calls' = [calls EXCEPT ![t] = @ - 1]
  /\ \/ /\ IsCompatible(m)
        /\ holders' = [holders EXCEPT ![m] = @ + 1]
        /\ held' = [held EXCEPT ![t] = m]
        /\ place' = [place EXCEPT ![t] = "holds"]
     \/ UNCHANGED <<holders, held, place>>
  /\ UNCHANGED <<waiters, signalled>>

\* wake_waiters with the counts h: all whose mode is compatible.
Bug_CountsZero(h)   == {t \in waiters : \A i \in Modes : h[i] >= 0 => i \in CompatibleWith[held[t]]}
Bug_WakeWhenFree(h) == {t \in waiters : \A i \in Modes : h[i] = 0}
ToWake(h) == {t \in waiters : \A i \in Modes : h[i] > 0 => i \in CompatibleWith[held[t]]}

\* The mode a holder gives to gr_unlock.
UnlockedMode(t)  == held[t]

\* gr_unlock; a mode that nobody holds is left alone.
Unlock(t) ==
  /\ place[t] = "holds"
  /\ LET m == UnlockedMode(t)
         h == [holders EXCEPT ![m] = @ - 1]
     IN IF holders[m] > 0 THEN holders' = h /\ signalled' = signalled \cup ToWake(h)
                          ELSE UNCHANGED <<holders, signalled>>
  /\ place' = [place EXCEPT ![t] = "out"]
  /\ UNCHANGED <<waiters, held, calls>>

LockNext == \E t \in Lockers : \/ \E m \in Modes : LockCall(t, m) \/ TryLock(t, m)
                               \/ Lock(t) \/ Wake(t) \/ Unlock(t)

LockSpec == LockInit /\ [][LockNext]_lockVars

\* A thread gets the mutex in the end, a signalled waiter wakes up, and a holder
\* unlocks.  Nothing is assumed of wake-ups without a signal.
LockFairness == \A t \in Lockers : /\ WF_lockVars(Lock(t)) /\ WF_lockVars(Unlock(t))
                                   /\ WF_lockVars(t \in signalled /\ Wake(t))

LockFairSpec == LockSpec /\ LockFairness

-----------------------------------------------------------------------------
(* Properties. *)

\* The types; the list has the threads that wait and nobody else.
LockTypeOK == /\ holders \in [Modes -> Nat]
              /\ waiters = {t \in Lockers : place[t] = "waits"}
              /\ signalled \subseteq waiters
              /\ held \in [Lockers -> Modes]
              /\ place \in [Lockers -> {"out", "wants", "waits", "holds"}]
              /\ calls \in [Lockers -> 0..MaxCalls]

HoldersOf(m) == {t \in Lockers : place[t] = "holds" /\ held[t] = m}

\* The matrix of the lock literature: no two threads hold modes of which one
\* lets its holder change what the other one lets its holder read.
Reads(m)    == m \in {"S", "SIX", "X"}             \* all of the object
Writes(m)   == m = "X"                             \* all of it
MayWrite(m) == m \in {"IX", "SIX", "X"}            \* some part of it
MayRead(m)  == TRUE                                \* some part of it
Conflict(m, n) == \/ Reads(m) /\ MayWrite(n)
                  \/ Writes(m) /\ MayRead(n)

\* Holders never conflict, whatever was granted at once after a wake-up.
HoldersCompatible ==
  \A t, u \in Lockers : t # u /\ place[t] = "holds" /\ place[u] = "holds"
                          => ~Conflict(held[t], held[u])

\* The counts are those of the threads that hold the lock.
CountsAreHolders == \A m \in Modes : holders[m] = Cardinality(HoldersOf(m))

\* No wake-up is lost: a waiter that nobody signalled cannot have the lock yet.
NoLostWakeup == \A t \in waiters \ signalled : ~IsCompatible(held[t])

\* Every thread comes back from gr_lock once the others stop calling.
LockReturns == \A t \in Lockers : place[t] \in {"wants", "waits"} ~> place[t] \in {"holds", "out"}
=============================================================================
