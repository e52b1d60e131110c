----------------------------- MODULE SyncProofs -----------------------------
(***************************************************************************)
(* Theorems about what the threads of the program share: the spin latch,   *)
(* the granular lock and the thread pool.                                  *)
(*                                                                         *)
(* The latch excludes, for any number of threads and any mix of shared and *)
(* exclusive calls, upgrades and downgrades (LatchExcludes, LatchCounts,   *)
(* LatchAsserts).                                                          *)
(*                                                                         *)
(* The granular lock, for any number of threads: the modes that are held   *)
(* together are compatible (HoldersNeverConflict), every thread is counted *)
(* where it is (HoldersCounted), and one that waits is woken               *)
(* (WakeupsNeverLost).                                                     *)
(*                                                                         *)
(* The thread pool, for any number of workers, producers and slots: the    *)
(* types of its variables (PoolTypes) and that tasks start in the order in *)
(* which they were added and tp_stop returns only when all that was added  *)
(* before it has run (PoolDrains). StopDrains is not inductive. That a     *)
(* stopped pool drained its ring rests on three facts: the threads that    *)
(* may still run a function are counted in nthreads (Counted), the last of *)
(* them to leave finds the ring empty, so that all that was accepted is    *)
(* started (Accounted), and a task that was started is finished or with a  *)
(* worker that runs (Carried).                                             *)
(***************************************************************************)
EXTENDS SpxLatch, GrLock, ThreadPool, FiniteSetTheorems, TLAPS

-----------------------------------------------------------------------------
(* The spin latch.                                                         *)

\* At most one thread drains or owns the latch; an owner is alone.
OneIn  == \A t, u \in PendingIn \cup OwnerIn : t = u
Alone  == OwnerIn # {} => SharedIn = {} /\ word = XLock
Counts == OwnerIn = {} => /\ word.n = Cardinality(SharedIn)
                          /\ word.p <=> PendingIn # {}

\* What a thread knows of the word it is about to compare with.
Checked == \A t \in Latchers : /\ pc[t] \in {"s_cas", "p_cas", "u_cas"} => ~expected[t].p
                               /\ pc[t] = "drain_cas" => expected[t].n = 0

LatchInv == LatchTypeOK /\ OneIn /\ Alone /\ Counts /\ Checked

LEMMA SharedFinite ==
  /\ IsFiniteSet(SharedIn) /\ Cardinality(SharedIn) \in 0..(CountMask - 1)
  /\ IsFiniteSet(SharedIn') /\ Cardinality(SharedIn') \in 0..(CountMask - 1)
<1>1. SharedIn \in SUBSET Latchers /\ SharedIn' \in SUBSET Latchers
  BY DEF SharedIn
<1>2. Cardinality(Latchers) \in Nat
  BY LatchersAssumption, FS_CardinalityType
<1>3. /\ IsFiniteSet(SharedIn) /\ Cardinality(SharedIn) <= Cardinality(Latchers)
      /\ IsFiniteSet(SharedIn') /\ Cardinality(SharedIn') <= Cardinality(Latchers)
  BY <1>1, LatchersAssumption, FS_Subset
<1>4. Cardinality(SharedIn) \in Nat /\ Cardinality(SharedIn') \in Nat
  BY <1>3, FS_CardinalityType
<1> QED
  BY <1>2, <1>3, <1>4, CountAssumption

\* A thread that moves on takes nobody else with it.
LEMMA Moves ==
  ASSUME LatchTypeOK, NEW t \in Latchers, NEW s, pc' = [pc EXCEPT ![t] = s]
  PROVE  /\ SharedIn' = IF s \in {"shared", "u_load", "u_cas"} THEN SharedIn \cup {t}
                                                               ELSE SharedIn \ {t}
         /\ PendingIn' = IF s \in Drain THEN PendingIn \cup {t} ELSE PendingIn \ {t}
         /\ OwnerIn' = IF s = "exclusive" THEN OwnerIn \cup {t} ELSE OwnerIn \ {t}
BY DEF LatchTypeOK, SharedIn, PendingIn, OwnerIn

LEMMA LatchStarts == LatchInit => LatchInv
<1> SUFFICES ASSUME LatchInit PROVE LatchInv
  OBVIOUS
<1>1. SharedIn = {} /\ PendingIn = {} /\ OwnerIn = {}
  BY DEF LatchInit, SharedIn, PendingIn, OwnerIn, Out, Drain
<1>2. LatchTypeOK
  BY CountAssumption DEF LatchInit, LatchTypeOK, Words, FreeWord, LatchStates
<1>3. Checked
  BY DEF LatchInit, Checked, Out
<1> QED
  BY <1>1, <1>2, <1>3, FS_EmptySet DEF LatchInv, OneIn, Alone, Counts, LatchInit, FreeWord

LEMMA LatchSteps == LatchInv /\ [LatchNext]_latchVars => LatchInv'
<1> SUFFICES ASSUME LatchInv, [LatchNext]_latchVars PROVE LatchInv'
  OBVIOUS
<1>t. /\ LatchTypeOK /\ word \in Words /\ word.n \in Nat /\ word.p \in BOOLEAN
      /\ DOMAIN pc = Latchers /\ DOMAIN expected = Latchers /\ CountMask \in Nat
      /\ \A t \in Latchers : expected[t] \in Words
  BY CountAssumption DEF LatchInv, LatchTypeOK, Words
<1>c. /\ Cardinality(SharedIn) \in Nat /\ Cardinality(SharedIn) < CountMask
      /\ Cardinality(SharedIn') \in Nat /\ Cardinality(SharedIn') < CountMask
  BY SharedFinite, <1>t
<1>1. ASSUME NEW t \in Latchers, LatchCall(t)
      PROVE  LatchInv'
  <2>1. PICK s \in {"s_load", "p_load", "u_load"} :
          /\ pc' = [pc EXCEPT ![t] = s]
          /\ s = "u_load" <=> pc[t] = "shared"
          /\ pc[t] \in {Out, "shared"}
    BY <1>1 DEF LatchCall, Out
  <2>2. SharedIn' = SharedIn /\ PendingIn' = PendingIn /\ OwnerIn' = OwnerIn
    BY <1>t, <2>1, Moves DEF SharedIn, PendingIn, OwnerIn, Out, Drain
  <2>3. word' = word /\ expected' = expected
    BY <1>1 DEF LatchCall
  <2>4. LatchTypeOK'
    BY <1>t, <2>1, <2>3 DEF LatchTypeOK, LatchStates, SState, PState, UState
  <2>5. Checked'
    BY <1>t, <2>1, <2>3 DEF LatchInv, Checked
  <2> QED
    BY <2>2, <2>3, <2>4, <2>5 DEF LatchInv, OneIn, Alone, Counts
<1>2. ASSUME NEW t \in Latchers, LoadS(t) \/ LoadP(t) \/ LoadU(t) \/ LoadDrain(t)
      PROVE  LatchInv'
  <2> DEFINE s == pc'[t]
  <2>1. /\ pc' = [pc EXCEPT ![t] = s] /\ s \in SState \cup PState \cup UState \cup Drain
        /\ s \in {"s_cas", "p_cas", "u_cas"} => ~word.p
        /\ s = "drain_cas" => word.n = 0
        /\ pc[t] \in SState \cup PState \cup UState \cup Drain
        /\ s \in UState <=> pc[t] \in UState
        /\ s \in Drain <=> pc[t] \in Drain
    <3>1. CASE LoadS(t)
      BY <1>t, <3>1 DEF LoadS, Load, Blocks, IsPSet, SState, PState, UState, Drain
    <3>2. CASE LoadP(t)
      BY <1>t, <3>2 DEF LoadP, Load, IsPSet, SState, PState, UState, Drain
    <3>3. CASE LoadU(t)
      BY <1>t, <3>3 DEF LoadU, Load, IsPSet, SState, PState, UState, Drain
    <3>4. CASE LoadDrain(t)
      BY <1>t, <3>4 DEF LoadDrain, Load, NoSLeft, SState, PState, UState, Drain
    <3> QED
      BY <1>2, <3>1, <3>2, <3>3, <3>4
  <2> HIDE DEF s
  <2>2. word' = word /\ expected' = [expected EXCEPT ![t] = word]
    BY <1>2 DEF LoadS, LoadP, LoadU, LoadDrain, Load
  <2>3. SharedIn' = SharedIn /\ PendingIn' = PendingIn /\ OwnerIn' = OwnerIn
    BY <1>t, <2>1, Moves DEF SharedIn, PendingIn, OwnerIn, SState, PState, UState, Drain
  <2>4. LatchTypeOK'
    BY <1>t, <2>1, <2>2 DEF LatchTypeOK, LatchStates
  <2>5. Checked'
    BY <1>t, <2>1, <2>2 DEF LatchInv, Checked
  <2> QED
    BY <2>2, <2>3, <2>4, <2>5 DEF LatchInv, OneIn, Alone, Counts
<1>3. ASSUME NEW t \in Latchers, CasS(t)
      PROVE  LatchInv'
  <2>1. /\ pc[t] = "s_cas" /\ word = expected[t] /\ ~word.p /\ expected' = expected
        /\ word' = SLock(word) /\ pc' = [pc EXCEPT ![t] = "shared"]
    BY <1>3 DEF CasS, Cas, LatchInv, Checked
  <2>2. SharedIn' = SharedIn \cup {t} /\ PendingIn' = PendingIn /\ OwnerIn' = OwnerIn /\ t \notin SharedIn
    BY <1>t, <2>1, Moves DEF SharedIn, PendingIn, OwnerIn, Drain
  <2>3. OwnerIn = {}
    BY <2>1 DEF LatchInv, Alone, XLock
  <2>4. Cardinality(SharedIn') = word.n + 1
    BY <2>2, <2>3, SharedFinite, FS_AddElement DEF LatchInv, Counts
  <2>5. word'.n = word.n + 1 /\ word'.p = word.p /\ word' \in Words
    BY <1>t, <1>c, <2>1, <2>4 DEF SLock, Words
  <2>6. LatchTypeOK' /\ Checked'
    BY <1>t, <2>1, <2>5 DEF LatchTypeOK, LatchStates, LatchInv, Checked
  <2> QED
    BY <2>2, <2>3, <2>4, <2>5, <2>6 DEF LatchInv, OneIn, Alone, Counts
<1>4. ASSUME NEW t \in Latchers, CasP(t)
      PROVE  LatchInv'
  <2>1. /\ pc[t] = "p_cas" /\ word = expected[t] /\ ~word.p /\ expected' = expected
        /\ word' = PLock(word) /\ pc' = [pc EXCEPT ![t] = "drain_load"]
    BY <1>4 DEF CasP, Cas, LatchInv, Checked
  <2>2. SharedIn' = SharedIn /\ PendingIn' = PendingIn \cup {t} /\ OwnerIn' = OwnerIn
    BY <1>t, <2>1, Moves DEF SharedIn, PendingIn, OwnerIn, Drain
  <2>3. OwnerIn = {} /\ PendingIn = {}
    BY <2>1 DEF LatchInv, Alone, Counts, XLock
  <2>4. word'.n = word.n /\ word'.p = TRUE /\ word' \in Words
    BY <1>t, <2>1 DEF PLock, Words
  <2>5. LatchTypeOK' /\ Checked'
    BY <1>t, <2>1, <2>4 DEF LatchTypeOK, LatchStates, Drain, LatchInv, Checked
  <2> QED
    BY <2>2, <2>3, <2>4, <2>5 DEF LatchInv, OneIn, Alone, Counts
<1>5. ASSUME NEW t \in Latchers, CasU(t)
      PROVE  LatchInv'
  <2>1. /\ pc[t] = "u_cas" /\ word = expected[t] /\ ~word.p /\ expected' = expected
        /\ word' = UpgradeWord(word) /\ pc' = [pc EXCEPT ![t] = "drain_load"]
    BY <1>5 DEF CasU, Cas, LatchInv, Checked
  <2>2. SharedIn' = SharedIn \ {t} /\ PendingIn' = PendingIn \cup {t} /\ OwnerIn' = OwnerIn /\ t \in SharedIn
    BY <1>t, <2>1, Moves DEF SharedIn, PendingIn, OwnerIn, Drain
  <2>3. OwnerIn = {} /\ PendingIn = {}
    BY <2>1 DEF LatchInv, Alone, Counts, XLock
  <2>4. Cardinality(SharedIn') = word.n - 1
    BY <2>2, <2>3, SharedFinite, FS_RemoveElement DEF LatchInv, Counts
  <2>5. word'.n = word.n - 1 /\ word'.p = TRUE /\ word' \in Words
    <3>1. word' = [p |-> TRUE, n |-> word.n - 1]
      BY <1>t, <2>1 DEF UpgradeWord, PLock, Words
    <3>2. word.n - 1 \in 0..CountMask
      BY <1>t, <1>c, <2>4
    <3> QED
      BY <3>1, <3>2 DEF Words
  <2>6. LatchTypeOK' /\ Checked'
    BY <1>t, <2>1, <2>5 DEF LatchTypeOK, LatchStates, Drain, LatchInv, Checked
  <2> QED
    BY <2>2, <2>3, <2>4, <2>5, <2>6 DEF LatchInv, OneIn, Alone, Counts
<1>6. ASSUME NEW t \in Latchers, CasDrain(t)
      PROVE  LatchInv'
  <2>1. /\ pc[t] = "drain_cas" /\ word = expected[t] /\ word.n = 0 /\ expected' = expected
        /\ word' = XLock /\ pc' = [pc EXCEPT ![t] = "exclusive"]
    BY <1>6 DEF CasDrain, Cas, LatchInv, Checked
  <2>2. SharedIn' = SharedIn \ {t} /\ PendingIn' = PendingIn \ {t} /\ OwnerIn' = OwnerIn \cup {t} /\ t \in PendingIn
    BY <1>t, <2>1, Moves DEF SharedIn, PendingIn, OwnerIn, Drain
  <2>3. OwnerIn = {} /\ PendingIn = {t}
    <3>1. t \notin OwnerIn
      BY <2>1 DEF OwnerIn
    <3> QED
      BY <2>2, <3>1 DEF LatchInv, OneIn
  <2>4. SharedIn = {}
    BY <2>1, <2>3, SharedFinite, FS_EmptySet DEF LatchInv, Counts
  <2>5. LatchTypeOK' /\ Checked'
    BY <1>t, <2>1 DEF LatchTypeOK, LatchStates, XLock, Words, LatchInv, Checked
  <2> QED
    BY <2>1, <2>2, <2>3, <2>4, <2>5 DEF LatchInv, OneIn, Alone, Counts
<1>7. ASSUME NEW t \in Latchers, CasFails(t)
      PROVE  LatchInv'
  <2>1. PICK again \in {<<"s_cas", "s_load">>, <<"p_cas", "p_load">>,
                        <<"u_cas", "u_load">>, <<"drain_cas", "drain_load">>} :
          pc[t] = again[1] /\ pc' = [pc EXCEPT ![t] = again[2]]
    BY <1>7 DEF CasFails
  <2>2. SharedIn' = SharedIn /\ PendingIn' = PendingIn /\ OwnerIn' = OwnerIn
    BY <1>t, <2>1, Moves DEF SharedIn, PendingIn, OwnerIn, Drain
  <2>3. word' = word /\ expected' = expected
    BY <1>7 DEF CasFails
  <2>4. LatchTypeOK' /\ Checked'
    BY <1>t, <2>1, <2>3 DEF LatchTypeOK, LatchStates, SState, PState, UState, Drain, LatchInv, Checked
  <2> QED
    BY <2>2, <2>3, <2>4 DEF LatchInv, OneIn, Alone, Counts
<1>8. ASSUME NEW t \in Latchers, UnlockS(t)
      PROVE  LatchInv'
  <2>1. /\ pc[t] = "shared" /\ expected' = expected
        /\ word' = [word EXCEPT !.n = word.n - 1] /\ pc' = [pc EXCEPT ![t] = Out]
    BY <1>8 DEF UnlockS
  <2>2. SharedIn' = SharedIn \ {t} /\ PendingIn' = PendingIn /\ OwnerIn' = OwnerIn /\ t \in SharedIn
    BY <1>t, <2>1, Moves DEF SharedIn, PendingIn, OwnerIn, Drain, Out
  <2>3. OwnerIn = {}
    BY <2>2 DEF LatchInv, Alone
  <2>4. Cardinality(SharedIn') = word.n - 1
    BY <2>2, <2>3, SharedFinite, FS_RemoveElement DEF LatchInv, Counts
  <2>5. word'.n = word.n - 1 /\ word'.p = word.p /\ word' \in Words
    BY <1>t, <1>c, <2>1, <2>4 DEF Words
  <2>6. LatchTypeOK' /\ Checked'
    BY <1>t, <2>1, <2>5 DEF LatchTypeOK, LatchStates, Out, LatchInv, Checked
  <2> QED
    BY <2>2, <2>3, <2>4, <2>5, <2>6 DEF LatchInv, OneIn, Alone, Counts
<1>9. ASSUME NEW t \in Latchers, UnlockX(t) \/ Downgrade(t)
      PROVE  LatchInv'
  <2>1. PICK s \in {Out, "shared"} :
          /\ pc[t] = "exclusive" /\ expected' = expected /\ pc' = [pc EXCEPT ![t] = s]
          /\ word' = IF s = "shared" THEN [p |-> FALSE, n |-> 1] ELSE FreeWord
    BY <1>9 DEF UnlockX, Downgrade, Out
  <2>2. /\ SharedIn' = IF s = "shared" THEN SharedIn \cup {t} ELSE SharedIn \ {t}
        /\ PendingIn' = PendingIn \ {t} /\ OwnerIn' = OwnerIn \ {t} /\ t \in OwnerIn
    BY <1>t, <2>1, Moves DEF OwnerIn, Drain, Out
  <2>3. SharedIn = {} /\ PendingIn' = {} /\ OwnerIn' = {}
    BY <2>2 DEF LatchInv, OneIn, Alone
  <2>4. Cardinality(SharedIn') = IF s = "shared" THEN 1 ELSE 0
    <3>1. SharedIn' = IF s = "shared" THEN {t} ELSE {}
      BY <2>2, <2>3
    <3> QED
      BY <3>1, FS_EmptySet, FS_Singleton
  <2>5. word'.n = Cardinality(SharedIn') /\ ~word'.p /\ word' \in Words
    <3>1. word' = [p |-> FALSE, n |-> IF s = "shared" THEN 1 ELSE 0]
      BY <2>1 DEF FreeWord
    <3>2. (IF s = "shared" THEN 1 ELSE 0) \in 0..CountMask
      BY <1>t, <1>c, <2>4
    <3> QED
      BY <2>4, <3>1, <3>2 DEF Words
  <2>6. LatchTypeOK' /\ Checked'
    BY <1>t, <2>1, <2>5 DEF LatchTypeOK, LatchStates, Out, LatchInv, Checked
  <2> QED
    BY <2>3, <2>5, <2>6 DEF LatchInv, OneIn, Alone, Counts
<1>10. CASE UNCHANGED latchVars
  BY <1>10 DEF latchVars, LatchInv, LatchTypeOK, OneIn, Alone, Counts, Checked, SharedIn, PendingIn, OwnerIn
<1> QED
  BY <1>1, <1>2, <1>3, <1>4, <1>5, <1>6, <1>7, <1>8, <1>9, <1>10 DEF LatchNext, Loop, LatchRelease

LEMMA LatchAlways == LatchSpec => []LatchInv
  BY LatchStarts, LatchSteps, PTL DEF LatchSpec

\* The exclusive holder is alone, for any number of threads.
THEOREM LatchExcludes == LatchSpec => []Exclusion
<1>1. LatchInv => Exclusion
  BY DEF LatchInv, OneIn, Alone, Exclusion
<1> QED
  BY <1>1, LatchAlways, PTL

\* The word of the latch says exactly who is in.
THEOREM LatchCounts == LatchSpec => []WordCountsHolders
<1>1. LatchInv => WordCountsHolders
  <2> SUFFICES ASSUME LatchInv PROVE WordCountsHolders
    OBVIOUS
  <2>1. Cardinality(PendingIn) <= 1
    <3>1. CASE PendingIn = {}
      BY <3>1, FS_EmptySet
    <3>2. CASE PendingIn # {}
      <4>1. PICK t : PendingIn = {t}
        BY <3>2 DEF LatchInv, OneIn
      <4>2. Cardinality({t}) = 1
        BY FS_Singleton
      <4> QED
        BY <4>1, <4>2
    <3> QED
      BY <3>1, <3>2
  <2> QED
    BY <2>1 DEF LatchInv, Alone, Counts, WordCountsHolders
<1> QED
  BY <1>1, LatchAlways, PTL

\* No assertion of the loops fires.
THEOREM LatchAsserts == LatchSpec => []LatchAssertsHold
<1>1. LatchInv => LatchAssertsHold
  <2> SUFFICES ASSUME LatchInv, NEW t \in Latchers
               PROVE  /\ pc[t] \in Drain => word.p
                      /\ pc[t] = "u_load" => word.n >= 1
    BY DEF LatchAssertsHold
  <2>1. ASSUME pc[t] \in Drain PROVE word.p
    BY <2>1 DEF LatchInv, Alone, Counts, PendingIn, XLock
  <2>2. ASSUME pc[t] = "u_load" PROVE word.n >= 1
    <3>1. t \in SharedIn
      BY <2>2 DEF SharedIn
    <3>2. Cardinality(SharedIn) # 0 /\ Cardinality(SharedIn) \in Nat
      BY <3>1, SharedFinite, FS_EmptySet, FS_CardinalityType
    <3> QED
      BY <3>1, <3>2 DEF LatchInv, Alone, Counts
  <2> QED
    BY <2>1, <2>2
<1> QED
  BY <1>1, LatchAlways, PTL

-----------------------------------------------------------------------------
(* The granular lock.                                                      *)

\* Two holders have modes that the matrix allows together.
MatrixKept == \A t, u \in Lockers : t # u /\ place[t] = "holds" /\ place[u] = "holds"
                                      => held[u] \in CompatibleWith[held[t]]

LockInv == LockTypeOK /\ CountsAreHolders /\ MatrixKept /\ NoLostWakeup

\* The matrix of the code is symmetric, and allows no conflicting modes.
LEMMA Matrix ==
  ASSUME NEW m \in Modes, NEW n \in Modes, n \in CompatibleWith[m]
  PROVE  m \in CompatibleWith[n] /\ ~Conflict(m, n)
<1> USE DEF Modes, CompatibleWith, Conflict, Reads, Writes, MayRead, MayWrite
<1>1. CASE m = "IS"
  BY <1>1
<1>2. CASE m = "IX"
  BY <1>2
<1>3. CASE m = "S"
  BY <1>3
<1>4. CASE m = "SIX"
  BY <1>4
<1>5. CASE m = "X"
  BY <1>5
<1> QED
  BY <1>1, <1>2, <1>3, <1>4, <1>5

LEMMA HoldersFinite ==
  ASSUME NEW m
  PROVE  IsFiniteSet(HoldersOf(m)) /\ Cardinality(HoldersOf(m)) \in Nat
<1>1. HoldersOf(m) \in SUBSET Lockers
  BY DEF HoldersOf
<1> QED
  BY <1>1, LockersAssumption, FS_Subset, FS_CardinalityType

LEMMA LockStarts == LockInit => LockInv
<1> SUFFICES ASSUME LockInit PROVE LockInv
  OBVIOUS
<1>1. LockTypeOK /\ MatrixKept /\ NoLostWakeup
  BY CallsAssumption DEF LockInit, LockTypeOK, MatrixKept, NoLostWakeup, Modes
<1>2. \A m \in Modes : HoldersOf(m) = {}
  BY DEF LockInit, HoldersOf
<1>3. CountsAreHolders
  BY <1>2, FS_EmptySet DEF LockInit, CountsAreHolders
<1> QED
  BY <1>1, <1>3 DEF LockInv

\* A thread becomes a holder of mode m that the matrix allows.
Gets(t, m) ==
  /\ place[t] # "holds"
  /\ \A i \in Modes : holders[i] > 0 => i \in CompatibleWith[m]
  /\ holders' = [holders EXCEPT ![m] = @ + 1]
  /\ held' = [held EXCEPT ![t] = m]
  /\ place' = [place EXCEPT ![t] = "holds"]
  /\ waiters' = waiters \ {t}
  /\ signalled' = signalled \ {t}

\* A thread that does not hold the lock starts to wait for it or gives up.
Waits(t, s) ==
  /\ place[t] \in {"wants", "waits"}
  /\ ~IsCompatible(held[t])
  /\ holders' = holders /\ held' = held
  /\ place' = [place EXCEPT ![t] = s]
  /\ waiters' = IF s = "waits" THEN waiters \cup {t} ELSE waiters \ {t}
  /\ signalled' = signalled \ {t}

LEMMA GetsKeeps ==
  ASSUME LockInv, NEW t \in Lockers, NEW m \in Modes, Gets(t, m), calls' \in [Lockers -> 0..MaxCalls]
  PROVE  LockInv'
<1>t. /\ holders \in [Modes -> Nat] /\ held \in [Lockers -> Modes]
      /\ place \in [Lockers -> {"out", "wants", "waits", "holds"}]
      /\ waiters = {u \in Lockers : place[u] = "waits"} /\ signalled \subseteq waiters
  BY DEF LockInv, LockTypeOK
<1>1. LockTypeOK'
  BY <1>t DEF Gets, LockInv, LockTypeOK
<1>2. CountsAreHolders'
  <2> SUFFICES ASSUME NEW n \in Modes PROVE holders'[n] = Cardinality(HoldersOf(n)')
    BY DEF CountsAreHolders
  <2>1. HoldersOf(n)' = IF n = m THEN HoldersOf(n) \cup {t} ELSE HoldersOf(n)
    BY <1>t DEF Gets, HoldersOf
  <2>2. t \notin HoldersOf(n)
    BY DEF Gets, HoldersOf
  <2>3. Cardinality(HoldersOf(n) \cup {t}) = Cardinality(HoldersOf(n)) + 1
    BY <2>2, HoldersFinite, FS_AddElement
  <2>4. holders[n] = Cardinality(HoldersOf(n))
    BY DEF LockInv, CountsAreHolders
  <2> QED
    BY <1>t, <2>1, <2>3, <2>4 DEF Gets
<1>3. MatrixKept'
  <2>1. ASSUME NEW u \in Lockers, u # t, place[u] = "holds"
        PROVE  held[u] \in CompatibleWith[m] /\ m \in CompatibleWith[held[u]]
    <3>1. u \in HoldersOf(held[u])
      BY <2>1 DEF HoldersOf
    <3>2. Cardinality(HoldersOf(held[u])) > 0
      BY <3>1, HoldersFinite, FS_EmptySet
    <3>3. held[u] \in Modes /\ holders[held[u]] > 0
      BY <1>t, <3>2 DEF LockInv, CountsAreHolders
    <3> QED
      BY <3>3, Matrix DEF Gets
  <2> QED
    BY <1>t, <2>1 DEF Gets, LockInv, MatrixKept
<1>4. NoLostWakeup'
  <2> SUFFICES ASSUME NEW u \in waiters' \ signalled' PROVE ~IsCompatible(held[u])'
    BY DEF NoLostWakeup
  <2>1. u \in waiters \ signalled /\ u # t /\ u \in Lockers /\ held'[u] = held[u]
    BY <1>t DEF Gets
  <2>2. PICK i \in Modes : holders[i] > 0 /\ i \notin CompatibleWith[held[u]]
    BY <2>1 DEF LockInv, NoLostWakeup, IsCompatible
  <2>3. holders'[i] > 0
    BY <1>t, <2>2 DEF Gets
  <2> QED
    BY <2>1, <2>2, <2>3 DEF IsCompatible
<1> QED
  BY <1>1, <1>2, <1>3, <1>4 DEF LockInv

LEMMA WaitsKeeps ==
  ASSUME LockInv, NEW t \in Lockers, NEW s \in {"waits", "out"}, Waits(t, s), calls' = calls
  PROVE  LockInv'
<1>t. /\ holders \in [Modes -> Nat] /\ held \in [Lockers -> Modes]
      /\ place \in [Lockers -> {"out", "wants", "waits", "holds"}]
      /\ waiters = {u \in Lockers : place[u] = "waits"} /\ signalled \subseteq waiters
  BY DEF LockInv, LockTypeOK
<1>1. LockTypeOK'
  BY <1>t DEF Waits, LockInv, LockTypeOK
<1>2. \A m : HoldersOf(m)' = HoldersOf(m)
  BY <1>t DEF Waits, HoldersOf
<1>3. CountsAreHolders'
  BY <1>2 DEF Waits, LockInv, CountsAreHolders
<1>4. MatrixKept'
  BY <1>t DEF Waits, LockInv, MatrixKept
<1>5. NoLostWakeup'
  <2>1. ASSUME NEW u \in waiters' \ signalled' PROVE ~IsCompatible(held[u])'
    <3>1. ~IsCompatible(held[u])
      BY <2>1 DEF Waits, LockInv, NoLostWakeup
    <3> QED
      BY <3>1 DEF Waits, IsCompatible
  <2> QED
    BY <2>1 DEF NoLostWakeup
<1> QED
  BY <1>1, <1>3, <1>4, <1>5 DEF LockInv

LEMMA UnlockKeeps ==
  ASSUME LockInv, NEW t \in Lockers, Unlock(t)
  PROVE  LockInv'
<1>t. /\ holders \in [Modes -> Nat] /\ held \in [Lockers -> Modes] /\ held[t] \in Modes
      /\ place \in [Lockers -> {"out", "wants", "waits", "holds"}]
      /\ waiters = {u \in Lockers : place[u] = "waits"} /\ signalled \subseteq waiters /\ calls \in [Lockers -> 0..MaxCalls]
  BY DEF LockInv, LockTypeOK
<1>u. /\ place[t] = "holds" /\ place' = [place EXCEPT ![t] = "out"] /\ waiters' = waiters
      /\ held' = held /\ calls' = calls
      /\ holders' = [holders EXCEPT ![held[t]] = @ - 1]
      /\ signalled' = signalled \cup ToWake(holders')
  <2>1. t \in HoldersOf(held[t])
    BY DEF Unlock, HoldersOf
  <2>2. Cardinality(HoldersOf(held[t])) > 0
    BY <2>1, HoldersFinite, FS_EmptySet
  <2>3. holders[held[t]] > 0
    BY <1>t, <2>2 DEF LockInv, CountsAreHolders
  <2> QED
    BY <2>3 DEF Unlock, UnlockedMode
<1>1. t \in HoldersOf(held[t])
  BY <1>u DEF HoldersOf
<1>2. ASSUME NEW n \in Modes PROVE holders'[n] = Cardinality(HoldersOf(n)') /\ holders'[n] \in Nat
  <2>1. HoldersOf(n)' = IF n = held[t] THEN HoldersOf(n) \ {t} ELSE HoldersOf(n)
    BY <1>t, <1>u DEF HoldersOf
  <2>2. n = held[t] => Cardinality(HoldersOf(n) \ {t}) = Cardinality(HoldersOf(n)) - 1
    BY <1>1, HoldersFinite, FS_RemoveElement
  <2>3. holders[n] = Cardinality(HoldersOf(n))
    BY DEF LockInv, CountsAreHolders
  <2>4. holders'[n] = Cardinality(HoldersOf(n)')
    BY <1>t, <1>u, <2>1, <2>2, <2>3
  <2>5. IsFiniteSet(HoldersOf(n)')
    BY <2>1, HoldersFinite, FS_RemoveElement
  <2> QED
    BY <2>4, <2>5, FS_CardinalityType
<1>3. LockTypeOK'
  <2>1. holders' \in [Modes -> Nat]
    BY <1>t, <1>u, <1>2
  <2> QED
    BY <1>t, <1>u, <2>1 DEF ToWake, LockInv, LockTypeOK
<1>4. CountsAreHolders'
  BY <1>2 DEF CountsAreHolders
<1>5. MatrixKept'
  BY <1>t, <1>u DEF LockInv, MatrixKept
<1>6. NoLostWakeup'
  BY <1>u DEF NoLostWakeup, ToWake, IsCompatible
<1> QED
  BY <1>3, <1>4, <1>5, <1>6 DEF LockInv

LEMMA LockSteps == LockInv /\ [LockNext]_lockVars => LockInv'
<1> SUFFICES ASSUME LockInv, [LockNext]_lockVars PROVE LockInv'
  OBVIOUS
<1>t. /\ holders \in [Modes -> Nat] /\ held \in [Lockers -> Modes]
      /\ place \in [Lockers -> {"out", "wants", "waits", "holds"}]
      /\ waiters = {u \in Lockers : place[u] = "waits"} /\ signalled \subseteq waiters /\ calls \in [Lockers -> 0..MaxCalls]
  BY DEF LockInv, LockTypeOK
<1>1. ASSUME NEW t \in Lockers, NEW m \in Modes, LockCall(t, m)
      PROVE  LockInv'
  <2>1. /\ place[t] = "out" /\ held' = [held EXCEPT ![t] = m] /\ place' = [place EXCEPT ![t] = "wants"]
        /\ UNCHANGED <<holders, waiters, signalled>> /\ calls' = [calls EXCEPT ![t] = @ - 1]
        /\ calls[t] > 0
    BY <1>1 DEF LockCall
  <2>2. LockTypeOK'
    BY <1>t, <2>1, CallsAssumption DEF LockTypeOK
  <2>3. \A n : HoldersOf(n)' = HoldersOf(n)
    BY <1>t, <2>1 DEF HoldersOf
  <2>4. CountsAreHolders'
    BY <2>1, <2>3 DEF LockInv, CountsAreHolders
  <2>5. MatrixKept'
    BY <1>t, <2>1 DEF LockInv, MatrixKept
  <2>6. NoLostWakeup'
    BY <1>t, <2>1 DEF LockInv, NoLostWakeup, IsCompatible
  <2> QED
    BY <2>2, <2>4, <2>5, <2>6 DEF LockInv
<1>2. ASSUME NEW t \in Lockers, NEW m \in Modes, TryLock(t, m)
      PROVE  LockInv'
  <2>1. calls' \in [Lockers -> 0..MaxCalls] /\ place[t] = "out"
    BY <1>t, <1>2, CallsAssumption DEF TryLock
  <2>2. CASE Gets(t, m)
    BY <2>1, <2>2, GetsKeeps
  <2>3. CASE UNCHANGED <<holders, waiters, signalled, held, place>>
    BY <2>1, <2>3 DEF LockInv, LockTypeOK, CountsAreHolders, MatrixKept, NoLostWakeup, HoldersOf, IsCompatible
  <2> QED
    BY <1>t, <1>2, <2>1, <2>2, <2>3 DEF TryLock, Gets, IsCompatible
<1>3. ASSUME NEW t \in Lockers, Lock(t) \/ Wake(t)
      PROVE  LockInv'
  <2>1. /\ place[t] \in {"wants", "waits"} /\ held' = held /\ calls' = calls
        /\ signalled' = signalled \ {t} /\ held[t] \in Modes
    BY <1>t, <1>3 DEF Lock, Wake
  <2>2. CASE Grant(t)
    <3>1. Gets(t, held[t])
      BY <1>t, <2>1, <2>2 DEF Grant, Unlinked, Gets, IsCompatible
    <3> QED
      BY <1>t, <2>1, <3>1, GetsKeeps
  <2>3. CASE Wait(t)
    <3>1. Waits(t, "waits")
      BY <2>1, <2>3 DEF Wait, Waits
    <3> QED
      BY <2>1, <3>1, WaitsKeeps
  <2>4. CASE NoCond(t)
    <3>1. Waits(t, "out")
      BY <2>1, <2>4 DEF NoCond, Unlinked, Waits
    <3> QED
      BY <2>1, <3>1, WaitsKeeps
  <2> QED
    BY <1>3, <2>2, <2>3, <2>4 DEF Lock, Wake
<1>4. CASE UNCHANGED lockVars
  BY <1>4 DEF lockVars, LockInv, LockTypeOK, CountsAreHolders, MatrixKept, NoLostWakeup, HoldersOf, IsCompatible
<1> QED
  BY <1>1, <1>2, <1>3, <1>4, UnlockKeeps DEF LockNext

LEMMA LockAlways == LockSpec => []LockInv
  BY LockStarts, LockSteps, PTL DEF LockSpec

\* No two threads hold conflicting modes, for any number of threads.
THEOREM HoldersNeverConflict == LockSpec => []HoldersCompatible
<1>1. LockInv => HoldersCompatible
  BY Matrix DEF LockInv, LockTypeOK, MatrixKept, HoldersCompatible
<1> QED
  BY <1>1, LockAlways, PTL

\* A waiter that was not signalled still has to wait.
THEOREM WakeupsNeverLost == LockSpec => []NoLostWakeup
  BY LockAlways, PTL DEF LockInv

\* The counts of the lock are those of its holders.
THEOREM HoldersCounted == LockSpec => []CountsAreHolders
  BY LockAlways, PTL DEF LockInv

-----------------------------------------------------------------------------
(* The thread pool.                                                        *)

Live == {t \in Workers : worker[t] \in {"wants", "runs", "done"}}
Busy == {t \in Workers : worker[t] \in {"runs", "done"}}

\* Task k is one of the sequence s.
Among(k, s) == \E i \in 1..Len(s) : s[i] = k

\* nworking is the number of threads that are at a task, and nthreads counts at
\* least the threads that may still take one.
Counted == nworking = Cardinality(Busy) /\ Cardinality(Live) <= nthreads

\* While tp_spin creates threads none of them can leave.
Creating == owner = "creates" => /\ ~stopped
                                 /\ \A t \in Workers : worker[t] # "dead"
                                 /\ Cardinality(Created) < nthreads

\* The ring between tail and head is what was added and is not started yet.
InRing ==
  /\ head = (tail + count) % Size
  /\ added \in Seq(Tasks) /\ started \in Seq(Tasks)
  /\ owner # "freed" =>
       /\ Len(added) = Len(started) + count
       /\ \A i \in 1..Len(started) : added[i] = started[i]
       /\ \A i \in 1..count : added[Len(started) + i] = slots[(tail + i - 1) % Size]

\* Nobody is in a call of a pool that was freed.
Freed == owner = "freed" => count = 0 /\ \A p \in Producers : producer[p] = "out"

\* A producer in a call has a task to add, and a thread that runs has one to run.
HaveTasks == /\ \A p \in Producers : producer[p] = "adds" => adds[p] > 0
             /\ \A t \in Workers : worker[t] = "runs" => task[t] \in Tasks

Carried == \A i \in 1..Len(started) :
             \/ started[i] \in finished
             \/ \E t \in Workers : worker[t] = "runs" /\ task[t] = started[i]

Accounted ==
  /\ owner # "stops" => accepted \subseteq finished
  /\ owner = "stops" => /\ \A k \in accepted : Among(k, added)
                        /\ nthreads = 0 => \A k \in accepted : Among(k, started)

PInv == /\ PoolTypeOK /\ Counted /\ Creating /\ InRing /\ Freed /\ HaveTasks
        /\ Carried /\ Accounted

-----------------------------------------------------------------------------
(* Lemmas: the index arithmetic of the ring, and sets of threads. *)

\* An index of the ring goes round at most once.
LEMMA Wrap ==
  ASSUME NEW a \in 0..Size - 1, NEW b \in 0..Size
  PROVE  /\ (a + b) % Size \in 0..Size - 1
         /\ (a + b) % Size = IF a + b < Size THEN a + b ELSE a + b - Size
BY SizeAssumption

\* A task put behind the c tasks that begin at slot t takes a slot of its own.
LEMMA RingPut ==
  ASSUME NEW t \in 0..Size - 1, NEW c \in 0..Size - 1
  PROVE  /\ (t + c) % Size \in 0..Size - 1
         /\ (((t + c) % Size) + 1) % Size \in 0..Size - 1
         /\ (((t + c) % Size) + 1) % Size = (t + (c + 1)) % Size
         /\ \A i \in 1..c : /\ (t + i - 1) % Size \in 0..Size - 1
                            /\ (t + i - 1) % Size # (t + c) % Size
<1>1. 1 \in 0..Size /\ c \in 0..Size /\ c + 1 \in 0..Size
  BY SizeAssumption
<1> DEFINE h == (t + c) % Size
<1>2. h \in 0..Size - 1 /\ h = IF t + c < Size THEN t + c ELSE t + c - Size
  BY <1>1, Wrap
<1>3. /\ (h + 1) % Size \in 0..Size - 1
      /\ (h + 1) % Size = IF h + 1 < Size THEN h + 1 ELSE h + 1 - Size
  <2> HIDE DEF h
  <2> QED
    BY <1>1, <1>2, Wrap
<1>4. (t + (c + 1)) % Size
        = IF t + (c + 1) < Size THEN t + (c + 1) ELSE t + (c + 1) - Size
  BY <1>1, Wrap
<1>5. ASSUME NEW i \in 1..c
      PROVE  (t + i - 1) % Size \in 0..Size - 1 /\ (t + i - 1) % Size # h
  <2>1. i - 1 \in 0..Size /\ t + i - 1 = t + (i - 1)
    BY SizeAssumption
  <2>2. /\ (t + (i - 1)) % Size \in 0..Size - 1
        /\ (t + (i - 1)) % Size
             = IF t + (i - 1) < Size THEN t + (i - 1) ELSE t + (i - 1) - Size
    BY <2>1, Wrap
  <2> DEFINE j == (t + (i - 1)) % Size
  <2>3. j # h
    <3> HIDE DEF j, h
    <3>1. j = IF t + (i - 1) < Size THEN t + (i - 1) ELSE t + (i - 1) - Size
      BY <2>2 DEF j
    <3> QED
      BY <1>2, <3>1, SizeAssumption
  <2> QED
    BY <2>1, <2>2, <2>3
<1>6. (h + 1) % Size = (t + (c + 1)) % Size
  <2> DEFINE a == (h + 1) % Size
             b == (t + (c + 1)) % Size
  <2>1. a = b
    <3> HIDE DEF a, b, h
    <3>1. /\ a = IF h + 1 < Size THEN h + 1 ELSE h + 1 - Size
          /\ b = IF t + (c + 1) < Size THEN t + (c + 1) ELSE t + (c + 1) - Size
      BY <1>3, <1>4 DEF a, b
    <3> QED
      BY <1>2, <3>1, SizeAssumption
  <2> QED
    BY <2>1
<1> QED
  BY <1>2, <1>3, <1>5, <1>6

\* Without the first of the c tasks that begin at slot t, those from the next slot
\* on are left.
LEMMA RingTake ==
  ASSUME NEW t \in 0..Size - 1, NEW c \in 1..Size
  PROVE  /\ (t + 1) % Size \in 0..Size - 1
         /\ (t + 1 - 1) % Size = t
         /\ \A i \in 0..c - 1 : (((t + 1) % Size) + i) % Size = (t + (i + 1)) % Size
<1>1. 1 \in 0..Size /\ 0 \in 0..Size
  BY SizeAssumption
<1> DEFINE n == (t + 1) % Size
<1>2. n \in 0..Size - 1 /\ n = IF t + 1 < Size THEN t + 1 ELSE t + 1 - Size
  BY <1>1, Wrap
<1>3. (t + 1 - 1) % Size = t
  <2>1. t + 1 - 1 = t + 0 /\ t + 0 = t /\ t < Size
    BY SizeAssumption
  <2>2. (t + 0) % Size = IF t + 0 < Size THEN t + 0 ELSE t + 0 - Size
    BY <1>1, Wrap
  <2> QED
    BY <2>1, <2>2
<1>4. ASSUME NEW i \in 0..c - 1 PROVE (n + i) % Size = (t + (i + 1)) % Size
  <2> DEFINE a == (n + i) % Size
             b == (t + (i + 1)) % Size
  <2>1. i \in 0..Size /\ i + 1 \in 0..Size
    BY SizeAssumption
  <2>2. a = IF n + i < Size THEN n + i ELSE n + i - Size
    <3> HIDE DEF n
    <3> QED
      BY <1>2, <2>1, Wrap
  <2>3. b = IF t + (i + 1) < Size THEN t + (i + 1) ELSE t + (i + 1) - Size
    BY <2>1, Wrap
  <2>4. a = b
    <3> HIDE DEF a, b, n
    <3> QED
      BY <1>2, <2>2, <2>3, SizeAssumption
  <2> QED
    BY <2>4
<1> QED
  BY <1>2, <1>3, <1>4

\* A sequence that begins with a and goes on with b is the two joined.
LEMMA Joined ==
  ASSUME NEW S, NEW a \in Seq(S), NEW b \in Seq(S), NEW c \in Seq(S),
         Len(c) = Len(a) + Len(b),
         \A i \in 1..Len(a) : c[i] = a[i],
         \A i \in 1..Len(b) : c[Len(a) + i] = b[i]
  PROVE  c = a \o b
<1> DEFINE s == a \o b
<1>1. s \in Seq(S) /\ Len(s) = Len(c) /\ Len(a) \in Nat /\ Len(b) \in Nat
  OBVIOUS
<1>2. ASSUME NEW i \in 1..Len(c) PROVE c[i] = s[i]
  <2>1. CASE i <= Len(a)
    BY <1>1, <2>1
  <2>2. CASE i > Len(a)
    <3>1. /\ i - Len(a) \in 1..Len(b) /\ Len(a) + (i - Len(a)) = i
          /\ s[i] = b[i - Len(a)]
      BY <1>1, <2>2
    <3> QED
      BY <3>1
  <2> QED
    BY <1>1, <2>1, <2>2
<1> HIDE DEF s
<1>3. c = s
  BY <1>1, <1>2
<1> QED
  BY <1>3 DEF s

LEMMA Grows ==
  ASSUME NEW S \in SUBSET Workers, NEW t \in Workers, t \notin S
  PROVE  /\ Cardinality(S) \in Nat
         /\ Cardinality(S \cup {t}) = Cardinality(S) + 1
         /\ Cardinality(S) + 1 <= Cardinality(Workers)
BY WorkersAssumption, FS_Subset, FS_AddElement, FS_CardinalityType

LEMMA Shrinks ==
  ASSUME NEW S \in SUBSET Workers, NEW t \in S
  PROVE  /\ Cardinality(S) \in Nat /\ Cardinality(S) > 0
         /\ Cardinality(S \ {t}) = Cardinality(S) - 1
BY WorkersAssumption, FS_Subset, FS_RemoveElement, FS_CardinalityType, FS_EmptySet

LEMMA Bounded ==
  ASSUME NEW S \in SUBSET Workers
  PROVE  /\ Cardinality(S) \in Nat /\ Cardinality(Workers) \in Nat
         /\ Cardinality(S) <= Cardinality(Workers)
         /\ Cardinality(S) = 0 <=> S = {}
BY WorkersAssumption, FS_Subset, FS_CardinalityType, FS_EmptySet

-----------------------------------------------------------------------------
(* What a step keeps that leaves the variables of a conjunct alone. *)

LEMMA KeepsCounted ==
  ASSUME Counted, UNCHANGED <<nworking, nthreads>>,
         Live' = Live, Busy' = Busy
  PROVE  Counted'
BY DEF Counted

LEMMA KeepsCreating ==
  ASSUME Creating, UNCHANGED <<stopped, worker, nthreads>>, owner' = "creates" => owner = "creates"
  PROVE  Creating'
BY DEF Creating, Created

LEMMA KeepsRing ==
  ASSUME InRing, UNCHANGED <<ring, added, started>>, owner' # "freed" => owner # "freed"
  PROVE  InRing'
BY DEF InRing, ring

LEMMA KeepsCarried ==
  ASSUME Carried, UNCHANGED started, finished \subseteq finished',
         \A t \in Workers : worker[t] = "runs" => worker'[t] = "runs" /\ task'[t] = task[t]
  PROVE  Carried'
BY DEF Carried

LEMMA KeepsAccounted ==
  ASSUME Accounted, UNCHANGED <<added, started, accepted, finished, nthreads, owner>>
  PROVE  Accounted'
BY DEF Accounted, Among

\* Nothing changes but who waits, and who is in a call or has asked for one.
LEMMA OnlyWaiting ==
  ASSUME PInv, UNCHANGED <<ring, pool, worker, task, owner, spins, history>>,
         waiting' \subseteq Workers \cup Producers, ownerWaits' \in BOOLEAN,
         adds' \in [Producers -> 0..MaxAdds], producer' \in [Producers -> {"out", "adds"}],
         Freed', HaveTasks'
  PROVE  PInv'
<1>1. PoolTypeOK'
  BY DEF PInv, PoolTypeOK, ring, pool, history
<1>2. Counted' /\ Creating'
  BY KeepsCounted, KeepsCreating DEF PInv, pool, Live, Busy
<1>3. InRing'
  BY KeepsRing DEF PInv, history
<1>4. Carried' /\ Accounted'
  BY KeepsCarried, KeepsAccounted DEF PInv, history, pool
<1> QED
  BY <1>1, <1>2, <1>3, <1>4 DEF PInv

-----------------------------------------------------------------------------
(* tp_add_task *)

LEMMA InitFits == PoolInit => PInv
<1> SUFFICES ASSUME PoolInit PROVE PInv
  OBVIOUS
<1> USE DEF PoolInit
<1>1. PoolTypeOK
  <2>1. Cardinality(Workers) \in Nat
    BY Bounded
  <2>2. 0 \in 0..Size - 1 /\ 0 \in 0..Size /\ 0 \in 0..MaxAdds /\ 0 \in 0..MaxSpins
        /\ 0 \in 0..Cardinality(Workers)
    BY <2>1, SizeAssumption, PoolBoundsAssumption
  <2>3. slots \in [0..Size - 1 -> Tasks \cup {<<>>}]
    OBVIOUS
  <2> QED
    BY <2>2, <2>3 DEF PoolTypeOK
<1>2. Live = {} /\ Busy = {}
  BY DEF Live, Busy
<1>3. Counted
  BY <1>2, FS_EmptySet DEF Counted
<1>4. InRing
  BY Wrap, SizeAssumption DEF InRing
<1>5. Creating /\ Freed /\ HaveTasks /\ Carried /\ Accounted
  BY DEF Creating, Freed, HaveTasks, Carried, Accounted
<1> QED
  BY <1>1, <1>3, <1>4, <1>5 DEF PInv

LEMMA AddCallFits ==
  ASSUME PInv, NEW p \in Producers, AddCall(p)
  PROVE  PInv'
<1>1. adds[p] \in Nat /\ adds[p] < MaxAdds /\ adds[p] + 1 \in 0..MaxAdds
  BY PoolBoundsAssumption DEF PInv, PoolTypeOK, AddCall
<1>2. adds' \in [Producers -> 0..MaxAdds] /\ producer' \in [Producers -> {"out", "adds"}]
  BY <1>1 DEF PInv, PoolTypeOK, AddCall
<1>3. Freed' /\ HaveTasks'
  BY <1>1 DEF PInv, PoolTypeOK, AddCall, Freed, HaveTasks
<1> QED
  BY <1>2, <1>3, OnlyWaiting DEF AddCall, PInv, PoolTypeOK

LEMMA AddWaitsFits ==
  ASSUME PInv, NEW p \in Producers, AddWaits(p)
  PROVE  PInv'
<1>1. Freed' /\ HaveTasks'
  BY DEF PInv, AddWaits, Freed, HaveTasks, ring
<1> QED
  BY <1>1, OnlyWaiting DEF AddWaits, PInv, PoolTypeOK

\* The slot behind the tasks in the ring is free, and gets the new one.
LEMMA AddPutsFits ==
  ASSUME PInv, NEW p \in Producers, AddPuts(p)
  PROVE  PInv'
<1> DEFINE k == <<p, adds[p]>>
<1>1. /\ head \in 0..Size - 1 /\ tail \in 0..Size - 1 /\ count \in 0..Size - 1
      /\ 1 \in 0..Size /\ head = (tail + count) % Size
      /\ added \in Seq(Tasks) /\ started \in Seq(Tasks)
      /\ slots \in [0..Size - 1 -> Tasks \cup {<<>>}]
  BY SizeAssumption DEF PInv, PoolTypeOK, AddPuts, Full, InRing
<1>2. k \in Tasks
  BY PoolBoundsAssumption DEF PInv, PoolTypeOK, HaveTasks, AddPuts, Tasks
<1>3. owner # "freed"
  BY DEF PInv, Freed, AddPuts
<1>4. /\ slots' = [slots EXCEPT ![head] = k]
      /\ head' = (head + 1) % Size /\ tail' = tail /\ count' = count + 1
      /\ added' = Append(added, k) /\ started' = started
  BY DEF AddPuts, NextIndex
<1>5. /\ head' \in 0..Size - 1 /\ head' = (tail + (count + 1)) % Size
      /\ \A i \in 1..count : /\ (tail + i - 1) % Size \in 0..Size - 1
                             /\ (tail + i - 1) % Size # head
  <2>1. /\ head = (tail + count) % Size /\ head' = (head + 1) % Size
        /\ tail \in 0..Size - 1 /\ count \in 0..Size - 1
    BY <1>1, <1>4
  <2>2. /\ (((tail + count) % Size) + 1) % Size \in 0..Size - 1
        /\ (((tail + count) % Size) + 1) % Size = (tail + (count + 1)) % Size
        /\ \A i \in 1..count : /\ (tail + i - 1) % Size \in 0..Size - 1
                               /\ (tail + i - 1) % Size # (tail + count) % Size
    BY <2>1, RingPut
  <2> HIDE DEF k
  <2> QED
    BY <2>1, <2>2
<1>6. PoolTypeOK'
  <2>1. head' \in 0..Size - 1 /\ count' \in 0..Size
    BY <1>1, <1>4, <1>5, SizeAssumption
  <2>2. slots' \in [0..Size - 1 -> Tasks \cup {<<>>}]
    BY <1>1, <1>2, <1>4
  <2>3. producer' \in [Producers -> {"out", "adds"}] /\ waiting' \subseteq Workers \cup Producers
    BY DEF PInv, PoolTypeOK, AddPuts, AfterAdd
  <2> QED
    BY <2>1, <2>2, <2>3 DEF PInv, PoolTypeOK, AddPuts, pool
<1>7. Counted' /\ Creating'
  BY KeepsCounted, KeepsCreating DEF PInv, AddPuts, pool, Live, Busy
<1>8. InRing'
  <2>1. head' = (tail' + count') % Size
    BY <1>1, <1>4, <1>5
  <2>2. added' \in Seq(Tasks) /\ started' \in Seq(Tasks)
    BY <1>1, <1>2, <1>4
  <2>3. Len(added') = Len(started') + count'
    BY <1>1, <1>3, <1>4 DEF PInv, InRing
  <2>4. ASSUME NEW i \in 1..Len(started') PROVE added'[i] = started'[i]
    BY <1>1, <1>3, <1>4 DEF PInv, InRing
  <2>5. ASSUME NEW i \in 1..count'
        PROVE  added'[Len(started') + i] = slots'[(tail' + i - 1) % Size]
    <3>1. i \in 1..count + 1
      BY <1>4
    <3>2. CASE i = count + 1
      <4>1. tail' + i - 1 = tail + count
        BY <1>1, <1>4, <3>2
      <4>2. slots'[head] = k
        BY <1>1, <1>4
      <4>3. added'[Len(started') + i] = k
        BY <1>1, <1>3, <1>4, <3>2 DEF PInv, InRing
      <4> QED
        BY <1>1, <4>1, <4>2, <4>3
    <3>3. CASE i # count + 1
      <4>1. i \in 1..count
        BY <1>1, <3>1, <3>3
      <4>2. slots'[(tail + i - 1) % Size] = slots[(tail + i - 1) % Size]
        BY <1>1, <1>4, <1>5, <4>1
      <4>3. Len(started') + i \in 1..Len(added) /\ Len(started') + i = Len(started) + i
        BY <1>1, <1>3, <1>4, <4>1 DEF PInv, InRing
      <4>4. added'[Len(started') + i] = added[Len(started) + i]
        BY <1>1, <1>4, <4>3
      <4>5. added[Len(started) + i] = slots[(tail + i - 1) % Size]
        BY <1>3, <4>1 DEF PInv, InRing
      <4> QED
        BY <1>4, <4>2, <4>4, <4>5
    <3> QED
      BY <3>2, <3>3
  <2>6. owner' # "freed" => /\ Len(added') = Len(started') + count'
                            /\ \A i \in 1..Len(started') : added'[i] = started'[i]
                            /\ \A i \in 1..count' :
                                 added'[Len(started') + i] = slots'[(tail' + i - 1) % Size]
    BY <2>3, <2>4, <2>5
  <2> QED
    BY <2>1, <2>2, <2>6 DEF InRing
<1>9. Freed' /\ HaveTasks'
  BY <1>3 DEF AddPuts, Freed, HaveTasks, PInv, PoolTypeOK
<1>10. Carried'
  BY KeepsCarried DEF PInv, AddPuts
<1>11. Accounted'
  <2>1. ASSUME NEW x, Among(x, added) PROVE Among(x, added')
    <3>1. /\ \A i \in 1..Len(added) : i \in 1..Len(added') /\ added'[i] = added[i]
      BY <1>1, <1>4
    <3> QED
      BY <2>1, <3>1 DEF Among
  <2> QED
    BY <2>1 DEF PInv, Accounted, AddPuts, Among, pool
<1> QED
  BY <1>6, <1>7, <1>8, <1>9, <1>10, <1>11 DEF PInv

-----------------------------------------------------------------------------
(* worker_thread *)

LEMMA WorkerWaitsFits ==
  ASSUME PInv, NEW t \in Workers, WorkerWaits(t)
  PROVE  PInv'
<1>1. Freed' /\ HaveTasks'
  BY DEF PInv, WorkerWaits, Freed, HaveTasks, ring
<1> QED
  BY <1>1, OnlyWaiting DEF WorkerWaits, PInv, PoolTypeOK

\* A thread that leaves was counted, and finds nothing in the ring: all that was
\* accepted is started.
LEMMA WorkerExitsFits ==
  ASSUME PInv, NEW t \in Workers, WorkerExits(t)
  PROVE  PInv'
<1>1. /\ worker[t] = "wants" /\ stopped /\ count = 0
      /\ nthreads' = nthreads - 1 /\ worker' = [worker EXCEPT ![t] = "dead"]
      /\ UNCHANGED <<ring, nworking, stopped, task, adds, producer, owner, history>>
  BY DEF WorkerExits, MayExit
<1>2. /\ worker \in [Workers -> {"none", "wants", "runs", "done", "dead"}]
      /\ nthreads \in 0..Cardinality(Workers)
  BY DEF PInv, PoolTypeOK
<1>3. Live' = Live \ {t} /\ t \in Live /\ Busy' = Busy
  BY <1>1, <1>2 DEF Live, Busy
<1>4. Live \in SUBSET Workers
  BY DEF Live
<1>5. /\ Cardinality(Live) > 0 /\ Cardinality(Live') = Cardinality(Live) - 1
      /\ Cardinality(Live) \in Nat /\ Cardinality(Workers) \in Nat
  BY <1>3, <1>4, Shrinks, Bounded
<1>6. Counted' /\ nthreads' \in 0..Cardinality(Workers)
  BY <1>1, <1>2, <1>3, <1>5 DEF PInv, Counted
<1>7. PoolTypeOK'
  <2>1. worker' \in [Workers -> {"none", "wants", "runs", "done", "dead"}]
    BY <1>1, <1>2
  <2> QED
    BY <1>6, <2>1 DEF PInv, PoolTypeOK, WorkerExits, AfterExit, ring, history
<1>8. Creating'
  BY <1>1 DEF PInv, Creating
<1>9. InRing'
  BY <1>1, KeepsRing DEF PInv, history
<1>10. Freed' /\ HaveTasks'
  BY <1>1, <1>2 DEF PInv, Freed, HaveTasks, ring
<1>11. Carried'
  BY <1>1, <1>2, KeepsCarried DEF PInv, history
<1>12. Accounted'
  <2>1. CASE owner = "stops"
    <3>1. /\ Len(added) = Len(started) /\ \A i \in 1..Len(started) : added[i] = started[i]
      BY <1>1, <2>1 DEF PInv, InRing
    <3>2. \A k \in accepted : Among(k, added) /\ Among(k, started)
      BY <2>1, <3>1 DEF PInv, Accounted, Among
    <3> QED
      BY <1>1, <2>1, <3>2 DEF Accounted, Among, history
  <2>2. CASE owner # "stops"
    BY <1>1, <2>2 DEF PInv, Accounted, history
  <2> QED
    BY <2>1, <2>2
<1> QED
  BY <1>6, <1>7, <1>8, <1>9, <1>10, <1>11, <1>12 DEF PInv

\* The task at the tail is the oldest that is not started.
LEMMA WorkerTakesFits ==
  ASSUME PInv, NEW t \in Workers, WorkerTakes(t)
  PROVE  PInv'
<1> DEFINE k == slots[tail]
<1>1. /\ head \in 0..Size - 1 /\ tail \in 0..Size - 1 /\ count \in 1..Size
      /\ head = (tail + count) % Size
      /\ added \in Seq(Tasks) /\ started \in Seq(Tasks)
      /\ task \in [Workers -> Tasks \cup {<<>>}]
      /\ worker \in [Workers -> {"none", "wants", "runs", "done", "dead"}]
  BY DEF PInv, PoolTypeOK, WorkerTakes, InRing
<1>2. owner # "freed"
  BY <1>1 DEF PInv, Freed
<1>3. /\ worker[t] = "wants" /\ worker' = [worker EXCEPT ![t] = "runs"]
      /\ task' = [task EXCEPT ![t] = k] /\ tail' = (tail + 1) % Size
      /\ count' = count - 1 /\ nworking' = nworking + 1
      /\ started' = Append(started, k) /\ added' = added
      /\ UNCHANGED <<slots, head, nthreads, stopped, adds, producer, owner, finished, accepted>>
  BY DEF WorkerTakes, NextIndex
<1>4. /\ tail' \in 0..Size - 1
      /\ (tail + 1 - 1) % Size = tail
      /\ \A i \in 0..count - 1 : (tail' + i) % Size = (tail + (i + 1)) % Size
  BY <1>1, <1>3, RingTake
<1>5. /\ Len(added) = Len(started) + count
      /\ \A i \in 1..Len(started) : added[i] = started[i]
      /\ \A i \in 1..count : added[Len(started) + i] = slots[(tail + i - 1) % Size]
  BY <1>2 DEF PInv, InRing
<1>6. k \in Tasks /\ added[Len(started) + 1] = k
  <2>1. 1 \in 1..count /\ Len(started) + 1 \in 1..Len(added)
    BY <1>1, <1>5
  <2> QED
    BY <1>1, <1>4, <1>5, <2>1
<1>7. Counted' /\ nworking' \in 0..Cardinality(Workers)
  <2>1. Live' = Live /\ Busy' = Busy \cup {t} /\ t \notin Busy /\ Busy \in SUBSET Workers
    BY <1>1, <1>3 DEF Live, Busy
  <2>2. /\ Cardinality(Busy') = Cardinality(Busy) + 1 /\ Cardinality(Busy) \in Nat
        /\ Cardinality(Busy) + 1 <= Cardinality(Workers) /\ Cardinality(Workers) \in Nat
    BY <2>1, Grows, Bounded
  <2> QED
    BY <1>3, <2>1, <2>2 DEF PInv, Counted
<1>8. PoolTypeOK'
  <2>1. worker' \in [Workers -> {"none", "wants", "runs", "done", "dead"}]
    BY <1>1, <1>3
  <2>2. task' \in [Workers -> Tasks \cup {<<>>}]
    BY <1>1, <1>3, <1>6
  <2>3. count' \in 0..Size
    BY <1>1, <1>3, SizeAssumption
  <2>4. waiting' \subseteq Workers \cup Producers
    BY DEF WorkerTakes, AfterTake
  <2> QED
    BY <1>3, <1>4, <1>7, <2>1, <2>2, <2>3, <2>4 DEF PInv, PoolTypeOK, WorkerTakes
<1>9. Creating'
  <2>1. \A x \in Workers : worker'[x] = "dead" => worker[x] = "dead"
    BY <1>1, <1>3
  <2>2. Created' = Created
    BY <1>1, <1>3 DEF Created
  <2> QED
    BY <1>3, <2>1, <2>2 DEF PInv, Creating
<1>10. InRing'
  <2>1. head' = (tail' + count') % Size
    <3>1. count - 1 \in 0..count - 1 /\ count - 1 + 1 = count
      BY <1>1
    <3> QED
      BY <1>1, <1>3, <1>4, <3>1
  <2>2. added' \in Seq(Tasks) /\ started' \in Seq(Tasks) /\ Len(started') = Len(started) + 1
    BY <1>1, <1>3, <1>6
  <2>3. Len(added') = Len(started') + count'
    BY <1>1, <1>3, <1>5, <2>2
  <2>4. ASSUME NEW i \in 1..Len(started') PROVE added'[i] = started'[i]
    BY <1>1, <1>3, <1>5, <1>6, <2>2
  <2>5. ASSUME NEW i \in 1..count'
        PROVE  added'[Len(started') + i] = slots'[(tail' + i - 1) % Size]
    <3>1. i - 1 + 1 = i /\ i \in 0..count - 1 /\ i - 1 \in 0..count - 1 /\ i + 1 \in 1..count
      BY <1>1, <1>3
    <3>2. /\ Len(started') + i = Len(started) + (i + 1)
          /\ tail' + i - 1 = tail' + (i - 1) /\ tail + (i + 1) - 1 = tail + i
      BY <1>1, <1>3, <1>4, <2>2, <3>1, SizeAssumption
    <3>3. added[Len(started) + (i + 1)] = slots[(tail + (i + 1) - 1) % Size]
      BY <1>5, <3>1
    <3>4. (tail' + (i - 1)) % Size = (tail + i) % Size
      BY <1>4, <3>1
    <3> QED
      BY <1>3, <3>2, <3>3, <3>4
  <2>6. owner' # "freed" => /\ Len(added') = Len(started') + count'
                            /\ \A i \in 1..Len(started') : added'[i] = started'[i]
                            /\ \A i \in 1..count' :
                                 added'[Len(started') + i] = slots'[(tail' + i - 1) % Size]
    BY <2>3, <2>4, <2>5
  <2> QED
    BY <2>1, <2>2, <2>6 DEF InRing
<1>11. Freed' /\ HaveTasks'
  BY <1>1, <1>2, <1>3, <1>6 DEF PInv, Freed, HaveTasks
<1>12. Carried'
  <2> SUFFICES ASSUME NEW i \in 1..Len(started')
               PROVE  \/ started'[i] \in finished'
                      \/ \E x \in Workers : worker'[x] = "runs" /\ task'[x] = started'[i]
    BY DEF Carried
  <2>1. CASE i = Len(started) + 1
    <3>1. started'[i] = k
      BY <1>1, <1>3, <2>1
    <3>2. worker'[t] = "runs" /\ task'[t] = k
      BY <1>1, <1>3
    <3> QED
      BY <3>1, <3>2
  <2>2. CASE i # Len(started) + 1
    <3>1. i \in 1..Len(started) /\ started'[i] = started[i]
      <4>1. started \in Seq(Tasks) /\ started' = Append(started, k)
        BY <1>1, <1>3
      <4>2. Len(started') = Len(started) + 1 /\ Len(started) \in Nat
        BY <4>1
      <4>3. i \in 1..Len(started)
        BY <2>2, <4>2
      <4> QED
        BY <4>1, <4>3
    <3>2. CASE started[i] \in finished
      BY <1>3, <3>1, <3>2
    <3>3. CASE started[i] \notin finished
      <4>1. PICK x \in Workers : worker[x] = "runs" /\ task[x] = started[i]
        BY <3>1, <3>3 DEF PInv, Carried
      <4>2. worker'[x] = "runs" /\ task'[x] = started'[i]
        BY <1>1, <1>3, <3>1, <4>1
      <4> QED
        BY <4>2
    <3> QED
      BY <3>2, <3>3
  <2> QED
    BY <2>1, <2>2
<1>13. Accounted'
  <2>1. ASSUME NEW x, Among(x, started) PROVE Among(x, started')
    <3>1. \A i \in 1..Len(started) : i \in 1..Len(started') /\ started'[i] = started[i]
      BY <1>1, <1>3, <1>6
    <3> QED
      BY <2>1, <3>1 DEF Among
  <2> QED
    BY <1>3, <2>1 DEF PInv, Accounted, Among
<1> QED
  BY <1>7, <1>8, <1>9, <1>10, <1>11, <1>12, <1>13 DEF PInv

LEMMA WorkerRunsFits ==
  ASSUME PInv, NEW t \in Workers, WorkerRuns(t)
  PROVE  PInv'
<1>1. /\ worker[t] = "runs" /\ worker' = [worker EXCEPT ![t] = "done"]
      /\ finished' = finished \cup {task[t]}
      /\ UNCHANGED <<ring, pool, waiting, ownerWaits, task, adds, producer, owner, spins,
                     added, started, accepted>>
  BY DEF WorkerRuns
<1>2. /\ worker \in [Workers -> {"none", "wants", "runs", "done", "dead"}]
      /\ finished \subseteq finished'
  BY <1>1 DEF PInv, PoolTypeOK
<1>3. Live' = Live /\ Busy' = Busy /\ Created' = Created
  BY <1>1, <1>2 DEF Live, Busy, Created
<1>4. Counted' /\ Creating'
  BY <1>1, <1>2, <1>3 DEF PInv, Counted, Creating, pool
<1>5. InRing' /\ Freed' /\ HaveTasks'
  BY <1>1, <1>2, KeepsRing DEF PInv, Freed, HaveTasks, ring
<1>6. Carried'
  <2> SUFFICES ASSUME NEW i \in 1..Len(started), started[i] \notin finished'
               PROVE  \E x \in Workers : worker'[x] = "runs" /\ task'[x] = started[i]
    BY <1>1 DEF Carried
  <2>1. PICK x \in Workers : worker[x] = "runs" /\ task[x] = started[i]
    BY <1>2 DEF PInv, Carried
  <2>2. x # t
    BY <1>1, <2>1
  <2>3. worker'[x] = "runs" /\ task'[x] = started[i]
    BY <1>1, <1>2, <2>1, <2>2
  <2> QED
    BY <2>3
<1>7. Accounted'
  BY <1>1, <1>2 DEF PInv, Accounted, Among, pool
<1>8. PoolTypeOK'
  <2>1. worker' \in [Workers -> {"none", "wants", "runs", "done", "dead"}]
    BY <1>1, <1>2
  <2>2. finished' \subseteq Tasks
    BY <1>1 DEF PInv, PoolTypeOK, HaveTasks
  <2> QED
    BY <1>1, <2>1, <2>2 DEF PInv, PoolTypeOK, ring, pool
<1> QED
  BY <1>4, <1>5, <1>6, <1>7, <1>8 DEF PInv

LEMMA WorkerDoneFits ==
  ASSUME PInv, NEW t \in Workers, WorkerDone(t)
  PROVE  PInv'
<1>1. /\ worker[t] = "done" /\ worker' = [worker EXCEPT ![t] = "wants"]
      /\ nworking' = nworking - 1
      /\ UNCHANGED <<ring, nthreads, stopped, waiting, task, adds, producer, owner, spins,
                     history>>
  BY DEF WorkerDone
<1>2. worker \in [Workers -> {"none", "wants", "runs", "done", "dead"}]
  BY DEF PInv, PoolTypeOK
<1>3. /\ Live' = Live /\ Created' = Created
      /\ Busy' = Busy \ {t} /\ t \in Busy /\ Busy \in SUBSET Workers
  BY <1>1, <1>2 DEF Live, Busy, Created
<1>4. /\ Cardinality(Busy) \in Nat /\ Cardinality(Busy) > 0
      /\ Cardinality(Busy') = Cardinality(Busy) - 1
      /\ Cardinality(Busy) <= Cardinality(Workers) /\ Cardinality(Workers) \in Nat
  BY <1>3, Shrinks, Bounded
<1>5. Counted' /\ nworking' \in 0..Cardinality(Workers)
  BY <1>1, <1>3, <1>4 DEF PInv, Counted
<1>6. Creating'
  BY <1>1, <1>2, <1>3 DEF PInv, Creating
<1>7. InRing' /\ Freed' /\ HaveTasks'
  BY <1>1, <1>2, KeepsRing DEF PInv, Freed, HaveTasks, ring, history
<1>8. Carried' /\ Accounted'
  BY <1>1, <1>2, KeepsCarried, KeepsAccounted DEF PInv, history
<1>9. PoolTypeOK'
  <2>1. worker' \in [Workers -> {"none", "wants", "runs", "done", "dead"}]
    BY <1>1, <1>2
  <2>2. ownerWaits' \in BOOLEAN
    BY DEF PInv, PoolTypeOK, WorkerDone
  <2> QED
    BY <1>1, <1>5, <2>1, <2>2 DEF PInv, PoolTypeOK, ring, history
<1> QED
  BY <1>5, <1>6, <1>7, <1>8, <1>9 DEF PInv

-----------------------------------------------------------------------------
(* The owner *)

\* With nthreads = 0 nobody is left who could run a task.
LEMMA NobodyRuns ==
  ASSUME PInv, nthreads = 0
  PROVE  Live = {} /\ Busy = {} /\ nworking = 0 /\ \A t \in Workers : worker[t] # "runs"
<1>1. Live \in SUBSET Workers /\ Busy \subseteq Live
  BY DEF Live, Busy
<1>2. Live = {}
  BY <1>1, Bounded DEF PInv, Counted
<1>3. Busy = {} /\ Cardinality(Busy) = 0
  BY <1>1, <1>2, FS_EmptySet
<1> QED
  BY <1>2, <1>3 DEF PInv, Counted, Live

LEMMA SpinFits ==
  ASSUME PInv, NEW n \in 1..Cardinality(Workers), Spin(n)
  PROVE  PInv'
<1>1. /\ owner = "idle" /\ nthreads = 0 /\ spins < MaxSpins
      /\ stopped' = FALSE /\ nthreads' = n /\ worker' = [t \in Workers |-> "none"]
      /\ owner' = "creates" /\ spins' = spins + 1
      /\ UNCHANGED <<ring, nworking, waiting, ownerWaits, task, adds, producer, history>>
  BY DEF Spin
<1>2. /\ Live' = {} /\ Busy' = {} /\ Created' = {} /\ Cardinality({}) = 0
      /\ nworking = 0 /\ \A t \in Workers : worker[t] # "runs"
  BY <1>1, NobodyRuns, FS_EmptySet DEF Live, Busy, Created
<1>3. n \in Nat /\ n > 0 /\ n \in 0..Cardinality(Workers)
  <2>1. Cardinality(Workers) \in Nat
    BY Bounded
  <2> QED
    BY <2>1
<1>4. Counted' /\ Creating'
  BY <1>1, <1>2, <1>3 DEF Counted, Creating
<1>5. InRing' /\ Freed' /\ HaveTasks'
  BY <1>1, KeepsRing DEF PInv, Freed, HaveTasks, ring, history
<1>6. Carried' /\ Accounted'
  BY <1>1, <1>2 DEF PInv, Carried, Accounted, history
<1>7. PoolTypeOK'
  <2>1. spins' \in 0..MaxSpins
    BY <1>1, PoolBoundsAssumption DEF PInv, PoolTypeOK
  <2> QED
    BY <1>1, <1>3, <2>1 DEF PInv, PoolTypeOK, ring, history
<1> QED
  BY <1>4, <1>5, <1>6, <1>7 DEF PInv

LEMMA CreateFits ==
  ASSUME PInv, NEW t \in Workers, Create(t)
  PROVE  PInv'
<1>1. /\ owner = "creates" /\ worker[t] = "none" /\ worker' = [worker EXCEPT ![t] = "wants"]
      /\ owner' = IF Cardinality(Created) + 1 = nthreads THEN "idle" ELSE "creates"
      /\ UNCHANGED <<ring, pool, waiting, ownerWaits, task, adds, producer, spins, history>>
  BY DEF Create
<1>2. /\ worker \in [Workers -> {"none", "wants", "runs", "done", "dead"}]
      /\ nthreads \in 0..Cardinality(Workers)
  BY DEF PInv, PoolTypeOK
<1>3. /\ ~stopped /\ \A x \in Workers : worker[x] # "dead"
      /\ Cardinality(Created) < nthreads
  BY <1>1 DEF PInv, Creating
<1>4. /\ Live = Created /\ t \notin Created /\ Created \in SUBSET Workers
      /\ Live' = Created \cup {t} /\ Created' = Created \cup {t} /\ Busy' = Busy
  BY <1>1, <1>2, <1>3 DEF Live, Busy, Created
<1>5. /\ Cardinality(Created) \in Nat /\ Cardinality(Workers) \in Nat
      /\ Cardinality(Created \cup {t}) = Cardinality(Created) + 1
  BY <1>4, Grows, Bounded
<1>6. Counted'
  BY <1>1, <1>2, <1>3, <1>4, <1>5 DEF PInv, Counted, pool
<1>7. Creating'
  <2>1. \A x \in Workers : worker'[x] # "dead"
    BY <1>1, <1>2, <1>3
  <2>2. owner' = "creates" => Cardinality(Created') < nthreads'
    BY <1>1, <1>2, <1>3, <1>4, <1>5 DEF pool
  <2> QED
    BY <1>1, <1>3, <2>1, <2>2 DEF Creating, pool
<1>8. InRing' /\ Freed' /\ HaveTasks'
  BY <1>1, <1>2, KeepsRing DEF PInv, Freed, HaveTasks, ring, history
<1>9. Carried'
  BY <1>1, <1>2, KeepsCarried DEF PInv, history
<1>10. Accounted'
  BY <1>1 DEF PInv, Accounted, history
<1>11. PoolTypeOK'
  <2>1. worker' \in [Workers -> {"none", "wants", "runs", "done", "dead"}]
    BY <1>1, <1>2
  <2> QED
    BY <1>1, <2>1 DEF PInv, PoolTypeOK, ring, pool, history
<1> QED
  BY <1>6, <1>7, <1>8, <1>9, <1>10, <1>11 DEF PInv

LEMMA CreateFailsFits ==
  ASSUME PInv, CreateFails
  PROVE  PInv'
<1>1. /\ owner = "creates" /\ stopped' = TRUE /\ waiting' = {} /\ owner' = "fails"
      /\ UNCHANGED <<ring, nworking, nthreads, ownerWaits, worker, task, adds, producer,
                     spins, history>>
  BY DEF CreateFails, AfterStop
<1>2. Counted' /\ Creating'
  BY <1>1, KeepsCounted DEF PInv, Live, Busy, Creating
<1>3. InRing' /\ Freed' /\ HaveTasks'
  BY <1>1, KeepsRing DEF PInv, Freed, HaveTasks, ring, history
<1>4. Carried' /\ Accounted'
  BY <1>1, KeepsCarried DEF PInv, Accounted, history
<1>5. PoolTypeOK'
  BY <1>1 DEF PInv, PoolTypeOK, ring, history
<1> QED
  BY <1>2, <1>3, <1>4, <1>5 DEF PInv

LEMMA StopFits ==
  ASSUME PInv, Stop
  PROVE  PInv'
<1>1. /\ owner = "idle" /\ nthreads > 0
      /\ stopped' = TRUE /\ waiting' = {} /\ owner' = "stops"
      /\ accepted' = {added[i] : i \in DOMAIN added}
      /\ UNCHANGED <<ring, nworking, nthreads, ownerWaits, worker, task, adds, producer,
                     spins, added, started, finished>>
  BY DEF Stop, AfterStop
<1>2. added \in Seq(Tasks)
  BY DEF PInv, InRing
<1>3. Counted' /\ Creating'
  BY <1>1, KeepsCounted DEF PInv, Live, Busy, Creating
<1>4. InRing' /\ Freed' /\ HaveTasks'
  BY <1>1, KeepsRing DEF PInv, Freed, HaveTasks, ring
<1>5. Carried'
  BY <1>1, KeepsCarried DEF PInv
<1>6. Accounted'
  <2>1. \A k \in accepted' : Among(k, added')
    BY <1>1, <1>2 DEF Among
  <2>2. nthreads' # 0
    BY <1>1 DEF PInv, PoolTypeOK
  <2> QED
    BY <1>1, <2>1, <2>2 DEF Accounted
<1>7. PoolTypeOK'
  <2>1. accepted' \subseteq Tasks
    BY <1>1, <1>2
  <2> QED
    BY <1>1, <2>1 DEF PInv, PoolTypeOK, ring
<1> QED
  BY <1>3, <1>4, <1>5, <1>6, <1>7 DEF PInv

LEMMA OwnerWaitsFits ==
  ASSUME PInv, OwnerWaits
  PROVE  PInv'
<1>1. Freed' /\ HaveTasks'
  BY DEF PInv, OwnerWaits, Freed, HaveTasks, ring
<1> QED
  BY <1>1, OnlyWaiting DEF OwnerWaits, PInv, PoolTypeOK

\* tp_stop returns when no thread is left: all that was accepted is started, and
\* nobody carries it any more.
LEMMA OwnerReturnsFits ==
  ASSUME PInv, OwnerReturns
  PROVE  PInv'
<1>1. /\ owner \in {"fails", "stops"} /\ nthreads = 0 /\ owner' = "idle"
      /\ UNCHANGED <<ring, pool, waiting, ownerWaits, worker, task, adds, producer, spins,
                     history>>
  BY DEF OwnerReturns
<1>2. Counted' /\ Creating'
  BY <1>1, KeepsCounted DEF PInv, Live, Busy, Creating, pool
<1>3. InRing' /\ Freed' /\ HaveTasks'
  BY <1>1, KeepsRing DEF PInv, Freed, HaveTasks, ring, history
<1>4. Carried'
  BY <1>1, KeepsCarried DEF PInv, history
<1>5. accepted \subseteq finished
  <2>1. CASE owner = "fails"
    BY <2>1 DEF PInv, Accounted
  <2>2. CASE owner = "stops"
    <3>1. \A i \in 1..Len(started) : started[i] \in finished
      BY <1>1, NobodyRuns DEF PInv, Carried
    <3>2. \A k \in accepted : Among(k, started)
      BY <1>1, <2>2 DEF PInv, Accounted
    <3> QED
      BY <3>1, <3>2 DEF Among
  <2> QED
    BY <1>1, <2>1, <2>2
<1>6. Accounted'
  BY <1>1, <1>5 DEF Accounted, history
<1>7. PoolTypeOK'
  BY <1>1 DEF PInv, PoolTypeOK, ring, pool, history
<1> QED
  BY <1>2, <1>3, <1>4, <1>6, <1>7 DEF PInv

LEMMA FreeFits ==
  ASSUME PInv, Free
  PROVE  PInv'
<1>1. /\ owner = "idle" /\ \A p \in Producers : producer[p] = "out"
      /\ head' = 0 /\ tail' = 0 /\ count' = 0 /\ waiting' = {} /\ owner' = "freed"
      /\ UNCHANGED <<slots, pool, ownerWaits, worker, task, adds, producer, spins, history>>
  BY DEF Free, AfterStop
<1>2. 0 \in 0..Size - 1 /\ 0 \in 0..Size /\ (0 + 0) % Size = 0
  BY SizeAssumption
<1>3. Counted' /\ Creating'
  BY <1>1, KeepsCounted DEF PInv, Live, Busy, Creating, pool
<1>4. InRing' /\ Freed' /\ HaveTasks'
  BY <1>1, <1>2 DEF PInv, InRing, Freed, HaveTasks, history
<1>5. Carried' /\ Accounted'
  BY <1>1, KeepsCarried DEF PInv, Accounted, history
<1>6. PoolTypeOK'
  BY <1>1, <1>2 DEF PInv, PoolTypeOK, pool, history
<1> QED
  BY <1>3, <1>4, <1>5, <1>6 DEF PInv

LEMMA SpuriousFits ==
  ASSUME PInv, Spurious
  PROVE  PInv'
<1>1. /\ UNCHANGED <<ring, pool, worker, task, adds, producer, owner, spins, history>>
      /\ waiting' \subseteq Workers \cup Producers /\ ownerWaits' \in BOOLEAN
  BY DEF PInv, PoolTypeOK, Spurious
<1>2. Freed' /\ HaveTasks'
  BY <1>1 DEF PInv, Freed, HaveTasks, ring
<1> QED
  BY <1>1, <1>2, OnlyWaiting DEF PInv, PoolTypeOK

-----------------------------------------------------------------------------
LEMMA NextFits == PInv /\ [PoolNext]_poolVars => PInv'
<1> SUFFICES ASSUME PInv, [PoolNext]_poolVars PROVE PInv'
  OBVIOUS
<1>1. ASSUME NEW p \in Producers, AddCall(p) \/ ProducerStep(p) PROVE PInv'
  BY <1>1, AddCallFits, AddWaitsFits, AddPutsFits DEF ProducerStep
<1>2. ASSUME NEW t \in Workers, WorkerStep(t) PROVE PInv'
  BY <1>2, WorkerWaitsFits, WorkerExitsFits, WorkerTakesFits, WorkerRunsFits, WorkerDoneFits
  DEF WorkerStep
<1>3. ASSUME NEW n \in 1..Cardinality(Workers), Spin(n) PROVE PInv'
  BY <1>3, SpinFits
<1>4. CASE CreateFails \/ Stop \/ Free \/ Spurious
  BY <1>4, CreateFailsFits, StopFits, FreeFits, SpuriousFits
<1>5. CASE OwnerStep
  BY <1>5, CreateFits, OwnerWaitsFits, OwnerReturnsFits DEF OwnerStep
<1>6. CASE UNCHANGED poolVars
  <2>1. Freed' /\ HaveTasks'
    BY <1>6 DEF PInv, Freed, HaveTasks, poolVars, ring
  <2> QED
    BY <1>6, <2>1, OnlyWaiting DEF poolVars, PInv, PoolTypeOK
<1> QED
  BY <1>1, <1>2, <1>3, <1>4, <1>5, <1>6 DEF PoolNext

\* The invariant of the pool: its types, what its counts count, and where every
\* task is that was added.
THEOREM PoolInvariant == PoolSpec => []PInv
<1>1. PoolInit => PInv
  BY InitFits
<1>2. PInv /\ [PoolNext]_poolVars => PInv'
  BY NextFits
<1> QED
  BY <1>1, <1>2, PTL DEF PoolSpec

\* The variables of the pool have their types: the ring's indices stay inside it,
\* the number of tasks in it never exceeds WORK_QUEUE_SIZE, and neither nworking
\* nor nthreads, which worker_thread decrements, goes below zero.
THEOREM PoolTypes == PoolSpec => []PoolTypeOK
<1>1. PInv => PoolTypeOK
  BY DEF PInv
<1> QED
  BY <1>1, PoolInvariant, PTL

\* Tasks are started in the order in which tp_add_task took them, none is lost or
\* overwritten in the ring, and what was added before tp_stop was called has run
\* when it returns.
THEOREM PoolDrains == PoolSpec => []StopDrains
<1>1. PInv => StopDrains
  <2> SUFFICES ASSUME PInv PROVE StopDrains
    OBVIOUS
  <2>1. ASSUME owner # "freed" PROVE added = started \o Queued
    <3>1. /\ added \in Seq(Tasks) /\ started \in Seq(Tasks) /\ count \in Nat
          /\ Len(added) = Len(started) + count
          /\ \A i \in 1..Len(started) : added[i] = started[i]
          /\ \A i \in 1..count : added[Len(started) + i] = slots[(tail + i - 1) % Size]
      <4>1. count \in Nat
        BY SizeAssumption DEF PInv, PoolTypeOK
      <4> QED
        BY <2>1, <4>1 DEF PInv, InRing
    <3>2. Queued \in Seq(Tasks) /\ Len(Queued) = count
      <4>1. ASSUME NEW i \in 1..count PROVE slots[(tail + i - 1) % Size] \in Tasks
        BY <3>1, <4>1
      <4>2. Queued \in [1..count -> Tasks]
        BY <4>1 DEF Queued
      <4>3. count \in Nat
        BY <3>1
      <4> QED
        BY <4>2, <4>3
    <3>3. ASSUME NEW i \in 1..Len(Queued) PROVE added[Len(started) + i] = Queued[i]
      BY <3>1, <3>2, <3>3 DEF Queued
    <3> QED
      BY <3>1, <3>2, <3>3, Joined
  <2>2. owner \in {"idle", "freed"} => accepted \subseteq finished
    BY DEF PInv, Accounted
  <2> QED
    BY <2>1, <2>2 DEF StopDrains
<1> QED
  BY <1>1, PoolInvariant, PTL
=============================================================================
