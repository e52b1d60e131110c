------------------------------- MODULE SpxLatch -------------------------------
(***************************************************************************)
(* The shared / pending / exclusive latch (libs/nscore/spx_latch.c) that   *)
(* every table, file and transaction of the pager is guarded by.  One word *)
(* holds a pending bit and a count of shared holders; all ones mean that   *)
(* it is held exclusively.  Every load and every compare-and-swap is one   *)
(* step, so what a thread compares with may be stale.                      *)
(***************************************************************************)
EXTENDS Integers, FiniteSets

CONSTANTS Latchers,    \* calls of the latch that may be in progress at once
          Upgraders,   \* those that may call spx_latch_upgrade_s_x
          CountMask    \* the count bits of the word, all set

ASSUME LatchersAssumption == IsFiniteSet(Latchers) /\ Upgraders \subseteq Latchers
ASSUME CountAssumption   == CountMask \in Nat /\ CountMask > Cardinality(Latchers)

VARIABLES word,       \* latch->state: the pending bit p and the count n
          expected,   \* thread -> the word it loaded last
          pc          \* thread -> where it is in a call, or what it holds

latchVars == <<word, expected, pc>>

Words    == [p : BOOLEAN, n : 0..CountMask]
FreeWord == [p |-> FALSE, n |-> 0]
XLock    == [p |-> TRUE, n |-> CountMask]
SLock(w) == [w EXCEPT !.n = w.n + 1]
PLock(w) == [w EXCEPT !.p = TRUE]

\* is_X_set, is_P_set and no_S_left.
IsXSet(w) == w.n = CountMask

IsPSet(w) == w.p

Bug_AnySLeft(w) == TRUE
NoSLeft(w)      == w.n = 0

\* The word that an upgrade gives its own shared hold up in.
UpgradeWord(w)    == PLock([w EXCEPT !.n = w.n - 1])

\* lock_s spins as long as this holds.
Bug_IgnoresPending(w) == IsXSet(w)
Blocks(w)             == IsPSet(w) \/ IsXSet(w)

Out    == "out"
SState  == {"s_load", "s_cas"}
PState  == {"p_load", "p_cas"}
UState  == {"u_load", "u_cas"}
Drain   == {"drain_load", "drain_cas"}
LatchStates  == {Out, "shared", "exclusive"} \cup SState \cup PState \cup UState \cup Drain

LatchInit == /\ word = FreeWord
             /\ expected = [t \in Latchers |-> FreeWord]
             /\ pc = [t \in Latchers |-> Out]

-----------------------------------------------------------------------------
\* A call starts.
LatchCall(t) ==
  /\ \/ pc[t] = Out /\ \E s \in {"s_load", "p_load"} : pc' = [pc EXCEPT ![t] = s]
     \/ pc[t] = "shared" /\ t \in Upgraders /\ pc' = [pc EXCEPT ![t] = "u_load"]
  /\ UNCHANGED <<word, expected>>

\* expected = atomic_load (&latch->state), and where the thread goes with it.
Load(t, at, next) ==
  /\ pc[t] = at
  /\ expected' = [expected EXCEPT ![t] = word]
  /\ pc' = [pc EXCEPT ![t] = next]
  /\ UNCHANGED word

LoadS(t)     == Load(t, "s_load", IF Blocks(word) THEN "s_load" ELSE "s_cas")
LoadP(t)     == Load(t, "p_load", IF IsPSet(word) THEN "p_load" ELSE "p_cas")
LoadU(t)     == Load(t, "u_load", IF IsPSet(word) THEN "u_load" ELSE "u_cas")
LoadDrain(t) == Load(t, "drain_load", IF NoSLeft(word) THEN "drain_cas" ELSE "drain_load")

\* A compare-and-swap succeeds only if the word is still the expected one.
Cas(t, at, new, next) ==
  /\ pc[t] = at
  /\ word = expected[t]
  /\ word' = new
  /\ pc' = [pc EXCEPT ![t] = next]
  /\ UNCHANGED expected

CasS(t)     == Cas(t, "s_cas", SLock(expected[t]), "shared")
CasP(t)     == Cas(t, "p_cas", PLock(expected[t]), "drain_load")
CasU(t)     == Cas(t, "u_cas", UpgradeWord(expected[t]), "drain_load")
CasDrain(t) == Cas(t, "drain_cas", XLock, "exclusive")

\* atomic_compare_exchange_weak may fail for no reason, and the loop starts again.
CasFails(t) ==
  /\ \E again \in {<<"s_cas", "s_load">>, <<"p_cas", "p_load">>,
                   <<"u_cas", "u_load">>, <<"drain_cas", "drain_load">>} :
       pc[t] = again[1] /\ pc' = [pc EXCEPT ![t] = again[2]]
  /\ UNCHANGED <<word, expected>>

\* atomic_fetch_sub (&latch->state, 1) by a shared holder.
UnlockS(t) ==
  /\ pc[t] = "shared"
  /\ word' = [word EXCEPT !.n = word.n - 1]
  /\ pc' = [pc EXCEPT ![t] = Out]
  /\ UNCHANGED expected

UnlockX(t) ==
  /\ pc[t] = "exclusive"
  /\ word' = FreeWord
  /\ pc' = [pc EXCEPT ![t] = Out]
  /\ UNCHANGED expected

Downgrade(t) ==
  /\ pc[t] = "exclusive"
  /\ word' = [p |-> FALSE, n |-> 1]
  /\ pc' = [pc EXCEPT ![t] = "shared"]
  /\ UNCHANGED expected

Loop(t) == \/ LoadS(t) \/ LoadP(t) \/ LoadU(t) \/ LoadDrain(t)
           \/ CasS(t) \/ CasP(t) \/ CasU(t) \/ CasDrain(t) \/ CasFails(t)
LatchRelease(t) == UnlockS(t) \/ UnlockX(t)

LatchNext == \E t \in Latchers : LatchCall(t) \/ Loop(t) \/ LatchRelease(t) \/ Downgrade(t)

LatchSpec == LatchInit /\ [][LatchNext]_latchVars

\* A thread keeps running, gives its latch up, and a weak compare-and-swap
\* does not fail without reason for ever.
LatchFair(t) == /\ WF_latchVars(Loop(t)) /\ WF_latchVars(LatchRelease(t))
                /\ SF_latchVars(CasU(t)) /\ SF_latchVars(CasDrain(t))
LatchFairSpec == LatchSpec /\ \A t \in Latchers : LatchFair(t)

-----------------------------------------------------------------------------
(* Properties. *)

LatchTypeOK == /\ word \in Words
               /\ expected \in [Latchers -> Words]
               /\ pc \in [Latchers -> LatchStates]

\* Calls that the count of the word stands for, and the one that drains it.
SharedIn  == {t \in Latchers : pc[t] \in {"shared", "u_load", "u_cas"}}
PendingIn == {t \in Latchers : pc[t] \in Drain}
OwnerIn   == {t \in Latchers : pc[t] = "exclusive"}

\* The exclusive holder is alone, whatever upgrades and downgrades went before.
Exclusion == \A t \in OwnerIn : SharedIn = {} /\ OwnerIn = {t}

\* No hold is lost or counted twice: the word says exactly who is in, and at
\* most one thread has set the pending bit.
WordCountsHolders ==
  IF OwnerIn # {} THEN word = XLock
                  ELSE /\ word.n = Cardinality(SharedIn)
                       /\ word.p <=> PendingIn # {}
                       /\ Cardinality(PendingIn) <= 1

\* The assertions of the loops hold at every load: the pending bit stays until
\* the drain is over, and an upgrading thread is still counted.
LatchAssertsHold == \A t \in Latchers : /\ pc[t] \in Drain => word.p
                                   /\ pc[t] = "u_load" => word.n >= 1

\* A pending writer gets the latch.  Not with upgrades: a shared holder that
\* begins one spins on the pending bit and is never drained.
PendingGetsLatch == \A t \in Latchers : t \in PendingIn ~> t \in OwnerIn
=============================================================================
