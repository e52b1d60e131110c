----------------------------- MODULE MCSpxNested ----------------------------
(***************************************************************************)
(* SpxLatch with one thread that latches twice: the call Inner is made     *)
(* while the thread holds Outer, as in pgr_commit, which holds tx->l when  *)
(* txnt_remove_txn_expect makes txn_equals_for_exists latch it again.      *)
(***************************************************************************)
EXTENDS SpxLatch

CONSTANTS Outer, Inner

Nested == /\ pc[Inner] = Out /\ pc'[Inner] # Out => pc[Outer] = "shared"
          /\ pc[Outer] = "shared" /\ pc'[Outer] # "shared" => pc[Inner] = Out
          /\ \A t \in {Outer, Inner} : pc'[t] # "p_load"

NestedSpec == /\ LatchInit /\ [][LatchNext /\ Nested]_latchVars
              /\ \A t \in Latchers : /\ WF_latchVars(Loop(t) /\ Nested)
                                     /\ WF_latchVars(LatchRelease(t) /\ Nested)
                                     /\ SF_latchVars(CasDrain(t)) /\ SF_latchVars(CasS(t))

\* A thread that already holds the latch shared gets it shared again (the
\* assertion "Deadlock detected in s lock!").
NestedGetsLatch == pc[Inner] = "s_load" ~> pc[Inner] = "shared"
=============================================================================
