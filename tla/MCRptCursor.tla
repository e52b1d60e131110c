---------------------------- MODULE MCRptCursor ----------------------------
(***************************************************************************)
(* RptCursor for TLC: a first request that fills the variable, with more   *)
(* or fewer pages, and MaxOps - 1 requests that change it, so that trees   *)
(* of one to four layers split, borrow, merge, shrink and grow again.  The *)
(* last fill needs more node updates than the lists have room for.         *)
(***************************************************************************)
EXTENDS RptCursor

CONSTANTS
  MaxOps,     \* requests in a behaviour
  MaxSteps    \* steps a request may take

VARIABLES
  ops,        \* how many requests were submitted
  steps       \* how many steps were made for the last one

Q(op, at, n, size, stride, tag) ==
  [op |-> op, at |-> at, n |-> n, size |-> size, stride |-> stride, tag |-> tag]

MCRequests ==
  {Q("insert", 0, n, 1, 1, 1) : n \in {3, 15, 24, 60, 96, 180, 204}}
  \cup {Q("write", 3, 1, 1, 1, 2)}
  \cup UNION {
    {Q("remove", at, n, 1, 1, t) : at \in {0, 3, 13, 22, 59, 150}, n \in {1, 6, 25, 52}}
    \cup {Q("remove", 0, 160, 1, 1, t)}
    \cup {Q("remove", at, n, 3, 2, t) : at \in {0, 6, 21, 45}, n \in {2, 4, 9}}
    \cup {Q("insert", at, n, 1, 1, t) : at \in {0, 3, 13, 22, 59, 150}, n \in {1, 6, 25}}
    \cup {Q("read", 3, n, 3, s, t) : n \in {2, 6}, s \in {1, 3}} : t \in 2..MaxOps}

MCInit == TreeInit /\ ops = 0 /\ steps = 0

Working == TreeStep /\ steps' = steps + 1 /\ UNCHANGED ops

\* In the largest variables fewer places are tried: both ends and the middle.
Large    == Len(bytes) >= 150
FarApart == {0, 59, 150}

Asking ==
  /\ ops < MaxOps /\ ops' = ops + 1 /\ steps' = 0
  /\ \E q \in Requests : q.tag = ops' /\ (Large => q.at \in FarApart \/ q.op = "read") /\ Submit(q)

\* The requests run out, or the program stopped: nothing else may stop it.
Over == ((Idle /\ ops = MaxOps) \/ err # "none") /\ UNCHANGED <<treeVars, ops, steps>>

MCNext == Working \/ Asking \/ Over
MCSpec == MCInit /\ [][MCNext]_<<treeVars, ops, steps>>

\* Every request is answered: no loop of the cursor waits for bytes, pages or
\* node updates that do not come, and nothing but what is known stops it on the
\* way.  (That it does not get stuck is checked as the absence of deadlocks.)
RequestsFinish == steps <= MaxSteps /\ NoOtherCrash
=============================================================================
