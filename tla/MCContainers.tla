---------------------------- MODULE MCContainers ----------------------------
(***************************************************************************)
(* What a user of nsfslite keeps, checked in one run: the bytes of a       *)
(* variable in its tree, and the names of variables.  They share no state: *)
(* a behaviour is about one of them.                                       *)
(***************************************************************************)
EXTENDS MCRptCursor, Variables

VARIABLE about

bytesVars == <<treeVars, ops, steps>>

\* Two names of one chain, one of which needs two tail pages, and one of another.
MCNames == {<<1>>, <<2>>, <<1, 1, 2>>}
MCHash(n) == n[1]

BothInit == MCInit /\ VarInit /\ about \in {"bytes", "names"}

AboutBytes == about = "bytes" /\ MCNext /\ UNCHANGED <<varVars, about>>

\* The calls ran out and are answered, or the process died: nothing else may
\* stop the clients.
Rest ==
  /\ \/ vstep = "dead"
     \/ vcall = NoCall /\ txOf = Nobody /\ \A c \in Clients : vwait[c] = NoCall
  /\ UNCHANGED varVars

AboutNames == about = "names" /\ (VarNext \/ Rest) /\ UNCHANGED <<bytesVars, about>>

BothSpec == BothInit /\ [][AboutBytes \/ AboutNames]_<<bytesVars, varVars, about>>

\* The variables of both have their types.
BothTypeOK == TreeTypeOK /\ VarTypeOK
=============================================================================
