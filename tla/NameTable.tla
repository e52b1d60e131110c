----------------------------- MODULE NameTable -----------------------------
(***************************************************************************)
(* What nsfslite promises about the names of variables: calls take effect  *)
(* one after the other on a set of names.  A call that fails may or may    *)
(* not have taken effect, and touches no other name.                       *)
(***************************************************************************)
CONSTANTS
  Names,
  NoCall    \* no call is being served

VARIABLES
  names,    \* the variables that exist
  call,     \* the call being served
  done,     \* whether it has taken effect
  answer    \* the last answer

nameVars == <<names, call, done, answer>>

TableInit == names = {} /\ call = NoCall /\ done = FALSE /\ answer = NoCall

Ask(op, n) ==
  /\ call = NoCall
  /\ call' = [op |-> op, name |-> n]
  /\ done' = FALSE
  /\ UNCHANGED <<names, answer>>

TakeEffect ==
  /\ call # NoCall /\ ~done
  /\ \/ call.op = "new" /\ call.name \notin names /\ names' = names \cup {call.name}
     \/ call.op = "delete" /\ call.name \in names /\ names' = names \ {call.name}
  /\ done' = TRUE
  /\ UNCHANGED <<call, answer>>

Right(ret) ==
  CASE ret = "ok"        -> IF call.op = "get" THEN call.name \in names ELSE done
    [] ret = "duplicate" -> call.op = "new" /\ ~done /\ call.name \in names
    [] ret = "missing"   -> call.op # "new" /\ ~done /\ call.name \notin names
    [] ret = "failed"    -> TRUE

Reply(ret) ==
  /\ call # NoCall /\ Right(ret)
  /\ answer' = [op |-> call.op, name |-> call.name, ret |-> ret]
  /\ call' = NoCall /\ done' = FALSE
  /\ UNCHANGED names

TableNext ==
  \/ \E op \in {"new", "get", "delete"}, n \in Names : Ask(op, n)
  \/ TakeEffect
  \/ \E ret \in {"ok", "duplicate", "missing", "failed"} : Reply(ret)

TableSpec == TableInit /\ [][TableNext]_nameVars
=============================================================================
