----------------------------- MODULE NsfsProofs -----------------------------
(***************************************************************************)
(* Proofs about the calls of nsfslite, for any number of threads, calls,   *)
(* cursors and updates: every cursor comes back, and what a call has ended *)
(* well is not touched by the error path of any other.                     *)
(*                                                                         *)
(* A call is at one of a few places, the steps it still has to take.  From *)
(* them the invariant tells who has the lock, whose transaction is whose,  *)
(* and who may still set the error that all calls share.                   *)
(***************************************************************************)
EXTENDS NsfsApi, FiniteSetTheorems, TLAPS

\* The places of a call, named for the step that is next.
Returning  == <<"return">>
Unlocking  == <<"unlock", "return">>
Freeing    == <<"free", "unlock", "return">>
Cleaning   == <<"cleanup", "free", "unlock", "return">>
Committing == <<"commit", "cleanup", "free", "unlock", "return">>
Changes1   == <<"work", "commit", "cleanup", "free", "unlock", "return">>
Beginning  == <<"begin", "work", "commit", "cleanup", "free", "unlock", "return">>
Opening    == <<"open", "begin", "work", "commit", "cleanup", "free", "unlock", "return">>
Reads1     == <<"work", "cleanup", "free", "unlock", "return">>
OpeningR   == <<"open", "work", "cleanup", "free", "unlock", "return">>
OpeningF   == <<"open", "cleanup", "free", "unlock", "return">>
StartingF  == <<"start", "open", "cleanup", "free", "unlock", "return">>
Undoing    == <<"rollback", "unlock", "return">>
Deleting   == <<"unlock", "free", "return">>
LateFree   == <<"free", "return">>
Begins     == <<"begin">>
Commits    == <<"commit", "unlock", "return">>

Locking   == {<<"lock">> \o s : s \in {Changing, Reading, StartingF, Begins}}
Starting  == {Changing, Reading, StartingF}
Working   == {Opening, Beginning, Changes1, Committing, OpeningR, Reads1, OpeningF, Cleaning}
GivingUp  == {Freeing, TakenBack, Undoing, Unlocking, Deleting}
Locked    == Starting \cup Working \cup GivingUp \cup {Begins, Commits}
Places    == Locking \cup Locked \cup {Returning, LateFree}

\* A cursor is given back on every way from there.
Frees == Working \cup {Freeing, TakenBack, Deleting, LateFree}

Calls == [op : Ops \cup {"none"}, todo : Places \cup {<< >>}, tx : Nat, own : BOOLEAN,
          need : BOOLEAN, cur : 0..2, good : BOOLEAN]
Txns  == [run : BOOLEAN, latch : {"free", "s", "x"}, made : 0..MaxUpdates, undo : Seq(Nat)]

\* What a call c at its place says of itself.
Placed(c) ==
  /\ c.op \in Ops /\ c.todo \in Places
  /\ c.op \in {"begin_txn", "commit"} => c.todo \notin Starting \cup Frees
  /\ c.op \in {"begin_txn", "commit"} /\ c.todo \in Locking => c.todo = <<"lock">> \o Begins
  /\ c.todo \in {TakenBack, Undoing} => c.op \in Edits /\ ~ c.good
  /\ c.todo \in {Deleting, LateFree} => ~ c.good
  /\ c.todo \in {Begins, <<"lock">> \o Begins} => c.op = "begin_txn"
  /\ c.todo = Commits => c.op = "commit"
  /\ c.cur # 0 => c.todo \in Frees

\* Whose transaction it works on; m is the one that its thread has begun.
Owned(c, m) ==
  /\ c.own => c.need /\ c.tx # NoTx
  /\ c.need => m = NoTx /\ c.op # "commit"
  /\ c.need /\ ~ c.own => c.tx = NoTx /\ c.todo \notin {Changes1, Committing}
  /\ c.need /\ c.op \in Changes => c.todo \notin {<<"lock">> \o Reading, Reading, OpeningR, Reads1}
  /\ ~ c.need => /\ c.tx # NoTx
                 /\ c.op = "commit" => m = IF c.todo = Commits THEN c.tx ELSE NoTx
                 /\ c.op # "commit" => c.op \in Changes /\ m = c.tx
                 /\ c.todo \notin Locking \cup {Changing, Opening, Beginning, Changes1, Committing, Begins}

\* The transaction that it began itself.
OwnTxn(c) ==
  c.own => /\ c.todo \notin Locking \cup Starting \cup {Opening, Beginning, OpeningR, Reads1, OpeningF, Begins}
           /\ c.todo \in {Changes1, Committing, TakenBack, Undoing} => txns[c.tx].run
           /\ c.todo = Cleaning => ~ err
           /\ c.todo = Cleaning \/ (c.good /\ c.todo \in {Freeing, Unlocking, Returning})
                => ~ txns[c.tx].run
           /\ c.good => Shown(c.tx)

CallOK(t)  == call[t] # Idle => Placed(call[t]) /\ Owned(call[t], mine[t]) /\ OwnTxn(call[t])
Holds(t)   == call[t].todo \in Locked \/ mine[t] # NoTx
TxnsOf(t)  == {call[t].tx, mine[t]} \ {NoTx}
OwnerOK(t) == /\ Holds(t) => dblock = t
              /\ mine[t] # NoTx => txns[mine[t]].run

NsfsInv ==
  /\ txns \in Seq(Txns) /\ call \in [Threads -> Calls] /\ mine \in [Threads -> Nat]
  /\ NsfsTypeOK
  /\ \A t \in Threads : CallOK(t) /\ OwnerOK(t)
  /\ \A t, u \in Threads : t # u => TxnsOf(t) \cap TxnsOf(u) = {}
  /\ SuccessStays

\* The cursors that the calls have.
HeldBy(calls) == {x \in Threads \X {1, 2} : x[2] <= calls[x[1]].cur}
Held == HeldBy(call)
CursorInv == IsFiniteSet(Held) /\ cursors = Cardinality(Held)

-----------------------------------------------------------------------------
(* The way from place to place. *)

LEMMA AfterFirst ==
  ASSUME NEW S, NEW e \in S, NEW s \in Seq(S)
  PROVE  <<e>> \o s # << >> /\ Head(<<e>> \o s) = e /\ Tail(<<e>> \o s) = s
<1>1. PICK l : l = <<e>> \o s
  OBVIOUS
<1>2. l \in Seq(S) /\ Len(l) = 1 + Len(s) /\ l[1] = e /\ \A i \in 1..Len(s) : l[i + 1] = s[i]
  BY <1>1
<1>3. Tail(l) \in Seq(S) /\ Len(Tail(l)) = Len(s) /\ \A i \in 1..Len(s) : Tail(l)[i] = s[i]
  BY <1>2
<1>4. Tail(l) = s
  BY <1>3
<1>5. l # << >> /\ Head(l) = e
  BY <1>2
<1> QED
  BY <1>1, <1>4, <1>5

\* The steps of a call; the lock comes first.
StepNames == {"start", "open", "begin", "work", "commit", "cleanup", "free", "unlock", "return", "lock"}
LEMMA AfterLock ==
  ASSUME NEW s \in {Changing, Reading, StartingF, Begins}
  PROVE  <<"lock">> \o s # << >> /\ Head(<<"lock">> \o s) = "lock" /\ Tail(<<"lock">> \o s) = s
<1>1. Begins \in Seq(StepNames) /\ "lock" \in StepNames
  BY DEF StepNames, Begins
<1>2. Changing \in Seq(StepNames)
  BY DEF StepNames, Changing
<1>3. Reading \in Seq(StepNames)
  BY DEF StepNames, Reading
<1>4. StartingF \in Seq(StepNames)
  BY DEF StepNames, StartingF
<1> QED
  BY <1>1, <1>2, <1>3, <1>4, AfterFirst

LEMMA Steps ==
  /\ Head(Returning) = "return" /\ Returning # << >>
  /\ Head(Unlocking) = "unlock" /\ Tail(Unlocking) = Returning /\ Unlocking # << >>
  /\ Head(Freeing) = "free" /\ Tail(Freeing) = Unlocking /\ Freeing # << >>
  /\ Head(Cleaning) = "cleanup" /\ Tail(Cleaning) = Freeing /\ Cleaning # << >>
  /\ Head(Committing) = "commit" /\ Tail(Committing) = Cleaning /\ Committing # << >>
  /\ Head(Changes1) = "work" /\ Tail(Changes1) = Committing /\ Changes1 # << >>
  /\ Head(Beginning) = "begin" /\ Tail(Beginning) = Changes1 /\ Beginning # << >>
  /\ Head(Opening) = "open" /\ Tail(Opening) = Beginning /\ Opening # << >>
  /\ Head(Changing) = "start" /\ Tail(Changing) = Opening /\ Changing # << >>
  /\ Head(Reads1) = "work" /\ Tail(Reads1) = Cleaning /\ Reads1 # << >>
  /\ Head(OpeningR) = "open" /\ Tail(OpeningR) = Reads1 /\ OpeningR # << >>
  /\ Head(Reading) = "start" /\ Tail(Reading) = OpeningR /\ Reading # << >>
  /\ Head(OpeningF) = "open" /\ Tail(OpeningF) = Cleaning /\ OpeningF # << >>
  /\ Head(StartingF) = "start" /\ Tail(StartingF) = OpeningF /\ StartingF # << >>
  /\ Head(Undoing) = "rollback" /\ Tail(Undoing) = Unlocking /\ Undoing # << >>
  /\ Head(TakenBack) = "free" /\ Tail(TakenBack) = Undoing /\ TakenBack # << >>
  /\ Head(Deleting) = "unlock" /\ Tail(Deleting) = LateFree /\ Deleting # << >>
  /\ Head(LateFree) = "free" /\ Tail(LateFree) = Returning /\ LateFree # << >>
  /\ Head(Begins) = "begin" /\ Begins # << >>
  /\ Head(Commits) = "commit" /\ Tail(Commits) = Unlocking /\ Commits # << >>
BY DEF Returning, Unlocking, Freeing, Cleaning, Committing, Changes1, Beginning, Opening, Changing,
       Reads1, OpeningR, Reading, OpeningF, StartingF, Undoing, TakenBack, Deleting, LateFree,
       Begins, Commits

\* The places are different.
LEMMA Distinct ==
  /\ Changing # Reading /\ Changing # StartingF /\ Reading # StartingF
  /\ Opening # OpeningR /\ Opening # OpeningF /\ OpeningR # OpeningF
  /\ Beginning # Begins /\ Committing # Commits /\ Changes1 # Reads1
  /\ Unlocking # Deleting
  /\ Freeing # TakenBack /\ Freeing # LateFree /\ TakenBack # LateFree
BY DEF Returning, Unlocking, Freeing, Cleaning, Committing, Changes1, Beginning, Opening, Changing,
       Reads1, OpeningR, Reading, OpeningF, StartingF, Undoing, TakenBack, Deleting, LateFree,
       Begins, Commits

\* Which places a step is taken at.
LEMMA AtStep ==
  ASSUME NEW s \in Places
  PROVE  /\ s # << >>
         /\ Head(s) = "lock" => s \in Locking /\ Tail(s) \in Starting \cup {Begins}
         /\ Head(s) = "start" => s \in Starting
         /\ Head(s) = "open" => s \in {Opening, OpeningR, OpeningF}
         /\ Head(s) = "begin" => s \in {Beginning, Begins}
         /\ Head(s) = "work" => s \in {Changes1, Reads1}
         /\ Head(s) = "commit" => s \in {Committing, Commits}
         /\ Head(s) = "cleanup" => s = Cleaning
         /\ Head(s) = "free" => s \in {Freeing, TakenBack, LateFree}
         /\ Head(s) = "rollback" => s = Undoing
         /\ Head(s) = "unlock" => s \in {Unlocking, Deleting}
         /\ Head(s) = "return" => s = Returning
<1>1. CASE s \in Locking
  <2>1. PICK r \in {Changing, Reading, StartingF, Begins} : s = <<"lock">> \o r
    BY <1>1 DEF Locking
  <2>2. s # << >> /\ Head(s) = "lock" /\ Tail(s) = r
    BY <2>1, AfterLock
  <2> QED
    BY <1>1, <2>2 DEF Starting
<1>2. CASE s \in Starting
  BY <1>2, Steps DEF Starting
<1>3. CASE s \in Working
  BY <1>3, Steps DEF Working
<1>4. CASE s \in GivingUp \cup {Begins, Commits, Returning, LateFree}
  BY <1>4, Steps DEF GivingUp
<1> QED
  BY <1>1, <1>2, <1>3, <1>4 DEF Places, Locked

\* What kinds of places they are.
LEMMA Kinds ==
  /\ \A s \in Locking : s \notin Locked \cup Frees \cup {<< >>, Returning, LateFree}
  /\ \A s \in Starting : s \notin Frees
  /\ Begins \notin Starting \cup Frees /\ Commits \notin Starting \cup Frees
  /\ Unlocking \notin Starting \cup Frees /\ Undoing \notin Starting \cup Frees
  /\ Returning \notin Locked \cup Frees /\ LateFree \notin Locked
  /\ << >> \notin Locked \cup Frees
<1>1. ASSUME NEW s \in Locking PROVE s \notin Locked \cup Frees \cup {<< >>, Returning, LateFree}
  <2>1. s # << >> /\ Head(s) = "lock"
    BY AfterLock DEF Locking
  <2> QED
    BY <2>1, Steps DEF Locked, Frees, Starting, Working, GivingUp
<1>2. ASSUME NEW s \in Starting PROVE s \notin Frees
  <2>1. Head(s) = "start"
    BY Steps DEF Starting
  <2> QED
    BY <2>1, Steps DEF Frees, Working
<1>3. Begins \notin Starting \cup Frees /\ Commits \notin Starting \cup Frees
  BY Steps, Distinct DEF Starting, Frees, Working
<1>4. Unlocking \notin Starting \cup Frees /\ Undoing \notin Starting \cup Frees
  BY Steps, Distinct DEF Starting, Frees, Working
<1>5. Returning \notin Locked \cup Frees /\ LateFree \notin Locked
  BY Steps, Distinct DEF Locked, Frees, Starting, Working, GivingUp
<1>6. << >> \notin Locked \cup Frees
  BY Steps DEF Locked, Frees, Starting, Working, GivingUp
<1> QED
  BY <1>1, <1>2, <1>3, <1>4, <1>5, <1>6

\* The ways of the calls.
LEMMA Ways ==
  ASSUME NEW op \in Ops
  PROVE  /\ op \in {"begin_txn", "commit", "get_id", "read", "fsize"} \cup Changes
         /\ op = "begin_txn" => Handlers[op].ok = Begins /\ Handlers[op].failed = Unlocking
         /\ op = "commit" => Handlers[op].ok = Commits /\ Handlers[op].failed = Unlocking
         /\ op \in Changes => Handlers[op].ok = Changing
         /\ op \in {"get_id", "read"} => Handlers[op].ok = Reading
         /\ op = "fsize" => Handlers[op].ok = StartingF
         /\ op \in Edits => Handlers[op].failed = TakenBack /\ Handlers[op].tree
         /\ op = "delete" => Handlers[op].failed = Deleting
         /\ op \in {"get_id", "read", "fsize", "new"} => Handlers[op].failed = Freeing
         /\ Handlers[op].cursors \in 0..2
<1>1. op \in {"begin_txn", "commit", "get_id", "read", "fsize"} \cup Changes
  BY NsfsAssumption DEF Handlers, Changes, Edits
<1> QED
  BY <1>1, SMTT(30) DEF Handlers, Changes, Edits, Handler, nsfslite_new, nsfslite_get_id, nsfslite_delete,
     nsfslite_fsize, nsfslite_begin_txn, nsfslite_commit, nsfslite_insert, nsfslite_write,
     nsfslite_read, nsfslite_remove, Begins, Commits, Unlocking, StartingF, GivenUp, Freeing, Deleting

-----------------------------------------------------------------------------
(***************************************************************************)
(* What a step of thread t has to show: what it makes of its own call and  *)
(* transaction, and that it leaves alone the lock, the error and the       *)
(* transactions of the others.                                             *)
(***************************************************************************)
LEMMA StepKeeps ==
  ASSUME NsfsInv, NEW t \in Threads, NEW d \in Calls, NEW m \in Nat,
         call' = [call EXCEPT ![t] = d], mine' = [mine EXCEPT ![t] = m],
         txns' \in Seq(Txns), Len(txns) <= Len(txns'), NsfsTypeOK',
         d # Idle => Placed(d) /\ Owned(d, m) /\ OwnTxn(d)',
         d.todo \in Locked \/ m # NoTx => dblock' = t,
         m # NoTx => txns'[m].run,
         dblock' = dblock \/ dblock \in {t, NoOne},
         err' => err \/ dblock = t,
         \A x \in {d.tx, m} \ {NoTx} : x \in TxnsOf(t) \/ x > Len(txns),
         \A x \in 1..Len(txns) : x \notin TxnsOf(t) =>
            /\ txns'[x] = txns[x]
            /\ \A n : <<x, n>> \in pages => <<x, n>> \in pages',
         \A x \in acked' : IF x \in TxnsOf(t) THEN ~ txns'[x].run /\ Shown(x)' ELSE x \in acked
  PROVE  NsfsInv'
<1>1. /\ call \in [Threads -> Calls] /\ mine \in [Threads -> Nat]
      /\ call'[t] = d /\ mine'[t] = m
      /\ \A u \in Threads \ {t} : call'[u] = call[u] /\ mine'[u] = mine[u]
      /\ call' \in [Threads -> Calls] /\ mine' \in [Threads -> Nat]
      /\ Len(txns) \in Nat
  BY DEF NsfsInv
<1>2. \A u \in Threads : \A x \in TxnsOf(u) : x \in 1..Len(txns)
  BY DEF NsfsInv, NsfsTypeOK, TxnsOf, NoTx
<1>3. ASSUME NEW u \in Threads \ {t}
      PROVE  /\ CallOK(u)' /\ OwnerOK(u)'
             /\ TxnsOf(u)' = TxnsOf(u) /\ TxnsOf(t)' \cap TxnsOf(u) = {}
  <2>1. CallOK(u) /\ OwnerOK(u) /\ TxnsOf(t) \cap TxnsOf(u) = {}
    BY DEF NsfsInv
  <2>2. \A x \in TxnsOf(u) : /\ txns'[x] = txns[x]
                             /\ \A n : <<x, n>> \in pages => <<x, n>> \in pages'
    BY <1>2, <2>1
  <2>3. PICK c, k : c = call[u] /\ k = mine[u]
    OBVIOUS
  <2>4. call'[u] = c /\ mine'[u] = k
    BY <1>1, <2>3
  <2>5. TxnsOf(u)' = TxnsOf(u)
    BY <2>3, <2>4 DEF TxnsOf
  <2>6. c.todo \in Locked \/ k # NoTx => dblock = u /\ dblock' = u /\ (err' => err)
    <3>1. u # NoOne
      BY NsfsAssumption
    <3> QED
      BY <2>1, <2>3, <3>1 DEF OwnerOK, Holds
  <2>7. OwnerOK(u)'
    <3>1. k # NoTx => k \in TxnsOf(u) /\ txns[k].run
      BY <2>1, <2>3 DEF OwnerOK, TxnsOf
    <3> QED
      BY <2>2, <2>4, <2>6, <3>1 DEF OwnerOK, Holds
  <2>8. CallOK(u)'
    <3> SUFFICES ASSUME c # Idle PROVE Placed(c) /\ Owned(c, k) /\ OwnTxn(c)'
      BY <2>4 DEF CallOK
    <3>1. Placed(c) /\ Owned(c, k) /\ OwnTxn(c)
      BY <2>1, <2>3 DEF CallOK
    <3>2. c.own => c.tx \in TxnsOf(u)
      BY <2>3, <3>1 DEF Owned, TxnsOf
    <3>3. c.own => (txns'[c.tx] = txns[c.tx]) /\ (Shown(c.tx) => Shown(c.tx)')
      BY <2>2, <3>2 DEF Shown
    <3>4. c.todo = Cleaning => (err' => err)
      BY <2>6 DEF Locked, Working
    <3>5. OwnTxn(c)'
      BY <3>1, <3>3, <3>4 DEF OwnTxn
    <3> QED
      BY <3>1, <3>5
  <2>9. TxnsOf(t)' \cap TxnsOf(u) = {}
    <3> SUFFICES ASSUME NEW x \in TxnsOf(t)' PROVE x \notin TxnsOf(u)
      OBVIOUS
    <3>1. x \in {d.tx, m} \ {NoTx}
      BY <1>1 DEF TxnsOf
    <3>2. CASE x > Len(txns)
      BY <1>1, <1>2, <3>2
    <3>3. CASE x \in TxnsOf(t)
      BY <2>1, <3>3
    <3> QED
      BY <3>1, <3>2, <3>3
  <2> QED
    BY <2>5, <2>7, <2>8, <2>9
<1>4. CallOK(t)' /\ OwnerOK(t)'
  BY <1>1 DEF CallOK, OwnerOK, Holds
<1>5. \A u, v \in Threads : u # v => TxnsOf(u)' \cap TxnsOf(v)' = {}
  <2> SUFFICES ASSUME NEW u \in Threads, NEW v \in Threads, u # v
               PROVE  TxnsOf(u)' \cap TxnsOf(v)' = {}
    OBVIOUS
  <2>1. TxnsOf(u) \cap TxnsOf(v) = {}
    BY DEF NsfsInv
  <2>2. CASE u # t /\ v # t
    BY <1>3, <2>1, <2>2
  <2>3. CASE u = t
    BY <1>3, <2>3
  <2>4. CASE v = t
    BY <1>3, <2>4
  <2> QED
    BY <2>2, <2>3, <2>4
<1>6. SuccessStays'
  <2> SUFFICES ASSUME NEW x \in acked' PROVE ~ txns'[x].run /\ Shown(x)'
    BY DEF SuccessStays
  <2>1. CASE x \notin TxnsOf(t)
    <3>1. x \in acked /\ x \in 1..Len(txns) /\ ~ txns[x].run /\ Shown(x)
      BY <2>1 DEF NsfsInv, NsfsTypeOK, SuccessStays
    <3> QED
      BY <2>1, <3>1 DEF Shown
  <2> QED
    BY <2>1
<1> QED
  BY <1>1, <1>3, <1>4, <1>5, <1>6 DEF NsfsInv

\* A step that does nothing to transactions and pages.
LEMMA QuietStep ==
  ASSUME NsfsInv, NEW t \in Threads, NEW d \in Calls,
         call' = [call EXCEPT ![t] = d], UNCHANGED <<mine, txns, pages>>,
         dblock' \in Threads \cup {NoOne}, {err', alive'} \subseteq BOOLEAN,
         cursors' \in 0..NCursors, d.tx \in {NoTx, call[t].tx, mine[t]},
         d # Idle => Placed(d) /\ Owned(d, mine[t]) /\ OwnTxn(d)',
         d.todo \in Locked \/ mine[t] # NoTx => dblock' = t,
         dblock' = dblock \/ dblock \in {t, NoOne},
         err' => err \/ dblock = t,
         acked' = acked \/ (\E x \in TxnsOf(t) : acked' = acked \cup {x} /\ ~ txns[x].run /\ Shown(x))
  PROVE  NsfsInv'
<1>1. PICK m : m = mine[t]
  OBVIOUS
<1>2. /\ m \in Nat /\ mine' = [mine EXCEPT ![t] = m] /\ txns' \in Seq(Txns) /\ Len(txns') = Len(txns)
      /\ Len(txns) \in Nat
  BY <1>1 DEF NsfsInv
<1>3. \A x \in TxnsOf(t) : x \in 1..Len(txns)
  BY DEF NsfsInv, NsfsTypeOK, TxnsOf, NoTx
<1>4. NsfsTypeOK'
  <2>1. ASSUME NEW u \in Threads PROVE mine'[u] \in 0..Len(txns) /\ call'[u].tx \in 0..Len(txns)
    BY DEF NsfsInv, NsfsTypeOK, NoTx
  <2>2. acked' \subseteq 1..Len(txns)
    <3>1. acked \subseteq 1..Len(txns)
      BY DEF NsfsInv, NsfsTypeOK
    <3> QED
      BY <1>3, <3>1
  <2> QED
    BY <2>1, <2>2 DEF NsfsInv, NsfsTypeOK
<1>5. \A x \in acked' : IF x \in TxnsOf(t) THEN ~ txns'[x].run /\ Shown(x)' ELSE x \in acked
  <2>1. \A x \in acked : ~ txns[x].run /\ Shown(x)
    BY DEF NsfsInv, SuccessStays
  <2> QED
    BY <2>1 DEF Shown
<1>6. m # NoTx => txns'[m].run
  BY <1>1 DEF NsfsInv, OwnerOK
<1>7. \A x \in {d.tx, m} \ {NoTx} : x \in TxnsOf(t)
  BY <1>1 DEF TxnsOf
<1>8. /\ d # Idle => Placed(d) /\ Owned(d, m) /\ OwnTxn(d)'
      /\ d.todo \in Locked \/ m # NoTx => dblock' = t
  BY <1>1
<1>9. \A x \in 1..Len(txns) : x \notin TxnsOf(t) =>
         txns'[x] = txns[x] /\ \A n : <<x, n>> \in pages => <<x, n>> \in pages'
  OBVIOUS
<1>10. \A x \in {d.tx, m} \ {NoTx} : x \in TxnsOf(t) \/ x > Len(txns)
  BY <1>7
<1>11. Len(txns) <= Len(txns')
  BY <1>2
<1> QED
  BY <1>2, <1>4, <1>5, <1>6, <1>8, <1>9, <1>10, <1>11, StepKeeps

-----------------------------------------------------------------------------
(* A step is taken by a call that has begun. *)
LEMMA AtPlace ==
  ASSUME NsfsInv, NEW t \in Threads, NEW step, Stands(t, step)
  PROVE  /\ call[t] \in Calls /\ call[t] # Idle /\ mine[t] \in Nat /\ call[t].op \in Ops
         /\ Placed(call[t]) /\ Owned(call[t], mine[t]) /\ OwnTxn(call[t])
         /\ call[t].todo \in Places /\ Head(call[t].todo) = step
         /\ call[t].todo \in Locked \/ mine[t] # NoTx => dblock = t
         /\ call[t].todo \notin Locked \cup Frees => call[t].cur = 0
         /\ mine[t] # NoTx => txns[mine[t]].run
         /\ call[t].tx # NoTx => call[t].tx \in 1..Len(txns) /\ txns[call[t].tx] \in Txns
         /\ dblock \in Threads \cup {NoOne} /\ err \in BOOLEAN /\ alive = TRUE
         /\ cursors \in 0..NCursors /\ Len(txns) \in Nat
<1>1. call[t] \in Calls /\ mine[t] \in Nat /\ Len(txns) \in Nat /\ CallOK(t) /\ OwnerOK(t)
  BY DEF NsfsInv
<1>2. call[t] # Idle
  BY DEF Stands, Idle
<1>3. Placed(call[t]) /\ Owned(call[t], mine[t]) /\ OwnTxn(call[t])
  BY <1>1, <1>2 DEF CallOK
<1>4. call[t].tx # NoTx => call[t].tx \in 1..Len(txns) /\ txns[call[t].tx] \in Txns
  <2>1. call[t].tx \in 0..Len(txns) /\ txns \in Seq(Txns)
    BY DEF NsfsInv, NsfsTypeOK
  <2> QED
    BY <1>1, <2>1 DEF NoTx
<1>5. dblock \in Threads \cup {NoOne} /\ err \in BOOLEAN /\ alive = TRUE /\ cursors \in 0..NCursors
  BY DEF NsfsInv, NsfsTypeOK, Stands
<1>6. Head(call[t].todo) = step
  BY DEF Stands
<1> QED
  BY <1>1, <1>2, <1>3, <1>4, <1>5, <1>6 DEF Placed, OwnerOK, Holds

\* A call d is call c gone on, or at its error path, with k cursors.
GoesOn(c, d, k, g) == d = [c EXCEPT !.todo = Tail(c.todo), !.cur = k, !.good = g]
TurnsTo(c, d, k)   == d = [c EXCEPT !.todo = Handlers[c.op].failed, !.good = FALSE, !.cur = k]

\* Where the error path of a call begins.
LEMMA FailPlace ==
  ASSUME NEW c \in Calls, NEW m, Placed(c), Owned(c, m),
         c.todo \in Starting \cup Working \cup {Begins, Commits},
         NEW k \in 0..2, k # 0 => c.todo \notin {Begins, Commits},
         NEW d, TurnsTo(c, d, k)
  PROVE  /\ d \in Calls /\ d # Idle /\ d.todo \in {Freeing, TakenBack, Deleting, Unlocking}
         /\ d.todo \in Locked /\ d.own = c.own /\ d.tx = c.tx /\ d.op = c.op /\ ~ d.good
         /\ Placed(d) /\ Owned(d, IF c.todo = Commits THEN NoTx ELSE m)
<1>1. /\ d.todo = Handlers[c.op].failed /\ ~ d.good /\ d.cur = k /\ d.op = c.op /\ d.own = c.own
      /\ d.tx = c.tx /\ d.need = c.need /\ c.op \in Ops
  BY DEF Calls, Placed, TurnsTo
<1>2. c.op \in {"begin_txn", "commit"} => c.todo \in {Begins, Commits}
  BY DEF Placed, Frees
<1>3. /\ d.todo \in {Freeing, TakenBack, Deleting, Unlocking}
      /\ d.todo = Unlocking <=> c.op \in {"begin_txn", "commit"}
      /\ d.todo = TakenBack => c.op \in Edits
  <2>1. Unlocking \notin {Freeing, TakenBack, Deleting} /\ Freeing # TakenBack /\ TakenBack # Deleting
    BY Steps, Distinct
  <2> QED
    BY <1>1, <2>1, Ways DEF Changes, Edits
<1>4. d.todo \notin Starting \cup Working \cup {Undoing, LateFree, Begins, Commits}
  <2>1. Head(d.todo) \in {"free", "unlock"}
    BY <1>3, Steps
  <2>2. \A s \in Starting \cup Working \cup {Undoing, Begins, Commits} : Head(s) \notin {"free", "unlock"}
    BY Steps DEF Starting, Working
  <2>3. d.todo # LateFree
    BY <1>3, Steps, Distinct
  <2> QED
    BY <2>1, <2>2, <2>3
<1>5. d.todo \notin Locking /\ d.todo # << >> /\ d.todo \in Locked /\ d.todo \in Places
  <2>1. d.todo \in Locked
    BY <1>3 DEF Locked, GivingUp
  <2> QED
    BY <2>1, Kinds DEF Places
<1>6. d.todo # Unlocking => d.todo \in Frees
  BY <1>3 DEF Frees
<1>7. d \in Calls /\ d # Idle
  <2>1. d \in Calls
    BY <1>1, <1>5 DEF Calls, TurnsTo
  <2> QED
    BY <1>1, <1>5, <2>1 DEF Idle
<1>8. Placed(d)
  <2>1. Unlocking \notin Starting \cup Frees
    BY Kinds
  <2>2. c.op \notin {"begin_txn", "commit"} => d.todo \in Frees
    BY <1>3, <1>6
  <2>3. k # 0 => c.op \notin {"begin_txn", "commit"}
    BY <1>2
  <2>4. d.todo # <<"lock">> \o Begins
    BY <1>5 DEF Locking
  <2> QED
    BY <1>1, <1>3, <1>4, <1>5, <2>1, <2>2, <2>3, <2>4 DEF Placed
<1>9. Owned(d, IF c.todo = Commits THEN NoTx ELSE m)
  <2>1. d.todo \notin {Changing, Opening, Beginning, Changes1, Committing, Reading, OpeningR, Reads1}
    BY <1>4 DEF Starting, Working
  <2>0. d.todo # <<"lock">> \o Reading
    BY <1>5 DEF Locking
  <2>2. c.op = "commit" => c.todo = Commits
    BY <1>2 DEF Placed
  <2>3. c.todo = Commits => c.op = "commit"
    BY DEF Placed
  <2> QED
    BY <1>1, <1>4, <1>5, <2>0, <2>1, <2>2, <2>3 DEF Owned
<1> QED
  BY <1>1, <1>3, <1>5, <1>7, <1>8, <1>9

\* The ways from place to place after the lock.
Arrivals == {Opening, OpeningR, OpeningF, Beginning, Committing, Cleaning, Reads1, Freeing,
             Unlocking, Undoing, Returning, LateFree}
Leads(s, r) == \/ s = Changing   /\ r = Opening
               \/ s = Reading    /\ r = OpeningR
               \/ s = StartingF  /\ r = OpeningF
               \/ s = Opening    /\ r = Beginning
               \/ s = Changes1   /\ r = Committing
               \/ s = Committing /\ r = Cleaning
               \/ s = OpeningR   /\ r = Reads1
               \/ s \in {Reads1, OpeningF} /\ r = Cleaning
               \/ s = Cleaning   /\ r = Freeing
               \/ s = Freeing    /\ r = Unlocking
               \/ s = TakenBack  /\ r = Undoing
               \/ s = Undoing    /\ r = Unlocking
               \/ s = Unlocking  /\ r = Returning
               \/ s = Deleting   /\ r = LateFree
               \/ s = LateFree   /\ r = Returning

LEMMA Departs ==
  ASSUME NEW q \in {Changing, Reading, StartingF, Begins}
  PROVE  q \notin {Opening, OpeningR, OpeningF, Beginning, Committing, Reads1, Undoing, LateFree,
                   Changes1, Commits, TakenBack, Deleting}
BY DEF Returning, Unlocking, Freeing, Cleaning, Committing, Changes1, Beginning, Opening, Changing,
     Reads1, OpeningR, Reading, OpeningF, StartingF, Undoing, TakenBack, Deleting, LateFree,
     Begins, Commits

LEMMA Arrives ==
  ASSUME NEW r \in Arrivals
  PROVE  /\ r \in Places \ Locking
         /\ r \notin {Changes1, Commits, TakenBack, Deleting, Begins, Changing, Reading, StartingF}
<1>1. r \notin {Changes1, Commits, TakenBack, Deleting, Begins, Changing, Reading, StartingF}
  BY DEF Arrivals, Returning, Unlocking, Freeing, Cleaning, Committing, Changes1, Beginning, Opening, Changing,
     Reads1, OpeningR, Reading, OpeningF, StartingF, Undoing, TakenBack, Deleting, LateFree,
     Begins, Commits
<1>2. Head(r) # "lock"
  BY Steps DEF Arrivals
<1>3. r \notin Locking
  BY <1>2, AfterLock DEF Locking
<1>4. r \in Places
  BY DEF Arrivals, Places, Locked, Working, GivingUp
<1> QED
  BY <1>1, <1>3, <1>4

LEMMA LeadsTo ==
  ASSUME NEW s, NEW r, Leads(s, r)
  PROVE  /\ r \in Arrivals
         /\ r = Undoing => s = TakenBack
         /\ r = LateFree => s = Deleting
         /\ r \in {Opening, OpeningR, OpeningF} => s \in {Changing, Reading, StartingF}
         /\ r = Opening => s = Changing
         /\ r = OpeningR => s = Reading
         /\ r = Beginning => s = Opening
         /\ r = Reads1 => s = OpeningR
         /\ r = Committing => s = Changes1
<1>1. r \in Arrivals
  BY DEF Leads, Arrivals
<1>2. /\ r = Undoing => s = TakenBack
      /\ r = LateFree => s = Deleting
      /\ r \in {Opening, OpeningR, OpeningF} => s \in {Changing, Reading, StartingF}
  BY DEF Leads, Returning, Unlocking, Freeing, Cleaning, Committing, Changes1, Beginning, Opening, Changing,
     Reads1, OpeningR, Reading, OpeningF, StartingF, Undoing, TakenBack, Deleting, LateFree,
     Begins, Commits
<1>3. /\ r = Opening => s = Changing
      /\ r = OpeningR => s = Reading
      /\ r = Beginning => s = Opening
  BY DEF Leads, Returning, Unlocking, Freeing, Cleaning, Committing, Changes1, Beginning, Opening, Changing,
     Reads1, OpeningR, Reading, OpeningF, StartingF, Undoing, TakenBack, Deleting, LateFree,
     Begins, Commits
<1>4. /\ r = Reads1 => s = OpeningR
      /\ r = Committing => s = Changes1
  BY DEF Leads, Returning, Unlocking, Freeing, Cleaning, Committing, Changes1, Beginning, Opening, Changing,
     Reads1, OpeningR, Reading, OpeningF, StartingF, Undoing, TakenBack, Deleting, LateFree,
     Begins, Commits
<1> QED
  BY <1>1, <1>2, <1>3, <1>4

\* The places that follow.
LEMMA Follows ==
  ASSUME NEW s \in Places \ {Beginning, Begins, Returning, Commits}, NEW r, r = Tail(s)
  PROVE  /\ r \in Places \ Locking /\ r \notin {Changes1, Commits, TakenBack, Deleting}
         /\ r \in Starting \cup {Begins} => s = <<"lock">> \o r
         /\ r = Undoing => s = TakenBack
         /\ r = LateFree => s = Deleting
         /\ r \in {Opening, OpeningR, OpeningF} => s \in Starting
         /\ r = Beginning => s = Opening
         /\ r = Opening => s = Changing
         /\ r = OpeningR => s = Reading
         /\ r = Reads1 => s = OpeningR
         /\ r = Committing => s = Changes1
         /\ s \in {Unlocking, LateFree} => r = Returning
         /\ s = Undoing => r = Unlocking
<1>1. CASE s \in Locking
  <2>1. PICK q \in {Changing, Reading, StartingF, Begins} : s = <<"lock">> \o q
    BY <1>1 DEF Locking
  <2>2. r = q
    BY <2>1, AfterLock
  <2>3. q \in Places \ Locking
    <3>1. q \in Locked
      BY <2>1 DEF Locked, Starting
    <3> QED
      BY <3>1, Kinds DEF Places
  <2>4. q \notin {Opening, OpeningR, OpeningF, Beginning, Committing, Reads1, Undoing, LateFree,
                  Changes1, Commits, TakenBack, Deleting}
    BY <2>1, Departs
  <2>5. s \notin {Unlocking, LateFree, Undoing}
    BY <1>1, Kinds DEF Locked, GivingUp
  <2> QED
    BY <2>1, <2>2, <2>3, <2>4, <2>5
<1>2. CASE s \notin Locking
  <2>1. s \in {Changing, Reading, StartingF, Opening, Changes1, Committing, OpeningR, Reads1, OpeningF,
               Cleaning, Freeing, TakenBack, Undoing, Unlocking, Deleting, LateFree}
    BY <1>2 DEF Places, Locked, Starting, Working, GivingUp
  <2>2. Leads(s, r)
    <3>1. /\ Tail(Changing) = Opening /\ Tail(Reading) = OpeningR /\ Tail(StartingF) = OpeningF
          /\ Tail(Opening) = Beginning /\ Tail(Changes1) = Committing /\ Tail(Committing) = Cleaning
          /\ Tail(OpeningR) = Reads1 /\ Tail(Reads1) = Cleaning /\ Tail(OpeningF) = Cleaning
          /\ Tail(Cleaning) = Freeing /\ Tail(Freeing) = Unlocking /\ Tail(TakenBack) = Undoing
          /\ Tail(Undoing) = Unlocking /\ Tail(Unlocking) = Returning /\ Tail(Deleting) = LateFree
          /\ Tail(LateFree) = Returning
      BY Steps
    <3> QED
      BY <2>1, <3>1, ZenonT(30) DEF Leads
  <2>3. r \in Places \ Locking /\ r \notin {Changes1, Commits, TakenBack, Deleting}
    BY <2>2, LeadsTo, Arrives
  <2>4. r \notin Starting \cup {Begins}
    BY <2>2, LeadsTo, Arrives DEF Starting
  <2>5. r \in {Opening, OpeningR, OpeningF} => s \in Starting
    BY <2>2, LeadsTo DEF Starting
  <2>6. s \in {Unlocking, LateFree} => r = Returning
    BY Steps
  <2>7. s = Undoing => r = Unlocking
    BY Steps
  <2> QED
    <3>1. /\ r = Undoing => s = TakenBack
          /\ r = LateFree => s = Deleting
          /\ r = Opening => s = Changing
          /\ r = OpeningR => s = Reading
          /\ r = Beginning => s = Opening
          /\ r = Reads1 => s = OpeningR
          /\ r = Committing => s = Changes1
      BY <2>2, LeadsTo, Zenon
    <3> QED
      BY <2>3, <2>4, <2>5, <2>6, <2>7, <3>1
<1> QED
  BY <1>1, <1>2

\* What a call is at the place that follows.
LEMMA NextPlace ==
  ASSUME NEW c \in Calls, NEW m, Placed(c), Owned(c, m),
         c.todo \notin {Beginning, Begins, Returning, Commits},
         NEW k \in 0..2, k # 0 => Tail(c.todo) \in Frees,
         NEW g \in BOOLEAN, g => c.good \/ c.todo \in Starting,
         NEW d, GoesOn(c, d, k, g)
  PROVE  /\ d \in Calls /\ d # Idle /\ Placed(d) /\ Owned(d, m)
         /\ d.todo = Tail(c.todo) /\ d.cur = k /\ d.good = g
         /\ d.op = c.op /\ d.tx = c.tx /\ d.own = c.own /\ d.need = c.need
         /\ d.todo \in Places \ Locking
<1>1. /\ d.todo = Tail(c.todo) /\ d.good = g /\ d.cur = k /\ d.op = c.op /\ d.own = c.own
      /\ d.tx = c.tx /\ d.need = c.need /\ c.op \in Ops /\ c.todo \in Places
  BY DEF Calls, Placed, GoesOn
<1>2. PICK r : r = d.todo
  OBVIOUS
<1>3. r \in Places \ Locking /\ r \notin {Changes1, Commits, TakenBack, Deleting}
  BY <1>1, <1>2, Follows
<1>4. d \in Calls /\ d # Idle
  <2>1. d \in Calls
    BY <1>1, <1>2, <1>3 DEF Calls, GoesOn
  <2>2. r # << >>
    BY <1>3, AtStep
  <2> QED
    BY <1>2, <2>1, <2>2 DEF Idle
<1>5. Placed(d)
  <2>1. ASSUME c.op \in {"begin_txn", "commit"} PROVE r \notin Starting \cup Frees
    <3>1. CASE c.todo \in Locking
      <4>1. c.todo = <<"lock">> \o Begins
        BY <2>1, <3>1 DEF Placed
      <4>2. r = Begins
        BY <1>1, <1>2, <4>1, AfterLock
      <4> QED
        BY <4>2, Kinds
    <3>2. CASE c.todo \notin Locking
      <4>1. c.todo \notin Starting \cup Frees
        BY <2>1 DEF Placed
      <4>2. c.todo # Undoing
        BY <2>1 DEF Placed, Edits
      <4>3. c.todo = Unlocking
        BY <1>1, <3>2, <4>1, <4>2 DEF Places, Locked, GivingUp, Frees
      <4>4. r = Returning
        BY <1>1, <1>2, <4>3, Steps
      <4>5. Returning \notin Starting
        BY Kinds DEF Locked
      <4> QED
        BY <4>4, <4>5, Kinds
    <3> QED
      BY <3>1, <3>2
  <2>2. r = Undoing => c.op \in Edits /\ ~ g
    <3> SUFFICES ASSUME r = Undoing PROVE c.op \in Edits /\ ~ g
      OBVIOUS
    <3>1. c.todo = TakenBack
      BY <1>1, <1>2, Follows
    <3>2. TakenBack \notin Starting
      BY Kinds DEF Frees
    <3> QED
      BY <3>1, <3>2 DEF Placed
  <2>3. r = LateFree => ~ g
    <3> SUFFICES ASSUME r = LateFree PROVE ~ g
      OBVIOUS
    <3>1. c.todo = Deleting
      BY <1>1, <1>2, Follows
    <3>2. Deleting \notin Starting
      BY Kinds DEF Frees
    <3> QED
      BY <3>1, <3>2 DEF Placed
  <2>4. r = Begins => c.op = "begin_txn"
    <3> SUFFICES ASSUME r = Begins PROVE c.op = "begin_txn"
      OBVIOUS
    <3>1. c.todo = <<"lock">> \o Begins
      BY <1>1, <1>2, Follows
    <3> QED
      BY <3>1 DEF Placed
  <2>5. r # <<"lock">> \o Begins
    BY <1>3 DEF Locking
  <2> QED
    BY <1>1, <1>2, <1>3, <2>1, <2>2, <2>3, <2>4, <2>5 DEF Placed
<1>6. Owned(d, m)
  <2>1. /\ r = Committing => c.todo = Changes1
        /\ r = Reading => c.todo = <<"lock">> \o Reading
        /\ r = OpeningR => c.todo = Reading
        /\ r = Reads1 => c.todo = OpeningR
    <3>1. r = Tail(c.todo) /\ c.todo \in Places \ {Beginning, Begins, Returning, Commits}
      BY <1>1, <1>2
    <3>2. r \in Starting \cup {Begins} => c.todo = <<"lock">> \o r
      BY <3>1, Follows
    <3>3. Reading \in Starting
      BY DEF Starting
    <3> QED
      BY <3>1, <3>2, <3>3, Follows
  <2>2. /\ r = Opening => c.todo = Changing
        /\ r = Beginning => c.todo = Opening
        /\ r \in {Changing, Begins} => c.todo \in Locking
    BY <1>1, <1>2, Follows DEF Starting, Locking
  <2>3. r # <<"lock">> \o Reading
    BY <1>3 DEF Locking
  <2>4. c.own => c.need /\ c.tx # NoTx
    BY DEF Owned
  <2>5. c.need => m = NoTx /\ c.op # "commit"
    BY DEF Owned
  <2>6. c.need /\ ~ c.own => c.tx = NoTx /\ r \notin {Changes1, Committing}
    BY <1>3, <2>1 DEF Owned
  <2>7. c.need /\ c.op \in Changes => r \notin {<<"lock">> \o Reading, Reading, OpeningR, Reads1}
    BY <2>1, <2>3 DEF Owned
  <2>8. ~ c.need => /\ c.tx # NoTx
                    /\ c.op = "commit" => m = IF r = Commits THEN c.tx ELSE NoTx
                    /\ c.op # "commit" => c.op \in Changes /\ m = c.tx
    BY <1>3 DEF Owned
  <2>9. ~ c.need => r \notin Locking \cup {Changing, Opening, Beginning, Changes1, Committing, Begins}
    BY <1>3, <2>1, <2>2 DEF Owned
  <2> QED
    BY <1>1, <1>2, <2>4, <2>5, <2>6, <2>7, <2>8, <2>9 DEF Owned
<1> QED
  BY <1>1, <1>2, <1>3, <1>4, <1>5, <1>6

-----------------------------------------------------------------------------
(* Steps that leave transactions and pages alone. *)

\* What a call keeps of its own transaction when it goes on.
LEMMA OwnNext ==
  ASSUME NEW c \in Calls, Placed(c), OwnTxn(c), UNCHANGED <<txns, pages>>,
         c.todo \notin {Beginning, Begins, Returning, Commits, Committing},
         NEW d, d.todo = Tail(c.todo), d.own = c.own, d.tx = c.tx,
         d.good => c.good \/ c.todo \in Starting
  PROVE  OwnTxn(d)'
<1> SUFFICES ASSUME c.own PROVE OwnTxn(d)'
  BY DEF OwnTxn
<1>1. c.todo \in Places /\ c.todo \notin Starting
  BY DEF OwnTxn, Placed
<1>2. PICK r : r = d.todo
  OBVIOUS
<1>3. \/ c.todo = Changes1 /\ r = Committing
      \/ c.todo = Cleaning /\ r = Freeing
      \/ c.todo = Freeing /\ r = Unlocking
      \/ c.todo = TakenBack /\ r = Undoing
      \/ c.todo = Undoing /\ r = Unlocking
      \/ c.todo = Unlocking /\ r = Returning
      \/ c.todo = Deleting /\ r = LateFree
      \/ c.todo = LateFree /\ r = Returning
  <2>1. c.todo \in {Changes1, Cleaning, Freeing, TakenBack, Undoing, Unlocking, Deleting, LateFree}
    BY <1>1 DEF OwnTxn, Places, Locked, Starting, Working, GivingUp
  <2>2. /\ Tail(Changes1) = Committing /\ Tail(Cleaning) = Freeing /\ Tail(Freeing) = Unlocking
        /\ Tail(TakenBack) = Undoing /\ Tail(Undoing) = Unlocking /\ Tail(Unlocking) = Returning
        /\ Tail(Deleting) = LateFree /\ Tail(LateFree) = Returning
    BY Steps
  <2> QED
    BY <1>2, <2>1, <2>2
<1>4. r \in Places \ Locking /\ r \notin Starting \cup {Opening, Beginning, OpeningR, Reads1, OpeningF, Begins}
  <2>1. r \in Places \ Locking
    BY <1>1, <1>2, Follows
  <2>2. Head(r) \in {"commit", "free", "unlock", "rollback", "return"}
    BY <1>3, Steps
  <2> QED
    BY <2>1, <2>2, Steps DEF Starting
<1>5. d.good => c.good
  BY <1>1
<1>6. r \in {Changes1, Committing, TakenBack, Undoing} => txns[c.tx].run
  <2>1. r \in {Changes1, Committing, TakenBack, Undoing} => c.todo \in {Changes1, TakenBack}
    <3>1. PICK s \in Places \ {Beginning, Begins, Returning, Commits} : s = c.todo /\ r = Tail(s)
      BY <1>1, <1>2
    <3>2. /\ r \notin {Changes1, TakenBack}
          /\ r = Undoing => s = TakenBack
          /\ r = Committing => s = Changes1
      BY <3>1, Follows
    <3> QED
      BY <3>1, <3>2
  <2> QED
    BY <2>1 DEF OwnTxn
<1>7. r # Cleaning
  BY <1>3, Steps
<1>8. d.good /\ r \in {Freeing, Unlocking, Returning} => ~ txns[c.tx].run
  <2> SUFFICES ASSUME d.good, r \in {Freeing, Unlocking, Returning} PROVE ~ txns[c.tx].run
    OBVIOUS
  <2>1. c.todo \notin {TakenBack, Undoing, Deleting, LateFree}
    BY <1>5 DEF Placed
  <2>2. c.todo # Changes1
    BY <1>2, Steps
  <2>3. c.todo \in {Cleaning, Freeing, Unlocking}
    BY <1>3, <2>1, <2>2
  <2> QED
    BY <1>5, <2>3 DEF OwnTxn
<1>9. d.good => Shown(c.tx)
  BY <1>5 DEF OwnTxn
<1> QED
  BY <1>2, <1>4, <1>6, <1>7, <1>8, <1>9 DEF OwnTxn, Shown

\* A call goes on.
LEMMA QuietNext ==
  ASSUME NsfsInv, NEW t \in Threads, NEW step, Stands(t, step),
         call[t].todo \notin {Beginning, Begins, Returning, Commits, Committing},
         NEW k \in 0..2, k # 0 => Tail(call[t].todo) \in Frees,
         NEW g \in BOOLEAN, g => call[t].good \/ call[t].todo \in Starting,
         call' = [call EXCEPT ![t] = [call[t] EXCEPT !.todo = Tail(call[t].todo), !.cur = k, !.good = g]],
         UNCHANGED <<mine, txns, pages, alive, acked>>,
         cursors' \in 0..NCursors, err' \in BOOLEAN, err' => err \/ call[t].todo \in Locked,
         dblock' \in Threads \cup {NoOne}, dblock' = dblock \/ dblock \in {t, NoOne},
         Tail(call[t].todo) \in Locked \/ mine[t] # NoTx => dblock' = t
  PROVE  NsfsInv'
<1>1. PICK d : d = [call[t] EXCEPT !.todo = Tail(call[t].todo), !.cur = k, !.good = g]
  OBVIOUS
<1>2. /\ call[t] \in Calls /\ Placed(call[t]) /\ Owned(call[t], mine[t]) /\ OwnTxn(call[t])
      /\ call[t].todo \in Locked => dblock = t
      /\ alive = TRUE
  BY AtPlace
<1>3. /\ d \in Calls /\ d # Idle /\ Placed(d) /\ Owned(d, mine[t]) /\ d.todo = Tail(call[t].todo)
      /\ d.good = g /\ d.tx = call[t].tx /\ d.own = call[t].own
  <2>1. PICK c, m : c = call[t] /\ m = mine[t]
    OBVIOUS
  <2>2. /\ c \in Calls /\ Placed(c) /\ Owned(c, m)
        /\ c.todo \notin {Beginning, Begins, Returning, Commits}
        /\ k # 0 => Tail(c.todo) \in Frees
        /\ g => c.good \/ c.todo \in Starting
        /\ GoesOn(c, d, k, g)
    BY <1>1, <1>2, <2>1 DEF GoesOn
  <2>3. /\ d \in Calls /\ d # Idle /\ Placed(d) /\ Owned(d, m) /\ d.todo = Tail(c.todo)
        /\ d.good = g /\ d.tx = c.tx /\ d.own = c.own
    BY <2>2, NextPlace
  <2> QED
    BY <2>1, <2>3
<1>4. OwnTxn(d)'
  BY <1>2, <1>3, OwnNext
<1>5. call' = [call EXCEPT ![t] = d]
  BY <1>1
<1>6. err' => err \/ dblock = t
  BY <1>2
<1>7. {err', alive'} \subseteq BOOLEAN
  BY <1>2
<1>8. d.todo \in Locked \/ mine[t] # NoTx => dblock' = t
  BY <1>3
<1>9. UNCHANGED <<mine, txns, pages>> /\ acked' = acked /\ d.tx \in {NoTx, call[t].tx, mine[t]}
  BY <1>3
<1> QED
  BY <1>3, <1>4, <1>5, <1>6, <1>7, <1>8, <1>9, QuietStep

\* A call turns to its error path.
LEMMA QuietFail ==
  ASSUME NsfsInv, NEW t \in Threads, NEW step, Stands(t, step),
         call[t].todo \in Starting \cup Working \cup {Begins}, call[t].todo = Cleaning => err,
         NEW k \in 0..2, k # 0 => call[t].todo # Begins,
         call' = [call EXCEPT ![t] = [call[t] EXCEPT !.todo = Handlers[call[t].op].failed,
                                                     !.good = FALSE, !.cur = k]],
         UNCHANGED <<mine, txns, pages, alive, acked, dblock>>,
         cursors' \in 0..NCursors, err' \in BOOLEAN
  PROVE  NsfsInv'
<1>1. PICK d : d = [call[t] EXCEPT !.todo = Handlers[call[t].op].failed, !.good = FALSE, !.cur = k]
  OBVIOUS
<1>2. /\ call[t] \in Calls /\ Placed(call[t]) /\ Owned(call[t], mine[t]) /\ OwnTxn(call[t])
      /\ call[t].todo \in Locked \/ mine[t] # NoTx => dblock = t
      /\ alive = TRUE /\ dblock \in Threads \cup {NoOne}
  BY AtPlace
<1>3. dblock = t
  BY <1>2 DEF Locked
<1>4. Commits \notin Starting \cup Working \cup {Begins}
  BY Kinds, Steps DEF Frees
<1>5. /\ d \in Calls /\ d # Idle /\ Placed(d) /\ Owned(d, mine[t])
      /\ d.todo \in {Freeing, TakenBack, Deleting, Unlocking}
      /\ ~ d.good /\ d.tx = call[t].tx /\ d.own = call[t].own
  <2>1. PICK c, m : c = call[t] /\ m = mine[t]
    OBVIOUS
  <2>2. /\ c \in Calls /\ Placed(c) /\ Owned(c, m)
        /\ c.todo \in Starting \cup Working \cup {Begins, Commits} /\ c.todo # Commits
        /\ k # 0 => c.todo \notin {Begins, Commits}
        /\ TurnsTo(c, d, k)
    BY <1>1, <1>2, <1>4, <2>1 DEF TurnsTo
  <2>3. /\ d \in Calls /\ d # Idle /\ Placed(d) /\ Owned(d, IF c.todo = Commits THEN NoTx ELSE m)
        /\ d.todo \in {Freeing, TakenBack, Deleting, Unlocking}
        /\ ~ d.good /\ d.tx = c.tx /\ d.own = c.own
    BY <2>2, FailPlace
  <2> QED
    BY <2>1, <2>2, <2>3
<1>6. OwnTxn(d)'
  <2> SUFFICES ASSUME call[t].own PROVE OwnTxn(d)'
    BY <1>5 DEF OwnTxn
  <2>1. call[t].todo \in {Changes1, Committing, Cleaning, Begins}
    BY <1>2 DEF OwnTxn, Working
  <2>2. call[t].todo \in {Changes1, Committing}
    <3>1. call[t].todo # Cleaning
      BY <1>2 DEF OwnTxn
    <3>2. call[t].todo # Begins
      BY <1>2 DEF OwnTxn
    <3> QED
      BY <2>1, <3>1, <3>2
  <2>3. txns[call[t].tx].run
    BY <1>2, <2>2 DEF OwnTxn
  <2>4. d.todo \notin Locking \cup Starting \cup {Opening, Beginning, OpeningR, Reads1, OpeningF, Cleaning, Begins}
    <3>1. Head(d.todo) \in {"free", "unlock"}
      BY <1>5, Steps
    <3>2. d.todo \in Locked
      BY <1>5 DEF Locked, GivingUp
    <3> QED
      BY <3>1, <3>2, Kinds, Steps DEF Starting
  <2> QED
    BY <1>5, <2>3, <2>4 DEF OwnTxn
<1>7. call' = [call EXCEPT ![t] = d]
  BY <1>1
<1>8. /\ {err', alive'} \subseteq BOOLEAN /\ dblock' \in Threads \cup {NoOne} /\ dblock' = t
      /\ UNCHANGED <<mine, txns, pages>> /\ acked' = acked /\ d.tx \in {NoTx, call[t].tx, mine[t]}
  BY <1>2, <1>3, <1>5
<1> QED
  BY <1>3, <1>5, <1>6, <1>7, <1>8, QuietStep

\* The steps that the actions take.
LEMMA NextIs ==
  ASSUME NsfsInv, NEW t \in Threads, NextStep(t)
  PROVE  call' = [call EXCEPT ![t] = [call[t] EXCEPT !.todo = Tail(call[t].todo),
                                                     !.cur = call[t].cur, !.good = call[t].good]]
<1>1. PICK c : c = call[t]
  OBVIOUS
<1>2. c \in Calls
  BY <1>1 DEF NsfsInv
<1>3. [c EXCEPT !.todo = Tail(c.todo)] =
        [c EXCEPT !.todo = Tail(c.todo), !.cur = c.cur, !.good = c.good]
  BY <1>2 DEF Calls
<1>4. call' = [call EXCEPT ![t] = [c EXCEPT !.todo = Tail(c.todo)]]
  BY <1>1 DEF NextStep, NsfsInv
<1> QED
  BY <1>1, <1>3, <1>4

LEMMA FailIs ==
  ASSUME NsfsInv, NEW t \in Threads, Failing(t)
  PROVE  call' = [call EXCEPT ![t] = [call[t] EXCEPT !.todo = Handlers[call[t].op].failed,
                                                     !.good = FALSE, !.cur = call[t].cur]]
<1>1. PICK c : c = call[t]
  OBVIOUS
<1>2. c \in Calls
  BY <1>1 DEF NsfsInv
<1>3. [c EXCEPT !.todo = Handlers[c.op].failed, !.good = FALSE] =
        [c EXCEPT !.todo = Handlers[c.op].failed, !.good = FALSE, !.cur = c.cur]
  BY <1>2 DEF Calls
<1>4. call' = [call EXCEPT ![t] = [c EXCEPT !.todo = Handlers[c.op].failed, !.good = FALSE]]
  BY <1>1 DEF Failing, NsfsInv
<1> QED
  BY <1>1, <1>3, <1>4

\* A call gives its cursor back in no step but its own.
LEMMA KeepsCur ==
  ASSUME NEW s \in Frees, Head(s) # "free"
  PROVE  Tail(s) \in Frees
<1>1. s \in Working \cup {Deleting}
  BY Steps DEF Frees
<1>2. CASE s = Deleting
  BY <1>2, Steps DEF Frees
<1>3. CASE s \in Working
  <2>1. Tail(s) \in Working \cup {Freeing}
    <3>1. /\ Tail(Opening) = Beginning /\ Tail(Beginning) = Changes1 /\ Tail(Changes1) = Committing
          /\ Tail(Committing) = Cleaning /\ Tail(OpeningR) = Reads1 /\ Tail(Reads1) = Cleaning
          /\ Tail(OpeningF) = Cleaning /\ Tail(Cleaning) = Freeing
      BY Steps
    <3> QED
      BY <1>3, <3>1, Zenon DEF Working
  <2> QED
    BY <2>1 DEF Frees
<1> QED
  BY <1>1, <1>2, <1>3

\* A step that only goes on, and may let go or take the lock.
LEMMA PlainNext ==
  ASSUME NsfsInv, NEW t \in Threads, NEW step, Stands(t, step), step # "free", NextStep(t),
         call[t].todo \notin {Beginning, Begins, Returning, Commits, Committing},
         UNCHANGED <<mine, txns, pages, alive, acked, cursors, err>>,
         dblock' \in Threads \cup {NoOne}, dblock' = dblock \/ dblock \in {t, NoOne},
         Tail(call[t].todo) \in Locked \/ mine[t] # NoTx => dblock' = t
  PROVE  NsfsInv'
<1>1. /\ call[t] \in Calls /\ Placed(call[t]) /\ Head(call[t].todo) = step
      /\ cursors \in 0..NCursors /\ err \in BOOLEAN
  BY AtPlace
<1>2. call[t].cur \in 0..2 /\ call[t].good \in BOOLEAN
  BY <1>1 DEF Calls
<1>3. call[t].cur # 0 => Tail(call[t].todo) \in Frees
  BY <1>1, KeepsCur DEF Placed
<1>4. call' = [call EXCEPT ![t] = [call[t] EXCEPT !.todo = Tail(call[t].todo),
                                                  !.cur = call[t].cur, !.good = call[t].good]]
  BY NextIs
<1>5. cursors' \in 0..NCursors /\ err' \in BOOLEAN /\ (err' => err \/ call[t].todo \in Locked)
  BY <1>1
<1>6. UNCHANGED <<mine, txns, pages, alive, acked>>
  OBVIOUS
<1> QED
  BY <1>2, <1>3, <1>4, <1>5, <1>6, QuietNext

\* A step that only turns to the error path.
LEMMA PlainFail ==
  ASSUME NsfsInv, NEW t \in Threads, NEW step, Stands(t, step), Failing(t),
         call[t].todo \in Working \cup {Begins}, call[t].todo = Cleaning => err,
         UNCHANGED <<mine, txns, pages, alive, acked, dblock, cursors>>, err' \in BOOLEAN
  PROVE  NsfsInv'
<1>1. call[t] \in Calls /\ Placed(call[t]) /\ cursors \in 0..NCursors
  BY AtPlace
<1>2. call[t].cur \in 0..2 /\ (call[t].cur # 0 => call[t].todo # Begins)
  BY <1>1, Kinds DEF Calls, Placed
<1>3. call' = [call EXCEPT ![t] = [call[t] EXCEPT !.todo = Handlers[call[t].op].failed,
                                                  !.good = FALSE, !.cur = call[t].cur]]
  BY FailIs
<1>4. UNCHANGED <<mine, txns, pages, alive, acked, dblock>> /\ cursors' \in 0..NCursors
  BY <1>1
<1> QED
  BY <1>2, <1>3, <1>4, QuietFail

LEMMA LockKeeps ==
  ASSUME NsfsInv, NEW t \in Threads, Lock(t)
  PROVE  NsfsInv'
<1>1. Stands(t, "lock")
  BY DEF Lock
<1>2. /\ call[t].todo \in Places /\ Head(call[t].todo) = "lock" /\ dblock \in Threads \cup {NoOne}
  BY <1>1, AtPlace
<1>3. call[t].todo \notin {Beginning, Begins, Returning, Commits, Committing}
  BY <1>2, Steps
<1> QED
  BY <1>1, <1>3, PlainNext DEF Lock

LEMMA OpenKeeps ==
  ASSUME NsfsInv, NEW t \in Threads, Open(t)
  PROVE  NsfsInv'
<1>1. Stands(t, "open")
  BY DEF Open
<1>2. /\ call[t].todo \in Places /\ Head(call[t].todo) = "open" /\ dblock \in Threads \cup {NoOne}
      /\ call[t].todo \in Locked => dblock = t
  BY <1>1, AtPlace
<1>3. call[t].todo \in {Opening, OpeningR, OpeningF}
  BY <1>2, AtStep
<1>4. dblock = t
  BY <1>2, <1>3 DEF Locked, Working
<1>5. call[t].todo \notin {Beginning, Begins, Returning, Commits, Committing, Cleaning}
  BY <1>2, Steps
<1>6. CASE NextStep(t) /\ UNCHANGED err
  BY <1>1, <1>2, <1>4, <1>5, <1>6, PlainNext DEF Open
<1>7. CASE Failing(t) /\ err' = TRUE
  BY <1>1, <1>2, <1>3, <1>5, <1>7, PlainFail DEF Open, Working
<1> QED
  BY <1>6, <1>7 DEF Open

LEMMA WorkFailsKeeps ==
  ASSUME NsfsInv, NEW t \in Threads, WorkFails(t)
  PROVE  NsfsInv'
<1>1. Stands(t, "work")
  BY DEF WorkFails
<1>2. call[t].todo \in {Changes1, Reads1}
  BY <1>1, AtPlace, AtStep
<1>3. call[t].todo # Cleaning /\ call[t].todo \in Working
  BY <1>2, Steps DEF Working
<1> QED
  BY <1>1, <1>3, PlainFail DEF WorkFails

LEMMA WorkDoneKeeps ==
  ASSUME NsfsInv, NEW t \in Threads, WorkDone(t)
  PROVE  NsfsInv'
<1>1. Stands(t, "work")
  BY DEF WorkDone
<1>2. call[t].todo \in {Changes1, Reads1} /\ Head(call[t].todo) = "work"
  BY <1>1, AtPlace, AtStep
<1>3. dblock = t /\ dblock \in Threads \cup {NoOne}
  BY <1>1, <1>2, AtPlace DEF Locked, Working
<1>4. call[t].todo \notin {Beginning, Begins, Returning, Commits, Committing}
  BY <1>2, Steps
<1> QED
  BY <1>1, <1>3, <1>4, PlainNext DEF WorkDone

LEMMA CleanupKeeps ==
  ASSUME NsfsInv, NEW t \in Threads, Cleanup(t)
  PROVE  NsfsInv'
<1>1. Stands(t, "cleanup")
  BY DEF Cleanup
<1>2. call[t].todo = Cleaning /\ Head(call[t].todo) = "cleanup"
  BY <1>1, AtPlace, AtStep
<1>3. dblock = t /\ dblock \in Threads \cup {NoOne} /\ err \in BOOLEAN
  BY <1>1, <1>2, AtPlace DEF Locked, Working
<1>4. call[t].todo \notin {Beginning, Begins, Returning, Commits, Committing}
  BY <1>2, Steps
<1>5. CASE err /\ Failing(t)
  BY <1>1, <1>2, <1>3, <1>5, PlainFail DEF Cleanup, Working
<1>6. CASE NextStep(t)
  BY <1>1, <1>3, <1>4, <1>6, PlainNext DEF Cleanup
<1> QED
  BY <1>5, <1>6 DEF Cleanup

LEMMA RollbackEndsKeeps ==
  ASSUME NsfsInv, NEW t \in Threads, RollbackEnds(t)
  PROVE  NsfsInv'
<1>1. Stands(t, "rollback")
  BY DEF RollbackEnds
<1>2. call[t].todo = Undoing /\ Head(call[t].todo) = "rollback"
  BY <1>1, AtPlace, AtStep
<1>3. dblock = t /\ dblock \in Threads \cup {NoOne}
  BY <1>1, <1>2, AtPlace DEF Locked, GivingUp
<1>4. call[t].todo \notin {Beginning, Begins, Returning, Commits, Committing}
  BY <1>2, Steps
<1> QED
  BY <1>1, <1>3, <1>4, PlainNext DEF RollbackEnds

LEMMA RollbackNothingKeeps ==
  ASSUME NsfsInv, NEW t \in Threads, RollbackNothing(t)
  PROVE  NsfsInv'
<1>1. call' = call /\ mine' = mine /\ txns' = txns /\ pages' = pages /\ err' = err
      /\ dblock' = dblock /\ cursors' = cursors /\ acked' = acked /\ alive' = FALSE
  BY DEF RollbackNothing
<1>2. NsfsTypeOK'
  BY <1>1 DEF NsfsInv, NsfsTypeOK
<1>3. ASSUME NEW u \in Threads PROVE CallOK(u)' /\ OwnerOK(u)' /\ TxnsOf(u)' = TxnsOf(u)
  <2>1. CallOK(u) /\ OwnerOK(u)
    BY DEF NsfsInv
  <2> QED
    BY <1>1, <2>1 DEF CallOK, OwnerOK, Holds, TxnsOf, OwnTxn, Shown
<1>4. \A u, v \in Threads : u # v => TxnsOf(u)' \cap TxnsOf(v)' = {}
  BY <1>3 DEF NsfsInv
<1>5. SuccessStays'
  BY <1>1 DEF NsfsInv, SuccessStays, Shown
<1> QED
  BY <1>1, <1>2, <1>3, <1>4, <1>5 DEF NsfsInv

LEMMA UnlockKeeps ==
  ASSUME NsfsInv, NEW t \in Threads, Unlock(t)
  PROVE  NsfsInv'
<1>1. Stands(t, "unlock")
  BY DEF Unlock
<1>2. /\ call[t].todo \in {Unlocking, Deleting} /\ Head(call[t].todo) = "unlock"
      /\ Owned(call[t], mine[t]) /\ dblock \in Threads \cup {NoOne}
  BY <1>1, AtPlace, AtStep
<1>3. dblock = t
  BY <1>1, <1>2, AtPlace DEF Locked, GivingUp
<1>4. call[t].todo \notin {Beginning, Begins, Returning, Commits, Committing}
  BY <1>2, Steps
<1>5. Tail(call[t].todo) \notin Locked
  BY <1>2, Kinds, Steps
<1>6. mine[t] # NoTx => dblock' = t
  BY <1>2, <1>3, <1>4 DEF Unlock, Owned
<1>7. dblock' \in {t, NoOne}
  BY <1>3 DEF Unlock
<1> QED
  BY <1>1, <1>3, <1>4, <1>5, <1>6, <1>7, PlainNext DEF Unlock

\* Between two calls a thread has no place.
LEMMA IdleIs ==
  Idle \in Calls /\ Idle.todo \notin Locked \cup Frees /\ Idle.cur = 0 /\ Idle.tx = NoTx
<1>1. Idle.todo = << >> /\ Idle.cur = 0 /\ Idle.tx = NoTx
  BY DEF Idle
<1>2. Idle \in Calls
  BY DEF Idle, Calls, NoTx
<1> QED
  BY <1>1, <1>2, Kinds

LEMMA ReturnKeeps ==
  ASSUME NsfsInv, NEW t \in Threads, Return(t)
  PROVE  NsfsInv'
<1>1. Stands(t, "return")
  BY DEF Return
<1>2. /\ call[t].todo = Returning /\ OwnTxn(call[t]) /\ Owned(call[t], mine[t])
      /\ mine[t] # NoTx => dblock = t
      /\ dblock \in Threads \cup {NoOne} /\ err \in BOOLEAN /\ alive = TRUE /\ cursors \in 0..NCursors
  <2>1. call[t].todo \in Places /\ Head(call[t].todo) = "return"
    BY <1>1, AtPlace
  <2>2. call[t].todo = Returning
    BY <2>1, AtStep
  <2> QED
    BY <1>1, <2>2, AtPlace
<1>3. call[t].good /\ call[t].own =>
        call[t].tx \in TxnsOf(t) /\ ~ txns[call[t].tx].run /\ Shown(call[t].tx)
  BY <1>2 DEF OwnTxn, Owned, TxnsOf
<1>4. acked' = acked \/ (\E x \in TxnsOf(t) : acked' = acked \cup {x} /\ ~ txns[x].run /\ Shown(x))
  BY <1>3 DEF Return
<1>5. PICK d : d = Idle
  OBVIOUS
<1>6. /\ d \in Calls /\ d.tx \in {NoTx, call[t].tx, mine[t]} /\ ~ (d # Idle)
      /\ d.todo \in Locked \/ mine[t] # NoTx => dblock' = t
      /\ call' = [call EXCEPT ![t] = d]
  BY <1>2, <1>5, IdleIs DEF Return
<1>7. /\ UNCHANGED <<mine, txns, pages>> /\ dblock' = dblock /\ dblock' \in Threads \cup {NoOne}
      /\ {err', alive'} \subseteq BOOLEAN /\ cursors' \in 0..NCursors /\ (err' => err \/ dblock = t)
  BY <1>2 DEF Return
<1> QED
  BY <1>4, <1>6, <1>7, QuietStep

LEMMA ResetKeeps ==
  ASSUME NsfsInv, NEW t \in Threads, nsfslite_reset_errors(t)
  PROVE  NsfsInv'
<1>1. /\ mine[t] # NoTx => dblock = t
      /\ dblock \in Threads \cup {NoOne} /\ alive \in BOOLEAN /\ cursors \in 0..NCursors
      /\ call \in [Threads -> Calls]
  BY DEF NsfsInv, NsfsTypeOK, OwnerOK, Holds
<1>2. PICK d : d = Idle
  OBVIOUS
<1>3. /\ d \in Calls /\ d.tx \in {NoTx, call[t].tx, mine[t]} /\ ~ (d # Idle)
      /\ d.todo \in Locked \/ mine[t] # NoTx => dblock' = t
      /\ call' = [call EXCEPT ![t] = d]
  BY <1>1, <1>2, IdleIs DEF nsfslite_reset_errors
<1>4. /\ UNCHANGED <<mine, txns, pages>> /\ dblock' = dblock /\ dblock' \in Threads \cup {NoOne}
      /\ {err', alive'} \subseteq BOOLEAN /\ cursors' \in 0..NCursors /\ (err' => err \/ dblock = t)
      /\ acked' = acked
  BY <1>1 DEF nsfslite_reset_errors
<1> QED
  BY <1>3, <1>4, QuietStep

LEMMA CallApiKeeps ==
  ASSUME NsfsInv, NEW t \in Threads, NEW op \in Ops, CallApi(t, op, mine[t])
  PROVE  NsfsInv'
<1>1. /\ mine[t] # NoTx => dblock = t
      /\ dblock \in Threads \cup {NoOne} /\ {err, alive} \subseteq BOOLEAN /\ cursors \in 0..NCursors
      /\ call \in [Threads -> Calls] /\ mine[t] \in Nat
  BY DEF NsfsInv, NsfsTypeOK, OwnerOK, Holds
<1>2. PICK m : m = mine[t]
  OBVIOUS
<1>3. PICK d : d = [Idle EXCEPT !.op = op, !.tx = m, !.need = (m = NoTx), !.todo = Route(op, m)]
  OBVIOUS
<1>4. /\ d.op = op /\ d.tx = m /\ d.need = (m = NoTx) /\ d.todo = Route(op, m)
      /\ d.own = FALSE /\ d.cur = 0 /\ d.good = TRUE
  BY <1>3 DEF Idle
<1>5. ASSUME op = "commit"
      PROVE  Placed(d) /\ Owned(d, m) /\ (d.todo \in Locked \/ m # NoTx => dblock = t)
  <2>1. m # NoTx /\ d.todo = Commits
    BY <1>2, <1>4, <1>5, Ways DEF CallApi, Route
  <2>2. Commits \in Places \ (Locking \cup Starting \cup Frees)
    <3>1. Commits \in Locked
      BY DEF Locked
    <3> QED
      BY <3>1, Kinds DEF Places
  <2>3. Commits \notin {TakenBack, Undoing, Deleting, LateFree, Begins, Changing, Opening, Beginning,
                        Changes1, Committing}
    BY Steps, Distinct
  <2>4. Placed(d)
    BY <1>4, <1>5, <2>1, <2>2, <2>3 DEF Placed, Locking
  <2>5. Owned(d, m)
    BY <1>4, <1>5, <2>1, <2>2, <2>3 DEF Owned
  <2> QED
    BY <1>1, <1>2, <2>1, <2>2, <2>4, <2>5
<1>6. ASSUME op # "commit", m # NoTx
      PROVE  Placed(d) /\ Owned(d, m) /\ (d.todo \in Locked \/ m # NoTx => dblock = t)
  <2>1. op \in Changes /\ d.todo = Reading
    BY <1>2, <1>4, <1>6 DEF CallApi, Route
  <2>2. Reading \in Places \ Locking /\ Reading \in Starting
    BY Kinds DEF Places, Locked, Starting
  <2>3. Reading \notin {TakenBack, Undoing, Deleting, LateFree, Begins, Changing, Opening, Beginning,
                        Changes1, Committing, Commits}
    BY Steps, Distinct
  <2>4. op \notin {"begin_txn", "commit"}
    BY <2>1 DEF Changes, Edits
  <2>5. Placed(d)
    BY <1>4, <2>1, <2>2, <2>3, <2>4 DEF Placed, Locking
  <2>6. Owned(d, m)
    BY <1>4, <1>6, <2>1, <2>2, <2>3 DEF Owned
  <2> QED
    BY <1>1, <1>2, <1>6, <2>1, <2>2, <2>5, <2>6
<1>7. ASSUME op # "commit", m = NoTx
      PROVE  Placed(d) /\ Owned(d, m) /\ (d.todo \in Locked \/ m # NoTx => dblock = t)
  <2>1. PICK r : r = Handlers[op].ok
    OBVIOUS
  <2>2. d.todo = <<"lock">> \o r
    BY <1>4, <1>7, <2>1 DEF Route
  <2>3. r \in {Changing, Reading, StartingF, Begins}
    BY <1>7, <2>1, Ways
  <2>4. op = "begin_txn" <=> r = Begins
    <3>1. Begins \notin {Changing, Reading, StartingF}
      BY Steps
    <3> QED
      BY <1>7, <2>1, <3>1, Ways DEF Changes, Edits
  <2>5. op \in Changes => r # Reading
    BY <2>1, Ways, Distinct
  <2>6. d.todo \in Locking
    BY <2>2, <2>3 DEF Locking
  <2>7. d.todo \notin Locked \cup Frees \cup {Returning, LateFree}
    BY <2>6, Kinds
  <2>8. d.todo = <<"lock">> \o Begins => r = Begins
    <3>1. Tail(<<"lock">> \o Begins) = Begins /\ Tail(<<"lock">> \o r) = r
      BY <2>3, AfterLock
    <3> QED
      BY <2>2, <3>1
  <2>9. d.todo = <<"lock">> \o Reading => r = Reading
    <3>1. Tail(<<"lock">> \o Reading) = Reading /\ Tail(<<"lock">> \o r) = r
      BY <2>3, AfterLock
    <3> QED
      BY <2>2, <3>1
  <2>10. Placed(d)
    BY <1>4, <1>7, <2>2, <2>4, <2>6, <2>7, <2>8 DEF Placed, Locked, GivingUp, Places
  <2>11. Owned(d, m)
    BY <1>4, <1>7, <2>5, <2>7, <2>9 DEF Owned, Locked, Starting, Working
  <2> QED
    BY <1>1, <1>2, <1>7, <2>6, <2>7, <2>10, <2>11 DEF Places
<1>8. Placed(d) /\ Owned(d, m) /\ (d.todo \in Locked \/ m # NoTx => dblock = t)
  BY <1>5, <1>6, <1>7
<1>9. d \in Calls
  <2>1. d.todo \in Places /\ m \in Nat
    BY <1>1, <1>2, <1>8 DEF Placed
  <2>2. PICK b \in BOOLEAN : b = (m = NoTx)
    OBVIOUS
  <2>3. PICK r \in Places : r = d.todo
    BY <2>1
  <2>4. d = [op |-> op, todo |-> r, tx |-> m, own |-> FALSE, need |-> b, cur |-> 0, good |-> TRUE]
    BY <1>3, <1>4, <2>2, <2>3 DEF Idle
  <2> QED
    BY <2>1, <2>4 DEF Calls
<1>10. OwnTxn(d)'
  BY <1>4 DEF OwnTxn
<1>11. call' = [call EXCEPT ![t] = d]
  BY <1>2, <1>3 DEF CallApi
<1>12. /\ UNCHANGED <<mine, txns, pages>> /\ dblock' = dblock /\ dblock' \in Threads \cup {NoOne}
       /\ {err', alive'} \subseteq BOOLEAN /\ cursors' \in 0..NCursors /\ (err' => err \/ dblock = t)
       /\ acked' = acked
  BY <1>1 DEF CallApi
<1>13. /\ d.tx \in {NoTx, call[t].tx, mine[t]}
       /\ d # Idle => Placed(d) /\ Owned(d, mine[t]) /\ OwnTxn(d)'
       /\ d.todo \in Locked \/ mine[t] # NoTx => dblock' = t
  BY <1>2, <1>4, <1>8, <1>10, <1>12
<1> QED
  BY <1>9, <1>11, <1>12, <1>13, QuietStep

\* What start takes: no more than it wants and than there is.
LEMMA MinOfTwo ==
  ASSUME NEW a \in Int, NEW b \in Int
  PROVE  Min({a, b}) = IF a <= b THEN a ELSE b
<1>1. PICK x : x = IF a <= b THEN a ELSE b
  OBVIOUS
<1>2. x \in {a, b} /\ \A y \in {a, b} : x <= y
  BY <1>1
<1>3. ASSUME NEW z \in {a, b}, \A y \in {a, b} : z <= y PROVE z = x
  BY <1>1, <1>3
<1>4. Min({a, b}) = x
  BY <1>2, <1>3 DEF Min
<1> QED
  BY <1>1, <1>4

LEMMA StartKeeps ==
  ASSUME NsfsInv, NEW t \in Threads, Start(t)
  PROVE  /\ NsfsInv'
         /\ \E got \in 0..2 : /\ cursors' = cursors + got
                              /\ call' \in [Threads -> Calls]
                              /\ call[t].cur = 0 /\ call'[t].cur = got
                              /\ \A u \in Threads \ {t} : call'[u] = call[u]
<1>1. Stands(t, "start")
  BY DEF Start
<1>2. /\ call[t] \in Calls /\ Placed(call[t]) /\ Head(call[t].todo) = "start" /\ call[t].todo \in Places
      /\ dblock \in Threads \cup {NoOne} /\ cursors \in 0..NCursors /\ call[t].op \in Ops
  BY <1>1, AtPlace
<1>3. call[t].todo \in Starting /\ call[t].todo \notin Frees
  BY <1>2, AtStep, Kinds
<1>4. dblock = t
  BY <1>1, <1>3, AtPlace DEF Locked
<1>5. call[t].cur = 0
  BY <1>2, <1>3 DEF Placed
<1>6. call[t].todo \notin {Beginning, Begins, Returning, Commits, Committing, Cleaning}
  BY <1>2, Steps
<1>7. PICK wanted \in 0..2 : wanted = Handlers[call[t].op].cursors
  BY <1>2, Ways
<1>8. PICK got : got = Min({wanted, NCursors - cursors})
  OBVIOUS
<1>9. got = (IF wanted <= NCursors - cursors THEN wanted ELSE NCursors - cursors)
  BY <1>2, <1>7, <1>8, MinOfTwo, NsfsAssumption
<1>10. got \in 0..2 /\ cursors + got \in 0..NCursors
  BY <1>2, <1>7, <1>9, NsfsAssumption
<1>10a. err' = (got < wanted) /\ err' \in BOOLEAN
  <2>1. err' = (got < wanted)
    BY <1>7, <1>8 DEF Start
  <2> QED
    BY <2>1
<1>11. PICK g \in BOOLEAN : g = ~ err'
  BY <1>10a
<1>12. /\ cursors' = cursors + got /\ err' = (~ g)
       /\ call' = [call EXCEPT ![t] = [call[t] EXCEPT
              !.todo = IF ~ g THEN Handlers[call[t].op].failed ELSE Tail(call[t].todo),
              !.cur = got, !.good = g]]
  <2>1. /\ cursors' = cursors + got /\ err' = (got < wanted)
        /\ call' = [call EXCEPT ![t].cur = got, ![t].good = ~err',
                                ![t].todo = IF err' THEN Handlers[call[t].op].failed ELSE Tail(@)]
    BY <1>7, <1>8 DEF Start
  <2>2. err' = (~ g)
    BY <1>11, <1>10a
  <2>3. PICK c \in Calls : c = call[t]
    BY <1>2
  <2>4. call' = [call EXCEPT ![t] = [c EXCEPT !.cur = got, !.good = g,
                                             !.todo = IF ~ g THEN Handlers[c.op].failed ELSE Tail(c.todo)]]
    BY <2>1, <2>2, <2>3 DEF NsfsInv
  <2>5. PICK w : w = IF ~ g THEN Handlers[c.op].failed ELSE Tail(c.todo)
    OBVIOUS
  <2>6. [c EXCEPT !.cur = got, !.good = g, !.todo = w] = [c EXCEPT !.todo = w, !.cur = got, !.good = g]
    BY DEF Calls
  <2>7. call' = [call EXCEPT ![t] = [c EXCEPT !.todo = w, !.cur = got, !.good = g]]
    BY <2>4, <2>5, <2>6
  <2> QED
    BY <2>1, <2>2, <2>3, <2>5, <2>7
<1>13. Tail(call[t].todo) \in Frees
  BY <1>3, Steps DEF Starting, Frees, Working
<1>14. UNCHANGED <<mine, txns, pages, alive, acked, dblock>>
  BY DEF Start
<1>15. NsfsInv'
  <2>1. CASE g
    <3>1. call' = [call EXCEPT ![t] = [call[t] EXCEPT !.todo = Tail(call[t].todo), !.cur = got, !.good = g]]
      BY <1>11, <1>12, <2>1
    <3>2. err' \in BOOLEAN /\ (err' => err \/ call[t].todo \in Locked)
      BY <1>3, <1>12 DEF Locked
    <3>3. g => call[t].good \/ call[t].todo \in Starting
      BY <1>3
    <3>4. /\ dblock' \in Threads \cup {NoOne} /\ (dblock' = dblock \/ dblock \in {t, NoOne})
          /\ Tail(call[t].todo) \in Locked \/ mine[t] # NoTx => dblock' = t
          /\ cursors' \in 0..NCursors /\ UNCHANGED <<mine, txns, pages, alive, acked>>
      BY <1>2, <1>4, <1>10, <1>12, <1>14
    <3> QED
      BY <1>1, <1>6, <1>10, <1>13, <3>1, <3>2, <3>3, <3>4, QuietNext
  <2>2. CASE ~ g
    <3>1. call' = [call EXCEPT ![t] = [call[t] EXCEPT !.todo = Handlers[call[t].op].failed, !.good = FALSE,
                                                      !.cur = got]]
      BY <1>11, <1>12, <2>2
    <3>2. err' \in BOOLEAN /\ cursors' \in 0..NCursors
      BY <1>10, <1>12
    <3> QED
      BY <1>1, <1>3, <1>6, <1>10, <1>14, <3>1, <3>2, QuietFail
  <2> QED
    BY <2>1, <2>2
<1>16. /\ call' \in [Threads -> Calls] /\ call'[t].cur = got
       /\ \A u \in Threads \ {t} : call'[u] = call[u]
  <2>1. call' \in [Threads -> Calls]
    BY <1>15 DEF NsfsInv
  <2> QED
    BY <1>2, <1>12, <2>1 DEF NsfsInv, Calls
<1> QED
  BY <1>5, <1>10, <1>12, <1>15, <1>16

LEMMA FreeKeeps ==
  ASSUME NsfsInv, NEW t \in Threads, Free(t), call[t].cur <= cursors
  PROVE  /\ NsfsInv'
         /\ cursors' = cursors - call[t].cur /\ call' \in [Threads -> Calls] /\ call'[t].cur = 0
         /\ \A u \in Threads \ {t} : call'[u] = call[u]
<1>1. Stands(t, "free")
  BY DEF Free
<1>2. /\ call[t] \in Calls /\ Placed(call[t]) /\ Head(call[t].todo) = "free" /\ call[t].todo \in Places
      /\ dblock \in Threads \cup {NoOne} /\ cursors \in 0..NCursors /\ err \in BOOLEAN
      /\ call[t].todo \in Locked \/ mine[t] # NoTx => dblock = t
  BY <1>1, AtPlace
<1>3. call[t].todo \in {Freeing, TakenBack, LateFree}
  BY <1>2, AtStep
<1>4. call[t].todo \notin {Beginning, Begins, Returning, Commits, Committing}
  BY <1>2, Steps
<1>5. Tail(call[t].todo) \in Locked \/ mine[t] # NoTx => dblock = t
  <2>1. call[t].todo \in {Freeing, TakenBack} => dblock = t
    BY <1>2 DEF Locked, GivingUp
  <2>2. call[t].todo = LateFree => Tail(call[t].todo) \notin Locked
    BY Steps, Kinds
  <2> QED
    BY <1>2, <1>3, <2>1, <2>2
<1>6. PICK g \in BOOLEAN : g = (call[t].good /\ (call[t].op = "new" => ~ err))
  OBVIOUS
<1>7. g => call[t].good
  BY <1>6
<1>8. call' = [call EXCEPT ![t] = [call[t] EXCEPT !.todo = Tail(call[t].todo), !.cur = 0, !.good = g]]
  BY <1>2, <1>6 DEF Free, NsfsInv
<1>9. cursors' = cursors - call[t].cur /\ cursors' \in 0..NCursors
  BY <1>2, NsfsAssumption DEF Free, Calls
<1>10. /\ UNCHANGED <<mine, txns, pages, alive, acked>> /\ dblock' = dblock /\ err' = err
  BY DEF Free
<1>11. NsfsInv'
  <2>1. 0 \in 0..2 /\ (0 # 0 => Tail(call[t].todo) \in Frees)
    OBVIOUS
  <2>2. /\ err' \in BOOLEAN /\ (err' => err \/ call[t].todo \in Locked)
        /\ dblock' \in Threads \cup {NoOne} /\ (dblock' = dblock \/ dblock \in {t, NoOne})
        /\ Tail(call[t].todo) \in Locked \/ mine[t] # NoTx => dblock' = t
    BY <1>2, <1>5, <1>10
  <2>3. g => call[t].good \/ call[t].todo \in Starting
    BY <1>7
  <2> QED
    BY <1>1, <1>4, <1>8, <1>9, <1>10, <2>1, <2>2, <2>3, QuietNext
<1>12. call' \in [Threads -> Calls] /\ call'[t].cur = 0 /\ \A u \in Threads \ {t} : call'[u] = call[u]
  <2>1. call' \in [Threads -> Calls]
    BY <1>11 DEF NsfsInv
  <2> QED
    BY <1>2, <1>8, <2>1 DEF NsfsInv, Calls
<1> QED
  BY <1>9, <1>11, <1>12

-----------------------------------------------------------------------------
(* Steps that change a transaction, or what it shows in the pages. *)

\* The transaction that a call changes, commits or takes back has not ended.
LEMMA Running ==
  ASSUME NsfsInv, NEW t \in Threads, NEW step, Stands(t, step),
         \/ call[t].todo \in {Changes1, Committing, Commits}
         \/ call[t].todo = Reads1 /\ call[t].op \in Changes
         \/ call[t].todo = Undoing /\ call[t].tx # NoTx
  PROVE  /\ call[t].tx \in 1..Len(txns) /\ txns[call[t].tx] \in Txns /\ txns[call[t].tx].run
         /\ call[t].tx \in TxnsOf(t) /\ dblock = t
         /\ \A x \in acked : x \notin TxnsOf(t)
         /\ call[t].todo \in {Changes1, Committing} => call[t].own
<1>1. /\ Placed(call[t]) /\ Owned(call[t], mine[t]) /\ OwnTxn(call[t])
      /\ call[t].todo \in Locked => dblock = t
      /\ mine[t] # NoTx => txns[mine[t]].run
      /\ call[t].tx # NoTx => call[t].tx \in 1..Len(txns) /\ txns[call[t].tx] \in Txns
  BY AtPlace
<1>2. dblock = t
  BY <1>1 DEF Locked, Working, GivingUp
<1>3. call[t].tx # NoTx /\ txns[call[t].tx].run /\ (call[t].todo \in {Changes1, Committing} => call[t].own)
  <2>1. CASE call[t].todo \in {Changes1, Committing}
    <3>1. call[t].own
      BY <1>1, <2>1 DEF Owned
    <3> QED
      BY <1>1, <2>1, <3>1 DEF Owned, OwnTxn
  <2>2. CASE call[t].todo = Commits
    <3>1. call[t].op = "commit" /\ Commits \notin {Changes1, Committing}
      BY <1>1, <2>2, Steps, Distinct DEF Placed
    <3>2. ~ call[t].need /\ mine[t] = call[t].tx /\ call[t].tx # NoTx
      BY <1>1, <2>2, <3>1 DEF Owned
    <3> QED
      BY <1>1, <2>2, <3>1, <3>2
  <2>3. CASE call[t].todo = Reads1 /\ call[t].op \in Changes
    <3>1. call[t].op # "commit" /\ Reads1 \notin {Changes1, Committing}
      BY <2>3, Steps, Distinct DEF Changes, Edits
    <3>2. ~ call[t].need /\ mine[t] = call[t].tx /\ call[t].tx # NoTx
      BY <1>1, <2>3, <3>1 DEF Owned
    <3> QED
      BY <1>1, <2>3, <3>1, <3>2
  <2>4. CASE call[t].todo = Undoing /\ call[t].tx # NoTx
    <3>1. call[t].op # "commit" /\ Undoing \notin {Changes1, Committing}
      BY <1>1, <2>4, Steps, Distinct DEF Placed, Edits
    <3>2. CASE call[t].own
      BY <1>1, <2>4, <3>1, <3>2 DEF OwnTxn
    <3>3. CASE ~ call[t].own
      <4>1. mine[t] = call[t].tx
        BY <1>1, <2>4, <3>1, <3>3 DEF Owned
      <4> QED
        BY <1>1, <2>4, <3>1, <4>1
    <3> QED
      BY <3>2, <3>3
  <2> QED
    BY <2>1, <2>2, <2>3, <2>4
<1>4. \A x \in acked : ~ txns[x].run
  BY DEF NsfsInv, SuccessStays
<1>5. \A x \in acked : x \notin TxnsOf(t)
  BY <1>1, <1>3, <1>4 DEF TxnsOf
<1> QED
  BY <1>1, <1>2, <1>3, <1>5 DEF TxnsOf

\* The transaction of a client runs on when its call writes it.
LEMMA StillRuns ==
  ASSUME NsfsInv, NEW t \in Threads, NEW x \in 1..Len(txns), NEW r \in Txns, r.run,
         txns' = [txns EXCEPT ![x] = r]
  PROVE  mine[t] # NoTx => txns'[mine[t]].run
<1>1. PICK k : k = mine[t]
  OBVIOUS
<1>2. txns \in Seq(Txns) /\ k \in 0..Len(txns) /\ (k # NoTx => txns[k].run)
  BY <1>1 DEF NsfsInv, NsfsTypeOK, OwnerOK
<1>3. CASE k = x
  <2>1. txns'[x] = r
    BY <1>2
  <2> QED
    BY <1>1, <1>3, <2>1
<1>4. CASE k # x
  <2>1. k # NoTx => txns'[k] = txns[k]
    BY <1>2, <1>4 DEF NoTx
  <2> QED
    BY <1>1, <1>2, <2>1
<1> QED
  BY <1>3, <1>4

\* A step that writes the transaction of its call.
LEMMA WriteStep ==
  ASSUME NsfsInv, NEW t \in Threads, NEW x \in 1..Len(txns), x \in TxnsOf(t), NEW r \in Txns,
         \A y \in acked : y \notin TxnsOf(t),
         txns' = [txns EXCEPT ![x] = r],
         NEW d \in Calls, d.tx = x, call' = [call EXCEPT ![t] = d],
         NEW m \in {NoTx, mine[t]}, mine' = [mine EXCEPT ![t] = m],
         Placed(d), Owned(d, m), OwnTxn(d)', m # NoTx => txns'[m].run,
         dblock = t, UNCHANGED <<dblock, cursors, alive, acked>>, err' \in BOOLEAN,
         pages' \subseteq pages \cup ({x} \X (1..MaxUpdates)),
         \A y, n : y # x /\ <<y, n>> \in pages => <<y, n>> \in pages'
  PROVE  NsfsInv'
<1>1. /\ txns \in Seq(Txns) /\ NsfsTypeOK /\ Len(txns) \in Nat /\ mine \in [Threads -> Nat] /\ m \in Nat
      /\ call \in [Threads -> Calls]
  BY DEF NsfsInv, NoTx
<1>2. /\ txns' \in Seq(Txns) /\ Len(txns') = Len(txns)
      /\ \A y \in 1..Len(txns) : y # x => txns'[y] = txns[y]
  BY <1>1
<1>3. NsfsTypeOK'
  <2>1. pages' \subseteq (1..Len(txns')) \X (1..MaxUpdates)
    BY <1>1, <1>2 DEF NsfsTypeOK
  <2>2. ASSUME NEW u \in Threads PROVE mine'[u] \in 0..Len(txns') /\ call'[u].tx \in 0..Len(txns')
    <3>1. mine[u] \in 0..Len(txns) /\ call[u].tx \in 0..Len(txns) /\ mine[t] \in 0..Len(txns)
      BY <1>1 DEF NsfsTypeOK
    <3> QED
      BY <1>1, <1>2, <3>1 DEF NoTx
  <2> QED
    BY <1>1, <1>2, <2>1, <2>2 DEF NsfsTypeOK
<1>4. \A y \in 1..Len(txns) : y \notin TxnsOf(t) =>
         /\ txns'[y] = txns[y]
         /\ \A n : <<y, n>> \in pages => <<y, n>> \in pages'
  BY <1>2
<1>5. \A y \in acked' : IF y \in TxnsOf(t) THEN ~ txns'[y].run /\ Shown(y)' ELSE y \in acked
  OBVIOUS
<1>6. \A y \in {d.tx, m} \ {NoTx} : y \in TxnsOf(t) \/ y > Len(txns)
  BY DEF TxnsOf
<1>7. /\ d # Idle => Placed(d) /\ Owned(d, m) /\ OwnTxn(d)'
      /\ d.todo \in Locked \/ m # NoTx => dblock' = t
      /\ dblock' = dblock \/ dblock \in {t, NoOne}
      /\ Len(txns) <= Len(txns')
  BY <1>1, <1>2
<1>8. err' => err \/ dblock = t
  OBVIOUS
<1> QED
  BY <1>1, <1>2, <1>3, <1>4, <1>5, <1>6, <1>7, <1>8, StepKeeps

LEMMA UpdateKeeps ==
  ASSUME NsfsInv, NEW t \in Threads, Update(t)
  PROVE  NsfsInv'
<1>1. Stands(t, "work") /\ call[t].op \in Changes
  BY DEF Update
<1>2. PICK c : c = call[t]
  OBVIOUS
<1>3. /\ c \in Calls /\ Placed(c) /\ Owned(c, mine[t]) /\ OwnTxn(c) /\ c.todo \in Places
      /\ Head(c.todo) = "work" /\ mine[t] \in Nat /\ err \in BOOLEAN
      /\ mine[t] # NoTx => txns[mine[t]].run
  BY <1>1, <1>2, AtPlace
<1>4. c.todo \in {Changes1, Reads1}
  BY <1>3, AtStep
<1>5. PICK x : x = c.tx
  OBVIOUS
<1>6. /\ x \in 1..Len(txns) /\ txns[x] \in Txns /\ txns[x].run /\ x \in TxnsOf(t) /\ dblock = t
      /\ \A y \in acked : y \notin TxnsOf(t)
      /\ c.todo = Changes1 => c.own
  BY <1>1, <1>2, <1>4, <1>5, Running
<1>7. PICK n : n = txns[x].made + 1
  OBVIOUS
<1>8. n \in 1..MaxUpdates /\ n = txns[x].made + 1 /\ txns[x].made \in Nat
  BY <1>2, <1>5, <1>6, <1>7, NsfsAssumption, SMTT(30) DEF Update, Txn, Txns
<1>9. PICK r : r = [txns[x] EXCEPT !.made = n, !.undo = Append(@, n)]
  OBVIOUS
<1>10. r \in Txns /\ r.run /\ r.made = n
  <2>1. txns[x].undo \in Seq(Nat) /\ Append(txns[x].undo, n) \in Seq(Nat)
    BY <1>6, <1>8 DEF Txns
  <2>2. PICK q \in Txns, u \in Seq(Nat) : q = txns[x] /\ u = Append(txns[x].undo, n)
    BY <1>6, <2>1
  <2>3. r = [q EXCEPT !.made = n, !.undo = u]
    BY <1>9, <2>2
  <2>4. n \in 0..MaxUpdates
    BY <1>8, NsfsAssumption
  <2> QED
    BY <1>6, <2>2, <2>3, <2>4 DEF Txns
<1>11. txns' = [txns EXCEPT ![x] = r] /\ pages' = pages \cup {<<x, n>>}
  BY <1>2, <1>5, <1>6, <1>7, <1>9 DEF Update, Txn, NsfsInv
<1>12. txns'[x] = r
  BY <1>6, <1>11 DEF NsfsInv
<1>13. OwnTxn(c)'
  <2> SUFFICES ASSUME c.own PROVE OwnTxn(c)'
    BY DEF OwnTxn
  <2>1. c.todo # Cleaning /\ c.todo \notin {Freeing, Unlocking, Returning}
    BY <1>4, Steps
  <2>2. c.good => Shown(x)'
    <3>1. c.good => \A k \in 1..txns[x].made : <<x, k>> \in pages
      BY <1>3, <1>5 DEF OwnTxn, Shown
    <3>2. \A k \in 1..n : k = n \/ k \in 1..txns[x].made
      BY <1>8
    <3> QED
      BY <1>10, <1>11, <1>12, <3>1, <3>2 DEF Shown
  <2> QED
    BY <1>3, <1>5, <1>6, <1>10, <1>12, <2>1, <2>2 DEF OwnTxn
<1>14. call' = [call EXCEPT ![t] = c] /\ mine' = [mine EXCEPT ![t] = mine[t]]
  BY <1>2 DEF Update, NsfsInv
<1>15. mine[t] # NoTx => txns'[mine[t]].run
  BY <1>6, <1>10, <1>11, StillRuns
<1>16. /\ UNCHANGED <<dblock, cursors, alive, acked>> /\ err' \in BOOLEAN
       /\ pages' \subseteq pages \cup ({x} \X (1..MaxUpdates))
       /\ \A y, k : y # x /\ <<y, k>> \in pages => <<y, k>> \in pages'
  BY <1>3, <1>8, <1>11 DEF Update
<1>17. PICK m \in {NoTx, mine[t]} : m = mine[t]
  OBVIOUS
<1> QED
  BY <1>3, <1>5, <1>6, <1>10, <1>11, <1>13, <1>14, <1>15, <1>16, <1>17, WriteStep

LEMMA RollbackRecordKeeps ==
  ASSUME NsfsInv, NEW t \in Threads, RollbackRecord(t)
  PROVE  NsfsInv'
<1>1. Stands(t, "rollback") /\ call[t].tx # NoTx
  BY DEF RollbackRecord
<1>2. PICK c : c = call[t]
  OBVIOUS
<1>3. /\ c \in Calls /\ Placed(c) /\ Owned(c, mine[t]) /\ OwnTxn(c) /\ c.todo \in Places
      /\ Head(c.todo) = "rollback" /\ mine[t] \in Nat /\ err \in BOOLEAN
      /\ mine[t] # NoTx => txns[mine[t]].run
  BY <1>1, <1>2, AtPlace
<1>4. c.todo = Undoing
  BY <1>3, AtStep
<1>5. PICK x : x = c.tx
  OBVIOUS
<1>6. /\ x \in 1..Len(txns) /\ txns[x] \in Txns /\ txns[x].run /\ x \in TxnsOf(t) /\ dblock = t
      /\ \A y \in acked : y \notin TxnsOf(t)
  BY <1>1, <1>2, <1>4, <1>5, Running
<1>7. PICK r : r = [txns[x] EXCEPT !.undo = Front(@)]
  OBVIOUS
<1>8. r \in Txns /\ r.run
  <2>1. PICK q \in Txns : q = txns[x]
    BY <1>6
  <2>2. q.undo \in Seq(Nat) /\ q.undo # << >>
    BY <1>2, <1>5, <2>1 DEF RollbackRecord, Txn, Txns
  <2>3. PICK u \in Seq(Nat) : u = Front(q.undo)
    <3>1. PICK l \in Seq(Nat) : l = q.undo
      BY <2>2
    <3>2. Front(l) = SubSeq(l, 1, Len(l) - 1)
      BY DEF Front
    <3>3. PICK n \in Nat : n = Len(l) /\ n # 0
      <4>1. Len(l) \in Nat
        OBVIOUS
      <4>2. Len(l) # 0
        <5>1. Len(l) = 0 => l = << >>
          OBVIOUS
        <5> QED
          BY <2>2, <3>1, <5>1
      <4> QED
        BY <4>1, <4>2
    <3>4. PICK k \in Nat : k = Len(l) - 1 /\ k <= Len(l)
      BY <3>3
    <3>5. SubSeq(l, 1, k) \in Seq(Nat)
      BY <3>4
    <3> QED
      BY <3>1, <3>2, <3>4, <3>5
  <2>4. r = [q EXCEPT !.undo = u]
    BY <1>7, <2>1, <2>3
  <2> QED
    BY <1>6, <2>1, <2>4 DEF Txns
<1>9. txns' = [txns EXCEPT ![x] = r] /\ pages' = pages \ {<<x, Last(txns[x].undo)>>}
  BY <1>2, <1>5, <1>6, <1>7 DEF RollbackRecord, Txn, NsfsInv
<1>10. txns'[x] = r
  BY <1>6, <1>9 DEF NsfsInv
<1>11. OwnTxn(c)'
  <2>1. ~ c.good
    BY <1>3, <1>4 DEF Placed
  <2>2. c.todo # Cleaning
    BY <1>4, Steps
  <2> QED
    BY <1>3, <1>5, <1>6, <1>8, <1>10, <2>1, <2>2 DEF OwnTxn
<1>12. call' = [call EXCEPT ![t] = c] /\ mine' = [mine EXCEPT ![t] = mine[t]]
  BY <1>2 DEF RollbackRecord, NsfsInv
<1>13. mine[t] # NoTx => txns'[mine[t]].run
  BY <1>6, <1>8, <1>9, StillRuns
<1>14. /\ UNCHANGED <<dblock, cursors, alive, acked>> /\ err' \in BOOLEAN
       /\ pages' \subseteq pages \cup ({x} \X (1..MaxUpdates))
       /\ \A y, k : y # x /\ <<y, k>> \in pages => <<y, k>> \in pages'
  BY <1>3, <1>9 DEF RollbackRecord
<1>15. PICK m \in {NoTx, mine[t]} : m = mine[t]
  OBVIOUS
<1> QED
  BY <1>3, <1>5, <1>6, <1>8, <1>9, <1>11, <1>12, <1>13, <1>14, <1>15, WriteStep

LEMMA RollbackFailsKeeps ==
  ASSUME NsfsInv, NEW t \in Threads, RollbackFails(t)
  PROVE  NsfsInv'
<1>1. Stands(t, "rollback") /\ call[t].tx # NoTx
  BY DEF RollbackFails
<1>2. PICK c : c = call[t]
  OBVIOUS
<1>3. /\ c \in Calls /\ Placed(c) /\ Owned(c, mine[t]) /\ OwnTxn(c) /\ c.todo \in Places
      /\ Head(c.todo) = "rollback" /\ mine[t] \in Nat
      /\ mine[t] # NoTx => txns[mine[t]].run
  BY <1>1, <1>2, AtPlace
<1>4. c.todo = Undoing /\ Tail(c.todo) = Unlocking
  BY <1>3, AtStep, Steps
<1>5. PICK x : x = c.tx
  OBVIOUS
<1>6. /\ x \in 1..Len(txns) /\ txns[x] \in Txns /\ txns[x].run /\ x \in TxnsOf(t) /\ dblock = t
      /\ \A y \in acked : y \notin TxnsOf(t)
  BY <1>1, <1>2, <1>4, <1>5, Running
<1>7. PICK r : r = [txns[x] EXCEPT !.latch = "x"]
  OBVIOUS
<1>8. r \in Txns /\ r.run
  BY <1>6, <1>7 DEF Txns
<1>9. txns' = [txns EXCEPT ![x] = r] /\ err' = TRUE
      /\ (pages' = pages \ {<<x, Last(txns[x].undo)>>} \/ pages' = pages)
  BY <1>2, <1>5, <1>6, <1>7 DEF RollbackFails, Txn, NsfsInv
<1>10. txns'[x] = r
  BY <1>6, <1>9 DEF NsfsInv
<1>11. PICK d : GoesOn(c, d, c.cur, c.good)
  BY DEF GoesOn
<1>12. /\ d \in Calls /\ Placed(d) /\ Owned(d, mine[t]) /\ d.todo = Unlocking
       /\ d.good = c.good /\ d.tx = x /\ d.own = c.own
  <2>1. PICK m : m = mine[t]
    OBVIOUS
  <2>2. c.todo \notin {Beginning, Begins, Returning, Commits}
    BY <1>4, Steps
  <2>3. PICK k \in 0..2, g \in BOOLEAN : k = c.cur /\ g = c.good
    BY <1>3 DEF Calls
  <2>4. k # 0 => Tail(c.todo) \in Frees
    BY <1>3, <1>4, <2>3, Kinds DEF Placed
  <2>5. g => c.good \/ c.todo \in Starting
    BY <2>3
  <2>6. GoesOn(c, d, k, g) /\ Owned(c, m)
    BY <1>3, <1>11, <2>1, <2>3
  <2>7. /\ d \in Calls /\ Placed(d) /\ Owned(d, m) /\ d.todo = Tail(c.todo)
        /\ d.good = g /\ d.tx = c.tx /\ d.own = c.own
    BY <1>3, <2>2, <2>4, <2>5, <2>6, NextPlace
  <2> QED
    BY <1>4, <1>5, <2>1, <2>3, <2>7
<1>13. OwnTxn(d)'
  <2> SUFFICES ASSUME d.own PROVE OwnTxn(d)'
    BY DEF OwnTxn
  <2>1. ~ d.good
    BY <1>3, <1>4, <1>12 DEF Placed
  <2>2. Unlocking \notin Locking \cup {Opening, Beginning, OpeningR, Reads1, OpeningF, Begins, Cleaning,
                                       Changes1, Committing, TakenBack, Undoing}
    BY Kinds, Steps DEF Locked, GivingUp
  <2>3. Unlocking \notin Starting
    BY Kinds
  <2> QED
    BY <1>12, <2>1, <2>2, <2>3 DEF OwnTxn
<1>14. call' = [call EXCEPT ![t] = d] /\ mine' = [mine EXCEPT ![t] = mine[t]]
  <2>1. NextStep(t)
    BY DEF RollbackFails
  <2>2. call' = [call EXCEPT ![t] = d]
    BY <1>2, <1>11, <2>1, NextIs DEF GoesOn
  <2> QED
    BY <2>2 DEF RollbackFails, NsfsInv
<1>15. mine[t] # NoTx => txns'[mine[t]].run
  BY <1>6, <1>8, <1>9, StillRuns
<1>16. /\ UNCHANGED <<dblock, cursors, alive, acked>> /\ err' \in BOOLEAN
       /\ pages' \subseteq pages \cup ({x} \X (1..MaxUpdates))
       /\ \A y, k : y # x /\ <<y, k>> \in pages => <<y, k>> \in pages'
  BY <1>9 DEF RollbackFails
<1>17. PICK m \in {NoTx, mine[t]} : m = mine[t]
  OBVIOUS
<1> QED
  BY <1>6, <1>8, <1>9, <1>12, <1>13, <1>14, <1>15, <1>16, <1>17, WriteStep

LEMMA BeginKeeps ==
  ASSUME NsfsInv, NEW t \in Threads, pgr_begin_txn(t)
  PROVE  NsfsInv'
<1>1. Stands(t, "begin")
  BY DEF pgr_begin_txn
<1>2. PICK c, k : c = call[t] /\ k = Len(txns) + 1
  OBVIOUS
<1>3. /\ c \in Calls /\ Placed(c) /\ Owned(c, mine[t]) /\ OwnTxn(c) /\ c.todo \in Places
      /\ Head(c.todo) = "begin" /\ mine[t] \in Nat /\ err \in BOOLEAN
      /\ mine[t] # NoTx => txns[mine[t]].run
      /\ c.todo \in Locked => dblock = t
  BY <1>1, <1>2, AtPlace
<1>4. c.todo \in {Beginning, Begins}
  BY <1>3, AtStep
<1>5. dblock = t /\ c.todo # Cleaning /\ c.todo \in Working \cup {Begins}
  BY <1>3, <1>4, Steps DEF Locked, Working
<1>6. c.op = "begin_txn" <=> c.todo = Begins
  <2>1. Beginning \in Frees /\ Beginning # Begins
    BY Distinct DEF Frees, Working
  <2> QED
    BY <1>3, <1>4, <2>1 DEF Placed
<1>7. CASE Failing(t) /\ err' = TRUE /\ UNCHANGED <<mine, txns>>
  <2>1. UNCHANGED <<mine, txns, pages, alive, acked, dblock, cursors>> /\ err' \in BOOLEAN
    BY <1>7 DEF pgr_begin_txn
  <2> QED
    BY <1>1, <1>2, <1>5, <1>7, <2>1, PlainFail
<1>8. CASE txns' = Append(txns, NewTxn) /\ UNCHANGED err
  <2>1. txns \in Seq(Txns) /\ NewTxn \in Txns /\ call \in [Threads -> Calls] /\ mine \in [Threads -> Nat]
    BY NsfsAssumption DEF NsfsInv, Txns, NewTxn
  <2>2. /\ txns' \in Seq(Txns) /\ Len(txns') = k /\ k \in Nat /\ txns'[k] = NewTxn /\ k = Len(txns) + 1
        /\ \A y \in 1..Len(txns) : txns'[y] = txns[y]
        /\ Len(txns) \in Nat
    BY <1>2, <1>8, <2>1
  <2>3. NewTxn.run = TRUE /\ NewTxn.made = 0
    BY DEF NewTxn
  <2>4. /\ UNCHANGED <<dblock, cursors, pages, alive, acked>> /\ err' \in BOOLEAN /\ (err' => err)
    BY <1>3, <1>8 DEF pgr_begin_txn
  <2>5. Shown(k)'
    BY <2>2, <2>3 DEF Shown
  <2>6. \A y \in acked' : IF y \in TxnsOf(t) THEN ~ txns'[y].run /\ Shown(y)' ELSE y \in acked
    <3> SUFFICES ASSUME NEW y \in acked PROVE ~ txns'[y].run /\ Shown(y)'
      BY <2>4
    <3>1. y \in 1..Len(txns) /\ ~ txns[y].run /\ Shown(y)
      BY DEF NsfsInv, NsfsTypeOK, SuccessStays
    <3> QED
      BY <2>2, <2>4, <3>1 DEF Shown
  <2>7. /\ mine \in [Threads -> 0..Len(txns)] /\ \A u \in Threads : call[u].tx \in 0..Len(txns)
        /\ pages \subseteq (1..Len(txns)) \X (1..MaxUpdates) /\ acked \subseteq 1..Len(txns)
        /\ dblock \in Threads \cup {NoOne} /\ cursors \in 0..NCursors /\ alive \in BOOLEAN
    BY <2>1 DEF NsfsInv, NsfsTypeOK
  <2>8. ASSUME NEW d \in Calls, NEW m \in Nat, d.tx \in {NoTx, k}, m \in {mine[t], k},
               call' = [call EXCEPT ![t] = d], mine' = [mine EXCEPT ![t] = m],
               d # Idle => Placed(d) /\ Owned(d, m) /\ OwnTxn(d)'
        PROVE  NsfsInv'
    <3>1. NsfsTypeOK'
      <4>1. 0..Len(txns) \subseteq 0..Len(txns') /\ 1..Len(txns) \subseteq 1..Len(txns')
            /\ {NoTx, k} \subseteq 0..Len(txns')
        BY <2>2 DEF NoTx
      <4>2. pages' \subseteq (1..Len(txns')) \X (1..MaxUpdates) /\ acked' \subseteq 1..Len(txns')
        BY <2>4, <2>7, <4>1
      <4>3. ASSUME NEW u \in Threads PROVE mine'[u] \in 0..Len(txns') /\ call'[u].tx \in 0..Len(txns')
        BY <2>1, <2>7, <2>8, <4>1
      <4> QED
        BY <2>4, <2>7, <4>2, <4>3 DEF NsfsTypeOK
    <3>2. m # NoTx => txns'[m].run
      <4>1. CASE m = k
        BY <2>2, <2>3, <4>1
      <4>2. CASE m = mine[t]
        <5>1. mine[t] \in 0..Len(txns)
          BY <2>7
        <5> QED
          BY <1>3, <2>2, <4>2, <5>1 DEF NoTx
      <4> QED
        BY <2>8, <4>1, <4>2
    <3>3. \A x \in {d.tx, m} \ {NoTx} : x \in TxnsOf(t) \/ x > Len(txns)
      BY <2>2, <2>8 DEF TxnsOf
    <3>4. \A x \in 1..Len(txns) : x \notin TxnsOf(t) =>
             /\ txns'[x] = txns[x]
             /\ \A n : <<x, n>> \in pages => <<x, n>> \in pages'
      BY <2>2, <2>4
    <3>5. /\ Len(txns) <= Len(txns') /\ (dblock' = dblock \/ dblock \in {t, NoOne})
          /\ d.todo \in Locked \/ m # NoTx => dblock' = t
          /\ err' => err \/ dblock = t
      BY <1>5, <2>2, <2>4
    <3> QED
      BY <2>2, <2>6, <2>8, <3>1, <3>2, <3>3, <3>4, <3>5, StepKeeps
  <2>9. CASE c.op = "begin_txn"
    <3>1. PICK d : d = Idle
      OBVIOUS
    <3>2. call' = [call EXCEPT ![t] = d] /\ mine' = [mine EXCEPT ![t] = k]
      BY <1>2, <1>7, <1>8, <2>2, <2>9, <3>1 DEF pgr_begin_txn
    <3>3. d \in Calls /\ d.tx = NoTx /\ ~ (d # Idle)
      BY <3>1, IdleIs
    <3> QED
      BY <2>2, <2>8, <3>2, <3>3
  <2>10. CASE c.op # "begin_txn"
    <3>1. c.todo = Beginning
      BY <1>4, <1>6, <2>10
    <3>2. PICK d : d = [c EXCEPT !.tx = k, !.own = TRUE, !.todo = Changes1]
      OBVIOUS
    <3>3. call' = [call EXCEPT ![t] = d] /\ mine' = [mine EXCEPT ![t] = mine[t]]
      <4>1. Tail(c.todo) = Changes1
        BY <3>1, Steps
      <4>2. call' = [call EXCEPT ![t].tx = Len(txns'), ![t].own = TRUE, ![t].todo = Tail(@)] /\ mine' = mine
        BY <1>2, <1>7, <1>8, <2>10 DEF pgr_begin_txn
      <4> QED
        BY <1>2, <2>1, <2>2, <3>2, <4>1, <4>2
    <3>4. /\ d.tx = k /\ d.own = TRUE /\ d.todo = Changes1 /\ d.op = c.op /\ d.need = c.need
          /\ d.good = c.good /\ d.cur = c.cur
      BY <1>3, <3>2 DEF Calls
    <3>5. Changes1 \in Places /\ Changes1 \in Frees /\ Changes1 \in Locked
      BY DEF Places, Locked, Working, Frees
    <3>6. d \in Calls
      BY <1>3, <2>2, <3>2, <3>5 DEF Calls
    <3>7. Changes1 \notin Locking \cup Starting \cup {TakenBack, Undoing, Deleting, LateFree, Begins,
            Commits, Opening, Beginning, OpeningR, Reads1, OpeningF, Cleaning, Freeing, Unlocking,
            Returning, Reading}
      BY <3>5, Kinds, Steps, Distinct DEF Starting
    <3>8. c.op \notin {"begin_txn", "commit"} /\ c.need
      <4>1. Beginning \in Frees
        BY DEF Frees, Working
      <4> QED
        BY <1>3, <3>1, <4>1 DEF Placed, Owned
    <3>9. Placed(d)
      <4>1. d.todo # <<"lock">> \o Begins
        BY <3>4, <3>7 DEF Locking
      <4> QED
        BY <1>3, <3>4, <3>5, <3>7, <3>8, <4>1 DEF Placed
    <3>10. Owned(d, mine[t])
      <4>1. mine[t] = NoTx /\ k # NoTx
        BY <1>3, <2>2, <3>8 DEF Owned, NoTx
      <4>2. d.todo \notin {<<"lock">> \o Reading, Reading, OpeningR, Reads1}
        BY <3>4, <3>7 DEF Locking
      <4> QED
        BY <3>4, <3>8, <4>1, <4>2 DEF Owned
    <3>11. OwnTxn(d)'
      BY <2>2, <2>3, <2>5, <3>4, <3>7 DEF OwnTxn
    <3>12. PICK m \in Nat : m = mine[t]
      BY <1>3
    <3> QED
      BY <2>8, <3>3, <3>4, <3>6, <3>9, <3>10, <3>11, <3>12
  <2> QED
    BY <2>9, <2>10
<1> QED
  BY <1>7, <1>8 DEF pgr_begin_txn

LEMMA CommitKeeps ==
  ASSUME NsfsInv, NEW t \in Threads, pgr_commit(t)
  PROVE  NsfsInv'
<1>1. Stands(t, "commit")
  BY DEF pgr_commit
<1>2. PICK c : c = call[t]
  OBVIOUS
<1>3. /\ c \in Calls /\ Placed(c) /\ Owned(c, mine[t]) /\ OwnTxn(c) /\ c.todo \in Places
      /\ Head(c.todo) = "commit" /\ mine[t] \in Nat /\ err \in BOOLEAN
  BY <1>1, <1>2, AtPlace
<1>4. c.todo \in {Committing, Commits}
  BY <1>3, AtStep
<1>5. PICK x : x = c.tx
  OBVIOUS
<1>6. /\ x \in 1..Len(txns) /\ txns[x] \in Txns /\ txns[x].run /\ x \in TxnsOf(t) /\ dblock = t
      /\ \A y \in acked : y \notin TxnsOf(t)
      /\ c.todo = Committing => c.own
  BY <1>1, <1>2, <1>4, <1>5, Running
<1>7. c.op = "commit" <=> c.todo = Commits
  <2>1. Committing \in Frees /\ Committing # Commits
    BY Distinct DEF Frees, Working
  <2> QED
    BY <1>3, <1>4, <2>1 DEF Placed
<1>8. PICK m \in {NoTx, mine[t]} : m = IF c.todo = Commits THEN NoTx ELSE mine[t]
  OBVIOUS
<1>9. c.todo = Committing => m = NoTx
  <2>1. c.todo = Committing => mine[t] = NoTx
    BY <1>3, <1>6 DEF Owned
  <2> QED
    BY <1>8, <2>1
<1>10. m = NoTx
  BY <1>4, <1>8, <1>9
<1>11. mine' = [mine EXCEPT ![t] = m]
  <2>1. mine' = IF c.op = "commit" THEN [mine EXCEPT ![t] = NoTx] ELSE mine
    BY <1>2 DEF pgr_commit, Committed
  <2> QED
    BY <1>7, <1>8, <2>1 DEF NsfsInv
<1>12. /\ UNCHANGED <<dblock, cursors, alive, acked, pages>>
       /\ pages' \subseteq pages \cup ({x} \X (1..MaxUpdates))
       /\ \A y, n : y # x /\ <<y, n>> \in pages => <<y, n>> \in pages'
  BY DEF pgr_commit
<1>13. CASE ~ err /\ txns' = [txns EXCEPT ![x].run = FALSE] /\ NextStep(t) /\ UNCHANGED err
  <2>1. PICK r : r = [txns[x] EXCEPT !.run = FALSE]
    OBVIOUS
  <2>2. r \in Txns /\ r.run = FALSE /\ r.made = txns[x].made
    BY <1>6, <2>1 DEF Txns
  <2>3. txns' = [txns EXCEPT ![x] = r] /\ txns'[x] = r
    <3>1. txns' = [txns EXCEPT ![x] = r]
      BY <1>13, <2>1
    <3> QED
      BY <1>6, <3>1 DEF NsfsInv
  <2>4. PICK d : GoesOn(c, d, c.cur, c.good)
    BY DEF GoesOn
  <2>5. call' = [call EXCEPT ![t] = d]
    BY <1>2, <1>13, <2>4, NextIs DEF GoesOn
  <2>6. /\ d.todo = Tail(c.todo) /\ d.cur = c.cur /\ d.good = c.good /\ d.op = c.op /\ d.tx = x
        /\ d.own = c.own /\ d.need = c.need
    BY <1>3, <1>5, <2>4 DEF GoesOn, Calls
  <2>7. /\ c.todo = Committing => d.todo = Cleaning
        /\ c.todo = Commits => d.todo = Unlocking
    BY <2>6, Steps
  <2>8. d.todo \in Places \ Locking /\ Cleaning \in Frees /\ d.todo \in {Cleaning, Unlocking}
    <3>1. d.todo \in {Cleaning, Unlocking}
      BY <1>4, <2>7
    <3>2. d.todo \in Locked
      BY <3>1 DEF Locked, Working, GivingUp
    <3> QED
      BY <3>1, <3>2, Kinds DEF Places, Frees, Working
  <2>9. d \in Calls
    BY <1>3, <2>4, <2>6, <2>8 DEF Calls, GoesOn
  <2>10. d.todo \notin Locking \cup Starting \cup {TakenBack, Undoing, Deleting, LateFree, Begins, Commits,
            Opening, Beginning, OpeningR, Reads1, OpeningF, Changes1, Committing, Reading, Changing}
    BY <2>8, Steps, Distinct, SMTT(30) DEF Starting
  <2>11. Placed(d)
    <3>1. d.todo # <<"lock">> \o Begins
      BY <2>10 DEF Locking
    <3>2. c.todo = Commits => c.cur = 0 /\ Unlocking \notin Starting \cup Frees
      BY <1>3, Kinds DEF Placed
    <3>3. c.todo = Committing => c.op \notin {"begin_txn", "commit"}
      BY <1>3 DEF Placed, Frees, Working
    <3> QED
      BY <1>3, <1>4, <2>6, <2>7, <2>8, <2>10, <3>1, <3>2, <3>3 DEF Placed
  <2>12. Owned(d, m)
    <3>1. d.todo # <<"lock">> \o Reading
      BY <2>10 DEF Locking
    <3>2. c.need => c.todo # Commits
      BY <1>3, <1>7 DEF Owned
    <3>3. ~ c.need => c.todo = Commits
      BY <1>3, <1>4 DEF Owned
    <3> QED
      BY <1>3, <1>5, <1>7, <1>10, <2>6, <2>10, <3>1, <3>2, <3>3 DEF Owned
  <2>13. OwnTxn(d)'
    <3> SUFFICES ASSUME c.own PROVE OwnTxn(d)'
      BY <2>6 DEF OwnTxn
    <3>1. c.good => Shown(x)'
      BY <1>3, <1>5, <1>12, <2>2, <2>3 DEF OwnTxn, Shown
    <3>2. ~ err'
      BY <1>13
    <3> QED
      BY <2>2, <2>3, <2>6, <2>10, <3>1, <3>2 DEF OwnTxn
  <2>14. err' \in BOOLEAN /\ (m # NoTx => txns'[m].run)
    BY <1>3, <1>10, <1>13
  <2> QED
    BY <1>6, <1>11, <1>12, <2>2, <2>3, <2>5, <2>6, <2>9, <2>11, <2>12, <2>13, <2>14, WriteStep
<1>14. CASE (UNCHANGED txns \/ txns' = [txns EXCEPT ![x].latch = "s"]) /\ Failing(t) /\ err' = TRUE
  <2>1. PICK r \in Txns : r.run /\ txns' = [txns EXCEPT ![x] = r]
    <3>1. CASE UNCHANGED txns
      <4>1. txns' = [txns EXCEPT ![x] = txns[x]]
        BY <1>6, <3>1 DEF NsfsInv
      <4> QED
        BY <1>6, <4>1
    <3>2. CASE txns' = [txns EXCEPT ![x].latch = "s"]
      <4>1. PICK q : q = [txns[x] EXCEPT !.latch = "s"]
        OBVIOUS
      <4>2. q \in Txns /\ q.run
        BY <1>6, <4>1 DEF Txns
      <4>3. txns' = [txns EXCEPT ![x] = q]
        BY <3>2, <4>1
      <4> QED
        BY <4>2, <4>3
    <3> QED
      BY <1>14, <3>1, <3>2
  <2>2. txns'[x] = r
    BY <1>6, <2>1 DEF NsfsInv
  <2>3. PICK d : TurnsTo(c, d, c.cur)
    BY DEF TurnsTo
  <2>4. call' = [call EXCEPT ![t] = d]
    BY <1>2, <1>14, <2>3, FailIs DEF TurnsTo
  <2>5. /\ d \in Calls /\ Placed(d) /\ Owned(d, m)
        /\ d.todo \in {Freeing, TakenBack, Deleting, Unlocking}
        /\ ~ d.good /\ d.tx = x /\ d.own = c.own
    <3>1. PICK k \in 0..2 : k = c.cur
      BY <1>3 DEF Calls
    <3>2. c.todo \in Starting \cup Working \cup {Begins, Commits}
      BY <1>4 DEF Working
    <3>3. k # 0 => c.todo \notin {Begins, Commits}
      BY <1>3, <3>1, Kinds DEF Placed
    <3>4. PICK n : n = mine[t]
      OBVIOUS
    <3>5. TurnsTo(c, d, k) /\ Owned(c, n)
      BY <1>3, <2>3, <3>1, <3>4
    <3>6. /\ d \in Calls /\ Placed(d) /\ Owned(d, IF c.todo = Commits THEN NoTx ELSE n)
          /\ d.todo \in {Freeing, TakenBack, Deleting, Unlocking}
          /\ ~ d.good /\ d.tx = c.tx /\ d.own = c.own
      BY <1>3, <3>2, <3>3, <3>5, FailPlace
    <3> QED
      BY <1>5, <1>8, <3>4, <3>6
  <2>6. OwnTxn(d)'
    <3> SUFFICES ASSUME d.own PROVE OwnTxn(d)'
      BY DEF OwnTxn
    <3>1. d.todo \notin Locking \cup Starting \cup {Opening, Beginning, OpeningR, Reads1, OpeningF, Cleaning, Begins}
      <4>1. Head(d.todo) \in {"free", "unlock"}
        BY <2>5, Steps
      <4>2. d.todo \in Locked
        BY <2>5 DEF Locked, GivingUp
      <4> QED
        BY <4>1, <4>2, Kinds, Steps DEF Starting
    <3> QED
      BY <2>1, <2>2, <2>5, <3>1 DEF OwnTxn
  <2>7. err' \in BOOLEAN /\ (m # NoTx => txns'[m].run)
    BY <1>10, <1>14
  <2> QED
    BY <1>6, <1>11, <1>12, <2>1, <2>4, <2>5, <2>6, <2>7, WriteStep
<1> QED
  BY <1>2, <1>5, <1>13, <1>14 DEF pgr_commit, Committed

-----------------------------------------------------------------------------
(* The cursors. *)

\* Those of one call and those of the others.
LEMMA HeldIs ==
  ASSUME NEW calls \in [Threads -> Calls], NEW t \in Threads,
         NEW O, O = {x \in HeldBy(calls) : x[1] # t}, IsFiniteSet(O)
  PROVE  IsFiniteSet(HeldBy(calls)) /\ Cardinality(HeldBy(calls)) = Cardinality(O) + calls[t].cur
<1>0. PICK k \in 0..2 : k = calls[t].cur
  BY DEF Calls
<1>1. PICK H : H = HeldBy(calls) /\ k = calls[t].cur
  BY <1>0
<1>2. PICK n \in Nat : n = Cardinality(O)
  BY FS_CardinalityType
<1>3. /\ <<t, 1>> \notin O /\ <<t, 2>> \notin O
      /\ H = O \cup {x \in {<<t, 1>>, <<t, 2>>} : x[2] <= k}
  BY <1>1 DEF HeldBy
<1>4. IsFiniteSet(H) /\ Cardinality(H) = n + k
  <2>1. CASE k = 0
    <3>1. H = O
      BY <1>3, <2>1
    <3> QED
      BY <1>2, <2>1, <3>1
  <2>2. PICK P : P = O \cup {<<t, 1>>}
    OBVIOUS
  <2>3. IsFiniteSet(P) /\ Cardinality(P) = n + 1
    BY <1>2, <1>3, <2>2, FS_AddElement
  <2>4. CASE k = 1
    <3>1. H = P
      BY <1>3, <2>2, <2>4
    <3> QED
      BY <2>3, <2>4, <3>1
  <2>5. CASE k = 2
    <3>1. H = P \cup {<<t, 2>>} /\ <<t, 2>> \notin P
      BY <1>3, <2>2, <2>5
    <3>2. IsFiniteSet(H) /\ Cardinality(H) = Cardinality(P) + 1
      BY <2>3, <3>1, FS_AddElement
    <3> QED
      BY <1>2, <2>3, <2>5, <3>2
  <2> QED
    BY <2>1, <2>4, <2>5
<1> QED
  BY <1>1, <1>2, <1>4

\* A step of one call, which takes or gives back what it says it does.
LEMMA CursorStep ==
  ASSUME CursorInv, NEW t \in Threads, call \in [Threads -> Calls]
  PROVE  /\ call[t].cur <= cursors
         /\ \A k \in Int : /\ call' \in [Threads -> Calls]
                           /\ \A u \in Threads \ {t} : call'[u] = call[u]
                           /\ call'[t].cur = call[t].cur + k
                           /\ cursors' = cursors + k
                           => CursorInv'
<1>1. PICK calls, O : calls = call /\ O = {x \in HeldBy(call) : x[1] # t}
  OBVIOUS
<1>2. IsFiniteSet(O) /\ Cardinality(O) \in Nat
  <2>1. O \subseteq HeldBy(call) /\ IsFiniteSet(HeldBy(call))
    BY <1>1 DEF CursorInv, Held
  <2> QED
    BY <2>1, FS_Subset, FS_CardinalityType
<1>3. Cardinality(HeldBy(call)) = Cardinality(O) + call[t].cur
  BY <1>1, <1>2, HeldIs
<1>4. cursors = Cardinality(O) + call[t].cur /\ call[t].cur \in 0..2
  BY <1>3 DEF CursorInv, Held, Calls
<1>5. ASSUME NEW k \in Int, call' \in [Threads -> Calls], \A u \in Threads \ {t} : call'[u] = call[u],
             call'[t].cur = call[t].cur + k, cursors' = cursors + k
      PROVE  CursorInv'
  <2>1. O = {x \in HeldBy(call') : x[1] # t}
    BY <1>1, <1>5 DEF HeldBy
  <2>2. IsFiniteSet(HeldBy(call')) /\ Cardinality(HeldBy(call')) = Cardinality(O) + call'[t].cur
    BY <1>2, <1>5, <2>1, HeldIs
  <2>3. Cardinality(HeldBy(call')) = cursors'
    BY <1>2, <1>4, <1>5, <2>2
  <2> QED
    BY <2>2, <2>3 DEF CursorInv, Held
<1> QED
  BY <1>2, <1>4, <1>5

\* A step of a call that keeps its cursors.
LEMMA SameCursors ==
  ASSUME NsfsInv, CursorInv, NEW t \in Threads, NEW d \in Calls, call' = [call EXCEPT ![t] = d],
         d.cur = call[t].cur, cursors' = cursors
  PROVE  CursorInv'
<1>1. call \in [Threads -> Calls]
  BY DEF NsfsInv
<1>2. /\ call' \in [Threads -> Calls] /\ \A u \in Threads \ {t} : call'[u] = call[u]
      /\ call'[t].cur = call[t].cur + 0
  BY <1>1 DEF Calls
<1>3. 0 \in Int /\ cursors' = cursors + 0
  BY DEF NsfsInv, NsfsTypeOK
<1> QED
  BY <1>1, <1>2, <1>3, CursorStep

\* The same when all it does is to go on or to fail.
LEMMA NextCursors ==
  ASSUME NsfsInv, CursorInv, NEW t \in Threads, NsfsInv', NextStep(t) \/ Failing(t), cursors' = cursors
  PROVE  CursorInv'
<1>1. call \in [Threads -> Calls] /\ call' \in [Threads -> Calls]
  BY DEF NsfsInv
<1>2. PICK d : d = call'[t]
  OBVIOUS
<1>3. d \in Calls
  BY <1>1, <1>2
<1>4. d.cur = call[t].cur /\ call' = [call EXCEPT ![t] = d]
  BY <1>1, <1>2 DEF NextStep, Failing, Calls
<1> QED
  BY <1>3, <1>4, SameCursors

\* A thread becomes idle, or begins, without a cursor.
LEMMA NoCursors ==
  ASSUME NsfsInv, CursorInv, NEW t \in Threads, NsfsInv', cursors' = cursors,
         \/ call[t] = Idle /\ \E d : call' = [call EXCEPT ![t] = d] /\ d.cur = 0
         \/ /\ \E step \in {"begin", "return"} : Stands(t, step)
            /\ call[t].todo \in {Begins, Returning}
            /\ call' = [call EXCEPT ![t] = Idle]
  PROVE  CursorInv'
<1>1. call \in [Threads -> Calls] /\ call' \in [Threads -> Calls]
  BY DEF NsfsInv
<1>2. PICK d : d = call'[t]
  OBVIOUS
<1>3. d \in Calls
  BY <1>1, <1>2
<1>4. CASE call[t] = Idle
  <2>1. ~ \E step \in {"begin", "return"} : Stands(t, step)
    BY <1>4 DEF Stands, Idle
  <2>2. d.cur = call[t].cur /\ call' = [call EXCEPT ![t] = d]
    BY <1>1, <1>2, <1>4, <2>1, IdleIs
  <2> QED
    BY <1>3, <2>2, SameCursors
<1>5. CASE call[t] # Idle
  <2>1. call[t].cur = 0
    <3>1. Placed(call[t]) /\ call[t] \in Calls
      BY <1>5, AtPlace
    <3>2. call[t].todo \notin Frees
      BY <1>5, Kinds
    <3> QED
      BY <3>1, <3>2 DEF Placed
  <2>2. d.cur = call[t].cur /\ call' = [call EXCEPT ![t] = d]
    BY <1>1, <1>2, <1>5, <2>1, IdleIs
  <2> QED
    BY <1>3, <2>2, SameCursors
<1> QED
  BY <1>4, <1>5

-----------------------------------------------------------------------------
LEMMA NsfsStarts == NsfsInit => NsfsInv /\ CursorInv
<1> SUFFICES ASSUME NsfsInit PROVE NsfsInv /\ CursorInv
  OBVIOUS
<1> USE DEF NsfsInit
<1>1. Idle \in Calls /\ Idle.cur = 0 /\ Idle.tx = NoTx /\ Idle.todo \notin Locked
  BY IdleIs
<1>2. txns = << >> /\ txns \in Seq(Txns) /\ Len(txns) = 0
  OBVIOUS
<1>3. call \in [Threads -> Calls] /\ mine \in [Threads -> Nat]
  BY <1>1 DEF NoTx
<1>4. NsfsTypeOK
  <2>1. NCursors \in Nat
    BY NsfsAssumption
  <2>2. dblock \in Threads \cup {NoOne} /\ cursors \in 0..NCursors
    BY <2>1
  <2>2a. {err, alive} \subseteq BOOLEAN
    <3>1. err \in BOOLEAN /\ alive \in BOOLEAN
      OBVIOUS
    <3> QED
      BY <3>1
  <2>3. \A t \in Threads : mine[t] \in 0..Len(txns) /\ call[t].tx \in 0..Len(txns)
    BY <1>1, <1>2 DEF NoTx
  <2> QED
    BY <2>2, <2>2a, <2>3 DEF NsfsTypeOK
<1>5. \A t \in Threads : CallOK(t) /\ OwnerOK(t) /\ TxnsOf(t) = {}
  BY <1>1 DEF CallOK, OwnerOK, Holds, TxnsOf
<1>6. NsfsInv
  BY <1>2, <1>3, <1>4, <1>5 DEF NsfsInv, SuccessStays
<1>7. Held = {}
  BY <1>1 DEF Held, HeldBy
<1> QED
  BY <1>6, <1>7, FS_EmptySet DEF CursorInv

LEMMA NsfsSteps == NsfsInv /\ CursorInv /\ [NsfsNext]_nsfsVars => NsfsInv' /\ CursorInv'
<1> SUFFICES ASSUME NsfsInv, CursorInv, [NsfsNext]_nsfsVars PROVE NsfsInv' /\ CursorInv'
  OBVIOUS
<1>0. call \in [Threads -> Calls] /\ cursors \in Nat
  BY NsfsAssumption DEF NsfsInv, NsfsTypeOK
<1>1. ASSUME NEW t \in Threads, NEW op \in Ops, CallApi(t, op, mine[t]) PROVE NsfsInv' /\ CursorInv'
  <2>1. NsfsInv'
    BY <1>1, CallApiKeeps
  <2>2. call[t] = Idle /\ cursors' = cursors
    BY <1>1 DEF CallApi
  <2>3. PICK d : d = [Idle EXCEPT !.op = op, !.tx = mine[t], !.need = (mine[t] = NoTx),
                                  !.todo = Route(op, mine[t])]
    OBVIOUS
  <2>4. call' = [call EXCEPT ![t] = d] /\ d.cur = 0
    BY <1>1, <2>3 DEF CallApi, Idle
  <2> QED
    BY <2>1, <2>2, <2>4, NoCursors
<1>2. ASSUME NEW t \in Threads, Lock(t) PROVE NsfsInv' /\ CursorInv'
  BY <1>2, LockKeeps, NextCursors DEF Lock
<1>3. ASSUME NEW t \in Threads, Start(t) PROVE NsfsInv' /\ CursorInv'
  <2>1. NsfsInv'
    BY <1>3, StartKeeps
  <2>2. PICK got \in 0..2 : /\ cursors' = cursors + got
                            /\ call' \in [Threads -> Calls]
                            /\ call[t].cur = 0 /\ call'[t].cur = got
                            /\ \A u \in Threads \ {t} : call'[u] = call[u]
    BY <1>3, StartKeeps
  <2>3. call'[t].cur = call[t].cur + got /\ got \in Int
    BY <2>2
  <2>4. CursorInv'
    BY <1>0, <2>2, <2>3, CursorStep
  <2> QED
    BY <2>1, <2>4
<1>4. ASSUME NEW t \in Threads, Open(t) PROVE NsfsInv' /\ CursorInv'
  BY <1>4, OpenKeeps, NextCursors DEF Open
<1>5. ASSUME NEW t \in Threads, pgr_begin_txn(t) PROVE NsfsInv' /\ CursorInv'
  <2>1. NsfsInv' /\ Stands(t, "begin") /\ cursors' = cursors
    BY <1>5, BeginKeeps DEF pgr_begin_txn
  <2>2. /\ call[t] \in Calls /\ Placed(call[t]) /\ call[t].todo \in Places
        /\ Head(call[t].todo) = "begin"
    BY <2>1, AtPlace
  <2>3. call[t].todo \in {Beginning, Begins}
    BY <2>2, AtStep
  <2>4. CASE Failing(t)
    BY <2>1, <2>4, NextCursors
  <2>5. CASE call[t].op = "begin_txn" /\ call' = [call EXCEPT ![t] = Idle]
    <3>1. Beginning \in Frees
      BY DEF Frees, Working
    <3>2. call[t].todo = Begins
      BY <2>2, <2>3, <2>5, <3>1 DEF Placed
    <3> QED
      BY <2>1, <2>5, <3>2, NoCursors
  <2>6. CASE call' = [call EXCEPT ![t].tx = Len(txns'), ![t].own = TRUE, ![t].todo = Tail(@)]
    <3>1. call' \in [Threads -> Calls]
      BY <2>1 DEF NsfsInv
    <3>2. PICK d \in Calls : d = call'[t]
      BY <3>1
    <3>3. d.cur = call[t].cur /\ call' = [call EXCEPT ![t] = d]
      BY <1>0, <2>2, <2>6, <3>2 DEF Calls
    <3> QED
      BY <2>1, <3>3, SameCursors
  <2> QED
    BY <1>5, <2>4, <2>5, <2>6 DEF pgr_begin_txn
<1>6. ASSUME NEW t \in Threads, Update(t) PROVE NsfsInv' /\ CursorInv'
  <2>1. NsfsInv' /\ call' = call /\ cursors' = cursors
    BY <1>6, UpdateKeeps DEF Update
  <2> QED
    BY <2>1 DEF CursorInv, Held
<1>7. ASSUME NEW t \in Threads, WorkFails(t) PROVE NsfsInv' /\ CursorInv'
  BY <1>7, WorkFailsKeeps, NextCursors DEF WorkFails
<1>8. ASSUME NEW t \in Threads, WorkDone(t) PROVE NsfsInv' /\ CursorInv'
  BY <1>8, WorkDoneKeeps, NextCursors DEF WorkDone
<1>9. ASSUME NEW t \in Threads, pgr_commit(t) PROVE NsfsInv' /\ CursorInv'
  <2>1. NextStep(t) \/ Failing(t)
    BY <1>9 DEF pgr_commit, Committed
  <2> QED
    BY <1>9, <2>1, CommitKeeps, NextCursors DEF pgr_commit
<1>10. ASSUME NEW t \in Threads, Cleanup(t) PROVE NsfsInv' /\ CursorInv'
  <2>1. NextStep(t) \/ Failing(t)
    BY <1>10 DEF Cleanup
  <2> QED
    BY <1>10, <2>1, CleanupKeeps, NextCursors DEF Cleanup
<1>11. ASSUME NEW t \in Threads, Free(t) PROVE NsfsInv' /\ CursorInv'
  <2>1. call[t].cur <= cursors
    BY <1>0, CursorStep
  <2>2. /\ NsfsInv'
        /\ cursors' = cursors - call[t].cur /\ call' \in [Threads -> Calls] /\ call'[t].cur = 0
        /\ \A u \in Threads \ {t} : call'[u] = call[u]
    BY <1>11, <2>1, FreeKeeps
  <2>3. PICK k \in Int : k = 0 - call[t].cur
    BY <1>0 DEF Calls
  <2>4. call'[t].cur = call[t].cur + k /\ cursors' = cursors + k
    BY <1>0, <2>2, <2>3 DEF Calls
  <2> QED
    BY <1>0, <2>2, <2>4, CursorStep
<1>12. ASSUME NEW t \in Threads, RollbackNothing(t) PROVE NsfsInv' /\ CursorInv'
  <2>1. NsfsInv' /\ call' = call /\ cursors' = cursors
    BY <1>12, RollbackNothingKeeps DEF RollbackNothing
  <2> QED
    BY <2>1 DEF CursorInv, Held
<1>13. ASSUME NEW t \in Threads, RollbackRecord(t) PROVE NsfsInv' /\ CursorInv'
  <2>1. NsfsInv' /\ call' = call /\ cursors' = cursors
    BY <1>13, RollbackRecordKeeps DEF RollbackRecord
  <2> QED
    BY <2>1 DEF CursorInv, Held
<1>14. ASSUME NEW t \in Threads, RollbackFails(t) PROVE NsfsInv' /\ CursorInv'
  BY <1>14, RollbackFailsKeeps, NextCursors DEF RollbackFails
<1>15. ASSUME NEW t \in Threads, RollbackEnds(t) PROVE NsfsInv' /\ CursorInv'
  BY <1>15, RollbackEndsKeeps, NextCursors DEF RollbackEnds
<1>16. ASSUME NEW t \in Threads, Unlock(t) PROVE NsfsInv' /\ CursorInv'
  BY <1>16, UnlockKeeps, NextCursors DEF Unlock
<1>17. ASSUME NEW t \in Threads, Return(t) PROVE NsfsInv' /\ CursorInv'
  <2>1. NsfsInv' /\ Stands(t, "return") /\ cursors' = cursors /\ call' = [call EXCEPT ![t] = Idle]
    BY <1>17, ReturnKeeps DEF Return
  <2>2. call[t].todo \in Places /\ Head(call[t].todo) = "return"
    BY <2>1, AtPlace
  <2>3. call[t].todo = Returning
    BY <2>2, AtStep
  <2> QED
    BY <2>1, <2>3, NoCursors
<1>18. ASSUME NEW t \in Threads, nsfslite_reset_errors(t) PROVE NsfsInv' /\ CursorInv'
  <2>1. NsfsInv' /\ call' = call /\ cursors' = cursors
    BY <1>18, ResetKeeps DEF nsfslite_reset_errors
  <2> QED
    BY <2>1 DEF CursorInv, Held
<1>19. CASE UNCHANGED nsfsVars
  <2>1. /\ call' = call /\ mine' = mine /\ txns' = txns /\ pages' = pages /\ err' = err
        /\ dblock' = dblock /\ cursors' = cursors /\ acked' = acked /\ alive' = alive
    BY <1>19 DEF nsfsVars
  <2>2. NsfsTypeOK'
    BY <2>1 DEF NsfsInv, NsfsTypeOK
  <2>3. ASSUME NEW u \in Threads PROVE CallOK(u)' /\ OwnerOK(u)' /\ TxnsOf(u)' = TxnsOf(u)
    <3>1. CallOK(u) /\ OwnerOK(u)
      BY DEF NsfsInv
    <3> QED
      BY <2>1, <3>1 DEF CallOK, OwnerOK, Holds, TxnsOf, OwnTxn, Shown
  <2>4. \A u, v \in Threads : u # v => TxnsOf(u)' \cap TxnsOf(v)' = {}
    BY <2>3 DEF NsfsInv
  <2>5. SuccessStays'
    BY <2>1 DEF NsfsInv, SuccessStays, Shown
  <2> QED
    BY <2>1, <2>2, <2>3, <2>4, <2>5 DEF NsfsInv, CursorInv, Held
<1> QED
  BY <1>1, <1>2, <1>3, <1>4, <1>5, <1>6, <1>7, <1>8, <1>9, <1>10, <1>11, <1>12, <1>13, <1>14, <1>15,
     <1>16, <1>17, <1>18, <1>19 DEF NsfsNext

-----------------------------------------------------------------------------
\* The invariant holds of every behaviour.
THEOREM NsfsInvariant == NsfsSpec => [](NsfsInv /\ CursorInv)
<1>1. NsfsInit => NsfsInv /\ CursorInv
  BY NsfsStarts
<1>2. (NsfsInv /\ CursorInv) /\ [NsfsNext]_nsfsVars => (NsfsInv /\ CursorInv)'
  BY NsfsSteps
<1> QED
  BY <1>1, <1>2, PTL DEF NsfsSpec

\* The variables have their types; above all, no more cursors are taken than
\* there are, and none is given back twice (cursors is never below zero).
THEOREM NsfsTypes == NsfsSpec => []NsfsTypeOK
<1>1. NsfsInv => NsfsTypeOK
  BY DEF NsfsInv
<1> QED
  BY <1>1, NsfsInvariant, PTL

\* When no call is under way every cursor is free, whatever failed in the calls
\* before (the labels failed and theend of nsfslite.c).
THEOREM CursorsComeBack == NsfsSpec => []CursorsReturned
<1>1. NsfsInv /\ CursorInv => CursorsReturned
  <2> SUFFICES ASSUME CursorInv, \A t \in Threads : call[t] = Idle PROVE cursors = 0
    BY DEF CursorsReturned
  <2>1. Held = {}
    BY IdleIs DEF Held, HeldBy
  <2> QED
    BY <2>1, FS_EmptySet DEF CursorInv
<1> QED
  BY <1>1, NsfsInvariant, PTL

\* No error path rolls back a transaction that has ended, and what a call that
\* succeeded did stays in the pages (nsfslite.c:646-660).
THEOREM EndedStaysEnded == NsfsSpec => []EndedStays
<1>1. NsfsInv => EndedStays
  <2> SUFFICES ASSUME NsfsInv PROVE EndedStays
    OBVIOUS
  <2>1. ASSUME NEW t \in Threads, Stands(t, "rollback"), call[t].tx # NoTx PROVE Txn(t).run
    <3>1. call[t].todo \in Places /\ Head(call[t].todo) = "rollback"
      BY <2>1, AtPlace
    <3>2. call[t].todo = Undoing
      BY <3>1, AtStep
    <3> QED
      BY <2>1, <3>2, Running DEF Txn
  <2> QED
    BY <2>1 DEF EndedStays, EndedNotUndone, NsfsInv
<1> QED
  BY <1>1, NsfsInvariant, PTL
=============
