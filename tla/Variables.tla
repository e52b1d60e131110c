----------------------------- MODULE Variables -----------------------------
(***************************************************************************)
(* Names of variables: nsfslite_new, nsfslite_get_id and nsfslite_delete   *)
(* over the cursor of var_cursor.c.  The hash page leads to chains of      *)
(* variable pages; a name that does not fit goes on in tail pages.  Every  *)
(* pager call of the cursor is a step, and may fail because no frame is    *)
(* free.  Clients take turns by the mutex dblock, which an explicit        *)
(* transaction keeps from its begin to its commit.                         *)
(*                                                                         *)
(* This is the program with NDEBUG: the assertions of varc_cleanup and     *)
(* pgr_release are not there, so what they guard against happens.          *)
(*                                                                         *)
(* Sources: var_cursor.c, var_page.c, var_hash_page.c, var_tail.c,         *)
(* pager_routines.c (the ovnext helpers), nsfslite.c.                      *)
(***************************************************************************)
EXTENDS Integers, Sequences, FiniteSets

CONSTANTS
  Clients,
  Names,        \* names, as sequences of letters
  Hash(_),      \* vh_get_hash_pos
  HeadCap,      \* cells for name and type in a variable page
  TailCap,      \* and in a tail page
  NVarPages,    \* pages there are for them
  MaxVarCalls,  \* bound on calls
  MaxVarFails,  \* bound on pager calls that fail
  NoCall, Nobody

ASSUME VarAssumption ==
  /\ HeadCap \in Nat \ {0} /\ TailCap \in Nat \ {0}
  /\ NVarPages \in Nat /\ MaxVarCalls \in Nat /\ MaxVarFails \in Nat
  /\ \A n \in Names : n # <<>>
  /\ Nobody \notin Clients
  /\ NoCall \notin [client : Clients, op : {"new", "get", "delete", "begin"}, name : Names]

VARIABLES
  vhash,    \* the hash page: first page of each chain
  vpages,   \* the other pages, as saved
  vcopy,    \* the copies of pages that are being written
  vcur,     \* v->cur: its page
  vprev,    \* the page before it in vpc_delete
  vnew,     \* the page the running step will go to, or NoPg
  vstart,   \* the variable page whose name is being read or written
  vcells,   \* what was read of the name and type, or is left to be written
  vstep,    \* where in the call the cursor is
  vcall,    \* the call that is being served
  vwait,    \* the calls that wait for dblock
  dblock,   \* who holds it
  txOf,     \* the client that has an explicit transaction
  vanswer,  \* the last answer
  vcalls, vfails

cursorOfVar == <<vcur, vprev, vnew, vstart, vcells, vstep>>
varPageVars == <<vhash, vpages, vcopy>>
varVars == <<varPageVars, cursorOfVar, vcall, vwait, dblock, txOf, vanswer, vcalls, vfails>>

-----------------------------------------------------------------------------
(* Pages.                                                                  *)

NoPg == 0     \* PGNO_NULL
VarPages == 1..NVarPages
FreePage == [kind |-> "free", next |-> NoPg, ovnext |-> NoPg, vlen |-> 0, cells |-> <<>>]
VarPage(len, cells) == [FreePage EXCEPT !.kind = "var", !.vlen = len, !.cells = cells]
TailPage(cells) == [FreePage EXCEPT !.kind = "tail", !.cells = cells]

Shorter(a, b) == IF a <= b THEN a ELSE b
UpTo(s, n) == SubSeq(s, 1, Shorter(n, Len(s)))
From(s, n) == SubSeq(s, n + 1, Len(s))
Text(n) == n \o <<"type">>

\* pgr_new takes a page of the list of free pages; a page that is being written
\* is on no list.
FreePages == {p \in VarPages : vpages[p].kind = "free" /\ p \notin DOMAIN vcopy}
NewPg == CHOOSE p \in FreePages : \A q \in FreePages : p <= q

With(f, p, x) == [q \in DOMAIN f \cup {p} |-> IF q = p THEN x ELSE f[q]]
Without(f, p) == [q \in DOMAIN f \ {p} |-> f[q]]

Name == vcall.name
Serving(op) == vcall # NoCall /\ vcall.op = op
CurPage == IF vcur \in DOMAIN vcopy THEN vcopy[vcur] ELSE vpages[vcur]

-----------------------------------------------------------------------------
(* The mutex and the frame of a call.                                      *)

VarInit ==
  /\ vhash = [b \in {Hash(n) : n \in Names} |-> NoPg]
  /\ vpages = [p \in VarPages |-> FreePage] /\ vcopy = <<>>
  /\ vcur = NoPg /\ vprev = NoPg /\ vnew = NoPg /\ vstart = NoPg /\ vcells = <<>>
  /\ vstep = "idle" /\ vcall = NoCall
  /\ vwait = [c \in Clients |-> NoCall] /\ dblock = Nobody /\ txOf = Nobody
  /\ vanswer = NoCall
  /\ vcalls = 0 /\ vfails = 0

Request(c, op, n) == [client |-> c, op |-> op, name |-> n]

\* A call that is given a transaction does not lock.
NeedsLock(c, op) == txOf # c \/ op = "get"

Serve(r) == vcall' = r /\ vstep' = "hash"

\* nsfslite_get_id always locks: a client that calls it inside its transaction
\* waits for itself, so these clients do not.
VarCall(c, op, n) ==
  /\ vcalls < MaxVarCalls /\ vcalls' = vcalls + 1
  /\ vwait[c] = NoCall /\ ~(vcall # NoCall /\ vcall.client = c) /\ vstep # "dead"
  /\ ~(txOf = c /\ op \in {"get", "begin"})
  /\ IF NeedsLock(c, op)
     THEN vwait' = [vwait EXCEPT ![c] = Request(c, op, n)] /\ UNCHANGED <<vcall, vstep>>
     ELSE Serve(Request(c, op, n)) /\ UNCHANGED vwait
  /\ UNCHANGED <<varPageVars, vcur, vprev, vnew, vstart, vcells, dblock, txOf, vanswer, vfails>>

LockDb(c) ==
  /\ vwait[c] # NoCall /\ dblock = Nobody /\ vstep # "dead"
  /\ dblock' = c
  /\ vwait' = [vwait EXCEPT ![c] = NoCall]
  /\ IF vwait[c].op = "begin" THEN txOf' = c /\ UNCHANGED <<vcall, vstep>>
     ELSE Serve(vwait[c]) /\ UNCHANGED txOf
  /\ UNCHANGED <<varPageVars, vcur, vprev, vnew, vstart, vcells, vanswer, vcalls,
                 vfails>>

CommitVar(c) ==
  /\ txOf = c /\ vcall = NoCall
  /\ txOf' = Nobody /\ dblock' = Nobody
  /\ UNCHANGED <<varPageVars, cursorOfVar, vcall, vwait, vanswer, vcalls, vfails>>

\* The lock is given back by the call that took it.
Bug_AlwaysUnlocks == Nobody
AfterCall == IF NeedsLock(vcall.client, vcall.op) THEN Nobody ELSE dblock

Answer(ret) ==
  /\ vanswer' = [op |-> vcall.op, name |-> Name, ret |-> ret]
  /\ vcall' = NoCall /\ vstep' = "idle" /\ dblock' = AfterCall
  /\ vcur' = NoPg /\ vprev' = NoPg /\ vnew' = NoPg /\ vstart' = NoPg /\ vcells' = <<>>
  /\ UNCHANGED <<vwait, txOf, vcalls>>

\* The cursor goes on within its call.
Frame == UNCHANGED <<vcall, vwait, dblock, txOf, vanswer, vcalls, vfails>>

\* A call of the pager fails, because no frame is free or because the page has
\* a copy that a call before left behind; or a name ends before its length, or
\* goes on behind it.  Whatever handles the cursor has are forgotten; what was
\* linked stays linked.
Wanted ==   \* the page that the step gets
  CASE vstep = "visit" -> vnew
    [] vstep \in {"gather", "cut"} -> CurPage.ovnext
    [] vstep \in {"back", "close"} -> vstart
    [] OTHER -> NoPg

Damaged == vstep = "damaged" \/ (vstep = "gather" /\ CurPage.ovnext = NoPg)
Blocked == Wanted \in DOMAIN vcopy

PagerFails ==
  /\ vstep \notin {"idle", "dead", "conclude", "write"}
  /\ vstep = "cut" => CurPage.ovnext # NoPg
  /\ IF Blocked \/ Damaged THEN UNCHANGED vfails
     ELSE vfails < MaxVarFails /\ vfails' = vfails + 1
  /\ Answer("failed")
  /\ UNCHANGED varPageVars

\* The step from is made, and the next one is to.
Doing(from) == vstep = from /\ ~Blocked /\ ~Damaged

-----------------------------------------------------------------------------
(* Looking for the name: the hash page, then the chain.                    *)

FirstPage == vhash[Hash(Name)]

\* vpc_delete releases a handle it does not have when the chain is empty.
ReadHash ==
  /\ Doing("hash")
  /\ \/ /\ FirstPage # NoPg
        /\ vnew' = FirstPage /\ vstep' = "visit"
        /\ UNCHANGED <<varPageVars, vcur, vprev, vstart, vcells>> /\ Frame
     \/ /\ FirstPage = NoPg /\ vcall.op = "new"
        /\ vstep' = "newHead"
        /\ UNCHANGED <<varPageVars, vcur, vprev, vnew, vstart, vcells>> /\ Frame
     \/ /\ FirstPage = NoPg /\ vcall.op = "get"
        /\ Answer("missing") /\ UNCHANGED <<varPageVars, vfails>>
     \/ /\ FirstPage = NoPg /\ vcall.op = "delete"
        /\ vstep' = "dead"
        /\ UNCHANGED <<varPageVars, vcur, vprev, vnew, vstart, vcells>> /\ Frame

\* vpc_check_and_read_var_page_here: a name of another length is not read.
SameLength(p) == vpages[p].vlen = Len(Name)
AfterReading(p, start, cells) ==
  IF ~SameLength(start) THEN "conclude"
  ELSE IF Len(cells) < Len(Text(Name)) THEN "gather"
  ELSE IF vpages[p].ovnext # NoPg THEN "damaged"
  ELSE IF p # start THEN "back" ELSE "conclude"

Visit ==
  /\ Doing("visit")
  /\ vcur' = vnew /\ vstart' = vnew /\ vnew' = NoPg
  /\ vcells' = vpages[vnew].cells
  /\ vstep' = AfterReading(vnew, vnew, vcells')
  /\ UNCHANGED <<varPageVars, vprev>> /\ Frame

Gather ==
  /\ Doing("gather")
  /\ vcur' = CurPage.ovnext
  /\ vcells' = vcells \o vpages[CurPage.ovnext].cells
  /\ vstep' = AfterReading(CurPage.ovnext, vstart, vcells')
  /\ UNCHANGED <<varPageVars, vprev, vnew, vstart>> /\ Frame

Back ==
  /\ Doing("back")
  /\ vcur' = vstart /\ vstep' = "conclude"
  /\ UNCHANGED <<varPageVars, vprev, vnew, vstart, vcells>> /\ Frame

Matches == SameLength(vcur) /\ vcells = Text(Name)

\* vpc_new, vpc_get and vpc_delete after the name of a page was read.  The page
\* of a duplicate stays pinned.
Found ==
  /\ Doing("conclude") /\ Matches
  /\ \/ /\ vcall.op = "delete"
        /\ vstep' = "unlink"
        /\ UNCHANGED <<varPageVars, vcur, vprev, vnew, vstart, vcells>> /\ Frame
     \/ /\ vcall.op = "new"
        /\ Answer("duplicate") /\ UNCHANGED <<varPageVars, vfails>>
     \/ /\ vcall.op = "get"
        /\ Answer("ok")    \* vp_get_root: nothing ever sets it
        /\ UNCHANGED <<varPageVars, vfails>>

NotThisOne ==
  /\ Doing("conclude") /\ ~Matches
  /\ \/ /\ CurPage.next # NoPg
        /\ vnew' = CurPage.next /\ vstep' = "visit"
        /\ vprev' = IF vcall.op = "delete" THEN vcur ELSE NoPg
        /\ UNCHANGED <<varPageVars, vcur, vstart, vcells>> /\ Frame
     \/ /\ CurPage.next = NoPg /\ vcall.op = "new"
        /\ vstep' = "append"
        /\ UNCHANGED <<varPageVars, vcur, vprev, vnew, vstart, vcells>> /\ Frame
     \/ /\ CurPage.next = NoPg /\ vcall.op # "new"
        /\ Answer("missing") /\ UNCHANGED <<varPageVars, vfails>>

-----------------------------------------------------------------------------
(* vpc_new: a page at the end of the chain, and the name in it.            *)

\* pgr_new gives an empty page that is written when it is released.
TakePage(kind) ==
  /\ FreePages # {}
  /\ vcopy' = With(vcopy, NewPg, [FreePage EXCEPT !.kind = kind])

AppendPage ==
  /\ Doing("append") /\ TakePage("var")
  /\ vnew' = NewPg /\ vstep' = "link"
  /\ UNCHANGED <<vhash, vpages, vcur, vprev, vstart, vcells>> /\ Frame

NewHead ==
  /\ Doing("newHead") /\ TakePage("var")
  /\ vnew' = NewPg /\ vstep' = "linkHead"
  /\ UNCHANGED <<vhash, vpages, vcur, vprev, vstart, vcells>> /\ Frame

\* The new page is linked, and is the one to be filled.
ToFill ==
  /\ vcur' = vnew /\ vstart' = vnew /\ vnew' = NoPg
  /\ vcopy' = [vcopy EXCEPT ![vnew].vlen = Len(Name)]
  /\ vcells' = Text(Name)
  /\ vstep' = "write"
  /\ UNCHANGED vprev /\ Frame

LinkPage ==
  /\ Doing("link")
  /\ vpages' = [vpages EXCEPT ![vcur].next = vnew]
  /\ ToFill /\ UNCHANGED vhash

LinkHead ==
  /\ Doing("linkHead")
  /\ vhash' = [vhash EXCEPT ![Hash(Name)] = vnew]
  /\ ToFill /\ UNCHANGED vpages

\* vpc_write_vstr_tstr_here: what fits goes into the page; when that was all
\* the page is saved.
Cap == IF vcur = vstart THEN HeadCap ELSE TailCap
Written == [vcopy[vcur] EXCEPT !.cells = UpTo(vcells, Cap)]

WriteName ==
  /\ Doing("write")
  /\ vcells' = From(vcells, Cap)
  /\ IF vcells' # <<>>
     THEN /\ vcopy' = [vcopy EXCEPT ![vcur] = Written]
          /\ vstep' = "overflow"
          /\ UNCHANGED vpages
     ELSE /\ vpages' = [vpages EXCEPT ![vcur] = Written]
          /\ vcopy' = Without(vcopy, vcur)
          /\ vstep' = IF vcur # vstart THEN "close" ELSE "root"
  /\ UNCHANGED <<vhash, vcur, vprev, vnew, vstart>> /\ Frame

\* pgr_dlgt_new_ovnext_no_link and the release of the page before.
Overflows ==
  /\ Doing("overflow") /\ FreePages # {}
  /\ vpages' = [vpages EXCEPT ![vcur] = [vcopy[vcur] EXCEPT !.ovnext = NewPg]]
  /\ vcopy' = With(Without(vcopy, vcur), NewPg, [FreePage EXCEPT !.kind = "tail"])
  /\ vcur' = NewPg /\ vstep' = "write"
  /\ UNCHANGED <<vhash, vprev, vnew, vstart, vcells>> /\ Frame

Close ==
  /\ Doing("close")
  /\ vcur' = vstart /\ vstep' = "root"
  /\ UNCHANGED <<varPageVars, vprev, vnew, vstart, vcells>> /\ Frame

\* rptc_new: the root of the variable's tree.  nsfslite_new returns its number
\* and stores it nowhere, so vpc_get, which reads it from the variable page,
\* answers PGNO_NULL.  Roots are not kept here.
MakeRoot ==
  /\ Doing("root")
  /\ Answer("ok")
  /\ UNCHANGED <<varPageVars, vfails>>

-----------------------------------------------------------------------------
(* vpc_delete: the page leaves the chain, then it and its tails are deleted. *)

Bug_PointsToItself == vcur
Bug_DropsRest == NoPg
Successor == vpages[vcur].next

Unlink ==
  /\ Doing("unlink")
  /\ IF vprev = NoPg
     THEN vhash' = [vhash EXCEPT ![Hash(Name)] = Successor] /\ UNCHANGED vpages
     ELSE vpages' = [vpages EXCEPT ![vprev].next = Successor] /\ UNCHANGED vhash
  /\ vstep' = "cut"
  /\ UNCHANGED <<vcopy, vcur, vprev, vnew, vstart, vcells>> /\ Frame

\* pgr_dlgt_delete_vpvl_chain: the next page of the name is got before this one
\* is deleted.
CutOff ==
  /\ Doing("cut")
  /\ vnew' = CurPage.ovnext /\ vstep' = "drop"
  /\ vcopy' = IF CurPage.ovnext = NoPg THEN vcopy ELSE With(vcopy, CurPage.ovnext, vpages[CurPage.ovnext])
  /\ UNCHANGED <<vhash, vpages, vcur, vprev, vstart, vcells>> /\ Frame

Drop ==
  /\ Doing("drop")
  /\ vpages' = [vpages EXCEPT ![vcur] = FreePage] /\ vcopy' = Without(vcopy, vcur)
  /\ \/ /\ vnew # NoPg
        /\ vcur' = vnew /\ vnew' = NoPg /\ vstep' = "cut"
        /\ UNCHANGED <<vprev, vstart, vcells>> /\ Frame
     \/ /\ vnew = NoPg
        /\ Answer("ok") /\ UNCHANGED vfails
  /\ UNCHANGED vhash

-----------------------------------------------------------------------------
CursorStep ==
  \/ ReadHash \/ Visit \/ Gather \/ Back \/ Found \/ NotThisOne
  \/ AppendPage \/ NewHead \/ LinkPage \/ LinkHead \/ WriteName \/ Overflows \/ Close
  \/ MakeRoot \/ Unlink \/ CutOff \/ Drop

VarNext ==
  \/ CursorStep \/ PagerFails
  \/ \E c \in Clients :
       \/ \E op \in {"new", "get", "delete", "begin"}, n \in Names : VarCall(c, op, n)
       \/ LockDb(c) \/ CommitVar(c)

VarSpec == VarInit /\ [][VarNext]_varVars

-----------------------------------------------------------------------------
(* Properties.                                                             *)

VarTypeOK ==
  /\ DOMAIN vcopy \subseteq VarPages
  /\ {vcur, vprev, vnew, vstart} \subseteq VarPages \cup {NoPg}
  /\ \A p \in VarPages : Len(vpages[p].cells) <= (IF vpages[p].kind = "var" THEN HeadCap ELSE TailCap)

\* The saved pages of a chain, and those of the name that starts in a page.
NextOf   == [p \in VarPages \cup {NoPg} |-> IF p = NoPg THEN NoPg ELSE vpages[p].next]
OvnextOf == [p \in VarPages \cup {NoPg} |-> IF p = NoPg THEN NoPg ELSE vpages[p].ovnext]
Follow(first, next) ==
  LET at[k \in 1..(NVarPages + 1)] == IF k = 1 THEN first ELSE next[at[k - 1]] IN at
ChainOf(b) == Follow(vhash[b], NextOf)
PiecesOf(p) == Follow(p, OvnextOf)
PagesOn(seq) == {seq[k] : k \in DOMAIN seq} \ {NoPg}

TextAt(p) ==
  LET upto[k \in 0..(NVarPages + 1)] ==
        IF k = 0 THEN <<>>
        ELSE upto[k - 1] \o (IF PiecesOf(p)[k] = NoPg THEN <<>> ELSE vpages[PiecesOf(p)[k]].cells)
  IN  upto[NVarPages + 1]

Stored(n) ==
  \E p \in PagesOn(ChainOf(Hash(n))) : vpages[p].vlen = Len(n) /\ TextAt(p) = Text(n)

\* The names are a set: whatever collides or overflows, whichever call of the
\* pager fails and whoever waits, a name that exists is never missed, created
\* twice or lost by a call about another name.
Table ==
  INSTANCE NameTable WITH
    names <- {n \in Names : Stored(n)},
    call  <- IF vcall = NoCall THEN NoCall ELSE [op |-> vcall.op, name |-> Name],
    done  <- vstep \in {"close", "root", "cut", "drop"},
    answer <- vanswer
ImplementsNames == Table!TableSpec

\* No chain leads to a page that is free for pgr_new, whichever call failed.
Reached ==
  UNION {UNION {PagesOn(PiecesOf(p)) : p \in PagesOn(ChainOf(b))} : b \in DOMAIN vhash}
NoDanglingPage == Reached \cap FreePages = {}

\* Without failures every page in use is on one chain, so deleting a name gives
\* all its pages back.
NoVarPageLost ==
  vfails = 0 /\ vcall = NoCall => {p \in VarPages : vpages[p].kind # "free"} = Reached

\* The pages in use are those of the names, after any sequence of calls.
ChainsExact == NoDanglingPage /\ NoVarPageLost

\* From begin to commit the database serves the client of the transaction only.
TransactionAlone ==
  txOf # Nobody => dblock = txOf /\ (vcall # NoCall => vcall.client = txOf)
=============================================================================
