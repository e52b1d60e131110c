---------------------------- MODULE PrefixStore ----------------------------
(***************************************************************************)
(* What the pager promises about single page writes, seen from outside: an *)
(* open store serves the last write of every page; when it fails, a suffix *)
(* of its history that was not synced is forgotten, as a whole and in      *)
(* order, and a recovery serves what is left.                              *)
(***************************************************************************)
EXTENDS Integers, Sequences, FiniteSetsExt

CONSTANTS Pages, Contents

VARIABLES history,  \* entry by entry, the page writes it stands for: one or none
          synced,   \* how many entries a failure cannot take back
          served    \* what a reader gets of each page, nothing while it is closed

svars == <<history, synced, served>>

Image(p, v)    == [pg |-> p, val |-> v]
WritesOf(h, p) == {i \in 1..Len(h) : \E w \in h[i] : w.pg = p}
LastOf(h, p)   == (CHOOSE w \in h[Max(WritesOf(h, p))] : w.pg = p).val
Contained(h)   == {Image(p, LastOf(h, p)) : p \in Pages}

StoreInit == /\ history \in Seq(SUBSET [pg : Pages, val : Contents])
             /\ \A p \in Pages : WritesOf(history, p) # {}
             /\ synced = Len(history)
             /\ served = {}

Write(p, v) ==
  /\ served # {}
  /\ history' = Append(history, {Image(p, v)})
  /\ served' = {s \in served : s.pg # p} \cup {Image(p, v)}
  /\ UNCHANGED synced

\* An entry that writes no page.
Note == history' = Append(history, {}) /\ UNCHANGED <<synced, served>>

Sync == /\ served # {}
        /\ synced' \in synced..Len(history)
        /\ UNCHANGED <<history, served>>

Fail == /\ \E n \in synced..Len(history) : history' = SubSeq(history, 1, n) /\ synced' = n
        /\ served' = {}

Recover == /\ served = {}
           /\ served' = Contained(history)
           /\ UNCHANGED <<history, synced>>

StoreNext == \/ \E p \in Pages, v \in Contents : Write(p, v)
             \/ Note \/ Sync \/ Fail \/ Recover

StoreSpec == StoreInit /\ [][StoreNext]_svars
=============================================================================
