-------------------------------- MODULE RptMem --------------------------------
(***************************************************************************)
(* The repository's own reference for the R+tree: an array of bytes in     *)
(* memory with the same operations (rptree_mem.c).  A request q works on   *)
(* q.n elements of q.size bytes, every q.stride-th, from byte q.at on.     *)
(***************************************************************************)
EXTENDS Integers, Sequences

-----------------------------------------------------------------------------
\* The bytes an insert or a write brings: distinct within a request, and
\* distinct from the bytes of a request with another tag.
Payload(q) == [i \in 1..(q.n * q.size) |-> 1000 * q.tag + i]

(* Which bytes a request addresses, counting from 1.                       *)

Distance(q, i) == i - 1 - q.at

Addressed(q, len) ==
  {i \in 1..len :
     /\ Distance(q, i) >= 0
     /\ (Distance(q, i) \div q.size) % q.stride = 0
     /\ Distance(q, i) \div (q.size * q.stride) < q.n}

\* The subsequence of s at the positions in P.
Pick(s, P) ==
  LET place == SelectSeq([i \in 1..Len(s) |-> i], LAMBDA i : i \in P)
  IN  [k \in 1..Len(place) |-> s[place[k]]]

rptm_read(s, q) == Pick(s, Addressed(q, Len(s)))

rptm_remove(s, q) == Pick(s, (1..Len(s)) \ Addressed(q, Len(s)))

rptm_write(s, q) ==
  LET P == Addressed(q, Len(s))
      nth(i) == q.size * (Distance(q, i) \div (q.size * q.stride))
                  + (Distance(q, i) % q.size) + 1
  IN  [i \in 1..Len(s) |-> IF i \in P THEN Payload(q)[nth(i)] ELSE s[i]]

rptm_insert(s, q) ==
  LET at == IF q.at < Len(s) THEN q.at ELSE Len(s)
  IN  SubSeq(s, 1, at) \o Payload(q) \o SubSeq(s, at + 1, Len(s))

\* An array of len bytes is made of whole elements of the request's size.
WholeElements(q, len) == len % q.size = 0 /\ q.at % q.size = 0
=============================================================================
