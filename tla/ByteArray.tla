------------------------------ MODULE ByteArray ------------------------------
(***************************************************************************)
(* What a variable of numstore promises: an array of bytes on which        *)
(* elements of a fixed size are inserted, read, overwritten and removed,   *)
(* every stride-th of them (RptMem).  A request is accepted, served in one *)
(* step, and its answer is kept until the next request.                    *)
(***************************************************************************)
EXTENDS RptMem

CONSTANTS
  Requests,   \* the requests a client may submit
  NoRequest   \* no request is pending

VARIABLES
  bytes,    \* the array
  request,  \* the pending request or NoRequest
  answer    \* the bytes the last read or remove delivered

arrayVars == <<bytes, request, answer>>

-----------------------------------------------------------------------------
Init ==
  /\ bytes = <<>>
  /\ request = NoRequest
  /\ answer = <<>>

Submit ==
  /\ request = NoRequest
  /\ request' \in Requests
  /\ WholeElements(request', Len(bytes))
  /\ answer' = <<>>
  /\ UNCHANGED bytes

Serve ==
  /\ request # NoRequest
  /\ request' = NoRequest
  /\ CASE request.op = "insert" -> bytes' = rptm_insert(bytes, request) /\ answer' = <<>>
       [] request.op = "read"   -> bytes' = bytes /\ answer' = rptm_read(bytes, request)
       [] request.op = "write"  -> bytes' = rptm_write(bytes, request) /\ answer' = <<>>
       [] request.op = "remove" -> /\ bytes' = rptm_remove(bytes, request)
                                   /\ answer' = rptm_read(bytes, request)

Next == Submit \/ Serve

ArraySpec == Init /\ [][Next]_arrayVars
=============================================================================
