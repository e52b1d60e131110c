--------------------------- MODULE MCStructures ---------------------------
(***************************************************************************)
(* The data structures under the pager and the log, checked in one run:    *)
(* ring buffer, dirty page table, transaction table and file transfers.    *)
(* They share no state: a behaviour is about one of them.                  *)
(***************************************************************************)
EXTENDS CBuffer, DirtyTable, TxnTable, FileIO

CONSTANTS b1, b2, f1, f2

VARIABLE struct

structVars == <<ringVars, dptVars, txnVars, ioVars>>

MCRingCap == (b1 :> 3) @@ (b2 :> 2)
MCBase    == (f1 :> 0) @@ (f2 :> MaxLen)
MCLoopsOf == (f1 :> Positional) @@ (f2 :> Loops \ Positional)

StructuresInit ==
  /\ CBufferInit /\ DptInit /\ TxnInit /\ FileInit
  /\ struct \in {"ring", "dirty", "txn", "io"}
  /\ struct # "ring" => \A r \in Rings : RingLen(ring[r]) = 0 /\ ring[r].data[0] = 0 /\ half.q = b1
  /\ struct # "io" => disk = << >>

RingPart  == struct = "ring"  /\ CBufferNext /\ UNCHANGED <<dptVars, txnVars, ioVars, struct>>
DirtyPart == struct = "dirty" /\ DptNext /\ UNCHANGED <<ringVars, txnVars, ioVars, struct>>
TxnPart   == struct = "txn"   /\ TxnNext /\ UNCHANGED <<ringVars, dptVars, ioVars, struct>>
IoPart    == struct = "io"    /\ FileNext /\ UNCHANGED <<ringVars, dptVars, txnVars, struct>>

StructuresSpec ==
  StructuresInit /\ [][RingPart \/ DirtyPart \/ TxnPart \/ IoPart]_<<structVars, struct>>

\* The variables of every structure have their types.
StructuresTypeOK == /\ struct = "ring"  => CBufferTypeOK
                    /\ struct = "dirty" => DptTypeOK
                    /\ struct = "txn"   => TxnTypeOK
                    /\ struct = "io"    => FileTypeOK

\* A ring is a queue of bytes, and the two halves of a file transfer of it are one
\* call (cbuffer.c:281, 915-1103).
RingsAreQueues    == struct = "ring"  => RingIsQueue /\ TransferIsOneCall

\* The tables of dirty pages and of transactions hold what was entered and not
\* removed since, found by every lookup (robin_hood_ht.h, adptv_hash_table.c).
TablesExact       == /\ struct = "dirty" => DirtyTableExact
                     /\ struct = "txn"   => TxnTableExact
=============================================================================
