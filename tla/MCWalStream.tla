----------------------------- MODULE MCWalStream ----------------------------
(***************************************************************************)
(* WalStream for TLC, in scenes fixed by the initial state: "threads", in  *)
(* which the buffer never overflows; "alone", one thread with a buffer     *)
(* that overflows in the middle of records; and "reads", one thread that   *)
(* reads records back from the open log, with a buffer that is large       *)
(* enough.                                                                 *)
(***************************************************************************)
EXTENDS WalStream

CONSTANTS SmallCap,   \* the capacity of the buffer in "alone"
          Alone       \* the thread of "alone" and "reads"

ASSUME SmallAssumption == SmallCap \in 2..Cap /\ Alone \in Threads

VARIABLE scene

Small   == INSTANCE WalStream WITH Cap <- SmallCap
Reading == INSTANCE WalStream WITH LiveReads <- TRUE

Scene(s) == scene = s /\ UNCHANGED scene

ThreadsNext == Scene("threads") /\ Next
AloneNext   == Scene("alone") /\ (Small!Step(Alone) \/ \E n \in 0..Len(file) : Small!Crash(n))
ReadsNext   == Scene("reads") /\ (Reading!Step(Alone) \/ \E n \in 0..Len(file) : Reading!Crash(n))

SceneInit == Init /\ scene \in {"threads", "alone", "reads"}

SceneSpec == SceneInit /\ [][ThreadsNext \/ AloneNext \/ ReadsNext]_<<vars, scene>>

\* What walf_write returns for a record is the offset at which the record is,
\* also when the buffer overflows inside it and when the log was recovered.  Of
\* one thread: with more, an LSN can be wrong (walos_get_next_lsn takes no latch).
LsnOfOneThread == scene # "threads" => LsnIsPosition
=============================================================================
