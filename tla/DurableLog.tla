----------------------------- MODULE DurableLog -----------------------------
(***************************************************************************)
(* What polarysdb/modules/wal.py promises to the database: a log to which  *)
(* entries are only appended, of which a prefix is durable, and of which a *)
(* crash takes away no more than a suffix that was not durable.  Only a    *)
(* checkpoint empties it.                                                  *)
(***************************************************************************)
EXTENDS Naturals, Sequences

CONSTANT Entry

VARIABLES
  log,       \* the entries that a replay would deliver if nothing were lost
  durable    \* how many of them no crash can take away

LogInit == log = <<>> /\ durable = 0

LogAppend ==
  \E e \in Entry : log' = Append(log, e) /\ durable' = durable

LogSync ==
  /\ durable' \in durable .. Len(log)
  /\ log' = log

LogCrash ==
  /\ \E n \in durable .. Len(log) : log' = SubSeq(log, 1, n)
  /\ durable' = durable

LogCheckpoint == log' = <<>> /\ durable' = 0

LogNext == LogAppend \/ LogSync \/ LogCrash \/ LogCheckpoint

LogSpec == LogInit /\ [][LogNext]_<<log, durable>>

============================================================================
