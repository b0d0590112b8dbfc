----------------------------- MODULE WALSession -----------------------------
(***************************************************************************)
(* The WAL as the database drives it through one process after another:    *)
(* the write-buffer thread and commits append, the wal-sync thread         *)
(* flushes, close waits for both threads and flushes what is left, and the *)
(* next process replays the file and empties it if it held an entry.       *)
(*                                                                         *)
(* A behaviour is calm or not: in a calm one every entry can be encoded    *)
(* and read back, a crash leaves whole frames, and close waits for its     *)
(* threads; what the log promises is promised there.                       *)
(***************************************************************************)
EXTENDS WAL, SequencesExt

CONSTANTS
  JoinTimesOut,            \* close_with_timeout can stop waiting for threads
  MaxAppends, MaxSessions  \* bounds of the model

ASSUME WALSessionAssumption ==
  /\ JoinTimesOut \in BOOLEAN
  /\ MaxAppends \in Nat /\ MaxSessions \in Nat
  /\ {"syncer", "closer"} \subseteq Flushers

VARIABLES
  syncer,    \* the wal-sync thread: "run", "last" (its flush after stop), "exit"
  closer,    \* the closing thread, or "down" when no process runs
  appended,  \* history: what a replay should deliver
  late,      \* history: how many of them came behind the last flush of close
  appends, session,  \* counters of the bounds
  calm       \* nothing goes wrong but crashes between frames; never changes

sessionVars == <<syncer, closer, appended, late, appends, session>>
allVars     == <<walVars, sessionVars, calm>>

Init ==
  /\ WALInit
  /\ syncer = "run" /\ closer = "idle"
  /\ appended = <<>> /\ late = 0
  /\ appends = 0 /\ session = 1
  /\ calm \in BOOLEAN

(* close stops waiting for its threads. *)
GivesUp == JoinTimesOut /\ ~calm

(* append asks for nothing.  The write-buffer thread has drained its queue when
   close flushes for the last time, unless close gives up waiting for it;
   commit_transaction does not look at _closed and can append at any time. *)
AppendOne(e) ==
  /\ closer # "down"
  /\ calm => e \notin Unencodable \cup Oversized
  /\ appends < MaxAppends
  /\ AppendEntry(e)
  /\ appended' = Append(appended, e)
  /\ late' = IF closer \in {"flush", "closed", "failed"} THEN late + 1 ELSE late
  /\ appends' = appends + 1
  /\ UNCHANGED <<syncer, closer, session>>

(* start: one flush after the other until stop, and then the last one. *)
SyncerFlush ==
  /\ syncer # "exit" /\ closer # "down"
  /\ FlushTake("syncer")
  /\ syncer' = IF syncer = "last" THEN "exit" ELSE "run"
  /\ UNCHANGED <<closer, appended, late, appends, session>>

SyncerStep ==
  /\ closer # "down"
  /\ FlushStep("syncer")
  /\ UNCHANGED sessionVars

SyncerSeesStop ==
  /\ syncer = "run" /\ closer \notin {"idle", "down"}
  /\ step["syncer"] = "idle"
  /\ syncer' = "last"
  /\ UNCHANGED <<walVars, closer, appended, late, appends, session>>

(* The last flush finds nothing to write. *)
SyncerExit ==
  /\ syncer = "last" /\ closer # "down"
  /\ buffered = <<>>
  /\ syncer' = "exit"
  /\ UNCHANGED <<walVars, closer, appended, late, appends, session>>

(* close_with_timeout sets _stop; then join, then WAL.close. *)
BeginClose ==
  /\ closer = "idle"
  /\ closer' = "join"
  /\ UNCHANGED <<walVars, syncer, appended, late, appends, session>>

(* Mutated form: the file is closed under the thread that writes to it. *)
MayCloseAnyTime == TRUE

MayClose == (syncer = "exit" /\ step["syncer"] = "idle") \/ GivesUp

CloserFlush ==
  /\ closer = "join"
  /\ MayClose
  /\ IF buffered = <<>> THEN UNCHANGED walVars ELSE FlushTake("closer")
  /\ closer' = "flush"
  /\ UNCHANGED <<syncer, appended, late, appends, session>>

(* An exception of the final flush skips _file.close(). *)
CloserStep ==
  /\ closer = "flush"
  /\ FlushStep("closer")
  /\ closer' = IF FlushRaises("closer") THEN "failed" ELSE "flush"
  /\ UNCHANGED <<syncer, appended, late, appends, session>>

CloserFinish ==
  /\ closer = "flush" /\ step["closer"] = "idle"
  /\ CloseFile
  /\ closer' = "closed"
  /\ UNCHANGED <<syncer, appended, late, appends, session>>

(* The process ends: by itself, killed, or with the machine, at any point and
   also after close. *)
Crash ==
  /\ closer # "down"
  /\ LoseUnsynced
  /\ calm => \A i \in DOMAIN file' : file'[i] # Torn
  /\ appended' = ReadAll(file') /\ late' = 0
  /\ closer' = "down"
  /\ UNCHANGED <<buffered, taken, step, header, synced, open, syncer, appends, session>>

(* Mutated form: the file is never emptied. *)
NeverCheckpointed == FALSE

Checkpointed == ReadAll(file) # <<>>

(* The next process: read_all, then the checkpoint and truncate. *)
Restart ==
  /\ closer = "down"
  /\ session < MaxSessions
  /\ session' = session + 1
  /\ FileOpened
  /\ IF Checkpointed THEN file' = <<>> /\ synced' = 0
     ELSE UNCHANGED <<file, synced>>
  /\ appended' = <<>>
  /\ syncer' = "run" /\ closer' = "idle"
  /\ UNCHANGED <<late, appends>>

Next ==
  /\ UNCHANGED calm
  /\ \/ \E e \in Entry : AppendOne(e)
     \/ SyncerFlush \/ SyncerStep \/ SyncerSeesStop \/ SyncerExit
     \/ BeginClose \/ CloserFlush \/ CloserStep \/ CloserFinish
     \/ Crash \/ Restart

Spec == Init /\ [][Next]_allVars

----------------------------------------------------------------------------
CountIn(s, e) == Cardinality({i \in DOMAIN s : s[i] = e})

(* In a calm behaviour, what replay delivers is a log in append order of which
   the fsynced part never shrinks but by a checkpoint: flush, _write_frame,
   read_all and the truncation implement module DurableLog. *)
Promise == INSTANCE DurableLog WITH log     <- IF calm THEN appended ELSE <<>>,
                                    durable <- IF calm THEN synced ELSE 0
ImplementsDurableLog == Promise!LogSpec

(* While a process runs, a replay would deliver a prefix of what it appended,
   with everything that was fsynced. *)
ReplayIsPrefix ==
  calm => /\ IsPrefix(ReadAll(file), appended)
          /\ synced <= Len(ReadAll(file))

(* No entry is replayed more often than it was appended, also when frames are
   torn, entries cannot be encoded, or two flushes write at the same time. *)
ReplayedOnce ==
  \A e \in Entry : CountIn(ReadAll(file), e) <= CountIn(appended, e)

(* After close, everything that was appended before its last flush is there for
   the next start-up: the last flush of the wal-sync thread and the flush of
   WAL.close.  An entry that a commit appends behind that flush is not. *)
ClosedHoldsAll ==
  calm /\ closer \in {"closed", "failed"} =>
    ReadAll(file) = SubSeq(appended, 1, Len(appended) - late)

============================================================================
