------------------------------ MODULE Database ------------------------------
(***************************************************************************)
(* The server side of polarysdb/database.py: the in-memory tables, the     *)
(* write-buffer thread that applies queued operations in batches, the      *)
(* periodic-save, file-watcher and wal-sync threads, write_batch and       *)
(* commit_transaction, which write past the queue, import_db, the          *)
(* shutdown, and start-up (load the snapshot, replay the WAL, checkpoint). *)
(* It composes the WAL of module WAL with the snapshot file state.rdb.     *)
(*                                                                         *)
(* A section under the readers-writer lock is one step (module RWLock says *)
(* why that is sound), except the writers that others can observe half     *)
(* way: the write-buffer thread, write_batch and commit_transaction, which *)
(* append to the WAL entry by entry, and the watcher, whose load() reads   *)
(* the file and then its modification time.                                *)
(***************************************************************************)
EXTENDS Naturals, Sequences, FiniteSets, SequencesExt

CONSTANTS
  Tables, Keys, Vals,
  Absent,       \* no record under that key
  NoTable,      \* the table does not exist
  Given,        \* contents that state.rdb can have at first, Nothing if it is missing
  Foreign,      \* contents that an import file or another process can supply
  Torn,         \* a frame that read_all rejects
  TornWrites,   \* a crash can leave part of a frame in the WAL file
  EnableWAL,    \* cfg.enable_wal
  Watching,     \* cfg.watch_interval is short enough to matter
  BatchMax,     \* how many operations one micro-batch takes (50)
  MaxOps, MaxImports, MaxForeign, MaxSessions   \* bounds of the model

TableData == [Keys -> Vals \cup {Absent}]
Snapshots == [Tables -> TableData \cup {NoTable}]
Nothing   == [t \in Tables |-> NoTable]

(* A _WriteOp, and the WAL entry that records it. *)
RecordOp == [type : {"write"}, table : Tables, key : Keys, value : Vals]
              \cup [type : {"delete"}, table : Tables, key : Keys]
CreateOp == [type : {"create"}, table : Tables]
Op       == CreateOp \cup RecordOp

(* What write_batch or commit_transaction does in one go: each record once. *)
Changes ==
  {ops \in UNION {[1 .. n -> RecordOp] : n \in 1 .. BatchMax} :
     \A i, j \in DOMAIN ops :
       ops[i].table = ops[j].table /\ ops[i].key = ops[j].key => i = j}

Threads  == {"worker", "saver", "watcher", "syncer"}
Flushers == {"syncer", "closer"}

ASSUME DatabaseAssumption ==
  /\ Absent \notin Vals
  /\ NoTable \notin TableData
  /\ Given \subseteq Snapshots /\ Foreign \subseteq Snapshots
  /\ Torn \notin Op
  /\ {EnableWAL, Watching, TornWrites} \subseteq BOOLEAN
  /\ BatchMax \in Nat \ {0}
  /\ {MaxOps, MaxImports, MaxForeign, MaxSessions} \subseteq Nat

VARIABLES
  data,        \* _data
  queue,       \* _write_buf
  batch,       \* pending of _process_write_buffer
  direct,      \* what a write_batch or a commit in progress still has to do
  dirty,       \* _dirty
  unseen,      \* the modification time of state.rdb differs from _last_loaded
  stop,        \* _closed and _stop, set together by close
  pc,          \* where each thread is
  left,        \* threads that left their while loop because of stop
  phase,       \* the life of the process
  entries,     \* WAL entries still to replay at start-up
  recovered,   \* some entry was replayed
  disk,        \* the content of state.rdb; Nothing when the file is missing
  told,        \* history: the tables as the answers given to callers describe them
  unlogged,    \* history: tables that a commit created, with frames in the WAL
  late,        \* history: something was logged when close had flushed the WAL
  asked,       \* calls that found _closed unset and have not gone on yet
  missed,      \* history: operations put into the queue behind the last drain
  opCount, importCount, foreignCount, session,   \* counters of the bounds
  buffered, taken, step, header, file, synced, open   \* the WAL

memory  == <<data, queue, batch, direct, dirty, unseen>>
control == <<stop, pc, left>>
startup == <<phase, entries, recovered>>
history == <<told, unlogged, late>>
counts  == <<asked, missed, opCount, importCount, foreignCount, session>>

W == INSTANCE WAL WITH Entry <- Op, Unencodable <- {}, Oversized <- {}

wal  == <<buffered, taken, step, header, file, synced, open>>
vars == <<memory, control, startup, disk, history, counts, wal>>

----------------------------------------------------------------------------
(* Effects of operations on the tables. *)

(* The worker answers KeyError to a write or delete on a missing table. *)
Applicable(d, op) == op.type = "create" \/ d[op.table] # NoTable

(* Mutated form: a delete leaves a record behind. *)
ApplyTombstone(d, op) ==
  CASE op.type = "create" /\ d[op.table] = NoTable ->
         [d EXCEPT ![op.table] = [k \in Keys |-> Absent]]
    [] op.type = "write"  -> [d EXCEPT ![op.table][op.key] = op.value]
    [] op.type = "delete" -> [d EXCEPT ![op.table][op.key] = NoTable]
    [] OTHER              -> d

Apply(d, op) ==
  CASE op.type = "create" /\ d[op.table] = NoTable ->
         [d EXCEPT ![op.table] = [k \in Keys |-> Absent]]
    [] op.type = "write"  -> [d EXCEPT ![op.table][op.key] = op.value]
    [] op.type = "delete" -> [d EXCEPT ![op.table][op.key] = Absent]
    [] OTHER              -> d

(* _apply_wal_entry: what replaying one entry does; a write to a missing
   table raises and is skipped, a delete from one does nothing. *)
ReplayOne(d, op) == IF Applicable(d, op) THEN Apply(d, op) ELSE d

(* What a start-up would make of a snapshot and a WAL file. *)
Recovery(d, frames) == FoldLeft(ReplayOne, d, W!ReadAll(frames))

----------------------------------------------------------------------------
(* _start_background_workers starts no wal-sync thread without a WAL. *)
ThreadStart ==
  [worker |-> "collect", saver |-> "wait", watcher |-> "wait",
   syncer |-> IF EnableWAL THEN "wait" ELSE "exit",
   direct |-> "idle", importer |-> "idle", closer |-> "idle"]

Init ==
  /\ data = Nothing /\ told = Nothing
  /\ disk \in Given /\ unlogged = {} /\ late = FALSE
  /\ queue = <<>> /\ batch = <<>> /\ direct = <<>>
  /\ dirty = FALSE /\ unseen = FALSE
  /\ stop = FALSE /\ left = {}
  /\ pc = ThreadStart
  /\ phase = "load" /\ entries = <<>> /\ recovered = FALSE
  /\ asked = 0 /\ missed = 0
  /\ opCount = 0 /\ importCount = 0 /\ foreignCount = 0 /\ session = 1
  /\ W!WALInit

Goto(th, label) == pc' = [pc EXCEPT ![th] = label]
Up              == phase = "up"

(* Who holds the write lock across steps. *)
WriteLocked ==
  pc["worker"] = "apply" \/ pc["direct"] = "apply" \/ pc["watcher"] = "stat"

----------------------------------------------------------------------------
(* Start-up: Database.__init__, before the threads exist. *)

(* _load_with_retry succeeds; read_all is called next and sees the file as it
   is now, since nothing else runs. *)
Load ==
  /\ phase = "load"
  /\ data' = disk
  /\ unseen' = FALSE
  /\ entries' = IF EnableWAL THEN W!ReadAll(file) ELSE <<>>
  /\ phase' = "replay"
  /\ UNCHANGED <<queue, batch, direct, dirty, control, recovered, disk, history, counts, wal>>

(* One turn of the loop in _recover_from_wal. *)
ReplayEntry ==
  /\ phase = "replay"
  /\ entries # <<>>
  /\ data' = ReplayOne(data, Head(entries))
  /\ recovered' = (recovered \/ Head(entries).type = "delete"
                             \/ Applicable(data, Head(entries)))
  /\ entries' = Tail(entries)
  /\ UNCHANGED <<queue, batch, direct, dirty, unseen, control, phase, disk, history, counts, wal>>

(* Mutated form: the WAL is emptied before the checkpoint. *)
TruncateFirst(p) ==
  CASE p = "replay" /\ recovered -> "truncate"
    [] p = "truncate"             -> "checkpoint"
    [] OTHER                      -> "up"

(* The order of __init__: recover, then save what was recovered, and only then
   empty the WAL; nothing to save when no entry was replayed. *)
NextPhase(p) ==
  CASE p = "replay" /\ recovered -> "checkpoint"
    [] p = "checkpoint"           -> "truncate"
    [] OTHER                      -> "up"

(* Nothing more to replay.  The checkpoint runs only if an entry was
   replayed; what the callers of the new process see is the data now. *)
ReplayDone ==
  /\ phase = "replay"
  /\ entries = <<>>
  /\ phase' = NextPhase(phase)
  /\ told' = data
  /\ UNCHANGED <<memory, control, entries, recovered, disk, unlogged, late, counts, wal>>

(* The two halves of _flush_to_disk: save, then clear the dirty flag. *)
WriteSnapshot ==
  /\ disk' = data
  /\ unseen' = TRUE

Checkpoint ==
  /\ phase = "checkpoint"
  /\ WriteSnapshot
  /\ dirty' = FALSE
  /\ phase' = NextPhase(phase)
  /\ UNCHANGED <<data, queue, batch, direct, control, entries, recovered, history, counts, wal>>

TruncateWAL ==
  /\ phase = "truncate"
  /\ W!Truncate
  /\ phase' = NextPhase(phase)
  /\ unlogged' = {}
  /\ UNCHANGED <<memory, control, entries, recovered, disk, told, late, counts>>

----------------------------------------------------------------------------
(* What MaxOps bounds: operations, imports and the saves of other processes. *)
Events == opCount + asked + importCount + foreignCount

(* Callers.  A call first finds that _closed is not set; what it does then can
   come any time later: it waits for room in the queue, for the lock, or reads the
   file to import, and close may have run meanwhile. *)
Ask ==
  /\ Up /\ ~stop
  /\ Events < MaxOps
  /\ asked' = asked + 1
  /\ UNCHANGED <<memory, control, startup, disk, history, missed, opCount, importCount,
                 foreignCount, session, wal>>

GoesOn == Up /\ asked > 0 /\ asked' = asked - 1

(* The worker has taken its last look at the queue. *)
DrainOver == "worker" \in left /\ pc["worker"] # "collect"

(* _send_op: create, write and delete put an operation into the queue. *)
Submit(op) ==
  /\ GoesOn
  /\ queue' = Append(queue, op)
  /\ opCount' = opCount + 1
  /\ missed' = IF DrainOver THEN missed + 1 ELSE missed
  /\ UNCHANGED <<data, batch, direct, dirty, unseen, control, startup, disk, history,
                 importCount, foreignCount, session, wal>>

----------------------------------------------------------------------------
(* The write-buffer thread: _process_write_buffer. *)

(* Take one queued operation; after stop, drain them all. *)
Take ==
  /\ Up /\ pc["worker"] = "collect"
  /\ queue # <<>>
  /\ "worker" \in left \/ Len(batch) < BatchMax
  /\ batch' = Append(batch, Head(queue))
  /\ queue' = Tail(queue)
  /\ UNCHANGED <<data, direct, dirty, unseen, control, startup, disk, history, counts, wal>>

(* process: lock, apply every operation, unlock, and then set the dirty flag. *)
Process ==
  /\ Up /\ pc["worker"] = "collect"
  /\ batch # <<>>
  /\ "worker" \in left => queue = <<>>
  /\ ~WriteLocked
  /\ Goto("worker", "apply")
  /\ UNCHANGED <<memory, stop, left, startup, disk, history, counts, wal>>

(* Mutated form: deletes are not logged. *)
LoggedUnlessDelete(op) == EnableWAL /\ op.type # "delete"

Logged(op) == EnableWAL

ApplyNext ==
  /\ Up /\ pc["worker"] = "apply"
  /\ LET op == Head(batch)
     IN  IF Applicable(data, op)
         THEN /\ data' = Apply(data, op)
              /\ told' = ReplayOne(told, op)
              /\ IF Logged(op) THEN W!AppendEntry(op) ELSE UNCHANGED wal
         ELSE UNCHANGED <<data, told, wal>>
  /\ batch' = Tail(batch)
  /\ Goto("worker", IF Len(batch) = 1 THEN "mark" ELSE "apply")
  /\ UNCHANGED <<queue, direct, dirty, unseen, stop, left, startup, disk, unlogged, late,
                 counts>>

MarkDirty ==
  /\ Up /\ pc["worker"] = "mark"
  /\ dirty' = TRUE
  /\ Goto("worker", IF "worker" \in left THEN "exit" ELSE "collect")
  /\ UNCHANGED <<data, queue, batch, direct, unseen, stop, left, startup, disk, history, counts, wal>>

(* Mutated form: the thread ends without draining the queue. *)
NothingPending == batch = <<>>

Drained == queue = <<>> /\ batch = <<>>

WorkerExit ==
  /\ Up /\ pc["worker"] = "collect" /\ "worker" \in left
  /\ Drained
  /\ Goto("worker", "exit")
  /\ UNCHANGED <<memory, stop, left, startup, disk, history, counts, wal>>

----------------------------------------------------------------------------
(* write_batch and commit_transaction: under the write lock, change the tables
   and log every record; then set the dirty flag.  That an index raises half
   way is a matter of module Index. *)
Begin(ops) ==
  /\ Up /\ pc["direct"] = "idle" /\ ~WriteLocked
  /\ opCount + asked' + importCount + foreignCount + Len(ops) <= MaxOps
  /\ opCount' = opCount + Len(ops)
  /\ direct' = ops
  /\ Goto("direct", "apply")
  /\ UNCHANGED <<data, queue, batch, dirty, unseen, stop, left, startup, disk, history,
                 missed, importCount, foreignCount, session, wal>>

WriteBatch(ops) ==
  /\ GoesOn
  /\ \A i \in DOMAIN ops :
       ops[i].type = "write" /\ ops[i].table = ops[1].table /\ Applicable(data, ops[i])
  /\ Begin(ops)

(* It does not ask whether the database is closed. *)
Commit(ops) == UNCHANGED asked /\ Begin(ops)

(* A commit creates a table that does not exist, and does not log that. *)
Create(t) == [type |-> "create", table |-> t]

DirectNext ==
  /\ Up /\ pc["direct"] = "apply"
  /\ LET op == Head(direct)
     IN  /\ data' = Apply(Apply(data, Create(op.table)), op)
         /\ told' = Apply(Apply(told, Create(op.table)), op)
         /\ unlogged' = IF Applicable(data, op) THEN unlogged ELSE unlogged \cup {op.table}
         /\ IF Logged(op)
            THEN W!AppendEntry(op) /\ late' = (late \/ pc["closer"] \in {"finish", "closed"})
            ELSE UNCHANGED <<wal, late>>
  /\ direct' = Tail(direct)
  /\ Goto("direct", IF Len(direct) = 1 THEN "mark" ELSE "apply")
  /\ UNCHANGED <<queue, batch, dirty, unseen, stop, left, startup, disk, counts>>

DirectMark ==
  /\ Up /\ pc["direct"] = "mark"
  /\ dirty' = TRUE
  /\ Goto("direct", "idle")
  /\ UNCHANGED <<data, queue, batch, direct, unseen, stop, left, startup, disk, history, counts, wal>>

----------------------------------------------------------------------------
(* _flush_to_disk, by the saver, the importer or the closing thread.  The
   read lock covers save(); the dirty flag is cleared after its release. *)
Save(th) ==
  /\ Up /\ pc[th] = "save"
  /\ ~WriteLocked
  /\ WriteSnapshot
  /\ Goto(th, "clear")
  /\ UNCHANGED <<data, queue, batch, direct, dirty, stop, left, startup, history, counts, wal>>

AfterFlush(th) ==
  CASE th = "saver"    -> IF "saver" \in left THEN "exit" ELSE "wait"
    [] th = "importer" -> "idle"
    [] th = "closer"   -> "sync"

ClearDirty(th) ==
  /\ Up /\ pc[th] = "clear"
  /\ dirty' = FALSE
  /\ Goto(th, AfterFlush(th))
  /\ UNCHANGED <<data, queue, batch, direct, unseen, stop, left, startup, disk, history, counts, wal>>

(* _periodic_save *)
SaverWakes ==
  /\ Up /\ pc["saver"] = "wait"
  /\ dirty
  /\ Goto("saver", "save")
  /\ UNCHANGED <<memory, stop, left, startup, disk, history, counts, wal>>

SaverExit ==
  /\ Up /\ pc["saver"] = "wait" /\ "saver" \in left
  /\ ~dirty
  /\ Goto("saver", "exit")
  /\ UNCHANGED <<memory, stop, left, startup, disk, history, counts, wal>>

----------------------------------------------------------------------------
(* _file_on_change: its checks, then load() and the assignment under the
   write lock, then the modification time that load() read last. *)
WatcherWakes ==
  /\ Up /\ Watching /\ ~stop
  /\ pc["watcher"] = "wait"
  /\ unseen /\ ~dirty /\ queue = <<>>
  /\ Goto("watcher", "reload")
  /\ UNCHANGED <<memory, stop, left, startup, disk, history, counts, wal>>

Reload ==
  /\ Up /\ pc["watcher"] = "reload"
  /\ ~WriteLocked
  /\ data' = disk
  /\ Goto("watcher", "stat")
  /\ UNCHANGED <<queue, batch, direct, dirty, unseen, stop, left, startup, disk, history, counts, wal>>

ReloadStat ==
  /\ Up /\ pc["watcher"] = "stat"
  /\ unseen' = FALSE
  /\ Goto("watcher", "wait")
  /\ UNCHANGED <<data, queue, batch, direct, dirty, stop, left, startup, disk, history, counts, wal>>

WatcherExit ==
  /\ Up /\ pc["watcher"] = "wait" /\ stop
  /\ Goto("watcher", "exit")
  /\ UNCHANGED <<memory, stop, left, startup, disk, history, counts, wal>>

----------------------------------------------------------------------------
(* WAL.start: flush at every tick, and once more after stop. *)
SyncerFlush ==
  /\ Up /\ pc["syncer"] = "wait"
  /\ W!FlushTake("syncer")
  /\ Goto("syncer", "flush")
  /\ UNCHANGED <<memory, stop, left, startup, disk, history, counts>>

SyncerFlushed ==
  /\ Up /\ pc["syncer"] = "flush" /\ step["syncer"] = "idle"
  /\ Goto("syncer", IF "syncer" \in left THEN "exit" ELSE "wait")
  /\ UNCHANGED <<memory, stop, left, startup, disk, history, counts, wal>>

SyncerExit ==
  /\ Up /\ pc["syncer"] = "wait"
  /\ "syncer" \in left
  /\ buffered = <<>>
  /\ Goto("syncer", "exit")
  /\ UNCHANGED <<memory, stop, left, startup, disk, history, counts, wal>>

FlushStep(f) ==
  /\ Up
  /\ W!FlushStep(f)
  /\ UNCHANGED <<memory, control, startup, disk, history, counts>>

----------------------------------------------------------------------------
(* import_db and import_encrypted: replace every table, set the dirty flag,
   flush.  Nothing is appended to the WAL.  That an index cannot be rebuilt, which
   raises in between, is a matter of module Index. *)
Import(d) ==
  /\ GoesOn
  /\ importCount < MaxImports
  /\ pc["importer"] = "idle"
  /\ ~WriteLocked
  /\ data' = d
  /\ told' = d
  /\ importCount' = importCount + 1
  /\ Goto("importer", "mark")
  /\ UNCHANGED <<queue, batch, direct, dirty, unseen, stop, left, startup, disk, unlogged, late,
                 missed, opCount, foreignCount, session, wal>>

ImportMark ==
  /\ Up /\ pc["importer"] = "mark"
  /\ dirty' = TRUE
  /\ Goto("importer", "save")
  /\ UNCHANGED <<data, queue, batch, direct, unseen, stop, left, startup, disk, history, counts, wal>>

(* Another process saves to the same state.rdb. *)
ForeignSave(d) ==
  /\ Up
  /\ foreignCount < MaxForeign /\ Events < MaxOps
  /\ disk' = d
  /\ unseen' = TRUE
  /\ foreignCount' = foreignCount + 1
  /\ UNCHANGED <<data, queue, batch, direct, dirty, control, startup, history, asked, missed,
                 opCount, importCount, session, wal>>

----------------------------------------------------------------------------
(* close_with_timeout *)
BeginClose ==
  /\ Up /\ pc["closer"] = "idle"
  /\ stop' = TRUE
  /\ Goto("closer", "join")
  /\ UNCHANGED <<memory, left, startup, disk, history, counts, wal>>

(* Mutated form: the worker waits for an operation without a timeout, and
   sees stop only when one arrives. *)
WakesForOperation(th) == stop /\ (th = "worker" => queue # <<>>)

(* Every wait in a loop has a timeout or is a wait for stop itself. *)
SeesStop(th) == stop

(* A thread finds stop set at the top of its loop. *)
LeaveLoop(th) ==
  /\ Up /\ SeesStop(th) /\ th \notin left
  /\ pc[th] = IF th = "worker" THEN "collect" ELSE "wait"
  /\ left' = left \cup {th}
  /\ UNCHANGED <<memory, stop, pc, startup, disk, history, counts, wal>>

(* Mutated form: close goes on while threads still run. *)
JoinsSaverOnly == pc["saver"] = "exit"

ThreadsJoined == \A th \in Threads : pc[th] = "exit"

Join ==
  /\ Up /\ pc["closer"] = "join"
  /\ ThreadsJoined
  /\ Goto("closer", IF dirty THEN "save" ELSE "sync")
  /\ UNCHANGED <<memory, stop, left, startup, disk, history, counts, wal>>

(* Mutated form: WAL.close only closes the file. *)
NoFinalFlush == UNCHANGED wal

FinalFlush == IF buffered = <<>> THEN UNCHANGED wal ELSE W!FlushTake("closer")

(* WAL.close: flush what is still buffered, then close the file. *)
CloserFlush ==
  /\ Up /\ pc["closer"] = "sync"
  /\ FinalFlush
  /\ Goto("closer", "finish")
  /\ UNCHANGED <<memory, stop, left, startup, disk, history, counts>>

CloserFinish ==
  /\ Up /\ pc["closer"] = "finish" /\ step["closer"] = "idle"
  /\ W!CloseFile
  /\ Goto("closer", "closed")
  /\ UNCHANGED <<memory, stop, left, startup, disk, history, counts>>

Closed == pc["closer"] = "closed"

----------------------------------------------------------------------------
(* The process ends and a new one opens the same directory.  Everything in
   memory is gone; the threads are created anew. *)
NewProcess ==
  /\ session < MaxSessions
  /\ session' = session + 1
  /\ data' = Nothing /\ told' = Nothing /\ late' = FALSE
  /\ queue' = <<>> /\ batch' = <<>> /\ direct' = <<>>
  /\ dirty' = FALSE /\ unseen' = FALSE
  /\ stop' = FALSE /\ left' = {} /\ asked' = 0 /\ missed' = 0
  /\ pc' = ThreadStart
  /\ phase' = "load" /\ entries' = <<>> /\ recovered' = FALSE
  /\ W!FileOpened
  /\ UNCHANGED <<disk, unlogged, opCount, importCount, foreignCount>>

Crash ==
  /\ ~Closed
  /\ NewProcess
  /\ W!LoseUnsynced
  /\ UNCHANGED synced

Reopen ==
  /\ Closed
  /\ NewProcess
  /\ UNCHANGED <<file, synced>>

----------------------------------------------------------------------------
Startup == Load \/ ReplayEntry \/ ReplayDone \/ Checkpoint \/ TruncateWAL
Worker  == Take \/ Process \/ ApplyNext \/ MarkDirty \/ WorkerExit \/ LeaveLoop("worker")
Direct  == DirectNext \/ DirectMark
Saver   == SaverWakes \/ Save("saver") \/ ClearDirty("saver") \/ SaverExit \/ LeaveLoop("saver")
Watcher == WatcherWakes \/ Reload \/ ReloadStat \/ WatcherExit
Syncer  == SyncerFlush \/ FlushStep("syncer") \/ SyncerFlushed \/ SyncerExit
             \/ LeaveLoop("syncer")
Importer == ImportMark \/ Save("importer") \/ ClearDirty("importer")
Closer  == Join \/ Save("closer") \/ ClearDirty("closer") \/ CloserFlush
             \/ FlushStep("closer") \/ CloserFinish
Callers == Ask \/ (\E op \in Op : Submit(op)) \/ (\E d \in Foreign : Import(d) \/ ForeignSave(d))
             \/ (\E ops \in Changes : WriteBatch(ops) \/ Commit(ops)) \/ BeginClose

Next ==
  \/ Startup \/ Worker \/ Direct \/ Saver \/ Watcher \/ Syncer \/ Importer \/ Closer
  \/ Callers \/ Crash \/ Reopen

Spec == Init /\ [][Next]_vars

----------------------------------------------------------------------------
(* Properties. *)

TypeOK ==
  /\ data \in Snapshots /\ disk \in Snapshots /\ told \in Snapshots
  /\ queue \in Seq(Op) /\ batch \in Seq(Op) /\ direct \in Seq(Op) /\ entries \in Seq(Op)
  /\ unlogged \subseteq Tables /\ late \in BOOLEAN
  /\ dirty \in BOOLEAN /\ unseen \in BOOLEAN /\ stop \in BOOLEAN
  /\ recovered \in BOOLEAN
  /\ left \subseteq Threads
  /\ pc \in [Threads \cup {"direct", "importer", "closer"} ->
               {"collect", "apply", "mark", "wait", "save", "clear", "reload", "stat",
                "flush", "idle", "join", "sync", "finish", "closed", "exit"}]
  /\ phase \in {"load", "replay", "checkpoint", "truncate", "up"}
  /\ asked \in Nat /\ missed \in Nat /\ opCount \in Nat /\ opCount + asked <= MaxOps
  /\ importCount \in 0 .. MaxImports
  /\ foreignCount \in 0 .. MaxForeign
  /\ session \in Nat
  /\ W!WALTypeOK

(* What a caller sees under key k of table t. *)
Cell(d, t, k) == IF d[t] = NoTable THEN NoTable ELSE d[t][k]

(* Operations that a crash now could still lose. *)
UnsyncedOps ==
  ({file[i] : i \in synced + 1 .. Len(file)} \ {Torn})
    \cup ToSet(buffered) \cup UNION {ToSet(taken[f]) : f \in Flushers}

Touches(op, t, k) == op.table = t /\ (op.type = "create" \/ op.key = k)

(* Tables that exist by the log: all but those that a commit created. *)
LoggedTables == Tables \ unlogged

(* Once every operation on a record of a table whose creation is logged is
   covered by an fsync of the WAL, a crash at any moment, losing any part of the
   rest, gives that record back as it is: database.py _recover_from_wal over the
   last state.rdb. *)
DurableOnceSynced ==
  Up /\ EnableWAL =>
    \A n \in synced .. Len(file), t \in LoggedTables, k \in Keys :
      (\A op \in UnsyncedOps : ~Touches(op, t, k))
        => Cell(Recovery(disk, SubSeq(file, 1, n)), t, k) = Cell(told, t, k)

(* A crash between the checkpoint and the truncation of the WAL repeats the
   recovery over its own result, and gets the same tables. *)
RecoveryRepeatable ==
  phase \in {"checkpoint", "truncate"} =>
    \A t \in LoggedTables : Recovery(disk, file)[t] = data[t]

(* A database that was closed, with no import under way and nothing logged behind
   the last flush, opens again with what its callers last saw:
   close_with_timeout's final flush of state.rdb and of the WAL, and __init__. *)
CleanCloseKeepsAll ==
  Closed /\ pc["importer"] = "idle" /\ pc["direct"] # "apply" /\ ~late =>
    \A t \in LoggedTables : Recovery(disk, file)[t] = told[t]

(* With no other process on the directory, the tables in memory are those that
   the answers to callers describe. *)
AnsweredIsVisible == Up => data = told

(* Operations that the worker has still to apply. *)
Waiting == Len(queue) > missed \/ batch # <<>>

(* Every operation put into the queue before the worker's last look at it is
   applied, during and after close too: _process_write_buffer and its drain.  Those
   put behind it, by calls that asked before close and waited for room, stay. *)
QueueDrained == Waiting ~> ~Waiting

(* Entries that a flush has still to bring to disk: all but those that were
   appended behind the last flush. *)
Owed ==
  ({file[i] : i \in synced + 1 .. Len(file)} \ {Torn}) \cup UNION {ToSet(taken[f]) : f \in Flushers}
    \cup (IF late THEN {} ELSE ToSet(buffered))

(* Every logged operation, of the queue, a batch or a commit, is eventually covered
   by an fsync, unless it was logged when close had flushed: WAL.start and
   WAL.close. *)
EventuallySynced == (Owed # {}) ~> (Owed = {})

(* close returns: no thread waits for another one for ever. *)
CloseTerminates == stop ~> Closed

Fairness ==
  /\ WF_vars(Startup) /\ WF_vars(Worker) /\ WF_vars(Direct) /\ WF_vars(Saver) /\ WF_vars(Watcher)
  /\ WF_vars(Syncer) /\ WF_vars(Importer) /\ WF_vars(Closer)

FairSpec == Spec /\ Fairness

============================================================================
