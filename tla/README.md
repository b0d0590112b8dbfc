# PolarysDB (Python): a TLA+ development

TLA+ models of `polarysdb-py`, an embedded, encrypted key-value database: its
threads, its persistence and recovery, its lock, its write path, its
transactions, its indexes, its keys, its backups and its encodings; TLC
instances that check them; and TLAPS proofs of every safety property that the
passing runs check. Every definition that models code is tied to its lines by the
`map` of `PROJECT.json`.

## 1. Inventory

### Components, state and operations

| Component | Source | State | Operations | Model |
|---|---|---|---|---|
| Readers-writer lock | `database.py` `_FairRWLock` | mutex, reader count, write lock | enter and leave a read or a write section | `RWLock`, `ReadersWriters` |
| Write-ahead log | `modules/wal.py` | `_pending`, the file, its fsynced part | `append`, `flush`, `read_all`, `truncate`, `start`, `close` | `WAL`, `WALSession`, `DurableLog` |
| Database core | `database.py` | `_data`, `_dirty`, `_last_loaded`, `_stop`, the write buffer, `state.rdb` | start-up and recovery, write-buffer thread, periodic save, file watcher, import, close | `Database` |
| Write path | `database.py` `_send_op`, `_process_write_buffer` | bounded queue, micro-batch, result queues, `_closed`, `_stop` | `create`, `write`, `delete` as calls | `WriteBuffer`, `AtomicCalls` |
| Transactions | `modules/tx.py`, `begin_/commit_transaction` | snapshot, working copy, operations, state, `_active` | begin, write, delete, rollback, commit | `Transactions` |
| Indexes | `modules/index.py`, `create_index`, `query_by_index` | buckets per table and field | create, update, delete, rebuild, query | `Index` |
| Snapshot storage | `modules/storage.py` | `state.rdb`, its modification time | `save`, `load`, imports and exports | contents and times in `Database`, keys and failed loads in `KeyRotation`, JSON in `Formats` |
| Batch writes | `write_batch`, `commit_transaction` | as the core | write past the buffer | inside `Database` |
| Key rotation | `change_key` | the key in the configuration, in the storage engine, in the WAL | `change_key` | `KeyRotation` |
| Backups | `modules/backup.py` | files in a directory | interval backup, prune | `Backup`, `KeyRotation` |
| Encodings | `modules/encoding.py`, `protobuf_wire.py`, `_encode_wal_entry`, `_normalize_for_json` | none | varints, fields, values and entries to bytes and back, JSON | `Encodings`, `Formats` |
| Encryption | `modules/crypto.py` | none | encrypt, decrypt | a library: "opens with this key" in `KeyRotation` |
| Keys and configuration | `common.py`, `config.py` | none | | not modelled: pure data |
| Metrics, logger | `modules/metrics.py`, `logger.py` | counters | | not modelled: nothing decides by them |

### How they interact

- A caller's `create`, `write` or `delete` puts a `_WriteOp` in the write
  buffer and waits for its result. The write-buffer thread takes micro-batches
  and, under the write lock, changes `_data`, updates the indexes, appends to
  the WAL and answers; it sets `_dirty` after it has released the lock.
- `append` only buffers in memory. The wal-sync thread calls `flush` (take all,
  write frame by frame, one fsync), and so does `close`.
- The saver writes all of `_data` to `state.rdb` when `_dirty` is set (write a
  temporary file, rename). The watcher reloads `state.rdb` into `_data` when its
  modification time differs from the one `load` saw last. An import replaces
  `_data`, rebuilds the indexes and saves.
- Start-up loads `state.rdb`, replays the WAL over it and, if at least one entry
  was replayed, saves and empties the WAL. The WAL is emptied nowhere else.
- `close` sets `_closed` and `_stop`, joins the threads, saves if `_dirty` is
  set, and flushes and closes the WAL.
- A transaction works on a deep copy; `commit_transaction` runs
  `Manager.commit` and then merges the change set under the write lock.
  `write_batch` and this merge go past the write buffer: they change `_data`
  and append to the WAL themselves, and set `_dirty` after the lock.
- `change_key` puts the new key into the configuration and the storage engine
  and saves; the WAL keeps the key it was opened with. The backup thread
  serialises `_data` under the read lock, writes a file under the local time in
  seconds, and removes the oldest beyond `keep_count`.
- Each value takes two ways to disk: as a tagged value in a WAL entry, and as
  JSON in `state.rdb`.

### What is hard here

Interleavings of up to six threads that share `_data` under a hand-written
lock, but flags, the buffer, the WAL and the indexes outside it; checks made
before a lock is taken and used after it; crashes between the snapshot and the
log, and between the checkpoint and the truncation; timeouts of calls whose
operation is still queued; a shutdown that races all of it; two files that can
be under different keys, or unreadable, when a process starts; two encodings of
each value that do not agree. `hazards` in
`PROJECT.json` lists each at its line.

### What makes each component correct

- Lock: sections exclude each other; a reader always gets in.
- WAL: a replay delivers what was appended, in order, once, as a prefix that
  contains everything fsynced; after `close` it delivers everything that was
  appended before the last flush.
- Core: what is fsynced survives any crash; recovery can be interrupted and
  repeated; a clean close keeps everything; operations are applied, logged and
  fsynced in the end, if they come before the last drain and the last flush, and
  `close` returns.
- Write path: a call is atomic, a refused one has no effect, a later call takes
  effect later, every call is answered.
- Transactions: reads stay on the snapshot, a commit merges once, a rollback
  discards.
- Indexes: equal to the table between write sections; queries are exact.
- Keys: a rotation that returned is complete; what can be read is not forgotten;
  what could not be read is not overwritten without need, and is read later.
- Backups: the last good one outlives its `keep_count` successors.
- Encodings: what was written is what is read, whichever way it took, unless a
  flush dropped it.

## 2. Modules

**`ReadersWriters`** states what a lock of this kind promises: threads enter
read sections while nobody writes and write sections while nobody is inside.
**`RWLock`** is `_FairRWLock`, one action per acquisition or release: `Count` and
`LockOutWriters` are the two acquisitions of `_ReadCtx.__enter__`, `Uncount` and
`StopReading` the two halves of `__exit__`. The refinement maps a thread between
two halves to "out". This module is what allows the others to treat a section
under the lock as one step.

**`DurableLog`** states what the database needs from a log. **`WAL`** is
`modules/wal.py`: `flush` is a step that takes the buffer, two writes per frame
(`WriteHeader`, `WritePayload`) and an fsync, for each thread that may run it;
`ReadAll` stops at the first frame it cannot accept. A frame is the entry it
carries, or `Torn`; bytes, CRC and AES-GCM are abstracted to that verdict.
**`WALSession`** drives it through one process after another: the write-buffer
thread still appends while `close` waits for it, also after the wal-sync thread
has taken its last flush, so that the flush of `close` has something to do, and a
commit appends even behind that flush (`late` counts those entries). Its
variable `calm`, chosen at the start, says whether anything but crashes between
frames goes wrong; the module has both kinds of behaviour, and the properties
say which of them they are about.

**`Database`** composes `WAL` (an `INSTANCE`) with the tables, the threads and
`state.rdb`. Variables carry the name of the attribute they model (`data` is
`_data`, `queue` is `_write_buf`, `unseen` is "the modification time differs
from `_last_loaded`"). The two writers that others can observe half way are
split into steps: the worker applies and answers entry by entry and sets
`_dirty` afterwards; the watcher's `load` reads the file and then its
modification time. A `write_batch` or a merge of a commit (`direct`) is a
writer of the same kind: `WriteBatch` and `Commit` take the lock with what they
have to do, `DirectNext` does one record, `DirectMark` sets `_dirty`. `told`, a
history variable, holds the tables as the answers
given to callers describe them; `Recovery(disk, file)` is what a start-up would
make of the two files. A call first asks whether the database is closed (`Ask`)
and goes on at any time later (`Submit`, `WriteBatch`, `Import`), as it waits for
room in the queue or for the lock; a commit does not ask. Three more history
variables mark what the code is known to lose: `unlogged`, the tables that a
commit created (it does not log that), `late`, that something was logged when
`close` had already flushed, and `missed`, the operations put into the queue
behind the worker's last look at it.

**`KeyRotation`** is about which key reads which file. The key is in three places
(`cfgKey`, `storageKey`, `walKey`); `ChangeKey`, `UpdateKey`, `MarkDirty` and
`CallerSaves` are the statements of `change_key`; a save is `FlushSerialize`
(under the read lock, with the key of that moment), `FlushReplace` and
`FlushClear`. `Open` may fail to load, because the key is another or because the
read failed, and then starts empty; the watcher's `Reload` can make up for it.
`WriteRefused` is a call that changes nothing, a write to a missing table or a
commit of an empty transaction, and sets `_dirty` all the same.
`Import` restores a backup. The steps of a write and of a start-up that
`Database` tells apart are one step here. History variables: `blind` (could not
load and has not since), `touched` (replayed something, or got a call that changes data, even if
refused), `overlap` (a save
and a change of the key overlapped), `forgotten` (something that was not read
was replaced), `promised` (answered writes).

**`Backup`**, an `INSTANCE` of it, is `modules/backup.py`: `BeginBackup` takes the
snapshot and empties the file (nobody sees what is between the two), `WriteFile`
fills it, `Prune` removes. A name can repeat, a modification time cannot.

**`Encodings`** has the pure functions, one per function of `encoding.py`,
`protobuf_wire.py` and the entry functions of `wal.py`, and
`_normalize_for_json`. A byte is a number, a string its UTF-8 bytes, a Python
value a type and its content; the text of a JSON document counts as one byte
that holds the parsed document. A message is a sequence of fields: `Message` is the
loop that encodes them, `Fields` the one that reads them back, `Taken` what the
fields of a WAL entry make of it. `Value` and `Json` are built level by level, up to
`MaxDepth`, and `Converted` is the recursion over them that `json.dumps` and
`_normalize_for_json` share. The loops of the code are recursive functions on
positions, so that the provers can reason about them. **`Formats`** lets values take
both ways to disk: writes, the steps of `flush` (take all, encode one entry after
another, raise at one that has no encoding and drop the rest), saves and restarts
in any order. A frame in `log` carries the entry that it was made of, as history;
`last` is the value written last, and `dropped` the places whose entry a flush
dropped.

**`AtomicCalls`** states what callers are promised; **`WriteBuffer`** is the
bounded queue, the micro-batches, both timeouts and the two events of `close`,
which it sets one after the other.

**`Transactions`** has one action per critical section of begin, write, delete,
rollback and commit (`CommitCheck`, `CommitCollect`, `CommitMark`, `CommitPop`,
`Merge`): no lock covers two of them.

**`Index`** has a writer that changes the table and then the index inside one
write section, `create_index` and `query_by_index` in two steps each, and
imports. An import or a reload is a step that replaces the tables and, under the
same lock, one `Rebuild` after another, in any order, until all tables are done or
one raises (`RebuildRaises`), which leaves the rest as they were. Unhashable values
raise wherever the code would raise.

The `MC*` modules give TLC its constants and symmetry sets. Definitions commented
*mutated form* are plausible mistakes; none is used by a specification.

### Simplifications

- Values are immutable; `read` hands out the stored object in the code, and a
  caller that changes it in place is outside every model.
- `Database`: `_closed` and `_stop` are one variable (`WriteBuffer` separates
  them); the watcher's three checks are one step; the queue has no bound, so that no
  put times out (`WriteBuffer` has one); readers and indexes are left out, and
  with them an import or a reload that raises because an index cannot be rebuilt
  (which skips the mark and the save of an import); `state.rdb` is replaced atomically (temporary file and
  rename); `load` does not fail (in `KeyRotation` it does); a save does not raise
  (in `Formats` it does); `write_batch` and `commit_transaction` carry each record
  once, as a dict does.
- `KeyRotation`: a write is applied, logged and fsynced in one step, a record is
  written once and is in no table, `close` waits for calls and saves, a crash
  keeps every frame. `Database` and `WALSession` are about what that leaves out.
- `Formats`: flushes do not overlap, and a process ends when its flushes are done
  (`WALSession` has what happens otherwise); the tables exist, and a place is a table and a key; the bytes of text,
  and of floats, are taken as they are. A value is nested less deep than Python's
  recursion limit (`MaxDepth`), and an entry is shorter than 2^64 bytes.
- `Transactions`: one table, which exists throughout. `Index`: one field; a
  record is the value of that field.

## 3. Runs

| Run | Question | Bounds |
|---|---|---|
| `database_crash` | Do fsynced operations survive a crash at any step, can recovery be repeated, does a clean close keep all? | 1 table, 2 keys, 2 values, a new or a saved directory, 2 operations (queued, in a batch or in a commit), batches of 2, 2 processes, saver, watcher, wal-sync |
| `database_live` | Are operations applied and fsynced, does `close` return? | 1 table, 1 key, 2 events before, during and after `close`: operations (queued, in a batch or in a commit), an import, a save by another process; reloads |
| `wal_session` | Does the WAL implement a durable log, and is anything replayed twice whatever goes wrong? | 4 entries of which one is unencodable and one oversized, torn frames, concurrent flushes, 4 appends, 2 processes |
| `rotation` | Is anything forgotten, is a rotation complete, is an unread file kept and read later, is the last good backup kept? | 2 keys, 2 records, 1 caller, `keep_count` 2, 3 backups, 5 events (starts, writes, refused writes, rotations, imports, backups), any first content of `state.rdb` |
| `formats` | Does what is written come back? | 2 entries at a time in the buffer, in a flush and in the log, any number of saves and restarts; the values and entries that `MCFormats` lists: each type, containers, negative and many-group numbers, metadata, unknown fields of known and of other wire types; nested two levels deep; varint groups of 2 bits instead of 7 and words of 10 bits instead of 64, so that small numbers take several groups and negative ones the most that are accepted |
| `rwlock` | Does `_FairRWLock` exclude, and do readers get in? | 3 threads |
| `write_buffer` | Are calls atomic, ordered and answered? | 2 callers with 2 calls each, queue and batch of 2, timeouts, close |
| `transactions` | Snapshot reads; merged once? | 2 transactions, 2 committers, 2 keys, 3 writes |
| `index` | Is the index exact, are queries? | 2 tables, 2 keys, 3 values of which one is unhashable, 2 writes, 2 imports, 1 query |
| `database_torn` (violation) | the same as `database_crash` with torn frames | 2 operations, 2 processes |
| `database_reload` (violation) | Is an answered write visible? | 3 operations |
| `txn_rollback` (violation) | Does rollback discard? | 1 transaction |

**Why the bounds are enough.** Two keys are what it takes for one record to be
covered by an fsync while another is not; a saved directory and two operations
let a record be saved, logged and overwritten by one that is only buffered; two
processes let a recovery meet the leavings of another. Two is the least batch
that is split and the least queue that is full with something in front. Three
threads give two readers and a writer, or two writers and a reader. Three writes
of which two hit one key show the order of operations inside a transaction.
`database_live` has one key and two events: which records a table holds decides
nothing about waiting, and two events let a call, an import or a reload be in the
way of another call. Two tables and two imports are what it takes for a rebuild to stop
in front of a table that has an index; two entries in one batch, for one to be
dropped with the other. Five events let a rotation, a write under the old WAL key, a crash
and a start with either key follow one another, or three backups and two starts,
one more than `keep_count`.

**Assumed of the environment.** `database_crash` assumes that a crash leaves whole
frames (`TornWrites = FALSE`): the code does not handle a torn first frame
(`database_torn`). It has no import and no other process. `database_live` assumes
that readers do not overlap without end: nothing in the lock keeps them from
locking the worker out (`database.py:788`), and the module has no readers. In `wal_session` the
properties of the durable log are about calm behaviours; `ReplayedOnce` is about
all.

**Symmetry** is used only where safety alone is checked and no constant breaks
it. Deadlock checking is off where callers may simply stop; it is on for
`rwlock`, where no thread may be stuck.

**Fairness.** Threads run: weak fairness for each thread's next step, the one
of a `write_batch` or commit that has begun included, for a pending `SetStop`,
for delivering an answer, and in `KeyRotation` for the watcher's reload, which is
tried at every `watch_interval` and not overtaken while nothing is dirty. Callers are not obliged to call
nor `close` to be called. Strong fairness is assumed of acquiring a contended
lock and of putting into the queue: `threading.Lock` and `queue.Queue` wake a
waiter when they are released, and nothing else in the code could give it its
turn. Nothing is assumed about a timeout firing.

## 4. What the violation runs show

- **`database_torn`** (`database.py:229`): if a crash tears the first frame,
  `read_all` returns nothing, so the WAL is not emptied, and the entries of the
  next process are written and fsynced behind the torn frame, out of reach.
- **`database_reload`** (`database.py:673`): `_last_loaded` is not updated by the
  process's own save, so the watcher reloads it; a batch applied between the
  watcher's checks and its write lock is overwritten in memory.
- **`txn_rollback`** (`tx.py:148`): `rollback` leaves the transaction registered,
  and `commit` looks at the registration only: a write that was rolled back is
  merged into the tables.

Other limits met while modelling, which shape the properties above:

- `flush` empties the buffer before it writes, and an entry that cannot be encoded
  raises: the entries behind it in the batch are in no buffer and no file
  (`wal.py:110`, `FlushRaises`; what they were is in `dropped`);
- an import is not logged and older entries are replayed over it
  (`database.py:419`); a record with unsynced operations can go back behind what
  `state.rdb` held (`database.py:694`);
- without a WAL, `_dirty` cleared outside the lock erases the mark of a newer
  batch and `close` skips its save (`database.py:695`);
- a commit creates a missing table without logging it, so that its fsynced
  writes are skipped by the replay (`database.py:375`, excluded by `unlogged`); a
  commit after `close` has flushed is answered and lost (`database.py:366`,
  excluded by `late`), and an operation that was put behind the worker's last look
  at the queue is never applied (`database.py:763`, excluded by `missed`); half of a commit survives a crash (`database.py:376`);
- after `change_key` the WAL goes on with the old key: its frames cannot be read
  by a process that opens with the new one (`database.py:451`), nor is such a WAL
  emptied (`database.py:229`); two changes at once, or a save that overlaps one,
  can leave `state.rdb` under the old key (`overlap`);
- a process that could not load overwrites `state.rdb` as soon as it has something
  to save (`database.py:716`, `forgotten`), and `_dirty` is set by a batch of which
  every operation was refused, or by a commit of nothing, too: such a process then
  replaces the file by an empty one (`database.py:612`, `database.py:396`; `touched`
  in `UntouchedKept` and `BlindHeals`); a start-up empties a WAL of which it
  could read only the head (`database.py:232`);
- a backup name can be reused and the good file under it is emptied
  (`backup.py:74`, excluded by `reused`);
- one value without a JSON form stops every save (`storage.py:224`); one that the
  WAL cannot encode either is followed, after a restart, by the older value of its
  key (`database.py:730`); bytes become base64 text on one way and not on the
  other (`storage.py:212`);
- one unencodable or oversized entry takes later ones with it (`wal.py:113`,
  `wal.py:137`), and an older frame of the place of a dropped entry is replayed over
  the newer value even if that was saved (`PlainKept` and `NeverReencoded` are about
  the rest); a field of wire type 1, 3, 4 or 5 stops the recovery at its frame
  (`protobuf_wire.py:71`, in `UnknownFields`); a join that times out closes the file under a flush
  (`database.py:502`); overlapping readers starve a writer (`database.py:788`);
- a commit overwrites newer records (`database.py:387`); a write between
  `_get_changes` and `_mark_committed` is accepted and not merged (`tx.py:152`);
  an index falls behind its table in the four ways that
  `IndexMatchesUnlessBehind` names, one of which is that an unhashable value of
  another table ended the rebuild of all (`database.py:752`).

## 5. Proofs

`tlapm` proves every theorem listed in `PROJECT.json` from the named assumptions
of its module: constants are distinct where the code distinguishes them, sizes
are numbers, the set of threads of the lock is finite. They hold for all values
of the constants, the bounds of the counters included, under the hypotheses that
a theorem itself names.

**Lock (`WritePathProofs`, first part).** `MutualExclusion` is not inductive: a step depends on
who holds the two `threading.Lock`s and on the counter. `LockInv` adds that the
mutex belongs to the one thread in its critical section, that `readers` is the
number of threads that have counted themselves and not yet uncounted, and that
the write lock is held by a writer or on behalf of the counted readers. From it
follow exclusion and that every step is a step of `ReadersWriters` or a stutter.
This theorem is what entitles the other modules to treat a section under the
lock as one step.

**Log (`WALSessionProofs`).** All theorems but the last are about calm behaviours:
entries can be encoded and read back, a crash leaves whole frames, `close` waits
for its threads. `CloseKeeps` is about what was appended before the last flush of
`close`. The invariant is about one sequence, `Line`: the whole frames of
the file, then what a flush has taken, then the buffer. Appending extends it; a
flush only moves its borders; `Line` is always what was appended. For this at
most one flush may be in progress (`OneFlush`), which is so because `close`
flushes after the wal-sync thread has ended; and a torn frame may only be the
last one, between the two writes of a frame. `ReplayIsPrefix`, `ClosedHoldsAll`
and the refinement of `DurableLog` follow. That `read_all` returns exactly the
frames before the first unreadable one is a lemma (`ReadAllEntries`).

`OnceReplayed` is about every behaviour, where there is no such line: two flushes
may write into each other's frames. `OnceInv` counts instead: the copies of an
entry in the file, in what the flushes have taken and in the buffer are together
no more than its appends, since every step only moves or loses a copy. One case
is not covered by counting: a file whose first frame cannot be read is not
emptied at start-up, and the copies that it has are of earlier processes; but
nothing that is ever behind such a frame is read (`Shut`).

**Write path (`WritePathProofs`, second part).** The same argument with `Line` being
the operations applied, the micro-batch and the queue. `PathInv` says that no
operation is in it twice, that operations whose calls did not overlap are in the
order of the calls, that every operation in it has not been refused, and that
answers are true. `OrderKept` and the refinement of `AtomicCalls` follow: the
application of an operation is its point of effect. `SequenceLemmas` has what the
two proofs share.

**Transactions (`TransactionsProofs`).** `SnapshotReads` needs that recording an
operation changes the working copy as it changes the change set; the lemma behind
it (`OverlayAppend`) is that appending an operation to the list adds its key and
makes it the last on that key. `MergedOnce` needs `MergeInv`: a transaction that
was merged is no longer registered and nobody is committing it, and two threads
commit the same one only if it raced.

**Core (`DatabaseProofs`).** `TypeCorrect` claims of the code that no record ever
lands in a table that does not exist, in memory, in `state.rdb` or during a
replay, because every write and delete is checked against the tables that it is
applied to. It needs that the thread in the middle of a batch, of a `write_batch`
or of a commit, and a flush in the middle of its frames, have something left.

`Durable`, `RepeatedRecovery` and `CleanClose` are what the run `database_crash`
checks, for any number of tables, records, operations and processes. Their
hypotheses are those of that run: `~TornWrites`, because the code does not survive
a torn first frame (`database_torn` shows it), and `Foreign = {}`, because an
import or another process replaces the tables behind the log, and older entries
are then replayed over them. `CleanClose` also needs `EnableWAL`: without a WAL
`close` can skip the last save (section 4).

- *One line.* As for the log, all that was logged since the last truncation
  stands in one `Line`: frames of the file, what a flush has taken, the buffer
  (`FileInv`; `ThreadInv` is why there is one flush at a time).
- *When the snapshot was taken does not matter.* A save can come before or after
  an operation is logged, flushed or fsynced, so a replay meets operations that
  `state.rdb` has already. `Absorbs` says that an operation which is replayed again
  further on has no effect on its table the first time; `ReplayTwice`, that a whole
  replay repeated over its own result changes nothing.
  This needs that the replay skips nothing (`NoSkip`): a write before its table
  exists is skipped when it is replayed over older tables and not over newer
  ones. That is where `LoggedTables` comes from: a table that a commit created is
  not in the log.
- *The invariant.* `LogInv`: `Line` replayed over `state.rdb` gives what callers
  were told, and so does `Line` replayed over the tables in memory, which are
  what the next save puts into `state.rdb`. A save then keeps it at once; an
  operation extends the line and both results; a flush leaves the line alone. In
  the middle of a recovery, the part of the line that was replayed gives the
  tables in memory; at the checkpoint, all of it does.
- *A crash* leaves a first part of the line with everything fsynced in it. What
  is lost does not touch the record, so both replays agree on it (`ReplayUntouched`).

These are facts about a fold over the log, which take an induction. The induction
theorems of the library have operators as parameters; `SequenceLemmas` states
induction over numbers and sequences with a set as parameter, from the existence
of minimal elements in a well-founded order. `FoldLeft` is a recursive function on
sets of positions; that it exists, and that a replay of one more operation is that
operation applied to the replay of the others (`ReplayAppend`), is proved from its
definition (`ReplayIsFold`, `FoldExists`, `ReplayStages`).

**Indexes (`IndexProofs`).** Every property of the run `index`. That an index is
exact between write sections says nothing of the middle of one, so the invariant
does: every index is behind until the rebuild that an import began has come to its
table; the index of a table that is not behind is that of the table, or that of
the table without the one change that its writer has still to index (`Pending`);
it is `ReindexedExact` that both become the index of the table, which is why
`create_index` may walk a table in the middle of a write. An index without its
table is one that is behind (in `Kept`), and the table that `create_index` holds
exists as long as nothing replaces it (`CreatorInv`). `QueryExactOnUntouched`
follows because the bucket that a query holds stays right about every record that
nobody touches (`BucketInv`).

**Keys and backups (`KeyRotationProofs`).** Every safety property of the run
`rotation`, from `KeyRotationAssumption`: the saver is no caller, no file is
not a file, `keep_count` is positive. `SyncedSurvives` speaks of the two files;
what a step does to them depends on what is in memory and on what a thread has
serialised, so `SurvivalInv` says of each of the three that it holds, with the
WAL, every answered write, unless something was forgotten or the process is
blind. `RotationComplete` needs `RotationInv`: while a change of the key is not
overlapped, either `state.rdb` opens with the key of the storage engine or the
save that will make it so is ahead. `UntouchedKept` needs that nothing is ahead
of a process that touched nothing, and that it is not dirty (`IdleInv`). `Insured` needs to know how far the
last sound backup is behind: as many files as were begun since; since
modification times differ, no more files can be newer than that (`NewerBounded`,
an injection into an interval), so `_prune` keeps it.

**Encodings and formats (`FormatsProofs`).** Every property of the run `formats`,
and `EntryRoundTrip`: a frame decodes to its entry. The assumptions are those of
the code's numbers, stated for any base and word: every number below the word takes
no more groups than `decode_varint` accepts, entries and their numbers fit the word
(`EntriesAssumption`), an unknown field has a number, or one of the two wire types
of a field, that this version does not use for it (`UnknownAssumption`), a foreign
one has another wire type and any payload (`ForeignAssumption`), and `Raised`, `Absent` and `NoFile` are
no values.

The invariant of `Formats` is short. `EntrySurvives` and `UnknownFields`
need no more than that a frame is the encoding of its entry (`GoodLog`); `PlainKept`,
`NeverReencoded` and `RestartSaves` need that not only what is in memory but also
what a start-up would recover now from the log and the snapshot is one of the forms
of the value written last (`Inv`), at every place whose last entry neither waits in
the buffer or the batch of a flush (`Queue`) nor was dropped, and that it can be
loaded and saved (`Loadable`). That the last entry of a place in the queue has the
value written last (`GoodQueue`) is why a flush makes it so.
A save then turns one form into another of the same value, and there is no third
(`FormsStay`). The work is below, in what the pure functions compute:

- *Varints.* The digits of a number give the number back (`ExpansionProperties`);
  its groups have a continuation bit on all but the last, so that `decode_varint`
  finds their end wherever they stand in a buffer (`VarintRead`). A negative number
  is read back as what its bits are.
- *Messages.* A field that stands in a buffer is read as itself, and the position
  behind it is that of the next one (`FieldIsRead`); so the loop of `Fields` stands
  at the end of each field after as many turns, and its further turns do nothing
  (`FieldsRead`). The entry that a message makes is then that of its fields one after
  another (`MessageDecoded`), which is what lets fields be put in front and behind
  (`AbsorbedConcat`, `UnknownAround`). At a foreign field the loop raises, and its
  further turns do nothing (`ForeignTurn`, `ForeignRaises`).
- *Values.* `Converted` recurses over values. That there is such a function is
  proved from the depth of nesting (`RankedRecursion` of `SequenceLemmas`,
  `ConvertedExists`); that its results are JSON, that it leaves JSON as it is, and
  that a dict keeps one pair for each key, by induction on the depth
  (`ConvertedStep`, `ConvertedJson`). A tag and its payload are read back as the
  value, or as its JSON form if it is a container (`ValueRead`).
- *Entries.* A field that was left out is the default of `NoEntry`, the others are
  taken one by one, and metadata pairs with an empty key are not taken
  (`MetadataRead`, `EntryRead`).

**Only model-checked.** Liveness (the properties of the `FairSpec` runs: `QueueDrained`,
`EventuallySynced`, `CloseTerminates`, `ReaderGetsIn`, `EveryCallAnswered`,
`BlindHeals`): outside the prover's reach. That the process is as durable with
imports as `database_crash` shows it to be without is not claimed: the code does
not log them.

## 6. Plan

1. Abstract specifications worth stating: a store whose operations are durable
   once synced, implemented by `Database`; snapshot transactions as an
   interleaving of atomic merges, implemented by `Transactions`.
2. Model: join timeouts inside `Database`; a save that raises inside `Database`.

**Not modelled, and why.** Metrics and logger decide nothing. Configuration and
key objects are data. The legacy file format is read only, and exports write
files that nothing here reads. `drop_table` of the index manager and `backup_now`
are called by nothing in `polarysdb/`. AES-GCM is a library.
