---------------------------- MODULE KeyRotation ----------------------------
(***************************************************************************)
(* Which key reads which file.  change_key of polarysdb/database.py puts a *)
(* new key into the configuration and into the storage engine and saves,   *)
(* while the saver, the watcher and the backup thread work, and leaves the *)
(* WAL with the key it was opened with.  A process that cannot load        *)
(* state.rdb, because the key is another or the read failed, starts empty. *)
(*                                                                         *)
(* Module Database has the steps that are one step here: a write is        *)
(* applied, marked dirty, logged and fsynced at once, and a start-up is    *)
(* not interrupted.  A crash keeps every frame.                            *)
(***************************************************************************)
EXTENDS Naturals, Sequences, FiniteSets

CONSTANTS
  Writes,      \* records; each is written once
  Keys,        \* encryption keys
  Callers,     \* threads that call change_key or import_encrypted
  None,        \* no file, no key, no bytes
  KeepCount, MaxBackups,    \* of module Backup
  MaxEvents    \* bound: starts, writes, rotations, imports and backups together

VARIABLES
  up,          \* a process has the database open
  data,        \* _data
  cfgKey,      \* _cfg.encryption_key
  storageKey,  \* _storage.cfg.encryption_key
  walKey,      \* _wal.cfg.encryption_key
  dirty,       \* _dirty
  unseen,      \* the modification time of state.rdb differs from _last_loaded
  file,        \* state.rdb: [key, data], or None
  log,         \* polarysdb.wal: frames [key, write]
  pc,          \* where each thread is: "idle", "storage", "mark", "save", "replace", "clear"
  given,       \* the new key of a change_key in progress
  raw,         \* what a thread has serialised and is about to put into place
  blind,       \* history: this process could not load and has not loaded since
  touched,     \* history: it replayed, or a write (refused ones too), import or rotation came
  overlap,     \* history: a key change and a save of another thread overlapped
  forgotten,   \* history: a process saved over state.rdb or emptied a WAL unread
  promised,    \* history: the writes that were answered, but for imports over them
  insured,     \* history: what the last backup of a process that was not blind holds
  since,       \* history: backups begun since
  events,      \* counter of the bound
  backups, bstep, snapshot, begun, reused   \* of module Backup

(* What a file of the storage engine can hold. *)
Contents    == [key : Keys, data : SUBSET Writes]
ContentType == Contents \cup {None}

ASSUME KeyRotationAssumption ==
  /\ "saver" \notin Callers
  /\ None \notin Contents \cup Keys
  /\ KeepCount \in Nat \ {0}
  /\ {MaxBackups, MaxEvents} \subseteq Nat

B == INSTANCE Backup WITH NoBytes <- None

memory  == <<up, data, cfgKey, storageKey, walKey, dirty, unseen>>
threads == <<pc, given, raw>>
history == <<blind, touched, overlap, forgotten, promised>>
insurance == <<insured, since>>
backup  == <<backups, bstep, snapshot, begun, reused>>
vars    == <<memory, file, log, threads, history, insurance, events, backup>>

Threads == Callers \cup {"saver"}

----------------------------------------------------------------------------
(* The files. *)

(* Mutated form: serialize takes the key that the WAL has. *)
SerializedOld == [key |-> walKey, data |-> data]

(* serialize: the key of the storage engine. *)
Serialized == [key |-> storageKey, data |-> data]

(* deserialize: AES-GCM tells a wrong key. *)
Opens(f, k) == IF f = None THEN TRUE ELSE f.key = k

Loaded(f) == IF f = None THEN {} ELSE f.data

(* read_all stops at the first frame of another key. *)
Replayed(k) ==
  {log[i].write : i \in {i \in DOMAIN log : \A j \in 1 .. i : log[j].key = k}}

Legible(k) == \A i \in DOMAIN log : log[i].key = k

(* A thread holds the read lock while it saves. *)
Reading == \E t \in Threads : pc[t] = "replace"

Init ==
  /\ up = FALSE /\ data = {} /\ dirty = FALSE /\ unseen = FALSE
  /\ cfgKey = None /\ storageKey = None /\ walKey = None
  /\ file \in ContentType /\ log = <<>>
  /\ pc = [t \in Threads |-> "idle"]
  /\ given = [c \in Callers |-> None] /\ raw = [t \in Threads |-> None]
  /\ blind = FALSE /\ touched = FALSE /\ overlap = FALSE /\ forgotten = FALSE
  /\ promised = Loaded(file) /\ insured = {} /\ since = 0
  /\ events = 0
  /\ B!BackupInit

----------------------------------------------------------------------------
(* Start-up and end. *)

WithinBound == events < MaxEvents

(* Mutated form: a failed load is taken for one. *)
SeenAnyway(loads) == FALSE

(* _last_loaded is set by a load that succeeded and stays 0.0 otherwise. *)
UnseenAfter(loads) == file # None /\ ~loads

(* Mutated form: the WAL is replayed only where the snapshot did not load. *)
EitherOne(k, loads) == IF loads THEN Loaded(file) ELSE Replayed(k)

(* What a start-up makes of the two files. *)
Started(k, loads) == (IF loads THEN Loaded(file) ELSE {}) \cup Replayed(k)

Checkpointed(k) == Replayed(k) # {}

(* __init__: load with retries, which may fail all the same; replay; and, if
   that was anything, save and empty the WAL. *)
Open(k, loads) ==
  /\ ~up /\ WithinBound
  /\ loads => Opens(file, k)
  /\ file = None => loads
  /\ up' = TRUE
  /\ cfgKey' = k /\ storageKey' = k /\ walKey' = k
  /\ data' = Started(k, loads)
  /\ IF Checkpointed(k)
     THEN /\ file' = [key |-> k, data |-> data'] /\ log' = <<>>
          /\ unseen' = TRUE
          /\ forgotten' = (forgotten \/ ~loads \/ ~Legible(k))
     ELSE /\ unseen' = UnseenAfter(loads)
          /\ UNCHANGED <<file, log, forgotten>>
  /\ dirty' = FALSE
  /\ blind' = ~loads /\ touched' = Checkpointed(k) /\ overlap' = FALSE
  /\ events' = events + 1
  /\ UNCHANGED <<threads, promised, insurance, backup>>

(* What only the process had is gone. *)
Ended ==
  /\ up' = FALSE /\ data' = {} /\ dirty' = FALSE /\ unseen' = FALSE
  /\ cfgKey' = None /\ storageKey' = None /\ walKey' = None
  /\ pc' = [t \in Threads |-> "idle"] /\ raw' = [t \in Threads |-> None]
  /\ given' = [c \in Callers |-> None]
  /\ blind' = FALSE /\ touched' = FALSE /\ overlap' = FALSE
  /\ B!BackupCrash
  /\ UNCHANGED <<log, promised, insurance, events>>

Crash == up /\ Ended /\ UNCHANGED <<file, forgotten>>

(* close, when no call and no save is in progress. *)
Close ==
  /\ up /\ \A t \in Threads : pc[t] = "idle"
  /\ file' = IF dirty THEN Serialized ELSE file
  /\ forgotten' = (forgotten \/ (dirty /\ blind))
  /\ Ended

----------------------------------------------------------------------------
(* Writes and saves. *)

Write(w) ==
  /\ up /\ ~Reading
  /\ w \notin promised /\ WithinBound
  /\ data' = data \cup {w} /\ dirty' = TRUE
  /\ log' = Append(log, [key |-> walKey, write |-> w])
  /\ touched' = TRUE /\ promised' = promised \cup {w}
  /\ events' = events + 1
  /\ UNCHANGED <<up, cfgKey, storageKey, walKey, unseen, file, threads, blind, overlap,
                 forgotten, insurance, backup>>

(* process sets _dirty after every batch, and commit_transaction after every
   commit: also when each operation was refused, its table being missing, and
   when the transaction is empty. *)
WriteRefused ==
  /\ up /\ ~Reading /\ WithinBound
  /\ dirty' = TRUE /\ touched' = TRUE /\ events' = events + 1
  /\ UNCHANGED <<up, data, cfgKey, storageKey, walKey, unseen, file, log, threads, blind,
                 overlap, forgotten, promised, insurance, backup>>

(* _flush_to_disk: serialize and the temporary file, under the read lock. *)
FlushSerialize(t) ==
  /\ raw' = [raw EXCEPT ![t] = Serialized]
  /\ pc' = [pc EXCEPT ![t] = "replace"]
  /\ UNCHANGED <<memory, file, log, given, history, insurance, events, backup>>

(* Mutated form: every interval saves. *)
Always == TRUE

SaveNeeded == dirty

SaverWakes == up /\ pc["saver"] = "idle" /\ SaveNeeded /\ FlushSerialize("saver")

CallerSaves(c) == up /\ pc[c] = "save" /\ FlushSerialize(c)

(* os.replace; the modification time becomes one that load has not seen. *)
FlushReplace(t) ==
  /\ up /\ pc[t] = "replace"
  /\ file' = raw[t] /\ unseen' = TRUE
  /\ raw' = [raw EXCEPT ![t] = None]
  /\ pc' = [pc EXCEPT ![t] = "clear"]
  /\ forgotten' = (forgotten \/ blind)
  /\ UNCHANGED <<up, data, cfgKey, storageKey, walKey, dirty, log, given, blind, touched,
                 overlap, promised, insurance, events, backup>>

FlushClear(t) ==
  /\ up /\ pc[t] = "clear"
  /\ dirty' = FALSE
  /\ pc' = [pc EXCEPT ![t] = "idle"]
  /\ UNCHANGED <<up, data, cfgKey, storageKey, walKey, unseen, file, log, given, raw, history,
                 insurance, events, backup>>

(* _file_on_change: load under the write lock; it raises on a wrong key. *)
Reload ==
  /\ up /\ ~Reading
  /\ unseen /\ ~dirty
  /\ Opens(file, storageKey)
  /\ data' = Loaded(file) /\ unseen' = FALSE /\ blind' = FALSE
  /\ UNCHANGED <<up, cfgKey, storageKey, walKey, dirty, file, log, threads, touched, overlap,
                 forgotten, promised, insurance, events, backup>>

----------------------------------------------------------------------------
(* Rotation and restoring. *)

(* change_key(old, new), old being the key in the configuration. *)
ChangeKey(c, new) ==
  /\ up /\ pc[c] = "idle" /\ new # cfgKey /\ WithinBound
  /\ cfgKey' = new /\ given' = [given EXCEPT ![c] = new]
  /\ pc' = [pc EXCEPT ![c] = "storage"]
  /\ events' = events + 1 /\ touched' = TRUE
  /\ overlap' = (overlap \/ \E t \in Threads : pc[t] # "idle")
  /\ UNCHANGED <<up, data, storageKey, walKey, dirty, unseen, file, log, raw, blind, forgotten,
                 promised, insurance, backup>>

(* Mutated form: the new key is gone when it is needed. *)
KeyLost(c) == None

NewKey(c) == given[c]

(* _storage.update_key *)
UpdateKey(c) ==
  /\ up /\ pc[c] = "storage"
  /\ storageKey' = NewKey(c) /\ given' = [given EXCEPT ![c] = None]
  /\ pc' = [pc EXCEPT ![c] = "mark"]
  /\ overlap' = (overlap \/ \E t \in Threads \ {c} : pc[t] # "idle")
  /\ UNCHANGED <<up, data, cfgKey, walKey, dirty, unseen, file, log, raw, blind,
                 touched, forgotten, promised, insurance, events, backup>>

MarkDirty(c) ==
  /\ up /\ pc[c] = "mark"
  /\ dirty' = TRUE
  /\ pc' = [pc EXCEPT ![c] = "save"]
  /\ UNCHANGED <<up, data, cfgKey, storageKey, walKey, unseen, file, log, given, raw, history,
                 insurance, events, backup>>

(* import_encrypted of a backup: it raises on another key or a damaged file. *)
Import(c, b) ==
  /\ up /\ pc[c] = "idle" /\ ~Reading /\ WithinBound
  /\ b.bytes # None /\ b.bytes.key = storageKey
  /\ data' = b.bytes.data
  /\ promised' = promised \cap b.bytes.data
  /\ touched' = TRUE /\ events' = events + 1
  /\ pc' = [pc EXCEPT ![c] = "mark"]
  /\ UNCHANGED <<up, cfgKey, storageKey, walKey, dirty, unseen, file, log, given, raw, blind,
                 overlap, forgotten, insurance, backup>>

----------------------------------------------------------------------------
(* Backups. *)

(* _create_backup_snapshot, under the read lock. *)
BackupBegin ==
  /\ up /\ WithinBound
  /\ B!BeginBackup(Serialized)
  /\ since' = since + 1 /\ events' = events + 1
  /\ UNCHANGED <<memory, file, log, threads, history, insured>>

BackupWrite ==
  /\ up /\ B!WriteFile
  /\ IF blind THEN UNCHANGED insurance
     ELSE insured' = snapshot.data /\ since' = 0
  /\ UNCHANGED <<memory, file, log, threads, history, events>>

BackupPrune ==
  /\ up /\ B!Prune
  /\ UNCHANGED <<memory, file, log, threads, history, insurance, events>>

Next ==
  \/ \E k \in Keys, loads \in BOOLEAN : Open(k, loads)
  \/ Crash \/ Close
  \/ \E w \in Writes : Write(w)
  \/ WriteRefused
  \/ SaverWakes
  \/ \E t \in Threads : FlushReplace(t) \/ FlushClear(t)
  \/ Reload
  \/ \E c \in Callers : \/ \E new \in Keys : ChangeKey(c, new)
                        \/ UpdateKey(c) \/ MarkDirty(c) \/ CallerSaves(c)
                        \/ \E b \in backups : Import(c, b)
  \/ BackupBegin \/ BackupWrite \/ BackupPrune

(* The watcher wakes again and again. *)
Spec == Init /\ [][Next]_vars /\ WF_vars(Reload)

----------------------------------------------------------------------------
(* The variables have their types; the storage engine lags behind the
   configuration only inside change_key. *)
TypeOK ==
  /\ {up, dirty, unseen, blind, touched, overlap, forgotten} \subseteq BOOLEAN
  /\ data \subseteq Writes /\ promised \subseteq Writes /\ insured \subseteq Writes
  /\ {cfgKey, storageKey, walKey} \subseteq IF up THEN Keys ELSE {None}
  /\ file \in ContentType
  /\ log \in Seq([key : Keys, write : Writes])
  /\ pc \in [Threads -> {"idle", "storage", "mark", "save", "replace", "clear"}]
  /\ given \in [Callers -> Keys \cup {None}] /\ raw \in [Threads -> ContentType]
  /\ backups \subseteq [name : Nat, mtime : 1 .. begun, bytes : ContentType]
  /\ bstep \in {"wait", "write", "prune"} /\ snapshot \in ContentType
  /\ reused \in BOOLEAN /\ {begun, since, events} \subseteq Nat

(* What a start-up with key k and no failed read makes of the files. *)
Recovered(k) == (IF Opens(file, k) THEN Loaded(file) ELSE {}) \cup Replayed(k)

(* As long as one key reads state.rdb and every frame of the WAL, and no process
   has replaced what it could not read of either, opening with that key brings
   back every answered write: whatever crashes, saves, reloads and restored
   backups came in between (__init__, change_key, _flush_to_disk). *)
SyncedSurvives ==
  \A k \in Keys :
    ~forgotten /\ Opens(file, k) /\ Legible(k) =>
      promised \subseteq Recovered(k)

(* When change_key has returned, and no save of another thread overlapped it,
   state.rdb is under the new key, which the next open needs (change_key). *)
RotationComplete ==
  up /\ ~blind /\ ~overlap /\ (\A t \in Threads : pc[t] = "idle") =>
    storageKey = cfgKey /\ Opens(file, cfgKey)

(* A process that could not load state.rdb leaves it alone until it is given a call
   that changes data, or has replayed something.  A call that is refused ends that
   too: the next save replaces state.rdb, although there is nothing to keep
   (_load_with_retry, process, _periodic_save). *)
UntouchedKept ==
  [][up /\ blind /\ ~touched /\ ~touched' => file' = file]_vars

(* A process that could not load although its key is right loads in the end,
   unless a call came first that changes data, even one that is refused: the
   watcher finds a modification time it has not seen (_file_on_change). *)
BlindHeals ==
  (up /\ blind /\ ~touched /\ Opens(file, storageKey)) ~> (~blind \/ touched \/ ~up)

(* What the last backup of a sound process holds stays restorable while fewer
   than keep_count backups were begun since, whether they were of an emptied
   database or cut off by a crash, unless a name was used twice (_do_backup,
   _prune). *)
Insured ==
  since < KeepCount /\ ~reused =>
    insured = {} \/ \E b \in backups : b.bytes # None /\ b.bytes.data = insured

============================================================================
