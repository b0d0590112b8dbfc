------------------------------- MODULE Backup -------------------------------
(***************************************************************************)
(* The backups of polarysdb/modules/backup.py: a thread that, until stop,  *)
(* asks for a snapshot, writes it under a name that is the local time in   *)
(* seconds, and removes the oldest files beyond keep_count.  open(.., "wb")*)
(* empties a file of that name; a crash before write leaves it empty.      *)
(*                                                                         *)
(* Local time can repeat (shift): by two backups in a second, or when the  *)
(* clocks go back.  Modification times grow.                               *)
(***************************************************************************)
EXTENDS Naturals, FiniteSets

CONSTANTS
  KeepCount,   \* cfg.keep_count
  MaxBackups,  \* bound: backups begun
  NoBytes

VARIABLES
  backups,     \* the files in backup_dir: [name, mtime, bytes], bytes or NoBytes
  bstep,       \* the thread: "wait", "write", "prune"
  snapshot,    \* data of _do_backup
  begun,       \* history: backups begun; also the modification time of the next
  reused       \* history: a file was written under the name of another

backupVars == <<backups, bstep, snapshot, begun, reused>>

BackupInit ==
  /\ backups = {} /\ bstep = "wait" /\ snapshot = NoBytes
  /\ begun = 0 /\ reused = FALSE

(* strftime: the name is new, or one that exists. *)
FileNamed(name) == {b \in backups : b.name = name}

(* start waits for stop or the end of the interval. *)
IntervalOver == bstep = "wait" /\ begun < MaxBackups

(* snapshot_fn, and open: nobody sees what is in between. *)
BeginBackup(bytes) ==
  /\ IntervalOver
  /\ snapshot' = bytes
  /\ begun' = begun + 1
  /\ \E name \in {b.name : b \in backups} \cup {begun + 1} :
       /\ backups' = (backups \ FileNamed(name))
                       \cup {[name |-> name, mtime |-> begun', bytes |-> NoBytes]}
       /\ reused' = (reused \/ FileNamed(name) # {})
  /\ bstep' = "write"

(* f.write on the file opened last. *)
WriteFile ==
  /\ bstep = "write"
  /\ backups' = {IF b.mtime = begun THEN [b EXCEPT !.bytes = snapshot] ELSE b : b \in backups}
  /\ snapshot' = NoBytes
  /\ bstep' = "prune"
  /\ UNCHANGED <<begun, reused>>

(* Files newer than b. *)
Newer(b) == {c \in backups : c.mtime > b.mtime}

(* Mutated form: the file just written is not counted. *)
KeptButOne(b) == Cardinality(Newer(b)) < KeepCount - 1

Kept(b) == Cardinality(Newer(b)) < KeepCount

(* _prune: list_backups sorts by modification time, oldest first. *)
Prune ==
  /\ bstep = "prune"
  /\ backups' = {b \in backups : Kept(b)}
  /\ bstep' = "wait"
  /\ UNCHANGED <<snapshot, begun, reused>>

(* The process ends: what was opened and not written stays empty. *)
BackupCrash ==
  /\ bstep' = "wait" /\ snapshot' = NoBytes
  /\ UNCHANGED <<backups, begun, reused>>

============================================================================
