------------------------- MODULE KeyRotationProofs -------------------------
(***************************************************************************)
(* Proofs about key rotation, failed loads and backups (module             *)
(* KeyRotation), for any keys, records, callers and bounds.                *)
(*                                                                         *)
(* The type invariant is inductive.  The others need what the threads are  *)
(* in the middle of: SurvivalInv, that state.rdb, the tables in memory and *)
(* what a thread has serialised each hold, with the frames of the WAL,     *)
(* every answered write; RotationInv, that a change of the key which was   *)
(* not overlapped still has its save ahead while state.rdb is under        *)
(* another key; IdleInv, that a process that has not touched anything has  *)
(* no save ahead; InsuredInv, that the newest sound backup is as many      *)
(* files behind the last one as were begun since.                          *)
(***************************************************************************)
EXTENDS KeyRotation, SequenceTheorems, FiniteSetTheorems, TLAPS

Labels == {"idle", "storage", "mark", "save", "replace", "clear"}

Frames == [key : Keys, write : Writes]

(* A change of the key has a key, and a backup has a snapshot. *)
Underway ==
  /\ \A c \in Callers : pc[c] = "storage" => given[c] # None
  /\ bstep = "write" => snapshot # None
  /\ \A t \in Threads : pc[t] = "replace" => raw[t] # None

TypeInv == TypeOK /\ Underway

----------------------------------------------------------------------------
(* What is read is made of records that were written. *)
LEMMA ReadTypes ==
  ASSUME TypeOK, NEW k, NEW f \in ContentType, NEW loads \in BOOLEAN
  PROVE  /\ Loaded(f) \subseteq Writes
         /\ Replayed(k) \subseteq Writes
         /\ f = file => Started(k, loads) \subseteq Writes
<1>1. Loaded(f) \subseteq Writes
  BY DEF Loaded, ContentType, Contents
<1>2. Replayed(k) \subseteq Writes
  <2>1. log \in Seq(Frames)
    BY DEF TypeOK, Frames
  <2>2. log \in [1 .. Len(log) -> Frames] /\ DOMAIN log = 1 .. Len(log)
    BY <2>1, LenProperties
  <2>3. \A i \in DOMAIN log : log[i] \in Frames
    BY <2>2
  <2> QED BY <2>3 DEF Replayed, Frames
<1> QED BY <1>1, <1>2 DEF Started

(* The steps of a backup keep the files of the backup directory well formed. *)
LEMMA BackupTypes ==
  ASSUME TypeOK, NEW bytes \in ContentType,
         B!BeginBackup(bytes) \/ B!WriteFile \/ B!Prune
  PROVE  /\ backups' \subseteq [name : Nat, mtime : 1 .. begun', bytes : ContentType]
         /\ bstep' \in {"wait", "write", "prune"} /\ snapshot' \in ContentType
         /\ reused' \in BOOLEAN /\ begun' \in Nat
<1> USE DEF TypeOK
<1>0. begun \in Nat
  OBVIOUS
<1>1. CASE B!BeginBackup(bytes)
  <2>1. PICK name \in {b.name : b \in backups} \cup {begun + 1} :
          /\ backups' = (backups \ B!FileNamed(name))
                          \cup {[name |-> name, mtime |-> begun', bytes |-> None]}
          /\ reused' = (reused \/ B!FileNamed(name) # {})
    BY <1>1 DEF B!BeginBackup
  <2>2. begun' = begun + 1 /\ snapshot' = bytes /\ bstep' = "write"
    BY <1>1 DEF B!BeginBackup
  <2>3. name \in Nat /\ None \in ContentType
    BY <1>0 DEF ContentType
  <2>4. 1 .. begun \subseteq 1 .. begun' /\ begun' \in 1 .. begun'
    BY <1>0, <2>2
  <2> QED BY <1>0, <2>1, <2>2, <2>3, <2>4
<1>2. CASE B!WriteFile
  <2>1. \A b \in backups : [b EXCEPT !.bytes = snapshot]
                             \in [name : Nat, mtime : 1 .. begun, bytes : ContentType]
    OBVIOUS
  <2> QED BY <1>2, <2>1 DEF B!WriteFile, ContentType
<1>3. CASE B!Prune
  BY <1>3 DEF B!Prune
<1> QED BY <1>1, <1>2, <1>3

----------------------------------------------------------------------------
(* The type invariant. *)

LEMMA InitType == Init => TypeInv
<1> SUFFICES ASSUME Init PROVE TypeInv
  OBVIOUS
<1>1. Loaded(file) \subseteq Writes
  BY DEF Init, Loaded, ContentType, Contents
<1>2. <<>> \in Seq(Frames)
  BY EmptySeq
<1>3. None \in ContentType
  BY DEF ContentType
<1>4. /\ backups \subseteq [name : Nat, mtime : 1 .. begun, bytes : ContentType]
      /\ bstep = "wait" /\ snapshot \in ContentType
      /\ reused \in BOOLEAN /\ {begun, since, events} \subseteq Nat
  <2>1. begun = 0 /\ since = 0 /\ events = 0 /\ backups = {}
    BY DEF Init, B!BackupInit
  <2>2. bstep = "wait" /\ snapshot = None /\ reused = FALSE
    BY DEF Init, B!BackupInit
  <2>3. backups \subseteq [name : Nat, mtime : 1 .. begun, bytes : ContentType]
    BY <2>1
  <2>4. {begun, since, events} \subseteq Nat
    BY <2>1
  <2> QED BY <1>3, <2>2, <2>3, <2>4
<1>5. /\ pc \in [Threads -> Labels] /\ given \in [Callers -> Keys \cup {None}]
      /\ raw \in [Threads -> ContentType]
      /\ \A t \in Threads : pc[t] = "idle"
  BY <1>3 DEF Init, Labels
<1>6. Underway
  BY <1>4, <1>5 DEF Underway, Threads
<1> QED BY <1>1, <1>2, <1>4, <1>5, <1>6 DEF Init, TypeInv, TypeOK, Frames, Labels

(* Starts, ends and the steps of single threads. *)
LEMMA StepType == TypeInv /\ Next => TypeInv'
<1> SUFFICES ASSUME TypeOK, Underway, Next PROVE TypeOK' /\ Underway'
  BY DEF TypeInv
<1> USE DEF memory, threads, history, insurance, backup
<1>0. log \in Seq(Frames)
  BY DEF TypeOK, Frames
<1>1. ASSUME NEW k \in Keys, NEW loads \in BOOLEAN, Open(k, loads) PROVE TypeOK' /\ Underway'
  <2>1. data' \subseteq Writes
    BY <1>1, ReadTypes DEF Open, TypeOK
  <2>2. file' \in ContentType
    BY <1>1, <2>1 DEF Open, TypeOK, ContentType, Contents
  <2>3. log' \in Seq(Frames)
    BY <1>0, <1>1, EmptySeq DEF Open
  <2>4. {unseen', forgotten', touched', blind'} \subseteq BOOLEAN
    BY <1>1 DEF Open, TypeOK, UnseenAfter, Checkpointed, Legible
  <2>5. events' \in Nat
    BY <1>1 DEF Open, TypeOK
  <2>6. Underway'
    BY <1>1 DEF Open, Underway
  <2> QED BY <1>1, <2>1, <2>2, <2>3, <2>4, <2>5, <2>6 DEF Open, TypeOK, Frames
<1>2. ASSUME Ended, file' \in ContentType, forgotten' \in BOOLEAN PROVE TypeOK' /\ Underway'
  <2>1. /\ pc' \in [Threads -> Labels] /\ given' \in [Callers -> Keys \cup {None}]
        /\ raw' \in [Threads -> ContentType]
        /\ \A t \in Threads : pc'[t] = "idle"
    BY <1>2 DEF Ended, Labels, ContentType
  <2>2. Underway'
    BY <1>2, <2>1 DEF Ended, B!BackupCrash, Underway, Threads
  <2>3. /\ bstep' = "wait" /\ snapshot' \in ContentType
        /\ UNCHANGED <<backups, begun, reused>>
    BY <1>2 DEF Ended, B!BackupCrash, ContentType
  <2> QED BY <1>2, <2>1, <2>2, <2>3 DEF Ended, TypeOK, Labels
<1>3. CASE Crash
  BY <1>2, <1>3 DEF Crash, TypeOK
<1>4. CASE Close
  BY <1>2, <1>4 DEF Close, TypeOK, Serialized, ContentType, Contents
<1>5. ASSUME NEW w \in Writes, Write(w) PROVE TypeOK' /\ Underway'
  <2>1. log' \in Seq(Frames) /\ events' \in Nat
    BY <1>0, <1>5 DEF Write, TypeOK, Frames
  <2> QED BY <1>5, <2>1 DEF Write, TypeOK, Frames, Underway
<1>51. CASE WriteRefused
  <2>1. events' \in Nat
    BY <1>51 DEF WriteRefused, TypeOK
  <2> QED BY <1>51, <2>1 DEF WriteRefused, TypeOK, Underway
<1>6. ASSUME NEW t \in Threads, up, FlushSerialize(t) PROVE TypeOK' /\ Underway'
  <2>1. Serialized \in Contents /\ Serialized # None
    BY <1>6, KeyRotationAssumption DEF TypeOK, Serialized, Contents
  <2> QED BY <1>6, <2>1 DEF FlushSerialize, TypeOK, ContentType, Underway
<1>7. ASSUME NEW t \in Threads, FlushReplace(t) PROVE TypeOK' /\ Underway'
  <2>1. forgotten' \in BOOLEAN /\ file' \in ContentType /\ raw' \in [Threads -> ContentType]
    BY <1>7 DEF FlushReplace, TypeOK, ContentType
  <2>2. Underway'
    BY <1>7 DEF FlushReplace, TypeOK, Underway, Threads
  <2> QED BY <1>7, <2>1, <2>2 DEF FlushReplace, TypeOK
<1>71. ASSUME NEW t \in Threads, FlushClear(t) PROVE TypeOK' /\ Underway'
  BY <1>71 DEF FlushClear, TypeOK, Underway, Threads
<1>8. CASE Reload
  BY <1>8, ReadTypes DEF Reload, TypeOK, Underway
<1>9. ASSUME NEW c \in Callers, NEW new \in Keys, ChangeKey(c, new) PROVE TypeOK' /\ Underway'
  <2>1. events' \in Nat /\ overlap' \in BOOLEAN
    BY <1>9 DEF ChangeKey, TypeOK
  <2>2. new # None
    BY KeyRotationAssumption
  <2> QED BY <1>9, <2>1, <2>2 DEF ChangeKey, TypeOK, Threads, Underway
<1>10. ASSUME NEW c \in Callers, UpdateKey(c) PROVE TypeOK' /\ Underway'
  <2>1. storageKey' \in Keys /\ overlap' \in BOOLEAN
    BY <1>10 DEF UpdateKey, NewKey, TypeOK, Underway
  <2> QED BY <1>10, <2>1 DEF UpdateKey, TypeOK, Threads, Underway
<1>101. ASSUME NEW c \in Callers, MarkDirty(c) PROVE TypeOK' /\ Underway'
  BY <1>101 DEF MarkDirty, TypeOK, Threads, Underway
<1>11. ASSUME NEW c \in Callers, NEW b \in backups, Import(c, b) PROVE TypeOK' /\ Underway'
  <2>1. b.bytes.data \subseteq Writes
    BY <1>11 DEF Import, TypeOK, ContentType, Contents
  <2>2. events' \in Nat
    BY <1>11 DEF Import, TypeOK
  <2> QED BY <1>11, <2>1, <2>2 DEF Import, TypeOK, Threads, Underway
<1>12. CASE BackupBegin
  <2>1. Serialized \in ContentType /\ Serialized # None
    BY <1>12, KeyRotationAssumption DEF BackupBegin, TypeOK, Serialized, Contents, ContentType
  <2>2. since' \in Nat /\ events' \in Nat /\ snapshot' = Serialized
    BY <1>12 DEF BackupBegin, B!BeginBackup, TypeOK
  <2> QED BY <1>12, <2>1, <2>2, BackupTypes DEF BackupBegin, TypeOK, Underway
<1>13. CASE BackupWrite
  <2>1. insured' \subseteq Writes /\ since' \in Nat
    BY <1>13 DEF BackupWrite, B!WriteFile, TypeOK, Underway, ContentType, Contents
  <2>2. bstep' = "prune" /\ None \in ContentType
    BY <1>13 DEF BackupWrite, B!WriteFile, ContentType
  <2> QED BY <1>13, <2>1, <2>2, BackupTypes DEF BackupWrite, TypeOK, Underway
<1>14. CASE BackupPrune
  <2>1. bstep' = "wait" /\ None \in ContentType
    BY <1>14 DEF BackupPrune, B!Prune, ContentType
  <2> QED BY <1>14, <2>1, BackupTypes DEF BackupPrune, TypeOK, Underway
<1> QED BY <1>1, <1>3, <1>4, <1>5, <1>51, <1>6, <1>7, <1>71, <1>8, <1>9, <1>10, <1>101, <1>11,
           <1>12, <1>13, <1>14
        DEF Next, SaverWakes, CallerSaves, Threads

(* Steps that change nothing. *)
LEMMA StutterType == TypeInv /\ UNCHANGED vars => TypeInv'
BY DEF vars, memory, threads, history, insurance, backup, TypeInv, TypeOK, Underway

(* The type invariant of key rotation: in particular the storage engine has a key
   whenever a process runs, and what is in a file came from the storage engine. *)
THEOREM TypeCorrect == Spec => []TypeOK
<1>1. TypeInv => TypeOK
  BY DEF TypeInv
<1> QED BY <1>1, InitType, StepType, StutterType, PTL DEF Spec

----------------------------------------------------------------------------
(* Answered writes survive. *)

LogWrites == {log[i].write : i \in DOMAIN log}

SurvivalInv ==
  /\ ~up => \A t \in Threads : pc[t] = "idle"
  /\ ~forgotten =>
       /\ promised \subseteq Loaded(file) \cup LogWrites
       /\ up /\ ~blind => promised \subseteq data \cup LogWrites
       /\ \A t \in Threads :
            pc[t] = "replace" /\ ~blind => promised \subseteq raw[t].data \cup LogWrites

(* Under the key of all its frames the whole WAL is replayed. *)
LEMMA LegibleReplay ==
  ASSUME TypeOK, NEW k, Legible(k)
  PROVE  Replayed(k) = LogWrites
<1>1. DOMAIN log = 1 .. Len(log) /\ Len(log) \in Nat
  BY LenProperties DEF TypeOK
<1>2. ASSUME NEW i \in DOMAIN log, NEW j \in 1 .. i PROVE log[j].key = k
  BY <1>1 DEF Legible
<1>3. {i \in DOMAIN log : \A j \in 1 .. i : log[j].key = k} = DOMAIN log
  BY <1>2
<1> QED BY <1>3 DEF Replayed, LogWrites

LEMMA InitSurvival == Init => SurvivalInv
BY DEF Init, SurvivalInv, Threads

(* What loses a write that state.rdb and the WAL held is recorded as forgotten. *)
LEMMA StepSurvival == TypeInv /\ SurvivalInv /\ Next => SurvivalInv'
<1> SUFFICES ASSUME TypeOK, Underway, SurvivalInv, Next PROVE SurvivalInv'
  BY DEF TypeInv
<1> USE DEF memory, threads, history, insurance, backup
<1>0. UNCHANGED log => LogWrites' = LogWrites
  BY DEF LogWrites
<1>1. ASSUME NEW k \in Keys, NEW loads \in BOOLEAN, Open(k, loads) PROVE SurvivalInv'
  <2>1. up' /\ (\A t \in Threads : pc'[t] = "idle") /\ promised' = promised
    BY <1>1 DEF Open, SurvivalInv
  <2>2. CASE Checkpointed(k)
    <3>1. file' = [key |-> k, data |-> Started(k, loads)] /\ data' = Started(k, loads)
      BY <1>1, <2>2 DEF Open
    <3>2. ~forgotten' => ~forgotten /\ loads /\ Legible(k)
      BY <1>1, <2>2 DEF Open, TypeOK
    <3>3. ~forgotten' => Started(k, loads) = Loaded(file) \cup LogWrites
      BY <3>2, LegibleReplay DEF Started
    <3>4. None # [key |-> k, data |-> Started(k, loads)]
      BY <1>1, ReadTypes, KeyRotationAssumption DEF Started, Contents, TypeOK
    <3>5. Loaded(file)' = Started(k, loads)
      BY <3>1, <3>4 DEF Loaded
    <3> QED BY <2>1, <3>1, <3>2, <3>3, <3>5 DEF SurvivalInv
  <2>3. CASE ~Checkpointed(k)
    <3>1. UNCHANGED <<file, log, forgotten>> /\ data' = Started(k, loads) /\ blind' = ~loads
      BY <1>1, <2>3 DEF Open
    <3>2. Loaded(file)' = Loaded(file)
      BY <3>1 DEF Loaded
    <3>3. loads => Loaded(file) \subseteq data'
      BY <3>1 DEF Started
    <3> QED BY <1>0, <2>1, <3>1, <3>2, <3>3 DEF SurvivalInv
  <2> QED BY <2>2, <2>3
<1>2. CASE Crash
  <2>1. /\ UNCHANGED <<file, log, forgotten, promised>> /\ ~up'
        /\ \A t \in Threads : pc'[t] = "idle"
    BY <1>2 DEF Crash, Ended
  <2> QED BY <1>0, <2>1 DEF SurvivalInv, Loaded
<1>3. CASE Close
  <2>1. /\ UNCHANGED <<log, promised>> /\ ~up' /\ up
        /\ \A t \in Threads : pc'[t] = "idle"
    BY <1>3 DEF Close, Ended
  <2>2. CASE dirty
    <3>1. file' = Serialized /\ (~forgotten' => ~forgotten /\ ~blind)
      BY <1>3, <2>2 DEF Close, TypeOK
    <3>2. Serialized # None /\ Serialized.data = data
      BY <2>1, KeyRotationAssumption DEF Serialized, Contents, TypeOK
    <3> QED BY <1>0, <2>1, <3>1, <3>2 DEF SurvivalInv, Loaded
  <2>3. CASE ~dirty
    BY <1>0, <1>3, <2>1, <2>3 DEF Close, SurvivalInv, Loaded
  <2> QED BY <2>2, <2>3
<1>4. ASSUME NEW w \in Writes, Write(w) PROVE SurvivalInv'
  <2>1. LogWrites' = LogWrites \cup {w}
    <3> DEFINE frame == [key |-> walKey, write |-> w]
    <3>1. log \in Seq(Frames) /\ frame \in Frames /\ log' = Append(log, frame)
      BY <1>4 DEF Write, TypeOK, Frames
    <3>2. /\ DOMAIN log' = 1 .. Len(log) + 1 /\ DOMAIN log = 1 .. Len(log) /\ Len(log) \in Nat
          /\ log'[Len(log) + 1] = frame
          /\ \A i \in 1 .. Len(log) : log'[i] = log[i]
      BY <3>1, AppendProperties, LenProperties
    <3>3. DOMAIN log' = DOMAIN log \cup {Len(log) + 1}
      BY <3>2
    <3> QED BY <3>2, <3>3 DEF LogWrites
  <2>2. /\ UNCHANGED <<up, file, pc, raw, blind, forgotten>> /\ up
        /\ data' = data \cup {w} /\ promised' = promised \cup {w}
    BY <1>4 DEF Write
  <2> QED BY <2>1, <2>2 DEF SurvivalInv, Loaded
<1>5. ASSUME NEW t \in Threads, up, FlushSerialize(t) PROVE SurvivalInv'
  <2>1. /\ UNCHANGED <<up, data, blind, file, log, forgotten, promised>>
        /\ raw' = [raw EXCEPT ![t] = Serialized] /\ pc' = [pc EXCEPT ![t] = "replace"]
    BY <1>5 DEF FlushSerialize
  <2>2. pc \in [Threads -> Labels] /\ raw \in [Threads -> ContentType]
    BY DEF TypeOK, Labels
  <2>3. raw'[t].data = data
    BY <2>1, <2>2 DEF Serialized
  <2>4. \A s \in Threads \ {t} : pc'[s] = pc[s] /\ raw'[s] = raw[s]
    BY <2>1, <2>2
  <2> QED BY <1>0, <1>5, <2>1, <2>3, <2>4 DEF SurvivalInv, Loaded
<1>6. ASSUME NEW t \in Threads, FlushReplace(t) PROVE SurvivalInv'
  <2>1. /\ UNCHANGED <<up, data, blind, log, promised>> /\ up /\ pc[t] = "replace"
        /\ file' = raw[t] /\ (~forgotten' => ~forgotten /\ ~blind)
    BY <1>6 DEF FlushReplace, TypeOK
  <2>2. \A s \in Threads : pc'[s] = "replace" => pc[s] = "replace" /\ raw'[s] = raw[s]
    BY <1>6 DEF FlushReplace, TypeOK
  <2>3. ~forgotten' => promised \subseteq raw[t].data \cup LogWrites
    BY <2>1 DEF SurvivalInv
  <2>4. Loaded(file)' = raw[t].data
    BY <2>1 DEF Loaded, Underway
  <2> QED BY <1>0, <2>1, <2>2, <2>3, <2>4 DEF SurvivalInv
<1>7. ASSUME UNCHANGED <<up, data, blind, file, log, forgotten>>, promised' \subseteq promised,
             up, \A s \in Threads : pc'[s] = "replace" => pc[s] = "replace" /\ raw'[s] = raw[s]
      PROVE SurvivalInv'
  BY <1>0, <1>7 DEF SurvivalInv, Loaded
<1>8. CASE Reload
  BY <1>0, <1>8 DEF Reload, Reading, SurvivalInv, Loaded
<1>9. ASSUME NEW c \in Callers, NEW b \in backups, Import(c, b) PROVE SurvivalInv'
  <2>1. /\ up /\ UNCHANGED <<up, blind, file, log, forgotten>> /\ promised' \subseteq data'
        /\ promised' \subseteq promised
    BY <1>9 DEF Import
  <2>2. \A s \in Threads : pc'[s] # "replace"
    BY <1>9 DEF Import, Reading, TypeOK
  <2> QED BY <1>0, <2>1, <2>2 DEF SurvivalInv, Loaded
<1>10. ASSUME NEW t \in Threads, FlushClear(t) PROVE SurvivalInv'
  BY <1>7, <1>10 DEF FlushClear, TypeOK
<1>11. ASSUME NEW c \in Callers, NEW new \in Keys, ChangeKey(c, new) PROVE SurvivalInv'
  BY <1>7, <1>11 DEF ChangeKey, TypeOK
<1>12. ASSUME NEW c \in Callers, UpdateKey(c) \/ MarkDirty(c) PROVE SurvivalInv'
  BY <1>7, <1>12 DEF UpdateKey, MarkDirty, TypeOK
<1>13. CASE WriteRefused \/ BackupBegin \/ BackupWrite \/ BackupPrune
  <2>1. UNCHANGED <<up, data, blind, file, log, forgotten, promised, pc, raw>> /\ up
    BY <1>13 DEF WriteRefused, BackupBegin, BackupWrite, BackupPrune
  <2> QED BY <1>7, <2>1
<1> QED BY <1>1, <1>2, <1>3, <1>4, <1>5, <1>6, <1>8, <1>9, <1>10, <1>11, <1>12, <1>13
        DEF Next, SaverWakes, CallerSaves, Threads

LEMMA StutterSurvival == SurvivalInv /\ UNCHANGED vars => SurvivalInv'
BY DEF vars, memory, threads, history, SurvivalInv, Loaded, LogWrites

(* For any keys and any number of processes, rotations, restored backups and
   crashes: a start-up that can read what there is brings back every answered write,
   unless a process replaced what it could not read. *)
THEOREM NothingForgotten == Spec => []SyncedSurvives
<1>1. TypeInv /\ SurvivalInv => SyncedSurvives
  <2> SUFFICES ASSUME TypeOK, SurvivalInv, NEW k \in Keys,
                      ~forgotten, Opens(file, k), Legible(k)
               PROVE  promised \subseteq Recovered(k)
    BY DEF TypeInv, SyncedSurvives
  <2> QED BY LegibleReplay DEF SurvivalInv, Recovered
<1> QED BY <1>1, InitType, StepType, StutterType, InitSurvival, StepSurvival, StutterSurvival,
           PTL DEF Spec

----------------------------------------------------------------------------
(* A process that could not load. *)

IdleInv == ~up \/ ~touched => ~dirty /\ \A t \in Threads : pc[t] = "idle"

LEMMA InitIdle == Init => IdleInv
BY DEF Init, IdleInv, Threads

(* What makes the tables dirty or sends a thread to save touches something. *)
LEMMA StepIdle == TypeInv /\ IdleInv /\ Next => IdleInv'
<1> SUFFICES ASSUME TypeOK, IdleInv, Next PROVE IdleInv'
  BY DEF TypeInv
<1> USE DEF memory, threads, history
<1>1. ASSUME NEW k \in Keys, NEW loads \in BOOLEAN, Open(k, loads) PROVE IdleInv'
  BY <1>1 DEF Open, IdleInv
<1>2. CASE Crash \/ Close
  BY <1>2 DEF Crash, Close, Ended, IdleInv
<1>3. CASE WriteRefused \/ \E w \in Writes : Write(w)
  BY <1>3 DEF WriteRefused, Write, IdleInv, TypeOK
<1>4. ASSUME NEW t \in Threads, up, FlushSerialize(t), touched PROVE IdleInv'
  BY <1>4 DEF FlushSerialize, IdleInv
<1>5. ASSUME NEW t \in Threads, FlushReplace(t) \/ FlushClear(t) PROVE IdleInv'
  BY <1>5 DEF FlushReplace, FlushClear, IdleInv
<1>6. CASE Reload
  BY <1>6 DEF Reload, IdleInv
<1>7. ASSUME NEW c \in Callers, UpdateKey(c) \/ MarkDirty(c) PROVE IdleInv'
  <2>1. c \in Threads
    BY DEF Threads
  <2> QED BY <1>7, <2>1 DEF UpdateKey, MarkDirty, IdleInv
<1>8. ASSUME NEW c \in Callers, \/ \E new \in Keys : ChangeKey(c, new)
                                \/ \E b \in backups : Import(c, b)
      PROVE IdleInv'
  BY <1>8 DEF ChangeKey, Import, IdleInv
<1>9. CASE BackupBegin \/ BackupWrite \/ BackupPrune
  BY <1>9 DEF BackupBegin, BackupWrite, BackupPrune, IdleInv
<1>10. SaverWakes => touched
  BY DEF SaverWakes, SaveNeeded, IdleInv
<1>11. \A c \in Callers : CallerSaves(c) => touched
  BY DEF CallerSaves, IdleInv, Threads
<1> QED BY <1>1, <1>2, <1>3, <1>4, <1>5, <1>6, <1>7, <1>8, <1>9, <1>10, <1>11
        DEF Next, SaverWakes, CallerSaves, Threads

LEMMA StutterIdle == IdleInv /\ UNCHANGED vars => IdleInv'
BY DEF vars, memory, threads, history, IdleInv

(* For any keys, callers and bounds: as long as a process that could not load has
   replayed nothing and was given no call that changes data, applied or refused, no
   step of it changes state.rdb. *)
THEOREM UnreadFileKept == Spec => UntouchedKept
<1>1. TypeInv /\ IdleInv /\ [Next]_vars =>
        [up /\ blind /\ ~touched /\ ~touched' => file' = file]_vars
  <2> SUFFICES ASSUME TypeOK, IdleInv, Next, up, ~touched PROVE file' = file
    BY DEF TypeInv
  <2>1. ~dirty /\ \A t \in Threads : pc[t] = "idle"
    BY DEF IdleInv
  <2>2. ~Close \/ file' = file
    BY <2>1 DEF Close
  <2>3. \A t \in Threads : ~FlushReplace(t) /\ ~FlushClear(t)
    BY <2>1 DEF FlushReplace, FlushClear
  <2>4. ~SaverWakes
    BY <2>1 DEF SaverWakes, SaveNeeded
  <2>5. \A c \in Callers : ~UpdateKey(c) /\ ~MarkDirty(c) /\ ~CallerSaves(c)
    BY <2>1 DEF UpdateKey, MarkDirty, CallerSaves, Threads
  <2> QED BY <2>2, <2>3, <2>4, <2>5 DEF Next, Open, Crash, Write, WriteRefused, Reload,
                                        ChangeKey, Import, BackupBegin, BackupWrite, BackupPrune
<1> QED BY <1>1, InitType, StepType, StutterType, InitIdle, StepIdle, StutterIdle,
           PTL DEF Spec, UntouchedKept

----------------------------------------------------------------------------
(* A change of the key is complete when it returns. *)

Undisturbed == up /\ ~overlap

SaveAhead == \E t \in Threads : pc[t] \in {"mark", "save", "replace"}

RotationInv ==
  Undisturbed =>
    /\ (\A c \in Callers : pc[c] # "storage") => storageKey = cfgKey
    /\ \A c \in Callers : pc[c] = "storage" => given[c] = cfgKey
    /\ \A c, d \in Callers : pc[c] = "storage" /\ pc[d] = "storage" => c = d
    /\ \A t \in Threads : pc[t] = "replace" => raw[t].key = storageKey
    /\ blind \/ Opens(file, storageKey) \/ SaveAhead

LEMMA InitRotation == Init => RotationInv
BY DEF Init, RotationInv, Undisturbed

(* While one change of the key is in progress and no other save is, its own save is
   ahead. *)
LEMMA StepRotation == TypeInv /\ IdleInv /\ RotationInv /\ Next => RotationInv'
<1> SUFFICES ASSUME TypeOK, IdleInv, RotationInv, Next, Undisturbed'
             PROVE  RotationInv'
  BY DEF TypeInv, RotationInv
<1> USE DEF memory, threads, history, Undisturbed
<1>0. Callers \subseteq Threads /\ pc \in [Threads -> Labels]
  BY DEF TypeOK, Threads, Labels
<1>1. ASSUME NEW k \in Keys, NEW loads \in BOOLEAN, Open(k, loads) PROVE RotationInv'
  <2>1. \A t \in Threads : pc'[t] = "idle"
    BY <1>1 DEF Open, IdleInv
  <2>2. storageKey' = k /\ cfgKey' = k /\ (blind' \/ loads)
    BY <1>1 DEF Open
  <2>3. loads => Opens(file', k)
    <3>1. CASE Checkpointed(k)
      <4>1. file' = [key |-> k, data |-> data']
        BY <1>1, <3>1 DEF Open
      <4> QED BY <4>1 DEF Opens
    <3>2. CASE ~Checkpointed(k)
      BY <1>1, <3>2 DEF Open, Opens
    <3> QED BY <3>1, <3>2
  <2> QED BY <1>0, <2>1, <2>2, <2>3 DEF RotationInv, Opens
<1>2. CASE Crash \/ Close
  BY <1>2 DEF Crash, Close, Ended
<1>3. ASSUME Undisturbed, UNCHANGED <<cfgKey, storageKey, file, threads, blind>>
      PROVE RotationInv'
  BY <1>3 DEF RotationInv, Opens, SaveAhead
<1>4. ASSUME NEW t \in Threads, up, pc[t] \in {"idle", "save"}, FlushSerialize(t)
      PROVE RotationInv'
  <2>1. /\ UNCHANGED <<cfgKey, storageKey, file, given, blind>> /\ Undisturbed
        /\ pc'[t] = "replace" /\ \A s \in Threads \ {t} : pc'[s] = pc[s]
        /\ raw'[t].key = storageKey /\ \A s \in Threads \ {t} : raw'[s] = raw[s]
    BY <1>4 DEF FlushSerialize, Serialized, TypeOK
  <2> QED BY <1>0, <1>4, <2>1 DEF RotationInv, Opens, SaveAhead
<1>5. ASSUME NEW t \in Threads, FlushReplace(t) PROVE RotationInv'
  <2>1. /\ UNCHANGED <<cfgKey, storageKey, given>> /\ Undisturbed /\ file' = raw[t]
        /\ pc[t] = "replace" /\ pc'[t] = "clear" /\ \A s \in Threads \ {t} : pc'[s] = pc[s]
        /\ \A s \in Threads \ {t} : raw'[s] = raw[s]
    BY <1>5, <1>0 DEF FlushReplace, TypeOK
  <2>2. Opens(file', storageKey)
    BY <2>1 DEF RotationInv, Opens
  <2> QED BY <1>0, <2>1, <2>2 DEF RotationInv, Opens
<1>6. ASSUME NEW t \in Threads, FlushClear(t) PROVE RotationInv'
  <2>1. /\ UNCHANGED <<cfgKey, storageKey, file, given, blind, raw>> /\ Undisturbed
        /\ pc[t] = "clear" /\ pc'[t] = "idle" /\ \A s \in Threads \ {t} : pc'[s] = pc[s]
    BY <1>6, <1>0 DEF FlushClear
  <2> QED BY <1>0, <2>1 DEF RotationInv, Opens, SaveAhead
<1>7. CASE Reload
  BY <1>7, <1>0 DEF Reload, RotationInv, Opens
<1>8. ASSUME NEW c \in Callers, NEW new \in Keys, ChangeKey(c, new) PROVE RotationInv'
  <2>1. /\ UNCHANGED <<storageKey, file, blind, raw>> /\ Undisturbed
        /\ \A t \in Threads : pc[t] = "idle"
        /\ pc'[c] = "storage" /\ \A t \in Threads \ {c} : pc'[t] = "idle"
        /\ cfgKey' = new /\ given'[c] = new
    BY <1>8, <1>0 DEF ChangeKey, TypeOK
  <2>2. blind \/ Opens(file, storageKey)
    BY <2>1 DEF RotationInv, SaveAhead
  <2> QED BY <1>0, <2>1, <2>2 DEF RotationInv, Opens
<1>9. ASSUME NEW c \in Callers, UpdateKey(c) PROVE RotationInv'
  <2>1. /\ UNCHANGED cfgKey /\ Undisturbed /\ pc[c] = "storage" /\ storageKey' = given[c]
        /\ \A t \in Threads \ {c} : pc[t] = "idle"
        /\ pc'[c] = "mark" /\ \A t \in Threads \ {c} : pc'[t] = "idle"
    BY <1>9, <1>0 DEF UpdateKey, NewKey, TypeOK
  <2>2. storageKey' = cfgKey'
    BY <2>1 DEF RotationInv
  <2> QED BY <1>0, <2>1, <2>2 DEF RotationInv, SaveAhead
<1>10. ASSUME NEW c \in Callers, MarkDirty(c) \/ \E b \in backups : Import(c, b)
       PROVE RotationInv'
  <2>1. /\ UNCHANGED <<cfgKey, storageKey, file, given, blind, raw>> /\ Undisturbed
        /\ pc[c] \in {"idle", "mark"} /\ pc'[c] \in {"mark", "save"}
        /\ \A t \in Threads \ {c} : pc'[t] = pc[t]
    <3>1. CASE MarkDirty(c)
      BY <1>0, <3>1 DEF MarkDirty
    <3>2. ASSUME NEW b \in backups, Import(c, b) PROVE <2>1!1 /\ <2>1!2 /\ <2>1!3
      BY <1>0, <3>2 DEF Import
    <3> QED BY <1>10, <3>1, <3>2
  <2> QED BY <1>0, <2>1 DEF RotationInv, SaveAhead
<1>11. CASE \/ \E w \in Writes : Write(w)
            \/ WriteRefused \/ BackupBegin \/ BackupWrite \/ BackupPrune
  BY <1>3, <1>11 DEF Write, WriteRefused, BackupBegin, BackupWrite, BackupPrune
<1> QED BY <1>1, <1>2, <1>4, <1>5, <1>6, <1>7, <1>8, <1>9, <1>10, <1>11
        DEF Next, SaverWakes, CallerSaves, Threads

LEMMA StutterRotation == RotationInv /\ UNCHANGED vars => RotationInv'
BY DEF vars, memory, threads, history, RotationInv, Undisturbed, SaveAhead, Opens

(* For any keys and callers: when change_key has returned and nothing overlapped it,
   the key of the configuration reads state.rdb. *)
THEOREM RotationCompletes == Spec => []RotationComplete
<1>1. TypeInv /\ RotationInv => RotationComplete
  BY DEF TypeInv, RotationInv, RotationComplete, Undisturbed, SaveAhead, Threads
<1> QED BY <1>1, InitType, StepType, StutterType, InitIdle, StepIdle, StutterIdle,
           InitRotation, StepRotation, StutterRotation, PTL DEF Spec

----------------------------------------------------------------------------
(* Backups. *)

Insuring(b) == b.bytes # None /\ b.bytes.data = insured /\ b.mtime + since = begun

InsuredInv ==
  /\ \A a, b \in backups : a.mtime = b.mtime => a = b
  /\ bstep = "write" => since > 0 /\ \E b \in backups : b.mtime = begun
  /\ since < KeepCount /\ ~reused => insured = {} \/ \E b \in backups : Insuring(b)

(* Files have different modification times, so that between a file and the last
   backup there are no more files than backups were begun. *)
LEMMA NewerBounded ==
  ASSUME TypeOK, InsuredInv, NEW b \in backups
  PROVE  Cardinality(B!Newer(b)) \in Nat /\ Cardinality(B!Newer(b)) <= begun - b.mtime
<1> DEFINE later == b.mtime + 1 .. begun
           time  == [c \in B!Newer(b) |-> c.mtime]
<1>1. b.mtime \in Nat /\ begun \in Nat /\ b.mtime <= begun
  BY DEF TypeOK
<1>2. \A c \in B!Newer(b) : c \in backups /\ c.mtime \in later
  BY <1>1 DEF TypeOK, B!Newer
<1>3. time \in Injection(B!Newer(b), later)
  BY <1>2 DEF InsuredInv, Injection, IsInjective
<1>4. IsFiniteSet(later) /\ Cardinality(later) = begun - b.mtime
  <2>1. b.mtime + 1 \in Int /\ begun \in Int
    BY <1>1
  <2>2. IsFiniteSet(later)
        /\ Cardinality(later) = IF b.mtime + 1 > begun THEN 0 ELSE begun - (b.mtime + 1) + 1
    BY <2>1, FS_Interval
  <2> QED BY <1>1, <2>2
<1>5. IsFiniteSet(B!Newer(b)) /\ Cardinality(B!Newer(b)) <= Cardinality(later)
  BY <1>3, <1>4, FS_Injection
<1> QED BY <1>4, <1>5, FS_CardinalityType

LEMMA InitInsured == Init => InsuredInv
BY DEF Init, B!BackupInit, InsuredInv

LEMMA StepInsured == TypeInv /\ InsuredInv /\ Next => InsuredInv'
<1> SUFFICES ASSUME TypeOK, Underway, InsuredInv, Next PROVE InsuredInv'
  BY DEF TypeInv
<1> USE DEF insurance, backup
<1>0. /\ begun \in Nat /\ since \in Nat
      /\ \A b \in backups : b.mtime \in Nat /\ b.mtime <= begun
  BY DEF TypeOK
<1>1. ASSUME UNCHANGED <<insurance, backups, begun, reused>>, UNCHANGED bstep \/ bstep' = "wait"
      PROVE InsuredInv'
  BY <1>1 DEF InsuredInv, Insuring
<1>2. CASE Crash \/ Close
  BY <1>1, <1>2 DEF Crash, Close, Ended, B!BackupCrash
<1>3. CASE BackupBegin
  <2>1. PICK name \in {b.name : b \in backups} \cup {begun + 1} :
          /\ backups' = (backups \ B!FileNamed(name))
                          \cup {[name |-> name, mtime |-> begun', bytes |-> None]}
          /\ reused' = (reused \/ B!FileNamed(name) # {})
    BY <1>3 DEF BackupBegin, B!BeginBackup
  <2> DEFINE new == [name |-> name, mtime |-> begun', bytes |-> None]
  <2>2. begun' = begun + 1 /\ since' = since + 1 /\ insured' = insured
    BY <1>3 DEF BackupBegin, B!BeginBackup
  <2>3. backups' \subseteq backups \cup {new} /\ new \in backups' /\ new.mtime = begun + 1
    BY <2>1, <2>2
  <2>4. \A a, b \in backups' : a.mtime = b.mtime => a = b
    <3>1. \A b \in backups : b.mtime # new.mtime
      BY <1>0, <2>3
    <3> HIDE DEF new
    <3> QED BY <2>3, <3>1 DEF InsuredInv
  <2>5. ASSUME ~reused' PROVE ~reused /\ backups \subseteq backups'
    BY <2>1, <2>5 DEF TypeOK
  <2>6. \A b \in backups : Insuring(b) => Insuring(b)'
    BY <1>0, <2>2 DEF Insuring
  <2>7. since' < KeepCount => since < KeepCount
    BY <1>0, <2>2, KeyRotationAssumption
  <2>8. since' > 0
    BY <1>0, <2>2
  <2>9. since' < KeepCount /\ ~reused' => insured' = {} \/ \E b \in backups' : Insuring(b)'
    BY <2>2, <2>5, <2>6, <2>7 DEF InsuredInv
  <2>10. \E b \in backups' : b.mtime = begun'
    BY <2>2, <2>3
  <2> HIDE DEF new
  <2> QED BY <2>4, <2>8, <2>9, <2>10 DEF InsuredInv
<1>4. CASE BackupWrite
  <2> DEFINE After(b) == IF b.mtime = begun THEN [b EXCEPT !.bytes = snapshot] ELSE b
  <2>1. /\ backups' = {After(b) : b \in backups} /\ UNCHANGED <<begun, reused>>
        /\ bstep = "write" /\ bstep' = "prune" /\ snapshot # None
    BY <1>4 DEF BackupWrite, B!WriteFile, Underway
  <2>2. \A b \in backups : After(b) \in backups' /\ After(b).mtime = b.mtime
    BY <2>1 DEF TypeOK
  <2>3. \A b \in backups : b.mtime = begun => After(b).bytes = snapshot
    BY DEF TypeOK
  <2>4. \A a, b \in backups' : a.mtime = b.mtime => a = b
    <3>1. ASSUME NEW a \in backups, NEW b \in backups, After(a).mtime = After(b).mtime
          PROVE  a = b
      BY <2>2, <3>1 DEF InsuredInv
    <3> HIDE DEF After
    <3> QED BY <2>1, <3>1
  <2>5. CASE blind
    <3>1. UNCHANGED insurance /\ since > 0
      BY <1>4, <2>1, <2>5 DEF BackupWrite, InsuredInv
    <3>2. \A b \in backups : Insuring(b) => b \in backups' /\ Insuring(b)'
      BY <1>0, <2>1, <3>1 DEF Insuring
    <3> HIDE DEF After
    <3> QED BY <2>1, <2>4, <3>1, <3>2 DEF InsuredInv
  <2>6. CASE ~blind
    <3>1. insured' = snapshot.data /\ since' = 0
      BY <1>4, <2>6 DEF BackupWrite
    <3>2. PICK b \in backups : b.mtime = begun
      BY <2>1 DEF InsuredInv
    <3>3. After(b) \in backups' /\ After(b).bytes = snapshot /\ After(b).mtime = begun
      BY <2>2, <2>3, <3>2
    <3>4. \E f \in backups' : Insuring(f)'
      <4> HIDE DEF After
      <4> QED BY <1>0, <2>1, <3>1, <3>3 DEF Insuring
    <3> HIDE DEF After
    <3> QED BY <2>1, <2>4, <3>4 DEF InsuredInv
  <2> QED BY <2>5, <2>6
<1>5. CASE BackupPrune
  <2>1. /\ backups' = {b \in backups : B!Kept(b)} /\ UNCHANGED <<insurance, begun, reused>>
        /\ bstep' = "wait"
    BY <1>5 DEF BackupPrune, B!Prune
  <2>2. ASSUME NEW b \in backups, Insuring(b), since < KeepCount PROVE B!Kept(b)
    <3>1. begun - b.mtime = since
      BY <1>0, <2>2 DEF Insuring
    <3>2. Cardinality(B!Newer(b)) \in Nat /\ Cardinality(B!Newer(b)) <= since
      BY <2>2, <3>1, NewerBounded
    <3>3. B!Cardinality(B!Newer(b)) = Cardinality(B!Newer(b))
      BY DEF B!Cardinality, Cardinality
    <3> QED BY <1>0, <2>2, <3>2, <3>3, KeyRotationAssumption DEF B!Kept
  <2>3. since < KeepCount /\ ~reused => insured = {} \/ \E b \in backups' : Insuring(b)
    BY <2>1, <2>2 DEF InsuredInv
  <2>4. \A b \in backups : Insuring(b) => Insuring(b)'
    BY <2>1 DEF Insuring
  <2> QED BY <2>1, <2>3, <2>4 DEF InsuredInv
<1>6. CASE \/ \E k \in Keys, loads \in BOOLEAN : Open(k, loads)
           \/ \E w \in Writes : Write(w)
           \/ WriteRefused
           \/ \E t \in Threads : FlushSerialize(t) \/ FlushReplace(t) \/ FlushClear(t)
           \/ Reload
           \/ \E c \in Callers : \/ \E new \in Keys : ChangeKey(c, new)
                                 \/ UpdateKey(c) \/ MarkDirty(c)
                                 \/ \E b \in backups : Import(c, b)
  BY <1>1, <1>6 DEF Open, Write, WriteRefused, FlushSerialize, FlushReplace, FlushClear, Reload,
                    ChangeKey, UpdateKey, MarkDirty, Import
<1> QED BY <1>2, <1>3, <1>4, <1>5, <1>6 DEF Next, SaverWakes, CallerSaves, Threads

LEMMA StutterInsured == InsuredInv /\ UNCHANGED vars => InsuredInv'
BY DEF vars, insurance, backup, InsuredInv, Insuring

(* For any keep_count and any crashes: pruning never takes the last backup of a
   process that was not blind before keep_count others were begun. *)
THEOREM BackupInsures == Spec => []Insured
<1>1. TypeInv /\ InsuredInv => Insured
  BY DEF InsuredInv, Insuring, Insured
<1> QED BY <1>1, InitType, StepType, StutterType, InitInsured, StepInsured, StutterInsured,
           PTL DEF Spec

=============================================================================
