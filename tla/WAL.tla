-------------------------------- MODULE WAL --------------------------------
(***************************************************************************)
(* The write-ahead log of polarysdb/modules/wal.py.  append() only buffers *)
(* an entry in memory; flush(), run by the wal-sync thread and by close(), *)
(* takes the whole buffer, writes one frame per entry with two write()     *)
(* calls each (header, payload) and fsyncs once at the end.  read_all()    *)
(* stops at the first frame it cannot accept, and the file is emptied only *)
(* by the checkpoint at start-up, when at least one entry was read back.   *)
(*                                                                         *)
(* A frame is the entry it carries, or Torn when its bytes do not hold a   *)
(* whole frame.  Bytes, CRC and AES-GCM are abstracted to that verdict.    *)
(***************************************************************************)
EXTENDS Naturals, Sequences, FiniteSets

CONSTANTS
  Entry,        \* what append() can be given
  Unencodable,  \* entries whose value _encode_wal_entry cannot serialise
  Oversized,    \* entries whose frame is larger than read_all accepts
  Flushers,     \* threads that may call flush()
  Torn,         \* the content of a frame that read_all rejects
  TornWrites    \* a crash can leave the first bytes of a frame in the file

ASSUME WALAssumption ==
  /\ Unencodable \subseteq Entry
  /\ Oversized \subseteq Entry
  /\ Torn \notin Entry
  /\ TornWrites \in BOOLEAN

VARIABLES
  buffered,  \* _pending: entries appended and not yet taken by a flush
  taken,     \* taken[f]: to_write of the flush that f is running
  step,      \* step[f]: where f is in flush()
  header,    \* header[f]: index of the frame whose header f wrote last
  file,      \* the frames in the file, in file order
  synced,    \* how many of them the last fsync covered
  open       \* the file object is open

walVars == <<buffered, taken, step, header, file, synced, open>>

Steps == {"idle", "header", "payload", "fsync"}

----------------------------------------------------------------------------
(* The log as a sequence. *)

(* read_all keeps a frame whose length, CRC, key and payload it accepts. *)
Readable(frame) == frame # Torn /\ frame \notin Oversized

(* read_all: the frames before the first one that is not readable. *)
ReadAll(frames) ==
  LET kept == {i \in DOMAIN frames : \A j \in 1 .. i : Readable(frames[j])}
  IN  SubSeq(frames, 1, Cardinality(kept))

(* A freshly opened file object: nothing buffered, no flush running. *)
FileOpened ==
  /\ buffered' = <<>>
  /\ taken' = [f \in Flushers |-> <<>>]
  /\ step' = [f \in Flushers |-> "idle"]
  /\ header' = [f \in Flushers |-> 0]
  /\ open' = TRUE

WALInit ==
  /\ buffered = <<>>
  /\ taken = [f \in Flushers |-> <<>>]
  /\ step = [f \in Flushers |-> "idle"]
  /\ header = [f \in Flushers |-> 0]
  /\ file = <<>>
  /\ synced = 0
  /\ open = TRUE

----------------------------------------------------------------------------
(* append *)

AppendEntry(e) ==
  /\ buffered' = Append(buffered, e)
  /\ UNCHANGED <<taken, step, header, file, synced, open>>

(* Mutated form: the buffer is copied and not emptied. *)
KeepBuffer == buffered

EmptyBuffer == <<>>

(* flush, first half: take everything that is buffered, under the WAL lock.
   An empty buffer makes flush return at once: no step. *)
FlushTake(f) ==
  /\ step[f] = "idle"
  /\ buffered # <<>>
  /\ taken' = [taken EXCEPT ![f] = buffered]
  /\ buffered' = EmptyBuffer
  /\ step' = [step EXCEPT ![f] = "header"]
  /\ UNCHANGED <<header, file, synced, open>>

(* _write_frame, first write(): the header alone is not a frame. *)
WriteHeader(f) ==
  /\ step[f] = "header"
  /\ open /\ Head(taken[f]) \notin Unencodable
  /\ file' = Append(file, Torn)
  /\ header' = [header EXCEPT ![f] = Len(file) + 1]
  /\ step' = [step EXCEPT ![f] = "payload"]
  /\ UNCHANGED <<buffered, taken, synced, open>>

(* _write_frame, second write(): it completes the frame only if nobody wrote
   to the file since the header. *)
WritePayload(f) ==
  /\ step[f] = "payload"
  /\ open
  /\ file' = IF header[f] = Len(file)
             THEN [file EXCEPT ![header[f]] = Head(taken[f])]
             ELSE Append(file, Torn)
  /\ taken' = [taken EXCEPT ![f] = Tail(@)]
  /\ step' = [step EXCEPT ![f] = IF Len(taken[f]) = 1 THEN "fsync" ELSE "header"]
  /\ UNCHANGED <<buffered, header, synced, open>>

Fsync(f) ==
  /\ step[f] = "fsync"
  /\ open
  /\ synced' = Len(file)
  /\ step' = [step EXCEPT ![f] = "idle"]
  /\ UNCHANGED <<buffered, taken, header, file, open>>

(* flush raises in the middle of its loop, because an entry cannot be encoded
   or the file was closed: the rest of what it had taken is gone, and what it
   wrote is not fsynced. *)
FlushRaises(f) ==
  /\ \/ step[f] = "header" /\ Head(taken[f]) \in Unencodable
     \/ step[f] # "idle" /\ ~open
  /\ taken' = [taken EXCEPT ![f] = <<>>]
  /\ step' = [step EXCEPT ![f] = "idle"]
  /\ UNCHANGED <<buffered, header, file, synced, open>>

FlushStep(f) ==
  WriteHeader(f) \/ WritePayload(f) \/ Fsync(f) \/ FlushRaises(f)

(* close, after its flush: _file.close(). *)
CloseFile ==
  /\ open
  /\ open' = FALSE
  /\ UNCHANGED <<buffered, taken, step, header, file, synced>>

(* truncate: the file is emptied and reopened. *)
Truncate ==
  /\ file' = <<>>
  /\ synced' = 0
  /\ UNCHANGED <<buffered, taken, step, header, open>>

(* Mutated form: write() without fsync. *)
NothingSafe == 0

SafeFrames == synced

(* The machine stops.  What was fsynced stays; of the rest some prefix
   survives and, with TornWrites, perhaps part of the next frame. *)
LoseUnsynced ==
  \E n \in SafeFrames .. Len(file) :
    \/ /\ TornWrites \/ \A i \in synced + 1 .. n : file[i] # Torn
       /\ file' = SubSeq(file, 1, n)
    \/ /\ TornWrites /\ n < Len(file)
       /\ file' = Append(SubSeq(file, 1, n), Torn)

WALTypeOK ==
  /\ buffered \in Seq(Entry)
  /\ taken \in [Flushers -> Seq(Entry)]
  /\ step \in [Flushers -> Steps]
  /\ header \in [Flushers -> Nat]
  /\ file \in Seq(Entry \cup {Torn})
  /\ synced \in Nat
  /\ open \in BOOLEAN

============================================================================
