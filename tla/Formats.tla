------------------------------ MODULE Formats ------------------------------
(***************************************************************************)
(* What becomes of a value on its two ways to disk and back.  Each write   *)
(* goes to _data as the object it is and as an entry to the buffer of the  *)
(* WAL; a flush encodes the entries that are there, one after the other,   *)
(* and gives up at the first that has no encoding; a save writes all of    *)
(* _data to state.rdb as JSON; a start-up loads state.rdb, replays the WAL *)
(* over it and, if that yields something that can be saved, saves it and   *)
(* empties the WAL (polarysdb/database.py, polarysdb/modules/wal.py).      *)
(* Crashes and lost frames are the matter of module Database, two flushes  *)
(* at once that of WALSession: here a process ends when the buffer is      *)
(* flushed, every frame reaches the disk, and the tables exist.            *)
(***************************************************************************)
EXTENDS Encodings

CONSTANTS
  Entries,   \* WAL entries that callers may cause
  Unknown,   \* fields that this version does not know, varints or length-delimited
  Foreign,   \* fields of other wire types
  MaxLog,    \* bound: entries in the WAL and on their way there
  Absent,
  NoFile

OP_WRITE == 2

(* Numbers and lengths fit the words that hold them. *)
Fits(f) ==
  /\ f \in Field /\ 8 * f.field + f.wire < Word
  /\ f.wire = VARINT => -Word < f.n /\ f.n < Word
  /\ f.wire = LEN    => Len(f.payload) < Word

ASSUME EntriesAssumption ==
  \A e \in Entries :
    /\ e \in Entry /\ e.op = OP_WRITE /\ -Word < e.ts /\ e.ts < Word
    /\ encode_wal_entry(e) # Raised => Len(encode_wal_entry(e)) < Word

(* An unknown field is one that skip_field accepts, and has a number, or a wire
   type, that no known one has. *)
ASSUME UnknownAssumption ==
  \A u \in Unknown :
    /\ Fits(u)
    /\ u.wire = VARINT => u.field \notin {1, 6}
    /\ u.wire = LEN    => u.field \notin {2, 3, 4, 5, 7}

(* The other wire types of Protocol Buffers: fixed64, fixed32 and groups. *)
ASSUME ForeignAssumption ==
  \A u \in Foreign :
    /\ u.field \in Nat /\ u.wire \in (0..7) \ {VARINT, LEN} /\ u.payload \in Bytes
    /\ 8 * u.field + u.wire < Word

VARIABLES
  memory,    \* _data: place -> value or Absent
  pending,   \* _pending: entries
  batch,     \* to_write of the flush in progress: the entries it has still to write
  log,       \* polarysdb.wal: the frames, each with the entry it was made of
  disk,      \* state.rdb: place -> value or Absent, or NoFile
  last,      \* history: place -> the value written to it last; or, where a flush
             \*   dropped that, what the next start-up found there
  dropped    \* history: places whose last entry a flush dropped, unless saved since

vars == <<memory, pending, batch, log, disk, last, dropped>>

(* Table and key. *)
Place(e) == <<e.table, e.key>>

Places == {Place(e) : e \in Entries}

Nothing == [k \in Places |-> Absent]

ASSUME FormatsAssumption ==
  /\ MaxLog \in Nat
  /\ Absent \notin Value \cup {Raised}
  /\ NoFile \notin [Places -> Value \cup {Absent}]

(* serialize, up to encryption: the document of all of _data.  One value that
   has no JSON form and there is none. *)
Document(data) ==
  [k \in Places |-> IF data[k] = Absent THEN Absent ELSE Normalize[data[k]]]

CanSave(data) == \A k \in Places : Document(data)[k] # Raised

Decoded(i) == decode_wal_entry(log[i].frame)

(* read_all stops at the first entry that it cannot decode. *)
Readable == {n \in 1..Len(log) : \A i \in 1..n : Decoded(i) # Raised}

Writes(e, k) == e.op = OP_WRITE /\ Place(e) = k

Replayed(k) == {i \in Readable : Writes(Decoded(i), k)}

(* start-up: the snapshot and the log over it *)
Recovered ==
  [k \in Places |->
     CASE Replayed(k) # {} -> Decoded(Max(Replayed(k))).value
       [] Replayed(k) = {} /\ disk # NoFile -> disk[k]
       [] OTHER -> Absent]

Init ==
  /\ memory  = Nothing
  /\ pending = <<>> /\ batch = <<>> /\ log = <<>>
  /\ disk    = NoFile
  /\ last    = Nothing
  /\ dropped = {}

WithinBound == Len(pending) + Len(batch) + Len(log) < MaxLog

(* A write is applied and appended to the WAL. *)
Write(e) ==
  /\ WithinBound
  /\ memory'  = [memory EXCEPT ![Place(e)] = e.value]
  /\ pending' = Append(pending, e)
  /\ last'    = [last EXCEPT ![Place(e)] = e.value]
  /\ UNCHANGED <<batch, log, disk, dropped>>

(* flush takes all entries that are there. *)
FlushTakes ==
  /\ batch = <<>> /\ pending # <<>>
  /\ batch' = pending /\ pending' = <<>>
  /\ UNCHANGED <<memory, log, disk, last, dropped>>

Encodable(e) == encode_wal_entry(e) # Raised

(* _write_frame *)
FlushWrites ==
  /\ batch # <<>> /\ Encodable(Head(batch))
  /\ log'   = Append(log, [entry |-> Head(batch), frame |-> encode_wal_entry(Head(batch))])
  /\ batch' = Tail(batch)
  /\ dropped' = dropped \ {Place(Head(batch))}
  /\ UNCHANGED <<memory, pending, disk, last>>

(* Encoding raises, and with it flush: the entries behind are dropped too. *)
FlushRaises ==
  /\ batch # <<>> /\ ~Encodable(Head(batch))
  /\ batch' = <<>>
  /\ dropped' = dropped \cup {Place(batch[i]) : i \in DOMAIN batch}
  /\ UNCHANGED <<memory, pending, log, disk, last>>

(* _flush_to_disk.  What the log holds of a place goes over the snapshot again. *)
Save ==
  /\ CanSave(memory)
  /\ disk' = Document(memory)
  /\ dropped' = {k \in dropped : Replayed(k) # {}}
  /\ UNCHANGED <<memory, pending, batch, log, last>>

(* The process ends, its last save done or failed, and the next one starts. *)
Restart ==
  /\ pending = <<>> /\ batch = <<>>
  /\ memory' = Recovered
  /\ IF Readable # {} /\ CanSave(memory')
     THEN disk' = Document(memory') /\ log' = <<>>
     ELSE UNCHANGED <<disk, log>>
  /\ last' = [k \in Places |-> IF k \in dropped THEN memory'[k] ELSE last[k]]
  /\ dropped' = {}
  /\ UNCHANGED <<pending, batch>>

Next ==
  \/ \E e \in Entries : Write(e)
  \/ FlushTakes \/ FlushWrites \/ FlushRaises
  \/ Save
  \/ Restart

Spec == Init /\ [][Next]_vars

----------------------------------------------------------------------------
(* state.rdb holds JSON and nothing else, for no place that was never written
   (serialize, _normalize_for_json). *)
TypeOK ==
  /\ \A k \in Places : last[k] = Absent => memory[k] = Absent
  /\ disk # NoFile => \A k \in Places : disk[k] = Absent \/ (last[k] # Absent /\ disk[k] \in Json)
  /\ pending \in Seq(Entries) /\ batch \in Seq(Entries) /\ dropped \subseteq Places
  /\ \A i \in 1..Len(log) : log[i].entry \in Entries

(* The pairs that have a key. *)
IfNamed(pairs, p) == IF p[1] = <<>> THEN pairs ELSE Append(pairs, p)

Named(pairs) ==
  LET Upto[i \in 0..Len(pairs)] == IF i = 0 THEN <<>> ELSE IfNamed(Upto[i - 1], pairs[i])
  IN  Upto[Len(pairs)]

(* What a WAL entry should be after it was written and read: a container in
   its JSON form, a timestamp as the unsigned number its bits are, no
   metadata without a key. *)
AsLogged(e) ==
  [e EXCEPT !.value    = IF @ \in Leaf THEN @ ELSE Dumps[@],
            !.ts       = IF @ = 0 THEN Now ELSE @ % Word,
            !.metadata = Named(@)]

(* Every frame in the WAL decodes to the entry it was made of, however many
   groups its numbers take (_encode_wal_entry and _decode_wal_entry). *)
EntrySurvives ==
  \A i \in 1..Len(log) : Decoded(i) = AsLogged(log[i].entry)

encode_foreign(u) == encode_key(u.field, u.wire) \o u.payload

(* Fields that a later version adds, in front or behind, do not change what this
   one reads, provided that they are varints or length-delimited.  A field of any
   other wire type makes the entry undecodable, so that recovery stops there
   (skip_field, read_all). *)
UnknownFields ==
  \A i \in 1..Len(log) :
    /\ \A u \in Unknown :
         /\ decode_wal_entry(encode_field(u) \o log[i].frame) = Decoded(i)
         /\ decode_wal_entry(log[i].frame \o encode_field(u)) = Decoded(i)
    /\ \A u \in Foreign :
         /\ decode_wal_entry(encode_foreign(u) \o log[i].frame) = Raised
         /\ decode_wal_entry(log[i].frame \o encode_foreign(u)) = Raised

(* A value of plain JSON shape is read back unchanged, whichever way it took, over
   whatever else was written to its place before and whatever is at the other
   places, unless a flush dropped its entry, because that or one in front of it in
   the same batch had no encoding, and no save followed that outlives the WAL.  What
   the start-up found in its place, if plain, is then kept the same way (flush,
   _recover_from_wal, _flush_to_disk). *)
PlainKept ==
  \A k \in Places : last[k] # Absent /\ last[k] \in Json => memory[k] = last[k]

(* A value changes its form at most once, however often the database is saved and
   restarted: it is the object that was written, or its JSON form, or its JSON form
   with base64 text for bytes, and never the base64 text of that text; with the same
   exception (serialize_value, _normalize_for_json). *)
NeverReencoded ==
  \A k \in Places :
    last[k] # Absent => memory[k] \in {last[k], Dumps[last[k]], Normalize[last[k]]}

(* What a start-up recovers can always be saved: a value that blocks every
   save of the whole database does not outlive the process. *)
RestartSaves == [][Restart => CanSave(memory')]_vars

============================================================================
