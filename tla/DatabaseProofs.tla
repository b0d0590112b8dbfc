--------------------------- MODULE DatabaseProofs ---------------------------
(***************************************************************************)
(* Proofs about the database core (module Database) for any tables, keys   *)
(* and values, any size of the micro-batches and any number of operations  *)
(* and processes: its type invariant, with any imports and foreign saves,  *)
(* and, without those and without torn writes, what a crash, a recovery    *)
(* that is itself interrupted, and a clean close give back.                *)
(*                                                                         *)
(* TypeOK says more than that variables have their types: no record ever   *)
(* lands in a table that does not exist, in memory, in state.rdb or by a   *)
(* replay, because every write and delete is checked against the tables it *)
(* is applied to.  It is not inductive: the write-buffer thread, and a     *)
(* flush, must also have something left to work on where they take the     *)
(* first element.                                                          *)
(*                                                                         *)
(* What survives a crash rests on one idea.  Everything logged since the   *)
(* last truncation stands in one line: the frames in the file, what a      *)
(* flush has taken, what is buffered.  Whether state.rdb was saved before  *)
(* or after some operation of the line does not matter: an operation that  *)
(* is replayed again further on has no effect the first time (Absorbs), as *)
(* long as the replay skips nothing, that is, no write comes before the    *)
(* table exists.  So the line replayed over state.rdb, and over the tables *)
(* in memory, always gives what callers were told (LogInv).                *)
(***************************************************************************)
EXTENDS Database, FiniteSetTheorems, SequenceLemmas

BatchLeft ==
  /\ pc["worker"] = "apply" => batch # <<>>
  /\ pc["direct"] = "apply" => direct # <<>>
FlushLeft ==
  \A f \in Flushers :
    /\ step[f] \in {"header", "payload"} => taken[f] # <<>>
    /\ step[f] = "payload" => header[f] # 0

WALInv  == W!WALTypeOK /\ FlushLeft
TypeInv == TypeOK /\ BatchLeft /\ FlushLeft

----------------------------------------------------------------------------
(* Applying an operation to tables that it is applicable to gives tables. *)
LEMMA ApplyType ==
  ASSUME NEW d \in Snapshots, NEW op \in Op, Applicable(d, op)
  PROVE  Apply(d, op) \in Snapshots
<1>1. CASE op.type = "create"
  <2>1. op.table \in Tables
    BY DEF Op, CreateOp, RecordOp
  <2>2. [k \in Keys |-> Absent] \in TableData
    BY DEF TableData
  <2> QED BY <1>1, <2>1, <2>2 DEF Apply, Snapshots
<1>2. ASSUME op.type # "create", NEW v \in Vals \cup {Absent}
      PROVE  [d EXCEPT ![op.table][op.key] = v] \in Snapshots
  <2>1. op.table \in Tables /\ op.key \in Keys
    BY <1>2 DEF Op, CreateOp, RecordOp
  <2>2. d[op.table] \in TableData
    BY <1>2, <2>1 DEF Applicable, Snapshots
  <2>3. [d[op.table] EXCEPT ![op.key] = v] \in TableData
    BY <2>2 DEF TableData
  <2> QED BY <2>1, <2>3 DEF Snapshots
<1>3. CASE op.type = "write"
  <2>1. op.value \in Vals
    BY <1>3 DEF Op, CreateOp, RecordOp
  <2>2. op.type # "create" /\ Apply(d, op) = [d EXCEPT ![op.table][op.key] = op.value]
    BY <1>3 DEF Apply
  <2> QED BY <2>1, <2>2, <1>2
<1>4. CASE op.type = "delete"
  <2>1. op.type # "create" /\ Apply(d, op) = [d EXCEPT ![op.table][op.key] = Absent]
    BY <1>4 DEF Apply
  <2> QED BY <2>1, <1>2
<1>5. op.type \in {"create", "write", "delete"}
  BY DEF Op, CreateOp, RecordOp
<1> QED BY <1>1, <1>3, <1>4, <1>5

(* Creating the table first makes any operation on it applicable. *)
LEMMA ApplyCreatedType ==
  ASSUME NEW d \in Snapshots, NEW op \in Op
  PROVE  Apply(Apply(d, Create(op.table)), op) \in Snapshots
<1>1. op.table \in Tables
  BY DEF Op, CreateOp, RecordOp
<1>2. Create(op.table) \in Op /\ Applicable(d, Create(op.table))
  BY <1>1 DEF Create, Op, CreateOp, Applicable
<1>3. Apply(d, Create(op.table)) \in Snapshots
  BY <1>2, ApplyType
<1>4. Apply(d, Create(op.table))[op.table] # NoTable
  <2>1. [k \in Keys |-> Absent] # NoTable
    BY DatabaseAssumption DEF TableData
  <2> QED BY <1>1, <2>1 DEF Apply, Create, Snapshots
<1> QED BY <1>3, <1>4, ApplyType DEF Applicable

(* So does replaying any operation on any tables. *)
LEMMA ReplayOneType ==
  ASSUME NEW d \in Snapshots, NEW op \in Op
  PROVE  ReplayOne(d, op) \in Snapshots
BY ApplyType DEF ReplayOne

(* A batch or a commit is a sequence of operations that is not empty. *)
LEMMA ChangesType ==
  ASSUME NEW ops \in Changes
  PROVE  ops \in Seq(Op) /\ Len(ops) \in Nat /\ ops # <<>>
<1>1. PICK n \in 1 .. BatchMax : ops \in [1 .. n -> RecordOp]
  BY DEF Changes
<1>2. n \in Nat /\ n # 0
  BY DatabaseAssumption
<1>3. ops \in [1 .. n -> Op]
  BY <1>1 DEF Op
<1>4. ops \in Seq(Op) /\ Len(ops) = n
  BY <1>2, <1>3
<1> QED BY <1>2, <1>4, EmptySeq

(* Module WAL counts as this module does. *)
LEMMA SameCardinality == \A S : W!Cardinality(S) = Cardinality(S)
BY DEF W!Cardinality, Cardinality

(* What read_all returns are entries: the frames before the first one that it
   cannot read are as many as there are frames with no such frame up to them. *)
LEMMA ReadAllType ==
  ASSUME NEW frames \in Seq(Op \cup {Torn})
  PROVE  W!ReadAll(frames) \in Seq(Op)
<1> DEFINE kept == {i \in DOMAIN frames : \A j \in 1 .. i : W!Readable(frames[j])}
<1>1. Len(frames) \in Nat /\ DOMAIN frames = 1 .. Len(frames)
  BY LenProperties
<1>2. kept \subseteq 1 .. Len(frames)
  BY <1>1
<1>3. IsFiniteSet(kept) /\ Cardinality(kept) \in Nat /\ Cardinality(kept) <= Len(frames)
  <2>1. IsFiniteSet(1 .. Len(frames)) /\ Cardinality(1 .. Len(frames)) <= Len(frames)
    BY <1>1, FS_Interval
  <2>2. IsFiniteSet(kept) /\ Cardinality(kept) <= Cardinality(1 .. Len(frames))
    BY <1>2, <2>1, FS_Subset
  <2>3. Cardinality(kept) \in Nat /\ Cardinality(1 .. Len(frames)) \in Nat
    BY <2>1, <2>2, FS_CardinalityType
  <2> QED BY <2>1, <2>2, <2>3, <1>1
<1>4. ASSUME NEW i \in 1 .. Cardinality(kept) PROVE frames[i] \in Op
  <2>1. i \in 1 .. Len(frames)
    BY <1>1, <1>3
  <2>2. i \in kept
    <3> SUFFICES ASSUME i \notin kept PROVE FALSE
      OBVIOUS
    <3>1. kept \subseteq 1 .. i - 1
      <4> SUFFICES ASSUME NEW n \in kept, n > i - 1 PROVE FALSE
        BY <1>1, <1>2, <2>1
      <4>1. n \in Nat /\ i \in 1 .. n /\ \A j \in 1 .. n : W!Readable(frames[j])
        BY <1>1, <1>2, <2>1
      <4>2. \A j \in 1 .. i : W!Readable(frames[j])
        BY <4>1
      <4> QED BY <4>2, <1>1, <2>1
    <3>2. IsFiniteSet(1 .. i - 1) /\ Cardinality(1 .. i - 1) = i - 1
      <4>1. 1 \in Int /\ i - 1 \in Int /\ i - 1 - 1 + 1 = i - 1 /\ i >= 1
        BY <1>1, <2>1
      <4> HIDE DEF kept
      <4> QED BY <4>1, FS_Interval
    <3>3. Cardinality(kept) <= i - 1
      BY <3>1, <3>2, FS_Subset
    <3> QED BY <3>3, <1>3
  <2>3. W!Readable(frames[i])
    BY <2>1, <2>2
  <2>4. frames[i] \in Op \cup {Torn}
    BY <2>1, ElementOfSeq
  <2> QED BY <2>3, <2>4 DEF W!Readable
<1>5. W!ReadAll(frames) = SubSeq(frames, 1, Cardinality(kept))
  BY SameCardinality DEF W!ReadAll
<1> HIDE DEF kept
<1> QED BY <1>3, <1>4, <1>5, SubSeqProperties

----------------------------------------------------------------------------
(* The steps of the WAL. *)

(* The log starts empty. *)
LEMMA InitWAL == W!WALInit => WALInv
<1>1. <<>> \in Seq(Op)
  BY EmptySeq
<1>2. <<>> \in Seq(Op \cup {Torn})
  BY EmptySeq
<1> QED BY <1>1, <1>2 DEF W!WALInit, WALInv, W!WALTypeOK, W!Steps, FlushLeft

(* Steps that leave the log alone. *)
LEMMA SameWAL == WALInv /\ UNCHANGED wal => WALInv'
BY DEF wal, WALInv, W!WALTypeOK, FlushLeft

(* append *)
LEMMA AppendWAL ==
  ASSUME WALInv, NEW op \in Op, W!AppendEntry(op)
  PROVE  WALInv'
BY DEF W!AppendEntry, WALInv, W!WALTypeOK, FlushLeft

(* flush takes the buffer. *)
LEMMA TakeWAL ==
  ASSUME WALInv, NEW f \in Flushers, W!FlushTake(f)
  PROVE  WALInv'
<1>1. buffered' \in Seq(Op)
  BY EmptySeq DEF W!FlushTake, W!EmptyBuffer
<1>2. taken' \in [Flushers -> Seq(Op)] /\ step' \in [Flushers -> W!Steps]
  BY DEF W!FlushTake, WALInv, W!WALTypeOK, W!Steps
<1>3. FlushLeft'
  BY DEF W!FlushTake, WALInv, W!WALTypeOK, FlushLeft
<1> QED BY <1>1, <1>2, <1>3 DEF W!FlushTake, WALInv, W!WALTypeOK

(* The writes and the fsync of flush. *)
LEMMA StepWAL ==
  ASSUME WALInv, NEW f \in Flushers, W!FlushStep(f)
  PROVE  WALInv'
<1> USE DEF WALInv, W!WALTypeOK
<1>1. CASE W!WriteHeader(f)
  <2>1. file' \in Seq(Op \cup {Torn}) /\ header' \in [Flushers -> Nat]
    BY <1>1 DEF W!WriteHeader
  <2>2. step' \in [Flushers -> W!Steps] /\ FlushLeft'
    BY <1>1 DEF W!WriteHeader, W!Steps, FlushLeft
  <2> QED BY <1>1, <2>1, <2>2 DEF W!WriteHeader
<1>2. CASE W!WritePayload(f)
  <2>1. taken[f] \in Seq(Op) /\ taken[f] # <<>>
    BY <1>2 DEF W!WritePayload, FlushLeft
  <2>2. /\ Head(taken[f]) \in Op /\ Tail(taken[f]) \in Seq(Op)
        /\ Len(taken[f]) # 1 => Tail(taken[f]) # <<>>
    <3> DEFINE t == taken[f]
    <3>1. t \in Seq(Op) /\ t # <<>>
      BY <2>1
    <3> HIDE DEF t
    <3>2. Head(t) \in Op /\ Tail(t) \in Seq(Op) /\ Len(Tail(t)) = Len(t) - 1 /\ Len(t) \in Nat
      BY <3>1, HeadTailProperties, LenProperties
    <3>3. Len(t) # 1 => Tail(t) # <<>>
      <4>1. Tail(t) = <<>> => Len(Tail(t)) = 0
        BY EmptySeq
      <4>2. ASSUME NEW n \in Nat, n - 1 = 0 PROVE n = 1
        BY <4>2
      <4> HIDE DEF WALInv, W!WALTypeOK
      <4> QED BY <4>1, <4>2, <3>2, Z3
    <3>4. Head(t) \in Op /\ Tail(t) \in Seq(Op)
      BY <3>2
    <3> QED BY <3>3, <3>4 DEF t
  <2>3. file' \in Seq(Op \cup {Torn})
    <3>1. CASE header[f] = Len(file)
      <4>1. file' = [file EXCEPT ![Len(file)] = Head(taken[f])]
        BY <1>2, <3>1 DEF W!WritePayload
      <4>2. Len(file) \in 1 .. Len(file)
        BY <1>2, <3>1, LenProperties DEF W!WritePayload, FlushLeft
      <4>3. Head(taken[f]) \in Op \cup {Torn}
        BY <2>2
      <4> QED BY <4>1, <4>2, <4>3, ExceptSeq
    <3>2. CASE header[f] # Len(file)
      BY <1>2, <3>2 DEF W!WritePayload
    <3> QED BY <3>1, <3>2
  <2>4. taken' \in [Flushers -> Seq(Op)] /\ step' \in [Flushers -> W!Steps]
    BY <1>2, <2>2 DEF W!WritePayload, W!Steps
  <2>5. FlushLeft'
    BY <1>2, <2>2 DEF W!WritePayload, FlushLeft
  <2> QED BY <1>2, <2>3, <2>4, <2>5 DEF W!WritePayload
<1>3. CASE W!Fsync(f)
  <2>1. synced' \in Nat
    BY <1>3, LenProperties DEF W!Fsync
  <2> QED BY <1>3, <2>1 DEF W!Fsync, W!Steps, FlushLeft
<1>4. CASE W!FlushRaises(f)
  <2>1. taken' \in [Flushers -> Seq(Op)] /\ step' \in [Flushers -> W!Steps]
    BY <1>4, EmptySeq DEF W!FlushRaises, W!Steps
  <2>2. FlushLeft'
    BY <1>4 DEF W!FlushRaises, FlushLeft
  <2> QED BY <1>4, <2>1, <2>2 DEF W!FlushRaises
<1> QED BY <1>1, <1>2, <1>3, <1>4 DEF W!FlushStep

(* close and truncate *)
LEMMA RestWAL ==
  ASSUME WALInv, W!CloseFile \/ W!Truncate
  PROVE  WALInv'
<1>1. <<>> \in Seq(Op \cup {Torn})
  BY EmptySeq
<1>2. CASE W!CloseFile
  BY <1>2 DEF W!CloseFile, WALInv, W!WALTypeOK, FlushLeft
<1>3. CASE W!Truncate
  BY <1>1, <1>3 DEF W!Truncate, WALInv, W!WALTypeOK, FlushLeft
<1> QED BY <1>2, <1>3

(* A new process has nothing in memory, and what a crash leaves is a file. *)
LEMMA ReopenWAL ==
  ASSUME WALInv, W!FileOpened, synced' = synced, W!LoseUnsynced \/ file' = file
  PROVE  WALInv'
<1> USE DEF WALInv, W!WALTypeOK
<1>1. file' \in Seq(Op \cup {Torn})
  <2>1. CASE W!LoseUnsynced
    <3>1. PICK n \in synced .. Len(file) :
            file' = SubSeq(file, 1, n) \/ file' = Append(SubSeq(file, 1, n), Torn)
      BY <2>1 DEF W!LoseUnsynced, W!SafeFrames
    <3>2. n \in Int /\ \A i \in 1 .. n : file[i] \in Op \cup {Torn}
      BY LenProperties, ElementOfSeq
    <3>3. SubSeq(file, 1, n) \in Seq(Op \cup {Torn})
      BY <3>2, SubSeqProperties
    <3>4. Append(SubSeq(file, 1, n), Torn) \in Seq(Op \cup {Torn})
      BY <3>3, AppendProperties
    <3> QED BY <3>1, <3>3, <3>4
  <2> QED BY <2>1
<1>2. <<>> \in Seq(Op)
  BY EmptySeq
<1> QED BY <1>1, <1>2 DEF W!FileOpened, W!Steps, FlushLeft

----------------------------------------------------------------------------
(* The steps of the database.  Each proof has one step per action; what the
   action leaves alone is in the definition of its UNCHANGED tuples. *)

(* No thread starts in the middle of a batch. *)
LEMMA ThreadStartType ==
  /\ ThreadStart \in [Threads \cup {"direct", "importer", "closer"} ->
                         {"collect", "wait", "exit", "idle"}]
  /\ ThreadStart["worker"] = "collect" /\ ThreadStart["direct"] = "idle"
BY DEF ThreadStart, Threads

Labels == {"collect", "apply", "mark", "wait", "save", "clear", "reload", "stat",
           "flush", "idle", "join", "sync", "finish", "closed", "exit"}

(* A thread that goes on, and does not begin a batch, leaves the batches alone. *)
LEMMA GotoType ==
  ASSUME TypeInv, NEW th, NEW label \in Labels, label # "apply", Goto(th, label),
         UNCHANGED <<batch, direct>>
  PROVE  /\ pc' \in [Threads \cup {"direct", "importer", "closer"} -> Labels]
         /\ BatchLeft'
<1>1. pc \in [Threads \cup {"direct", "importer", "closer"} -> Labels] /\ BatchLeft
  BY DEF TypeInv, TypeOK, Labels
<1> QED BY <1>1 DEF Goto, BatchLeft, Threads

(* Calls and operations count against one bound. *)
CountsOK == asked \in Nat /\ missed \in Nat /\ opCount \in Nat /\ opCount + asked <= MaxOps

(* A call that goes on has been counted. *)
LEMMA CallCounted ==
  ASSUME CountsOK, GoesOn
  PROVE  asked' \in Nat /\ asked' = asked - 1
BY DEF CountsOK, GoesOn

(* The database starts with nothing. *)
LEMMA InitTypeInv == Init => TypeInv
<1> SUFFICES ASSUME Init PROVE TypeInv
  OBVIOUS
<1>1. WALInv
  BY InitWAL DEF Init
<1>2. Nothing \in Snapshots /\ Given \subseteq Snapshots
  BY DatabaseAssumption DEF Nothing, Snapshots
<1>3. <<>> \in Seq(Op)
  BY EmptySeq
<1>4. /\ CountsOK
      /\ importCount \in 0 .. MaxImports /\ foreignCount \in 0 .. MaxForeign
  BY DatabaseAssumption DEF Init, CountsOK
<1> USE DEF CountsOK
<1> QED BY <1>1, <1>2, <1>3, <1>4, ThreadStartType
        DEF Init, TypeInv, TypeOK, WALInv, BatchLeft

(* __init__ *)
LEMMA StartupType == TypeInv /\ Startup => TypeInv'
<1> SUFFICES ASSUME TypeInv, Startup PROVE TypeInv'
  OBVIOUS
<1> USE DEF TypeInv, TypeOK, BatchLeft, memory, control, history, counts
<1>0. WALInv
  BY DEF WALInv
<1>1. CASE Load
  <2>1. W!ReadAll(file) \in Seq(Op) /\ <<>> \in Seq(Op)
    BY ReadAllType, EmptySeq DEF W!WALTypeOK
  <2>2. WALInv'
    BY <1>0, <1>1, SameWAL DEF Load
  <2> QED BY <1>1, <2>1, <2>2 DEF Load, WALInv
<1>2. CASE ReplayEntry
  <2>1. Head(entries) \in Op /\ Tail(entries) \in Seq(Op)
    BY <1>2, HeadTailProperties DEF ReplayEntry
  <2>2. data' \in Snapshots
    BY <1>2, <2>1, ReplayOneType DEF ReplayEntry
  <2>3. recovered' \in BOOLEAN
    BY <1>2 DEF ReplayEntry
  <2>4. WALInv'
    BY <1>0, <1>2, SameWAL DEF ReplayEntry
  <2> QED BY <1>2, <2>1, <2>2, <2>3, <2>4 DEF ReplayEntry, WALInv
<1>3. CASE ReplayDone
  <2>1. WALInv'
    BY <1>0, <1>3, SameWAL DEF ReplayDone
  <2>2. phase' \in {"load", "replay", "checkpoint", "truncate", "up"}
    BY <1>3 DEF ReplayDone, NextPhase
  <2> QED BY <1>3, <2>1, <2>2 DEF ReplayDone, WALInv
<1>4. CASE Checkpoint
  <2>1. WALInv'
    BY <1>0, <1>4, SameWAL DEF Checkpoint
  <2>2. phase' \in {"load", "replay", "checkpoint", "truncate", "up"}
    BY <1>4 DEF Checkpoint, NextPhase
  <2> QED BY <1>4, <2>1, <2>2 DEF Checkpoint, WriteSnapshot, WALInv
<1>5. CASE TruncateWAL
  <2>1. WALInv'
    BY <1>0, <1>5, RestWAL DEF TruncateWAL
  <2>2. phase' \in {"load", "replay", "checkpoint", "truncate", "up"}
    BY <1>5 DEF TruncateWAL, NextPhase
  <2> QED BY <1>5, <2>1, <2>2 DEF TruncateWAL, WALInv
<1> QED BY <1>1, <1>2, <1>3, <1>4, <1>5 DEF Startup

(* _process_write_buffer *)
LEMMA WorkerType == TypeInv /\ Worker => TypeInv'
<1> SUFFICES ASSUME TypeInv, Worker PROVE TypeInv'
  OBVIOUS
<1> USE DEF TypeInv, TypeOK, BatchLeft, memory, startup, history, counts
<1>0. WALInv
  BY DEF WALInv
<1>1. CASE Take
  <2>1. Head(queue) \in Op /\ Tail(queue) \in Seq(Op) /\ batch' \in Seq(Op)
    BY <1>1, HeadTailProperties, AppendProperties DEF Take
  <2>2. WALInv'
    BY <1>0, <1>1, SameWAL DEF Take
  <2> QED BY <1>1, <2>1, <2>2 DEF Take, control, WALInv
<1>2. CASE Process
  <2>1. WALInv'
    BY <1>0, <1>2, SameWAL DEF Process
  <2> QED BY <1>2, <2>1 DEF Process, Goto, Threads, WALInv
<1>3. CASE ApplyNext
  <2> DEFINE op == Head(batch)
  <2>1. op \in Op /\ Tail(batch) \in Seq(Op) /\ Len(Tail(batch)) = Len(batch) - 1 /\ Len(batch) \in Nat
    BY <1>3, HeadTailProperties, LenProperties DEF ApplyNext
  <2>2. Len(batch) # 1 => Tail(batch) # <<>>
    <3>1. Tail(batch) = <<>> => Len(Tail(batch)) = 0
      BY EmptySeq
    <3>2. ASSUME NEW n \in Nat, n - 1 = 0 PROVE n = 1
      BY <3>2
    <3> HIDE DEF TypeInv, TypeOK
    <3> QED BY <2>1, <3>1, <3>2, Z3
  <2>3. /\ IF Applicable(data, op)
           THEN /\ data' = Apply(data, op)
                /\ told' = ReplayOne(told, op)
                /\ IF Logged(op) THEN W!AppendEntry(op) ELSE UNCHANGED wal
           ELSE UNCHANGED <<data, told, wal>>
        /\ batch' = Tail(batch)
        /\ pc' = [pc EXCEPT !["worker"] = IF Len(batch) = 1 THEN "mark" ELSE "apply"]
        /\ UNCHANGED <<queue, direct, dirty, unseen, stop, left, startup, disk, unlogged, late,
                       counts>>
    BY <1>3 DEF ApplyNext, Goto
  <2> HIDE DEF op
  <2>4. data' \in Snapshots /\ told' \in Snapshots
    BY <2>1, <2>3, ApplyType, ReplayOneType
  <2>5. WALInv'
    BY <1>0, <2>1, <2>3, SameWAL, AppendWAL
  <2>6. BatchLeft'
    BY <2>2, <2>3 DEF Threads
  <2> QED BY <2>1, <2>3, <2>4, <2>5, <2>6 DEF WALInv
<1>4. CASE MarkDirty
  <2>1. WALInv'
    BY <1>0, <1>4, SameWAL DEF MarkDirty
  <2> QED BY <1>4, <2>1 DEF MarkDirty, Goto, Threads, WALInv
<1>5. CASE WorkerExit
  <2>1. WALInv'
    BY <1>0, <1>5, SameWAL DEF WorkerExit
  <2> QED BY <1>5, <2>1 DEF WorkerExit, Goto, Threads, WALInv
<1>6. CASE LeaveLoop("worker")
  <2>1. WALInv'
    BY <1>0, <1>6, SameWAL DEF LeaveLoop
  <2> QED BY <1>6, <2>1 DEF LeaveLoop, Threads, WALInv
<1> QED BY <1>1, <1>2, <1>3, <1>4, <1>5, <1>6 DEF Worker

(* write_batch and commit_transaction under the write lock *)
LEMMA DirectType == TypeInv /\ Direct => TypeInv'
<1> SUFFICES ASSUME TypeInv, Direct PROVE TypeInv'
  OBVIOUS
<1> USE DEF TypeInv, TypeOK, BatchLeft, memory, startup, history, counts
<1>0. WALInv
  BY DEF WALInv
<1>1. CASE DirectNext
  <2> DEFINE op == Head(direct)
  <2>1. op \in Op /\ Tail(direct) \in Seq(Op) /\ Len(Tail(direct)) = Len(direct) - 1 /\ Len(direct) \in Nat
    BY <1>1, HeadTailProperties, LenProperties DEF DirectNext
  <2>2. Len(direct) # 1 => Tail(direct) # <<>>
    <3>1. Tail(direct) = <<>> => Len(Tail(direct)) = 0
      BY EmptySeq
    <3>2. ASSUME NEW n \in Nat, n - 1 = 0 PROVE n = 1
      BY <3>2
    <3> HIDE DEF TypeInv, TypeOK
    <3> QED BY <2>1, <3>1, <3>2, Z3
  <2>3. /\ data' = Apply(Apply(data, Create(op.table)), op)
        /\ told' = Apply(Apply(told, Create(op.table)), op)
        /\ unlogged' \in {unlogged, unlogged \cup {op.table}}
        /\ late' = (late \/ pc["closer"] \in {"finish", "closed"}) \/ late' = late
        /\ W!AppendEntry(op) \/ UNCHANGED wal
        /\ direct' = Tail(direct)
        /\ pc' = [pc EXCEPT !["direct"] = IF Len(direct) = 1 THEN "mark" ELSE "apply"]
        /\ UNCHANGED <<queue, batch, dirty, unseen, stop, left, startup, disk, counts>>
    BY <1>1 DEF DirectNext, Goto
  <2>4. op.table \in Tables
    BY <2>1 DEF Op, CreateOp, RecordOp
  <2> HIDE DEF op
  <2>5. data' \in Snapshots /\ told' \in Snapshots
    BY <2>1, <2>3, <2>4, ApplyCreatedType
  <2>6. WALInv'
    BY <1>0, <2>1, <2>3, SameWAL, AppendWAL
  <2>7. BatchLeft'
    BY <2>2, <2>3 DEF Threads
  <2>8. unlogged' \subseteq Tables /\ late' \in BOOLEAN
    BY <2>3, <2>4
  <2> QED BY <2>1, <2>3, <2>5, <2>6, <2>7, <2>8 DEF WALInv
<1>2. CASE DirectMark
  <2>1. WALInv'
    BY <1>0, <1>2, SameWAL DEF DirectMark
  <2> QED BY <1>2, <2>1 DEF DirectMark, Goto, Threads, WALInv
<1> QED BY <1>1, <1>2 DEF Direct

(* The two halves of _flush_to_disk, whoever runs it. *)
LEMMA SaveType ==
  ASSUME TypeInv, NEW th \in {"saver", "importer", "closer"}, Save(th) \/ ClearDirty(th)
  PROVE  TypeInv'
<1> USE DEF TypeInv, TypeOK, BatchLeft, memory, startup, history, counts
<1>0. WALInv
  BY DEF WALInv
<1>1. CASE Save(th)
  <2>1. WALInv'
    BY <1>0, <1>1, SameWAL DEF Save
  <2> QED BY <1>1, <2>1 DEF Save, WriteSnapshot, Goto, Threads, WALInv
<1>2. CASE ClearDirty(th)
  <2>1. WALInv'
    BY <1>0, <1>2, SameWAL DEF ClearDirty
  <2>2. AfterFlush(th) \in {"exit", "wait", "idle", "sync"}
    BY DEF AfterFlush
  <2>3. BatchLeft' /\ pc' \in [Threads \cup {"direct", "importer", "closer"} -> Labels]
    BY <1>2, <2>2, GotoType DEF ClearDirty, Labels
  <2> QED BY <1>2, <2>1, <2>3 DEF ClearDirty, Labels, WALInv
<1> QED BY <1>1, <1>2

(* _periodic_save *)
LEMMA SaverType == TypeInv /\ Saver => TypeInv'
<1> SUFFICES ASSUME TypeInv, Saver PROVE TypeInv'
  OBVIOUS
<1>1. CASE Save("saver") \/ ClearDirty("saver")
  BY <1>1, SaveType
<1> USE DEF TypeInv, TypeOK, BatchLeft, memory, startup, history, counts
<1>2. CASE SaverWakes \/ SaverExit \/ LeaveLoop("saver")
  <2>1. WALInv'
    BY <1>2, SameWAL DEF SaverWakes, SaverExit, LeaveLoop, WALInv
  <2>2. CASE SaverWakes \/ SaverExit
    <3>1. BatchLeft' /\ pc' \in [Threads \cup {"direct", "importer", "closer"} -> Labels]
      BY <2>2, GotoType DEF SaverWakes, SaverExit, Labels
    <3> QED BY <2>1, <2>2, <3>1 DEF SaverWakes, SaverExit, Labels, WALInv
  <2>3. CASE LeaveLoop("saver")
    BY <2>1, <2>3 DEF LeaveLoop, Threads, WALInv
  <2> QED BY <1>2, <2>2, <2>3
<1> QED BY <1>1, <1>2 DEF Saver

(* _file_on_change *)
LEMMA WatcherType == TypeInv /\ Watcher => TypeInv'
<1> SUFFICES ASSUME TypeInv, Watcher PROVE TypeInv'
  OBVIOUS
<1>1. WALInv'
  BY SameWAL DEF Watcher, WatcherWakes, Reload, ReloadStat, WatcherExit, TypeInv, TypeOK, WALInv
<1> USE DEF TypeInv, TypeOK, BatchLeft, memory, startup, history, counts, WALInv
<1>0. BatchLeft' /\ pc' \in [Threads \cup {"direct", "importer", "closer"} -> Labels]
  BY GotoType DEF Watcher, WatcherWakes, Reload, ReloadStat, WatcherExit, Labels
<1>2. CASE WatcherWakes \/ WatcherExit
  BY <1>0, <1>1, <1>2 DEF Labels, WatcherWakes, WatcherExit
<1>3. CASE Reload \/ ReloadStat
  BY <1>0, <1>1, <1>3 DEF Labels, Reload, ReloadStat
<1> QED BY <1>2, <1>3 DEF Watcher

(* The steps of a flush change nothing but the WAL. *)
LEMMA FlushStepType ==
  ASSUME TypeInv, NEW f \in Flushers, FlushStep(f)
  PROVE  TypeInv'
<1>1. WALInv'
  BY StepWAL DEF FlushStep, TypeInv, TypeOK, WALInv
<1> QED BY <1>1 DEF FlushStep, TypeInv, TypeOK, BatchLeft, WALInv, memory, control, startup, history, counts

(* WAL.start *)
LEMMA SyncerType == TypeInv /\ Syncer => TypeInv'
<1> SUFFICES ASSUME TypeInv, Syncer PROVE TypeInv'
  OBVIOUS
<1>0. "syncer" \in Flushers
  BY DEF Flushers
<1>1. CASE FlushStep("syncer")
  BY <1>0, <1>1, FlushStepType
<1> USE DEF TypeInv, TypeOK, BatchLeft, memory, startup, history, counts, Goto
<1>2. CASE SyncerFlush
  <2>1. WALInv'
    BY <1>0, <1>2, TakeWAL DEF SyncerFlush, WALInv
  <2> QED BY <1>2, <2>1 DEF SyncerFlush, Threads, WALInv
<1>3. CASE SyncerFlushed \/ SyncerExit \/ LeaveLoop("syncer")
  <2>1. WALInv'
    BY <1>3, SameWAL DEF SyncerFlushed, SyncerExit, LeaveLoop, WALInv
  <2>2. CASE SyncerFlushed \/ SyncerExit
    <3>1. BatchLeft' /\ pc' \in [Threads \cup {"direct", "importer", "closer"} -> Labels]
      BY <2>2, GotoType DEF SyncerFlushed, SyncerExit, Labels
    <3> QED BY <2>1, <2>2, <3>1 DEF SyncerFlushed, SyncerExit, Labels, WALInv
  <2>3. CASE LeaveLoop("syncer")
    BY <2>1, <2>3 DEF LeaveLoop, Threads, WALInv
  <2> QED BY <1>3, <2>2, <2>3
<1> QED BY <1>1, <1>2, <1>3 DEF Syncer

(* The rest of import_db. *)
LEMMA ImporterType == TypeInv /\ Importer => TypeInv'
<1> SUFFICES ASSUME TypeInv, Importer PROVE TypeInv'
  OBVIOUS
<1>1. CASE Save("importer") \/ ClearDirty("importer")
  BY <1>1, SaveType
<1>2. CASE ImportMark
  <2>1. WALInv'
    BY <1>2, SameWAL DEF ImportMark, TypeInv, TypeOK, WALInv
  <2> QED BY <1>2, <2>1 DEF ImportMark, Goto, TypeInv, TypeOK, BatchLeft, startup, history, counts, WALInv
<1> QED BY <1>1, <1>2 DEF Importer

(* close_with_timeout *)
LEMMA CloserType == TypeInv /\ Closer => TypeInv'
<1> SUFFICES ASSUME TypeInv, Closer PROVE TypeInv'
  OBVIOUS
<1>0. "closer" \in Flushers
  BY DEF Flushers
<1>1. CASE Save("closer") \/ ClearDirty("closer")
  BY <1>1, SaveType
<1>2. CASE FlushStep("closer")
  BY <1>0, <1>2, FlushStepType
<1> USE DEF TypeInv, TypeOK, BatchLeft, memory, startup, history, counts, Goto
<1>3. CASE Join
  <2>1. WALInv'
    BY <1>3, SameWAL DEF Join, WALInv
  <2> QED BY <1>3, <2>1 DEF Join, WALInv
<1>4. CASE CloserFlush
  <2>1. WALInv'
    BY <1>0, <1>4, TakeWAL, SameWAL DEF CloserFlush, FinalFlush, WALInv
  <2> QED BY <1>4, <2>1 DEF CloserFlush, WALInv
<1>5. CASE CloserFinish
  <2>1. WALInv'
    BY <1>5, RestWAL DEF CloserFinish, WALInv
  <2> QED BY <1>5, <2>1 DEF CloserFinish, WALInv
<1> QED BY <1>1, <1>2, <1>3, <1>4, <1>5 DEF Closer

(* Calls, imports and another process. *)
LEMMA CallersType == TypeInv /\ Callers => TypeInv'
<1> SUFFICES ASSUME TypeInv, Callers PROVE TypeInv'
  OBVIOUS
<1> USE DEF TypeInv, TypeOK, BatchLeft, startup, history
<1>0. WALInv
  BY DEF WALInv
<1>6. CountsOK
  BY DEF CountsOK
<1>7. CASE Ask
  <2>1. WALInv'
    BY <1>0, <1>7, SameWAL DEF Ask
  <2>2. CountsOK'
    <3>1. importCount \in Nat /\ foreignCount \in Nat
      BY DatabaseAssumption
    <3>2. asked' = asked + 1 /\ Events < MaxOps /\ UNCHANGED <<missed, opCount>>
      BY <1>7 DEF Ask
    <3> QED BY <3>1, <3>2, <1>6, DatabaseAssumption DEF Events, CountsOK
  <2> QED BY <1>7, <2>1, <2>2 DEF Ask, memory, control, WALInv, CountsOK
<1>1. ASSUME NEW op \in Op, Submit(op) PROVE TypeInv'
  <2>1. WALInv' /\ queue' \in Seq(Op)
    BY <1>0, <1>1, SameWAL, AppendProperties DEF Submit
  <2>2. CountsOK'
    <3>1. asked' \in Nat /\ asked' = asked - 1 /\ opCount' = opCount + 1
      BY <1>1, <1>6, CallCounted DEF Submit
    <3>2. missed' \in Nat
      BY <1>1, <1>6 DEF Submit, CountsOK
    <3> QED BY <3>1, <3>2, <1>6, DatabaseAssumption DEF CountsOK
  <2> QED BY <1>1, <2>1, <2>2 DEF Submit, control, WALInv, CountsOK
<1>2. ASSUME NEW d \in Foreign, Import(d) PROVE TypeInv'
  <2>1. WALInv' /\ d \in Snapshots
    BY <1>0, <1>2, SameWAL, DatabaseAssumption DEF Import
  <2>2. importCount' \in 0 .. MaxImports
    BY <1>2, DatabaseAssumption DEF Import
  <2>3. CountsOK'
    <3>1. asked' \in Nat /\ asked' = asked - 1 /\ UNCHANGED <<missed, opCount>>
      BY <1>2, <1>6, CallCounted DEF Import
    <3> QED BY <3>1, <1>6, DatabaseAssumption DEF CountsOK
  <2> QED BY <1>2, <2>1, <2>2, <2>3 DEF Import, Goto, Threads, WALInv, CountsOK
<1>3. ASSUME NEW d \in Foreign, ForeignSave(d) PROVE TypeInv'
  <2>1. WALInv' /\ d \in Snapshots
    BY <1>0, <1>3, SameWAL, DatabaseAssumption DEF ForeignSave
  <2>2. foreignCount' \in 0 .. MaxForeign
    BY <1>3, DatabaseAssumption DEF ForeignSave
  <2> QED BY <1>3, <2>1, <2>2 DEF ForeignSave, control, WALInv
<1>4. CASE BeginClose
  <2>1. WALInv'
    BY <1>0, <1>4, SameWAL DEF BeginClose
  <2> QED BY <1>4, <2>1 DEF BeginClose, Goto, memory, counts, WALInv
<1>5. ASSUME NEW ops \in Changes, Begin(ops), GoesOn \/ UNCHANGED asked PROVE TypeInv'
  <2>1. WALInv'
    BY <1>0, <1>5, SameWAL DEF Begin
  <2>2. ops \in Seq(Op) /\ Len(ops) \in Nat /\ ops # <<>>
    BY ChangesType
  <2>3. CountsOK'
    <3>1. asked' \in Nat
      BY <1>5, <1>6, CallCounted DEF CountsOK
    <3>2. /\ opCount' = opCount + Len(ops) /\ missed' = missed
          /\ importCount \in Nat /\ foreignCount \in Nat
          /\ opCount + asked' + importCount + foreignCount + Len(ops) <= MaxOps
      BY <1>5, DatabaseAssumption DEF Begin
    <3>3. opCount \in Nat /\ missed \in Nat /\ MaxOps \in Nat
      BY <1>6, DatabaseAssumption DEF CountsOK
    <3>4. opCount' + asked' <= MaxOps
      <4>1. ASSUME NEW a \in Nat, NEW b \in Nat, NEW c \in Nat, NEW f \in Nat,
                   NEW n \in Nat, a + b + c + f + n <= MaxOps
            PROVE  (a + n) + b <= MaxOps
        BY <3>3, <4>1
      <4> QED BY <2>2, <3>1, <3>2, <3>3, <4>1
    <3>5. opCount' \in Nat /\ missed' \in Nat
      BY <2>2, <3>2, <3>3
    <3> QED BY <3>1, <3>4, <3>5 DEF CountsOK
  <2> QED BY <1>5, <2>1, <2>2, <2>3 DEF Begin, Goto, Threads, WALInv, CountsOK
<1>8. ASSUME NEW ops \in Changes, WriteBatch(ops) \/ Commit(ops) PROVE TypeInv'
  BY <1>5, <1>8 DEF WriteBatch, Commit
<1> HIDE DEF TypeInv
<1> QED BY <1>1, <1>2, <1>3, <1>4, <1>7, <1>8 DEF Callers

(* Only state.rdb and the WAL file outlive the process. *)
LEMMA ProcessEndType == TypeInv /\ (Crash \/ Reopen) => TypeInv'
<1> SUFFICES ASSUME TypeInv, Crash \/ Reopen PROVE TypeInv'
  OBVIOUS
<1>1. WALInv'
  BY ReopenWAL DEF Crash, Reopen, NewProcess, TypeInv, TypeOK, WALInv
<1>2. NewProcess
  BY DEF Crash, Reopen
<1>3. Nothing \in Snapshots
  BY DEF Nothing, Snapshots
<1>4. <<>> \in Seq(Op)
  BY EmptySeq
<1>5. pc' = ThreadStart /\ BatchLeft'
  BY <1>2, ThreadStartType DEF NewProcess, BatchLeft
<1>6. /\ data' = Nothing /\ told' = Nothing /\ disk' = disk
      /\ queue' = <<>> /\ batch' = <<>> /\ direct' = <<>> /\ entries' = <<>>
      /\ phase' = "load" /\ session' = session + 1
      /\ dirty' = FALSE /\ unseen' = FALSE /\ stop' = FALSE /\ recovered' = FALSE /\ left' = {}
      /\ unlogged' = unlogged /\ late' = FALSE
      /\ UNCHANGED <<opCount, importCount, foreignCount>> /\ asked' = 0 /\ missed' = 0
  BY <1>2 DEF NewProcess
<1>7. /\ disk \in Snapshots /\ session \in Nat /\ unlogged \subseteq Tables
      /\ CountsOK /\ importCount \in 0 .. MaxImports /\ foreignCount \in 0 .. MaxForeign
  BY DEF TypeInv, TypeOK, CountsOK
<1>8. pc' \in [Threads \cup {"direct", "importer", "closer"} -> {"collect", "wait", "exit", "idle"}]
  BY <1>5, ThreadStartType
<1> HIDE DEF TypeInv, TypeOK
<1>9. TypeOK'
  <2>1. W!WALTypeOK'
    BY <1>1 DEF WALInv
  <2>2. /\ data' \in Snapshots /\ disk' \in Snapshots /\ told' \in Snapshots
        /\ queue' \in Seq(Op) /\ batch' \in Seq(Op) /\ direct' \in Seq(Op) /\ entries' \in Seq(Op)
        /\ unlogged' \subseteq Tables /\ late' \in BOOLEAN
    BY <1>3, <1>4, <1>6, <1>7
  <2>3. /\ dirty' \in BOOLEAN /\ unseen' \in BOOLEAN /\ stop' \in BOOLEAN /\ recovered' \in BOOLEAN
        /\ left' \subseteq Threads /\ phase' = "load"
    BY <1>6
  <2>4. /\ importCount' \in 0 .. MaxImports
        /\ foreignCount' \in 0 .. MaxForeign /\ session' \in Nat
    BY <1>6, <1>7
  <2>5. CountsOK'
    BY <1>6, <1>7, DatabaseAssumption DEF CountsOK
  <2> QED BY <2>1, <2>2, <2>3, <2>4, <2>5, <1>8 DEF TypeOK, CountsOK
<1> QED BY <1>1, <1>5, <1>9 DEF TypeInv, WALInv

(* Every step keeps the invariant. *)
LEMMA NextTypeInv == TypeInv /\ [Next]_vars => TypeInv'
<1>1. TypeInv /\ UNCHANGED vars => TypeInv'
  <2> SUFFICES ASSUME TypeInv, UNCHANGED vars PROVE TypeInv'
    OBVIOUS
  <2>1. WALInv'
    BY SameWAL DEF vars, TypeInv, TypeOK, WALInv
  <2> QED BY <2>1 DEF vars, memory, control, startup, history, counts, TypeInv, TypeOK, BatchLeft, WALInv
<1> QED BY <1>1, StartupType, WorkerType, DirectType, SaverType, WatcherType, SyncerType, ImporterType,
           CloserType, CallersType, ProcessEndType DEF Next

(* The type invariant of the database core: no record is ever put into a table
   that does not exist, whatever the callers, threads and crashes do. *)
THEOREM TypeCorrect == Spec => []TypeOK
<1>1. TypeInv => TypeOK
  BY DEF TypeInv
<1> QED BY <1>1, InitTypeInv, NextTypeInv, PTL DEF Spec

----------------------------------------------------------------------------
(* The tables after replaying operations on some tables. *)
Replay(d, ops) == FoldLeft(ReplayOne, d, ops)

(* One turn of the recursion by which FoldLeft is defined: g gives the tables
   after the operations at a set of positions. *)
FoldBody(g, d, ops, u) ==
  IF u = {} THEN d ELSE ReplayOne(g[u \ {Max(u)}], ops[Max(u)])
IsFold(g, d, ops, N) == g = [u \in N |-> FoldBody(g, d, ops, u)]

(* A replay takes the function that FoldLeft chooses at all positions. *)
LEMMA ReplayIsFold ==
  ASSUME NEW d, NEW ops
  PROVE  Replay(d, ops) = (CHOOSE g : IsFold(g, d, ops, SUBSET DOMAIN ops))[DOMAIN ops]
BY Zenon DEF Replay, FoldLeft, MapThenFoldSet, IsFold, FoldBody

(* The recursion is well founded: it ends at the empty set. *)
LEMMA FoldExists ==
  ASSUME NEW d, NEW ops, NEW n \in Nat
  PROVE  \E g : IsFold(g, d, ops, SUBSET (1 .. n))
<1> DEFINE Small(k) == {u \in SUBSET (1 .. n) : Cardinality(u) <= k}
<1> DEFINE T == {k \in Nat : \E g : IsFold(g, d, ops, Small(k))}
<1>1. \A u \in SUBSET (1 .. n) : IsFiniteSet(u) /\ Cardinality(u) \in Nat /\ Cardinality(u) <= n
  <2>1. IsFiniteSet(1 .. n) /\ Cardinality(1 .. n) = n
    <3>1. 1 \in Int /\ n \in Int /\ n - 1 + 1 = n /\ (1 > n => n = 0)
      OBVIOUS
    <3> QED BY <3>1, FS_Interval
  <2> QED BY <2>1, FS_Subset, FS_CardinalityType
<1>2. \A u \in SUBSET (1 .. n) : u # {} =>
         /\ Max(u) \in u /\ u \ {Max(u)} \in SUBSET (1 .. n)
         /\ Cardinality(u \ {Max(u)}) = Cardinality(u) - 1
  <2> SUFFICES ASSUME NEW u \in SUBSET (1 .. n), u # {}
               PROVE  Max(u) \in u /\ Cardinality(u \ {Max(u)}) = Cardinality(u) - 1
    OBVIOUS
  <2>1. \E m \in u : \A x \in u : m >= x
    <3>1. \E m \in u : \A x \in u : x <= m
      BY LargestNumber
    <3> QED BY <3>1
  <2>2. Max(u) \in u
    BY <2>1 DEF Max
  <2> QED BY <1>1, <2>2, FS_RemoveElement
<1>3. 0 \in T
  <2> DEFINE g == [u \in Small(0) |-> d]
  <2>1. \A u \in Small(0) : u = {}
    BY <1>1, FS_EmptySet
  <2>2. IsFold(g, d, ops, Small(0))
    BY <2>1 DEF IsFold, FoldBody
  <2> QED BY <2>2
<1>4. ASSUME NEW k \in Nat, k \in T PROVE k + 1 \in T
  <2>1. PICK g : IsFold(g, d, ops, Small(k))
    BY <1>4
  <2> DEFINE h == [u \in Small(k + 1) |-> FoldBody(g, d, ops, u)]
  <2>2. \A u \in Small(k) : g[u] = FoldBody(g, d, ops, u)
    <3> HIDE DEF Small
    <3>1. g = [u \in Small(k) |-> FoldBody(g, d, ops, u)]
      BY <2>1 DEF IsFold
    <3> HIDE DEF FoldBody
    <3> QED BY <3>1, Zenon
  <2>3. \A u \in Small(k) : u \in Small(k + 1) /\ h[u] = g[u]
    <3>1. \A u \in Small(k) : u \in Small(k + 1)
      BY <1>1
    <3> QED BY <2>2, <3>1
  <2>4. ASSUME NEW u \in Small(k + 1) PROVE FoldBody(g, d, ops, u) = FoldBody(h, d, ops, u)
    <3>1. CASE u = {}
      BY <3>1 DEF FoldBody
    <3>2. CASE u # {}
      <4>1. u \ {Max(u)} \in Small(k)
        BY <1>1, <1>2, <3>2
      <4>2. h[u \ {Max(u)}] = g[u \ {Max(u)}]
        BY <2>3, <4>1
      <4> QED BY <3>2, <4>2 DEF FoldBody
    <3> QED BY <3>1, <3>2
  <2>5. h = [u \in Small(k + 1) |-> FoldBody(h, d, ops, u)]
    <3> HIDE DEF Small
    <3> QED BY <2>4
  <2>6. IsFold(h, d, ops, Small(k + 1))
    BY <2>5 DEF IsFold
  <2> HIDE DEF h, Small
  <2> QED BY <2>6
<1>5. n \in T
  <2> HIDE DEF T
  <2> QED BY <1>3, <1>4, NumberInduction
<1>6. Small(n) = SUBSET (1 .. n)
  BY <1>1
<1> QED BY <1>5, <1>6

(* A replay goes through the tables after each operation. *)
LEMMA ReplayStages ==
  ASSUME NEW d, NEW ops \in Seq(Op)
  PROVE  \E h : /\ h[0] = d /\ Replay(d, ops) = h[Len(ops)]
                /\ \A k \in 1 .. Len(ops) : h[k] = ReplayOne(h[k - 1], ops[k])
<1>1. Len(ops) \in Nat /\ DOMAIN ops = 1 .. Len(ops)
  BY LenProperties
<1> DEFINE g == CHOOSE g : IsFold(g, d, ops, SUBSET (1 .. Len(ops)))
<1>2. IsFold(g, d, ops, SUBSET (1 .. Len(ops)))
  <2>1. \E f : IsFold(f, d, ops, SUBSET (1 .. Len(ops)))
    BY <1>1, FoldExists
  <2> HIDE DEF IsFold
  <2> QED BY <2>1
<1>3. Replay(d, ops) = g[1 .. Len(ops)]
  BY <1>1, ReplayIsFold
<1> HIDE DEF g
<1>4. \A u \in SUBSET (1 .. Len(ops)) : g[u] = FoldBody(g, d, ops, u)
  <2>1. g = [u \in SUBSET (1 .. Len(ops)) |-> FoldBody(g, d, ops, u)]
    BY <1>2 DEF IsFold
  <2> HIDE DEF FoldBody
  <2> QED BY <2>1, Zenon
<1> DEFINE h == [k \in 0 .. Len(ops) |-> g[1 .. k]]
<1>5. h[0] = d
  <2>1. 1 .. 0 = {} /\ 0 \in 0 .. Len(ops)
    BY <1>1
  <2> QED BY <1>4, <2>1 DEF FoldBody
<1>6. ASSUME NEW k \in 1 .. Len(ops) PROVE h[k] = ReplayOne(h[k - 1], ops[k])
  <2>1. /\ k \in 0 .. Len(ops) /\ k - 1 \in 0 .. Len(ops)
        /\ 1 .. k # {} /\ 1 .. k \in SUBSET (1 .. Len(ops))
    <3>1. k \in Nat /\ k >= 1 /\ k <= Len(ops)
      BY <1>1
    <3>2. k \in 0 .. Len(ops) /\ k - 1 \in 0 .. Len(ops)
      BY <1>1, <3>1
    <3>3. 1 \in 1 .. k /\ \A x \in 1 .. k : x \in 1 .. Len(ops)
      BY <1>1, <3>1
    <3> QED BY <3>2, <3>3
  <2>2. Max(1 .. k) = k
    <3>1. k \in 1 .. k /\ \A x \in 1 .. k : k >= x
      BY <1>1
    <3>2. \A m \in 1 .. k : (\A x \in 1 .. k : m >= x) => m = k
      BY <1>1, <3>1
    <3> QED BY <3>1, <3>2 DEF Max
  <2>3. (1 .. k) \ {k} = 1 .. k - 1
    BY <1>1
  <2>4. g[1 .. k] = ReplayOne(g[1 .. k - 1], ops[k])
    BY <1>4, <2>1, <2>2, <2>3 DEF FoldBody
  <2> QED BY <2>1, <2>4
<1>7. Replay(d, ops) = h[Len(ops)]
  BY <1>1, <1>3
<1> HIDE DEF h
<1> QED BY <1>5, <1>6, <1>7

(* Nothing to replay. *)
LEMMA ReplayNothing == \A d : Replay(d, <<>>) = d
<1> TAKE d
<1>1. <<>> \in Seq(Op) /\ Len(<<>>) = 0
  BY EmptySeq
<1> QED BY <1>1, ReplayStages

(* One more operation is replayed on what the others made. *)
LEMMA ReplayAppend ==
  ASSUME NEW d, NEW ops \in Seq(Op), NEW op \in Op
  PROVE  Replay(d, Append(ops, op)) = ReplayOne(Replay(d, ops), op)
<1> DEFINE more == Append(ops, op)
<1>1. /\ more \in Seq(Op) /\ Len(more) = Len(ops) + 1 /\ Len(ops) \in Nat
      /\ more[Len(ops) + 1] = op /\ \A i \in 1 .. Len(ops) : more[i] = ops[i]
  BY AppendProperties, LenProperties
<1> HIDE DEF more
<1>2. PICK h : /\ h[0] = d /\ Replay(d, ops) = h[Len(ops)]
               /\ \A k \in 1 .. Len(ops) : h[k] = ReplayOne(h[k - 1], ops[k])
  BY ReplayStages
<1>3. PICK g : /\ g[0] = d /\ Replay(d, more) = g[Len(more)]
               /\ \A k \in 1 .. Len(more) : g[k] = ReplayOne(g[k - 1], more[k])
  BY <1>1, ReplayStages
<1> DEFINE T == {k \in Nat : k <= Len(ops) => g[k] = h[k]}
<1>4. 0 \in T
  BY <1>2, <1>3
<1>5. ASSUME NEW k \in Nat, k \in T PROVE k + 1 \in T
  <2> SUFFICES ASSUME k + 1 <= Len(ops) PROVE g[k + 1] = h[k + 1]
    OBVIOUS
  <2>1. k + 1 \in 1 .. Len(ops) /\ k + 1 \in 1 .. Len(more) /\ k + 1 - 1 = k /\ k <= Len(ops)
    BY <1>1
  <2>2. g[k] = h[k] /\ more[k + 1] = ops[k + 1]
    BY <1>1, <1>5, <2>1
  <2> QED BY <1>2, <1>3, <2>1, <2>2
<1>6. Len(ops) \in T
  <2> HIDE DEF T
  <2> QED BY <1>1, <1>4, <1>5, NumberInduction
<1>7. Replay(d, more) = ReplayOne(g[Len(ops)], op)
  <2>1. Len(more) \in 1 .. Len(more) /\ Len(more) - 1 = Len(ops) /\ Len(more) = Len(ops) + 1
    BY <1>1
  <2> QED BY <1>1, <1>3, <2>1
<1>8. g[Len(ops)] = h[Len(ops)]
  BY <1>1, <1>6
<1> QED BY <1>2, <1>7, <1>8 DEF more

----------------------------------------------------------------------------
(* What an operation makes of the content of one table. *)
EmptyTable == [k \in Keys |-> Absent]
OnTable(c, op) ==
  IF op.type = "create" THEN IF c = NoTable THEN EmptyTable ELSE c
  ELSE IF c = NoTable THEN NoTable
  ELSE [c EXCEPT ![op.key] = IF op.type = "write" THEN op.value ELSE Absent]

(* What the operations of the log are made of. *)
LEMMA OpParts ==
  ASSUME NEW op \in Op
  PROVE  /\ op.table \in Tables /\ op.type \in {"create", "write", "delete"}
         /\ op.type = "create" => op = Create(op.table)
         /\ op.type # "create" => op.key \in Keys
         /\ op.type = "write" => op.value \in Vals
BY DEF Op, CreateOp, RecordOp, Create

(* A table that was just created is one, without records. *)
LEMMA EmptyTableType == EmptyTable \in TableData /\ EmptyTable # NoTable
BY DatabaseAssumption DEF EmptyTable, TableData

(* An operation creates the missing table it is on, or finds it and leaves a
   table; only a creation makes one out of nothing. *)
LEMMA OnTableType ==
  ASSUME NEW c \in TableData \cup {NoTable}, NEW op \in Op
  PROVE  /\ OnTable(c, op) \in TableData \cup {NoTable}
         /\ OnTable(c, op) = NoTable <=> c = NoTable /\ op.type # "create"
<1>1. CASE op.type = "create"
  BY <1>1, EmptyTableType DEF OnTable
<1>2. CASE op.type # "create" /\ c = NoTable
  BY <1>2 DEF OnTable
<1>3. CASE op.type # "create" /\ c # NoTable
  <2>1. op.key \in Keys /\ (op.type = "write" => op.value \in Vals)
    BY <1>3, OpParts
  <2>2. OnTable(c, op) \in TableData
    BY <1>3, <2>1 DEF OnTable, TableData
  <2> QED BY <1>3, <2>2, DatabaseAssumption
<1> QED BY <1>1, <1>2, <1>3

(* Replaying one operation changes the table it is on, and no other one. *)
LEMMA ReplayOneOnTable ==
  ASSUME NEW d \in Snapshots, NEW op \in Op, NEW t \in Tables
  PROVE  ReplayOne(d, op)[t] = IF op.table = t THEN OnTable(d[t], op) ELSE d[t]
<1>1. op.table \in Tables /\ op.type \in {"create", "write", "delete"} /\ DOMAIN d = Tables
  BY OpParts DEF Snapshots
<1>2. CASE op.type = "create"
  BY <1>1, <1>2 DEF ReplayOne, Applicable, Apply, OnTable, EmptyTable
<1>3. CASE op.type = "write"
  BY <1>1, <1>3 DEF ReplayOne, Applicable, Apply, OnTable
<1>4. CASE op.type = "delete"
  BY <1>1, <1>4 DEF ReplayOne, Applicable, Apply, OnTable
<1> QED BY <1>1, <1>2, <1>3, <1>4

(* A replay gives tables. *)
LEMMA ReplayType ==
  ASSUME NEW d \in Snapshots
  PROVE  \A ops \in Seq(Op) : Replay(d, ops) \in Snapshots
<1> DEFINE T == {ops \in Seq(Op) : Replay(d, ops) \in Snapshots}
<1>1. <<>> \in T
  BY EmptySeq, ReplayNothing
<1>2. ASSUME NEW ops \in Seq(Op), NEW op \in Op, ops \in T PROVE Append(ops, op) \in T
  BY <1>2, AppendProperties, ReplayAppend, ReplayOneType
<1> HIDE DEF T
<1>3. Seq(Op) \subseteq T
  BY <1>1, <1>2, SequenceInduction
<1> QED BY <1>3 DEF T

(* The content of a table after a replay depends on that table alone. *)
LEMMA ReplayLocal ==
  ASSUME NEW d \in Snapshots, NEW e \in Snapshots, NEW t \in Tables, d[t] = e[t]
  PROVE  \A ops \in Seq(Op) : Replay(d, ops)[t] = Replay(e, ops)[t]
<1> DEFINE T == {ops \in Seq(Op) : Replay(d, ops)[t] = Replay(e, ops)[t]}
<1>1. <<>> \in T
  BY EmptySeq, ReplayNothing
<1>2. ASSUME NEW ops \in Seq(Op), NEW op \in Op, ops \in T PROVE Append(ops, op) \in T
  <2>1. Replay(d, ops) \in Snapshots /\ Replay(e, ops) \in Snapshots
    BY ReplayType
  <2>2. ReplayOne(Replay(d, ops), op)[t] = ReplayOne(Replay(e, ops), op)[t]
    BY <1>2, <2>1, ReplayOneOnTable
  <2> QED BY <2>2, AppendProperties, ReplayAppend
<1> HIDE DEF T
<1>3. Seq(Op) \subseteq T
  BY <1>1, <1>2, SequenceInduction
<1> QED BY <1>3 DEF T

(* An operation occurs in a sequence. *)
Occurs(op, ops) == \E i \in DOMAIN ops : ops[i] = op

(* The operations that occur after one more. *)
LEMMA OccursAppend ==
  ASSUME NEW ops \in Seq(Op), NEW op \in Op, NEW e
  PROVE  /\ ~Occurs(e, <<>>)
         /\ Occurs(e, Append(ops, op)) <=> Occurs(e, ops) \/ e = op
<1>1. ~Occurs(e, <<>>)
  BY DEF Occurs
<1> DEFINE more == Append(ops, op)
<1>2. /\ DOMAIN more = 1 .. Len(ops) + 1 /\ more[Len(ops) + 1] = op
      /\ Len(ops) \in Nat /\ DOMAIN ops = 1 .. Len(ops) /\ \A i \in 1 .. Len(ops) : more[i] = ops[i]
  <2>1. more \in Seq(Op) /\ Len(more) = Len(ops) + 1
    BY AppendProperties
  <2> QED BY <2>1, AppendProperties, LenProperties
<1> HIDE DEF more
<1>3. Occurs(e, more) <=> Occurs(e, ops) \/ e = op
  BY <1>2 DEF Occurs
<1> QED BY <1>1, <1>3 DEF more

(* A table exists after a replay if it did before or its creation is replayed. *)
LEMMA ReplayExists ==
  ASSUME NEW d \in Snapshots, NEW t \in Tables
  PROVE  \A ops \in Seq(Op) :
           Replay(d, ops)[t] # NoTable <=> d[t] # NoTable \/ Occurs(Create(t), ops)
<1> DEFINE T == {ops \in Seq(Op) : Replay(d, ops)[t] # NoTable <=>
                                      d[t] # NoTable \/ Occurs(Create(t), ops)}
<1>1. <<>> \in T
  BY EmptySeq, ReplayNothing DEF Occurs
<1>2. ASSUME NEW ops \in Seq(Op), NEW op \in Op, ops \in T PROVE Append(ops, op) \in T
  <2>1. Replay(d, ops) \in Snapshots /\ Replay(d, ops)[t] \in TableData \cup {NoTable}
    BY ReplayType DEF Snapshots
  <2>2. op = Create(t) <=> op.table = t /\ op.type = "create"
    BY OpParts DEF Create
  <2>3. ReplayOne(Replay(d, ops), op)[t] # NoTable <=> Replay(d, ops)[t] # NoTable \/ op = Create(t)
    BY <2>1, <2>2, ReplayOneOnTable, OnTableType
  <2>4. Occurs(Create(t), Append(ops, op)) <=> Occurs(Create(t), ops) \/ Create(t) = op
    BY OccursAppend
  <2> QED BY <1>2, <2>3, <2>4, AppendProperties, ReplayAppend
<1> HIDE DEF T
<1>3. Seq(Op) \subseteq T
  BY <1>1, <1>2, SequenceInduction
<1> QED BY <1>3 DEF T

----------------------------------------------------------------------------
(* A replay skips nothing on a table: every write and delete on it comes when
   it exists. *)
NoSkip(d, ops, t) ==
  \A i \in DOMAIN ops :
    ops[i].table = t /\ ops[i].type # "create" =>
      d[t] # NoTable \/ \E j \in 1 .. i - 1 : ops[j] = Create(t)

(* Where nothing is replayed, nothing is skipped. *)
LEMMA NoSkipNothing == \A d, t : NoSkip(d, <<>>, t)
BY DEF NoSkip

(* One more operation is not skipped if its table exists by then. *)
LEMMA NoSkipAppend ==
  ASSUME NEW d \in Snapshots, NEW t \in Tables, NEW ops \in Seq(Op), NEW op \in Op
  PROVE  NoSkip(d, Append(ops, op), t) <=>
           /\ NoSkip(d, ops, t)
           /\ op.table = t /\ op.type # "create" => Replay(d, ops)[t] # NoTable
<1> DEFINE more == Append(ops, op)
<1>1. /\ DOMAIN more = 1 .. Len(ops) + 1 /\ more[Len(ops) + 1] = op
      /\ Len(ops) \in Nat /\ DOMAIN ops = 1 .. Len(ops) /\ \A i \in 1 .. Len(ops) : more[i] = ops[i]
  <2>1. more \in Seq(Op) /\ Len(more) = Len(ops) + 1
    BY AppendProperties
  <2> QED BY <2>1, AppendProperties, LenProperties
<1> HIDE DEF more
<1>2. Replay(d, ops)[t] # NoTable <=> d[t] # NoTable \/ \E j \in 1 .. Len(ops) : ops[j] = Create(t)
  BY <1>1, ReplayExists DEF Occurs
<1> DEFINE Kept(s, i) ==
  s[i].table = t /\ s[i].type # "create" =>
    d[t] # NoTable \/ \E j \in 1 .. i - 1 : s[j] = Create(t)
<1>3. \A i \in 1 .. Len(ops) : Kept(more, i) <=> Kept(ops, i)
  <2>1. \A i \in 1 .. Len(ops) : \A j \in 1 .. i - 1 : more[j] = ops[j]
    BY <1>1
  <2>2. \A i \in 1 .. Len(ops) : more[i] = ops[i]
    BY <1>1
  <2> QED BY <2>1, <2>2
<1>4. Kept(more, Len(ops) + 1) <=> (op.table = t /\ op.type # "create" => Replay(d, ops)[t] # NoTable)
  <2>1. Len(ops) + 1 - 1 = Len(ops) /\ \A j \in 1 .. Len(ops) : more[j] = ops[j]
    BY <1>1
  <2> QED BY <1>1, <1>2, <2>1
<1>5. NoSkip(d, more, t) <=> \A i \in 1 .. Len(ops) + 1 : Kept(more, i)
  BY <1>1 DEF NoSkip
<1>6. NoSkip(d, ops, t) <=> \A i \in 1 .. Len(ops) : Kept(ops, i)
  BY <1>1 DEF NoSkip
<1> HIDE DEF Kept
<1>7. \A i \in 1 .. Len(ops) + 1 : i \in 1 .. Len(ops) \/ i = Len(ops) + 1
  BY <1>1
<1>8. Len(ops) + 1 \in 1 .. Len(ops) + 1 /\ \A i \in 1 .. Len(ops) : i \in 1 .. Len(ops) + 1
  BY <1>1
<1>9. NoSkip(d, more, t) <=> NoSkip(d, ops, t) /\ Kept(more, Len(ops) + 1)
  BY <1>3, <1>5, <1>6, <1>7, <1>8, Zenon
<1> QED BY <1>4, <1>9 DEF more

(* A replay that is cut short skips nothing either. *)
LEMMA NoSkipPrefix ==
  ASSUME NEW d, NEW t, NEW ops \in Seq(Op), NEW n \in 0 .. Len(ops), NoSkip(d, ops, t)
  PROVE  NoSkip(d, SubSeq(ops, 1, n), t)
<1>1. Len(ops) \in Nat /\ DOMAIN ops = 1 .. Len(ops) /\ \A i \in 1 .. Len(ops) : ops[i] \in Op
  BY LenProperties, ElementOfSeq
<1> DEFINE part == SubSeq(ops, 1, n)
<1>2. DOMAIN part = 1 .. n /\ \A i \in 1 .. n : part[i] = ops[i]
  <2>1. 1 \in Int /\ n \in Nat /\ n - 1 + 1 = n /\ \A i \in 1 .. n : ops[i] \in Op
    BY <1>1
  <2>2. part \in Seq(Op) /\ Len(part) = n /\ \A i \in 1 .. n : part[i] = ops[i]
    BY <2>1, SubSeqProperties
  <2> QED BY <2>2, LenProperties
<1> HIDE DEF part
<1>3. NoSkip(d, part, t)
  <2> SUFFICES ASSUME NEW i \in 1 .. n, part[i].table = t, part[i].type # "create", d[t] = NoTable
               PROVE  \E j \in 1 .. i - 1 : part[j] = Create(t)
    BY <1>2 DEF NoSkip
  <2>1. i \in DOMAIN ops /\ ops[i].table = t /\ ops[i].type # "create"
    BY <1>1, <1>2
  <2>2. PICK j \in 1 .. i - 1 : ops[j] = Create(t)
    BY <2>1 DEF NoSkip
  <2>3. j \in 1 .. n
    BY <1>1
  <2> QED BY <1>2, <2>2, <2>3
<1> QED BY <1>3 DEF part

(* Nor does one over tables among which the table exists already. *)
LEMMA NoSkipMore ==
  ASSUME NEW d, NEW e, NEW t, NEW ops, NoSkip(d, ops, t), d[t] # NoTable => e[t] # NoTable
  PROVE  NoSkip(e, ops, t)
BY DEF NoSkip

(* The content of a table, seen through the operations on it alone. *)
LEMMA ReplayAppendAt ==
  ASSUME NEW d \in Snapshots, NEW t \in Tables, NEW ops \in Seq(Op), NEW op \in Op
  PROVE  /\ Replay(d, Append(ops, op))[t] =
              IF op.table = t THEN OnTable(Replay(d, ops)[t], op) ELSE Replay(d, ops)[t]
         /\ Replay(d, ops)[t] \in TableData \cup {NoTable}
<1>1. Replay(d, ops) \in Snapshots
  BY ReplayType
<1> QED BY <1>1, ReplayAppend, ReplayOneOnTable DEF Snapshots

(* Two contents of a table that differ at most under one key. *)
ApartAt(c, e, key) ==
  /\ c = NoTable <=> e = NoTable
  /\ c # NoTable => \A k \in Keys : k # key => c[k] = e[k]

(* They stay so, and are equal once that key is written or deleted. *)
LEMMA OnTableApart ==
  ASSUME NEW c \in TableData \cup {NoTable}, NEW e \in TableData \cup {NoTable}, NEW key \in Keys,
         ApartAt(c, e, key), NEW op \in Op
  PROVE  /\ ApartAt(OnTable(c, op), OnTable(e, op), key)
         /\ c = e \/ (op.type # "create" /\ op.key = key) => OnTable(c, op) = OnTable(e, op)
<1>1. CASE c = NoTable
  <2>1. e = NoTable /\ c = e
    BY <1>1 DEF ApartAt
  <2> QED BY <2>1 DEF ApartAt
<1>2. CASE c # NoTable /\ op.type = "create"
  BY <1>2 DEF ApartAt, OnTable
<1>3. CASE c # NoTable /\ op.type # "create"
  <2> DEFINE v == IF op.type = "write" THEN op.value ELSE Absent
  <2>1. c \in TableData /\ e \in TableData /\ e # NoTable /\ op.key \in Keys
    BY <1>3, OpParts DEF ApartAt
  <2>2. OnTable(c, op) = [c EXCEPT ![op.key] = v] /\ OnTable(e, op) = [e EXCEPT ![op.key] = v]
    BY <1>3, <2>1 DEF OnTable
  <2>3. OnTable(c, op) # NoTable /\ OnTable(e, op) # NoTable
    BY <1>3, <2>1, OnTableType
  <2> HIDE DEF v
  <2>4. \A k \in Keys : OnTable(c, op)[k] = (IF k = op.key THEN v ELSE c[k])
                     /\ OnTable(e, op)[k] = (IF k = op.key THEN v ELSE e[k])
    BY <2>1, <2>2 DEF TableData
  <2>5. ApartAt(OnTable(c, op), OnTable(e, op), key)
    BY <1>3, <2>3, <2>4 DEF ApartAt
  <2>6. ASSUME c = e \/ op.key = key PROVE OnTable(c, op) = OnTable(e, op)
    <3>1. CASE c = e
      BY <3>1
    <3>2. CASE op.key = key
      <4>1. \A k \in Keys : k # key => c[k] = e[k]
        BY <1>3 DEF ApartAt
      <4>2. \A k \in Keys : OnTable(c, op)[k] = OnTable(e, op)[k]
        BY <2>4, <3>2, <4>1
      <4>3. DOMAIN OnTable(c, op) = Keys /\ DOMAIN OnTable(e, op) = Keys
        BY <2>1, <2>2 DEF TableData
      <4>4. OnTable(c, op) = [k \in Keys |-> OnTable(c, op)[k]] /\ OnTable(e, op) = [k \in Keys |-> OnTable(e, op)[k]]
        BY <2>1, <2>2 DEF TableData
      <4> QED BY <4>2, <4>4
    <3> QED BY <2>6, <3>1, <3>2
  <2> QED BY <2>5, <2>6
<1> QED BY <1>1, <1>2, <1>3

(* A write or a delete that is replayed again further on has no effect the
   first time. *)
LEMMA AbsorbsRecord ==
  ASSUME NEW d \in Snapshots, NEW t \in Tables, NEW op \in Op, op.table = t, op.type # "create"
  PROVE  \A ops \in Seq(Op) :
           Occurs(op, ops) => Replay(ReplayOne(d, op), ops)[t] = Replay(d, ops)[t]
<1> DEFINE a(ops) == Replay(d, ops)[t]
           b(ops) == Replay(ReplayOne(d, op), ops)[t]
           T == {ops \in Seq(Op) : /\ ApartAt(a(ops), b(ops), op.key)
                                   /\ Occurs(op, ops) => a(ops) = b(ops)}
<1>0. op.key \in Keys /\ ReplayOne(d, op) \in Snapshots
  BY OpParts, ReplayOneType
<1>1. <<>> \in T
  <2>1. a(<<>>) = d[t] /\ b(<<>>) = OnTable(d[t], op)
    BY ReplayNothing, ReplayOneOnTable
  <2>2. d[t] \in TableData \cup {NoTable}
    BY DEF Snapshots
  <2>3. ApartAt(d[t], OnTable(d[t], op), op.key)
    <3>1. CASE d[t] = NoTable
      BY <3>1 DEF ApartAt, OnTable
    <3>2. CASE d[t] # NoTable
      <4>1. OnTable(d[t], op) # NoTable
        BY <2>2, <3>2, OnTableType
      <4>2. \A k \in Keys : k # op.key => d[t][k] = OnTable(d[t], op)[k]
        BY <2>2, <3>2 DEF OnTable, TableData
      <4> QED BY <3>2, <4>1, <4>2 DEF ApartAt
    <3> QED BY <3>1, <3>2
  <2> HIDE DEF a, b
  <2> QED BY <2>1, <2>3, EmptySeq DEF Occurs
<1>2. ASSUME NEW ops \in Seq(Op), NEW e \in Op, ops \in T PROVE Append(ops, e) \in T
  <2>1. /\ a(ops) \in TableData \cup {NoTable} /\ b(ops) \in TableData \cup {NoTable}
        /\ a(Append(ops, e)) = IF e.table = t THEN OnTable(a(ops), e) ELSE a(ops)
        /\ b(Append(ops, e)) = IF e.table = t THEN OnTable(b(ops), e) ELSE b(ops)
    BY <1>0, ReplayAppendAt
  <2>2. Occurs(op, Append(ops, e)) <=> Occurs(op, ops) \/ op = e
    BY OccursAppend
  <2>3. Append(ops, e) \in Seq(Op)
    BY AppendProperties
  <2>4. ApartAt(a(ops), b(ops), op.key) /\ (Occurs(op, ops) => a(ops) = b(ops))
    BY <1>2
  <2> HIDE DEF a, b
  <2>5. CASE e.table = t
    <3>1. a(Append(ops, e)) = OnTable(a(ops), e) /\ b(Append(ops, e)) = OnTable(b(ops), e)
      BY <2>1, <2>5
    <3>2. /\ ApartAt(OnTable(a(ops), e), OnTable(b(ops), e), op.key)
          /\ a(ops) = b(ops) \/ (e.type # "create" /\ e.key = op.key) =>
               OnTable(a(ops), e) = OnTable(b(ops), e)
      BY <1>0, <2>1, <2>4, OnTableApart
    <3> QED BY <2>2, <2>3, <2>4, <3>1, <3>2
  <2>6. CASE e.table # t
    BY <2>1, <2>2, <2>3, <2>4, <2>6
  <2> QED BY <2>5, <2>6
<1> HIDE DEF T
<1>3. Seq(Op) \subseteq T
  BY <1>1, <1>2, SequenceInduction
<1> QED BY <1>3 DEF T

(* So does the creation of a table, when nothing is written to it before. *)
LEMMA AbsorbsCreate ==
  ASSUME NEW d \in Snapshots, NEW t \in Tables, d[t] = NoTable
  PROVE  \A ops \in Seq(Op) :
           Occurs(Create(t), ops) /\ NoSkip(d, ops, t) =>
             Replay(ReplayOne(d, Create(t)), ops)[t] = Replay(d, ops)[t]
<1> DEFINE a(ops) == Replay(d, ops)[t]
           b(ops) == Replay(ReplayOne(d, Create(t)), ops)[t]
           T == {ops \in Seq(Op) :
                   NoSkip(d, ops, t) => b(ops) = IF a(ops) = NoTable THEN EmptyTable ELSE a(ops)}
<1>0. Create(t) \in Op /\ ReplayOne(d, Create(t)) \in Snapshots /\ EmptyTable # NoTable
  <2>1. Create(t) \in Op
    BY DEF Create, Op, CreateOp
  <2> QED BY <2>1, EmptyTableType, ReplayOneType
<1>1. <<>> \in T
  <2>1. b(<<>>) = OnTable(d[t], Create(t)) /\ a(<<>>) = d[t]
    BY <1>0, ReplayNothing, ReplayOneOnTable DEF Create
  <2> HIDE DEF a, b
  <2> QED BY <2>1, EmptySeq DEF OnTable, Create
<1>2. ASSUME NEW ops \in Seq(Op), NEW e \in Op, ops \in T PROVE Append(ops, e) \in T
  <2> SUFFICES ASSUME NoSkip(d, Append(ops, e), t)
               PROVE  b(Append(ops, e)) = IF a(Append(ops, e)) = NoTable THEN EmptyTable
                                                                        ELSE a(Append(ops, e))
    BY AppendProperties
  <2>1. /\ a(ops) \in TableData \cup {NoTable}
        /\ a(Append(ops, e)) = IF e.table = t THEN OnTable(a(ops), e) ELSE a(ops)
        /\ b(Append(ops, e)) = IF e.table = t THEN OnTable(b(ops), e) ELSE b(ops)
    BY <1>0, ReplayAppendAt
  <2>2. NoSkip(d, ops, t) /\ (e.table = t /\ e.type # "create" => a(ops) # NoTable)
    BY NoSkipAppend
  <2>3. b(ops) = IF a(ops) = NoTable THEN EmptyTable ELSE a(ops)
    BY <1>2, <2>2
  <2> HIDE DEF a, b
  <2>4. CASE e.table = t /\ a(ops) = NoTable
    BY <1>0, <2>1, <2>2, <2>3, <2>4 DEF OnTable
  <2>5. CASE e.table = t /\ a(ops) # NoTable
    BY <2>1, <2>3, <2>5, OnTableType
  <2>6. CASE e.table # t
    BY <2>1, <2>3, <2>6
  <2> QED BY <2>4, <2>5, <2>6
<1>3. Seq(Op) \subseteq T
  <2> HIDE DEF T
  <2> QED BY <1>1, <1>2, SequenceInduction
<1>4. \A ops \in Seq(Op) : Occurs(Create(t), ops) => a(ops) # NoTable
  BY ReplayExists
<1> HIDE DEF a, b
<1>5. \A ops \in Seq(Op) : Occurs(Create(t), ops) /\ NoSkip(d, ops, t) => b(ops) = a(ops)
  BY <1>3, <1>4
<1> QED BY <1>5 DEF a, b

(* An operation that is replayed again further on has no effect the first time. *)
LEMMA Absorbs ==
  ASSUME NEW d \in Snapshots, NEW t \in Tables, NEW ops \in Seq(Op), NEW op \in Op,
         Occurs(op, ops), NoSkip(d, ops, t)
  PROVE  Replay(ReplayOne(d, op), ops)[t] = Replay(d, ops)[t]
<1>1. CASE op.table # t
  BY <1>1, ReplayLocal, ReplayOneOnTable, ReplayOneType
<1>2. CASE op.table = t /\ op.type # "create"
  BY <1>2, AbsorbsRecord
<1>3. CASE op.table = t /\ op.type = "create" /\ d[t] = NoTable
  BY <1>3, AbsorbsCreate, OpParts
<1>4. CASE op.table = t /\ op.type = "create" /\ d[t] # NoTable
  <2>1. ReplayOne(d, op)[t] = d[t]
    BY <1>4, ReplayOneOnTable DEF OnTable
  <2> QED BY <2>1, ReplayLocal, ReplayOneType
<1> QED BY <1>1, <1>2, <1>3, <1>4

(* Replaying operations again over what they made changes nothing. *)
LEMMA ReplayTwice ==
  ASSUME NEW d \in Snapshots, NEW t \in Tables, NEW ops \in Seq(Op), NoSkip(d, ops, t)
  PROVE  Replay(Replay(d, ops), ops)[t] = Replay(d, ops)[t]
<1> DEFINE T == {s \in Seq(Op) : (\A i \in DOMAIN s : Occurs(s[i], ops)) =>
                                     Replay(Replay(d, s), ops)[t] = Replay(d, ops)[t]}
<1>1. <<>> \in T
  BY EmptySeq, ReplayNothing
<1>2. ASSUME NEW s \in Seq(Op), NEW op \in Op, s \in T PROVE Append(s, op) \in T
  <2> DEFINE more == Append(s, op)
  <2>1. /\ more \in Seq(Op) /\ DOMAIN more = 1 .. Len(s) + 1 /\ more[Len(s) + 1] = op
        /\ Len(s) \in Nat /\ DOMAIN s = 1 .. Len(s) /\ \A i \in 1 .. Len(s) : more[i] = s[i]
    <3>1. more \in Seq(Op) /\ Len(more) = Len(s) + 1
      BY AppendProperties
    <3> QED BY <3>1, AppendProperties, LenProperties
  <2>2. Replay(d, more) = ReplayOne(Replay(d, s), op)
    BY ReplayAppend
  <2> HIDE DEF more
  <2> SUFFICES ASSUME \A i \in DOMAIN more : Occurs(more[i], ops)
               PROVE  Replay(Replay(d, more), ops)[t] = Replay(d, ops)[t]
    BY <2>1 DEF more
  <2>3. Occurs(op, ops) /\ \A i \in DOMAIN s : Occurs(s[i], ops)
    <3>1. Len(s) + 1 \in DOMAIN more /\ \A i \in DOMAIN s : i \in DOMAIN more /\ more[i] = s[i]
      BY <2>1
    <3> QED BY <2>1, <3>1
  <2>4. Replay(Replay(d, s), ops)[t] = Replay(d, ops)[t]
    BY <1>2, <2>3
  <2>5. Replay(d, s) \in Snapshots /\ NoSkip(Replay(d, s), ops, t)
    BY ReplayType, ReplayExists, NoSkipMore
  <2> QED BY <2>2, <2>3, <2>4, <2>5, Absorbs
<1> HIDE DEF T
<1>3. Seq(Op) \subseteq T
  BY <1>1, <1>2, SequenceInduction
<1> QED BY <1>3 DEF T, Occurs

(* A record is as the operations up to some point left it, when none behind
   that point is on it. *)
LEMMA ReplayUntouched ==
  ASSUME NEW d \in Snapshots, NEW t \in Tables, NEW k \in Keys, NEW ops \in Seq(Op),
         NEW n \in 0 .. Len(ops), \A i \in n + 1 .. Len(ops) : ~Touches(ops[i], t, k)
  PROVE  Cell(Replay(d, SubSeq(ops, 1, n)), t, k) = Cell(Replay(d, ops), t, k)
<1> DEFINE part(m) == SubSeq(ops, 1, m)
<1> DEFINE T == {m \in Nat : n + m <= Len(ops) =>
                   Cell(Replay(d, part(n + m)), t, k) = Cell(Replay(d, part(n)), t, k)}
<1>0. Len(ops) \in Nat /\ n \in Nat /\ \A i \in 1 .. Len(ops) : ops[i] \in Op
  BY LenProperties, ElementOfSeq
<1>1. 0 \in T
  BY <1>0
<1>2. ASSUME NEW m \in Nat, m \in T PROVE m + 1 \in T
  <2> SUFFICES ASSUME n + (m + 1) <= Len(ops)
               PROVE  Cell(Replay(d, part(n + (m + 1))), t, k) = Cell(Replay(d, part(n)), t, k)
    OBVIOUS
  <2> DEFINE p == n + m
  <2>1. p \in Nat /\ p + 1 = n + (m + 1) /\ p + 1 \in 1 .. Len(ops) /\ p + 1 \in n + 1 .. Len(ops)
        /\ n + m <= Len(ops)
    BY <1>0
  <2>2. part(p) \in Seq(Op) /\ part(p + 1) = Append(part(p), ops[p + 1])
    <3>1. /\ part(p) \in Seq(Op) /\ Len(part(p)) = p
          /\ \A i \in 1 .. p : part(p)[i] = ops[i]
      <4>1. 1 \in Int /\ p - 1 + 1 = p /\ \A i \in 1 .. p : ops[i] \in Op
        BY <1>0, <2>1
      <4> HIDE DEF p
      <4> QED BY <2>1, <4>1, SubSeqProperties
    <3>2. /\ part(p + 1) \in Seq(Op) /\ Len(part(p + 1)) = p + 1
          /\ \A i \in 1 .. p + 1 : part(p + 1)[i] = ops[i]
      <4>1. 1 \in Int /\ p + 1 \in Nat /\ p + 1 - 1 + 1 = p + 1 /\ \A i \in 1 .. p + 1 : ops[i] \in Op
        BY <1>0, <2>1
      <4> HIDE DEF p
      <4> QED BY <2>1, <4>1, SubSeqProperties
    <3> HIDE DEF p, part
    <3>3. ops[p + 1] \in Op /\ part(p + 1)[p + 1] = ops[p + 1] /\ \A i \in 1 .. p : part(p + 1)[i] = part(p)[i]
      BY <1>0, <2>1, <3>1, <3>2
    <3> QED BY <3>1, <3>2, <3>3, CompleteFrame
  <2> HIDE DEF p, part
  <2>3. Cell(Replay(d, part(p)), t, k) = Cell(Replay(d, part(n)), t, k)
    BY <1>2, <2>1 DEF p
  <2>4. ops[p + 1] \in Op /\ ~Touches(ops[p + 1], t, k)
    BY <1>0, <2>1
  <2>5. /\ Replay(d, part(p + 1))[t] = IF ops[p + 1].table = t THEN OnTable(Replay(d, part(p))[t], ops[p + 1])
                                                               ELSE Replay(d, part(p))[t]
        /\ Replay(d, part(p))[t] \in TableData \cup {NoTable}
    <3> DEFINE s == part(p)
               op == ops[p + 1]
    <3>1. s \in Seq(Op) /\ op \in Op /\ part(p + 1) = Append(s, op)
      BY <2>2, <2>4
    <3> HIDE DEF s, op
    <3>2. /\ Replay(d, Append(s, op))[t] = IF op.table = t THEN OnTable(Replay(d, s)[t], op) ELSE Replay(d, s)[t]
          /\ Replay(d, s)[t] \in TableData \cup {NoTable}
      BY <3>1, ReplayAppendAt
    <3> QED BY <3>1, <3>2 DEF s, op
  <2>6. Cell(Replay(d, part(p + 1)), t, k) = Cell(Replay(d, part(p)), t, k)
    <3>1. CASE ops[p + 1].table # t
      BY <2>5, <3>1 DEF Cell
    <3>2. CASE ops[p + 1].table = t
      <4>1. ops[p + 1].type # "create" /\ ops[p + 1].key # k
        BY <2>4, <3>2 DEF Touches
      <4>2. CASE Replay(d, part(p))[t] = NoTable
        BY <2>5, <3>2, <4>1, <4>2 DEF OnTable, Cell
      <4>3. CASE Replay(d, part(p))[t] # NoTable
        <5>1. OnTable(Replay(d, part(p))[t], ops[p + 1]) # NoTable
          BY <2>4, <2>5, <4>3, OnTableType
        <5>2. OnTable(Replay(d, part(p))[t], ops[p + 1])[k] = Replay(d, part(p))[t][k]
          BY <2>5, <4>1, <4>3 DEF OnTable, TableData
        <5> QED BY <2>5, <3>2, <4>3, <5>1, <5>2 DEF Cell
      <4> QED BY <4>2, <4>3
    <3> QED BY <3>1, <3>2
  <2> QED BY <2>1, <2>3, <2>6
<1>3. Len(ops) - n \in T
  <2>1. Len(ops) - n \in Nat
    BY <1>0
  <2> HIDE DEF T
  <2> QED BY <1>1, <1>2, <2>1, NumberInduction
<1>4. n + (Len(ops) - n) = Len(ops) /\ part(Len(ops)) = ops
  BY <1>0, SubSeqFull
<1>5. n + (Len(ops) - n) <= Len(ops)
  BY <1>0
<1> HIDE DEF part
<1>6. Cell(Replay(d, part(n + (Len(ops) - n))), t, k) = Cell(Replay(d, part(n)), t, k)
  BY <1>3, <1>5
<1>7. Cell(Replay(d, ops), t, k) = Cell(Replay(d, part(n)), t, k)
  BY <1>4, <1>6
<1> QED BY <1>7 DEF part

----------------------------------------------------------------------------
(* The whole frames of the WAL file: all but the one whose header was just
   written. *)
HeaderOut == \E f \in Flushers : step[f] = "payload"
Whole     == IF HeaderOut THEN SubSeq(file, 1, Len(file) - 1) ELSE file

(* What a flush has taken and not yet written. *)
Held == taken["syncer"] \o taken["closer"]

(* Everything that was logged since the last truncation, in order. *)
Line == (Whole \o Held) \o buffered

(* The wal-sync thread and the closing thread flush, one after the other, and
   nothing is logged before the process is up. *)
ThreadInv ==
  /\ ~Up => pc = ThreadStart /\ buffered = <<>> /\ \A f \in Flushers : step[f] = "idle"
  /\ pc["closer"] \in {"save", "clear", "sync", "finish", "closed"} => ThreadsJoined
  /\ step["syncer"] # "idle" => pc["syncer"] = "flush"
  /\ step["closer"] # "idle" => pc["closer"] = "finish"
  /\ pc["closer"] \in {"finish", "closed"} /\ ~late => buffered = <<>>
  /\ open <=> ~Closed

(* Before start-up no thread runs. *)
LEMMA InitThreadInv == Init => ThreadInv
BY DEF Init, ThreadInv, Up, Closed, W!WALInit, ThreadStart, ThreadsJoined, Flushers

(* A thread that goes on, while it is not waited for or already joined. *)
LEMMA ThreadGoes ==
  ASSUME TypeInv, ThreadInv, Up, Up',
         NEW th \in Threads \cup {"direct", "importer"}, NEW label \in Labels, Goto(th, label),
         th \in Threads => pc[th] # "exit",
         th = "syncer" => label = "flush" \/ step'["syncer"] = "idle",
         step'["closer"] = step["closer"], open' = open,
         th # "syncer" => step'["syncer"] = step["syncer"],
         late => late', \/ buffered' = buffered
                        \/ late'
                        \/ pc["closer"] \notin {"finish", "closed"}
                        \/ th \in Threads
  PROVE  ThreadInv'
<1>1. pc \in [Threads \cup {"direct", "importer", "closer"} -> Labels]
  BY DEF TypeInv, TypeOK, Labels
<1>2. \A g \in Threads \cup {"direct", "importer", "closer"} :
        pc'[g] = IF g = th THEN label ELSE pc[g]
  BY <1>1 DEF Goto
<1>3. pc'["closer"] = pc["closer"] /\ "syncer" \in Threads
  BY <1>2 DEF Threads
<1>4. CASE th \in Threads
  <2>1. ~ThreadsJoined
    BY <1>4 DEF ThreadsJoined
  <2>2. pc["closer"] \notin {"save", "clear", "sync", "finish", "closed"}
    BY <2>1 DEF ThreadInv
  <2>3. step'["syncer"] # "idle" => pc'["syncer"] = "flush"
    BY <1>2, <1>3, <1>4 DEF ThreadInv
  <2> QED BY <1>3, <2>2, <2>3 DEF ThreadInv, Closed, Up
<1>5. CASE th \notin Threads
  <2>1. (ThreadsJoined => ThreadsJoined') /\ pc'["syncer"] = pc["syncer"] /\ UNCHANGED <<step["syncer"], step["closer"]>>
    BY <1>2, <1>3, <1>5 DEF ThreadsJoined, Threads
  <2> QED BY <1>3, <1>5, <2>1 DEF ThreadInv, Closed, Up
<1> QED BY <1>4, <1>5

(* Steps that move no thread. *)
LEMMA ThreadsStay ==
  ASSUME ThreadInv, Up' = Up, UNCHANGED <<pc, buffered, late, open>>,
         step' = step \/ (Up /\ \E f \in Flushers : step[f] # "idle" /\ \A g \in Flushers : g # f => step'[g] = step[g])
  PROVE  ThreadInv'
BY DEF ThreadInv, ThreadsJoined, Closed, Flushers

(* The thread in a flush is in it alone, and the file is open: a flush does not
   raise here. *)
LEMMA Alone ==
  ASSUME TypeInv, ThreadInv, NEW f \in Flushers, step[f] # "idle"
  PROVE  open /\ Up /\ \A g \in Flushers : g # f => step[g] = "idle"
<1>1. step["closer"] # "idle" => pc["syncer"] = "exit"
  BY DEF ThreadInv, ThreadsJoined, Threads
<1>2. step["syncer"] # "idle" /\ step["closer"] # "idle" => FALSE
  BY <1>1 DEF ThreadInv
<1>3. Up
  BY DEF ThreadInv
<1>4. ~Closed
  <2>1. Closed => ThreadsJoined
    BY DEF ThreadInv, Closed
  <2> QED BY <2>1 DEF ThreadInv, ThreadsJoined, Threads, Closed, Flushers
<1> QED BY <1>2, <1>3, <1>4 DEF ThreadInv, Flushers

(* So are the steps of a flush. *)
LEMMA FlushStepStays ==
  ASSUME TypeInv, ThreadInv, NEW f \in Flushers, FlushStep(f)
  PROVE  ThreadInv'
<1>1. UNCHANGED <<pc, buffered, late, open, phase>> /\ Up
  BY DEF FlushStep, W!FlushStep, W!WriteHeader, W!WritePayload, W!Fsync, W!FlushRaises, control, startup, history
<1>2. step[f] # "idle" /\ \A g \in Flushers : g # f => step'[g] = step[g]
  BY DEF FlushStep, W!FlushStep, W!WriteHeader, W!WritePayload, W!Fsync, W!FlushRaises, TypeInv, TypeOK, W!WALTypeOK
<1> QED BY <1>1, <1>2, ThreadsStay DEF Up

(* It is inductive, given the types. *)
LEMMA NextThreadInv == TypeInv /\ ThreadInv /\ [Next]_vars => ThreadInv'
<1> SUFFICES ASSUME TypeInv, ThreadInv, [Next]_vars PROVE ThreadInv'
  OBVIOUS
<1>1. CASE Startup
  <2>1. UNCHANGED <<pc, buffered, step, late, open>> /\ ~Up
    BY <1>1 DEF Startup, Load, ReplayEntry, ReplayDone, Checkpoint, TruncateWAL, W!Truncate, control, wal,
       history, memory, Up
  <2> QED BY <2>1 DEF ThreadInv, ThreadsJoined, Closed, ThreadStart
<1>2. CASE Worker
  <2>1. CASE Take \/ LeaveLoop("worker")
    BY <2>1, ThreadsStay DEF Take, LeaveLoop, control, startup, history, wal, Up
  <2>2. CASE Process \/ MarkDirty \/ WorkerExit
    BY <2>2, ThreadGoes DEF Process, MarkDirty, WorkerExit, startup, history, wal, Up, Threads, Labels
  <2>3. CASE ApplyNext
    BY <2>3, ThreadGoes DEF ApplyNext, startup, wal, Up, Threads, Labels, W!AppendEntry
  <2> QED BY <1>2, <2>1, <2>2, <2>3 DEF Worker
<1>3. CASE Direct
  <2>1. CASE DirectNext
    <3>1. /\ Up /\ Up' /\ UNCHANGED <<step, open>> /\ (late => late')
          /\ buffered' = buffered \/ late' \/ pc["closer"] \notin {"finish", "closed"}
      BY <2>1 DEF DirectNext, startup, wal, Up, W!AppendEntry
    <3>2. Goto("direct", IF Len(direct) = 1 THEN "mark" ELSE "apply")
      BY <2>1 DEF DirectNext
    <3>3. (IF Len(direct) = 1 THEN "mark" ELSE "apply") \in Labels
      BY DEF Labels
    <3> QED BY <3>1, <3>2, <3>3, ThreadGoes DEF Threads
  <2>2. CASE DirectMark
    BY <2>2, ThreadGoes DEF DirectMark, startup, history, wal, Up, Threads, Labels
  <2> QED BY <1>3, <2>1, <2>2 DEF Direct
<1>4. CASE Saver
  <2>1. CASE LeaveLoop("saver")
    BY <2>1, ThreadsStay DEF LeaveLoop, startup, history, wal, Up
  <2>2. CASE SaverWakes \/ SaverExit \/ Save("saver") \/ ClearDirty("saver")
    <3>1. AfterFlush("saver") \in {"exit", "wait"}
      BY DEF AfterFlush
    <3> QED BY <2>2, <3>1, ThreadGoes DEF SaverWakes, SaverExit, Save, ClearDirty, startup, history, wal, Up, Threads, Labels
  <2> QED BY <1>4, <2>1, <2>2 DEF Saver
<1>5. CASE Watcher
  BY <1>5, ThreadGoes DEF Watcher, WatcherWakes, Reload, ReloadStat, WatcherExit, startup, history, wal, Up, Threads, Labels
<1>6. CASE Syncer
  <2>1. CASE LeaveLoop("syncer")
    BY <2>1, ThreadsStay DEF LeaveLoop, startup, history, wal, Up
  <2>2. CASE SyncerFlush
    BY <2>2, ThreadGoes DEF SyncerFlush, W!FlushTake, startup, history, Up, Threads, Flushers, Labels, TypeInv, TypeOK, W!WALTypeOK
  <2>3. CASE SyncerFlushed
    BY <2>3, ThreadGoes DEF SyncerFlushed, startup, history, wal, Up, Threads, Labels
  <2>4. CASE SyncerExit
    <3>1. step["syncer"] = "idle"
      BY <2>4 DEF SyncerExit, ThreadInv
    <3> QED BY <2>4, <3>1, ThreadGoes DEF SyncerExit, startup, history, wal, Up, Threads, Labels
  <2>5. CASE FlushStep("syncer")
    BY <2>5, FlushStepStays DEF Flushers
  <2> QED BY <1>6, <2>1, <2>2, <2>3, <2>4, <2>5 DEF Syncer
<1>7. CASE Importer
  <2>1. AfterFlush("importer") \in {"idle"}
    BY DEF AfterFlush
  <2> QED BY <1>7, <2>1, ThreadGoes DEF Importer, ImportMark, Save, ClearDirty, startup, history, wal, Up, Threads, Labels
<1>8. CASE Closer
  <2>0. pc \in [Threads \cup {"direct", "importer", "closer"} -> Labels] /\ AfterFlush("closer") = "sync"
    BY DEF TypeInv, TypeOK, Labels, AfterFlush
  <2> USE DEF ThreadsJoined, Threads, Closed, Up, Goto
  <2>1. CASE Join
    BY <2>0, <2>1 DEF ThreadInv, Join, startup, history, wal
  <2>2. CASE Save("closer") \/ ClearDirty("closer")
    BY <2>0, <2>2 DEF ThreadInv, Save, ClearDirty, startup, history, wal
  <2>3. CASE CloserFlush
    <3>1. CASE buffered = <<>>
      BY <2>0, <2>3, <3>1 DEF ThreadInv, CloserFlush, FinalFlush, startup, history, wal
    <3>2. CASE buffered # <<>>
      BY <2>0, <2>3, <3>2 DEF ThreadInv, CloserFlush, FinalFlush, startup, history, W!FlushTake, W!EmptyBuffer, Flushers,
         TypeInv, TypeOK, W!WALTypeOK
    <3> QED BY <3>1, <3>2
  <2>4. CASE CloserFinish
    BY <2>0, <2>4 DEF ThreadInv, CloserFinish, W!CloseFile, startup, history
  <2>5. CASE FlushStep("closer")
    BY <2>5, FlushStepStays DEF Flushers
  <2> QED BY <1>8, <2>1, <2>2, <2>3, <2>4, <2>5 DEF Closer
<1>9. CASE Callers
  <2>1. ASSUME NEW op \in Op, Submit(op) PROVE ThreadInv'
    BY <2>1, ThreadsStay DEF Submit, control, startup, history, wal, Up
  <2>2. ASSUME NEW d \in Foreign, Import(d) \/ ForeignSave(d) PROVE ThreadInv'
    <3>1. CASE Import(d)
      BY <3>1, ThreadGoes DEF Import, GoesOn, startup, wal, Up, Threads, Labels
    <3>2. CASE ForeignSave(d)
      BY <3>2, ThreadsStay DEF ForeignSave, control, startup, history, wal, Up
    <3> QED BY <2>2, <3>1, <3>2
  <2>3. ASSUME NEW ops \in Changes, Begin(ops) PROVE ThreadInv'
    BY <2>3, ThreadGoes DEF Begin, startup, history, wal, Up, Threads, Labels
  <2>4. CASE BeginClose
    <3>0. pc \in [Threads \cup {"direct", "importer", "closer"} -> Labels]
      BY DEF TypeInv, TypeOK, Labels
    <3> QED BY <2>4, <3>0 DEF ThreadInv, ThreadsJoined, Threads, Closed, BeginClose, startup, history, wal, Up, Goto
  <2>5. CASE Ask
    BY <2>5, ThreadsStay DEF Ask, control, startup, history, wal, Up
  <2> QED BY <1>9, <2>1, <2>2, <2>3, <2>4, <2>5 DEF Callers, WriteBatch, Commit
<1>10. CASE Crash \/ Reopen
  <2>1. /\ pc' = ThreadStart /\ late' = FALSE /\ buffered' = <<>> /\ open' = TRUE
        /\ \A f \in Flushers : step'[f] = "idle"
    BY <1>10 DEF Crash, Reopen, NewProcess, W!FileOpened
  <2>2. "syncer" \in Flushers /\ "closer" \in Flushers /\ ThreadStart["closer"] = "idle"
    BY DEF Flushers, ThreadStart
  <2> QED BY <2>1, <2>2 DEF ThreadInv, Closed
<1>11. CASE UNCHANGED vars
  BY <1>11, ThreadsStay DEF vars, control, startup, history, wal, Up
<1> QED BY <1>1, <1>2, <1>3, <1>4, <1>5, <1>6, <1>7, <1>8, <1>9, <1>10, <1>11 DEF Next

(* What a flush holds, and what it has written: whole frames, and one header
   at most. *)
FileInv ==
  /\ \A f \in Flushers : taken[f] = <<>> <=> step[f] \in {"idle", "fsync"}
  /\ Whole \in Seq(Op) /\ synced <= Len(Whole)
  /\ HeaderOut => file = Append(Whole, Torn)
  /\ \A f \in Flushers : step[f] = "payload" => header[f] = Len(file)

(* With readable frames, read_all returns all of them up to a torn one. *)
LEMMA ReadAllWhole ==
  ASSUME NEW s \in Seq(Op)
  PROVE  W!ReadAll(s) = s /\ W!ReadAll(Append(s, Torn)) = s
<1> DEFINE t == Append(s, Torn)
<1> DEFINE kept(u) == {i \in DOMAIN u : \A j \in 1 .. i : W!Readable(u[j])}
<1>1. Len(s) \in Nat /\ DOMAIN s = 1 .. Len(s) /\ \A i \in 1 .. Len(s) : s[i] \in Op
  BY LenProperties, ElementOfSeq
<1>2. \A i \in 1 .. Len(s) : W!Readable(s[i])
  BY <1>1, DatabaseAssumption DEF W!Readable
<1>3. /\ DOMAIN t = 1 .. Len(s) + 1 /\ t[Len(s) + 1] = Torn
      /\ \A i \in 1 .. Len(s) : t[i] = s[i]
  <2>1. s \in Seq(Op \cup {Torn}) /\ Torn \in Op \cup {Torn}
    BY <1>1, SeqMonotonic
  <2>2. t \in Seq(Op \cup {Torn}) /\ Len(t) = Len(s) + 1
    BY <2>1, AppendProperties
  <2>3. DOMAIN t = 1 .. Len(t)
    BY <2>2, LenProperties
  <2> QED BY <2>1, <2>2, <2>3, AppendProperties
<1>4. kept(s) = 1 .. Len(s)
  BY <1>1, <1>2
<1>5. kept(t) = 1 .. Len(s)
  <2>1. ~W!Readable(Torn)
    BY DEF W!Readable
  <2> HIDE DEF t
  <2>2. \A i \in kept(t) : i # Len(s) + 1
    BY <1>1, <1>3, <2>1
  <2> QED BY <1>1, <1>2, <1>3, <2>2
<1>6. Cardinality(1 .. Len(s)) = Len(s)
  <2>1. 1 \in Int /\ Len(s) \in Int /\ Len(s) - 1 + 1 = Len(s) /\ (1 > Len(s) => Len(s) = 0)
    BY <1>1
  <2> QED BY <2>1, FS_Interval
<1>7. SubSeq(s, 1, Len(s)) = s
  BY SubSeqFull
<1>8. SubSeq(t, 1, Len(s)) = s
  <2>1. \A i \in 1 .. Len(s) : t[i] \in Op
    BY <1>1, <1>3
  <2> HIDE DEF t
  <2>2. /\ SubSeq(t, 1, Len(s)) \in Seq(Op) /\ Len(SubSeq(t, 1, Len(s))) = Len(s)
        /\ \A i \in 1 .. Len(s) : SubSeq(t, 1, Len(s))[i] = t[i]
    BY <1>1, <2>1, SubSeqProperties
  <2> QED BY <1>3, <2>2, SeqEqual
<1>9. \A u : W!ReadAll(u) = SubSeq(u, 1, Cardinality(kept(u)))
  BY SameCardinality DEF W!ReadAll
<1> HIDE DEF t, kept
<1> QED BY <1>4, <1>5, <1>6, <1>7, <1>8, <1>9 DEF t

(* The parts of the line are sequences of operations. *)
LEMMA LineType ==
  ASSUME TypeInv, FileInv
  PROVE  /\ Held \in Seq(Op) /\ Whole \o Held \in Seq(Op) /\ Line \in Seq(Op)
         /\ Len(Line) = Len(Whole) + Len(Held) + Len(buffered)
         /\ Len(Whole) \in Nat /\ Len(Held) \in Nat /\ Len(buffered) \in Nat /\ synced \in Nat
         /\ \A n \in 0 .. Len(Whole) : SubSeq(Line, 1, n) = SubSeq(Whole, 1, n)
<1>1. taken["syncer"] \in Seq(Op) /\ taken["closer"] \in Seq(Op) /\ buffered \in Seq(Op) /\ synced \in Nat
  BY DEF TypeInv, TypeOK, W!WALTypeOK, Flushers
<1>2. Held \in Seq(Op) /\ Whole \in Seq(Op)
  BY <1>1, ConcatProperties DEF Held, FileInv
<1>3. Whole \o Held \in Seq(Op) /\ Len(Whole \o Held) = Len(Whole) + Len(Held)
  BY <1>2, ConcatProperties
<1>4. Line \in Seq(Op) /\ Len(Line) = Len(Whole \o Held) + Len(buffered)
  BY <1>1, <1>3, ConcatProperties DEF Line
<1>5. Len(Whole) \in Nat /\ Len(Held) \in Nat /\ Len(buffered) \in Nat
  BY <1>1, <1>2, LenProperties
<1>6. ASSUME NEW n \in 0 .. Len(Whole) PROVE SubSeq(Line, 1, n) = SubSeq(Whole, 1, n)
  <2>1. n \in 0 .. Len(Whole \o Held)
    BY <1>3, <1>5
  <2>2. SubSeq(Line, 1, n) = SubSeq(Whole \o Held, 1, n)
    BY <1>1, <1>3, <2>1, FirstPart DEF Line
  <2>3. SubSeq(Whole \o Held, 1, n) = SubSeq(Whole, 1, n)
    BY <1>2, FirstPart
  <2> QED BY <2>2, <2>3
<1> QED BY <1>1, <1>2, <1>3, <1>4, <1>5, <1>6

(* Without a flush and without anything buffered, the file is the line. *)
LEMMA QuietLine ==
  ASSUME TypeInv, FileInv, \A f \in Flushers : step[f] = "idle"
  PROVE  /\ ~HeaderOut /\ Whole = file /\ Held = <<>> /\ file \in Seq(Op) /\ synced <= Len(file)
         /\ Line = file \o buffered
         /\ buffered = <<>> => Line = file
<1>1. ~HeaderOut /\ Whole = file /\ file \in Seq(Op) /\ synced <= Len(file)
  BY DEF HeaderOut, Whole, FileInv
<1>2. <<>> \in Seq(Op) /\ Held = <<>> \o <<>>
  BY EmptySeq DEF FileInv, Flushers, Held
<1>3. Held = <<>>
  BY <1>2, ConcatEmptySeq
<1>4. file \o <<>> = file
  BY <1>1, ConcatEmptySeq
<1> QED BY <1>1, <1>3, <1>4 DEF Line

(* A new WAL is empty. *)
LEMMA InitFileInv == Init => FileInv /\ Line = <<>>
<1> SUFFICES ASSUME Init PROVE FileInv /\ Line = <<>>
  OBVIOUS
<1>1. /\ \A f \in Flushers : step[f] = "idle" /\ taken[f] = <<>>
      /\ file = <<>> /\ synced = 0 /\ buffered = <<>>
  BY DEF Init, W!WALInit
<1>2. <<>> \in Seq(Op) /\ Len(<<>>) = 0
  BY EmptySeq
<1>3. FileInv
  BY <1>1, <1>2 DEF FileInv, Whole, HeaderOut
<1> QED BY <1>1, <1>3, QuietLine, InitTypeInv

(* Steps that leave the frames and the flushes alone. *)
LEMMA SameFile ==
  ASSUME FileInv, UNCHANGED <<taken, step, header, file, synced>>
  PROVE  FileInv' /\ (buffered' = buffered => Line' = Line)
BY DEF FileInv, Whole, HeaderOut, Line, Held

(* append: the operation comes last in the line. *)
LEMMA AppendFile ==
  ASSUME TypeInv, FileInv, NEW op \in Op, W!AppendEntry(op)
  PROVE  FileInv' /\ Line' = Append(Line, op)
<1>1. buffered' = Append(buffered, op) /\ UNCHANGED <<taken, step, header, file, synced>>
  BY DEF W!AppendEntry
<1>2. Whole' = Whole /\ Held' = Held
  BY <1>1 DEF Whole, HeaderOut, Held
<1>3. Whole \o Held \in Seq(Op) /\ buffered \in Seq(Op)
  BY LineType DEF TypeInv, TypeOK, W!WALTypeOK
<1>4. Line' = Append(Line, op)
  BY <1>1, <1>2, <1>3, AppendRight DEF Line
<1> QED BY <1>1, <1>4, SameFile

(* flush takes the buffer: the border between what is held and what is buffered
   moves to the end. *)
LEMMA TakeFile ==
  ASSUME TypeInv, FileInv, NEW f \in Flushers, \A g \in Flushers : step[g] = "idle", W!FlushTake(f)
  PROVE  FileInv' /\ Line' = Line
<1>1. /\ buffered # <<>> /\ taken' = [taken EXCEPT ![f] = buffered] /\ buffered' = <<>>
      /\ step' = [step EXCEPT ![f] = "header"] /\ UNCHANGED <<header, file, synced>>
  BY DEF W!FlushTake, W!EmptyBuffer
<1>2. \A g \in Flushers : taken[g] = <<>>
  BY DEF FileInv
<1>3. \A g \in Flushers : /\ step'[g] = IF g = f THEN "header" ELSE "idle"
                          /\ taken'[g] = IF g = f THEN buffered ELSE <<>>
  BY <1>1, <1>2 DEF TypeInv, TypeOK, W!WALTypeOK
<1>4. ~HeaderOut /\ ~HeaderOut' /\ Whole' = Whole
  BY <1>1, <1>3 DEF HeaderOut, Whole
<1>5. FileInv'
  BY <1>1, <1>3, <1>4 DEF FileInv
<1>6. Line' = Line
  <2>1. <<>> \in Seq(Op) /\ buffered \in Seq(Op) /\ Whole = file /\ file \in Seq(Op) /\ Line = file \o buffered
    BY QuietLine, EmptySeq DEF TypeInv, TypeOK, W!WALTypeOK
  <2>2. Held' = buffered \o <<>> \/ Held' = <<>> \o buffered
    BY <1>3 DEF Held, Flushers
  <2>3. Held' = buffered
    BY <2>1, <2>2, ConcatEmptySeq
  <2>4. file \o buffered \in Seq(Op)
    BY <2>1, ConcatProperties
  <2>5. (file \o buffered) \o <<>> = file \o buffered
    BY <2>4, ConcatEmptySeq
  <2> QED BY <1>1, <1>4, <2>1, <2>3, <2>5 DEF Line
<1> QED BY <1>5, <1>6

(* The thread in a flush holds all that is held. *)
LEMMA AloneHolds ==
  ASSUME TypeInv, ThreadInv, FileInv, NEW f \in Flushers, step[f] # "idle"
  PROVE  Held = taken[f] /\ taken[f] \in Seq(Op) /\ (HeaderOut <=> step[f] = "payload")
<1>1. \A g \in Flushers : taken[g] \in Seq(Op) /\ (g # f => step[g] = "idle" /\ taken[g] = <<>>)
  BY Alone DEF FileInv, TypeInv, TypeOK, W!WALTypeOK
<1>2. Held = taken[f] \o <<>> \/ Held = <<>> \o taken[f]
  BY <1>1 DEF Held, Flushers
<1>3. Held = taken[f]
  BY <1>1, <1>2, ConcatEmptySeq
<1> QED BY <1>1, <1>3 DEF HeaderOut

(* The writes and the fsync of flush leave the line as it is. *)
LEMMA FlushFile ==
  ASSUME TypeInv, ThreadInv, FileInv, NEW f \in Flushers, W!FlushStep(f)
  PROVE  FileInv' /\ Line' = Line
<1>0. /\ file \in Seq(Op \cup {Torn}) /\ taken \in [Flushers -> Seq(Op)] /\ step \in [Flushers -> W!Steps]
      /\ header \in [Flushers -> Nat] /\ synced \in Nat
  BY DEF TypeInv, TypeOK, W!WALTypeOK
<1>1. step[f] # "idle"
  BY DEF W!FlushStep, W!WriteHeader, W!WritePayload, W!Fsync, W!FlushRaises
<1>2. /\ open /\ Held = taken[f] /\ taken[f] \in Seq(Op)
      /\ \A g \in Flushers : g # f => step[g] = "idle"
      /\ HeaderOut <=> step[f] = "payload"
  BY <1>1, Alone, AloneHolds
<1>3. CASE W!WriteHeader(f)
  <2>1. /\ step[f] = "header" /\ file' = Append(file, Torn)
        /\ header' = [header EXCEPT ![f] = Len(file) + 1]
        /\ step' = [step EXCEPT ![f] = "payload"]
        /\ UNCHANGED <<buffered, taken, synced>>
    BY <1>3 DEF W!WriteHeader
  <2>2. ~HeaderOut /\ Whole = file /\ file \in Seq(Op) /\ synced <= Len(file)
    BY <1>2, <2>1 DEF Whole, FileInv
  <2>3. \A g \in Flushers : step'[g] = IF g = f THEN "payload" ELSE "idle"
    BY <1>0, <1>2, <2>1
  <2>4. Len(file') = Len(file) + 1 /\ Len(file) \in Nat /\ SubSeq(file', 1, Len(file)) = file
    <3> DEFINE S == Op \cup {Torn}
    <3>1. file \in Seq(S) /\ <<Torn>> \in Seq(S) /\ Torn \in S
      BY <1>0
    <3> HIDE DEF S
    <3>2. file' = file \o <<Torn>> /\ Len(file) \in Nat /\ Len(file') = Len(file) + 1
      BY <2>1, <3>1, AppendProperties, LenProperties
    <3>3. Len(file) \in 0 .. Len(file)
      BY <3>2
    <3>4. SubSeq(file \o <<Torn>>, 1, Len(file)) = SubSeq(file, 1, Len(file))
      BY <3>1, <3>3, FirstPart
    <3> QED BY <3>1, <3>2, <3>4, SubSeqFull
  <2>5. HeaderOut' /\ Whole' = Whole
    <3>1. HeaderOut'
      BY <2>3 DEF HeaderOut
    <3>2. Len(file') - 1 = Len(file)
      BY <2>4
    <3> QED BY <2>2, <2>4, <3>1, <3>2 DEF Whole
  <2>6. FileInv'
    <3>1. \A g \in Flushers : taken'[g] = <<>> <=> step'[g] \in {"idle", "fsync"}
      BY <1>2, <2>1, <2>3 DEF FileInv
    <3>2. \A g \in Flushers : step'[g] = "payload" => header'[g] = Len(file')
      BY <1>0, <2>1, <2>3, <2>4
    <3> QED BY <2>1, <2>2, <2>5, <3>1, <3>2 DEF FileInv
  <2> QED BY <2>1, <2>5, <2>6 DEF Line, Held
<1>4. CASE W!WritePayload(f)
  <2>1. /\ step[f] = "payload" /\ header[f] = Len(file) /\ file = Append(Whole, Torn)
        /\ Whole \in Seq(Op) /\ taken[f] # <<>> /\ synced <= Len(Whole)
    BY <1>2, <1>4 DEF W!WritePayload, FileInv
  <2> DEFINE t == taken[f]
  <2>2. /\ t \in Seq(Op) /\ t # <<>> /\ Head(t) \in Op /\ Tail(t) \in Seq(Op)
        /\ Len(Tail(t)) = Len(t) - 1 /\ Len(t) \in Nat
    BY <1>2, <2>1, HeadTailProperties, LenProperties
  <2>3. /\ file' = [file EXCEPT ![Len(file)] = Head(t)]
        /\ taken' = [taken EXCEPT ![f] = Tail(t)]
        /\ step' = [step EXCEPT ![f] = IF Len(t) = 1 THEN "fsync" ELSE "header"]
        /\ UNCHANGED <<buffered, header, synced>>
    BY <1>4, <2>1 DEF W!WritePayload
  <2>4. Tail(t) = <<>> <=> Len(t) = 1
    BY <2>2, SingleTail
  <2> HIDE DEF t
  <2>5. file' = Append(Whole, Head(t))
    <3> DEFINE S == Op \cup {Torn}
    <3>1. Whole \in Seq(S) /\ Torn \in S /\ Head(t) \in S /\ file \in Seq(S)
      BY <1>0, <2>1, <2>2, SeqMonotonic
    <3>2. file' = [file EXCEPT ![Len(file)] = Head(t)] /\ file = Append(Whole, Torn)
      BY <2>1, <2>3
    <3> HIDE DEF Whole, S
    <3>3. /\ Len(file) = Len(Whole) + 1 /\ Len(Whole) \in Nat
          /\ \A i \in 1 .. Len(Whole) : file[i] = Whole[i]
      BY <3>1, <3>2, AppendProperties, LenProperties
    <3>4. Len(file) \in 1 .. Len(file)
      BY <3>3
    <3>5. /\ file' \in Seq(S) /\ Len(file') = Len(file)
          /\ \A j \in 1 .. Len(file) : file'[j] = IF j = Len(file) THEN Head(t) ELSE file[j]
      <4>1. file' = [file EXCEPT ![Len(file)] = Head(t)]
        BY <3>2
      <4> QED BY <4>1, <3>1, <3>4, ExceptSeq
    <3>6. file'[Len(Whole) + 1] = Head(t) /\ \A i \in 1 .. Len(Whole) : file'[i] = Whole[i]
      BY <3>3, <3>5
    <3> QED BY <3>1, <3>3, <3>5, <3>6, CompleteFrame
  <2>6. file' \in Seq(Op) /\ Len(file') = Len(Whole) + 1 /\ Len(Whole) \in Nat
    BY <2>1, <2>2, <2>5, AppendProperties, LenProperties
  <2>7. \A g \in Flushers : /\ step'[g] = IF g # f THEN "idle"
                                          ELSE IF Len(t) = 1 THEN "fsync" ELSE "header"
                            /\ taken'[g] = IF g = f THEN Tail(t) ELSE <<>>
    BY <1>0, <1>2, <2>3 DEF FileInv
  <2>8. ~HeaderOut' /\ Whole' = file'
    BY <2>7 DEF HeaderOut, Whole
  <2>9. FileInv'
    <3>1. \A g \in Flushers : taken'[g] = <<>> <=> step'[g] \in {"idle", "fsync"}
      BY <2>4, <2>7
    <3>2. synced' <= Len(file')
      BY <1>0, <2>1, <2>3, <2>6
    <3> QED BY <2>6, <2>7, <2>8, <3>1, <3>2 DEF FileInv
  <2>10. Held' = Tail(t)
    <3>1. Held' = Tail(t) \o <<>> \/ Held' = <<>> \o Tail(t)
      BY <2>7 DEF Held, Flushers
    <3> QED BY <2>2, <3>1, ConcatEmptySeq
  <2>11. Append(Whole, Head(t)) \o Tail(t) = Whole \o t
    BY <2>1, <2>2, MoveHead
  <2> QED BY <1>2, <2>3, <2>5, <2>8, <2>9, <2>10, <2>11 DEF Line, t
<1>5. CASE W!Fsync(f)
  <2>1. /\ step[f] = "fsync" /\ synced' = Len(file) /\ step' = [step EXCEPT ![f] = "idle"]
        /\ UNCHANGED <<buffered, taken, header, file>>
    BY <1>5 DEF W!Fsync
  <2>2. \A g \in Flushers : step'[g] = "idle"
    BY <1>0, <1>2, <2>1
  <2>3. ~HeaderOut /\ ~HeaderOut' /\ Whole = file /\ Whole' = Whole /\ Line' = Line
    BY <1>2, <2>1, <2>2 DEF HeaderOut, Whole, Line, Held
  <2>4. Len(file) \in Nat /\ file \in Seq(Op)
    BY <1>0, <2>3, LenProperties DEF FileInv
  <2>5. \A g \in Flushers : taken'[g] = <<>>
    BY <1>2, <2>1 DEF FileInv
  <2> QED BY <2>1, <2>2, <2>3, <2>4, <2>5 DEF FileInv
<1>6. CASE W!FlushRaises(f)
  BY <1>2, <1>6 DEF W!FlushRaises
<1> QED BY <1>3, <1>4, <1>5, <1>6 DEF W!FlushStep

(* What a new process finds is a first part of the line, with all that was
   synced. *)
LEMMA ReopenFile ==
  ASSUME TypeInv, FileInv, W!FileOpened, synced' = synced, ~TornWrites,
         W!LoseUnsynced \/ (file' = file /\ \A f \in Flushers : step[f] = "idle")
  PROVE  FileInv' /\ \E n \in 0 .. Len(Line) : Line' = SubSeq(Line, 1, n)
<1>1. /\ \A f \in Flushers : step'[f] = "idle" /\ taken'[f] = <<>>
      /\ buffered' = <<>> /\ ~HeaderOut' /\ Whole' = file'
  BY DEF W!FileOpened, HeaderOut, Whole
<1>2. /\ Whole \in Seq(Op) /\ Len(Whole) \in Nat /\ synced \in Nat /\ synced <= Len(Whole)
      /\ Line \in Seq(Op) /\ Len(Whole) <= Len(Line) /\ Len(Line) \in Nat
      /\ \A n \in 0 .. Len(Whole) : SubSeq(Line, 1, n) = SubSeq(Whole, 1, n)
      /\ file \in Seq(Op \cup {Torn}) /\ Len(file) \in Nat
  <2>1. Whole \in Seq(Op) /\ synced <= Len(Whole)
    BY DEF FileInv
  <2>2. file \in Seq(Op \cup {Torn})
    BY DEF TypeInv, TypeOK, W!WALTypeOK
  <2>3. Len(file) \in Nat
    BY <2>2, LenProperties
  <2>4. /\ Len(Whole) \in Nat /\ synced \in Nat /\ Line \in Seq(Op)
        /\ Len(Line) = Len(Whole) + Len(Held) + Len(buffered)
        /\ Len(Held) \in Nat /\ Len(buffered) \in Nat
        /\ \A n \in 0 .. Len(Whole) : SubSeq(Line, 1, n) = SubSeq(Whole, 1, n)
    BY LineType
  <2>5. Len(Whole) <= Len(Line) /\ Len(Line) \in Nat
    BY <2>4
  <2> QED BY <2>1, <2>2, <2>3, <2>4, <2>5
<1>3. \E n \in synced .. Len(Whole) : file' = SubSeq(Whole, 1, n)
  <2>1. CASE W!LoseUnsynced
    <3>1. PICK n \in synced .. Len(file) :
            /\ \A i \in synced + 1 .. n : file[i] # Torn
            /\ file' = SubSeq(file, 1, n)
      BY <2>1 DEF W!LoseUnsynced, W!SafeFrames
    <3>2. CASE ~HeaderOut
      BY <3>1, <3>2 DEF Whole
    <3>3. CASE HeaderOut
      <4> DEFINE S == Op \cup {Torn}
      <4>1. file = Append(Whole, Torn) /\ Whole \in Seq(S) /\ Torn \in S
        BY <1>2, <3>3, SeqMonotonic DEF FileInv
      <4> HIDE DEF S
      <4>2. Len(file) = Len(Whole) + 1 /\ file[Len(Whole) + 1] = Torn
        BY <4>1, AppendProperties
      <4>3. n <= Len(Whole)
        BY <1>2, <3>1, <4>2
      <4>4. <<Torn>> \in Seq(S) /\ file = Whole \o <<Torn>>
        BY <4>1, AppendProperties
      <4>5. n \in 0 .. Len(Whole) /\ n \in synced .. Len(Whole)
        BY <1>2, <3>1, <4>3
      <4>6. SubSeq(Whole \o <<Torn>>, 1, n) = SubSeq(Whole, 1, n)
        BY <4>1, <4>4, <4>5, FirstPart
      <4> QED BY <3>1, <4>4, <4>5, <4>6
    <3> QED BY <3>2, <3>3
  <2>2. CASE file' = file /\ \A f \in Flushers : step[f] = "idle"
    <3>1. Whole = file /\ SubSeq(Whole, 1, Len(Whole)) = Whole
      BY <1>2, <2>2, QuietLine, SubSeqFull
    <3>2. Len(Whole) \in synced .. Len(Whole)
      BY <1>2
    <3> QED BY <2>2, <3>1, <3>2
  <2> QED BY <2>1, <2>2
<1>4. PICK n \in synced .. Len(Whole) : file' = SubSeq(Whole, 1, n)
  BY <1>3
<1>5. n \in 0 .. Len(Whole) /\ n \in 0 .. Len(Line)
  BY <1>2
<1>6. file' \in Seq(Op) /\ Len(file') = n
  <2>1. n \in Nat /\ 1 \in Int /\ n - 1 + 1 = n /\ \A i \in 1 .. n : Whole[i] \in Op
    BY <1>2, <1>5, ElementOfSeq
  <2> QED BY <1>4, <2>1, SubSeqProperties
<1>7. FileInv'
  BY <1>1, <1>2, <1>4, <1>6 DEF FileInv
<1>8. Line' = file'
  <2>1. <<>> \in Seq(Op) /\ Held' = <<>> \o <<>>
    BY <1>1, EmptySeq DEF Held, Flushers
  <2>2. Held' = <<>> /\ file' \o <<>> = file'
    BY <1>6, <2>1, ConcatEmptySeq
  <2> QED BY <1>1, <2>2 DEF Line
<1>9. Line' = SubSeq(Line, 1, n)
  BY <1>2, <1>4, <1>5, <1>8
<1> QED BY <1>5, <1>7, <1>9

(* truncate *)
LEMMA TruncateFile ==
  ASSUME TypeInv, FileInv, \A f \in Flushers : step[f] = "idle", buffered = <<>>, W!Truncate
  PROVE  FileInv' /\ Line' = <<>>
<1>1. file' = <<>> /\ synced' = 0 /\ UNCHANGED <<buffered, taken, step, header>>
  BY DEF W!Truncate
<1>2. <<>> \in Seq(Op) /\ Len(<<>>) = 0 /\ <<>> \o <<>> = <<>>
  BY EmptySeq, ConcatEmptySeq
<1>3. ~HeaderOut' /\ Whole' = <<>> /\ Held' = <<>>
  BY <1>1, <1>2 DEF HeaderOut, Whole, Held, FileInv, Flushers
<1>4. FileInv'
  BY <1>1, <1>2, <1>3 DEF FileInv
<1> QED BY <1>1, <1>2, <1>3, <1>4 DEF Line

----------------------------------------------------------------------------
(* The log agrees with some tables about the content c of one of them: it skips
   nothing on that table, and replayed over the tables it gives c. *)
Agrees(d, ops, t, c) == NoSkip(d, ops, t) /\ Replay(d, ops)[t] = c

(* With a WAL, the line replayed over state.rdb, and over the tables in memory
   which the next save puts there, gives what callers were told. *)
LogInv ==
  /\ \A t \in LoggedTables : NoSkip(disk, Line, t)
  /\ phase = "replay" => \E done \in Seq(Op) : /\ Line = done \o entries /\ data = Replay(disk, done)
                                               /\ ~recovered => data = disk
  /\ phase = "checkpoint" => data = Replay(disk, Line) /\ told = data
  /\ phase = "truncate" => /\ disk = data /\ told = data
                           /\ \A t \in LoggedTables : Replay(disk, Line)[t] = data[t]
  /\ Up => \A t \in LoggedTables : Agrees(disk, Line, t, told[t]) /\ Agrees(data, Line, t, told[t])

(* Without a WAL nothing is replayed, and there is no checkpoint. *)
NoLog == entries = <<>> /\ ~recovered /\ phase \notin {"checkpoint", "truncate"}

DurableInv ==
  /\ TypeInv /\ ThreadInv
  /\ EnableWAL  => FileInv /\ LogInv
  /\ ~EnableWAL => NoLog

(* One more operation is logged and made on the tables in memory. *)
LEMMA AgreesAppend ==
  ASSUME NEW d \in Snapshots, NEW e \in Snapshots, NEW f \in Snapshots, NEW t \in Tables,
         NEW ops \in Seq(Op), NEW op \in Op, NEW c,
         Agrees(d, ops, t, c), Agrees(e, ops, t, c),
         f[t] = ReplayOne(e, op)[t],
         op.table = t => op.type = "create" \/ e[t] # NoTable
  PROVE  LET after == IF op.table = t THEN OnTable(c, op) ELSE c
         IN  Agrees(d, Append(ops, op), t, after) /\ Agrees(f, Append(ops, op), t, after)
<1> DEFINE more == Append(ops, op)
           after == IF op.table = t THEN OnTable(c, op) ELSE c
<1>1. more \in Seq(Op) /\ Occurs(op, more) /\ ReplayOne(e, op) \in Snapshots
  BY AppendProperties, OccursAppend, ReplayOneType
<1>2. Replay(d, more)[t] = after /\ Replay(e, more)[t] = after
  BY ReplayAppendAt DEF Agrees
<1>3. op.table = t /\ op.type # "create" => c # NoTable
  BY ReplayExists DEF Agrees
<1>4. NoSkip(d, more, t) /\ NoSkip(e, more, t)
  BY <1>3, NoSkipAppend DEF Agrees
<1> HIDE DEF more, after
<1>5. f[t] # NoTable <=> ReplayOne(e, op)[t] # NoTable
  OBVIOUS
<1>6. NoSkip(f, more, t)
  <2>1. e[t] # NoTable => ReplayOne(e, op)[t] # NoTable
    BY ReplayOneOnTable, OnTableType DEF Snapshots
  <2> QED BY <1>4, <1>5, <2>1, NoSkipMore
<1>7. Replay(f, more)[t] = Replay(ReplayOne(e, op), more)[t]
  BY <1>1, ReplayLocal
<1>8. Replay(ReplayOne(e, op), more)[t] = Replay(e, more)[t]
  BY <1>1, <1>4, Absorbs
<1> QED BY <1>2, <1>4, <1>6, <1>7, <1>8 DEF Agrees, more, after

(* Steps that leave the log, the tables and the snapshot alone. *)
LEMMA SameLog ==
  ASSUME FileInv, LogInv, UNCHANGED <<wal, data, disk, told, unlogged, startup>>
  PROVE  FileInv' /\ LogInv'
<1>1. FileInv' /\ Line' = Line
  BY SameFile DEF wal
<1> QED BY <1>1 DEF LogInv, LoggedTables, startup, Up

(* A save, or a reload, with no other process on the directory: the snapshot
   and the tables agree with the log alike. *)
LEMMA SaveLog ==
  ASSUME FileInv, LogInv, Up, UNCHANGED <<wal, told, unlogged, startup>>,
         \/ disk' = data /\ data' = data
         \/ data' = disk /\ disk' = disk
  PROVE  FileInv' /\ LogInv'
<1>1. FileInv' /\ Line' = Line /\ LoggedTables' = LoggedTables /\ phase' = "up"
  BY SameFile DEF wal, LoggedTables, startup, Up
<1>2. \A t \in LoggedTables : Agrees(disk', Line, t, told[t]) /\ Agrees(data', Line, t, told[t])
  BY DEF LogInv
<1> QED BY <1>1, <1>2 DEF LogInv, Agrees, Up

(* An operation that is made and logged. *)
LEMMA AppendLog ==
  ASSUME TypeInv, FileInv, LogInv, Up, NEW op \in Op, W!AppendEntry(op),
         UNCHANGED <<disk, startup>>, data' \in Snapshots, unlogged \subseteq unlogged',
         \A t \in LoggedTables' :
           /\ data'[t] = ReplayOne(data, op)[t] /\ told'[t] = ReplayOne(told, op)[t]
           /\ op.table = t => op.type = "create" \/ data[t] # NoTable
  PROVE  FileInv' /\ LogInv'
<1>1. FileInv' /\ Line' = Append(Line, op) /\ Line \in Seq(Op)
  BY AppendFile, LineType
<1>2. data \in Snapshots /\ disk \in Snapshots /\ told \in Snapshots /\ phase' = "up"
  BY DEF TypeInv, TypeOK, startup, Up
<1>3. ASSUME NEW t \in LoggedTables'
      PROVE  Agrees(disk, Line', t, told'[t]) /\ Agrees(data', Line', t, told'[t])
  <2>1. t \in Tables /\ t \in LoggedTables
    BY DEF LoggedTables
  <2>2. Agrees(disk, Line, t, told[t]) /\ Agrees(data, Line, t, told[t])
    BY <2>1 DEF LogInv
  <2>3. told'[t] = IF op.table = t THEN OnTable(told[t], op) ELSE told[t]
    BY <1>2, <1>3, <2>1, ReplayOneOnTable
  <2>4. data'[t] = ReplayOne(data, op)[t] /\ (op.table = t => op.type = "create" \/ data[t] # NoTable)
    BY <1>3
  <2>5. LET after == IF op.table = t THEN OnTable(told[t], op) ELSE told[t]
        IN  Agrees(disk, Append(Line, op), t, after) /\ Agrees(data', Append(Line, op), t, after)
    BY <1>1, <1>2, <2>1, <2>2, <2>4, AgreesAppend
  <2> QED BY <1>1, <2>3, <2>5
<1> QED BY <1>1, <1>2, <1>3 DEF LogInv, Agrees, Up

----------------------------------------------------------------------------
(* The invariant is inductive. *)
LEMMA InitDurable == Init => DurableInv
<1> SUFFICES ASSUME Init PROVE DurableInv
  OBVIOUS
<1>1. TypeInv /\ ThreadInv /\ FileInv /\ Line = <<>>
  BY InitTypeInv, InitThreadInv, InitFileInv
<1>2. phase = "load" /\ entries = <<>> /\ recovered = FALSE
  BY DEF Init
<1>3. LogInv
  BY <1>1, <1>2, NoSkipNothing DEF LogInv, Up
<1> QED BY <1>1, <1>2, <1>3 DEF DurableInv, NoLog

(* __init__ with a WAL: what was read is replayed over the snapshot, what that
   gives becomes the snapshot, and only then is the line dropped. *)
LEMMA StartupLog ==
  ASSUME EnableWAL, TypeInv, ThreadInv, FileInv, LogInv, Startup
  PROVE  FileInv' /\ LogInv'
<1>1. /\ ~Up /\ buffered = <<>> /\ \A f \in Flushers : step[f] = "idle"
  BY DEF Startup, Load, ReplayEntry, ReplayDone, Checkpoint, TruncateWAL, ThreadInv, Up
<1>2. Line = file /\ file \in Seq(Op) /\ Whole = file
  BY <1>1, QuietLine
<1>3. disk \in Snapshots /\ data \in Snapshots /\ entries \in Seq(Op)
  BY DEF TypeInv, TypeOK
<1>4. CASE Load
  <2>1. UNCHANGED <<wal, disk, unlogged>> /\ phase' = "replay" /\ data' = disk /\ entries' = W!ReadAll(file)
    BY <1>4 DEF Load, history
  <2>2. FileInv' /\ Line' = Line
    BY <2>1, SameFile DEF wal
  <2>3. entries' = Line
    BY <1>2, <2>1, ReadAllWhole
  <2>4. <<>> \in Seq(Op) /\ <<>> \o Line = Line /\ Replay(disk, <<>>) = disk
    BY <1>2, EmptySeq, ConcatEmptySeq, ReplayNothing
  <2> QED BY <2>1, <2>2, <2>3, <2>4 DEF LogInv, LoggedTables, Up
<1>5. CASE ReplayEntry
  <2> DEFINE op == Head(entries)
  <2>1. /\ UNCHANGED <<wal, disk, unlogged, phase>> /\ phase = "replay" /\ entries # <<>>
        /\ data' = ReplayOne(data, op) /\ entries' = Tail(entries)
        /\ recovered' = (recovered \/ op.type = "delete" \/ Applicable(data, op))
    BY <1>5 DEF ReplayEntry, history
  <2>2. FileInv' /\ Line' = Line
    BY <2>1, SameFile DEF wal
  <2>3. op \in Op
    BY <1>3, <2>1, HeadTailProperties
  <2>4. PICK done \in Seq(Op) : Line = done \o entries /\ data = Replay(disk, done) /\ (~recovered => data = disk)
    BY <2>1 DEF LogInv
  <2>5. Append(done, op) \in Seq(Op) /\ Line = Append(done, op) \o Tail(entries)
    BY <1>3, <2>1, <2>3, <2>4, MoveHead, AppendProperties
  <2> HIDE DEF op
  <2>6. data' = Replay(disk, Append(done, op))
    BY <2>1, <2>3, <2>4, ReplayAppend
  <2>7. ~recovered' => data' = disk
    BY <2>1, <2>4 DEF ReplayOne
  <2> QED BY <2>1, <2>2, <2>5, <2>6, <2>7 DEF LogInv, LoggedTables, Up
<1>6. CASE ReplayDone
  <2>1. /\ UNCHANGED <<wal, disk, unlogged, data>> /\ phase = "replay" /\ entries = <<>> /\ told' = data
        /\ phase' = IF recovered THEN "checkpoint" ELSE "up"
    BY <1>6 DEF ReplayDone, memory, NextPhase
  <2>2. FileInv' /\ Line' = Line
    BY <2>1, SameFile DEF wal
  <2>3. PICK done \in Seq(Op) : Line = done \o entries /\ data = Replay(disk, done) /\ (~recovered => data = disk)
    BY <2>1 DEF LogInv
  <2>4. data = Replay(disk, Line)
    BY <2>1, <2>3, ConcatEmptySeq
  <2> QED BY <2>1, <2>2, <2>3, <2>4 DEF LogInv, LoggedTables, Up, Agrees
<1>7. CASE Checkpoint
  <2>1. /\ UNCHANGED <<wal, unlogged, data, told>> /\ phase = "checkpoint" /\ disk' = data
        /\ phase' = "truncate"
    BY <1>7 DEF Checkpoint, WriteSnapshot, NextPhase, history
  <2>2. FileInv' /\ Line' = Line
    BY <2>1, SameFile DEF wal
  <2>3. data = Replay(disk, Line) /\ told = data
    BY <2>1 DEF LogInv
  <2>4. ASSUME NEW t \in LoggedTables
        PROVE  NoSkip(data, Line, t) /\ Replay(data, Line)[t] = data[t]
    <3>1. NoSkip(disk, Line, t) /\ t \in Tables /\ Line \in Seq(Op)
      BY <1>2 DEF LogInv, LoggedTables
    <3>2. disk[t] # NoTable => data[t] # NoTable
      BY <1>3, <2>3, <3>1, ReplayExists
    <3> QED BY <1>3, <2>3, <3>1, <3>2, NoSkipMore, ReplayTwice
  <2> QED BY <2>1, <2>2, <2>3, <2>4 DEF LogInv, LoggedTables, Up
<1>8. CASE TruncateWAL
  <2>1. /\ UNCHANGED <<data, disk, told>> /\ phase = "truncate" /\ W!Truncate /\ phase' = "up"
    BY <1>8 DEF TruncateWAL, NextPhase, memory
  <2>2. FileInv' /\ Line' = <<>>
    BY <1>1, <2>1, TruncateFile
  <2>3. disk = data /\ told = data
    BY <2>1 DEF LogInv
  <2> QED BY <2>1, <2>2, <2>3, NoSkipNothing, ReplayNothing DEF LogInv, Up, Agrees
<1> QED BY <1>4, <1>5, <1>6, <1>7, <1>8 DEF Startup

(* _process_write_buffer: an operation that is applied is logged. *)
LEMMA WorkerLog ==
  ASSUME EnableWAL, TypeInv, FileInv, LogInv, Worker
  PROVE  FileInv' /\ LogInv'
<1>1. CASE Take \/ Process \/ MarkDirty \/ WorkerExit \/ LeaveLoop("worker")
  BY <1>1, SameLog DEF Take, Process, MarkDirty, WorkerExit, LeaveLoop, memory, history
<1>2. CASE ApplyNext
  <2> DEFINE op == Head(batch)
  <2>1. /\ Up /\ UNCHANGED <<disk, unlogged, startup>> /\ op \in Op
        /\ IF Applicable(data, op)
           THEN data' = Apply(data, op) /\ told' = ReplayOne(told, op) /\ W!AppendEntry(op)
           ELSE UNCHANGED <<data, told, wal>>
    BY <1>2, HeadTailProperties DEF ApplyNext, Logged, TypeInv, TypeOK, BatchLeft
  <2> HIDE DEF op
  <2>2. CASE Applicable(data, op)
    <3>1. data' = ReplayOne(data, op) /\ told' = ReplayOne(told, op) /\ W!AppendEntry(op)
      BY <2>1, <2>2 DEF ReplayOne
    <3>2. data' \in Snapshots
      BY <2>1, <3>1, ReplayOneType DEF TypeInv, TypeOK
    <3>3. \A t : op.table = t => op.type = "create" \/ data[t] # NoTable
      BY <2>2 DEF Applicable
    <3> QED BY <2>1, <3>1, <3>2, <3>3, AppendLog
  <2>3. CASE ~Applicable(data, op)
    BY <2>1, <2>3, SameLog
  <2> QED BY <2>2, <2>3
<1> QED BY <1>1, <1>2 DEF Worker

(* write_batch and commit_transaction: on a table that exists they make what a
   replay makes; a table that they create is from then on not a logged one. *)
LEMMA DirectLog ==
  ASSUME EnableWAL, TypeInv, FileInv, LogInv, Direct
  PROVE  FileInv' /\ LogInv'
<1>1. CASE DirectMark
  BY <1>1, SameLog DEF DirectMark, history
<1>2. CASE DirectNext
  <2> DEFINE op == Head(direct)
  <2>1. /\ Up /\ UNCHANGED <<disk, startup>> /\ op \in Op
        /\ data' = Apply(Apply(data, Create(op.table)), op)
        /\ told' = Apply(Apply(told, Create(op.table)), op)
        /\ unlogged' = IF Applicable(data, op) THEN unlogged ELSE unlogged \cup {op.table}
        /\ W!AppendEntry(op)
    BY <1>2, HeadTailProperties DEF DirectNext, Logged, TypeInv, TypeOK, BatchLeft
  <2> HIDE DEF op
  <2>2. data \in Snapshots /\ told \in Snapshots /\ op.table \in Tables /\ Create(op.table) \in Op
    BY <2>1, OpParts DEF TypeInv, TypeOK, Create, Op, CreateOp
  <2>3. data' \in Snapshots
    BY <2>1, <2>2, ApplyCreatedType
  <2>4. ASSUME NEW d \in Snapshots, NEW t \in Tables,
               op.table = t => op.type = "create" \/ d[t] # NoTable
        PROVE  Apply(Apply(d, Create(op.table)), op)[t] = ReplayOne(d, op)[t]
    <3> DEFINE e == Apply(d, Create(op.table))
    <3>1. e = ReplayOne(d, Create(op.table)) /\ e \in Snapshots /\ e[op.table] # NoTable
      <4>1. e = ReplayOne(d, Create(op.table))
        BY DEF ReplayOne, Applicable, Create
      <4>2. e[op.table] = OnTable(d[op.table], Create(op.table)) /\ e \in Snapshots
        BY <2>2, <4>1, ReplayOneOnTable, ReplayOneType DEF Create
      <4>3. OnTable(d[op.table], Create(op.table)) # NoTable
        BY <2>2, OnTableType DEF Create, Snapshots
      <4> QED BY <4>1, <4>2, <4>3
    <3> HIDE DEF e
    <3>2. Apply(e, op) = ReplayOne(e, op)
      BY <3>1 DEF ReplayOne, Applicable
    <3>3. ReplayOne(e, op)[t] = IF op.table = t THEN OnTable(e[t], op) ELSE e[t]
      BY <2>1, <3>1, ReplayOneOnTable
    <3>4. e[t] = IF op.table = t THEN OnTable(d[t], Create(op.table)) ELSE d[t]
      BY <2>2, <3>1, ReplayOneOnTable DEF Create
    <3>5. ReplayOne(d, op)[t] = IF op.table = t THEN OnTable(d[t], op) ELSE d[t]
      BY <2>1, ReplayOneOnTable
    <3>6. CASE op.table # t
      BY <3>2, <3>3, <3>4, <3>5, <3>6 DEF e
    <3>7. CASE op.table = t /\ d[t] # NoTable
      <4>1. OnTable(d[t], Create(op.table)) = d[t]
        BY <3>7 DEF OnTable, Create
      <4> QED BY <3>2, <3>3, <3>4, <3>5, <3>7, <4>1 DEF e
    <3>8. CASE op.table = t /\ op.type = "create"
      <4>1. OnTable(e[t], op) = e[t] /\ OnTable(d[t], Create(op.table)) = OnTable(d[t], op)
        BY <3>1, <3>8 DEF OnTable, Create
      <4> QED BY <3>2, <3>3, <3>4, <3>5, <3>8, <4>1 DEF e
    <3> QED BY <2>4, <3>6, <3>7, <3>8
  <2>5. ASSUME NEW t \in LoggedTables'
        PROVE  /\ data'[t] = ReplayOne(data, op)[t] /\ told'[t] = ReplayOne(told, op)[t]
               /\ op.table = t => op.type = "create" \/ data[t] # NoTable
    <3>1. t \in Tables /\ t \in LoggedTables
      BY <2>1 DEF LoggedTables
    <3>2. op.table = t => op.type = "create" \/ data[t] # NoTable
      BY <2>1 DEF LoggedTables, Applicable
    <3>3. data[t] # NoTable => told[t] # NoTable
      BY <2>1, <2>2, <3>1, LineType, ReplayExists DEF LogInv, Agrees
    <3>4. data'[t] = ReplayOne(data, op)[t]
      BY <2>1, <2>2, <2>4, <3>1, <3>2
    <3>5. told'[t] = ReplayOne(told, op)[t]
      BY <2>1, <2>2, <2>4, <3>1, <3>2, <3>3
    <3> QED BY <3>2, <3>4, <3>5
  <2> QED BY <2>1, <2>3, <2>5, AppendLog
<1> QED BY <1>1, <1>2 DEF Direct

(* _flush_to_disk, whoever runs it. *)
LEMMA FlushToDiskLog ==
  ASSUME FileInv, LogInv, NEW th, Save(th) \/ ClearDirty(th)
  PROVE  FileInv' /\ LogInv'
<1>1. CASE Save(th)
  BY <1>1, SaveLog DEF Save, WriteSnapshot, history
<1>2. CASE ClearDirty(th)
  BY <1>2, SameLog DEF ClearDirty, history
<1> QED BY <1>1, <1>2

(* _auto_save_loop: it saves, and the log stays. *)
LEMMA SaverLog ==
  ASSUME FileInv, LogInv, Saver
  PROVE  FileInv' /\ LogInv'
<1>1. CASE Save("saver") \/ ClearDirty("saver")
  BY <1>1, FlushToDiskLog
<1>2. CASE SaverWakes \/ SaverExit \/ LeaveLoop("saver")
  BY <1>2, SameLog DEF SaverWakes, SaverExit, LeaveLoop, memory, history
<1> QED BY <1>1, <1>2 DEF Saver

(* _file_on_change, with no other process that saves. *)
LEMMA WatcherLog ==
  ASSUME FileInv, LogInv, Watcher
  PROVE  FileInv' /\ LogInv'
<1>1. CASE Reload
  BY <1>1, SaveLog DEF Reload, history
<1>2. CASE WatcherWakes \/ ReloadStat \/ WatcherExit
  BY <1>2, SameLog DEF WatcherWakes, ReloadStat, WatcherExit, memory, history
<1> QED BY <1>1, <1>2 DEF Watcher

(* Steps of the WAL that leave the line as it is. *)
LEMMA MoveLog ==
  ASSUME LogInv, FileInv', Line' = Line, UNCHANGED <<data, disk, told, unlogged, startup>>
  PROVE  FileInv' /\ LogInv'
BY DEF LogInv, LoggedTables, startup, Up

(* A flush of the WAL, whoever runs it. *)
LEMMA FlushLog ==
  ASSUME TypeInv, ThreadInv, FileInv, LogInv, NEW f \in Flushers, FlushStep(f)
  PROVE  FileInv' /\ LogInv'
BY FlushFile, MoveLog DEF FlushStep, memory, history

(* WAL.start *)
LEMMA SyncerLog ==
  ASSUME TypeInv, ThreadInv, FileInv, LogInv, Syncer
  PROVE  FileInv' /\ LogInv'
<1>1. CASE SyncerFlush
  <2>1. step["closer"] = "idle"
    BY <1>1 DEF SyncerFlush, ThreadInv, ThreadsJoined, Threads
  <2>2. \A g \in Flushers : step[g] = "idle"
    BY <1>1, <2>1 DEF SyncerFlush, W!FlushTake, Flushers
  <2>3. FileInv' /\ Line' = Line
    BY <1>1, <2>2, TakeFile DEF SyncerFlush, Flushers
  <2> QED BY <1>1, <2>3, MoveLog DEF SyncerFlush, memory, history
<1>2. CASE FlushStep("syncer")
  BY <1>2, FlushLog DEF Flushers
<1>3. CASE SyncerFlushed \/ SyncerExit \/ LeaveLoop("syncer")
  BY <1>3, SameLog DEF SyncerFlushed, SyncerExit, LeaveLoop, memory, history
<1> QED BY <1>1, <1>2, <1>3 DEF Syncer

(* The rest of import_db. *)
LEMMA ImporterLog ==
  ASSUME FileInv, LogInv, Importer
  PROVE  FileInv' /\ LogInv'
<1>1. CASE Save("importer") \/ ClearDirty("importer")
  BY <1>1, FlushToDiskLog
<1>2. CASE ImportMark
  BY <1>2, SameLog DEF ImportMark, history
<1> QED BY <1>1, <1>2 DEF Importer

(* close_with_timeout *)
LEMMA CloserLog ==
  ASSUME TypeInv, ThreadInv, FileInv, LogInv, Closer
  PROVE  FileInv' /\ LogInv'
<1>1. CASE Save("closer") \/ ClearDirty("closer")
  BY <1>1, FlushToDiskLog
<1>2. CASE FlushStep("closer")
  BY <1>2, FlushLog DEF Flushers
<1>3. CASE Join
  BY <1>3, SameLog DEF Join, memory, history
<1>4. CASE CloserFlush /\ buffered = <<>>
  BY <1>4, SameLog DEF CloserFlush, FinalFlush, memory, history
<1>5. CASE CloserFlush /\ buffered # <<>>
  <2>1. step["syncer"] = "idle"
    BY <1>5 DEF CloserFlush, ThreadInv, ThreadsJoined, Threads
  <2>2. W!FlushTake("closer") /\ \A g \in Flushers : step[g] = "idle"
    BY <1>5, <2>1 DEF CloserFlush, FinalFlush, W!FlushTake, Flushers
  <2>3. FileInv' /\ Line' = Line
    BY <2>2, TakeFile DEF Flushers
  <2> QED BY <1>5, <2>3, MoveLog DEF CloserFlush, memory, history
<1>6. CASE CloserFinish
  <2>1. UNCHANGED <<taken, step, header, file, synced, buffered>>
    BY <1>6 DEF CloserFinish, W!CloseFile
  <2>2. FileInv' /\ Line' = Line
    BY <2>1, SameFile
  <2> QED BY <1>6, <2>2, MoveLog DEF CloserFinish, memory, history
<1> QED BY <1>1, <1>2, <1>3, <1>4, <1>5, <1>6 DEF Closer

(* Calls; nothing comes from an import or from another process. *)
LEMMA CallersLog ==
  ASSUME Foreign = {}, FileInv, LogInv, Callers
  PROVE  FileInv' /\ LogInv'
<1>1. CASE BeginClose
  BY <1>1, SameLog DEF BeginClose, memory, history
<1>2. ASSUME NEW op \in Op, Submit(op) PROVE FileInv' /\ LogInv'
  BY <1>2, SameLog DEF Submit, history
<1>3. ASSUME NEW ops \in Changes, Begin(ops) PROVE FileInv' /\ LogInv'
  BY <1>3, SameLog DEF Begin, history
<1>4. CASE Ask
  BY <1>4, SameLog DEF Ask, memory, history
<1> QED BY <1>1, <1>2, <1>3, <1>4 DEF Callers, WriteBatch, Commit

(* The process ends; without torn writes a first part of the line survives. *)
LEMMA ProcessEndLog ==
  ASSUME ~TornWrites, TypeInv, ThreadInv, FileInv, LogInv, Crash \/ Reopen
  PROVE  FileInv' /\ LogInv'
<1>1. /\ W!FileOpened /\ synced' = synced /\ UNCHANGED <<disk, unlogged>> /\ phase' = "load"
      /\ W!LoseUnsynced \/ (Closed /\ file' = file)
  BY DEF Crash, Reopen, NewProcess
<1>2. Closed => \A f \in Flushers : step[f] = "idle"
  BY DEF ThreadInv, ThreadsJoined, Threads, Closed, Flushers
<1>3. FileInv' /\ \E n \in 0 .. Len(Line) : Line' = SubSeq(Line, 1, n)
  BY <1>1, <1>2, ReopenFile
<1>4. ASSUME NEW t \in LoggedTables PROVE NoSkip(disk, Line', t)
  BY <1>3, LineType, NoSkipPrefix DEF LogInv
<1> QED BY <1>1, <1>3, <1>4 DEF LogInv, LoggedTables, Up

(* Without a WAL. *)
LEMMA NextNoLog == ~EnableWAL /\ NoLog /\ [Next]_vars => NoLog'
<1> SUFFICES ASSUME ~EnableWAL, NoLog, [Next]_vars PROVE NoLog'
  OBVIOUS
<1>1. CASE Startup
  BY <1>1 DEF Startup, Load, ReplayEntry, ReplayDone, Checkpoint, TruncateWAL, NoLog, NextPhase
<1>2. CASE Crash \/ Reopen
  BY <1>2 DEF Crash, Reopen, NewProcess, NoLog
<1>3. UNCHANGED startup => NoLog'
  BY DEF startup, NoLog
<1>4. CASE Worker \/ Direct
  <2>1. UNCHANGED startup
    BY <1>4 DEF Worker, Direct, Take, Process, ApplyNext, MarkDirty, WorkerExit, LeaveLoop, DirectNext, DirectMark
  <2> QED BY <1>3, <2>1
<1>5. CASE Saver \/ Watcher \/ Syncer \/ Importer \/ Closer
  <2>1. UNCHANGED startup
    BY <1>5 DEF Saver, Watcher, Syncer, Importer, Closer, SaverWakes, Save, ClearDirty, SaverExit, LeaveLoop,
       WatcherWakes, Reload, ReloadStat, WatcherExit, SyncerFlush, FlushStep, SyncerFlushed, SyncerExit,
       ImportMark, Join, CloserFlush, CloserFinish
  <2> QED BY <1>3, <2>1
<1>6. CASE Callers
  <2>1. UNCHANGED startup
    BY <1>6 DEF Callers, Ask, Submit, Import, ForeignSave, WriteBatch, Commit, Begin, BeginClose
  <2> QED BY <1>3, <2>1
<1>7. CASE UNCHANGED vars
  BY <1>3, <1>7 DEF vars
<1> QED BY <1>1, <1>2, <1>4, <1>5, <1>6, <1>7 DEF Next

(* Every step keeps the invariant. *)
LEMMA NextDurable ==
  ASSUME Foreign = {}, ~TornWrites
  PROVE  DurableInv /\ [Next]_vars => DurableInv'
<1> SUFFICES ASSUME DurableInv, [Next]_vars PROVE DurableInv'
  OBVIOUS
<1>1. TypeInv' /\ ThreadInv'
  BY NextTypeInv, NextThreadInv DEF DurableInv
<1>2. ~EnableWAL => NoLog'
  BY NextNoLog DEF DurableInv
<1>3. ASSUME EnableWAL PROVE FileInv' /\ LogInv'
  <2>1. TypeInv /\ ThreadInv /\ FileInv /\ LogInv
    BY <1>3 DEF DurableInv
  <2>2. CASE Startup
    BY <1>3, <2>1, <2>2, StartupLog
  <2>3. CASE Worker \/ Direct
    BY <1>3, <2>1, <2>3, WorkerLog, DirectLog
  <2>4. CASE Saver \/ Watcher \/ Importer
    BY <2>1, <2>4, SaverLog, WatcherLog, ImporterLog
  <2>5. CASE Syncer \/ Closer
    BY <2>1, <2>5, SyncerLog, CloserLog
  <2>6. CASE Callers
    BY <2>1, <2>6, CallersLog
  <2>7. CASE Crash \/ Reopen
    BY <2>1, <2>7, ProcessEndLog
  <2>8. CASE UNCHANGED vars
    BY <2>1, <2>8, SameLog DEF vars, memory, history
  <2> QED BY <2>2, <2>3, <2>4, <2>5, <2>6, <2>7, <2>8 DEF Next
<1> QED BY <1>1, <1>2, <1>3 DEF DurableInv

----------------------------------------------------------------------------
(* What the invariant implies. *)

(* The elements of the line behind the whole frames are held or buffered. *)
LEMMA LineParts ==
  ASSUME TypeInv, FileInv, NEW i \in 1 .. Len(Line)
  PROVE  /\ i <= Len(Whole) => Line[i] = Whole[i]
         /\ i > Len(Whole) => \/ \E f \in Flushers : Line[i] \in ToSet(taken[f])
                              \/ Line[i] \in ToSet(buffered)
<1>1. /\ Held \in Seq(Op) /\ Whole \o Held \in Seq(Op) /\ Whole \in Seq(Op)
      /\ Len(Line) = Len(Whole) + Len(Held) + Len(buffered)
      /\ Len(Whole) \in Nat /\ Len(Held) \in Nat /\ Len(buffered) \in Nat
  BY LineType DEF FileInv
<1>2. buffered \in Seq(Op) /\ taken["syncer"] \in Seq(Op) /\ taken["closer"] \in Seq(Op)
  BY DEF TypeInv, TypeOK, W!WALTypeOK, Flushers
<1>3. Len(Whole \o Held) = Len(Whole) + Len(Held)
  BY <1>1, ConcatProperties
<1>4. Line[i] = IF i <= Len(Whole \o Held) THEN (Whole \o Held)[i] ELSE buffered[i - Len(Whole \o Held)]
  <2>1. i \in 1 .. Len(Whole \o Held) + Len(buffered)
    BY <1>1, <1>3
  <2> QED BY <1>1, <1>2, <2>1, ConcatProperties DEF Line
<1>5. CASE i <= Len(Whole)
  <2>1. i \in 1 .. Len(Whole) + Len(Held) /\ i <= Len(Whole \o Held)
    BY <1>1, <1>3, <1>5
  <2>2. (Whole \o Held)[i] = Whole[i]
    BY <1>1, <1>5, <2>1, ConcatProperties
  <2> QED BY <1>1, <1>4, <1>5, <2>1, <2>2
<1>6. CASE i > Len(Whole) /\ i <= Len(Whole) + Len(Held)
  <2> DEFINE j == i - Len(Whole)
  <2>1. i \in 1 .. Len(Whole) + Len(Held) /\ j \in 1 .. Len(Held)
    BY <1>1, <1>6
  <2>2. Line[i] = Held[j]
    BY <1>1, <1>3, <1>4, <1>6, <2>1, ConcatProperties
  <2> HIDE DEF j
  <2>3. /\ Len(taken["syncer"]) \in Nat /\ Len(taken["closer"]) \in Nat
        /\ Len(Held) = Len(taken["syncer"]) + Len(taken["closer"])
        /\ DOMAIN taken["syncer"] = 1 .. Len(taken["syncer"]) /\ DOMAIN taken["closer"] = 1 .. Len(taken["closer"])
    BY <1>2, ConcatProperties, LenProperties DEF Held
  <2>4. Held[j] = IF j <= Len(taken["syncer"]) THEN taken["syncer"][j] ELSE taken["closer"][j - Len(taken["syncer"])]
    <3>1. j \in 1 .. Len(taken["syncer"]) + Len(taken["closer"])
      BY <2>1, <2>3
    <3> QED BY <1>2, <3>1, ConcatProperties DEF Held
  <2>5. CASE j <= Len(taken["syncer"])
    <3>1. j \in DOMAIN taken["syncer"]
      BY <2>1, <2>3, <2>5
    <3> QED BY <1>1, <1>6, <2>2, <2>4, <2>5, <3>1 DEF ToSet, Flushers
  <2>6. CASE j > Len(taken["syncer"])
    <3>1. j - Len(taken["syncer"]) \in 1 .. Len(taken["closer"]) /\ ~(j <= Len(taken["syncer"]))
      <4>1. \A a, b \in Nat : \A x \in 1 .. a + b : x > a => x - a \in 1 .. b /\ ~(x <= a)
        OBVIOUS
      <4> QED BY <2>1, <2>3, <2>6, <4>1
    <3> QED BY <1>1, <1>6, <2>2, <2>4, <3>1 DEF ToSet, Flushers
  <2> QED BY <2>1, <2>3, <2>5, <2>6
<1>7. CASE i > Len(Whole) + Len(Held)
  <2>1. i - Len(Whole \o Held) \in 1 .. Len(buffered) /\ ~(i <= Len(Whole \o Held)) /\ ~(i <= Len(Whole))
    BY <1>1, <1>3, <1>7
  <2>2. DOMAIN buffered = 1 .. Len(buffered)
    BY <1>2, LenProperties
  <2> QED BY <1>4, <2>1, <2>2 DEF ToSet
<1> QED BY <1>1, <1>5, <1>6, <1>7

(* Reading back any part of the file gives a part of the whole frames, with all
   that was synced. *)
LEMMA ReadBackPart ==
  ASSUME TypeInv, FileInv, NEW n \in synced .. Len(file)
  PROVE  \E m \in synced .. Len(Whole) : W!ReadAll(SubSeq(file, 1, n)) = SubSeq(Whole, 1, m)
<1>1. /\ Whole \in Seq(Op) /\ Len(Whole) \in Nat /\ synced \in Nat /\ synced <= Len(Whole)
      /\ file \in Seq(Op \cup {Torn}) /\ Len(file) \in Nat
  BY LineType, LenProperties DEF FileInv, TypeInv, TypeOK, W!WALTypeOK
<1>2. \A m \in 0 .. Len(Whole) : W!ReadAll(SubSeq(Whole, 1, m)) = SubSeq(Whole, 1, m)
  <2> TAKE m \in 0 .. Len(Whole)
  <2>1. 1 \in Int /\ m \in Int /\ \A i \in 1 .. m : Whole[i] \in Op
    BY <1>1, ElementOfSeq
  <2>2. SubSeq(Whole, 1, m) \in Seq(Op)
    BY <2>1, SubSeqProperties
  <2> QED BY <2>2, ReadAllWhole
<1>3. CASE ~HeaderOut
  <2>1. Whole = file /\ n \in 0 .. Len(Whole) /\ n \in synced .. Len(Whole)
    BY <1>1, <1>3 DEF Whole
  <2> QED BY <1>2, <2>1
<1>4. CASE HeaderOut
  <2> DEFINE S == Op \cup {Torn}
  <2>1. file = Append(Whole, Torn) /\ Whole \in Seq(S) /\ Torn \in S
    BY <1>1, <1>4, SeqMonotonic DEF FileInv
  <2> HIDE DEF S
  <2>2. Len(file) = Len(Whole) + 1 /\ <<Torn>> \in Seq(S) /\ file = Whole \o <<Torn>>
    BY <2>1, AppendProperties
  <2>3. CASE n <= Len(Whole)
    <3>1. n \in 0 .. Len(Whole) /\ n \in synced .. Len(Whole)
      BY <1>1, <2>3
    <3>2. SubSeq(Whole \o <<Torn>>, 1, n) = SubSeq(Whole, 1, n)
      BY <2>1, <2>2, <3>1, FirstPart
    <3> QED BY <1>2, <2>2, <3>1, <3>2
  <2>4. CASE n > Len(Whole)
    <3>1. n = Len(file) /\ Len(Whole) \in synced .. Len(Whole)
      BY <1>1, <2>2, <2>4
    <3>2. SubSeq(file, 1, n) = file /\ SubSeq(Whole, 1, Len(Whole)) = Whole
      BY <1>1, <3>1, SubSeqFull
    <3>3. W!ReadAll(file) = Whole
      BY <1>1, <2>1, ReadAllWhole
    <3> QED BY <3>1, <3>2, <3>3
  <2> QED BY <1>1, <2>3, <2>4
<1> QED BY <1>3, <1>4

(* _recover_from_wal replays what read_all gives it. *)
LEMMA RecoveryIsReplay == \A d, frames : Recovery(d, frames) = Replay(d, W!ReadAll(frames))
BY DEF Recovery, Replay

(* A crash keeps a first part of the line that has everything fsynced in it;
   a record on which nothing behind that part acts ends the same. *)
LEMMA InvImpliesDurable == DurableInv => DurableOnceSynced
<1> SUFFICES ASSUME DurableInv, Up, EnableWAL,
                    NEW n \in synced .. Len(file), NEW t \in LoggedTables, NEW k \in Keys,
                    \A op \in UnsyncedOps : ~Touches(op, t, k)
             PROVE  Cell(Recovery(disk, SubSeq(file, 1, n)), t, k) = Cell(told, t, k)
  BY DEF DurableOnceSynced
<1>1. TypeInv /\ FileInv /\ LogInv /\ disk \in Snapshots /\ t \in Tables
  BY DEF DurableInv, TypeInv, TypeOK, LoggedTables
<1>2. PICK m \in synced .. Len(Whole) : W!ReadAll(SubSeq(file, 1, n)) = SubSeq(Whole, 1, m)
  BY <1>1, ReadBackPart
<1>3. /\ Line \in Seq(Op) /\ Len(Whole) \in Nat /\ synced \in Nat /\ Len(Whole) <= Len(Line) /\ Len(Line) \in Nat
      /\ \A i \in 0 .. Len(Whole) : SubSeq(Line, 1, i) = SubSeq(Whole, 1, i)
  BY <1>1, LineType, LenProperties
<1>4. m \in 0 .. Len(Whole) /\ m \in 0 .. Len(Line) /\ SubSeq(Whole, 1, m) = SubSeq(Line, 1, m)
  BY <1>3
<1>5. ASSUME NEW i \in m + 1 .. Len(Line) PROVE Line[i] \in UnsyncedOps
  <2>1. i \in 1 .. Len(Line) /\ i > synced
    BY <1>3
  <2>2. CASE i > Len(Whole)
    BY <1>1, <2>1, <2>2, LineParts DEF UnsyncedOps
  <2>3. CASE i <= Len(Whole)
    <3>1. Line[i] = Whole[i] /\ Whole \in Seq(Op) /\ i \in 1 .. Len(Whole) /\ Whole[i] \in Op
      BY <1>1, <2>1, <2>3, <1>3, LineParts, ElementOfSeq DEF FileInv
    <3>2. Whole[i] = file[i] /\ i \in 1 .. Len(file)
      <4>1. CASE ~HeaderOut
        BY <3>1, <4>1 DEF Whole
      <4>2. CASE HeaderOut
        <5>1. file = Append(Whole, Torn)
          BY <1>1, <4>2 DEF FileInv
        <5> DEFINE S == Op \cup {Torn}
        <5>2. Whole \in Seq(S) /\ Torn \in S
          BY <3>1, SeqMonotonic
        <5> HIDE DEF S
        <5>3. Len(file) = Len(Whole) + 1 /\ file[i] = Whole[i]
          BY <3>1, <5>1, <5>2, AppendProperties
        <5> QED BY <1>3, <3>1, <5>3
      <4> QED BY <4>1, <4>2
    <3>3. i \in synced + 1 .. Len(file) /\ file[i] # Torn
      BY <1>3, <2>1, <3>1, <3>2, DatabaseAssumption
    <3> QED BY <3>1, <3>2, <3>3 DEF UnsyncedOps
  <2> QED BY <1>3, <2>1, <2>2, <2>3
<1>6. \A i \in m + 1 .. Len(Line) : ~Touches(Line[i], t, k)
  BY <1>5
<1>7. Cell(Replay(disk, SubSeq(Line, 1, m)), t, k) = Cell(Replay(disk, Line), t, k)
  BY <1>1, <1>3, <1>4, <1>6, ReplayUntouched
<1>8. Replay(disk, Line)[t] = told[t]
  BY <1>1 DEF LogInv, Agrees
<1>9. Cell(Replay(disk, Line), t, k) = Cell(told, t, k)
  BY <1>8 DEF Cell
<1>10. Recovery(disk, SubSeq(file, 1, n)) = Replay(disk, SubSeq(Line, 1, m))
  BY <1>2, <1>4, RecoveryIsReplay
<1> QED BY <1>7, <1>9, <1>10

(* Between the checkpoint and the truncation the file still holds the whole
   line. *)
LEMMA InvImpliesRepeatable == DurableInv => RecoveryRepeatable
<1> SUFFICES ASSUME DurableInv, phase \in {"checkpoint", "truncate"}, NEW t \in LoggedTables
             PROVE  Recovery(disk, file)[t] = data[t]
  BY DEF RecoveryRepeatable
<1>1. TypeInv /\ FileInv /\ LogInv
  BY DEF DurableInv, NoLog
<1>2. Line = file /\ file \in Seq(Op)
  BY <1>1, QuietLine DEF DurableInv, ThreadInv, Up
<1>3. Recovery(disk, file) = Replay(disk, Line)
  BY <1>2, ReadAllWhole, RecoveryIsReplay
<1> QED BY <1>1, <1>3 DEF LogInv

(* When all threads have ended, nothing is held back from the file. *)
LEMMA InvImpliesClean == EnableWAL /\ DurableInv => CleanCloseKeepsAll
<1> SUFFICES ASSUME EnableWAL, DurableInv, Closed, ~late, NEW t \in LoggedTables
             PROVE  Recovery(disk, file)[t] = told[t]
  BY DEF CleanCloseKeepsAll
<1>1. TypeInv /\ ThreadInv /\ FileInv /\ LogInv
  BY DEF DurableInv
<1>2. Up
  BY <1>1 DEF ThreadInv, ThreadStart, Closed
<1>3. buffered = <<>> /\ \A f \in Flushers : step[f] = "idle"
  BY <1>1 DEF ThreadInv, ThreadsJoined, Threads, Closed, Flushers
<1>4. Line = file /\ file \in Seq(Op)
  BY <1>1, <1>3, QuietLine
<1>5. Recovery(disk, file) = Replay(disk, Line)
  BY <1>4, ReadAllWhole, RecoveryIsReplay
<1> QED BY <1>1, <1>2, <1>5 DEF LogInv, Agrees

(* As long as no import and no other process replaces the tables behind the
   log, and a crash leaves whole frames: a record whose logged operations
   are all fsynced is given back as it is by _recover_from_wal after a crash
   at any moment, between any two steps of a save, of a flush, of a batch,
   of a reload or of an earlier recovery. *)
THEOREM Durable ==
  ASSUME Foreign = {}, ~TornWrites
  PROVE  Spec => []DurableOnceSynced
<1>1. DurableInv /\ [Next]_vars => DurableInv'
  BY NextDurable
<1> QED BY <1>1, InitDurable, InvImpliesDurable, PTL DEF Spec

(* Under the same conditions, a crash between the checkpoint of __init__ and
   the truncation of the WAL does no harm: the entries are replayed over the
   tables that they made, and make them again. *)
THEOREM RepeatedRecovery ==
  ASSUME Foreign = {}, ~TornWrites
  PROVE  Spec => []RecoveryRepeatable
<1>1. DurableInv /\ [Next]_vars => DurableInv'
  BY NextDurable
<1> QED BY <1>1, InitDurable, InvImpliesRepeatable, PTL DEF Spec

(* And with a WAL, a database closed with no commit behind the last flush
   opens again with what its callers last saw, whichever of its threads
   saved last. *)
THEOREM CleanClose ==
  ASSUME Foreign = {}, ~TornWrites, EnableWAL
  PROVE  Spec => []CleanCloseKeepsAll
<1>1. DurableInv /\ [Next]_vars => DurableInv'
  BY NextDurable
<1>2. DurableInv => CleanCloseKeepsAll
  BY InvImpliesClean
<1> QED BY <1>1, <1>2, InitDurable, PTL DEF Spec

=============================================================================
