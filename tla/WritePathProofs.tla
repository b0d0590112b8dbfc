-------------------------- MODULE WritePathProofs --------------------------
(***************************************************************************)
(* Proofs about the way of a write in polarysdb/database.py: the lock that *)
(* it takes (module RWLock), for any finite set of threads, and the queue  *)
(* that it waits in (module WriteBuffer), for any set of callers and any   *)
(* sizes of the queue and of the micro-batches.                            *)
(*                                                                         *)
(* About the lock: the inductive invariant LockInv, mutual exclusion, and  *)
(* the refinement of the abstract lock of module ReadersWriters.           *)
(*                                                                         *)
(* About the queue: calls keep their order, and they implement module      *)
(* AtomicCalls.  The argument is about one sequence, the operations        *)
(* applied, then the micro-batch, then the queue: the thread only moves    *)
(* its borders, and callers only append to it.                             *)
(***************************************************************************)
EXTENDS RWLock, WriteBuffer, FiniteSetTheorems, SequenceLemmas

(* The readers-writer lock. *)

(* How the number of counted readers changes when one thread starts or stops
   being counted. *)
LEMMA CountedMoves ==
  ASSUME NEW S, NEW t, IsFiniteSet(S)
  PROVE  /\ t \notin S => Cardinality(S \cup {t}) = Cardinality(S) + 1
         /\ t \in S => Cardinality(S \ {t}) = Cardinality(S) - 1
         /\ Cardinality(S) \in Nat
         /\ Cardinality(S) = 0 <=> S = {}
BY FS_AddElement, FS_RemoveElement, FS_CardinalityType, FS_EmptySet

(* Finitely many threads are counted. *)
LEMMA CountedFinite == IsFiniteSet(Counted)
BY RWLockAssumption, FS_Subset DEF Counted

(* If a counted thread is not the only one, another thread is counted. *)
LEMMA AnotherCounted ==
  ASSUME NEW t \in Counted, Cardinality(Counted) # 1
  PROVE  \E u \in Counted : u # t
<1>1. SUFFICES ASSUME \A u \in Counted : u = t PROVE FALSE
  OBVIOUS
<1>2. Counted = {t}
  BY <1>1
<1> QED BY <1>2, FS_Singleton

(* The initial state satisfies the inductive invariant. *)
LEMMA InitLockInv == LockInit => LockInv
<1> SUFFICES ASSUME LockInit PROVE LockInv
  OBVIOUS
<1>1. Counted = {}
  BY DEF LockInit, Counted
<1>2. LockTypeOK /\ MutexHeld /\ WriteLockHeld /\ OneKind
  BY RWLockAssumption DEF LockInit, LockTypeOK, Labels, MutexHeld, WriteLockHeld, OneKind, InMutex, Inside
<1>3. ReadersRight
  BY <1>1, FS_EmptySet DEF LockInit, ReadersRight
<1> QED BY <1>2, <1>3 DEF LockInv

(* Every step of the lock preserves the inductive invariant. *)
LEMMA NextLockInv == LockInv /\ [LockNext]_lockVars => LockInv'
<1> SUFFICES ASSUME LockInv, [LockNext]_lockVars PROVE LockInv'
  OBVIOUS
<1> USE DEF LockInv
<1>1. CASE UNCHANGED lockVars
  BY <1>1 DEF lockVars, LockTypeOK, MutexHeld, ReadersRight, WriteLockHeld, OneKind, Counted
<1>2. ASSUME NEW t \in Threads, AskRead(t) PROVE LockInv'
  <2>1. pc[t] = "out" /\ pc' = [pc EXCEPT ![t] = "wantRead"] /\ UNCHANGED <<mutex, readers, wlock>>
    BY <1>2 DEF AskRead, Goto
  <2>2. Counted' = Counted
    BY <2>1 DEF Counted, LockTypeOK
  <2>3. LockTypeOK' /\ MutexHeld'
    BY <2>1, RWLockAssumption DEF LockTypeOK, Labels, MutexHeld, InMutex
  <2>4. WriteLockHeld' /\ OneKind'
    BY <2>1 DEF LockTypeOK, WriteLockHeld, OneKind, Inside
  <2> QED BY <2>1, <2>2, <2>3, <2>4 DEF ReadersRight
<1>3. ASSUME NEW t \in Threads, AskWrite(t) PROVE LockInv'
  <2>1. pc[t] = "out" /\ pc' = [pc EXCEPT ![t] = "wantWrite"] /\ UNCHANGED <<mutex, readers, wlock>>
    BY <1>3 DEF AskWrite, Goto
  <2>2. Counted' = Counted
    BY <2>1 DEF Counted, LockTypeOK
  <2>3. LockTypeOK' /\ MutexHeld'
    BY <2>1, RWLockAssumption DEF LockTypeOK, Labels, MutexHeld, InMutex
  <2>4. WriteLockHeld' /\ OneKind'
    BY <2>1 DEF LockTypeOK, WriteLockHeld, OneKind, Inside
  <2> QED BY <2>1, <2>2, <2>3, <2>4 DEF ReadersRight
<1>4. ASSUME NEW t \in Threads, Count(t) PROVE LockInv'
  <2>1. /\ pc[t] = "wantRead" /\ pc' = [pc EXCEPT ![t] = "counted"]
        /\ mutex = NoThread /\ mutex' = t /\ readers' = readers + 1 /\ wlock' = wlock
    BY <1>4 DEF Count, Goto
  <2>2. Counted' = Counted \cup {t} /\ t \notin Counted
    BY <2>1 DEF Counted, LockTypeOK
  <2>3. ReadersRight'
    BY <2>1, <2>2, CountedFinite, CountedMoves DEF ReadersRight
  <2>4. LockTypeOK' /\ MutexHeld'
    BY <2>1, RWLockAssumption DEF LockTypeOK, Labels, MutexHeld, InMutex
  <2>5. WriteLockHeld' /\ OneKind'
    BY <2>1 DEF LockTypeOK, WriteLockHeld, OneKind, Inside
  <2> QED BY <2>3, <2>4, <2>5
<1>5. ASSUME NEW t \in Threads, LockOutWriters(t) PROVE LockInv'
  <2>1. /\ pc[t] = "counted" /\ pc' = [pc EXCEPT ![t] = "entered"]
        /\ ~wlock /\ wlock' = TRUE /\ UNCHANGED <<mutex, readers>>
    BY <1>5 DEF LockOutWriters, Goto
  <2>2. Counted' = Counted
    BY <2>1 DEF Counted, LockTypeOK
  <2>3. LockTypeOK' /\ MutexHeld'
    BY <2>1 DEF LockTypeOK, Labels, MutexHeld, InMutex
  <2>4. WriteLockHeld' /\ OneKind'
    BY <2>1 DEF LockTypeOK, WriteLockHeld, OneKind, Inside
  <2> QED BY <2>1, <2>2, <2>3, <2>4 DEF ReadersRight
<1>6. ASSUME NEW t \in Threads, StartReading(t) PROVE LockInv'
  <2>1. /\ pc[t] \in {"entered", "counted"} /\ pc' = [pc EXCEPT ![t] = "reading"]
        /\ mutex' = NoThread /\ UNCHANGED <<readers, wlock>>
    BY <1>6 DEF StartReading, Goto
  <2>2. Counted' = Counted /\ t \in Counted
    BY <2>1 DEF Counted, LockTypeOK
  <2>3. mutex = t
    BY <2>1 DEF MutexHeld, InMutex
  <2>4. LockTypeOK' /\ MutexHeld'
    BY <2>1, <2>3, RWLockAssumption DEF LockTypeOK, Labels, MutexHeld, InMutex
  <2>5. \E u \in Threads : pc[u] \in Inside
    <3>1. CASE pc[t] = "entered"
      BY <3>1 DEF Inside
    <3>2. CASE pc[t] = "counted"
      <4>1. readers # 1
        BY <1>6, <3>2 DEF StartReading, Goto
      <4>2. PICK u \in Counted : u # t
        BY <4>1, <2>2, AnotherCounted DEF ReadersRight
      <4>3. pc[u] = "reading"
        BY <4>2, <2>3 DEF Counted, MutexHeld, InMutex
      <4> QED BY <4>2, <4>3 DEF Inside, Counted
    <3> QED BY <2>1, <3>1, <3>2
  <2>6. WriteLockHeld'
    BY <2>1, <2>5 DEF LockTypeOK, WriteLockHeld, Inside
  <2>7. OneKind'
    BY <2>1, <2>5 DEF LockTypeOK, OneKind, Inside
  <2> QED BY <2>1, <2>2, <2>4, <2>6, <2>7 DEF ReadersRight
<1>7. ASSUME NEW t \in Threads, Uncount(t) PROVE LockInv'
  <2>1. /\ pc[t] = "reading" /\ pc' = [pc EXCEPT ![t] = "leaving"]
        /\ mutex = NoThread /\ mutex' = t /\ readers' = readers - 1 /\ wlock' = wlock
    BY <1>7 DEF Uncount, Goto
  <2>2. Counted' = Counted \ {t} /\ t \in Counted
    BY <2>1 DEF Counted, LockTypeOK
  <2>3. ReadersRight' /\ readers' \in Nat
    <3>1. Cardinality(Counted \ {t}) = Cardinality(Counted) - 1
      BY <2>2, CountedFinite, CountedMoves
    <3>2. Cardinality(Counted \ {t}) \in Nat
      BY CountedFinite, FS_RemoveElement, FS_CardinalityType, FS_Subset
    <3> QED BY <2>1, <2>2, <3>1, <3>2 DEF ReadersRight
  <2>4. LockTypeOK' /\ MutexHeld'
    BY <2>1, <2>3, RWLockAssumption DEF LockTypeOK, Labels, MutexHeld, InMutex
  <2>5. WriteLockHeld' /\ OneKind'
    BY <2>1 DEF LockTypeOK, WriteLockHeld, OneKind, Inside
  <2> QED BY <2>3, <2>4, <2>5
<1>8. ASSUME NEW t \in Threads, StopReading(t) PROVE LockInv'
  <2>1. /\ pc[t] = "leaving" /\ pc' = [pc EXCEPT ![t] = "out"]
        /\ wlock' = (IF readers = 0 THEN FALSE ELSE wlock)
        /\ mutex' = NoThread /\ readers' = readers
    BY <1>8 DEF StopReading, Goto, LastReader
  <2>2. Counted' = Counted
    BY <2>1 DEF Counted, LockTypeOK
  <2>3. mutex = t
    BY <2>1 DEF MutexHeld, InMutex
  <2>4. LockTypeOK' /\ MutexHeld'
    BY <2>1, <2>3, RWLockAssumption DEF LockTypeOK, Labels, MutexHeld, InMutex
  <2>5. wlock /\ \A u \in Threads : pc[u] # "writing"
    BY <2>1 DEF WriteLockHeld, OneKind, Inside
  <2>6. WriteLockHeld'
    <3>1. CASE readers = 0
      <4>1. Counted = {}
        BY <3>1, CountedFinite, CountedMoves DEF ReadersRight
      <4>2. \A u \in Threads : pc'[u] \notin Inside \cup {"writing"}
        BY <4>1, <2>1, <2>3, <2>5 DEF Counted, MutexHeld, InMutex, Inside, LockTypeOK
      <4> QED BY <4>2, <2>1, <3>1 DEF WriteLockHeld
    <3>2. CASE readers # 0
      <4>1. PICK u \in Counted : TRUE
        BY <3>2, CountedFinite, CountedMoves DEF ReadersRight
      <4>2. u \in Threads /\ u # t /\ pc[u] = "reading"
        BY <4>1, <2>1, <2>3 DEF Counted, MutexHeld, InMutex
      <4>3. pc'[u] = "reading"
        BY <4>2, <2>1 DEF LockTypeOK
      <4> QED BY <4>2, <4>3, <2>1, <2>5, <3>2 DEF WriteLockHeld, Inside
    <3> QED BY <3>1, <3>2
  <2>7. OneKind'
    BY <2>1, <2>5 DEF LockTypeOK, OneKind, Inside
  <2> QED BY <2>1, <2>2, <2>4, <2>6, <2>7 DEF ReadersRight
<1>9. ASSUME NEW t \in Threads, StartWriting(t) PROVE LockInv'
  <2>1. /\ pc[t] = "wantWrite" /\ pc' = [pc EXCEPT ![t] = "writing"]
        /\ ~wlock /\ wlock' = TRUE /\ UNCHANGED <<mutex, readers>>
    BY <1>9 DEF StartWriting, Goto
  <2>2. Counted' = Counted
    BY <2>1 DEF Counted, LockTypeOK
  <2>3. LockTypeOK' /\ MutexHeld'
    BY <2>1, RWLockAssumption DEF LockTypeOK, Labels, MutexHeld, InMutex
  <2>4. WriteLockHeld' /\ OneKind'
    BY <2>1 DEF LockTypeOK, WriteLockHeld, OneKind, Inside
  <2> QED BY <2>1, <2>2, <2>3, <2>4 DEF ReadersRight
<1>10. ASSUME NEW t \in Threads, StopWriting(t) PROVE LockInv'
  <2>1. /\ pc[t] = "writing" /\ pc' = [pc EXCEPT ![t] = "out"]
        /\ wlock' = FALSE /\ UNCHANGED <<mutex, readers>>
    BY <1>10 DEF StopWriting, Goto
  <2>2. Counted' = Counted
    BY <2>1 DEF Counted, LockTypeOK
  <2>3. LockTypeOK' /\ MutexHeld'
    BY <2>1, RWLockAssumption DEF LockTypeOK, Labels, MutexHeld, InMutex
  <2>4. WriteLockHeld' /\ OneKind'
    BY <2>1 DEF LockTypeOK, WriteLockHeld, OneKind, Inside
  <2> QED BY <2>1, <2>2, <2>3, <2>4 DEF ReadersRight
<1> QED BY <1>1, <1>2, <1>3, <1>4, <1>5, <1>6, <1>7, <1>8, <1>9, <1>10 DEF LockNext, Proceed

(* The reader count, the mutex and the write lock always agree with where the
   threads are. *)
THEOREM LockInvariance == LockSpec => []LockInv
<1> QED BY InitLockInv, NextLockInv, PTL DEF LockSpec

(* Two sections of which one writes need the write lock twice. *)
LEMMA InvImpliesExclusion == LockInv => MutualExclusion
BY DEF LockInv, OneKind, MutualExclusion, Inside

(* A write section of database.py excludes every other section. *)
THEOREM Exclusion == LockSpec => []MutualExclusion
<1> QED BY LockInvariance, InvImpliesExclusion, PTL

----------------------------------------------------------------------------
(* The refinement of ReadersWriters. *)

(* Everybody is out. *)
LEMMA InitRefines == LockInit => Abstract!RWInit
BY DEF LockInit, Abstract!RWInit, Mode

(* StartReading maps to EnterRead, StartWriting to EnterWrite, Uncount and
   StopWriting to Leave, and every other step to a stutter. *)
LEMMA StepRefines ==
  LockTypeOK /\ OneKind' /\ [LockNext]_lockVars => [Abstract!RWNext]_Mode
<1> SUFFICES ASSUME LockTypeOK, OneKind', [LockNext]_lockVars PROVE [Abstract!RWNext]_Mode
  OBVIOUS
<1> USE DEF LockTypeOK, Mode
<1>1. CASE UNCHANGED lockVars
  BY <1>1 DEF lockVars
<1>2. ASSUME NEW t \in Threads,
             AskRead(t) \/ Count(t) \/ LockOutWriters(t) \/ StopReading(t) \/ AskWrite(t)
      PROVE  UNCHANGED Mode
  BY <1>2 DEF AskRead, Count, LockOutWriters, StopReading, AskWrite, Goto
<1>3. ASSUME NEW t \in Threads, StartReading(t) PROVE Abstract!EnterRead(t)
  <2>1. pc[t] \in {"entered", "counted"} /\ pc' = [pc EXCEPT ![t] = "reading"]
    BY <1>3 DEF StartReading, Goto
  <2>2. \A u \in Threads : pc[u] # "writing"
    BY <2>1 DEF OneKind, Inside
  <2> QED BY <2>1, <2>2 DEF Abstract!EnterRead
<1>4. ASSUME NEW t \in Threads, StartWriting(t) PROVE Abstract!EnterWrite(t)
  <2>1. pc[t] = "wantWrite" /\ pc' = [pc EXCEPT ![t] = "writing"]
    BY <1>4 DEF StartWriting, Goto
  <2>2. \A u \in Threads : pc[u] \notin {"reading", "writing"}
    BY <2>1 DEF OneKind, Inside
  <2> QED BY <2>1, <2>2 DEF Abstract!EnterWrite
<1>5. ASSUME NEW t \in Threads, Uncount(t) \/ StopWriting(t) PROVE Abstract!Leave(t)
  BY <1>5 DEF Uncount, StopWriting, Goto, Abstract!Leave
<1> QED BY <1>1, <1>2, <1>3, <1>4, <1>5 DEF LockNext, Proceed, Abstract!RWNext

(* _FairRWLock implements the readers-writer lock that its users rely on. *)
THEOREM LockRefinement == LockSpec => ImplementsReadersWriters
<1>1. LockInv => LockTypeOK /\ OneKind
  BY DEF LockInv
<1> QED BY <1>1, InitRefines, StepRefines, LockInvariance, PTL
        DEF LockSpec, ImplementsReadersWriters, Abstract!RWSpec

----------------------------------------------------------------------------
(* The queue and its thread. *)

Line == (history \o pending) \o writeBuf

LineUnique  == \A i, j \in DOMAIN Line : Line[i] = Line[j] => i = j
LineCalled  == \A i \in DOMAIN Line : status[Line[i]] \in {"wait", "ok", "unknown"}
LineOrdered == \A i, j \in DOMAIN Line : Line[i] \in before[Line[j]] => i < j
BeforeEnded == \A o \in Ops : \A p \in before[o] : status[p] \in Ended
AnswersTrue ==
  /\ \A o \in answered : \E i \in DOMAIN history : history[i] = o
  /\ \A o \in Ops : status[o] = "ok" => o \in answered
BatchKept   == worker \in {"apply", "applyLast"} => pending # <<>>

(* The inductive invariant. *)
PathInv ==
  TypeOK /\ LineUnique /\ LineCalled /\ LineOrdered /\ BeforeEnded /\ AnswersTrue /\ BatchKept

----------------------------------------------------------------------------
(* Where the three parts are. *)
LEMMA LineParts ==
  ASSUME TypeOK
  PROVE  /\ Line \in Seq(Ops) /\ DOMAIN Line = 1 .. Len(Line)
         /\ Len(Line) = Len(history) + Len(pending) + Len(writeBuf)
         /\ DOMAIN history = 1 .. Len(history)
         /\ \A i \in DOMAIN history : i \in DOMAIN Line /\ Line[i] = history[i]
         /\ pending # <<>> => /\ Len(history) + 1 \in DOMAIN Line
                              /\ Line[Len(history) + 1] = Head(pending)
<1>1. /\ history \in Seq(Ops) /\ pending \in Seq(Ops) /\ writeBuf \in Seq(Ops)
      /\ Len(history) \in Nat /\ Len(pending) \in Nat /\ Len(writeBuf) \in Nat
      /\ DOMAIN history = 1 .. Len(history)
  BY LenProperties DEF TypeOK
<1> DEFINE done == history \o pending
<1>2. /\ done \in Seq(Ops) /\ Len(done) = Len(history) + Len(pending)
      /\ \A i \in 1 .. Len(history) + Len(pending) :
           done[i] = IF i <= Len(history) THEN history[i] ELSE pending[i - Len(history)]
  BY <1>1, ConcatProperties
<1> HIDE DEF done
<1>3. /\ done \o writeBuf \in Seq(Ops) /\ Len(done \o writeBuf) = Len(done) + Len(writeBuf)
      /\ \A i \in 1 .. Len(done) + Len(writeBuf) :
           (done \o writeBuf)[i] = IF i <= Len(done) THEN done[i] ELSE writeBuf[i - Len(done)]
  <2>1. done \in Seq(Ops) /\ writeBuf \in Seq(Ops)
    BY <1>1, <1>2
  <2> QED BY <2>1, ConcatProperties
<1>4. Line = done \o writeBuf
  BY DEF Line, done
<1>5. DOMAIN Line = 1 .. Len(Line)
  BY <1>3, <1>4, LenProperties
<1>6. \A i \in 1 .. Len(history) : i \in DOMAIN Line /\ Line[i] = history[i]
  BY <1>1, <1>2, <1>3, <1>4, <1>5
<1>7. ASSUME pending # <<>>
      PROVE  Len(history) + 1 \in DOMAIN Line /\ Line[Len(history) + 1] = Head(pending)
  <2>1. Len(pending) \in Nat \ {0} /\ Head(pending) = pending[1]
    BY <1>1, <1>7, EmptySeq
  <2> QED BY <1>1, <1>2, <1>3, <1>4, <1>5, <2>1
<1> QED BY <1>1, <1>2, <1>3, <1>4, <1>5, <1>6, <1>7

(* The thread takes an operation. *)
LEMMA LineTaken ==
  ASSUME TypeOK, writeBuf # <<>>, pending' = Append(pending, Head(writeBuf)),
         writeBuf' = Tail(writeBuf), history' = history
  PROVE  Line' = Line
<1>1. history \in Seq(Ops) /\ pending \in Seq(Ops) /\ writeBuf \in Seq(Ops)
  BY DEF TypeOK
<1>2. Head(writeBuf) \in Ops /\ history \o pending \in Seq(Ops)
  BY <1>1, HeadTailProperties, ConcatProperties
<1>3. history \o pending' = Append(history \o pending, Head(writeBuf))
  BY <1>1, <1>2, AppendRight
<1>4. Append(history \o pending, Head(writeBuf)) \o Tail(writeBuf) = (history \o pending) \o writeBuf
  BY <1>1, <1>2, MoveHead
<1> QED BY <1>3, <1>4 DEF Line

(* An operation is applied. *)
LEMMA LineApplied ==
  ASSUME TypeOK, pending # <<>>, history' = Append(history, Head(pending)),
         pending' = Tail(pending), writeBuf' = writeBuf
  PROVE  Line' = Line
<1>1. history \in Seq(Ops) /\ pending \in Seq(Ops)
  BY DEF TypeOK
<1>2. history' \o pending' = history \o pending
  BY <1>1, MoveHead
<1> QED BY <1>2 DEF Line

(* A caller puts an operation. *)
LEMMA LinePut ==
  ASSUME TypeOK, NEW o \in Ops, writeBuf' = Append(writeBuf, o),
         pending' = pending, history' = history
  PROVE  Line' = Append(Line, o)
<1>1. history \o pending \in Seq(Ops) /\ writeBuf \in Seq(Ops)
  BY ConcatProperties DEF TypeOK
<1> QED BY <1>1, AppendRight DEF Line

(* Every other step. *)
LEMMA LineSame ==
  ASSUME UNCHANGED <<writeBuf, pending, history>>
  PROVE  Line' = Line
BY DEF Line

----------------------------------------------------------------------------
(* Nothing is in the line at the start. *)
LEMMA InitPathInv == Init => PathInv
<1> SUFFICES ASSUME Init PROVE PathInv
  OBVIOUS
<1> USE DEF Init
<1>1. TypeOK
  <2>1. <<>> \in Seq(Ops) /\ Len(<<>>) = 0
    BY EmptySeq
  <2>2. before \in [Ops -> SUBSET Ops] /\ status \in [Ops -> {"new", "put", "wait"} \cup Ended]
    OBVIOUS
  <2>3. 0 <= BufferSize
    BY WriteBufferAssumption
  <2> QED BY <2>1, <2>2, <2>3 DEF TypeOK
<1>2. Line = <<>>
  BY DEF Line
<1>3. DOMAIN Line = {}
  BY <1>2
<1> HIDE DEF Init
<1>4. LineUnique /\ LineCalled /\ LineOrdered
  BY <1>3 DEF LineUnique, LineCalled, LineOrdered
<1>5. BeforeEnded /\ AnswersTrue /\ BatchKept
  BY DEF Init, BeforeEnded, AnswersTrue, BatchKept
<1> QED BY <1>1, <1>4, <1>5 DEF PathInv

(* A step of a call that leaves the line alone. *)
LEMMA CallStep ==
  ASSUME PathInv, NEW o \in Ops, UNCHANGED <<writeBuf, pending, worker, answered, history>>,
         UNCHANGED <<closed, stop>>,
         \/ /\ status[o] = "new"
            /\ status' \in {[status EXCEPT ![o] = "put"], [status EXCEPT ![o] = "refused"]}
            /\ before' = [before EXCEPT ![o] = {p \in Ops : status[p] \in Ended}]
         \/ /\ status[o] = "put" /\ status' = [status EXCEPT ![o] = "refused"]
            /\ before' = before
         \/ /\ status[o] = "wait" /\ before' = before
            /\ \/ status' = [status EXCEPT ![o] = "unknown"]
               \/ status' = [status EXCEPT ![o] = "ok"] /\ o \in answered
  PROVE  PathInv'
<1> USE DEF PathInv
<1>1. Line' = Line
  BY LineSame
<1>2. /\ Line \in Seq(Ops) /\ DOMAIN Line = 1 .. Len(Line)
      /\ \A i \in DOMAIN Line : Line[i] \in Ops
  BY LineParts, ElementOfSeq
<1>3. \A p \in Ops : status'[p] = status[p] \/ p = o
  BY DEF TypeOK
<1>4. \A p \in Ops : status[p] \in Ended => status'[p] = status[p]
  BY <1>3 DEF Ended
<1>5. TypeOK'
  BY DEF TypeOK, Ended
<1>6. LineUnique' /\ BatchKept'
  BY <1>1 DEF LineUnique, BatchKept
<1>7. LineCalled'
  <2> SUFFICES ASSUME NEW i \in DOMAIN Line PROVE status'[Line[i]] \in {"wait", "ok", "unknown"}
    BY <1>1 DEF LineCalled
  <2>1. CASE Line[i] = o
    BY <2>1 DEF LineCalled, TypeOK
  <2>2. CASE Line[i] # o
    BY <2>2, <1>2, <1>3 DEF LineCalled
  <2> QED BY <2>1, <2>2
<1>8. LineOrdered'
  <2>1. \A p \in Ops : before'[p] = before[p] \/ (p = o /\ status[p] = "new")
    BY DEF TypeOK
  <2>2. \A i \in DOMAIN Line : before'[Line[i]] = before[Line[i]]
    BY <2>1, <1>2 DEF LineCalled
  <2> QED BY <1>1, <2>2 DEF LineOrdered
<1>9. BeforeEnded'
  <2> SUFFICES ASSUME NEW q \in Ops, NEW p \in before'[q] PROVE status'[p] \in Ended
    BY DEF BeforeEnded
  <2>1. before'[q] = before[q] \/ before'[q] = {r \in Ops : status[r] \in Ended}
    BY DEF TypeOK
  <2>2. p \in Ops
    BY <2>1 DEF TypeOK
  <2>3. status[p] \in Ended
    BY <2>1 DEF BeforeEnded
  <2> QED BY <2>2, <2>3, <1>4
<1>10. AnswersTrue'
  BY DEF AnswersTrue, TypeOK
<1> QED BY <1>5, <1>6, <1>7, <1>8, <1>9, <1>10

(* A step that changes neither a call nor the line. *)
LEMMA QuietStep ==
  ASSUME PathInv, Line' = Line, TypeOK', BatchKept', AnswersTrue', UNCHANGED <<status, before>>
  PROVE  PathInv'
BY DEF PathInv, LineUnique, LineCalled, LineOrdered, BeforeEnded

(* Every step of a caller, of the thread and of close keeps the invariant. *)
LEMMA NextPathInv == PathInv /\ [Next]_vars => PathInv'
<1> SUFFICES ASSUME PathInv, [Next]_vars PROVE PathInv'
  OBVIOUS
<1>0. TypeOK /\ BatchKept /\ AnswersTrue
  BY DEF PathInv
<1>1. CASE UNCHANGED vars
  BY <1>1 DEF vars, PathInv, TypeOK, Line, LineUnique, LineCalled, LineOrdered, BeforeEnded,
              AnswersTrue, BatchKept
<1>2. ASSUME NEW o \in Ops, Begin(o) PROVE PathInv'
  BY <1>2, CallStep DEF Begin, Move
<1>3. ASSUME NEW o \in Ops, Put(o) PROVE PathInv'
  <2>1. /\ status[o] = "put" /\ status' = [status EXCEPT ![o] = "wait"]
        /\ Len(writeBuf) < BufferSize /\ writeBuf' = Append(writeBuf, o)
        /\ UNCHANGED <<pending, worker, answered, closed, stop, history, before>>
    BY <1>3 DEF Put, Move, HasRoom, PutLast
  <2>2. TypeOK'
    BY <1>0, <2>1, WriteBufferAssumption DEF TypeOK
  <2>3. /\ Line \in Seq(Ops) /\ DOMAIN Line = 1 .. Len(Line) /\ Len(Line) \in Nat
        /\ Line' = Append(Line, o)
    BY <1>0, <2>1, LineParts, LinePut, LenProperties
  <2>4. /\ DOMAIN Line' = 1 .. Len(Line) + 1 /\ Line'[Len(Line) + 1] = o
        /\ \A i \in DOMAIN Line : Line'[i] = Line[i] /\ Line[i] \in Ops
    BY <2>3
  <2>5. \A i \in DOMAIN Line : Line[i] # o /\ o \notin before[Line[i]]
    BY <2>1, <2>4 DEF PathInv, LineCalled, BeforeEnded, Ended
  <2>6. LineUnique'
    BY <2>3, <2>4, <2>5 DEF PathInv, LineUnique
  <2>7. LineCalled'
    BY <1>0, <2>1, <2>3, <2>4, <2>5 DEF PathInv, LineCalled, TypeOK
  <2>8. LineOrdered'
    <3> SUFFICES ASSUME NEW i \in 1 .. Len(Line) + 1, NEW j \in 1 .. Len(Line) + 1,
                        Line'[i] \in before[Line'[j]]
                 PROVE  i < j
      BY <2>1, <2>4 DEF LineOrdered
    <3>1. o \notin before[o]
      BY <2>1 DEF PathInv, BeforeEnded, Ended
    <3>2. i \in DOMAIN Line
      BY <2>3, <2>4, <2>5, <3>1
    <3>3. CASE j \in DOMAIN Line
      BY <2>4, <3>2, <3>3 DEF PathInv, LineOrdered
    <3>4. CASE j = Len(Line) + 1
      BY <2>3, <3>2, <3>4
    <3> QED BY <2>3, <3>3, <3>4
  <2>9. BeforeEnded' /\ AnswersTrue' /\ BatchKept'
    BY <1>0, <2>1 DEF PathInv, BeforeEnded, AnswersTrue, BatchKept, TypeOK, Ended
  <2> QED BY <2>2, <2>6, <2>7, <2>8, <2>9 DEF PathInv
<1>4. ASSUME NEW o \in Ops, PutTimesOut(o) PROVE PathInv'
  BY <1>4, CallStep DEF PutTimesOut, Move
<1>5. ASSUME NEW o \in Ops, GetAnswer(o) PROVE PathInv'
  BY <1>5, CallStep DEF GetAnswer, Move
<1>6. ASSUME NEW o \in Ops, GetTimesOut(o) PROVE PathInv'
  BY <1>6, CallStep DEF GetTimesOut, Move
<1>7. CASE TakeOne
  <2>1. Line' = Line
    BY <1>0, <1>7, LineTaken DEF TakeOne
  <2>2. TypeOK'
    <3>1. /\ Head(writeBuf) \in Ops /\ Tail(writeBuf) \in Seq(Ops)
          /\ Len(Tail(writeBuf)) = Len(writeBuf) - 1
      BY <1>0, <1>7, HeadTailProperties DEF TakeOne, TypeOK
    <3>2. Len(writeBuf) \in Nat
      BY <1>0, LenProperties DEF TypeOK
    <3> QED BY <1>0, <1>7, <3>1, <3>2, WriteBufferAssumption DEF TakeOne, TypeOK
  <2>3. BatchKept' /\ AnswersTrue'
    BY <1>0, <1>7 DEF TakeOne, BatchKept, AnswersTrue
  <2> QED BY <1>7, <2>1, <2>2, <2>3, QuietStep DEF TakeOne
<1>8. CASE Process
  BY <1>0, <1>8, QuietStep, LineSame DEF Process, TypeOK, BatchKept, AnswersTrue
<1>9. CASE ApplyNext
  <2>1. pending # <<>> /\ Head(pending) \in Ops /\ Tail(pending) \in Seq(Ops)
    BY <1>0, <1>9, HeadTailProperties DEF ApplyNext, BatchKept, TypeOK
  <2>2. /\ history' = Append(history, Head(pending)) /\ pending' = Tail(pending)
        /\ answered' = answered \cup {Head(pending)}
        /\ UNCHANGED <<status, writeBuf, closed, stop, before>>
    BY <1>9 DEF ApplyNext, RestOfBatch, Answer
  <2>3. Line' = Line
    BY <1>0, <2>1, <2>2, LineApplied
  <2>4. worker' \in {"collect", "apply", "applyLast", "exit"} /\ BatchKept'
    BY <1>9, <2>2 DEF ApplyNext, RestOfBatch, BatchKept
  <2>5. TypeOK'
    BY <1>0, <2>1, <2>2, <2>4 DEF TypeOK
  <2>6. AnswersTrue'
    <3>1. history \in Seq(Ops)
      BY <1>0 DEF TypeOK
    <3>2. /\ DOMAIN history' = 1 .. Len(history) + 1 /\ Len(history) \in Nat
          /\ history'[Len(history) + 1] = Head(pending)
          /\ \A i \in DOMAIN history : i \in DOMAIN history' /\ history'[i] = history[i]
      BY <2>2, <3>1
    <3> QED BY <1>0, <2>2, <3>2 DEF AnswersTrue
  <2> QED BY <2>2, <2>3, <2>4, <2>5, <2>6, QuietStep
<1>10. CASE LeaveLoop
  BY <1>0, <1>10, QuietStep, LineSame DEF LeaveLoop, TypeOK, BatchKept, AnswersTrue
<1>11. CASE DrainedNothing
  BY <1>0, <1>11, QuietStep, LineSame DEF DrainedNothing, TypeOK, BatchKept, AnswersTrue
<1>12. CASE SetClosed
  BY <1>0, <1>12, QuietStep, LineSame DEF SetClosed, TypeOK, BatchKept, AnswersTrue
<1>13. CASE SetStop
  BY <1>0, <1>13, QuietStep, LineSame DEF SetStop, TypeOK, BatchKept, AnswersTrue
<1> QED BY <1>1, <1>2, <1>3, <1>4, <1>5, <1>6, <1>7, <1>8, <1>9, <1>10, <1>11, <1>12, <1>13
        DEF Next, Calling, Worker

(* The queue, the micro-batch and what was applied always form one sequence in
   the order of the calls: _send_op and _process_write_buffer. *)
THEOREM PathInvariance == Spec => []PathInv
BY InitPathInv, NextPathInv, PTL DEF Spec

(* The type invariant of module WriteBuffer, with the bound of the queue. *)
THEOREM TypeCorrect == Spec => []TypeOK
BY PathInvariance, PTL DEF PathInv

(* An operation called after another call had ended takes effect after the
   operation of that call: _send_op and the order of the queue. *)
THEOREM OrderIsKept == Spec => []OrderKept
<1>1. PathInv => OrderKept
  <2> SUFFICES ASSUME PathInv, NEW i \in DOMAIN history, NEW j \in DOMAIN history,
                      history[i] \in before[history[j]]
               PROVE  i < j
    BY DEF OrderKept
  <2>1. i \in DOMAIN Line /\ j \in DOMAIN Line /\ Line[i] = history[i] /\ Line[j] = history[j]
    BY LineParts DEF PathInv
  <2> QED BY <2>1 DEF PathInv, LineOrdered
<1> QED BY <1>1, PathInvariance, PTL

----------------------------------------------------------------------------
(* The write path implements atomic calls. *)

Known == [o \in Ops |-> IF status[o] \in {"put", "wait"} THEN "called" ELSE status[o]]

(* No call has begun. *)
LEMMA InitAtomic == Init => Promise!ACInit
BY DEF Init, Promise!ACInit

(* An operation whose call can still be refused, or has not begun, is not in
   the history; one that the thread is about to apply is not there yet. *)
LEMMA NotHappened ==
  ASSUME PathInv
  PROVE  /\ \A o \in Ops : status[o] \in {"new", "put"} => ~Promise!Happened(o)
         /\ pending # <<>> => /\ Head(pending) \in Ops
                              /\ ~Promise!Happened(Head(pending))
                              /\ status[Head(pending)] \in {"wait", "unknown"}
<1> USE DEF PathInv
<1>1. \A i \in DOMAIN history : i \in DOMAIN Line /\ Line[i] = history[i]
  BY LineParts
<1>2. \A o \in Ops : status[o] \in {"new", "put"} => ~Promise!Happened(o)
  BY <1>1 DEF Promise!Happened, LineCalled
<1>3. ASSUME pending # <<>>
      PROVE  /\ Head(pending) \in Ops /\ ~Promise!Happened(Head(pending))
             /\ status[Head(pending)] \in {"wait", "unknown"}
  <2>1. Head(pending) \in Ops
    BY <1>3, HeadTailProperties DEF TypeOK
  <2>2. /\ Len(history) + 1 \in DOMAIN Line /\ Line[Len(history) + 1] = Head(pending)
        /\ DOMAIN history = 1 .. Len(history) /\ Len(history) \in Nat
    BY <1>3, LineParts, LenProperties DEF TypeOK
  <2>3. \A i \in DOMAIN history : history[i] # Head(pending)
    BY <1>1, <2>2 DEF LineUnique
  <2>4. Head(pending) \notin answered
    BY <2>3 DEF AnswersTrue
  <2>5. status[Head(pending)] \in {"wait", "unknown"}
    BY <2>1, <2>2, <2>4 DEF LineCalled, AnswersTrue
  <2> QED BY <2>1, <2>3, <2>5 DEF Promise!Happened
<1> QED BY <1>2, <1>3

(* Every step is a step of AtomicCalls, or changes nothing that it shows. *)
LEMMA StepAtomic ==
  PathInv /\ [Next]_vars => [Promise!ACNext]_<<Known, history>>
<1> SUFFICES ASSUME PathInv, [Next]_vars PROVE [Promise!ACNext]_<<Known, history>>
  OBVIOUS
<1>0. TypeOK /\ AnswersTrue /\ BatchKept
  BY DEF PathInv
<1> DEFINE Call(o, s) == /\ Known' = [Known EXCEPT ![o] = s]
                         /\ UNCHANGED history
<1>1. ASSUME UNCHANGED <<status, history>> PROVE UNCHANGED <<Known, history>>
  BY <1>1 DEF Known
<1>2. ASSUME NEW o \in Ops, Begin(o) PROVE Promise!ACNext
  <2>1. CASE closed
    <3>1. Known' = [Known EXCEPT ![o] = "refused"] /\ Known[o] = "new" /\ UNCHANGED history
      BY <1>0, <1>2, <2>1 DEF Begin, Move, Known, TypeOK
    <3> QED BY <1>2, <3>1, NotHappened
            DEF Begin, Move, Known, Promise!ACNext, Promise!Refuse, Promise!Know
  <2>2. CASE ~closed
    <3>1. Known' = [Known EXCEPT ![o] = "called"] /\ Known[o] = "new" /\ UNCHANGED history
      BY <1>0, <1>2, <2>2 DEF Begin, Move, Known, TypeOK
    <3> QED BY <3>1 DEF Known, Promise!ACNext, Promise!Call, Promise!Know
  <2> QED BY <2>1, <2>2
<1>3. ASSUME NEW o \in Ops, Put(o) PROVE UNCHANGED <<Known, history>>
  BY <1>0, <1>3 DEF Put, Move, Known, TypeOK
<1>4. ASSUME NEW o \in Ops, PutTimesOut(o) PROVE Promise!ACNext
  <2>1. Known' = [Known EXCEPT ![o] = "refused"] /\ Known[o] = "called" /\ UNCHANGED history
    BY <1>0, <1>4 DEF PutTimesOut, Move, Known, TypeOK
  <2> QED BY <1>4, <2>1, NotHappened
          DEF PutTimesOut, Move, Known, Promise!ACNext, Promise!Refuse, Promise!Know
<1>5. ASSUME NEW o \in Ops, GetAnswer(o) PROVE Promise!ACNext
  <2>1. Known' = [Known EXCEPT ![o] = "ok"] /\ Known[o] = "called" /\ UNCHANGED history
    BY <1>0, <1>5 DEF GetAnswer, Move, Known, TypeOK
  <2>2. Promise!Happened(o)
    BY <1>0, <1>5 DEF GetAnswer, AnswersTrue, Promise!Happened
  <2> QED BY <2>1, <2>2 DEF Known, Promise!ACNext, Promise!ReturnOk, Promise!Know
<1>6. ASSUME NEW o \in Ops, GetTimesOut(o) PROVE Promise!ACNext
  <2>1. Known' = [Known EXCEPT ![o] = "unknown"] /\ Known[o] = "called" /\ UNCHANGED history
    BY <1>0, <1>6 DEF GetTimesOut, Move, Known, TypeOK
  <2> QED BY <2>1 DEF Known, Promise!ACNext, Promise!ReturnUnknown, Promise!Know
<1>7. CASE ApplyNext
  <2>1. pending # <<>> /\ history' = Append(history, Head(pending)) /\ status' = status
    BY <1>0, <1>7 DEF ApplyNext, BatchKept
  <2>2. Head(pending) \in Ops /\ Known[Head(pending)] \in {"called", "unknown"} /\ Known' = Known
    BY <2>1, NotHappened DEF Known
  <2> QED BY <2>1, <2>2, NotHappened DEF Known, Promise!ACNext, Promise!TakeEffect
<1>8. CASE TakeOne \/ Process \/ LeaveLoop \/ DrainedNothing \/ SetClosed \/ SetStop \/ UNCHANGED vars
  BY <1>1, <1>8 DEF TakeOne, Process, LeaveLoop, DrainedNothing, SetClosed, SetStop, vars
<1> QED BY <1>2, <1>3, <1>4, <1>5, <1>6, <1>7, <1>8 DEF Next, Calling, Worker

(* Calls of create, write and delete are atomic: each takes effect at most once,
   after its call began and before it returned normally, and a refused one never
   does; for any number of callers and any sizes. *)
THEOREM Refinement == Spec => ImplementsAtomicCalls
<1>1. Init => Promise!ACInit
  BY InitAtomic
<1>2. PathInv /\ [Next]_vars => [Promise!ACNext]_<<Known, history>>
  BY StepAtomic
<1> QED BY <1>1, <1>2, PathInvariance, PTL DEF Spec, ImplementsAtomicCalls, Promise!ACSpec, Known

============================================================================
