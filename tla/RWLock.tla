------------------------------- MODULE RWLock -------------------------------
(***************************************************************************)
(* _FairRWLock of polarysdb/database.py, which guards _data: a counter of  *)
(* readers under a mutex (_lock), and a second lock (_write_lock) that the *)
(* first reader takes, still holding the mutex, and the last one releases. *)
(* Neither lock is owned: a thread may release what another one acquired.  *)
(***************************************************************************)
EXTENDS Naturals, FiniteSets

CONSTANTS Threads, NoThread

ASSUME RWLockAssumption ==
  /\ IsFiniteSet(Threads)
  /\ NoThread \notin Threads

VARIABLES
  pc,       \* where each thread is
  mutex,    \* who holds _lock, or NoThread
  readers,  \* _readers
  wlock     \* _write_lock is held

lockVars == <<pc, mutex, readers, wlock>>

Labels == {"out", "wantRead", "counted", "entered", "reading", "leaving",
           "wantWrite", "writing"}

LockInit ==
  /\ pc = [t \in Threads |-> "out"]
  /\ mutex = NoThread
  /\ readers = 0
  /\ wlock = FALSE

Goto(t, from, to) == pc[t] = from /\ pc' = [pc EXCEPT ![t] = to]

----------------------------------------------------------------------------
(* _ReadCtx.__enter__ *)

AskRead(t) ==
  /\ Goto(t, "out", "wantRead")
  /\ UNCHANGED <<mutex, readers, wlock>>

(* with _lock: count this reader *)
Count(t) ==
  /\ Goto(t, "wantRead", "counted")
  /\ mutex = NoThread
  /\ mutex' = t
  /\ readers' = readers + 1
  /\ UNCHANGED wlock

(* The first reader waits for the write lock, with the mutex in hand. *)
LockOutWriters(t) ==
  /\ Goto(t, "counted", "entered")
  /\ readers = 1
  /\ ~wlock
  /\ wlock' = TRUE
  /\ UNCHANGED <<mutex, readers>>

(* Release _lock and go on to the section. *)
StartReading(t) ==
  /\ \/ Goto(t, "entered", "reading")
     \/ readers # 1 /\ Goto(t, "counted", "reading")
  /\ mutex' = NoThread
  /\ UNCHANGED <<readers, wlock>>

(* _ReadCtx.__exit__ *)
Uncount(t) ==
  /\ Goto(t, "reading", "leaving")
  /\ mutex = NoThread
  /\ mutex' = t
  /\ readers' = readers - 1
  /\ UNCHANGED wlock

(* Mutated forms: writers are let in one reader early, by every reader that
   leaves, or never. *)
NoReaderWithOffByOne == readers <= 1
EveryReaderReleases  == TRUE
NeverReleased        == FALSE

LastReader == readers = 0

StopReading(t) ==
  /\ Goto(t, "leaving", "out")
  /\ wlock' = IF LastReader THEN FALSE ELSE wlock
  /\ mutex' = NoThread
  /\ UNCHANGED readers

----------------------------------------------------------------------------
(* _WriteCtx *)

AskWrite(t) ==
  /\ Goto(t, "out", "wantWrite")
  /\ UNCHANGED <<mutex, readers, wlock>>

StartWriting(t) ==
  /\ Goto(t, "wantWrite", "writing")
  /\ ~wlock
  /\ wlock' = TRUE
  /\ UNCHANGED <<mutex, readers>>

StopWriting(t) ==
  /\ Goto(t, "writing", "out")
  /\ wlock' = FALSE
  /\ UNCHANGED <<mutex, readers>>

----------------------------------------------------------------------------
(* What a thread in a section or holding a lock does without waiting. *)
Proceed(t) ==
  LockOutWriters(t) \/ StartReading(t) \/ StopReading(t) \/ StopWriting(t)

LockNext ==
  \E t \in Threads :
    AskRead(t) \/ Count(t) \/ Proceed(t) \/ Uncount(t) \/ AskWrite(t) \/ StartWriting(t)

LockSpec == LockInit /\ [][LockNext]_lockVars

(* Sections end, and a lock that is released again and again is at some point
   acquired by each thread that waits for it. *)
LockFairness ==
  \A t \in Threads :
    /\ WF_lockVars(StartReading(t)) /\ WF_lockVars(StopReading(t)) /\ WF_lockVars(StopWriting(t))
    /\ SF_lockVars(Count(t)) /\ SF_lockVars(LockOutWriters(t))
    /\ SF_lockVars(Uncount(t)) /\ SF_lockVars(StartWriting(t))

FairLockSpec == LockSpec /\ LockFairness

----------------------------------------------------------------------------
LockTypeOK ==
  /\ pc \in [Threads -> Labels]
  /\ mutex \in Threads \cup {NoThread}
  /\ readers \in Nat
  /\ wlock \in BOOLEAN

(* No thread is inside a write section of _data together with another thread
   inside any section: every "with self._data_lock" of database.py. *)
MutualExclusion ==
  \A t, u \in Threads :
    pc[t] = "writing" /\ pc[u] \in {"reading", "writing"} => t = u

(* The sections are those of the abstract lock: _FairRWLock implements module
   ReadersWriters. *)
Mode == [t \in Threads |-> IF pc[t] \in {"reading", "writing"} THEN pc[t] ELSE "out"]
Abstract == INSTANCE ReadersWriters WITH mode <- Mode
ImplementsReadersWriters == Abstract!RWSpec

(* A thread that asks to read gets in: the mutex and the write lock, taken in
   this order by readers, cannot hold it for ever. *)
ReaderGetsIn == \A t \in Threads : pc[t] = "wantRead" ~> pc[t] = "reading"

----------------------------------------------------------------------------
(* The inductive invariant. *)

InMutex == {"counted", "entered", "leaving"}
Counted == {t \in Threads : pc[t] \in {"counted", "entered", "reading"}}
(* The readers that came after the write lock was taken for them. *)
Inside  == {"entered", "reading", "leaving"}

MutexHeld     == \A t \in Threads : pc[t] \in InMutex <=> mutex = t
ReadersRight  == readers = Cardinality(Counted)
WriteLockHeld == wlock <=> \E t \in Threads : pc[t] \in Inside \cup {"writing"}
OneKind ==
  \A t, u \in Threads :
    pc[t] = "writing" /\ pc[u] \in Inside \cup {"writing"} => t = u

LockInv == LockTypeOK /\ MutexHeld /\ ReadersRight /\ WriteLockHeld /\ OneKind

============================================================================
