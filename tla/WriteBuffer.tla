---------------------------- MODULE WriteBuffer ----------------------------
(***************************************************************************)
(* The write path of polarysdb/database.py seen by its callers: _send_op   *)
(* puts an operation in a bounded queue and waits for its answer, both     *)
(* with a timeout; _process_write_buffer takes operations in micro-batches *)
(* and answers them one by one; close sets _closed and then _stop, upon    *)
(* which the thread leaves its loop, drains the queue and ends.            *)
(*                                                                         *)
(* Each caller runs its operations one after the other.  What an operation *)
(* does to the tables is in module Database.                               *)
(***************************************************************************)
EXTENDS Naturals, Sequences, SequencesExt

CONSTANTS
  Callers,
  CallsEach,   \* how many calls each caller makes (bound)
  BufferSize,  \* cfg.buffer_size
  BatchMax,    \* the 50 of _process_write_buffer
  MayClose,    \* close may be called
  MayTimeOut   \* a call may wait longer than _WRITE_TIMEOUT

ASSUME WriteBufferAssumption ==
  /\ CallsEach \in Nat
  /\ {BufferSize, BatchMax} \subseteq Nat \ {0}
  /\ {MayClose, MayTimeOut} \subseteq BOOLEAN

Ops == Callers \X (1 .. CallsEach)

VARIABLES
  status,     \* how far the call of each operation is
  writeBuf,   \* _write_buf
  pending,    \* the micro-batch
  worker,     \* where the write-buffer thread is
  answered,   \* operations whose result was put
  closed,     \* _closed
  stop,       \* _stop
  history,    \* history: the operations applied, in order
  before      \* history: before[o], the operations whose call had ended when o was called

vars == <<status, writeBuf, pending, worker, answered, closed, stop, history, before>>

Ended == {"ok", "refused", "unknown"}

Init ==
  /\ status = [o \in Ops |-> "new"]
  /\ writeBuf = <<>> /\ pending = <<>>
  /\ worker = "collect"
  /\ answered = {}
  /\ closed = FALSE /\ stop = FALSE
  /\ history = <<>>
  /\ before = [o \in Ops |-> {}]

Move(o, from, to) == status[o] = from /\ status' = [status EXCEPT ![o] = to]

----------------------------------------------------------------------------
(* _send_op *)

(* The check of _closed, first thing of a call. *)
Begin(o) ==
  /\ \A n \in 1 .. o[2] - 1 : status[<<o[1], n>>] \in Ended
  /\ Move(o, "new", IF closed THEN "refused" ELSE "put")
  /\ before' = [before EXCEPT ![o] = {p \in Ops : status[p] \in Ended}]
  /\ UNCHANGED <<writeBuf, pending, worker, answered, closed, stop, history>>

(* Mutated form: the newest operation is taken first. *)
PutFirst(o) == <<o>> \o writeBuf

PutLast(o) == Append(writeBuf, o)

(* Mutated form: a queue without maxsize. *)
NeverFull == TRUE

HasRoom == Len(writeBuf) < BufferSize

Put(o) ==
  /\ Move(o, "put", "wait")
  /\ HasRoom
  /\ writeBuf' = PutLast(o)
  /\ UNCHANGED <<pending, worker, answered, closed, stop, history, before>>

(* queue.Full: TimeoutError *)
PutTimesOut(o) ==
  /\ MayTimeOut
  /\ Move(o, "put", "refused")
  /\ Len(writeBuf) = BufferSize
  /\ UNCHANGED <<writeBuf, pending, worker, answered, closed, stop, history, before>>

GetAnswer(o) ==
  /\ Move(o, "wait", "ok")
  /\ o \in answered
  /\ UNCHANGED <<writeBuf, pending, worker, answered, closed, stop, history, before>>

(* op.result.get raises queue.Empty; the operation stays where it is. *)
GetTimesOut(o) ==
  /\ MayTimeOut
  /\ Move(o, "wait", "unknown")
  /\ o \notin answered
  /\ UNCHANGED <<writeBuf, pending, worker, answered, closed, stop, history, before>>

----------------------------------------------------------------------------
(* _process_write_buffer *)

TakeOne ==
  /\ worker \in {"collect", "drain"}
  /\ writeBuf # <<>>
  /\ worker = "drain" \/ Len(pending) < BatchMax
  /\ pending' = Append(pending, Head(writeBuf))
  /\ writeBuf' = Tail(writeBuf)
  /\ UNCHANGED <<status, worker, answered, closed, stop, history, before>>

(* process, from the loop or, when the queue was found empty, the last time. *)
Process ==
  /\ pending # <<>>
  /\ \/ worker = "collect" /\ worker' = "apply"
     \/ worker = "drain" /\ writeBuf = <<>> /\ worker' = "applyLast"
  /\ UNCHANGED <<status, writeBuf, pending, answered, closed, stop, history, before>>

(* Mutated form: the caller is answered before the operation is applied. *)
AnswerAhead(o) == answered \cup ToSet(pending)

(* op.result.put *)
Answer(o) == answered \cup {o}

(* Mutated form: the batch is cleared after its first operation. *)
DropBatch == <<>>

RestOfBatch == Tail(pending)

(* One turn of the loop over the batch; pending.clear() after the last. *)
ApplyNext ==
  /\ worker \in {"apply", "applyLast"}
  /\ history' = Append(history, Head(pending))
  /\ answered' = Answer(Head(pending))
  /\ pending' = RestOfBatch
  /\ worker' = IF RestOfBatch # <<>> THEN worker
               ELSE IF worker = "apply" THEN "collect" ELSE "exit"
  /\ UNCHANGED <<status, writeBuf, closed, stop, before>>

LeaveLoop ==
  /\ worker = "collect" /\ stop
  /\ worker' = "drain"
  /\ UNCHANGED <<status, writeBuf, pending, answered, closed, stop, history, before>>

DrainedNothing ==
  /\ worker = "drain" /\ writeBuf = <<>> /\ pending = <<>>
  /\ worker' = "exit"
  /\ UNCHANGED <<status, writeBuf, pending, answered, closed, stop, history, before>>

----------------------------------------------------------------------------
(* close_with_timeout: two events set one after the other. *)
SetClosed ==
  /\ MayClose /\ ~closed
  /\ closed' = TRUE
  /\ UNCHANGED <<status, writeBuf, pending, worker, answered, stop, history, before>>

SetStop ==
  /\ closed /\ ~stop
  /\ stop' = TRUE
  /\ UNCHANGED <<status, writeBuf, pending, worker, answered, closed, history, before>>

----------------------------------------------------------------------------
Calling == \E o \in Ops :
  Begin(o) \/ Put(o) \/ PutTimesOut(o) \/ GetAnswer(o) \/ GetTimesOut(o)
Worker  == TakeOne \/ Process \/ ApplyNext \/ LeaveLoop \/ DrainedNothing
Next    == Calling \/ Worker \/ SetClosed \/ SetStop

Spec == Init /\ [][Next]_vars

(* Threads run.  Calls are not obliged to start, close not to be called. *)
Fairness ==
  /\ WF_vars(Worker) /\ WF_vars(SetStop)
  /\ \A o \in Ops : SF_vars(Put(o)) /\ WF_vars(GetAnswer(o))

FairSpec == Spec /\ Fairness

----------------------------------------------------------------------------
TypeOK ==
  /\ status \in [Ops -> {"new", "put", "wait"} \cup Ended]
  /\ writeBuf \in Seq(Ops) /\ Len(writeBuf) <= BufferSize
  /\ pending \in Seq(Ops)
  /\ worker \in {"collect", "apply", "drain", "applyLast", "exit"}
  /\ answered \subseteq Ops
  /\ {closed, stop} \subseteq BOOLEAN
  /\ history \in Seq(Ops)
  /\ before \in [Ops -> SUBSET Ops]

(* Callers see atomic operations: each takes effect at most once, after its
   call began and before it returned normally, and a refused one never does
   (_send_op with _process_write_buffer). *)
Promise == INSTANCE AtomicCalls
  WITH status <- [o \in Ops |-> IF status[o] \in {"put", "wait"} THEN "called" ELSE status[o]]
ImplementsAtomicCalls == Promise!ACSpec

(* An operation called after another call had ended, even by a timeout, takes
   effect after the operation of that call, if both do: a retry cannot be
   overtaken by what it repeats. *)
OrderKept ==
  \A i, j \in DOMAIN history : history[i] \in before[history[j]] => i < j

(* While the database stays open every call is answered unless it gives up
   itself, also when the queue is full most of the time: neither the queue nor
   the micro-batches of _process_write_buffer lose an operation. *)
EveryCallAnswered ==
  \A o \in Ops : status[o] \in {"put", "wait"} ~> (status[o] \in Ended \/ closed)

============================================================================
