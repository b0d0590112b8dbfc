---------------------------- MODULE AtomicCalls ----------------------------
(***************************************************************************)
(* What create, write and delete of polarysdb/database.py promise to their *)
(* callers: an operation takes effect at one moment after it was called; a *)
(* call that returns normally returns after that moment, a call that was   *)
(* refused has no effect, and of a call that timed out nothing is known.   *)
(***************************************************************************)
EXTENDS Sequences

CONSTANT Ops

VARIABLES
  status,   \* what the caller of each operation knows
  history   \* the operations that took effect, in order

ACInit ==
  /\ status = [o \in Ops |-> "new"]
  /\ history = <<>>

Know(o, s) == status' = [status EXCEPT ![o] = s]

Happened(o) == \E i \in DOMAIN history : history[i] = o

Call(o) == status[o] = "new" /\ Know(o, "called") /\ UNCHANGED history

(* An operation whose call timed out can still take effect. *)
TakeEffect(o) ==
  /\ status[o] \in {"called", "unknown"}
  /\ ~Happened(o)
  /\ history' = Append(history, o)
  /\ UNCHANGED status

ReturnOk(o)      == status[o] = "called" /\ Happened(o) /\ Know(o, "ok") /\ UNCHANGED history
ReturnUnknown(o) == status[o] = "called" /\ Know(o, "unknown") /\ UNCHANGED history
Refuse(o) ==
  /\ status[o] \in {"new", "called"} /\ ~Happened(o)
  /\ Know(o, "refused")
  /\ UNCHANGED history

ACNext ==
  \E o \in Ops :
    Call(o) \/ TakeEffect(o) \/ ReturnOk(o) \/ ReturnUnknown(o) \/ Refuse(o)

ACSpec == ACInit /\ [][ACNext]_<<status, history>>

============================================================================
