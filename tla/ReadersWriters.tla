--------------------------- MODULE ReadersWriters ---------------------------
(***************************************************************************)
(* What the rest of polarysdb/database.py takes _FairRWLock to be: any     *)
(* number of threads inside a read section, or a single one inside a write *)
(* section.  Nothing is said about who goes first.                         *)
(***************************************************************************)
CONSTANT Threads

VARIABLE mode   \* mode[t]: the section that thread t is in

RWInit == mode = [t \in Threads |-> "out"]

EnterRead(t) ==
  /\ mode[t] = "out"
  /\ \A u \in Threads : mode[u] # "writing"
  /\ mode' = [mode EXCEPT ![t] = "reading"]

EnterWrite(t) ==
  /\ \A u \in Threads : mode[u] = "out"
  /\ mode' = [mode EXCEPT ![t] = "writing"]

Leave(t) ==
  /\ mode[t] # "out"
  /\ mode' = [mode EXCEPT ![t] = "out"]

RWNext == \E t \in Threads : EnterRead(t) \/ EnterWrite(t) \/ Leave(t)

RWSpec == RWInit /\ [][RWNext]_mode

============================================================================
