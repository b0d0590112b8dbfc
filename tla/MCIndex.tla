------------------------------ MODULE MCIndex ------------------------------
(* Instances of Index for TLC. *)
EXTENDS Index, TLC

CONSTANTS t1, t2, k1, k2, v1, v2, v3

Holding(v) == [k \in Keys |-> IF k = k1 THEN v ELSE Absent]

(* Files that hold every table, one of them perhaps with a value that cannot be
   indexed, and a file that holds none. *)
ImportFiles ==
  {[t \in Tables |-> Holding(v1)], [t \in Tables |-> NoTable]}
    \cup {[t \in Tables |-> Holding(IF t = bad THEN v3 ELSE v1)] : bad \in Tables}

(* Sound for safety only. *)
Symmetry == Permutations(Tables)

============================================================================
