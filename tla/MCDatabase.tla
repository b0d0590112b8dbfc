----------------------------- MODULE MCDatabase -----------------------------
(* Instances of Database for TLC. *)
EXTENDS Database, TLC

CONSTANTS t1, k1, k2, v1, v2

Fresh == {Nothing}

(* A directory that is new, or one that was saved with a table. *)
Saved == Fresh \cup [Tables -> {[k \in Keys |-> x] : x \in Vals \cup {Absent}}]

(* What an import file or another process can supply: one record, under a key
   that the operations also write. *)
OneTable == {[t \in Tables |-> [k \in Keys |-> IF k = k1 THEN v1 ELSE Absent]]}

(* Sound with Foreign = {} and for safety. *)
Symmetry == Permutations(Keys) \cup Permutations(Vals)

============================================================================
