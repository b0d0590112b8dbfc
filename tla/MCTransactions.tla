--------------------------- MODULE MCTransactions ---------------------------
(* Instances of Transactions for TLC. *)
EXTENDS Transactions, TLC

CONSTANTS x1, x2, k1, k2, v1, c1, c2

(* Sound for safety only. *)
Symmetry == Permutations(Txns) \cup Permutations(Keys) \cup Permutations(Committers)

============================================================================
