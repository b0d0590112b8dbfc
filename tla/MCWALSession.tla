---------------------------- MODULE MCWALSession ----------------------------
(* Instances of WALSession for TLC. *)
EXTENDS WALSession

CONSTANTS a, b, c, d

(* b is too large, c cannot be encoded, a and d are alike. *)
Symmetry == Permutations({a, d})

============================================================================
