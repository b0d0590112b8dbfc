--------------------------- MODULE MCKeyRotation ---------------------------
(* Instances of KeyRotation for TLC. *)
EXTENDS KeyRotation

CONSTANTS k1, k2, w1, w2, c1

============================================================================
