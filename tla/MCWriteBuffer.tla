--------------------------- MODULE MCWriteBuffer ---------------------------
(* Instances of WriteBuffer for TLC. *)
EXTENDS WriteBuffer

CONSTANTS c1, c2

============================================================================
