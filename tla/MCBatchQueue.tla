---------------------------- MODULE MCBatchQueue ----------------------------
(* Small instances of BatchQueue for TLC. *)
EXTENDS BatchQueue

CONSTANTS m1, m2, b1, d1, d2, c1, c2

OneBatch == [m \in Messages |-> b1]
=============================================================================
