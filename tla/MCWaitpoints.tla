---------------------------- MODULE MCWaitpoints ----------------------------
(* Small instances of Waitpoints for TLC. *)
EXTENDS WaitpointsRefinement

CONSTANTS t1, b1, i1

OneBatch == [i \in Items |-> b1]
=============================================================================
