----------------------------- MODULE MCRunQueue -----------------------------
(* The instances of RunQueue that TLC checks. *)
EXTENDS RunQueueRefinement, TLC

CONSTANTS r1, r2, r3, qA, qB

\* r1 and r2 share a queue, r3 has one of its own.
MCQueueOf == [r \in Runs |-> IF r = r3 THEN qB ELSE qA]

\* A caller may die before any call it has still to make.
AllCalls == Calls \ {"none"}

Symmetry == Permutations({r1, r2} \cap Runs) \cup Permutations(Workers)
=============================================================================
