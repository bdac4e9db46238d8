---------------------------- MODULE MCRunQueueCk ----------------------------
(* The instances of RunQueueCk that TLC checks. *)
EXTENDS RunQueueCk, TLC

CONSTANTS r1, r2, r3, vA, vB

\* r2 and r3 share a concurrency key, r1 has one of its own.
MCVariantOf == [r \in Runs |-> IF r = r1 THEN vA ELSE vB]

Symmetry == Permutations({r2, r3})
=============================================================================
