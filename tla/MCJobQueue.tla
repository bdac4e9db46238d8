----------------------------- MODULE MCJobQueue -----------------------------
(* The instances of JobQueue that TLC checks. *)
EXTENDS JobQueue, TLC

CONSTANTS h1, h2, h3, p1, p2

\* h1 and h2 are slots of one process, h3 is the only slot of another.
MCProcessOf == [h \in Handlers |-> IF h = h3 THEN p2 ELSE p1]

\* Ids are interchangeable, and so are the slots of one process.
Symmetry == Permutations(Ids) \cup Permutations({h1, h2} \cap Handlers)
=============================================================================
