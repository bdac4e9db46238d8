-------------------------- MODULE RunQueueRefinement --------------------------
(* The run queue implements SlotQueue: a run waits while its queue holds it    *)
(* and runs while it holds a slot of its queue.                                *)
EXTENDS RunQueue

SQ == INSTANCE SlotQueue WITH
        waiting <- {r \in Runs : queue[r] # Absent},
        running <- queueCurrentConcurrency

\* Every script of the run queue is a step of SlotQueue, or none of its
\* business: claims within the limits, never a run that waits and runs at once.
ImplementsSlotQueue == SQ!Spec
=============================================================================
