------------------------- MODULE WaitpointsRefinement -------------------------
(* The engine and the runner together implement RunLife.  Code waits in memory, *)
(* in a checkpoint, or in one that is being made when its process dies.         *)
EXTENDS Waitpoints

Phase ==
  IF proc \in {"running", "calling"} THEN "running"
  ELSE IF proc \in {"waiting", "frozen", "restoring"} \/ suspendReq = "latest"
       THEN "waiting"
       ELSE "idle"

AwaitedNow == IF Phase = "waiting" THEN awaits ELSE {}
CompletedNow == {w \in Waitpoint : wp[w] = "completed"}
Over == snap.status = "FINISHED"

Life == INSTANCE RunLife WITH
          phase <- Phase, awaits <- AwaitedNow, completed <- CompletedNow, over <- Over

\* Every handler, job and step of the runner is a step of RunLife or none: code
\* never goes on past a wait of which one waitpoint is pending, never starts but
\* in an attempt of a run that is neither over nor canceled, and no heartbeat
\* finishes its run while it executes.
ImplementsRunLife == Life!Spec
=============================================================================
