------------------------------- MODULE RunLife -------------------------------
(***************************************************************************)
(* What the engine promises the code of a task, without snapshots, edges,  *)
(* checkpoints, jobs or heartbeats: a wait ends when all it waits for is   *)
(* completed, or with its attempt; code starts only in a new attempt;      *)
(* nobody else ends the run of code that runs, but who cancels it; and a   *)
(* run that is over or canceled never starts again.                        *)
(***************************************************************************)
EXTENDS Integers

CONSTANTS Waitpoint, MaxAttempts

VARIABLES
  phase,      \* of the code: "idle", "running" or "waiting"
  awaits,     \* what the code waits for
  completed,  \* waitpoints completed
  attempts, canceled, over

code == <<phase, awaits>>
vars == <<code, completed, attempts, canceled, over>>

Init ==
  /\ phase = "idle" /\ awaits = {}
  /\ completed = {}
  /\ attempts = 0 /\ canceled = FALSE /\ over = FALSE

\* The code goes on as it did, or is stopped where it is.
Undisturbed == UNCHANGED code
Stopped == phase' = "idle" /\ awaits' = {}

Start ==
  /\ phase = "idle" /\ ~over /\ ~canceled /\ attempts < MaxAttempts
  /\ phase' = "running" /\ awaits' = {}
  /\ attempts' = attempts + 1
  /\ UNCHANGED <<completed, canceled, over>>

Wait ==
  /\ phase = "running"
  /\ phase' = "waiting" /\ awaits' \in SUBSET Waitpoint
  /\ UNCHANGED <<completed, attempts, canceled, over>>

\* Wherever the code waited meanwhile, in memory or in a checkpoint.
Proceed ==
  /\ phase = "waiting" /\ awaits \subseteq completed
  /\ phase' = "running" /\ awaits' = {}
  /\ UNCHANGED <<completed, attempts, canceled, over>>

\* The code ends, fails, dies or is given up.
Stop ==
  /\ Stopped
  /\ UNCHANGED <<completed, attempts, canceled, over>>

Complete(w) ==
  /\ completed' = completed \cup {w}
  /\ UNCHANGED <<code, attempts, canceled, over>>

Cancel ==
  /\ ~over
  /\ canceled' = TRUE /\ over' \in BOOLEAN
  /\ Undisturbed \/ Stopped
  /\ UNCHANGED <<completed, attempts>>

\* A run whose code runs is over only when it was canceled: its own end stops
\* the code first.
Finish ==
  /\ ~over /\ (canceled \/ phase # "running")
  /\ over' = TRUE
  /\ Undisturbed \/ Stopped
  /\ UNCHANGED <<completed, attempts, canceled>>

Next ==
  \/ Start \/ Wait \/ Proceed \/ Stop
  \/ \E w \in Waitpoint : Complete(w)
  \/ Cancel \/ Finish

Spec == Init /\ [][Next]_vars
=============================================================================
