------------------------------ MODULE SlotQueue ------------------------------
(***************************************************************************)
(* What the run queue promises to the run engine, without sorted sets,     *)
(* worker queues or messages: a run waits in its queue or holds a slot,    *)
(* never both, and it gets a slot only within the limits of its queue and  *)
(* of the environment at that moment.                                      *)
(***************************************************************************)
EXTENDS Integers, FiniteSets

CONSTANTS Runs, Queues, QueueOf, Absent, EnvLimits, QueueLimits,
          BurstNum, BurstDen, DefaultQueueLimit

VARIABLES waiting, running, envLimit, queueLimit

vars == <<waiting, running, envLimit, queueLimit>>

Init ==
  /\ waiting = {} /\ running = {}
  /\ envLimit \in EnvLimits
  /\ queueLimit \in [Queues -> QueueLimits \cup {Absent}]

OfQueue(S, q) == {r \in S : QueueOf[r] = q}

OwnLimit(q) == IF queueLimit[q] = Absent THEN DefaultQueueLimit ELSE queueLimit[q]

FitsEnvironment(S) == Cardinality(S) <= (envLimit * BurstNum) \div BurstDen

FitsQueue(S, q) ==
  /\ Cardinality(OfQueue(S, q)) <= OwnLimit(q)
  /\ Cardinality(OfQueue(S, q)) <= envLimit

\* A new run waits, or a run that held a slot waits again.
Wait(r) ==
  /\ waiting' = waiting \cup {r}
  /\ running' = running \ {r}
  /\ UNCHANGED <<envLimit, queueLimit>>

\* Runs get slots; some that waited too long may leave instead.
Claim(S, gone) ==
  /\ S # {}
  /\ waiting' = waiting \ (S \cup gone)
  /\ running' = running \cup S
  /\ FitsEnvironment(running \cup S)
  /\ \A r \in S : FitsQueue(running \cup S, QueueOf[r])
  /\ UNCHANGED <<envLimit, queueLimit>>

\* Runs leave: finished, suspended, expired, dead-lettered.
Leave(S) ==
  /\ waiting' = waiting \ S
  /\ running' = running \ S
  /\ UNCHANGED <<envLimit, queueLimit>>

\* The limits may change at any time, also below what runs.
SetLimits ==
  /\ envLimit' \in EnvLimits
  /\ queueLimit' \in [Queues -> QueueLimits \cup {Absent}]
  /\ UNCHANGED <<waiting, running>>

Next ==
  \/ \E r \in Runs : Wait(r)
  \/ \E S \in SUBSET Runs : \E gone \in SUBSET (waiting \ S) : Claim(S, gone)
  \/ \E S \in SUBSET Runs : Leave(S)
  \/ SetLimits

Spec == Init /\ [][Next]_vars
=============================================================================
