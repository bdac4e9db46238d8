---------------------- MODULE RunQueueRefinementProofs ----------------------
(***************************************************************************)
(* The run queue implements SlotQueue, proved for every value of the       *)
(* constants: initial states map to initial states, every step to a step   *)
(* of SlotQueue or to none.                                                *)
(***************************************************************************)
EXTENDS RunQueueRefinement, RunQueueProofs

USE DEF indexes, slots, ttlState, dlqState, limits, consumers, workers, engine

Waiting == {r \in Runs : queue[r] # Absent}

\* Nothing waits and no slot is in use at the start.
LEMMA InitRefines == Init => SQ!Init
BY DEF Init, SQ!Init, NoScores

-----------------------------------------------------------------------------
(* What the scripts are in the abstract specification *)

\* A script that adds a run to its queue and gives up its slots.
LEMMA WaitStep ==
  ASSUME TypeOK, NEW r \in Runs, NEW score \in Nat, AddToQueue(r, score),
         ReleaseSlots({r}), UNCHANGED limits
  PROVE  SQ!Next
<1>1. queue' = [queue EXCEPT ![r] = score] /\ score # Absent
  BY RunsAssumption DEF AddToQueue
<1>2. {s \in Runs : queue'[s] # Absent} = Waiting \cup {r}
  BY <1>1 DEF Waiting, TypeOK
<1>3. queueCurrentConcurrency' = queueCurrentConcurrency \ {r}
  BY DEF ReleaseSlots
<1>4. SQ!Wait(r)
  BY <1>2, <1>3 DEF SQ!Wait, Waiting
<1> QED
  BY <1>4 DEF SQ!Next

\* A script that removes runs from their queues and from the slots.
LEMMA LeaveStep ==
  ASSUME NEW S \in SUBSET Runs, queue' = Zrem(queue, S),
         queueCurrentConcurrency' = queueCurrentConcurrency \ S, UNCHANGED limits
  PROVE  SQ!Next
<1>1. {s \in Runs : queue'[s] # Absent} = Waiting \ S
  BY DEF Waiting, Zrem
<1>2. SQ!Leave(S)
  BY <1>1 DEF SQ!Leave, Waiting
<1> QED
  BY <1>2 DEF SQ!Next

\* A script that gives up the slots of a run and leaves the queues alone.
LEMMA ReleaseStep ==
  ASSUME TypeOK, QueuedNotCharged, NEW r \in Runs, ReleaseSlots({r}),
         UNCHANGED <<queue, limits>>
  PROVE  SQ!Next \/ UNCHANGED SQ!vars
<1>1. queueCurrentConcurrency' = queueCurrentConcurrency \ {r}
  BY DEF ReleaseSlots
<1>2. CASE queue[r] # Absent
  <2>1. queueCurrentConcurrency' = queueCurrentConcurrency
    BY <1>1, <1>2 DEF QueuedNotCharged
  <2> QED
    BY <2>1 DEF SQ!vars
<1>3. CASE queue[r] = Absent
  <2>1. queue = Zrem(queue, {r})
    BY <1>3 DEF Zrem, TypeOK
  <2> QED
    BY <1>1, <2>1, LeaveStep
<1> QED
  BY <1>2, <1>3

\* The enqueue script is a Wait.
LEMMA EnqueueSlowStep ==
  ASSUME TypeOK, NEW r \in Runs, NEW msg, EnqueueSlow(r, msg), UNCHANGED limits
  PROVE  SQ!Next
<1>1. PICK score \in 0..now : AddToQueue(r, score)
  BY DEF EnqueueSlow
<1> QED
  BY <1>1, WaitStep DEF EnqueueSlow, TypeOK

\* The nack script is a Wait.
LEMMA RequeueStep ==
  ASSUME TypeOK, NEW r \in Runs, NEW msg, Requeue(r, msg), UNCHANGED limits
  PROVE  SQ!Next
<1>1. PICK score \in RetryTimes : AddToQueue(r, score)
  BY DEF Requeue
<1>2. score \in Nat
  BY BoundsAssumption DEF RetryTimes, TypeOK
<1> QED
  BY <1>1, <1>2, WaitStep DEF Requeue

\* The dead letter script is a Leave.
LEMMA DeadLetterStep ==
  ASSUME NEW r \in Runs, MoveToDeadLetterQueue(r), UNCHANGED limits
  PROVE  SQ!Next
<1>1. /\ queue' = Zrem(queue, {r})
      /\ queueCurrentConcurrency' = queueCurrentConcurrency \ {r}
  BY DEF MoveToDeadLetterQueue, RemoveFromQueue, ReleaseSlots
<1> QED
  BY <1>1, LeaveStep

\* The acknowledge script is a Leave.
LEMMA AcknowledgeStep ==
  ASSUME NEW r \in Runs, NEW remove \in BOOLEAN, Acknowledge(r, remove),
         UNCHANGED limits
  PROVE  SQ!Next
<1>1. /\ queue' = Zrem(queue, {r})
      /\ queueCurrentConcurrency' = queueCurrentConcurrency \ {r}
  BY DEF Acknowledge, RemoveFromQueue, ReleaseSlots
<1> QED
  BY <1>1, LeaveStep

\* SlotQueue counts as the run queue does.
LEMMA SameCardinality == ASSUME NEW S PROVE SQ!Cardinality(S) = Cardinality(S)
BY DEF SQ!Cardinality, Cardinality

\* Slots that fit the capacities of the code fit the limits of SlotQueue.
LEMMA FitsMeansFits ==
  ASSUME TypeOK, EnvMirrorsQueues, NEW q \in Queues, NEW S \in SUBSET Runs,
         \A r \in S : QueueOf[r] = q, ClaimSlots(S),
         Cardinality(S) <= EnvAvailable, Cardinality(S) <= QueueAvailable(q)
  PROVE  /\ SQ!FitsEnvironment(queueCurrentConcurrency \cup S)
         /\ SQ!FitsQueue(queueCurrentConcurrency \cup S, q)
<1>1. /\ envCurrentConcurrency' = queueCurrentConcurrency \cup S
      /\ queueCurrentConcurrency' = queueCurrentConcurrency \cup S
  BY DEF ClaimSlots, EnvMirrorsQueues
<1>2. Cardinality(queueCurrentConcurrency \cup S) <= EnvCapacity
  BY <1>1, ClaimFits
<1> DEFINE claimed == InQueue(queueCurrentConcurrency \cup S, q)
<1>3. Cardinality(claimed) <= QueueCapacity(q)
  BY <1>1, ClaimFits
<1>4. Cardinality(claimed) \in Nat
  BY RunsAssumption, FS_Subset, FS_CardinalityType DEF InQueue, TypeOK
<1>5. SQ!OwnLimit(q) \in Nat /\ envLimit \in Nat
  BY LimitsAssumption DEF SQ!OwnLimit, TypeOK, Scores
<1>6. Cardinality(claimed) <= SQ!OwnLimit(q) /\ Cardinality(claimed) <= envLimit
  BY <1>3, <1>4, <1>5 DEF QueueCapacity, SQ!OwnLimit
<1>7. claimed = SQ!OfQueue(queueCurrentConcurrency \cup S, q)
  BY DEF InQueue, SQ!OfQueue
<1>8. SQ!FitsEnvironment(queueCurrentConcurrency \cup S)
  BY <1>2, SameCardinality, Zenon DEF SQ!FitsEnvironment, EnvCapacity
<1> QED
  BY <1>6, <1>7, <1>8, SameCardinality DEF SQ!FitsQueue

\* The fast path is a Claim of one run.
LEMMA FastStep ==
  ASSUME TypeOK, EnvMirrorsQueues, NEW r \in Runs, queue[r] = Absent,
         FastPathOpen(QueueOf[r]), ClaimSlots({r}), UNCHANGED <<queue, limits>>
  PROVE  SQ!Next
<1> DEFINE q == QueueOf[r]
<1>1. q \in Queues /\ Cardinality({r}) = 1
  BY RunsAssumption, FS_Singleton
<1>2. Cardinality({r}) <= EnvAvailable /\ Cardinality({r}) <= QueueAvailable(q)
  BY <1>1, AvailableType DEF FastPathOpen
<1>3. /\ SQ!FitsEnvironment(queueCurrentConcurrency \cup {r})
      /\ SQ!FitsQueue(queueCurrentConcurrency \cup {r}, q)
  BY <1>1, <1>2, FitsMeansFits
<1>4. SQ!Claim({r}, {})
  BY <1>3 DEF SQ!Claim, ClaimSlots
<1> QED
  BY <1>4 DEF SQ!Next

\* The dequeue script is a Claim of what it charges; what it drops just leaves.
LEMMA DequeueStep ==
  ASSUME TypeOK, EnvMirrorsQueues, QueuedNotCharged, NEW c \in Consumers,
         NEW q \in Queues, DequeueMessages(c, q)
  PROVE  SQ!Next
<1>1. PICK batch \in DueBatches(queue, DueIn(q),
                                Min({BatchSize, EnvAvailable, QueueAvailable(q)})) :
        \E claimed \in SUBSET batch :
          queue' = Zrem(queue, batch) /\ ClaimSlots(claimed) /\ UNCHANGED limits
  BY DequeueMessagesEffect
<1>2. PICK S \in SUBSET batch :
        queue' = Zrem(queue, batch) /\ ClaimSlots(S) /\ UNCHANGED limits
  BY <1>1
<1>3. /\ batch \subseteq Runs /\ batch \subseteq Waiting
      /\ \A r \in batch : QueueOf[r] = q
  BY DEF DueBatches, DueIn, Members, Waiting
<1>4. CASE S = {}
  <2>1. queueCurrentConcurrency' = queueCurrentConcurrency \ batch
    BY <1>2, <1>3, <1>4 DEF ClaimSlots, QueuedNotCharged, Waiting
  <2> QED
    BY <1>2, <1>3, <2>1, LeaveStep
<1>5. CASE S # {}
  <2>1. /\ Cardinality(S) <= EnvAvailable /\ Cardinality(S) <= QueueAvailable(q)
        /\ S \in SUBSET Runs /\ \A r \in S : QueueOf[r] = q
    BY BatchFits
  <2>2. /\ SQ!FitsEnvironment(queueCurrentConcurrency \cup S)
        /\ SQ!FitsQueue(queueCurrentConcurrency \cup S, q)
    BY <1>2, <2>1, FitsMeansFits
  <2>3. {s \in Runs : queue'[s] # Absent} = Waiting \ (S \cup (batch \ S))
    BY <1>2 DEF Waiting, Zrem
  <2>4. queueCurrentConcurrency' = queueCurrentConcurrency \cup S
    BY <1>2 DEF ClaimSlots
  <2>5. SQ!Claim(S, batch \ S)
    BY <1>2, <1>5, <2>1, <2>2, <2>3, <2>4 DEF SQ!Claim, Waiting
  <2>6. S \in SUBSET Runs /\ batch \ S \in SUBSET (Waiting \ S)
    BY <1>3, <2>1
  <2> QED
    BY <2>5, <2>6 DEF SQ!Next, Waiting
<1> QED
  BY <1>4, <1>5

-----------------------------------------------------------------------------
(* Every step *)

\* Every step of the run queue is a step of SlotQueue or a stutter.
LEMMA StepRefines ==
  ASSUME LimitsInRange, TypeOK, EnvMirrorsQueues, QueuedNotCharged, QueuedHasMessage,
         FreshRunsAreClean, CallersAreReady, [Next]_vars
  PROVE  SQ!Next \/ UNCHANGED SQ!vars
<1>1. ASSUME NEW r \in Runs, RunStep(r) PROVE SQ!Next \/ UNCHANGED SQ!vars
  <2>1. CASE Trigger(r)
    BY <2>1 DEF Trigger, SQ!vars
  <2>2. CASE TriggerDelayed(r)
    BY <2>2 DEF TriggerDelayed, SQ!vars
  <2>3. CASE EnqueueCreated(r)
    BY <2>3 DEF EnqueueCreated, SQ!vars
  <2>4. CASE Resume(r)
    BY <2>4 DEF Resume, SQ!vars
  <2>5. CASE EnqueueMessage(r)
    <3>1. CASE EnqueueFast(r, payload[r]) /\ call[r] = "enqueueFast"
              /\ FastPathOpen(QueueOf[r])
      <4>1. queue[r] = Absent
        BY <3>1 DEF FreshRunsAreClean, QueuedHasMessage
      <4> QED
        BY <2>5, <3>1, <4>1, FastStep DEF EnqueueMessage, EnqueueFast
    <3>2. CASE EnqueueSlow(r, payload[r])
      BY <2>5, <3>2, EnqueueSlowStep DEF EnqueueMessage
    <3> QED
      BY <2>5, <3>1, <3>2 DEF EnqueueMessage
  <2>6. CASE Nack(r)
    BY <2>6 DEF Nack, SQ!vars
  <2>7. CASE NackMessage(r)
    BY <2>7, RequeueStep, DeadLetterStep DEF NackMessage
  <2>8. CASE SnapshotAfterNack(r)
    BY <2>8 DEF SnapshotAfterNack, SQ!vars
  <2>9. CASE CompleteRun(r)
    BY <2>9 DEF CompleteRun, SQ!vars
  <2>10. CASE CancelRun(r)
    BY <2>10 DEF CancelRun, SQ!vars
  <2>11. CASE AcknowledgeMessage(r)
    BY <2>11, AcknowledgeStep DEF AcknowledgeMessage, NoMessageToAcknowledge, SQ!vars
  <2>12. CASE Suspend(r)
    BY <2>12 DEF Suspend, SQ!vars
  <2>13. CASE ReleaseAllConcurrency(r)
    BY <2>13, ReleaseStep DEF ReleaseAllConcurrency, SQ!vars
  <2>14. CASE CallerCrash(r)
    BY <2>14 DEF CallerCrash, SQ!vars
  <2>15. CASE ExpireRun(r)
    BY <2>15 DEF ExpireRun, SQ!vars
  <2>16. CASE MarkRunForAck(r)
    BY <2>16 DEF MarkRunForAck, SQ!vars
  <2>17. CASE ProcessMarkedRun(r)
    BY <2>17, AcknowledgeStep DEF ProcessMarkedRun, NoMessageToAcknowledge, SQ!vars
  <2>18. CASE RepairEnvironment(r)
    BY <2>18 DEF RepairEnvironment, SQ!vars
  <2>19. CASE HandleRepairSnapshot(r)
    BY <2>19, ReleaseStep DEF HandleRepairSnapshot, SQ!vars
  <2>20. CASE RedriveMessage(r)
    BY <2>20, EnqueueSlowStep DEF RedriveMessage
  <2>21. CASE FinishRedrive(r)
    BY <2>21 DEF FinishRedrive, SQ!vars
  <2> QED
    BY <1>1, <2>1, <2>2, <2>3, <2>4, <2>5, <2>6, <2>7, <2>8, <2>9, <2>10, <2>11,
      <2>12, <2>13, <2>14, <2>15, <2>16, <2>17, <2>18, <2>19, <2>20, <2>21 DEF RunStep
<1>2. ASSUME NEW c \in Consumers, ConsumerStep(c) PROVE SQ!Next \/ UNCHANGED SQ!vars
  <2>1. CASE ProcessMasterQueue(c)
    BY <2>1, DequeueStep DEF ProcessMasterQueue, TypeOK
  <2>2. CASE StartProcessJob(c)
    BY <2>2 DEF StartProcessJob, SQ!vars
  <2>3. CASE ProcessQueueForWorkerQueue(c)
    BY <2>3, DequeueStep DEF ProcessQueueForWorkerQueue, TypeOK
  <2>4. CASE FinishProcessJob(c)
    BY <2>4 DEF FinishProcessJob, SQ!vars
  <2>5. CASE PushToWorkerQueue(c)
    BY <2>5 DEF PushToWorkerQueue, SQ!vars
  <2>6. CASE ConsumerCrash(c)
    BY <2>6 DEF ConsumerCrash, SQ!vars
  <2> QED
    BY <1>2, <2>1, <2>2, <2>3, <2>4, <2>5, <2>6 DEF ConsumerStep
<1>3. ASSUME NEW w \in Workers, WorkerStep(w) PROVE SQ!Next \/ UNCHANGED SQ!vars
  <2>1. CASE PopWorkerQueue(w)
    BY <2>1 DEF PopWorkerQueue, SQ!vars
  <2>2. CASE DequeueMessageFromKey(w)
    BY <2>2 DEF DequeueMessageFromKey, SQ!vars
  <2>3. CASE StartRun(w)
    BY <2>3 DEF StartRun, HandOver, SQ!vars
  <2>4. CASE PendingVersion(w)
    BY <2>4 DEF PendingVersion, HandOver, SQ!vars
  <2>5. CASE AckDuplicate(w)
    BY <2>5 DEF AckDuplicate, HandOver, SQ!vars
  <2>6. CASE RejectInvalid(w)
    BY <2>6 DEF RejectInvalid, HandOver, SQ!vars
  <2>7. CASE NackUndelivered(w)
    BY <2>7 DEF NackUndelivered, HandOver, SQ!vars
  <2>8. CASE WorkerMismatch(w)
    BY <2>8 DEF WorkerMismatch, HandOver, SQ!vars
  <2>9. CASE WorkerCrash(w)
    BY <2>9 DEF WorkerCrash, SQ!vars
  <2>10. CASE DirectNackRead(w)
    BY <2>10 DEF DirectNackRead, SQ!vars
  <2>11. CASE DirectNackMessage(w)
    <3>1. delivered[w] \in Runs
      BY <2>11 DEF DirectNackMessage, CallersAreReady, TypeOK
    <3> QED
      BY <2>11, <3>1, RequeueStep, DeadLetterStep DEF DirectNackMessage
  <2> QED
    BY <1>3, <2>1, <2>2, <2>3, <2>4, <2>5, <2>6, <2>7, <2>8, <2>9, <2>10, <2>11 DEF
      WorkerStep
<1>4. CASE SystemStep
  <2>1. CASE ExpireTtlRuns
    <3>1. PICK batch \in SUBSET Runs :
            queue' = Zrem(queue, batch) /\ ReleaseSlots(batch)
      BY <2>1 DEF ExpireTtlRuns, DueBatches
    <3> QED
      BY <2>1, <3>1, LeaveStep DEF ExpireTtlRuns, ReleaseSlots
  <2>2. CASE RebalanceExpired
    BY <2>2 DEF RebalanceExpired, SQ!vars
  <2>3. CASE TtlConsumerCrash
    BY <2>3 DEF TtlConsumerCrash, SQ!vars
  <2>4. CASE SetEnvLimit
    <3>1. SQ!SetLimits
      BY <2>4 DEF SetEnvLimit, SQ!SetLimits, LimitsInRange
    <3> QED
      BY <3>1 DEF SQ!Next
  <2>5. CASE SetQueueLimit
    <3>1. SQ!SetLimits
      BY <2>5 DEF SetQueueLimit, SQ!SetLimits, LimitsInRange
    <3> QED
      BY <3>1 DEF SQ!Next
  <2>6. CASE Tick
    BY <2>6 DEF Tick, SQ!vars
  <2> QED
    BY <1>4, <2>1, <2>2, <2>3, <2>4, <2>5, <2>6 DEF SystemStep
<1>5. CASE UNCHANGED vars
  BY <1>5 DEF vars, SQ!vars
<1> QED
  BY <1>1, <1>2, <1>3, <1>4, <1>5 DEF Next

\* The run queue keeps the promise of SlotQueue: a run waits or holds a slot,
\* and gets its slot within the limits, whatever the scripts interleave with.
THEOREM Refinement == Spec => ImplementsSlotQueue
<1>1. Init => LimitsInRange
  BY DEF Init, LimitsInRange
<1>2. LimitsInRange /\ [Next]_vars => LimitsInRange'
  BY LimitsInRangeStep
<1>3. IInv /\ LimitsInRange /\ [Next]_vars => [SQ!Next]_(SQ!vars)
  BY StepRefines DEF IInv
<1> QED
  BY <1>1, <1>2, <1>3, InitRefines, Invariance, PTL DEF Spec, ImplementsSlotQueue,
    SQ!Spec
=============================================================================
