---------------------------- MODULE RunQueueProofs ----------------------------
(***************************************************************************)
(* Theorems about the run queue, for every value of its constants.         *)
(*                                                                         *)
(* IInv is the inductive invariant.  One lemma per conjunct (or group of   *)
(* conjuncts) shows that every step of Next keeps it: TypeStep,            *)
(* EnvMirrorsStep, StoreStep, MasterStep, FreshStep, CallersStep.  Under   *)
(* each there is one lemma per script, since a script is called by several *)
(* handlers.  Invariance puts them together and the theorems after it read *)
(* off the invariants; the action properties follow from IInv and from     *)
(* what the two scripts that claim slots do.                               *)
(***************************************************************************)
EXTENDS RunQueue, FiniteSetTheorems, WellFoundedInduction, TLAPS

\* A nonempty set of naturals holds its minimum: the score ZRANGE 0 0 returns.
LEMMA MinNat ==
  ASSUME NEW S \in SUBSET Nat, S # {}
  PROVE  Min(S) \in S /\ \A s \in S : Min(S) <= s
<1>1. \E x \in S : \A y \in S : <<y, x>> \notin OpToRel(<, Nat)
  BY NatLessThanWellFounded, WFMin, Zenon
<1>2. PICK x \in S : \A y \in S : ~(y < x)
  BY <1>1 DEF OpToRel
<1>3. \A y \in S : x <= y
  BY <1>2
<1> QED
  BY <1>3 DEF Min

\* The score written to the master queue is a score, and no later than any
\* message of the queue.
LEMMA EarliestType ==
  ASSUME NEW zset \in [Runs -> Scores], NEW q
  PROVE  /\ Earliest(zset, q) \in Scores
         /\ \A r \in Members(zset, q) :
              Earliest(zset, q) # Absent /\ Earliest(zset, q) <= zset[r]
<1> DEFINE S == {zset[r] : r \in Members(zset, q)}
<1>1. CASE Members(zset, q) = {}
  BY <1>1 DEF Earliest, Scores
<1>2. CASE Members(zset, q) # {}
  <2>1. S \in SUBSET Nat /\ S # {}
    BY <1>2 DEF Members, Scores
  <2>2. Min(S) \in S /\ \A s \in S : Min(S) <= s
    BY <2>1, MinNat
  <2>3. Earliest(zset, q) = Min(S)
    BY <1>2 DEF Earliest
  <2> QED
    BY <2>1, <2>2, <2>3, RunsAssumption DEF Scores
<1> QED
  BY <1>1, <1>2

\* ZREM keeps the shape of a sorted set.
LEMMA ZremType ==
  ASSUME NEW zset \in [Runs -> Scores], NEW S
  PROVE  Zrem(zset, S) \in [Runs -> Scores]
BY DEF Zrem, Scores

USE DEF indexes, slots, ttlState, dlqState, limits, consumers, workers, engine

-----------------------------------------------------------------------------
(* Messages *)

\* The expiry time of a message is a time, or there is none.
LEMMA TtlType ==
  ASSUME now \in Nat, NEW ttl \in TtlChoices
  PROVE  ttl \in Nat \cup {Absent}
BY BoundsAssumption DEF TtlChoices

\* engine.trigger builds a message.
LEMMA FirstMessageType ==
  ASSUME NEW ttl \in Nat \cup {Absent}
  PROVE  [attempt |-> 0, ttl |-> ttl] \in Message
BY BoundsAssumption DEF Message

\* A nack with attempts left counts one more attempt, within the bound.
LEMMA NextMessageType ==
  ASSUME NEW msg \in Message, AttemptsLeft(msg)
  PROVE  [msg EXCEPT !.attempt = @ + 1] \in Message
BY BoundsAssumption DEF Message, AttemptsLeft

\* A redriven message starts its attempts over.
LEMMA RedrivenMessageType ==
  ASSUME NEW msg \in Message
  PROVE  [msg EXCEPT !.attempt = 0] \in Message
BY BoundsAssumption DEF Message

\* nil is not a message.
LEMMA AbsentIsNoMessage == Absent \notin Message
BY RunsAssumption DEF Message

-----------------------------------------------------------------------------
(* What the shared pieces of the scripts keep of the types *)

\* A rebalance writes a score for one queue of the master queue.
LEMMA RebalanceType ==
  ASSUME TypeOK, NEW zset \in [Runs -> Scores], NEW q \in Queues,
         Rebalance(zset, q)
  PROVE  masterQueue' \in [Queues -> Scores]
<1>1. Earliest(zset, q) \in Scores
  BY EarliestType
<1> QED
  BY <1>1 DEF Rebalance, TypeOK

\* ZADD to queue and environment queue keeps the shape of the indexes.
LEMMA AddToQueueType ==
  ASSUME TypeOK, NEW r \in Runs, NEW score \in Nat, AddToQueue(r, score)
  PROVE  /\ queue' \in [Runs -> Scores] /\ envQueue' \in [Runs -> Scores]
         /\ masterQueue' \in [Queues -> Scores]
<1>1. [queue EXCEPT ![r] = score] \in [Runs -> Scores]
  BY DEF TypeOK, Scores
<1>2. QueueOf[r] \in Queues
  BY RunsAssumption
<1>3. masterQueue' \in [Queues -> Scores]
  BY <1>1, <1>2, RebalanceType DEF AddToQueue
<1> QED
  BY <1>1, <1>3 DEF AddToQueue, TypeOK, Scores

\* ZREM from both keeps the shape of the indexes.
LEMMA RemoveFromQueueType ==
  ASSUME TypeOK, NEW r \in Runs, RemoveFromQueue(r)
  PROVE  /\ queue' \in [Runs -> Scores] /\ envQueue' \in [Runs -> Scores]
         /\ masterQueue' \in [Queues -> Scores]
<1>1. Zrem(queue, {r}) \in [Runs -> Scores] /\ Zrem(envQueue, {r}) \in [Runs -> Scores]
  BY ZremType DEF TypeOK
<1>2. QueueOf[r] \in Queues
  BY RunsAssumption
<1>3. masterQueue' \in [Queues -> Scores]
  BY <1>1, <1>2, RebalanceType DEF RemoveFromQueue
<1> QED
  BY <1>1, <1>3 DEF RemoveFromQueue

\* The part of TypeOK that the scripts on one queue change.
StoreOK ==
  /\ message \in [Runs -> Message \cup {Absent}]
  /\ queue \in [Runs -> Scores] /\ envQueue \in [Runs -> Scores]
  /\ masterQueue \in [Queues -> Scores]
  /\ queueCurrentConcurrency \in SUBSET Runs
  /\ envCurrentConcurrency \in SUBSET Runs
  /\ queueCurrentDequeued \in SUBSET Runs
  /\ envCurrentDequeued \in SUBSET Runs
  /\ workerQueue \in [Runs -> Nat]
  /\ ttlQueue \in [Runs -> Scores]
  /\ ttlWorkerQueue \in SUBSET Runs /\ ttlRebalance \in SUBSET Queues
  /\ deadLetterQueue \in SUBSET Runs /\ redriving \in SUBSET Runs
  /\ processJobs \in SUBSET Queues

\* The enqueue script writes a message, scores and a queue's job.
LEMMA EnqueueSlowType ==
  ASSUME TypeOK, NEW r \in Runs, NEW msg \in Message, EnqueueSlow(r, msg),
         deadLetterQueue' \in SUBSET Runs, redriving' \in SUBSET Runs
  PROVE  StoreOK'
<1>1. QueueOf[r] \in Queues
  BY RunsAssumption
<1>2. PICK score \in 0..now : AddToQueue(r, score)
  BY DEF EnqueueSlow
<1>3. score \in Nat
  BY DEF TypeOK
<1>4. /\ queue' \in [Runs -> Scores] /\ envQueue' \in [Runs -> Scores]
      /\ masterQueue' \in [Queues -> Scores]
  BY <1>2, <1>3, AddToQueueType
<1>5. msg.ttl \in Scores
  BY DEF Message, Scores
<1>6. ttlQueue' \in [Runs -> Scores]
  BY <1>5 DEF EnqueueSlow, TypeOK
<1> QED
  BY <1>1, <1>4, <1>6 DEF EnqueueSlow, ReleaseSlots, EnqueueProcessJob, TypeOK, StoreOK

\* The fast path of the enqueue script.
LEMMA EnqueueFastType ==
  ASSUME TypeOK, NEW r \in Runs, NEW msg \in Message, EnqueueFast(r, msg),
         UNCHANGED dlqState
  PROVE  StoreOK'
BY DEF EnqueueFast, ClaimSlots, PushEntry, TypeOK, StoreOK

\* The nack script.
LEMMA RequeueType ==
  ASSUME TypeOK, NEW r \in Runs, NEW msg \in Message, AttemptsLeft(msg),
         Requeue(r, msg), UNCHANGED <<workerQueue, ttlState>>
  PROVE  StoreOK'
<1>1. QueueOf[r] \in Queues
  BY RunsAssumption
<1>2. PICK score \in RetryTimes : AddToQueue(r, score)
  BY DEF Requeue
<1>3. score \in Nat
  BY BoundsAssumption DEF TypeOK, RetryTimes
<1>4. /\ queue' \in [Runs -> Scores] /\ envQueue' \in [Runs -> Scores]
      /\ masterQueue' \in [Queues -> Scores]
  BY <1>2, <1>3, AddToQueueType
<1>5. [msg EXCEPT !.attempt = @ + 1] \in Message
  BY NextMessageType
<1> QED
  BY <1>1, <1>4, <1>5 DEF Requeue, ReleaseSlots, EnqueueProcessJob, TypeOK, StoreOK

\* The dead letter script.
LEMMA MoveToDeadLetterQueueType ==
  ASSUME TypeOK, NEW r \in Runs, MoveToDeadLetterQueue(r),
         UNCHANGED <<workerQueue, ttlState>>
  PROVE  StoreOK'
<1>1. /\ queue' \in [Runs -> Scores] /\ envQueue' \in [Runs -> Scores]
      /\ masterQueue' \in [Queues -> Scores]
  BY RemoveFromQueueType DEF MoveToDeadLetterQueue
<1> QED
  BY <1>1 DEF MoveToDeadLetterQueue, ReleaseSlots, TypeOK, StoreOK

\* The acknowledge script.
LEMMA AcknowledgeType ==
  ASSUME TypeOK, NEW r \in Runs, NEW remove \in BOOLEAN, Acknowledge(r, remove),
         UNCHANGED <<ttlState, dlqState>>, processJobs' \in SUBSET Queues
  PROVE  StoreOK'
<1>1. /\ queue' \in [Runs -> Scores] /\ envQueue' \in [Runs -> Scores]
      /\ masterQueue' \in [Queues -> Scores]
  BY RemoveFromQueueType DEF Acknowledge
<1> QED
  BY <1>1 DEF Acknowledge, ReleaseSlots, TypeOK, StoreOK

\* The dequeue script, and the batch its caller holds.
LEMMA DequeueMessagesType ==
  ASSUME TypeOK, NEW c \in Consumers, NEW q \in Queues, DequeueMessages(c, q)
  PROVE  TypeOK'
<1>1. PICK batch \in DueBatches(queue, DueIn(q),
                                Min({BatchSize, EnvAvailable, QueueAvailable(q)})) :
        LET live    == {r \in batch : message[r] # Absent}
            expired == {r \in live : message[r].ttl # Absent /\ message[r].ttl <= now}
            claimed == live \ expired
        IN  /\ queue' = Zrem(queue, batch)
            /\ envQueue' = Zrem(envQueue, batch)
            /\ Rebalance(Zrem(queue, batch), q)
            /\ ClaimSlots(claimed)
            /\ UntrackTtl(claimed)
            /\ held' = [held EXCEPT ![c] = claimed]
            /\ again' = [again EXCEPT ![c] = job[c] # Absent
                                             /\ Cardinality(claimed) = BatchSize]
  BY DEF DequeueMessages
<1> DEFINE live    == {r \in batch : message[r] # Absent}
           expired == {r \in live : message[r].ttl # Absent /\ message[r].ttl <= now}
           claimed == live \ expired
<1>2. batch \subseteq Runs
  BY DEF DueBatches, DueIn, Members
<1>3. claimed \subseteq Runs
  BY <1>2
<1>4. queue' \in [Runs -> Scores] /\ envQueue' \in [Runs -> Scores]
  BY <1>1, ZremType DEF TypeOK
<1>5. masterQueue' \in [Queues -> Scores]
  BY <1>1, <1>4, RebalanceType
<1>6. ttlQueue' \in [Runs -> Scores]
  BY <1>1, ZremType DEF TypeOK, UntrackTtl
<1>7. /\ queueCurrentConcurrency' \in SUBSET Runs
      /\ envCurrentConcurrency' \in SUBSET Runs
      /\ UNCHANGED <<queueCurrentDequeued, envCurrentDequeued>>
  BY <1>1, <1>3 DEF ClaimSlots, TypeOK
<1>8. held' \in [Consumers -> SUBSET Runs] /\ again' \in [Consumers -> BOOLEAN]
  BY <1>1, <1>3 DEF TypeOK
<1> QED
  BY <1>4, <1>5, <1>6, <1>7, <1>8 DEF DequeueMessages, TypeOK

\* Every step of the run queue and of its callers keeps every type.
LEMMA TypeStep ==
  ASSUME TypeOK, CallersAreReady, [Next]_vars
  PROVE  TypeOK'
<1> USE DEF TypeOK, SetPhase, BeginCall, EndCall, SystemFailure, TryNackAndRequeue,
       Phases, Calls, HandOver
<1>1. ASSUME NEW r \in Runs, RunStep(r) PROVE TypeOK'
  <2>1. CASE Trigger(r)
    <3>1. \A ttl \in TtlChoices : [attempt |-> 0, ttl |-> ttl] \in Message
      BY TtlType, FirstMessageType
    <3> QED
      BY <2>1, <3>1 DEF Trigger
  <2>2. CASE TriggerDelayed(r)
    BY <2>2 DEF TriggerDelayed
  <2>3. CASE EnqueueCreated(r)
    <3>1. \A ttl \in TtlChoices : [attempt |-> 0, ttl |-> ttl] \in Message
      BY TtlType, FirstMessageType
    <3> QED
      BY <2>3, <3>1 DEF EnqueueCreated
  <2>4. CASE Resume(r)
    <3>1. [attempt |-> 0, ttl |-> Absent] \in Message
      BY FirstMessageType
    <3> QED
      BY <2>4, <3>1 DEF Resume
  <2>5. CASE EnqueueMessage(r)
    <3>1. payload[r] \in Message
      BY <2>5 DEF EnqueueMessage, CallersAreReady
    <3>2. StoreOK'
      BY <2>5, <3>1, EnqueueSlowType, EnqueueFastType DEF EnqueueMessage
    <3> QED
      BY <2>5, <3>2 DEF EnqueueMessage, StoreOK
  <2>6. CASE Nack(r)
    BY <2>6 DEF Nack
  <2>7. CASE NackMessage(r)
    <3>1. payload[r] \in Message
      BY <2>7 DEF NackMessage, CallersAreReady
    <3>2. StoreOK'
      BY <2>7, <3>1, RequeueType, MoveToDeadLetterQueueType DEF NackMessage
    <3> QED
      BY <2>7, <3>2 DEF NackMessage, StoreOK
  <2>8. CASE SnapshotAfterNack(r)
    BY <2>8 DEF SnapshotAfterNack
  <2>9. CASE CompleteRun(r)
    BY <2>9 DEF CompleteRun
  <2>10. CASE CancelRun(r)
    BY <2>10 DEF CancelRun
  <2>11. CASE AcknowledgeMessage(r)
    <3>1. processJobs' \in SUBSET Queues
      <4>1. QueueOf[r] \in Queues
        BY RunsAssumption
      <4>2. processJobs' = processJobs \/ processJobs' = processJobs \cup {QueueOf[r]}
        BY <2>11 DEF AcknowledgeMessage, EnqueueProcessJob
      <4> QED
        BY <4>1, <4>2
    <3>2. CASE message[r] = Absent
      BY <2>11, <3>1, <3>2 DEF AcknowledgeMessage, NoMessageToAcknowledge
    <3>3. CASE message[r] # Absent
      <4>1. StoreOK'
        BY <2>11, <3>1, <3>3, AcknowledgeType DEF AcknowledgeMessage
      <4> QED
        BY <2>11, <4>1 DEF AcknowledgeMessage, StoreOK
    <3> QED
      BY <3>2, <3>3
  <2>12. CASE Suspend(r)
    BY <2>12 DEF Suspend
  <2>13. CASE ReleaseAllConcurrency(r)
    BY <2>13 DEF ReleaseAllConcurrency, ReleaseSlots
  <2>14. CASE CallerCrash(r)
    BY <2>14 DEF CallerCrash
  <2>15. CASE ExpireRun(r)
    BY <2>15 DEF ExpireRun
  <2>16. CASE MarkRunForAck(r)
    BY <2>16 DEF MarkRunForAck
  <2>17. CASE ProcessMarkedRun(r)
    <3>1. CASE message[r] = Absent
      BY <2>17, <3>1 DEF ProcessMarkedRun, NoMessageToAcknowledge
    <3>2. CASE message[r] # Absent
      <4>1. StoreOK'
        BY <2>17, <3>2, AcknowledgeType DEF ProcessMarkedRun
      <4> QED
        BY <2>17, <4>1 DEF ProcessMarkedRun, StoreOK
    <3> QED
      BY <3>1, <3>2
  <2>18. CASE RepairEnvironment(r)
    BY <2>18 DEF RepairEnvironment
  <2>19. CASE HandleRepairSnapshot(r)
    BY <2>19 DEF HandleRepairSnapshot, ReleaseSlots
  <2>20. CASE RedriveMessage(r)
    <3>1. [message[r] EXCEPT !.attempt = 0] \in Message
      BY <2>20, RedrivenMessageType DEF RedriveMessage
    <3>2. StoreOK'
      BY <2>20, <3>1, EnqueueSlowType DEF RedriveMessage
    <3> QED
      BY <2>20, <3>2 DEF RedriveMessage, StoreOK
  <2>21. CASE FinishRedrive(r)
    BY <2>21 DEF FinishRedrive
  <2> QED
    BY <1>1, <2>1, <2>2, <2>3, <2>4, <2>5, <2>6, <2>7, <2>8, <2>9, <2>10, <2>11,
      <2>12, <2>13, <2>14, <2>15, <2>16, <2>17, <2>18, <2>19, <2>20, <2>21 DEF RunStep
<1>2. ASSUME NEW c \in Consumers, ConsumerStep(c) PROVE TypeOK'
  <2>1. CASE ProcessMasterQueue(c)
    BY <2>1, DequeueMessagesType DEF ProcessMasterQueue
  <2>2. CASE StartProcessJob(c)
    BY <2>2 DEF StartProcessJob
  <2>3. CASE ProcessQueueForWorkerQueue(c)
    BY <2>3, DequeueMessagesType DEF ProcessQueueForWorkerQueue
  <2>4. CASE FinishProcessJob(c)
    BY <2>4 DEF FinishProcessJob
  <2>5. CASE PushToWorkerQueue(c)
    BY <2>5 DEF PushToWorkerQueue, PushEntry
  <2>6. CASE ConsumerCrash(c)
    BY <2>6 DEF ConsumerCrash
  <2> QED
    BY <1>2, <2>1, <2>2, <2>3, <2>4, <2>5, <2>6 DEF ConsumerStep
<1>3. ASSUME NEW w \in Workers, WorkerStep(w) PROVE TypeOK'
  <2>1. CASE PopWorkerQueue(w)
    BY <2>1 DEF PopWorkerQueue
  <2>2. CASE DequeueMessageFromKey(w)
    BY <2>2 DEF DequeueMessageFromKey
  <2>3. CASE StartRun(w)
    BY <2>3 DEF StartRun
  <2>4. CASE PendingVersion(w)
    BY <2>4 DEF PendingVersion
  <2>5. CASE AckDuplicate(w)
    BY <2>5 DEF AckDuplicate
  <2>6. CASE RejectInvalid(w)
    BY <2>6 DEF RejectInvalid
  <2>7. CASE NackUndelivered(w)
    BY <2>7 DEF NackUndelivered
  <2>8. CASE WorkerCrash(w)
    BY <2>8 DEF WorkerCrash
  <2>9. CASE DirectNackRead(w)
    BY <2>9 DEF DirectNackRead
  <2>11. CASE WorkerMismatch(w)
    BY <2>11 DEF WorkerMismatch
  <2>10. CASE DirectNackMessage(w)
    <3>1. nacking[w] \in Message /\ delivered[w] \in Runs
      BY <2>10 DEF DirectNackMessage, CallersAreReady
    <3>2. StoreOK'
      BY <2>10, <3>1, RequeueType, MoveToDeadLetterQueueType DEF DirectNackMessage
    <3> QED
      BY <2>10, <3>2 DEF DirectNackMessage, StoreOK
  <2> QED
    BY <1>3, <2>1, <2>2, <2>3, <2>4, <2>5, <2>6, <2>7, <2>8, <2>9, <2>10, <2>11 DEF
      WorkerStep
<1>4. CASE SystemStep
  <2>1. CASE ExpireTtlRuns
    <3>1. PICK batch \in SUBSET Runs :
            /\ ttlQueue' = Zrem(ttlQueue, batch)
            /\ message' = [r \in Runs |-> IF r \in batch THEN Absent ELSE message[r]]
            /\ queue' = Zrem(queue, batch)
            /\ envQueue' = Zrem(envQueue, batch)
            /\ ReleaseSlots(batch)
            /\ ttlWorkerQueue' = ttlWorkerQueue \cup batch
            /\ ttlRebalance' = ttlRebalance \cup {QueueOf[r] : r \in batch}
      BY <2>1 DEF ExpireTtlRuns, DueBatches
    <3>2. /\ queue' \in [Runs -> Scores] /\ envQueue' \in [Runs -> Scores]
          /\ ttlQueue' \in [Runs -> Scores]
      BY <3>1, ZremType
    <3>3. ttlRebalance' \in SUBSET Queues
      BY <3>1, RunsAssumption
    <3>4. message' \in [Runs -> Message \cup {Absent}]
      BY <3>1
    <3> QED
      BY <2>1, <3>1, <3>2, <3>3, <3>4 DEF ExpireTtlRuns, ReleaseSlots
  <2>2. CASE RebalanceExpired
    BY <2>2, RebalanceType DEF RebalanceExpired
  <2>3. CASE TtlConsumerCrash
    BY <2>3 DEF TtlConsumerCrash
  <2>4. CASE SetEnvLimit
    BY <2>4, LimitsAssumption DEF SetEnvLimit
  <2>5. CASE SetQueueLimit
    BY <2>5, LimitsAssumption DEF SetQueueLimit, Scores
  <2>6. CASE Tick
    BY <2>6 DEF Tick
  <2> QED
    BY <1>4, <2>1, <2>2, <2>3, <2>4, <2>5, <2>6 DEF SystemStep
<1>5. CASE UNCHANGED vars
  BY <1>5 DEF vars
<1> QED
  BY <1>1, <1>2, <1>3, <1>4, <1>5 DEF Next

\* A caller never comes to its script without the message the script writes.
LEMMA CallersStep ==
  ASSUME TypeOK, CallersAreReady, FreshRunsAreClean, [Next]_vars
  PROVE  CallersAreReady'
<1> USE DEF CallersAreReady, SetPhase, BeginCall, EndCall, SystemFailure,
       TryNackAndRequeue, TypeOK
<1>1. ASSUME NEW r \in Runs, RunStep(r) PROVE CallersAreReady'
  <2>1. CASE Trigger(r)
    <3>1. \A ttl \in TtlChoices : [attempt |-> 0, ttl |-> ttl] \in Message
      BY TtlType, FirstMessageType DEF TypeOK
    <3> QED
      BY <2>1, <3>1, AbsentIsNoMessage DEF Trigger
  <2>2. CASE TriggerDelayed(r)
    BY <2>2 DEF TriggerDelayed
  <2>3. CASE EnqueueCreated(r)
    <3>1. \A ttl \in TtlChoices : [attempt |-> 0, ttl |-> ttl] \in Message
      BY TtlType, FirstMessageType DEF TypeOK
    <3> QED
      BY <2>3, <3>1, AbsentIsNoMessage DEF EnqueueCreated
  <2>4. CASE Resume(r)
    <3>1. [attempt |-> 0, ttl |-> Absent] \in Message
      BY FirstMessageType
    <3> QED
      BY <2>4, <3>1, AbsentIsNoMessage DEF Resume
  <2>5. CASE EnqueueMessage(r)
    BY <2>5 DEF EnqueueMessage
  <2>6. CASE Nack(r)
    BY <2>6 DEF Nack
  <2>7. CASE NackMessage(r)
    BY <2>7 DEF NackMessage
  <2>8. CASE SnapshotAfterNack(r)
    BY <2>8 DEF SnapshotAfterNack
  <2>9. CASE CompleteRun(r)
    BY <2>9 DEF CompleteRun
  <2>10. CASE CancelRun(r)
    BY <2>10 DEF CancelRun
  <2>11. CASE AcknowledgeMessage(r)
    BY <2>11 DEF AcknowledgeMessage
  <2>12. CASE Suspend(r)
    BY <2>12 DEF Suspend
  <2>13. CASE ReleaseAllConcurrency(r)
    BY <2>13 DEF ReleaseAllConcurrency
  <2>14. CASE CallerCrash(r)
    BY <2>14 DEF CallerCrash
  <2>15. CASE ExpireRun(r)
    BY <2>15 DEF ExpireRun
  <2>16. CASE MarkRunForAck(r)
    BY <2>16 DEF MarkRunForAck
  <2>17. CASE ProcessMarkedRun(r)
    BY <2>17 DEF ProcessMarkedRun
  <2>18. CASE RepairEnvironment(r)
    BY <2>18 DEF RepairEnvironment
  <2>19. CASE HandleRepairSnapshot(r)
    BY <2>19 DEF HandleRepairSnapshot
  <2>20. CASE RedriveMessage(r)
    BY <2>20 DEF RedriveMessage
  <2>21. CASE FinishRedrive(r)
    BY <2>21 DEF FinishRedrive
  <2> QED
    BY <1>1, <2>1, <2>2, <2>3, <2>4, <2>5, <2>6, <2>7, <2>8, <2>9, <2>10, <2>11,
      <2>12, <2>13, <2>14, <2>15, <2>16, <2>17, <2>18, <2>19, <2>20, <2>21 DEF RunStep
<1>2. ASSUME NEW c \in Consumers, ConsumerStep(c) PROVE CallersAreReady'
  <2>1. CASE ProcessMasterQueue(c)
    BY <2>1 DEF ProcessMasterQueue, DequeueMessages
  <2>2. CASE StartProcessJob(c)
    BY <2>2 DEF StartProcessJob
  <2>3. CASE ProcessQueueForWorkerQueue(c)
    BY <2>3 DEF ProcessQueueForWorkerQueue, DequeueMessages
  <2>4. CASE FinishProcessJob(c)
    BY <2>4 DEF FinishProcessJob
  <2>5. CASE PushToWorkerQueue(c)
    BY <2>5 DEF PushToWorkerQueue
  <2>6. CASE ConsumerCrash(c)
    BY <2>6 DEF ConsumerCrash
  <2> QED
    BY <1>2, <2>1, <2>2, <2>3, <2>4, <2>5, <2>6 DEF ConsumerStep
<1>3. ASSUME NEW w \in Workers, WorkerStep(w) PROVE CallersAreReady'
  <2>1. CASE PopWorkerQueue(w)
    BY <2>1 DEF PopWorkerQueue
  <2>2. CASE DequeueMessageFromKey(w)
    BY <2>2 DEF DequeueMessageFromKey
  <2>3. CASE StartRun(w)
    BY <2>3 DEF StartRun, Locks, HandOver
  <2>4. CASE PendingVersion(w)
    BY <2>4 DEF PendingVersion, Locks, HandOver
  <2>5. CASE AckDuplicate(w)
    BY <2>5 DEF AckDuplicate, Locks, HandOver
  <2>6. CASE RejectInvalid(w)
    BY <2>6 DEF RejectInvalid, Locks, HandOver
  <2>7. CASE NackUndelivered(w)
    BY <2>7 DEF NackUndelivered, Locks, HandOver, FreshRunsAreClean
  <2>8. CASE WorkerMismatch(w)
    BY <2>8 DEF WorkerMismatch, Locks, HandOver
  <2>9. CASE WorkerCrash(w)
    BY <2>9 DEF WorkerCrash
  <2>10. CASE DirectNackRead(w)
    BY <2>10 DEF DirectNackRead
  <2>11. CASE DirectNackMessage(w)
    BY <2>11 DEF DirectNackMessage
  <2> QED
    BY <1>3, <2>1, <2>2, <2>3, <2>4, <2>5, <2>6, <2>7, <2>8, <2>9, <2>10, <2>11 DEF
      WorkerStep
<1>4. CASE SystemStep
  <2>1. CASE ExpireTtlRuns
    BY <2>1 DEF ExpireTtlRuns
  <2>2. CASE RebalanceExpired
    BY <2>2 DEF RebalanceExpired
  <2>3. CASE TtlConsumerCrash
    BY <2>3 DEF TtlConsumerCrash
  <2>4. CASE SetEnvLimit
    BY <2>4 DEF SetEnvLimit
  <2>5. CASE SetQueueLimit
    BY <2>5 DEF SetQueueLimit
  <2>6. CASE Tick
    BY <2>6 DEF Tick
  <2> QED
    BY <1>4, <2>1, <2>2, <2>3, <2>4, <2>5, <2>6 DEF SystemStep
<1>5. CASE UNCHANGED vars
  BY <1>5 DEF vars
<1> QED
  BY <1>1, <1>2, <1>3, <1>4, <1>5 DEF Next

\* Every script changes the environment's sets as it changes the queues'.
LEMMA EnvMirrorsStep ==
  ASSUME EnvMirrorsQueues, [Next]_vars
  PROVE  EnvMirrorsQueues'
<1> USE DEF EnvMirrorsQueues
<1>1. ASSUME NEW r \in Runs, RunStep(r) PROVE EnvMirrorsQueues'
  <2>1. CASE Trigger(r)
    BY <2>1 DEF Trigger
  <2>2. CASE TriggerDelayed(r)
    BY <2>2 DEF TriggerDelayed
  <2>3. CASE EnqueueCreated(r)
    BY <2>3 DEF EnqueueCreated
  <2>4. CASE Resume(r)
    BY <2>4 DEF Resume
  <2>5. CASE EnqueueMessage(r)
    BY <2>5 DEF EnqueueMessage, EnqueueSlow, EnqueueFast, AddToQueue, ReleaseSlots,
      ClaimSlots
  <2>6. CASE Nack(r)
    BY <2>6 DEF Nack
  <2>7. CASE NackMessage(r)
    BY <2>7 DEF NackMessage, Requeue, MoveToDeadLetterQueue, AddToQueue,
      RemoveFromQueue, ReleaseSlots
  <2>8. CASE SnapshotAfterNack(r)
    BY <2>8 DEF SnapshotAfterNack
  <2>9. CASE CompleteRun(r)
    BY <2>9 DEF CompleteRun
  <2>10. CASE CancelRun(r)
    BY <2>10 DEF CancelRun
  <2>11. CASE AcknowledgeMessage(r)
    BY <2>11 DEF AcknowledgeMessage, Acknowledge, NoMessageToAcknowledge,
      RemoveFromQueue, ReleaseSlots
  <2>12. CASE Suspend(r)
    BY <2>12 DEF Suspend
  <2>13. CASE ReleaseAllConcurrency(r)
    BY <2>13 DEF ReleaseAllConcurrency, ReleaseSlots
  <2>14. CASE CallerCrash(r)
    BY <2>14 DEF CallerCrash
  <2>15. CASE ExpireRun(r)
    BY <2>15 DEF ExpireRun
  <2>16. CASE MarkRunForAck(r)
    BY <2>16 DEF MarkRunForAck
  <2>17. CASE ProcessMarkedRun(r)
    BY <2>17 DEF ProcessMarkedRun, Acknowledge, NoMessageToAcknowledge,
      RemoveFromQueue, ReleaseSlots
  <2>18. CASE RepairEnvironment(r)
    BY <2>18 DEF RepairEnvironment
  <2>19. CASE HandleRepairSnapshot(r)
    BY <2>19 DEF HandleRepairSnapshot, ReleaseSlots
  <2>20. CASE RedriveMessage(r)
    BY <2>20 DEF RedriveMessage, EnqueueSlow, AddToQueue, ReleaseSlots
  <2>21. CASE FinishRedrive(r)
    BY <2>21 DEF FinishRedrive
  <2> QED
    BY <1>1, <2>1, <2>2, <2>3, <2>4, <2>5, <2>6, <2>7, <2>8, <2>9, <2>10, <2>11,
      <2>12, <2>13, <2>14, <2>15, <2>16, <2>17, <2>18, <2>19, <2>20, <2>21 DEF RunStep
<1>2. ASSUME NEW c \in Consumers, ConsumerStep(c) PROVE EnvMirrorsQueues'
  <2>1. CASE ProcessMasterQueue(c)
    BY <2>1 DEF ProcessMasterQueue, DequeueMessages, ClaimSlots
  <2>2. CASE StartProcessJob(c)
    BY <2>2 DEF StartProcessJob
  <2>3. CASE ProcessQueueForWorkerQueue(c)
    BY <2>3 DEF ProcessQueueForWorkerQueue, DequeueMessages, ClaimSlots
  <2>4. CASE FinishProcessJob(c)
    BY <2>4 DEF FinishProcessJob
  <2>5. CASE PushToWorkerQueue(c)
    BY <2>5 DEF PushToWorkerQueue
  <2>6. CASE ConsumerCrash(c)
    BY <2>6 DEF ConsumerCrash
  <2> QED
    BY <1>2, <2>1, <2>2, <2>3, <2>4, <2>5, <2>6 DEF ConsumerStep
<1>3. ASSUME NEW w \in Workers, WorkerStep(w) PROVE EnvMirrorsQueues'
  <2>1. CASE PopWorkerQueue(w)
    BY <2>1 DEF PopWorkerQueue
  <2>2. CASE DequeueMessageFromKey(w)
    BY <2>2 DEF DequeueMessageFromKey
  <2>3. CASE StartRun(w)
    BY <2>3 DEF StartRun, HandOver
  <2>4. CASE PendingVersion(w)
    BY <2>4 DEF PendingVersion, HandOver
  <2>5. CASE AckDuplicate(w)
    BY <2>5 DEF AckDuplicate, HandOver
  <2>6. CASE RejectInvalid(w)
    BY <2>6 DEF RejectInvalid, HandOver
  <2>7. CASE NackUndelivered(w)
    BY <2>7 DEF NackUndelivered, HandOver
  <2>8. CASE WorkerMismatch(w)
    BY <2>8 DEF WorkerMismatch, HandOver
  <2>9. CASE WorkerCrash(w)
    BY <2>9 DEF WorkerCrash
  <2>10. CASE DirectNackRead(w)
    BY <2>10 DEF DirectNackRead
  <2>11. CASE DirectNackMessage(w)
    BY <2>11 DEF DirectNackMessage, Requeue, MoveToDeadLetterQueue, AddToQueue,
      RemoveFromQueue, ReleaseSlots
  <2> QED
    BY <1>3, <2>1, <2>2, <2>3, <2>4, <2>5, <2>6, <2>7, <2>8, <2>9, <2>10, <2>11 DEF
      WorkerStep
<1>4. CASE SystemStep
  <2>1. CASE ExpireTtlRuns
    BY <2>1 DEF ExpireTtlRuns, ReleaseSlots
  <2>2. CASE RebalanceExpired
    BY <2>2 DEF RebalanceExpired
  <2>3. CASE TtlConsumerCrash
    BY <2>3 DEF TtlConsumerCrash
  <2>4. CASE SetEnvLimit
    BY <2>4 DEF SetEnvLimit
  <2>5. CASE SetQueueLimit
    BY <2>5 DEF SetQueueLimit
  <2>6. CASE Tick
    BY <2>6 DEF Tick
  <2> QED
    BY <1>4, <2>1, <2>2, <2>3, <2>4, <2>5, <2>6 DEF SystemStep
<1>5. CASE UNCHANGED vars
  BY <1>5 DEF vars
<1> QED
  BY <1>1, <1>2, <1>3, <1>4, <1>5 DEF Next

-----------------------------------------------------------------------------
(* What the scripts keep of the invariants on messages, queues and slots *)

Store == SlotsHaveMessages /\ QueuedHasMessage /\ QueuedNotCharged

\* The store invariants after the enqueue script: it writes the message it
\* queues and frees the slots it may have had.
LEMMA EnqueueSlowStore ==
  ASSUME TypeOK, Store, NEW r \in Runs, NEW msg \in Message, EnqueueSlow(r, msg)
  PROVE  Store'
<1>1. PICK score \in 0..now : queue' = [queue EXCEPT ![r] = score]
  BY DEF EnqueueSlow, AddToQueue
<1>2. message' = [message EXCEPT ![r] = msg] /\ ReleaseSlots({r})
  BY DEF EnqueueSlow
<1>3. msg # Absent
  BY AbsentIsNoMessage
<1> QED
  BY <1>1, <1>2, <1>3
     DEF Store, SlotsHaveMessages, QueuedHasMessage, QueuedNotCharged, ReleaseSlots,
       TypeOK

\* The fast path claims for a message that waits nowhere.
LEMMA EnqueueFastStore ==
  ASSUME TypeOK, Store, NEW r \in Runs, NEW msg \in Message, EnqueueFast(r, msg),
         message[r] = Absent
  PROVE  Store'
<1>1. queue[r] = Absent
  BY DEF Store, QueuedHasMessage
<1>2. message' = [message EXCEPT ![r] = msg] /\ ClaimSlots({r}) /\ UNCHANGED queue
  BY DEF EnqueueFast
<1>3. msg # Absent
  BY AbsentIsNoMessage
<1> QED
  BY <1>1, <1>2, <1>3
     DEF Store, SlotsHaveMessages, QueuedHasMessage, QueuedNotCharged, ClaimSlots,
       TypeOK

\* The nack script writes the message it queues, and frees its slots.
LEMMA RequeueStore ==
  ASSUME TypeOK, Store, NEW r \in Runs, NEW msg \in Message, AttemptsLeft(msg),
         Requeue(r, msg)
  PROVE  Store'
<1>1. PICK score \in RetryTimes : queue' = [queue EXCEPT ![r] = score]
  BY DEF Requeue, AddToQueue
<1>2. message' = [message EXCEPT ![r] = [msg EXCEPT !.attempt = @ + 1]]
      /\ ReleaseSlots({r})
  BY DEF Requeue
<1>3. [msg EXCEPT !.attempt = @ + 1] # Absent
  BY NextMessageType, AbsentIsNoMessage
<1> QED
  BY <1>1, <1>2, <1>3
     DEF Store, SlotsHaveMessages, QueuedHasMessage, QueuedNotCharged, ReleaseSlots,
       TypeOK

\* The dead letter script frees the slots of a message it keeps.
LEMMA MoveToDeadLetterQueueStore ==
  ASSUME TypeOK, Store, NEW r \in Runs, MoveToDeadLetterQueue(r)
  PROVE  Store'
BY DEF Store, SlotsHaveMessages, QueuedHasMessage, QueuedNotCharged, ReleaseSlots,
       MoveToDeadLetterQueue, RemoveFromQueue, Zrem, TypeOK

\* The acknowledge script deletes the message together with its entries.
LEMMA AcknowledgeStore ==
  ASSUME TypeOK, Store, NEW r \in Runs, NEW remove \in BOOLEAN, Acknowledge(r, remove)
  PROVE  Store'
BY DEF Store, SlotsHaveMessages, QueuedHasMessage, QueuedNotCharged, ReleaseSlots,
       Acknowledge, RemoveFromQueue, Zrem, TypeOK

\* What one dequeue script does, with the batch and what it claims named.
LEMMA DequeueMessagesEffect ==
  ASSUME TypeOK, NEW c \in Consumers, NEW q \in Queues, DequeueMessages(c, q)
  PROVE  \E batch \in DueBatches(queue, DueIn(q),
                                 Min({BatchSize, EnvAvailable, QueueAvailable(q)})) :
         \E claimed \in SUBSET batch :
           /\ \A r \in claimed : message[r] # Absent
           /\ queue' = Zrem(queue, batch)
           /\ Rebalance(Zrem(queue, batch), q)
           /\ ClaimSlots(claimed)
           /\ UNCHANGED <<message, limits, engine>>
<1>1. PICK batch \in DueBatches(queue, DueIn(q),
                                Min({BatchSize, EnvAvailable, QueueAvailable(q)})) :
        LET live    == {r \in batch : message[r] # Absent}
            expired == {r \in live : message[r].ttl # Absent /\ message[r].ttl <= now}
            claimed == live \ expired
        IN  /\ queue' = Zrem(queue, batch)
            /\ Rebalance(Zrem(queue, batch), q)
            /\ ClaimSlots(claimed)
  BY DEF DequeueMessages
<1> DEFINE live    == {r \in batch : message[r] # Absent}
           expired == {r \in live : message[r].ttl # Absent /\ message[r].ttl <= now}
<1>2. WITNESS batch \in DueBatches(queue, DueIn(q),
                                   Min({BatchSize, EnvAvailable, QueueAvailable(q)}))
<1>3. WITNESS live \ expired \in SUBSET batch
<1> QED
  BY <1>1 DEF DequeueMessages

\* The dequeue script takes from the queue what it charges.
LEMMA DequeueMessagesStore ==
  ASSUME TypeOK, Store, NEW c \in Consumers, NEW q \in Queues, DequeueMessages(c, q)
  PROVE  Store'
<1>1. PICK batch, claimed :
        /\ claimed \subseteq batch
        /\ \A r \in claimed : message[r] # Absent
        /\ queue' = Zrem(queue, batch)
        /\ ClaimSlots(claimed)
        /\ UNCHANGED message
  BY DequeueMessagesEffect
<1> QED
  BY <1>1 DEF Store, SlotsHaveMessages, QueuedHasMessage, QueuedNotCharged, ClaimSlots,
       Zrem, TypeOK

\* Every step keeps message, queue entry and slots of a run consistent.
LEMMA StoreStep ==
  ASSUME TypeOK, CallersAreReady, FreshRunsAreClean, Store, [Next]_vars
  PROVE  Store'
<1>1. ASSUME NEW r \in Runs, RunStep(r) PROVE Store'
  <2>1. CASE Trigger(r)
    BY <2>1 DEF Trigger, Store, SlotsHaveMessages, QueuedHasMessage, QueuedNotCharged
  <2>2. CASE TriggerDelayed(r)
    BY <2>2 DEF TriggerDelayed, Store, SlotsHaveMessages, QueuedHasMessage,
      QueuedNotCharged
  <2>3. CASE EnqueueCreated(r)
    BY <2>3 DEF EnqueueCreated, Store, SlotsHaveMessages, QueuedHasMessage,
      QueuedNotCharged
  <2>4. CASE Resume(r)
    BY <2>4 DEF Resume, Store, SlotsHaveMessages, QueuedHasMessage, QueuedNotCharged
  <2>5. CASE EnqueueMessage(r)
    <3>1. payload[r] \in Message
      BY <2>5 DEF EnqueueMessage, CallersAreReady, TypeOK
    <3>2. call[r] = "enqueueFast" => message[r] = Absent
      BY DEF FreshRunsAreClean
    <3> QED
      BY <2>5, <3>1, <3>2, EnqueueSlowStore, EnqueueFastStore DEF EnqueueMessage
  <2>6. CASE Nack(r)
    BY <2>6 DEF Nack, Store, SlotsHaveMessages, QueuedHasMessage, QueuedNotCharged
  <2>7. CASE NackMessage(r)
    <3>1. payload[r] \in Message
      BY <2>7 DEF NackMessage, CallersAreReady, TypeOK
    <3> QED
      BY <2>7, <3>1, RequeueStore, MoveToDeadLetterQueueStore DEF NackMessage
  <2>8. CASE SnapshotAfterNack(r)
    BY <2>8 DEF SnapshotAfterNack, Store, SlotsHaveMessages, QueuedHasMessage,
      QueuedNotCharged
  <2>9. CASE CompleteRun(r)
    BY <2>9 DEF CompleteRun, Store, SlotsHaveMessages, QueuedHasMessage,
      QueuedNotCharged
  <2>10. CASE CancelRun(r)
    BY <2>10 DEF CancelRun, Store, SlotsHaveMessages, QueuedHasMessage, QueuedNotCharged
  <2>11. CASE AcknowledgeMessage(r)
    BY <2>11, AcknowledgeStore DEF AcknowledgeMessage, NoMessageToAcknowledge,
      Store, SlotsHaveMessages, QueuedHasMessage, QueuedNotCharged
  <2>12. CASE Suspend(r)
    BY <2>12 DEF Suspend, Store, SlotsHaveMessages, QueuedHasMessage, QueuedNotCharged
  <2>13. CASE ReleaseAllConcurrency(r)
    BY <2>13 DEF ReleaseAllConcurrency, ReleaseSlots, Store, SlotsHaveMessages,
      QueuedHasMessage, QueuedNotCharged
  <2>14. CASE CallerCrash(r)
    BY <2>14 DEF CallerCrash, Store, SlotsHaveMessages, QueuedHasMessage,
      QueuedNotCharged
  <2>15. CASE ExpireRun(r)
    BY <2>15 DEF ExpireRun, Store, SlotsHaveMessages, QueuedHasMessage, QueuedNotCharged
  <2>16. CASE MarkRunForAck(r)
    BY <2>16 DEF MarkRunForAck, Store, SlotsHaveMessages, QueuedHasMessage,
      QueuedNotCharged
  <2>17. CASE ProcessMarkedRun(r)
    BY <2>17, AcknowledgeStore DEF ProcessMarkedRun, NoMessageToAcknowledge, Store,
      SlotsHaveMessages, QueuedHasMessage, QueuedNotCharged
  <2>18. CASE RepairEnvironment(r)
    BY <2>18 DEF RepairEnvironment, Store, SlotsHaveMessages, QueuedHasMessage,
      QueuedNotCharged
  <2>19. CASE HandleRepairSnapshot(r)
    BY <2>19 DEF HandleRepairSnapshot, ReleaseSlots, Store, SlotsHaveMessages,
      QueuedHasMessage, QueuedNotCharged
  <2>20. CASE RedriveMessage(r)
    <3>1. [message[r] EXCEPT !.attempt = 0] \in Message
      BY <2>20, RedrivenMessageType DEF RedriveMessage, TypeOK
    <3> QED
      BY <2>20, <3>1, EnqueueSlowStore DEF RedriveMessage
  <2>21. CASE FinishRedrive(r)
    BY <2>21 DEF FinishRedrive, Store, SlotsHaveMessages, QueuedHasMessage,
      QueuedNotCharged
  <2> QED
    BY <1>1, <2>1, <2>2, <2>3, <2>4, <2>5, <2>6, <2>7, <2>8, <2>9, <2>10, <2>11,
      <2>12, <2>13, <2>14, <2>15, <2>16, <2>17, <2>18, <2>19, <2>20, <2>21 DEF RunStep
<1>2. ASSUME NEW c \in Consumers, ConsumerStep(c) PROVE Store'
  <2>1. CASE ProcessMasterQueue(c)
    BY <2>1, DequeueMessagesStore DEF ProcessMasterQueue, TypeOK
  <2>2. CASE StartProcessJob(c)
    BY <2>2 DEF StartProcessJob, Store, SlotsHaveMessages, QueuedHasMessage,
      QueuedNotCharged
  <2>3. CASE ProcessQueueForWorkerQueue(c)
    BY <2>3, DequeueMessagesStore DEF ProcessQueueForWorkerQueue, TypeOK
  <2>4. CASE FinishProcessJob(c)
    BY <2>4 DEF FinishProcessJob, Store, SlotsHaveMessages, QueuedHasMessage,
      QueuedNotCharged
  <2>5. CASE PushToWorkerQueue(c)
    BY <2>5 DEF PushToWorkerQueue, Store, SlotsHaveMessages, QueuedHasMessage,
      QueuedNotCharged
  <2>6. CASE ConsumerCrash(c)
    BY <2>6 DEF ConsumerCrash, Store, SlotsHaveMessages, QueuedHasMessage,
      QueuedNotCharged
  <2> QED
    BY <1>2, <2>1, <2>2, <2>3, <2>4, <2>5, <2>6 DEF ConsumerStep
<1>3. ASSUME NEW w \in Workers, WorkerStep(w) PROVE Store'
  <2>1. CASE PopWorkerQueue(w)
    BY <2>1 DEF PopWorkerQueue, Store, SlotsHaveMessages, QueuedHasMessage,
      QueuedNotCharged
  <2>2. CASE DequeueMessageFromKey(w)
    BY <2>2 DEF DequeueMessageFromKey, TypeOK, Store, SlotsHaveMessages,
      QueuedHasMessage, QueuedNotCharged
  <2>3. CASE StartRun(w)
    BY <2>3 DEF StartRun, HandOver, Store, SlotsHaveMessages, QueuedHasMessage,
      QueuedNotCharged
  <2>4. CASE PendingVersion(w)
    BY <2>4 DEF PendingVersion, HandOver, Store, SlotsHaveMessages,
      QueuedHasMessage, QueuedNotCharged
  <2>5. CASE AckDuplicate(w)
    BY <2>5 DEF AckDuplicate, HandOver, Store, SlotsHaveMessages, QueuedHasMessage,
      QueuedNotCharged
  <2>6. CASE RejectInvalid(w)
    BY <2>6 DEF RejectInvalid, HandOver, Store, SlotsHaveMessages, QueuedHasMessage,
      QueuedNotCharged
  <2>7. CASE NackUndelivered(w)
    BY <2>7 DEF NackUndelivered, HandOver, Store, SlotsHaveMessages,
      QueuedHasMessage, QueuedNotCharged
  <2>8. CASE WorkerMismatch(w)
    BY <2>8 DEF WorkerMismatch, HandOver, Store, SlotsHaveMessages,
      QueuedHasMessage, QueuedNotCharged
  <2>9. CASE WorkerCrash(w)
    BY <2>9 DEF WorkerCrash, Store, SlotsHaveMessages, QueuedHasMessage,
      QueuedNotCharged
  <2>10. CASE DirectNackRead(w)
    BY <2>10 DEF DirectNackRead, Store, SlotsHaveMessages, QueuedHasMessage,
      QueuedNotCharged
  <2>11. CASE DirectNackMessage(w)
    <3>1. nacking[w] \in Message /\ delivered[w] \in Runs
      BY <2>11 DEF DirectNackMessage, CallersAreReady, TypeOK
    <3> QED
      BY <2>11, <3>1, RequeueStore, MoveToDeadLetterQueueStore DEF DirectNackMessage
  <2> QED
    BY <1>3, <2>1, <2>2, <2>3, <2>4, <2>5, <2>6, <2>7, <2>8, <2>9, <2>10, <2>11 DEF
      WorkerStep
<1>4. CASE SystemStep
  <2>1. CASE ExpireTtlRuns
    BY <2>1 DEF ExpireTtlRuns, DueBatches, ReleaseSlots, Zrem, TypeOK, Store,
      SlotsHaveMessages, QueuedHasMessage, QueuedNotCharged
  <2>2. CASE RebalanceExpired
    BY <2>2 DEF RebalanceExpired, Store, SlotsHaveMessages, QueuedHasMessage,
      QueuedNotCharged
  <2>3. CASE TtlConsumerCrash
    BY <2>3 DEF TtlConsumerCrash, Store, SlotsHaveMessages, QueuedHasMessage,
      QueuedNotCharged
  <2>4. CASE SetEnvLimit
    BY <2>4 DEF SetEnvLimit, Store, SlotsHaveMessages, QueuedHasMessage,
      QueuedNotCharged
  <2>5. CASE SetQueueLimit
    BY <2>5 DEF SetQueueLimit, Store, SlotsHaveMessages, QueuedHasMessage,
      QueuedNotCharged
  <2>6. CASE Tick
    BY <2>6 DEF Tick, Store, SlotsHaveMessages, QueuedHasMessage, QueuedNotCharged
  <2> QED
    BY <1>4, <2>1, <2>2, <2>3, <2>4, <2>5, <2>6 DEF SystemStep
<1>5. CASE UNCHANGED vars
  BY <1>5 DEF vars, Store, SlotsHaveMessages, QueuedHasMessage, QueuedNotCharged
<1> QED
  BY <1>1, <1>2, <1>3, <1>4, <1>5 DEF Next

-----------------------------------------------------------------------------
(* What the scripts keep of the master queue's cover *)

\* The sorted set of one queue changed and the master queue was told.
LEMMA RebalanceCovers ==
  ASSUME TypeOK, MasterCoversQueues, NEW zset \in [Runs -> Scores], NEW q \in Queues,
         queue' = zset, Rebalance(zset, q),
         \A r \in Runs : QueueOf[r] # q /\ zset[r] # Absent => zset[r] = queue[r]
  PROVE  MasterCoversQueues'
<1> SUFFICES ASSUME NEW r \in Runs, zset[r] # Absent
             PROVE  /\ masterQueue'[QueueOf[r]] # Absent
                    /\ masterQueue'[QueueOf[r]] <= zset[r]
  BY DEF MasterCoversQueues
<1>1. masterQueue' = [masterQueue EXCEPT ![q] = Earliest(zset, q)]
  BY DEF Rebalance
<1>2. CASE QueueOf[r] = q
  <2>1. r \in Members(zset, q)
    BY <1>2 DEF Members
  <2>2. Earliest(zset, q) # Absent /\ Earliest(zset, q) <= zset[r]
    BY <2>1, EarliestType
  <2> QED
    BY <1>1, <1>2, <2>2 DEF TypeOK
<1>3. CASE QueueOf[r] # q
  BY <1>1, <1>3, RunsAssumption DEF MasterCoversQueues, TypeOK
<1> QED
  BY <1>2, <1>3

\* Entries left a queue and the master queue was not told.
LEMMA RemovalCovers ==
  ASSUME MasterCoversQueues, NEW S, queue' = Zrem(queue, S), UNCHANGED masterQueue
  PROVE  MasterCoversQueues'
BY DEF MasterCoversQueues, Zrem

\* After an addition and its rebalance the queue is covered.
LEMMA AddToQueueCovers ==
  ASSUME TypeOK, MasterCoversQueues, NEW r \in Runs, NEW score \in Nat,
         AddToQueue(r, score)
  PROVE  MasterCoversQueues'
<1>1. [queue EXCEPT ![r] = score] \in [Runs -> Scores]
  BY DEF TypeOK, Scores
<1>2. QueueOf[r] \in Queues
  BY RunsAssumption
<1> QED
  BY <1>1, <1>2, RebalanceCovers DEF AddToQueue, TypeOK

\* After a removal and its rebalance the queue is covered.
LEMMA RemoveFromQueueCovers ==
  ASSUME TypeOK, MasterCoversQueues, NEW r \in Runs, RemoveFromQueue(r)
  PROVE  MasterCoversQueues'
<1>1. Zrem(queue, {r}) \in [Runs -> Scores]
  BY ZremType DEF TypeOK
<1>2. QueueOf[r] \in Queues
  BY RunsAssumption
<1>3. \A s \in Runs : Zrem(queue, {r})[s] # Absent => Zrem(queue, {r})[s] = queue[s]
  BY DEF Zrem
<1> QED
  BY <1>1, <1>2, <1>3, RebalanceCovers DEF RemoveFromQueue

\* The enqueue script indexes the queue it adds to.
LEMMA EnqueueSlowCovers ==
  ASSUME TypeOK, MasterCoversQueues, NEW r \in Runs, NEW msg, EnqueueSlow(r, msg)
  PROVE  MasterCoversQueues'
<1>1. PICK score \in 0..now : AddToQueue(r, score)
  BY DEF EnqueueSlow
<1> QED
  BY <1>1, AddToQueueCovers DEF TypeOK

\* The nack script indexes the queue it adds to.
LEMMA RequeueCovers ==
  ASSUME TypeOK, MasterCoversQueues, NEW r \in Runs, NEW msg, Requeue(r, msg)
  PROVE  MasterCoversQueues'
<1>1. PICK score \in RetryTimes : AddToQueue(r, score)
  BY DEF Requeue
<1>2. score \in Nat
  BY BoundsAssumption DEF RetryTimes, TypeOK
<1> QED
  BY <1>1, <1>2, AddToQueueCovers

\* The dequeue script indexes what it leaves behind.
LEMMA DequeueMessagesCovers ==
  ASSUME TypeOK, MasterCoversQueues, NEW c \in Consumers, NEW q \in Queues,
         DequeueMessages(c, q)
  PROVE  MasterCoversQueues'
<1>1. PICK batch : queue' = Zrem(queue, batch) /\ Rebalance(Zrem(queue, batch), q)
  BY DequeueMessagesEffect
<1>2. Zrem(queue, batch) \in [Runs -> Scores]
  BY ZremType DEF TypeOK
<1>3. \A s \in Runs : Zrem(queue, batch)[s] # Absent => Zrem(queue, batch)[s] = queue[s]
  BY DEF Zrem
<1> QED
  BY <1>1, <1>2, <1>3, RebalanceCovers

\* Every step leaves each queue that holds messages in the master queue.
LEMMA MasterStep ==
  ASSUME TypeOK, CallersAreReady, MasterCoversQueues, [Next]_vars
  PROVE  MasterCoversQueues'
<1>1. ASSUME NEW r \in Runs, RunStep(r) PROVE MasterCoversQueues'
  <2>1. CASE Trigger(r)
    BY <2>1 DEF Trigger, MasterCoversQueues
  <2>2. CASE TriggerDelayed(r)
    BY <2>2 DEF TriggerDelayed, MasterCoversQueues
  <2>3. CASE EnqueueCreated(r)
    BY <2>3 DEF EnqueueCreated, MasterCoversQueues
  <2>4. CASE Resume(r)
    BY <2>4 DEF Resume, MasterCoversQueues
  <2>5. CASE EnqueueMessage(r)
    BY <2>5, EnqueueSlowCovers DEF EnqueueMessage, EnqueueFast, MasterCoversQueues
  <2>6. CASE Nack(r)
    BY <2>6 DEF Nack, MasterCoversQueues
  <2>7. CASE NackMessage(r)
    BY <2>7, RequeueCovers, RemoveFromQueueCovers DEF NackMessage, MoveToDeadLetterQueue
  <2>8. CASE SnapshotAfterNack(r)
    BY <2>8 DEF SnapshotAfterNack, MasterCoversQueues
  <2>9. CASE CompleteRun(r)
    BY <2>9 DEF CompleteRun, MasterCoversQueues
  <2>10. CASE CancelRun(r)
    BY <2>10 DEF CancelRun, MasterCoversQueues
  <2>11. CASE AcknowledgeMessage(r)
    BY <2>11, RemoveFromQueueCovers DEF AcknowledgeMessage, Acknowledge,
      NoMessageToAcknowledge, MasterCoversQueues
  <2>12. CASE Suspend(r)
    BY <2>12 DEF Suspend, MasterCoversQueues
  <2>13. CASE ReleaseAllConcurrency(r)
    BY <2>13 DEF ReleaseAllConcurrency, MasterCoversQueues
  <2>14. CASE CallerCrash(r)
    BY <2>14 DEF CallerCrash, MasterCoversQueues
  <2>15. CASE ExpireRun(r)
    BY <2>15 DEF ExpireRun, MasterCoversQueues
  <2>16. CASE MarkRunForAck(r)
    BY <2>16 DEF MarkRunForAck, MasterCoversQueues
  <2>17. CASE ProcessMarkedRun(r)
    BY <2>17, RemoveFromQueueCovers DEF ProcessMarkedRun, Acknowledge,
      NoMessageToAcknowledge, MasterCoversQueues
  <2>18. CASE RepairEnvironment(r)
    BY <2>18 DEF RepairEnvironment, MasterCoversQueues
  <2>19. CASE HandleRepairSnapshot(r)
    BY <2>19 DEF HandleRepairSnapshot, MasterCoversQueues
  <2>20. CASE RedriveMessage(r)
    BY <2>20, EnqueueSlowCovers DEF RedriveMessage
  <2>21. CASE FinishRedrive(r)
    BY <2>21 DEF FinishRedrive, MasterCoversQueues
  <2> QED
    BY <1>1, <2>1, <2>2, <2>3, <2>4, <2>5, <2>6, <2>7, <2>8, <2>9, <2>10, <2>11,
      <2>12, <2>13, <2>14, <2>15, <2>16, <2>17, <2>18, <2>19, <2>20, <2>21 DEF RunStep
<1>2. ASSUME NEW c \in Consumers, ConsumerStep(c) PROVE MasterCoversQueues'
  <2>1. CASE ProcessMasterQueue(c)
    BY <2>1, DequeueMessagesCovers DEF ProcessMasterQueue, TypeOK
  <2>2. CASE StartProcessJob(c)
    BY <2>2 DEF StartProcessJob, MasterCoversQueues
  <2>3. CASE ProcessQueueForWorkerQueue(c)
    BY <2>3, DequeueMessagesCovers DEF ProcessQueueForWorkerQueue, TypeOK
  <2>4. CASE FinishProcessJob(c)
    BY <2>4 DEF FinishProcessJob, MasterCoversQueues
  <2>5. CASE PushToWorkerQueue(c)
    BY <2>5 DEF PushToWorkerQueue, MasterCoversQueues
  <2>6. CASE ConsumerCrash(c)
    BY <2>6 DEF ConsumerCrash, MasterCoversQueues
  <2> QED
    BY <1>2, <2>1, <2>2, <2>3, <2>4, <2>5, <2>6 DEF ConsumerStep
<1>3. ASSUME NEW w \in Workers, WorkerStep(w) PROVE MasterCoversQueues'
  <2>1. CASE PopWorkerQueue(w)
    BY <2>1 DEF PopWorkerQueue, MasterCoversQueues
  <2>2. CASE DequeueMessageFromKey(w)
    BY <2>2 DEF DequeueMessageFromKey, MasterCoversQueues
  <2>3. CASE StartRun(w)
    BY <2>3 DEF StartRun, HandOver, MasterCoversQueues
  <2>4. CASE PendingVersion(w)
    BY <2>4 DEF PendingVersion, HandOver, MasterCoversQueues
  <2>5. CASE AckDuplicate(w)
    BY <2>5 DEF AckDuplicate, HandOver, MasterCoversQueues
  <2>6. CASE RejectInvalid(w)
    BY <2>6 DEF RejectInvalid, HandOver, MasterCoversQueues
  <2>7. CASE NackUndelivered(w)
    BY <2>7 DEF NackUndelivered, HandOver, MasterCoversQueues
  <2>8. CASE WorkerMismatch(w)
    BY <2>8 DEF WorkerMismatch, HandOver, MasterCoversQueues
  <2>9. CASE WorkerCrash(w)
    BY <2>9 DEF WorkerCrash, MasterCoversQueues
  <2>10. CASE DirectNackRead(w)
    BY <2>10 DEF DirectNackRead, MasterCoversQueues
  <2>11. CASE DirectNackMessage(w)
    <3>1. delivered[w] \in Runs
      BY <2>11 DEF DirectNackMessage, CallersAreReady, TypeOK
    <3> QED
      BY <2>11, <3>1, RequeueCovers, RemoveFromQueueCovers DEF DirectNackMessage,
        MoveToDeadLetterQueue
  <2> QED
    BY <1>3, <2>1, <2>2, <2>3, <2>4, <2>5, <2>6, <2>7, <2>8, <2>9, <2>10, <2>11 DEF
      WorkerStep
<1>4. CASE SystemStep
  <2>1. CASE ExpireTtlRuns
    BY <2>1, RemovalCovers DEF ExpireTtlRuns
  <2>2. CASE RebalanceExpired
    BY <2>2, RebalanceCovers DEF RebalanceExpired, TypeOK
  <2>3. CASE TtlConsumerCrash
    BY <2>3 DEF TtlConsumerCrash, MasterCoversQueues
  <2>4. CASE SetEnvLimit
    BY <2>4 DEF SetEnvLimit, MasterCoversQueues
  <2>5. CASE SetQueueLimit
    BY <2>5 DEF SetQueueLimit, MasterCoversQueues
  <2>6. CASE Tick
    BY <2>6 DEF Tick, MasterCoversQueues
  <2> QED
    BY <1>4, <2>1, <2>2, <2>3, <2>4, <2>5, <2>6 DEF SystemStep
<1>5. CASE UNCHANGED vars
  BY <1>5 DEF vars, MasterCoversQueues
<1> QED
  BY <1>1, <1>2, <1>3, <1>4, <1>5 DEF Next

\* A run on the fast path has no message, and no worker has it.
LEMMA FreshStep ==
  ASSUME TypeOK, CallersAreReady, FreshRunsAreClean, [Next]_vars
  PROVE  FreshRunsAreClean'
<1>1. ASSUME NEW r \in Runs, RunStep(r) PROVE FreshRunsAreClean'
  <2>1. CASE Trigger(r)
    BY <2>1 DEF Trigger, FreshRunsAreClean, SetPhase, BeginCall, EndCall, TypeOK
  <2>2. CASE TriggerDelayed(r)
    BY <2>2 DEF TriggerDelayed, FreshRunsAreClean, SetPhase, BeginCall, EndCall, TypeOK
  <2>3. CASE EnqueueCreated(r)
    BY <2>3 DEF EnqueueCreated, FreshRunsAreClean, SetPhase, BeginCall, EndCall, TypeOK
  <2>4. CASE Resume(r)
    BY <2>4 DEF Resume, FreshRunsAreClean, SetPhase, BeginCall, EndCall, TypeOK
  <2>5. CASE EnqueueMessage(r)
    BY <2>5 DEF EnqueueMessage, FreshRunsAreClean, SetPhase, BeginCall, EndCall,
      TypeOK, EnqueueSlow, EnqueueFast, CallersAreReady
  <2>6. CASE Nack(r)
    BY <2>6 DEF Nack, TryNackAndRequeue, SystemFailure, FreshRunsAreClean, SetPhase,
      BeginCall, EndCall, TypeOK
  <2>7. CASE NackMessage(r)
    BY <2>7 DEF NackMessage, FreshRunsAreClean, SetPhase, BeginCall, EndCall,
      TypeOK, Requeue, MoveToDeadLetterQueue, CallersAreReady
  <2>8. CASE SnapshotAfterNack(r)
    BY <2>8 DEF SnapshotAfterNack, SystemFailure, FreshRunsAreClean, SetPhase,
      BeginCall, EndCall, TypeOK
  <2>9. CASE CompleteRun(r)
    BY <2>9 DEF CompleteRun, FreshRunsAreClean, SetPhase, BeginCall, EndCall, TypeOK
  <2>10. CASE CancelRun(r)
    BY <2>10 DEF CancelRun, FreshRunsAreClean, SetPhase, BeginCall, EndCall, TypeOK
  <2>11. CASE AcknowledgeMessage(r)
    BY <2>11 DEF AcknowledgeMessage, FreshRunsAreClean, SetPhase, BeginCall,
      EndCall, TypeOK, Acknowledge, NoMessageToAcknowledge
  <2>12. CASE Suspend(r)
    BY <2>12 DEF Suspend, FreshRunsAreClean, SetPhase, BeginCall, EndCall, TypeOK
  <2>13. CASE ReleaseAllConcurrency(r)
    BY <2>13 DEF ReleaseAllConcurrency, FreshRunsAreClean, SetPhase, BeginCall,
      EndCall, TypeOK
  <2>14. CASE CallerCrash(r)
    BY <2>14 DEF CallerCrash, FreshRunsAreClean, SetPhase, BeginCall, EndCall, TypeOK
  <2>15. CASE ExpireRun(r)
    BY <2>15 DEF ExpireRun, FreshRunsAreClean, SetPhase, BeginCall, EndCall, TypeOK
  <2>16. CASE MarkRunForAck(r)
    BY <2>16 DEF MarkRunForAck, FreshRunsAreClean, SetPhase, BeginCall, EndCall, TypeOK
  <2>17. CASE ProcessMarkedRun(r)
    BY <2>17 DEF ProcessMarkedRun, FreshRunsAreClean, SetPhase, BeginCall, EndCall,
      TypeOK, Acknowledge, NoMessageToAcknowledge
  <2>18. CASE RepairEnvironment(r)
    BY <2>18 DEF RepairEnvironment, FreshRunsAreClean, SetPhase, BeginCall, EndCall,
      TypeOK
  <2>19. CASE HandleRepairSnapshot(r)
    BY <2>19 DEF HandleRepairSnapshot, FreshRunsAreClean, SetPhase, BeginCall,
      EndCall, TypeOK
  <2>20. CASE RedriveMessage(r)
    BY <2>20 DEF RedriveMessage, FreshRunsAreClean, SetPhase, BeginCall, EndCall,
      TypeOK, EnqueueSlow
  <2>21. CASE FinishRedrive(r)
    BY <2>21 DEF FinishRedrive, FreshRunsAreClean, SetPhase, BeginCall, EndCall, TypeOK
  <2> QED
    BY <1>1, <2>1, <2>2, <2>3, <2>4, <2>5, <2>6, <2>7, <2>8, <2>9, <2>10, <2>11,
      <2>12, <2>13, <2>14, <2>15, <2>16, <2>17, <2>18, <2>19, <2>20, <2>21 DEF RunStep
<1>2. ASSUME NEW c \in Consumers, ConsumerStep(c) PROVE FreshRunsAreClean'
  <2>1. CASE ProcessMasterQueue(c)
    BY <2>1 DEF ProcessMasterQueue, DequeueMessages, FreshRunsAreClean
  <2>2. CASE StartProcessJob(c)
    BY <2>2 DEF StartProcessJob, FreshRunsAreClean, SetPhase, BeginCall, EndCall, TypeOK
  <2>3. CASE ProcessQueueForWorkerQueue(c)
    BY <2>3 DEF ProcessQueueForWorkerQueue, DequeueMessages, FreshRunsAreClean
  <2>4. CASE FinishProcessJob(c)
    BY <2>4 DEF FinishProcessJob, FreshRunsAreClean, SetPhase, BeginCall, EndCall,
      TypeOK
  <2>5. CASE PushToWorkerQueue(c)
    BY <2>5 DEF PushToWorkerQueue, FreshRunsAreClean, SetPhase, BeginCall, EndCall,
      TypeOK
  <2>6. CASE ConsumerCrash(c)
    BY <2>6 DEF ConsumerCrash, FreshRunsAreClean, SetPhase, BeginCall, EndCall, TypeOK
  <2> QED
    BY <1>2, <2>1, <2>2, <2>3, <2>4, <2>5, <2>6 DEF ConsumerStep
<1>3. ASSUME NEW w \in Workers, WorkerStep(w) PROVE FreshRunsAreClean'
  <2>1. CASE PopWorkerQueue(w)
    BY <2>1 DEF PopWorkerQueue, FreshRunsAreClean, SetPhase, BeginCall, EndCall, TypeOK
  <2>2. CASE DequeueMessageFromKey(w)
    BY <2>2 DEF DequeueMessageFromKey, FreshRunsAreClean, SetPhase, BeginCall,
      EndCall, TypeOK
  <2>3. CASE StartRun(w)
    BY <2>3, RunsAssumption DEF StartRun, HandOver, FreshRunsAreClean, SetPhase,
      BeginCall, TypeOK
  <2>4. CASE PendingVersion(w)
    BY <2>4, RunsAssumption DEF PendingVersion, HandOver, FreshRunsAreClean,
      SetPhase, BeginCall, TypeOK
  <2>5. CASE AckDuplicate(w)
    BY <2>5, RunsAssumption DEF AckDuplicate, HandOver, FreshRunsAreClean, SetPhase,
      BeginCall, TypeOK
  <2>6. CASE RejectInvalid(w)
    BY <2>6, RunsAssumption DEF RejectInvalid, SystemFailure, HandOver,
      FreshRunsAreClean, SetPhase, BeginCall, EndCall, TypeOK
  <2>7. CASE NackUndelivered(w)
    BY <2>7, RunsAssumption DEF NackUndelivered, TryNackAndRequeue, SystemFailure,
      HandOver, FreshRunsAreClean, SetPhase, BeginCall, EndCall, TypeOK
  <2>8. CASE WorkerMismatch(w)
    BY <2>8, RunsAssumption DEF WorkerMismatch, HandOver, FreshRunsAreClean,
      SetPhase, BeginCall, TypeOK
  <2>9. CASE WorkerCrash(w)
    BY <2>9, RunsAssumption DEF WorkerCrash, FreshRunsAreClean, SetPhase, BeginCall,
      EndCall, TypeOK
  <2>10. CASE DirectNackRead(w)
    BY <2>10, RunsAssumption DEF DirectNackRead, FreshRunsAreClean, SetPhase,
      BeginCall, EndCall, TypeOK
  <2>11. CASE DirectNackMessage(w)
    BY <2>11, RunsAssumption DEF DirectNackMessage, FreshRunsAreClean, SetPhase,
      BeginCall, EndCall, TypeOK, Requeue, MoveToDeadLetterQueue, CallersAreReady
  <2> QED
    BY <1>3, <2>1, <2>2, <2>3, <2>4, <2>5, <2>6, <2>7, <2>8, <2>9, <2>10, <2>11 DEF
      WorkerStep
<1>4. CASE SystemStep
  <2>1. CASE ExpireTtlRuns
    BY <2>1 DEF ExpireTtlRuns, FreshRunsAreClean, SetPhase, BeginCall, EndCall, TypeOK
  <2>2. CASE RebalanceExpired
    BY <2>2 DEF RebalanceExpired, FreshRunsAreClean, SetPhase, BeginCall, EndCall,
      TypeOK
  <2>3. CASE TtlConsumerCrash
    BY <2>3 DEF TtlConsumerCrash, FreshRunsAreClean, SetPhase, BeginCall, EndCall,
      TypeOK
  <2>4. CASE SetEnvLimit
    BY <2>4 DEF SetEnvLimit, FreshRunsAreClean, SetPhase, BeginCall, EndCall, TypeOK
  <2>5. CASE SetQueueLimit
    BY <2>5 DEF SetQueueLimit, FreshRunsAreClean, SetPhase, BeginCall, EndCall, TypeOK
  <2>6. CASE Tick
    BY <2>6 DEF Tick, FreshRunsAreClean, SetPhase, BeginCall, EndCall, TypeOK
  <2> QED
    BY <1>4, <2>1, <2>2, <2>3, <2>4, <2>5, <2>6 DEF SystemStep
<1>5. CASE UNCHANGED vars
  BY <1>5 DEF vars, FreshRunsAreClean
<1> QED
  BY <1>1, <1>2, <1>3, <1>4, <1>5 DEF Next

-----------------------------------------------------------------------------
(* The inductive invariant *)

\* An empty Redis satisfies the invariant.
LEMMA InitIInv == Init => IInv
<1> SUFFICES ASSUME Init PROVE IInv
  OBVIOUS
<1>1. TypeOK
  BY LimitsAssumption DEF Init, TypeOK, NoScores, Scores, Phases, Calls
<1>2. EnvMirrorsQueues /\ SlotsHaveMessages /\ QueuedHasMessage /\ QueuedNotCharged
      /\ MasterCoversQueues
  BY DEF Init, NoScores, EnvMirrorsQueues, SlotsHaveMessages, QueuedHasMessage,
         QueuedNotCharged, MasterCoversQueues
<1>3. FreshRunsAreClean
  BY RunsAssumption DEF Init, FreshRunsAreClean
<1>4. CallersAreReady
  BY DEF Init, CallersAreReady
<1> QED
  BY <1>1, <1>2, <1>3, <1>4 DEF IInv

\* Every step, faults included, preserves it.
LEMMA NextIInv == IInv /\ [Next]_vars => IInv'
<1> SUFFICES ASSUME IInv, [Next]_vars PROVE IInv'
  OBVIOUS
<1>1. /\ TypeOK /\ CallersAreReady /\ EnvMirrorsQueues /\ FreshRunsAreClean
      /\ MasterCoversQueues /\ Store
  BY DEF IInv, Store
<1>2. /\ TypeOK' /\ CallersAreReady' /\ EnvMirrorsQueues' /\ FreshRunsAreClean'
      /\ MasterCoversQueues' /\ Store'
  BY <1>1, TypeStep, CallersStep, EnvMirrorsStep, FreshStep, MasterStep, StoreStep
<1> QED
  BY <1>2 DEF IInv, Store

\* The invariant holds in every reachable state, whatever faults occur.
THEOREM Invariance == Spec => []IInv
BY InitIInv, NextIInv, PTL DEF Spec

\* Every variable keeps its type; an attempt counter never passes its bound.
THEOREM TypeCorrect == Spec => []TypeOK
<1>1. IInv => TypeOK
  BY DEF IInv
<1> QED
  BY <1>1, Invariance, PTL

\* A slot or a dequeued mark always belongs to a run whose message exists, so
\* ack, nack and release, which return when the message is gone, can free it.
THEOREM SlotsCanBeReleased == Spec => []SlotsHaveMessages
<1>1. IInv => SlotsHaveMessages
  BY DEF IInv
<1> QED
  BY <1>1, Invariance, PTL

\* An entry of a queue always has its message: ack, the moves to the dead letters
\* and the TTL expiry, which delete messages, leave no entry behind.
THEOREM EntriesHaveMessages == Spec => []QueuedHasMessage
<1>1. IInv => QueuedHasMessage
  BY DEF IInv
<1> QED
  BY <1>1, Invariance, PTL

\* A run that waits in its queue is never charged against the limits.
THEOREM WaitingIsNotCharged == Spec => []QueuedNotCharged
<1>1. IInv => QueuedNotCharged
  BY DEF IInv
<1> QED
  BY <1>1, Invariance, PTL

\* The environment's sets agree with those of its queues after every script.
THEOREM EnvironmentAgrees == Spec => []EnvMirrorsQueues
<1>1. IInv => EnvMirrorsQueues
  BY DEF IInv
<1> QED
  BY <1>1, Invariance, PTL

\* No queue is lost to the master queue, also when the TTL consumer dies between
\* the expiry and the rebalance.
THEOREM QueuesAreFound == Spec => []MasterCoversQueues
<1>1. IInv => MasterCoversQueues
  BY DEF IInv
<1> QED
  BY <1>1, Invariance, PTL

-----------------------------------------------------------------------------
(* Limits *)

\* Capacities are naturals, whatever the limits and the burst factor.
LEMMA CapacityType ==
  ASSUME TypeOK
  PROVE  /\ EnvCapacity \in Int
         /\ \A q \in Queues : QueueCapacity(q) \in Nat
<1>1. \A a \in Int, b \in Nat \ {0} : a \div b \in Int
  OBVIOUS
<1>2. \A a, b \in Nat : a * b \in Int
  OBVIOUS
<1>3. EnvCapacity \in Int
  BY <1>1, <1>2, LimitsAssumption DEF EnvCapacity, TypeOK
<1>4. \A q \in Queues : QueueCapacity(q) \in Nat
  BY LimitsAssumption DEF QueueCapacity, TypeOK, Scores
<1> QED
  BY <1>3, <1>4

\* Adding m elements to a set of n gives at most n + m.
LEMMA UnionCardinality ==
  ASSUME NEW S \in SUBSET Runs, NEW T \in SUBSET Runs, NEW n \in Int,
         Cardinality(T) <= n - Cardinality(S)
  PROVE  Cardinality(S \cup T) <= n
<1>1. IsFiniteSet(S) /\ IsFiniteSet(T)
  BY RunsAssumption, FS_Subset
<1>2. /\ Cardinality(S) \in Nat /\ Cardinality(T) \in Nat
      /\ Cardinality(S \cap T) \in Nat /\ IsFiniteSet(S \cap T)
  BY <1>1, FS_CardinalityType, FS_Intersection
<1>3. Cardinality(S \cup T) = Cardinality(S) + Cardinality(T) - Cardinality(S \cap T)
  BY <1>1, FS_Union
<1> QED
  BY <1>2, <1>3

\* Runs of one queue that fit the free slots of environment and queue.
LEMMA ClaimFits ==
  ASSUME TypeOK, EnvMirrorsQueues, NEW q \in Queues, NEW S \in SUBSET Runs,
         \A r \in S : QueueOf[r] = q, ClaimSlots(S),
         Cardinality(S) <= EnvAvailable, Cardinality(S) <= QueueAvailable(q)
  PROVE  /\ Cardinality(envCurrentConcurrency') <= EnvCapacity
         /\ Cardinality(InQueue(queueCurrentConcurrency', q)) <= QueueCapacity(q)
         /\ \A p \in Queues \ {q} :
              InQueue(queueCurrentConcurrency', p) = InQueue(queueCurrentConcurrency, p)
<1>1. Cardinality(envCurrentConcurrency') <= EnvCapacity
  BY UnionCardinality, CapacityType DEF ClaimSlots, EnvAvailable, TypeOK
<1>2. InQueue(queueCurrentConcurrency', q) = InQueue(queueCurrentConcurrency, q) \cup S
  BY DEF InQueue, ClaimSlots
<1>3. Cardinality(InQueue(queueCurrentConcurrency', q)) <= QueueCapacity(q)
  <2>1. InQueue(queueCurrentConcurrency, q) \in SUBSET Runs
    BY DEF InQueue, TypeOK
  <2>2. QueueCapacity(q) \in Int
    BY CapacityType
  <2>3. Cardinality(S) <= QueueCapacity(q) -
    Cardinality(InQueue(queueCurrentConcurrency, q))
    BY DEF QueueAvailable
  <2> QED
    BY <1>2, <2>1, <2>2, <2>3, UnionCardinality
<1>4. \A p \in Queues \ {q} :
        InQueue(queueCurrentConcurrency', p) = InQueue(queueCurrentConcurrency, p)
  BY DEF InQueue, ClaimSlots
<1> QED
  BY <1>1, <1>3, <1>4

\* A batch is no larger than any of the three limits of the dequeue script.
LEMMA BatchFits ==
  ASSUME TypeOK, NEW q \in Queues, NEW claimed,
         NEW batch \in DueBatches(queue, DueIn(q),
                                  Min({BatchSize, EnvAvailable, QueueAvailable(q)})),
         claimed \subseteq batch
  PROVE  /\ Cardinality(claimed) <= EnvAvailable
         /\ Cardinality(claimed) <= QueueAvailable(q)
         /\ claimed \in SUBSET Runs /\ \A r \in claimed : QueueOf[r] = q
<1> DEFINE limit == Min({BatchSize, EnvAvailable, QueueAvailable(q)})
<1>1. BatchSize \in Int /\ EnvAvailable \in Int /\ QueueAvailable(q) \in Int
  <2>1. /\ Cardinality(envCurrentConcurrency) \in Nat
        /\ Cardinality(InQueue(queueCurrentConcurrency, q)) \in Nat
    BY RunsAssumption, FS_Subset, FS_CardinalityType DEF TypeOK, InQueue
  <2> QED
    BY <2>1, BoundsAssumption, CapacityType DEF EnvAvailable, QueueAvailable
<1>2. limit \in Int /\ limit <= EnvAvailable /\ limit <= QueueAvailable(q)
  BY <1>1 DEF Min
<1>3. batch \subseteq DueIn(q) /\ DueIn(q) \subseteq Runs
  BY DEF DueBatches, DueIn, Members
<1>4. IsFiniteSet(DueIn(q)) /\ IsFiniteSet(batch) /\ IsFiniteSet(claimed)
  BY <1>3, RunsAssumption, FS_Subset
<1>5. /\ Cardinality(DueIn(q)) \in Nat /\ Cardinality(batch) \in Nat
      /\ Cardinality(claimed) \in Nat /\ Cardinality(claimed) <= Cardinality(batch)
  BY <1>4, FS_CardinalityType, FS_Subset
<1>6. Cardinality(batch) <= limit
  BY <1>2, <1>5 DEF DueBatches
<1>7. \A r \in claimed : QueueOf[r] = q
  BY <1>3 DEF DueIn, Members
<1> QED
  BY <1>1, <1>2, <1>3, <1>5, <1>6, <1>7

-----------------------------------------------------------------------------
(* The two ways to claim a slot *)

\* The actions that claim slots, and for which runs.
ClaimStep(S) ==
  \/ \E r \in Runs : S = {r} /\ FastPathOpen(QueueOf[r]) /\ ClaimSlots(S)
                     /\ UNCHANGED queue
  \/ \E q \in Queues :
       \E batch \in DueBatches(queue, DueIn(q),
                               Min({BatchSize, EnvAvailable, QueueAvailable(q)})) :
         S \subseteq batch /\ queue' = Zrem(queue, batch) /\ ClaimSlots(S)

ClaimsNothing ==
  /\ queueCurrentConcurrency' \subseteq queueCurrentConcurrency
  /\ envCurrentConcurrency' \subseteq envCurrentConcurrency

Claims ==
  \/ ClaimsNothing
  \/ \E S \in SUBSET Runs : ClaimStep(S) /\ UNCHANGED limits

\* What the dequeue script claims are runs of its queue, within its limit.
LEMMA DequeueClaims ==
  ASSUME TypeOK, NEW c \in Consumers, NEW q \in Queues, DequeueMessages(c, q)
  PROVE  Claims
<1>1. PICK batch \in DueBatches(queue, DueIn(q),
                                Min({BatchSize, EnvAvailable, QueueAvailable(q)})) :
        \E claimed \in SUBSET batch :
          queue' = Zrem(queue, batch) /\ ClaimSlots(claimed) /\ UNCHANGED limits
  BY DequeueMessagesEffect
<1>2. batch \subseteq Runs
  BY DEF DueBatches, DueIn, Members
<1>3. PICK S \in SUBSET batch :
        queue' = Zrem(queue, batch) /\ ClaimSlots(S) /\ UNCHANGED limits
  BY <1>1
<1>4. ClaimStep(S)
  BY <1>3 DEF ClaimStep
<1> QED
  BY <1>2, <1>3, <1>4 DEF Claims

\* Only the fast path and the dequeue script claim slots.
LEMMA OnlyTwoClaim ==
  ASSUME TypeOK, [Next]_vars
  PROVE  Claims
<1>1. ASSUME NEW r \in Runs, RunStep(r) PROVE Claims
  <2>1. CASE Trigger(r)
    BY <2>1 DEF Trigger, Claims, ClaimsNothing
  <2>2. CASE TriggerDelayed(r)
    BY <2>2 DEF TriggerDelayed, Claims, ClaimsNothing
  <2>3. CASE EnqueueCreated(r)
    BY <2>3 DEF EnqueueCreated, Claims, ClaimsNothing
  <2>4. CASE Resume(r)
    BY <2>4 DEF Resume, Claims, ClaimsNothing
  <2>5. CASE EnqueueMessage(r)
    <3>1. CASE EnqueueFast(r, payload[r]) /\ FastPathOpen(QueueOf[r])
      <4>1. ClaimStep({r})
        BY <3>1 DEF ClaimStep, EnqueueFast
      <4> QED
        BY <2>5, <4>1 DEF EnqueueMessage, Claims
    <3>2. CASE EnqueueSlow(r, payload[r])
      <4>1. ClaimsNothing
        BY <3>2 DEF EnqueueSlow, ReleaseSlots, ClaimsNothing
      <4> QED
        BY <4>1 DEF Claims
    <3> QED
      BY <2>5, <3>1, <3>2 DEF EnqueueMessage
  <2>6. CASE Nack(r)
    BY <2>6 DEF Nack, Claims, ClaimsNothing
  <2>7. CASE NackMessage(r)
    BY <2>7 DEF NackMessage, Requeue, MoveToDeadLetterQueue, ReleaseSlots, Claims,
      ClaimsNothing
  <2>8. CASE SnapshotAfterNack(r)
    BY <2>8 DEF SnapshotAfterNack, Claims, ClaimsNothing
  <2>9. CASE CompleteRun(r)
    BY <2>9 DEF CompleteRun, Claims, ClaimsNothing
  <2>10. CASE CancelRun(r)
    BY <2>10 DEF CancelRun, Claims, ClaimsNothing
  <2>11. CASE AcknowledgeMessage(r)
    BY <2>11 DEF AcknowledgeMessage, Acknowledge, NoMessageToAcknowledge,
      ReleaseSlots, Claims, ClaimsNothing
  <2>12. CASE Suspend(r)
    BY <2>12 DEF Suspend, Claims, ClaimsNothing
  <2>13. CASE ReleaseAllConcurrency(r)
    BY <2>13 DEF ReleaseAllConcurrency, ReleaseSlots, Claims, ClaimsNothing
  <2>14. CASE CallerCrash(r)
    BY <2>14 DEF CallerCrash, Claims, ClaimsNothing
  <2>15. CASE ExpireRun(r)
    BY <2>15 DEF ExpireRun, Claims, ClaimsNothing
  <2>16. CASE MarkRunForAck(r)
    BY <2>16 DEF MarkRunForAck, Claims, ClaimsNothing
  <2>17. CASE ProcessMarkedRun(r)
    BY <2>17 DEF ProcessMarkedRun, Acknowledge, NoMessageToAcknowledge,
      ReleaseSlots, Claims, ClaimsNothing
  <2>18. CASE RepairEnvironment(r)
    BY <2>18 DEF RepairEnvironment, Claims, ClaimsNothing
  <2>19. CASE HandleRepairSnapshot(r)
    BY <2>19 DEF HandleRepairSnapshot, ReleaseSlots, Claims, ClaimsNothing
  <2>20. CASE RedriveMessage(r)
    BY <2>20 DEF RedriveMessage, EnqueueSlow, ReleaseSlots, Claims, ClaimsNothing
  <2>21. CASE FinishRedrive(r)
    BY <2>21 DEF FinishRedrive, Claims, ClaimsNothing
  <2> QED
    BY <1>1, <2>1, <2>2, <2>3, <2>4, <2>5, <2>6, <2>7, <2>8, <2>9, <2>10, <2>11,
      <2>12, <2>13, <2>14, <2>15, <2>16, <2>17, <2>18, <2>19, <2>20, <2>21 DEF RunStep
<1>2. ASSUME NEW c \in Consumers, ConsumerStep(c) PROVE Claims
  <2>1. CASE ProcessMasterQueue(c)
    BY <2>1, DequeueClaims DEF ProcessMasterQueue, TypeOK
  <2>2. CASE StartProcessJob(c)
    BY <2>2 DEF StartProcessJob, Claims, ClaimsNothing
  <2>3. CASE ProcessQueueForWorkerQueue(c)
    BY <2>3, DequeueClaims DEF ProcessQueueForWorkerQueue, TypeOK
  <2>4. CASE FinishProcessJob(c)
    BY <2>4 DEF FinishProcessJob, Claims, ClaimsNothing
  <2>5. CASE PushToWorkerQueue(c)
    BY <2>5 DEF PushToWorkerQueue, Claims, ClaimsNothing
  <2>6. CASE ConsumerCrash(c)
    BY <2>6 DEF ConsumerCrash, Claims, ClaimsNothing
  <2> QED
    BY <1>2, <2>1, <2>2, <2>3, <2>4, <2>5, <2>6 DEF ConsumerStep
<1>3. ASSUME NEW w \in Workers, WorkerStep(w) PROVE Claims
  <2>1. CASE PopWorkerQueue(w)
    BY <2>1 DEF PopWorkerQueue, Claims, ClaimsNothing
  <2>2. CASE DequeueMessageFromKey(w)
    BY <2>2 DEF DequeueMessageFromKey, Claims, ClaimsNothing
  <2>3. CASE StartRun(w)
    BY <2>3 DEF StartRun, HandOver, Claims, ClaimsNothing
  <2>4. CASE PendingVersion(w)
    BY <2>4 DEF PendingVersion, HandOver, Claims, ClaimsNothing
  <2>5. CASE AckDuplicate(w)
    BY <2>5 DEF AckDuplicate, HandOver, Claims, ClaimsNothing
  <2>6. CASE RejectInvalid(w)
    BY <2>6 DEF RejectInvalid, HandOver, Claims, ClaimsNothing
  <2>7. CASE NackUndelivered(w)
    BY <2>7 DEF NackUndelivered, HandOver, Claims, ClaimsNothing
  <2>8. CASE WorkerMismatch(w)
    BY <2>8 DEF WorkerMismatch, HandOver, Claims, ClaimsNothing
  <2>9. CASE WorkerCrash(w)
    BY <2>9 DEF WorkerCrash, Claims, ClaimsNothing
  <2>10. CASE DirectNackRead(w)
    BY <2>10 DEF DirectNackRead, Claims, ClaimsNothing
  <2>11. CASE DirectNackMessage(w)
    BY <2>11 DEF DirectNackMessage, Requeue, MoveToDeadLetterQueue, ReleaseSlots,
      Claims, ClaimsNothing
  <2> QED
    BY <1>3, <2>1, <2>2, <2>3, <2>4, <2>5, <2>6, <2>7, <2>8, <2>9, <2>10, <2>11 DEF
      WorkerStep
<1>4. CASE SystemStep
  <2>1. CASE ExpireTtlRuns
    BY <2>1 DEF ExpireTtlRuns, ReleaseSlots, Claims, ClaimsNothing
  <2>2. CASE RebalanceExpired
    BY <2>2 DEF RebalanceExpired, Claims, ClaimsNothing
  <2>3. CASE TtlConsumerCrash
    BY <2>3 DEF TtlConsumerCrash, Claims, ClaimsNothing
  <2>4. CASE SetEnvLimit
    <3>1. ClaimsNothing
      BY <2>4 DEF SetEnvLimit, ClaimsNothing
    <3> QED
      BY <3>1 DEF Claims
  <2>5. CASE SetQueueLimit
    <3>1. ClaimsNothing
      BY <2>5 DEF SetQueueLimit, ClaimsNothing
    <3> QED
      BY <3>1 DEF Claims
  <2>6. CASE Tick
    BY <2>6 DEF Tick, Claims, ClaimsNothing
  <2> QED
    BY <1>4, <2>1, <2>2, <2>3, <2>4, <2>5, <2>6 DEF SystemStep
<1>5. CASE UNCHANGED vars
  BY <1>5 DEF vars, Claims, ClaimsNothing
<1> QED
  BY <1>1, <1>2, <1>3, <1>4, <1>5 DEF Next

\* The free slots are a count, not just a formula.
LEMMA AvailableType ==
  ASSUME TypeOK, NEW q \in Queues
  PROVE  EnvAvailable \in Int /\ QueueAvailable(q) \in Int
<1>1. /\ Cardinality(envCurrentConcurrency) \in Nat
      /\ Cardinality(InQueue(queueCurrentConcurrency, q)) \in Nat
  BY RunsAssumption, FS_Subset, FS_CardinalityType DEF TypeOK, InQueue
<1> QED
  BY <1>1, CapacityType DEF EnvAvailable, QueueAvailable

\* Claimed runs that fit what is available fit the limits in force.
LEMMA ClaimStepFits ==
  ASSUME TypeOK, EnvMirrorsQueues, NEW S \in SUBSET Runs, ClaimStep(S)
  PROVE  \E q \in Queues :
           /\ Cardinality(envCurrentConcurrency') <= EnvCapacity
           /\ Cardinality(InQueue(queueCurrentConcurrency', q)) <= QueueCapacity(q)
           /\ \A p \in Queues \ {q} : InQueue(queueCurrentConcurrency', p)
                                        = InQueue(queueCurrentConcurrency, p)
<1>1. ASSUME NEW r \in Runs, S = {r}, FastPathOpen(QueueOf[r]), ClaimSlots(S)
      PROVE  \E q \in Queues :
               /\ Cardinality(S) <= EnvAvailable /\ Cardinality(S) <= QueueAvailable(q)
               /\ \A s \in S : QueueOf[s] = q
  <2>1. QueueOf[r] \in Queues /\ Cardinality(S) = 1
    BY <1>1, RunsAssumption, FS_Singleton
  <2> QED
    BY <1>1, <2>1, AvailableType DEF FastPathOpen
<1>2. ASSUME NEW q \in Queues,
             NEW batch \in DueBatches(queue, DueIn(q),
                                     Min({BatchSize, EnvAvailable, QueueAvailable(q)})),
             S \subseteq batch
      PROVE  /\ Cardinality(S) <= EnvAvailable /\ Cardinality(S) <= QueueAvailable(q)
             /\ \A s \in S : QueueOf[s] = q
  BY <1>2, BatchFits
<1>3. /\ ClaimSlots(S)
      /\ \E q \in Queues :
           /\ Cardinality(S) <= EnvAvailable /\ Cardinality(S) <= QueueAvailable(q)
           /\ \A s \in S : QueueOf[s] = q
  BY <1>1, <1>2 DEF ClaimStep
<1> QED
  BY <1>3, ClaimFits

ClaimsFit ==
  /\ ~(envCurrentConcurrency' \subseteq envCurrentConcurrency) =>
       Cardinality(envCurrentConcurrency') <= EnvCapacity
  /\ \A q \in Queues :
       ~(InQueue(queueCurrentConcurrency', q)
           \subseteq InQueue(queueCurrentConcurrency, q)) =>
          Cardinality(InQueue(queueCurrentConcurrency', q)) <= QueueCapacity(q)

\* A step that claims a slot stays within the limits in force.
LEMMA ClaimsFitStep ==
  ASSUME TypeOK, EnvMirrorsQueues, [Next]_vars
  PROVE  ClaimsFit
<1>1. CASE ClaimsNothing
  BY <1>1 DEF ClaimsFit, ClaimsNothing, InQueue
<1>2. ASSUME NEW S \in SUBSET Runs, ClaimStep(S) PROVE ClaimsFit
  BY <1>2, ClaimStepFits DEF ClaimsFit
<1> QED
  BY <1>1, <1>2, OnlyTwoClaim DEF Claims

\* The limits are always ones an operator may set.
LimitsInRange ==
  envLimit \in EnvLimits /\ queueLimit \in [Queues -> QueueLimits \cup {Absent}]

\* Limits change only to limits an operator may set.
LEMMA LimitsInRangeStep ==
  ASSUME LimitsInRange, [Next]_vars
  PROVE  LimitsInRange'
<1>1. ASSUME NEW r \in Runs, RunStep(r) PROVE UNCHANGED limits
  BY <1>1 DEF RunStep,
       Trigger, TriggerDelayed, EnqueueCreated, Resume, EnqueueMessage,
       Nack, NackMessage, SnapshotAfterNack, CompleteRun, CancelRun,
       AcknowledgeMessage, Suspend, ReleaseAllConcurrency, CallerCrash,
       ExpireRun, MarkRunForAck, ProcessMarkedRun, RepairEnvironment,
       HandleRepairSnapshot, RedriveMessage, FinishRedrive
<1>2. ASSUME NEW c \in Consumers, ConsumerStep(c) PROVE UNCHANGED limits
  BY <1>2 DEF ConsumerStep, DequeueMessages,
       ProcessMasterQueue, StartProcessJob, ProcessQueueForWorkerQueue,
       FinishProcessJob, PushToWorkerQueue, ConsumerCrash
<1>3. ASSUME NEW w \in Workers, WorkerStep(w) PROVE UNCHANGED limits
  BY <1>3 DEF WorkerStep, HandOver,
       PopWorkerQueue, DequeueMessageFromKey, StartRun, PendingVersion,
       AckDuplicate, RejectInvalid, NackUndelivered, WorkerMismatch,
       WorkerCrash, DirectNackRead, DirectNackMessage
<1>4. CASE SystemStep
  BY <1>4 DEF SystemStep, LimitsInRange,
       ExpireTtlRuns, RebalanceExpired, TtlConsumerCrash, SetEnvLimit,
       SetQueueLimit, Tick
<1> QED
  BY <1>1, <1>2, <1>3, <1>4 DEF Next, vars, LimitsInRange

\* No step ever claims a slot beyond the limits in force, for any number of
\* runs, queues and consumers, any limits and any burst factor.
THEOREM LimitsRespected == Spec => ClaimsFitLimits
<1>1. IInv /\ [Next]_vars => [ClaimsFit]_vars
  BY ClaimsFitStep DEF IInv
<1>2. [][ClaimsFit]_vars => ClaimsFitLimits
  BY DEF ClaimsFitLimits, ClaimsFit
<1> QED
  BY <1>1, <1>2, Invariance, PTL DEF Spec

\* A claim leaves nothing behind that is due earlier.
LEMMA NoOvertakingStep ==
  ASSUME TypeOK, [Next]_vars,
         NEW r \in queueCurrentConcurrency' \ queueCurrentConcurrency,
         NEW s \in DueIn(QueueOf[r]), queue'[s] # Absent
  PROVE  queue[r] # Absent /\ queue[r] <= queue[s]
<1>1. PICK S \in SUBSET Runs : ClaimStep(S)
  BY OnlyTwoClaim DEF Claims, ClaimsNothing
<1>2. r \in S
  BY <1>1 DEF ClaimStep, ClaimSlots
<1>3. CASE \E t \in Runs : S = {t} /\ FastPathOpen(QueueOf[t])
  BY <1>2, <1>3 DEF FastPathOpen
<1>4. ASSUME NEW q \in Queues,
             NEW batch \in DueBatches(queue, DueIn(q),
                                     Min({BatchSize, EnvAvailable, QueueAvailable(q)})),
             S \subseteq batch, queue' = Zrem(queue, batch)
      PROVE  queue[r] # Absent /\ queue[r] <= queue[s]
  <2>1. r \in batch /\ batch \subseteq DueIn(q)
    BY <1>2, <1>4 DEF DueBatches
  <2>2. QueueOf[r] = q /\ queue[r] # Absent
    BY <2>1 DEF DueIn, Members
  <2>3. s \in DueIn(q) /\ s \in Runs
    BY <2>2 DEF DueIn, Members
  <2>4. s \notin batch
    BY <1>4, <2>3 DEF Zrem
  <2> QED
    BY <2>1, <2>2, <2>3, <2>4 DEF DueBatches
<1> QED
  BY <1>1, <1>3, <1>4 DEF ClaimStep

\* A run that claims a slot never overtakes a message of its queue that is due
\* and stays behind, on the fast path or in a batch.
THEOREM NoClaimOvertakes == Spec => NoOvertaking
<1> DEFINE Step == \A r \in queueCurrentConcurrency' \ queueCurrentConcurrency :
                     \A s \in DueIn(QueueOf[r]) :
                       queue'[s] # Absent => queue[r] # Absent /\ queue[r] <= queue[s]
<1>1. IInv /\ [Next]_vars => [Step]_vars
  BY NoOvertakingStep DEF IInv
<1>2. [][Step]_vars => NoOvertaking
  BY DEF NoOvertaking
<1> QED
  BY <1>1, <1>2, Invariance, PTL DEF Spec
=============================================================================
