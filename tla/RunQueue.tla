------------------------------ MODULE RunQueue ------------------------------
(***************************************************************************)
(* The run queue of the run engine                                         *)
(* (internal-packages/run-engine/src/run-queue/index.ts) for one           *)
(* environment and its base queues (no concurrency keys).                  *)
(*                                                                         *)
(* All the queue's state lives in Redis and is changed by Lua scripts; a   *)
(* script is one atomic step here.  What is NOT atomic in the code is a    *)
(* step boundary here: a message read and the script that uses it, the     *)
(* dequeue script and the RPUSHes of what it returned, the pop of a worker *)
(* queue and the read of the message key, a TTL expiry and the rebalance   *)
(* of the master queue, a run-queue call and the snapshot written before   *)
(* or after it.                                                            *)
(*                                                                         *)
(* The callers are the run engine's handlers.  Each holds the run lock of  *)
(* its run from its first step to its last: call[r] is the run-queue call  *)
(* the lock holder of r has still to make, and phase[r] is the part of the *)
(* latest execution snapshot that decides which calls are legal.           *)
(***************************************************************************)
EXTENDS Integers, FiniteSets, FiniteSetsExt

CONSTANTS
  Runs, Queues, QueueOf,   \* run ids, base queues, the queue of each run
  Consumers,               \* loops that move messages to the worker queue
  Workers,                 \* callers of dequeueMessageFromWorkerQueue
  Absent,                  \* "no such key", "not a member", "nil"
  MaxTime,                 \* bound: the clock stops here
  BatchSize,               \* maxCount of one dequeue script
  TtlBatchSize,            \* batchSize of one TTL expiry script
  MaxAttempts,             \* retryOptions.maxAttempts
  EnvLimits, QueueLimits,  \* limits an operator may set
  BurstNum, BurstDen,      \* concurrencyLimitBurstFactor as a fraction
  DefaultQueueLimit,       \* limit of a queue that has none of its own
  RetryDelays, TtlDelays,  \* retry backoffs and time-to-lives that occur
  FastPath,                \* values enableFastPath takes, a set of Booleans
  MaxEntries,              \* bound: entries of a run in the worker queue
  Faults,                  \* failures and operator actions that occur
  CrashPoints              \* calls the holder of a run lock may die before

FaultKinds == {"consumerCrash", "workerCrash", "ttlCrash", "directNack",
               "workerMismatch", "repair", "redrive"}

Time == 0..MaxTime

ASSUME RunsAssumption ==
  /\ IsFiniteSet(Runs)
  /\ QueueOf \in [Runs -> Queues]
  /\ Absent \notin Runs \cup Queues \cup Nat
  /\ Absent \notin [attempt : Nat, ttl : Nat \cup {Absent}]

ASSUME BoundsAssumption ==
  /\ MaxTime \in Nat /\ MaxEntries \in Nat
  /\ BatchSize \in Nat \ {0} /\ TtlBatchSize \in Nat \ {0}
  /\ MaxAttempts \in Nat \ {0}
  /\ RetryDelays \subseteq Nat /\ TtlDelays \subseteq Nat
  /\ FastPath \subseteq BOOLEAN
  /\ Faults \subseteq FaultKinds

ASSUME LimitsAssumption ==
  /\ EnvLimits \subseteq Nat /\ EnvLimits # {}
  /\ QueueLimits \subseteq Nat
  /\ DefaultQueueLimit \in Nat
  /\ BurstNum \in Nat /\ BurstDen \in Nat \ {0}

-----------------------------------------------------------------------------
(* State *)

VARIABLES
  now,                      \* Date.now() of every process
  message,                  \* messageKey: the payload of a run, or Absent
  queue,                    \* score of a run in the sorted set of its queue
  envQueue,                 \* score of a run in the environment's sorted set
  masterQueue,              \* score of a queue in the master queue shard
  queueCurrentConcurrency,  \* union of the queues' currentConcurrency sets
  envCurrentConcurrency,
  queueCurrentDequeued,     \* union of the queues' currentDequeued sets
  envCurrentDequeued,
  workerQueue,              \* number of entries of a run in the worker queue
  ttlQueue,                 \* score of a run in the TTL sorted set
  ttlWorkerQueue,           \* runs handed to the TTL worker
  ttlRebalance,             \* queues the TTL consumer has still to rebalance
  deadLetterQueue, redriving, markedForAck,
  envLimit, queueLimit,     \* the limit keys
  processJobs,              \* pending processQueueForWorkerQueue jobs, by id
  job, again, held,         \* a consumer's job, whether that job dequeues
                            \*   (again), the messages it has not pushed yet
  popped, delivered,        \* a worker's entry before and after it read the key
  nacking,                  \* message a worker read for a nack without a lock
  phase,                    \* projection of the latest execution snapshot
  call,                     \* call the holder of the run's lock has to make
  payload,                  \* message in the memory of that caller
  repairing                 \* repairSnapshot jobs for the latest snapshot

indexes   == <<queue, envQueue, masterQueue>>
slots     == <<queueCurrentConcurrency, envCurrentConcurrency,
               queueCurrentDequeued, envCurrentDequeued>>
ttlState  == <<ttlQueue, ttlWorkerQueue, ttlRebalance>>
dlqState  == <<deadLetterQueue, redriving>>
limits    == <<envLimit, queueLimit>>
consumers == <<job, again, held>>
workers   == <<popped, delivered, nacking>>
engine    == <<phase, call, payload, repairing>>

vars == <<now, message, indexes, slots, workerQueue, ttlState, dlqState,
          markedForAck, limits, processJobs, consumers, workers, engine>>

Message == [attempt : 0..(MaxAttempts - 1), ttl : Nat \cup {Absent}]

\* "New" has no row yet; "Created" is RUN_CREATED, DELAYED or pending version;
\* "Executing" stands for PENDING_EXECUTING, EXECUTING and its variants.
Phases == {"New", "Created", "Queued", "Executing", "Suspended", "Finished"}

\* What the lock holder still has to do: a call, or (requeued, deadLettered)
\* the snapshot that follows a nack.  No snapshot follows a nackOnly.
Calls == {"none", "enqueue", "enqueueFast", "nack", "nackOnly", "requeued",
          "deadLettered", "ack", "ackRemove", "release"}

ASSUME CrashPointsAssumption == CrashPoints \subseteq Calls \ {"none"}

Scores == Nat \cup {Absent}

-----------------------------------------------------------------------------
(* Sorted sets, limits, and the pieces the Lua scripts share *)

Zrem(zset, S) == [r \in Runs |-> IF r \in S THEN Absent ELSE zset[r]]

Members(zset, q) == {r \in Runs : QueueOf[r] = q /\ zset[r] # Absent}

InQueue(S, q) == {r \in S : QueueOf[r] = q}

\* ZRANGE 0 0 WITHSCORES: the score of the earliest message, if there is one.
Earliest(zset, q) ==
  IF Members(zset, q) = {} THEN Absent
  ELSE Min({zset[r] : r \in Members(zset, q)})

Rebalance(zset, q) == masterQueue' = [masterQueue EXCEPT ![q] = Earliest(zset, q)]

\* ZRANGEBYSCORE -inf now LIMIT 0 n: the n earliest of the due members.  Ties
\* are broken by member name in Redis and arbitrarily here.
DueBatches(zset, due, n) ==
  {S \in SUBSET due :
     /\ Cardinality(S) = IF n < Cardinality(due) THEN n ELSE Cardinality(due)
     /\ \A r \in S, t \in due \ S : zset[r] <= zset[t]}

DueIn(q) == {r \in Members(queue, q) : queue[r] <= now}

\* math.floor(envLimit * envBurstFactor)
EnvCapacity == (envLimit * BurstNum) \div BurstDen

\* math.min(queue limit or the default, environment limit)
QueueCapacity(q) ==
  LET own == IF queueLimit[q] = Absent THEN DefaultQueueLimit ELSE queueLimit[q]
  IN  IF own < envLimit THEN own ELSE envLimit

EnvAvailable == EnvCapacity - Cardinality(envCurrentConcurrency)

\* Mutated form: as above, for the queue.
QueueAvailableToDeliver(q) ==
  QueueCapacity(q) - Cardinality(InQueue(queueCurrentDequeued, q))

QueueAvailable(q) ==
  QueueCapacity(q) - Cardinality(InQueue(queueCurrentConcurrency, q))

\* RPUSH of a run's message key.
PushEntry(r) ==
  /\ workerQueue[r] < MaxEntries
  /\ workerQueue' = [workerQueue EXCEPT ![r] = @ + 1]

\* Every release path removes the run from all four sets.
ReleaseSlots(S) ==
  /\ queueCurrentConcurrency' = queueCurrentConcurrency \ S
  /\ envCurrentConcurrency' = envCurrentConcurrency \ S
  /\ queueCurrentDequeued' = queueCurrentDequeued \ S
  /\ envCurrentDequeued' = envCurrentDequeued \ S

ClaimSlots(S) ==
  /\ queueCurrentConcurrency' = queueCurrentConcurrency \cup S
  /\ envCurrentConcurrency' = envCurrentConcurrency \cup S
  /\ UNCHANGED <<queueCurrentDequeued, envCurrentDequeued>>

\* ZREM from queue and environment queue, then rebalance the master queue.
RemoveFromQueue(r) ==
  /\ queue' = Zrem(queue, {r})
  /\ envQueue' = Zrem(envQueue, {r})
  /\ Rebalance(Zrem(queue, {r}), QueueOf[r])

\* Mutated form: the master queue is not told.
AddToQueueUnindexed(r, score) ==
  /\ queue' = [queue EXCEPT ![r] = score]
  /\ envQueue' = [envQueue EXCEPT ![r] = score]
  /\ UNCHANGED masterQueue

AddToQueue(r, score) ==
  /\ queue' = [queue EXCEPT ![r] = score]
  /\ envQueue' = [envQueue EXCEPT ![r] = score]
  /\ Rebalance([queue EXCEPT ![r] = score], QueueOf[r])

\* enqueueOnce: a job whose id is already known, running or not, is dropped.
EnqueueProcessJob(q) == processJobs' = processJobs \cup {q}


-----------------------------------------------------------------------------
(* Engine bookkeeping: run locks, snapshots, the call under way *)

Unlocked(r) == call[r] = "none"

\* A new snapshot: a repairSnapshot job for the previous one becomes a no-op.
SetPhase(r, p) ==
  /\ phase' = [phase EXCEPT ![r] = p]
  /\ repairing' = repairing \ {r}

BeginCall(r, op, msg) ==
  /\ call' = [call EXCEPT ![r] = op]
  /\ payload' = [payload EXCEPT ![r] = msg]

EndCall(r) == BeginCall(r, "none", Absent)

\* systemFailure: the run fails, unless it has finished already.
SystemFailure(r) ==
  IF phase[r] = "Finished" THEN EndCall(r) /\ UNCHANGED <<phase, repairing>>
  ELSE SetPhase(r, "Finished") /\ BeginCall(r, "ackRemove", Absent)

\* tryNackAndRequeue, up to the nack: the message is read under the run's lock.
\* Without one nackMessage returns undefined, which is taken for "not requeued".
TryNackAndRequeue(r) ==
  IF message[r] = Absent THEN SystemFailure(r)
  ELSE BeginCall(r, "nack", message[r]) /\ UNCHANGED <<phase, repairing>>

-----------------------------------------------------------------------------
(* Enqueue *)

TtlChoices == {Absent} \cup {now + d : d \in TtlDelays}

\* engine.trigger: the run and its QUEUED snapshot are in the database, the
\* message is not in Redis yet.
Trigger(r) ==
  /\ phase[r] = "New" /\ Unlocked(r)
  /\ \E fast \in FastPath, ttl \in TtlChoices :
       BeginCall(r, IF fast THEN "enqueueFast" ELSE "enqueue",
                 [attempt |-> 0, ttl |-> ttl])
  /\ SetPhase(r, "Queued")
  /\ UNCHANGED <<now, message, indexes, slots, workerQueue, ttlState, dlqState,
                 markedForAck, limits, processJobs, consumers, workers>>

\* engine.trigger of a delayed run: no message until the delay is over.
TriggerDelayed(r) ==
  /\ phase[r] = "New" /\ Unlocked(r)
  /\ SetPhase(r, "Created")
  /\ UNCHANGED <<now, message, indexes, slots, workerQueue, ttlState, dlqState,
                 markedForAck, limits, processJobs, consumers, workers, call,
                 payload>>

\* enqueueDelayedRun, enqueueRunsForBackgroundWorker: first enqueue, with TTL.
EnqueueCreated(r) ==
  /\ phase[r] = "Created" /\ Unlocked(r)
  /\ \E ttl \in TtlChoices :
       BeginCall(r, "enqueue", [attempt |-> 0, ttl |-> ttl])
  /\ SetPhase(r, "Queued")
  /\ UNCHANGED <<now, message, indexes, slots, workerQueue, ttlState, dlqState,
                 markedForAck, limits, processJobs, consumers, workers>>

\* continueRunIfUnblocked: a suspended run is enqueued again, without a TTL.
Resume(r) ==
  /\ phase[r] = "Suspended" /\ Unlocked(r)
  /\ BeginCall(r, "enqueue", [attempt |-> 0, ttl |-> Absent])
  /\ SetPhase(r, "Queued")
  /\ UNCHANGED <<now, message, indexes, slots, workerQueue, ttlState, dlqState,
                 markedForAck, limits, processJobs, consumers, workers>>

\* Mutated form: messages that are due do not close the fast path.
FastPathOpenAlways(q) == EnvAvailable > 0 /\ QueueAvailable(q) > 0

FastPathOpen(q) ==
  /\ DueIn(q) = {}
  /\ EnvAvailable > 0
  /\ QueueAvailable(q) > 0

\* Mutated form: slots of an earlier life of the run stay claimed.
EnqueueSlowCharged(r, msg) ==
  /\ message' = [message EXCEPT ![r] = msg]
  /\ \E score \in 0..now : AddToQueue(r, score)
  /\ EnqueueProcessJob(QueueOf[r])
  /\ UNCHANGED <<slots, workerQueue, ttlState>>

\* The script of enqueueMessage, slow path: message, both sorted sets, TTL set,
\* master queue, and no slot is left behind from an earlier life of the run.
EnqueueSlow(r, msg) ==
  /\ message' = [message EXCEPT ![r] = msg]
  /\ \E score \in 0..now : AddToQueue(r, score)
  /\ ttlQueue' = IF msg.ttl = Absent THEN ttlQueue
                 ELSE [ttlQueue EXCEPT ![r] = msg.ttl]
  /\ ReleaseSlots({r})
  /\ EnqueueProcessJob(QueueOf[r])
  /\ UNCHANGED <<workerQueue, ttlWorkerQueue, ttlRebalance>>

\* Fast path: claim a slot and push the message to the worker queue at once.
EnqueueFast(r, msg) ==
  /\ message' = [message EXCEPT ![r] = msg]
  /\ ClaimSlots({r})
  /\ PushEntry(r)
  /\ UNCHANGED <<indexes, ttlState, processJobs>>

EnqueueMessage(r) ==
  /\ \/ call[r] = "enqueueFast" /\ FastPathOpen(QueueOf[r])
        /\ EnqueueFast(r, payload[r])
     \/ call[r] = "enqueueFast" /\ ~FastPathOpen(QueueOf[r])
        /\ EnqueueSlow(r, payload[r])
     \/ call[r] = "enqueue" /\ EnqueueSlow(r, payload[r])
  /\ EndCall(r)
  /\ UNCHANGED <<now, dlqState, markedForAck, limits, consumers, workers, phase,
                 repairing>>

-----------------------------------------------------------------------------
(* From a queue to the worker queue *)

\* Mutated form: the TTL member of a claimed message is forgotten.
UntrackNothing(claimed) == UNCHANGED ttlQueue

\* A claimed message is not waiting any more: its TTL does not apply.
UntrackTtl(claimed) ==
  ttlQueue' = Zrem(ttlQueue, {r \in claimed : message[r].ttl # Absent})

\* dequeueMessagesFromQueue: the script takes a batch that fits the free slots
\* of the environment and of the queue.  Entries without a message are dropped,
\* entries past their TTL are left to the TTL consumer, the rest claim a slot.
\* The caller holds what was claimed and still has to push it.
DequeueMessages(c, q) ==
  LET limit == Min({BatchSize, EnvAvailable, QueueAvailable(q)}) IN
  /\ limit > 0
  /\ DueIn(q) # {}
  /\ \E batch \in DueBatches(queue, DueIn(q), limit) :
       LET live    == {r \in batch : message[r] # Absent}
           expired == {r \in live : message[r].ttl # Absent /\ message[r].ttl <= now}
           claimed == live \ expired
       IN  /\ queue' = Zrem(queue, batch)
           /\ envQueue' = Zrem(envQueue, batch)
           /\ Rebalance(Zrem(queue, batch), q)
           /\ ClaimSlots(claimed)
           /\ UntrackTtl(claimed)
           /\ held' = [held EXCEPT ![c] = claimed]
           /\ again' = [again EXCEPT ![c] = job[c] # Absent
                                            /\ Cardinality(claimed) = BatchSize]
  /\ UNCHANGED <<now, message, workerQueue, ttlWorkerQueue, ttlRebalance,
                 dlqState, markedForAck, limits, processJobs, job, workers, engine>>

NothingToDequeue(q) ==
  \/ EnvAvailable <= 0
  \/ QueueAvailable(q) <= 0
  \/ DueIn(q) = {}

\* processMasterQueueShard, for one of the queues the fair selection returned.
ProcessMasterQueue(c) ==
  /\ job[c] = Absent /\ held[c] = {}
  /\ \E q \in Queues :
       /\ masterQueue[q] # Absent /\ masterQueue[q] <= now
       /\ DequeueMessages(c, q)

\* The worker of the queue picks up a job no other process is running.
StartProcessJob(c) ==
  /\ job[c] = Absent /\ held[c] = {}
  /\ \E q \in processJobs :
       /\ \A d \in Consumers : job[d] # q
       /\ job' = [job EXCEPT ![c] = q]
  /\ again' = [again EXCEPT ![c] = TRUE]
  /\ UNCHANGED <<now, message, indexes, slots, workerQueue, ttlState, dlqState,
                 markedForAck, limits, processJobs, held, workers, engine>>

\* processQueueForWorkerQueue, and its recursion after a full batch.
ProcessQueueForWorkerQueue(c) ==
  /\ job[c] # Absent /\ again[c] /\ held[c] = {}
  /\ DequeueMessages(c, job[c])

\* The handler returns and the job is acknowledged.
FinishProcessJob(c) ==
  /\ job[c] # Absent /\ held[c] = {}
  /\ again[c] => NothingToDequeue(job[c])
  /\ processJobs' = processJobs \ {job[c]}
  /\ job' = [job EXCEPT ![c] = Absent]
  /\ again' = [again EXCEPT ![c] = FALSE]
  /\ UNCHANGED <<now, message, indexes, slots, workerQueue, ttlState, dlqState,
                 markedForAck, limits, held, workers, engine>>

\* Mutated form: a message that was pushed is pushed again.
PushAgain(c) ==
  /\ \E r \in held[c] : PushEntry(r)
  /\ UNCHANGED <<now, message, indexes, slots, ttlState, dlqState, markedForAck,
                 limits, processJobs, consumers, workers, engine>>

\* enqueueMessagesToWorkerQueues: a pipeline of RPUSHes is not a transaction.
PushToWorkerQueue(c) ==
  /\ \E r \in held[c] :
       /\ PushEntry(r)
       /\ held' = [held EXCEPT ![c] = @ \ {r}]
  /\ UNCHANGED <<now, message, indexes, slots, ttlState, dlqState, markedForAck,
                 limits, processJobs, job, again, workers, engine>>

\* The process dies between the script and the RPUSHes, or with a job in hand:
\* the job becomes visible again, the messages it held are in no queue.
ConsumerCrash(c) ==
  /\ "consumerCrash" \in Faults
  /\ job[c] # Absent \/ held[c] # {}
  /\ job' = [job EXCEPT ![c] = Absent]
  /\ again' = [again EXCEPT ![c] = FALSE]
  /\ held' = [held EXCEPT ![c] = {}]
  /\ UNCHANGED <<now, message, indexes, slots, workerQueue, ttlState, dlqState,
                 markedForAck, limits, processJobs, workers, engine>>

-----------------------------------------------------------------------------
(* From the worker queue to a worker *)

\* BLPOP or LPOP of the worker queue.  Which entry is the head is left open.
PopWorkerQueue(w) ==
  /\ popped[w] = Absent /\ delivered[w] = Absent
  /\ \E r \in Runs :
       /\ workerQueue[r] > 0
       /\ workerQueue' = [workerQueue EXCEPT ![r] = @ - 1]
       /\ popped' = [popped EXCEPT ![w] = r]
  /\ UNCHANGED <<now, message, indexes, slots, ttlState, dlqState, markedForAck,
                 limits, processJobs, consumers, delivered, nacking, engine>>

\* dequeueMessageFromKey: nothing is delivered when the message is gone.
DequeueMessageFromKey(w) ==
  /\ popped[w] # Absent
  /\ popped' = [popped EXCEPT ![w] = Absent]
  /\ IF message[popped[w]] = Absent
     THEN UNCHANGED <<delivered, queueCurrentDequeued, envCurrentDequeued>>
     ELSE /\ delivered' = [delivered EXCEPT ![w] = popped[w]]
          /\ queueCurrentDequeued' = queueCurrentDequeued \cup {popped[w]}
          /\ envCurrentDequeued' = envCurrentDequeued \cup {popped[w]}
  /\ UNCHANGED <<now, message, indexes, queueCurrentConcurrency,
                 envCurrentConcurrency, workerQueue, ttlState, dlqState,
                 markedForAck, limits, processJobs, consumers, nacking, engine>>

\* The worker has the run's lock and no nack of its own under way.
Locks(w, r) ==
  /\ delivered[w] = r /\ nacking[w] = Absent
  /\ Unlocked(r)

HandOver(w) ==
  /\ delivered' = [delivered EXCEPT ![w] = Absent]
  /\ UNCHANGED <<now, message, indexes, slots, workerQueue, ttlState, dlqState,
                 markedForAck, limits, processJobs, consumers, popped, nacking>>

\* Mutated form: the state of the run is not looked at.
StartRunBlindly(w) == \E r \in Runs :
  /\ Locks(w, r)
  /\ SetPhase(r, "Executing")
  /\ HandOver(w)
  /\ UNCHANGED <<call, payload>>

\* dequeueFromWorkerQueue, the run is queued: it starts executing.
StartRun(w) == \E r \in Runs :
  /\ Locks(w, r) /\ phase[r] = "Queued"
  /\ SetPhase(r, "Executing")
  /\ HandOver(w)
  /\ UNCHANGED <<call, payload>>

\* No worker version can run the task yet: RUN_CREATED snapshot, then ack.
PendingVersion(w) == \E r \in Runs :
  /\ Locks(w, r) /\ phase[r] = "Queued"
  /\ SetPhase(r, "Created")
  /\ BeginCall(r, "ack", Absent)
  /\ HandOver(w)

\* The run is already PENDING_EXECUTING: its message is acknowledged.
AckDuplicate(w) == \E r \in Runs :
  /\ Locks(w, r) /\ phase[r] = "Executing"
  /\ BeginCall(r, "ack", Absent)
  /\ HandOver(w)
  /\ UNCHANGED <<phase, repairing>>

\* Any other state: systemFailure, which does nothing for a finished run.
RejectInvalid(w) == \E r \in Runs :
  /\ Locks(w, r)
  /\ phase[r] \in {"Created", "Executing", "Suspended", "Finished"}
  /\ SystemFailure(r)
  /\ HandOver(w)

\* An error while the run is prepared, whatever its state is by then.
NackUndelivered(w) == \E r \in Runs :
  /\ Locks(w, r)
  /\ TryNackAndRequeue(r)
  /\ HandOver(w)

\* BACKGROUND_WORKER_MISMATCH: a nack whose outcome nobody looks at.
WorkerMismatch(w) == \E r \in Runs :
  /\ "workerMismatch" \in Faults
  /\ Locks(w, r) /\ phase[r] = "Queued"
  /\ IF message[r] = Absent THEN UNCHANGED engine
     ELSE BeginCall(r, "nackOnly", message[r]) /\ UNCHANGED <<phase, repairing>>
  /\ HandOver(w)

WorkerCrash(w) ==
  /\ "workerCrash" \in Faults
  /\ popped[w] # Absent \/ delivered[w] # Absent
  /\ popped' = [popped EXCEPT ![w] = Absent]
  /\ delivered' = [delivered EXCEPT ![w] = Absent]
  /\ nacking' = [nacking EXCEPT ![w] = Absent]
  /\ UNCHANGED <<now, message, indexes, slots, workerQueue, ttlState, dlqState,
                 markedForAck, limits, processJobs, consumers, engine>>

-----------------------------------------------------------------------------
(* Nack, dead letter queue, acknowledge, release *)

\* A run that executes goes back to the queue: a retry with a long delay, or a
\* missed heartbeat.
Nack(r) ==
  /\ phase[r] = "Executing" /\ Unlocked(r)
  /\ TryNackAndRequeue(r)
  /\ UNCHANGED <<now, message, indexes, slots, workerQueue, ttlState, dlqState,
                 markedForAck, limits, processJobs, consumers, workers>>

AttemptsLeft(msg) == msg.attempt + 1 < MaxAttempts

\* retryAt, which may have passed already, or a backoff within the bound.
RetryTimes ==
  {now} \cup {t \in {now + d : d \in RetryDelays} : t <= MaxTime}

\* The nackMessage script: write the message that was read, release, requeue.
Requeue(r, msg) ==
  /\ message' = [message EXCEPT ![r] = [msg EXCEPT !.attempt = @ + 1]]
  /\ ReleaseSlots({r})
  /\ \E score \in RetryTimes : AddToQueue(r, score)
  /\ EnqueueProcessJob(QueueOf[r])
  /\ UNCHANGED dlqState

MoveToDeadLetterQueue(r) ==
  /\ RemoveFromQueue(r)
  /\ deadLetterQueue' = deadLetterQueue \cup {r}
  /\ ReleaseSlots({r})
  /\ UNCHANGED <<message, processJobs, redriving>>

NackMessage(r) ==
  /\ call[r] \in {"nack", "nackOnly"}
  /\ IF AttemptsLeft(payload[r]) THEN Requeue(r, payload[r])
     ELSE MoveToDeadLetterQueue(r)
  /\ BeginCall(r, IF call[r] = "nackOnly" THEN "none"
                  ELSE IF AttemptsLeft(payload[r]) THEN "requeued"
                  ELSE "deadLettered", Absent)
  /\ UNCHANGED <<now, workerQueue, ttlState, markedForAck, limits, consumers,
                 workers, phase, repairing>>

\* Mutated form: "not requeued" is ignored.
SnapshotQueuedAfterNack(r) ==
  /\ call[r] \in {"requeued", "deadLettered"}
  /\ SetPhase(r, "Queued") /\ EndCall(r)
  /\ UNCHANGED <<now, message, indexes, slots, workerQueue, ttlState, dlqState,
                 markedForAck, limits, processJobs, consumers, workers>>

\* tryNackAndRequeue, after the nack: the QUEUED snapshot, or systemFailure.
SnapshotAfterNack(r) ==
  /\ \/ call[r] = "requeued" /\ SetPhase(r, "Queued") /\ EndCall(r)
     \/ call[r] = "deadLettered" /\ SystemFailure(r)
  /\ UNCHANGED <<now, message, indexes, slots, workerQueue, ttlState, dlqState,
                 markedForAck, limits, processJobs, consumers, workers>>

\* The database is unreachable: the worker nacks in Redis without the run lock.
DirectNackRead(w) ==
  /\ "directNack" \in Faults
  /\ delivered[w] # Absent /\ nacking[w] = Absent
  /\ IF message[delivered[w]] = Absent
     THEN /\ delivered' = [delivered EXCEPT ![w] = Absent]
          /\ UNCHANGED nacking
     ELSE /\ nacking' = [nacking EXCEPT ![w] = message[delivered[w]]]
          /\ UNCHANGED delivered
  /\ UNCHANGED <<now, message, indexes, slots, workerQueue, ttlState, dlqState,
                 markedForAck, limits, processJobs, consumers, popped, engine>>

DirectNackMessage(w) ==
  /\ nacking[w] # Absent
  /\ IF AttemptsLeft(nacking[w]) THEN Requeue(delivered[w], nacking[w])
     ELSE MoveToDeadLetterQueue(delivered[w])
  /\ delivered' = [delivered EXCEPT ![w] = Absent]
  /\ nacking' = [nacking EXCEPT ![w] = Absent]
  /\ UNCHANGED <<now, workerQueue, ttlState, markedForAck, limits, consumers,
                 popped, engine>>

\* The acknowledgeMessage script.
Acknowledge(r, removeFromWorkerQueue) ==
  /\ message' = [message EXCEPT ![r] = Absent]
  /\ RemoveFromQueue(r)
  /\ ReleaseSlots({r})
  /\ workerQueue' = IF removeFromWorkerQueue THEN [workerQueue EXCEPT ![r] = 0]
                    ELSE workerQueue

NoMessageToAcknowledge == UNCHANGED <<message, indexes, slots, workerQueue>>

\* runAttemptSucceeded or permanentlyFailRun: FINISHED first, then the ack.
CompleteRun(r) ==
  /\ phase[r] = "Executing" /\ Unlocked(r)
  /\ SetPhase(r, "Finished")
  /\ \E op \in {"ack", "ackRemove"} : BeginCall(r, op, Absent)
  /\ UNCHANGED <<now, message, indexes, slots, workerQueue, ttlState, dlqState,
                 markedForAck, limits, processJobs, consumers, workers>>

\* cancelRun, and expireRun of the TTL system: any run that is not finished.
CancelRun(r) ==
  /\ phase[r] \in {"Created", "Queued", "Executing", "Suspended"} /\ Unlocked(r)
  /\ SetPhase(r, "Finished")
  /\ BeginCall(r, "ackRemove", Absent)
  /\ UNCHANGED <<now, message, indexes, slots, workerQueue, ttlState, dlqState,
                 markedForAck, limits, processJobs, consumers, workers>>

AcknowledgeMessage(r) ==
  /\ call[r] \in {"ack", "ackRemove"}
  /\ IF message[r] = Absent
     THEN NoMessageToAcknowledge /\ UNCHANGED processJobs
     ELSE /\ Acknowledge(r, call[r] = "ackRemove")
          /\ EnqueueProcessJob(QueueOf[r])
  /\ EndCall(r)
  /\ UNCHANGED <<now, ttlState, dlqState, markedForAck, limits, consumers,
                 workers, phase, repairing>>

\* createCheckpoint: SUSPENDED snapshot, then releaseAllConcurrency, which does
\* nothing without a message.
Suspend(r) ==
  /\ phase[r] = "Executing" /\ Unlocked(r)
  /\ SetPhase(r, "Suspended")
  /\ BeginCall(r, "release", Absent)
  /\ UNCHANGED <<now, message, indexes, slots, workerQueue, ttlState, dlqState,
                 markedForAck, limits, processJobs, consumers, workers>>

ReleaseAllConcurrency(r) ==
  /\ call[r] = "release"
  /\ IF message[r] = Absent THEN UNCHANGED slots ELSE ReleaseSlots({r})
  /\ EndCall(r)
  /\ UNCHANGED <<now, message, indexes, workerQueue, ttlState, dlqState,
                 markedForAck, limits, processJobs, consumers, workers, phase,
                 repairing>>

\* The process that holds the run's lock dies; the lock expires.
CallerCrash(r) ==
  /\ call[r] \in CrashPoints
  /\ EndCall(r)
  /\ UNCHANGED <<now, message, indexes, slots, workerQueue, ttlState, dlqState,
                 markedForAck, limits, processJobs, consumers, workers, phase,
                 repairing>>

-----------------------------------------------------------------------------
(* Time to live *)

\* expireTtlRuns: the due members of the TTL set are acknowledged in the queue
\* and handed to the TTL worker, in one script.
ExpireTtlRuns ==
  LET due == {r \in Runs : ttlQueue[r] # Absent /\ ttlQueue[r] <= now} IN
  /\ due # {}
  /\ \E batch \in DueBatches(ttlQueue, due, TtlBatchSize) :
       /\ ttlQueue' = Zrem(ttlQueue, batch)
       /\ message' = [r \in Runs |-> IF r \in batch THEN Absent ELSE message[r]]
       /\ queue' = Zrem(queue, batch)
       /\ envQueue' = Zrem(envQueue, batch)
       /\ ReleaseSlots(batch)
       /\ ttlWorkerQueue' = ttlWorkerQueue \cup batch
       /\ ttlRebalance' = ttlRebalance \cup {QueueOf[r] : r \in batch}
  /\ UNCHANGED <<now, masterQueue, workerQueue, dlqState, markedForAck, limits,
                 processJobs, consumers, workers, engine>>

\* Mutated form: the queue is taken out of the master queue.
ForgetExpired ==
  /\ \E q \in ttlRebalance :
       /\ masterQueue' = [masterQueue EXCEPT ![q] = Absent]
       /\ ttlRebalance' = ttlRebalance \ {q}
  /\ UNCHANGED <<now, message, queue, envQueue, slots, workerQueue, ttlQueue,
                 ttlWorkerQueue, dlqState, markedForAck, limits, processJobs,
                 consumers, workers, engine>>

\* migrateLegacyMasterQueues, sent after the script returned.
RebalanceExpired ==
  /\ \E q \in ttlRebalance :
       /\ Rebalance(queue, q)
       /\ ttlRebalance' = ttlRebalance \ {q}
  /\ UNCHANGED <<now, message, queue, envQueue, slots, workerQueue, ttlQueue,
                 ttlWorkerQueue, dlqState, markedForAck, limits, processJobs,
                 consumers, workers, engine>>

TtlConsumerCrash ==
  /\ "ttlCrash" \in Faults
  /\ ttlRebalance # {} /\ ttlRebalance' = {}
  /\ UNCHANGED <<now, message, indexes, slots, workerQueue, ttlQueue,
                 ttlWorkerQueue, dlqState, markedForAck, limits, processJobs,
                 consumers, workers, engine>>

\* expireRunsBatch: no run lock and no ack; only runs that wait are expired.
ExpireRun(r) ==
  /\ r \in ttlWorkerQueue
  /\ ttlWorkerQueue' = ttlWorkerQueue \ {r}
  /\ IF phase[r] = "Queued" THEN SetPhase(r, "Finished")
     ELSE UNCHANGED <<phase, repairing>>
  /\ UNCHANGED <<now, message, indexes, slots, workerQueue, ttlQueue,
                 ttlRebalance, dlqState, markedForAck, limits, processJobs,
                 consumers, workers, call, payload>>

-----------------------------------------------------------------------------
(* Concurrency sweeper, repair, redrive *)

\* Mutated form: runs that have not finished are marked as well.
MarkAnyRunForAck(r) ==
  /\ r \in queueCurrentConcurrency /\ Unlocked(r)
  /\ markedForAck' = markedForAck \cup {r}
  /\ UNCHANGED <<now, message, indexes, slots, workerQueue, ttlState, dlqState,
                 limits, processJobs, consumers, workers, engine>>

\* Mutated form: only runs that were delivered are scanned.
MarkDeliveredRunForAck(r) ==
  /\ r \in queueCurrentDequeued
  /\ phase[r] = "Finished" /\ Unlocked(r)
  /\ markedForAck' = markedForAck \cup {r}
  /\ UNCHANGED <<now, message, indexes, slots, workerQueue, ttlState, dlqState,
                 limits, processJobs, consumers, workers, engine>>

\* scanConcurrencySets, processConcurrencySet, markRunsForAck.  A run counts as
\* completed ten minutes after it finished: its last caller is long gone.
MarkRunForAck(r) ==
  /\ r \in queueCurrentConcurrency
  /\ phase[r] = "Finished" /\ Unlocked(r)
  /\ markedForAck' = markedForAck \cup {r}
  /\ UNCHANGED <<now, message, indexes, slots, workerQueue, ttlState, dlqState,
                 limits, processJobs, consumers, workers, engine>>

\* processMarkedRuns and processMarkedRun: an ack without the run lock that
\* leaves the worker queue alone and starts no job.
ProcessMarkedRun(r) ==
  /\ r \in markedForAck
  /\ markedForAck' = markedForAck \ {r}
  /\ IF message[r] = Absent THEN NoMessageToAcknowledge ELSE Acknowledge(r, FALSE)
  /\ UNCHANGED <<now, ttlState, dlqState, limits, processJobs, consumers, workers,
                 engine>>

\* repairEnvironment: a job for every run that holds a slot and does not execute.
RepairEnvironment(r) ==
  /\ "repair" \in Faults
  /\ r \in envCurrentConcurrency
  /\ phase[r] \in {"Queued", "Suspended", "Finished"}
  /\ repairing' = repairing \cup {r}
  /\ UNCHANGED <<now, message, indexes, slots, workerQueue, ttlState, dlqState,
                 markedForAck, limits, processJobs, consumers, workers, phase,
                 call, payload>>

\* handleRepairSnapshot, when the snapshot is still the latest one: a queued
\* run is nacked, the slots of a run that cannot use them are cleared.
HandleRepairSnapshot(r) ==
  /\ r \in repairing /\ Unlocked(r)
  /\ repairing' = repairing \ {r}
  /\ IF phase[r] = "Queued" /\ message[r] # Absent
     THEN BeginCall(r, "nackOnly", message[r])
     ELSE UNCHANGED <<call, payload>>
  /\ IF phase[r] \in {"Suspended", "Finished"} THEN ReleaseSlots({r})
     ELSE UNCHANGED slots
  /\ UNCHANGED <<now, message, indexes, workerQueue, ttlState, dlqState,
                 markedForAck, limits, processJobs, consumers, workers, phase>>

\* handleRedriveMessage: enqueue the message again ...
RedriveMessage(r) ==
  /\ "redrive" \in Faults
  /\ r \in deadLetterQueue /\ r \notin redriving
  /\ message[r] # Absent
  /\ EnqueueSlow(r, [message[r] EXCEPT !.attempt = 0])
  /\ redriving' = redriving \cup {r}
  /\ UNCHANGED <<now, deadLetterQueue, markedForAck, limits, consumers, workers,
                 engine>>

\* ... and only then remove it from the dead letter queue.
FinishRedrive(r) ==
  /\ r \in redriving
  /\ redriving' = redriving \ {r}
  /\ deadLetterQueue' = deadLetterQueue \ {r}
  /\ UNCHANGED <<now, message, indexes, slots, workerQueue, ttlState,
                 markedForAck, limits, processJobs, consumers, workers, engine>>

-----------------------------------------------------------------------------
(* Limits and time *)

\* updateEnvConcurrencyLimits
SetEnvLimit ==
  /\ \E l \in EnvLimits : envLimit' = l
  /\ UNCHANGED <<now, message, indexes, slots, workerQueue, ttlState, dlqState,
                 markedForAck, queueLimit, processJobs, consumers, workers,
                 engine>>

\* updateQueueConcurrencyLimits, removeQueueConcurrencyLimits
SetQueueLimit ==
  /\ \E q \in Queues, l \in QueueLimits \cup {Absent} :
       queueLimit' = [queueLimit EXCEPT ![q] = l]
  /\ UNCHANGED <<now, message, indexes, slots, workerQueue, ttlState, dlqState,
                 markedForAck, envLimit, processJobs, consumers, workers, engine>>

Tick ==
  /\ now < MaxTime
  /\ now' = now + 1
  /\ UNCHANGED <<message, indexes, slots, workerQueue, ttlState, dlqState,
                 markedForAck, limits, processJobs, consumers, workers, engine>>

-----------------------------------------------------------------------------
(* Specification *)

NoScores == [r \in Runs |-> Absent]

Init ==
  /\ now = 0
  /\ message = [r \in Runs |-> Absent]
  /\ queue = NoScores /\ envQueue = NoScores
  /\ masterQueue = [q \in Queues |-> Absent]
  /\ queueCurrentConcurrency = {} /\ envCurrentConcurrency = {}
  /\ queueCurrentDequeued = {} /\ envCurrentDequeued = {}
  /\ workerQueue = [r \in Runs |-> 0]
  /\ ttlQueue = NoScores /\ ttlWorkerQueue = {} /\ ttlRebalance = {}
  /\ deadLetterQueue = {} /\ redriving = {} /\ markedForAck = {}
  /\ envLimit \in EnvLimits
  /\ queueLimit \in [Queues -> QueueLimits \cup {Absent}]
  /\ processJobs = {}
  /\ job = [c \in Consumers |-> Absent]
  /\ again = [c \in Consumers |-> FALSE]
  /\ held = [c \in Consumers |-> {}]
  /\ popped = [w \in Workers |-> Absent]
  /\ delivered = [w \in Workers |-> Absent]
  /\ nacking = [w \in Workers |-> Absent]
  /\ phase = [r \in Runs |-> "New"]
  /\ call = [r \in Runs |-> "none"]
  /\ payload = [r \in Runs |-> Absent]
  /\ repairing = {}

RunStep(r) ==
  \/ Trigger(r) \/ TriggerDelayed(r) \/ EnqueueCreated(r) \/ Resume(r)
  \/ EnqueueMessage(r) \/ Nack(r) \/ NackMessage(r) \/ SnapshotAfterNack(r)
  \/ CompleteRun(r) \/ CancelRun(r) \/ AcknowledgeMessage(r)
  \/ Suspend(r) \/ ReleaseAllConcurrency(r) \/ CallerCrash(r)
  \/ ExpireRun(r) \/ MarkRunForAck(r) \/ ProcessMarkedRun(r)
  \/ RepairEnvironment(r) \/ HandleRepairSnapshot(r)
  \/ RedriveMessage(r) \/ FinishRedrive(r)

ConsumerStep(c) ==
  \/ ProcessMasterQueue(c) \/ StartProcessJob(c) \/ ProcessQueueForWorkerQueue(c)
  \/ FinishProcessJob(c) \/ PushToWorkerQueue(c) \/ ConsumerCrash(c)

WorkerStep(w) ==
  \/ PopWorkerQueue(w) \/ DequeueMessageFromKey(w) \/ StartRun(w)
  \/ PendingVersion(w) \/ AckDuplicate(w) \/ RejectInvalid(w)
  \/ NackUndelivered(w) \/ WorkerMismatch(w) \/ WorkerCrash(w)
  \/ DirectNackRead(w) \/ DirectNackMessage(w)

SystemStep ==
  \/ ExpireTtlRuns \/ RebalanceExpired \/ TtlConsumerCrash
  \/ SetEnvLimit \/ SetQueueLimit \/ Tick

Next ==
  \/ \E r \in Runs : RunStep(r)
  \/ \E c \in Consumers : ConsumerStep(c)
  \/ \E w \in Workers : WorkerStep(w)
  \/ SystemStep

Spec == Init /\ [][Next]_vars

\* Handlers, loops and the clock go on; a run that executes again and again
\* completes once, a run that is delivered again and again starts once.
Delivers(r) == \E w \in Workers : delivered[w] = r /\ StartRun(w)

Fairness ==
  /\ \A r \in Runs :
       /\ WF_vars(EnqueueMessage(r)) /\ WF_vars(NackMessage(r))
       /\ WF_vars(SnapshotAfterNack(r)) /\ WF_vars(AcknowledgeMessage(r))
       /\ WF_vars(ReleaseAllConcurrency(r))
       /\ SF_vars(CompleteRun(r)) /\ SF_vars(Delivers(r))
       /\ WF_vars(ExpireRun(r))
       /\ SF_vars(MarkRunForAck(r)) /\ WF_vars(ProcessMarkedRun(r))
  /\ \A c \in Consumers :
       /\ WF_vars(ProcessMasterQueue(c)) /\ WF_vars(ProcessQueueForWorkerQueue(c))
       /\ WF_vars(FinishProcessJob(c)) /\ WF_vars(PushToWorkerQueue(c))
  /\ \A w \in Workers :
       /\ WF_vars(PopWorkerQueue(w)) /\ WF_vars(DequeueMessageFromKey(w))
       /\ WF_vars(RejectInvalid(w)) /\ WF_vars(DirectNackMessage(w))
  /\ WF_vars(ExpireTtlRuns) /\ WF_vars(RebalanceExpired) /\ WF_vars(Tick)

FairSpec == Spec /\ Fairness

-----------------------------------------------------------------------------
(* Properties *)

TypeOK ==
  /\ now \in Nat
  /\ message \in [Runs -> Message \cup {Absent}]
  /\ queue \in [Runs -> Scores] /\ envQueue \in [Runs -> Scores]
  /\ masterQueue \in [Queues -> Scores]
  /\ queueCurrentConcurrency \in SUBSET Runs
  /\ envCurrentConcurrency \in SUBSET Runs
  /\ queueCurrentDequeued \in SUBSET Runs
  /\ envCurrentDequeued \in SUBSET Runs
  /\ workerQueue \in [Runs -> Nat]
  /\ ttlQueue \in [Runs -> Scores]
  /\ ttlWorkerQueue \in SUBSET Runs /\ ttlRebalance \in SUBSET Queues
  /\ deadLetterQueue \in SUBSET Runs /\ redriving \in SUBSET Runs
  /\ markedForAck \in SUBSET Runs
  /\ envLimit \in Nat /\ queueLimit \in [Queues -> Scores]
  /\ processJobs \in SUBSET Queues
  /\ job \in [Consumers -> Queues \cup {Absent}]
  /\ again \in [Consumers -> BOOLEAN]
  /\ held \in [Consumers -> SUBSET Runs]
  /\ popped \in [Workers -> Runs \cup {Absent}]
  /\ delivered \in [Workers -> Runs \cup {Absent}]
  /\ nacking \in [Workers -> Message \cup {Absent}]
  /\ phase \in [Runs -> Phases]
  /\ call \in [Runs -> Calls]
  /\ payload \in [Runs -> Message \cup {Absent}]
  /\ repairing \in SUBSET Runs

\* The environment's indexes and counters agree with those of its queues,
\* whichever script ran last: both are written by every script, by hand.
EnvMirrorsQueues ==
  /\ envQueue = queue
  /\ envCurrentConcurrency = queueCurrentConcurrency
  /\ envCurrentDequeued = queueCurrentDequeued

\* A slot or a dequeued mark belongs to a run whose message exists.  Ack, nack
\* and release read the message first and return when it is gone, so a slot
\* without a message could not be given back by any of them.
SlotsHaveMessages ==
  \A r \in queueCurrentConcurrency \cup queueCurrentDequeued :
    message[r] # Absent

\* A message that waits in its queue is not charged against the limits.
QueuedNotCharged ==
  \A r \in Runs : queue[r] # Absent => r \notin queueCurrentConcurrency

\* A queue holds no entry without a message: the stale entries the dequeue
\* script clears away are never produced by the scripts of this module.
QueuedHasMessage ==
  \A r \in Runs : queue[r] # Absent => message[r] # Absent

\* A queue that holds messages is in the master queue, no later than its
\* earliest message, so the consumers cannot forget it.
MasterCoversQueues ==
  \A r \in Runs : queue[r] # Absent =>
    /\ masterQueue[QueueOf[r]] # Absent
    /\ masterQueue[QueueOf[r]] <= queue[r]

\* A run that was claimed for execution is not in the TTL set any more, so the
\* TTL consumer cannot delete the message of a run that executes.
ClaimedNotExpirable ==
  \A r \in queueCurrentConcurrency : ttlQueue[r] = Absent

Holders(r) == {c \in Consumers : r \in held[c]}
Poppers(r) == {w \in Workers : popped[w] = r}
Receivers(r) == {w \in Workers : delivered[w] = r}

Copies(r) ==
  Cardinality(Holders(r)) + workerQueue[r] + Cardinality(Poppers(r))
    + Cardinality(Receivers(r)) + (IF queue[r] # Absent THEN 1 ELSE 0)

\* A run has one place between the queue and the worker: it is never delivered
\* to two workers, nor queued while a worker may still receive it.
AtMostOneCopy == \A r \in Runs : Copies(r) <= 1

\* A run that executes holds a slot of its queue and environment, so the limits
\* bound the runs that really execute and not only the entries of a set.
ExecutingHoldsSlot ==
  \A r \in Runs :
    phase[r] = "Executing" /\ Unlocked(r) => r \in queueCurrentConcurrency

\* No more runs execute at once than the limits ever allow, those of the
\* environment and in each queue its own, however runs get their slots, on the
\* fast path or the slow one, and however often they are retried or resumed.
ExecutingRuns == {r \in Runs : phase[r] = "Executing" /\ Unlocked(r)}
OwnLimits == QueueLimits \cup {DefaultQueueLimit}
EnvNeverAbove(n) == \A l \in EnvLimits : (l * BurstNum) \div BurstDen <= n
QueuesNeverAbove(n) == \A l \in EnvLimits, own \in OwnLimits : own <= n \/ l <= n
FitLimits(S) ==
  /\ \A l \in EnvLimits :
       LET n == (l * BurstNum) \div BurstDen IN
       EnvNeverAbove(n) => Cardinality(S) <= n
  /\ \A n \in EnvLimits \cup OwnLimits, q \in Queues :
       QueuesNeverAbove(n) => Cardinality(InQueue(S, q)) <= n
ExecutingFitsLimits == FitLimits(ExecutingRuns)

\* Only a run that holds a slot is counted as dequeued.
DequeuedHoldsSlot == queueCurrentDequeued \subseteq queueCurrentConcurrency

\* A run that waits can be found: in its queue, by its slot (where repair looks
\* for it), or by the TTL system, even after consumers and workers crashed.  A
\* message with a TTL is left out: the dequeue script may drop it for good, see
\* ExpiredIsLeftToTtlConsumer.
QueuedRunIsTracked ==
  \A r \in Runs :
    phase[r] = "Queued" /\ Unlocked(r) /\ (message[r] = Absent \/ message[r].ttl = Absent) =>
      \/ queue[r] # Absent
      \/ r \in queueCurrentConcurrency
      \/ ttlQueue[r] # Absent
      \/ r \in ttlWorkerQueue

\* No step claims a slot beyond the limits in force when it runs, on the fast
\* path or on the slow one, whatever other consumers claim meanwhile.
ClaimsFitLimits ==
  [][/\ ~(envCurrentConcurrency' \subseteq envCurrentConcurrency) =>
           Cardinality(envCurrentConcurrency') <= EnvCapacity
     /\ \A q \in Queues :
          ~(InQueue(queueCurrentConcurrency', q)
              \subseteq InQueue(queueCurrentConcurrency, q)) =>
             Cardinality(InQueue(queueCurrentConcurrency', q)) <= QueueCapacity(q)
    ]_vars

\* What the proofs of the invariants above need: a run that is enqueued on the
\* fast path has no message and no worker yet, so it cannot be queued as well.
FreshRunsAreClean ==
  \A r \in Runs : phase[r] = "New" \/ call[r] = "enqueueFast" =>
    /\ message[r] = Absent
    /\ \A w \in Workers : delivered[w] # r

\* A call that writes a message has it in hand, a direct nack has its run.
CallersAreReady ==
  /\ \A r \in Runs :
       /\ call[r] \in {"enqueue", "enqueueFast", "nack", "nackOnly"} =>
            payload[r] # Absent
       /\ phase[r] = "New" => call[r] = "none"
  /\ \A w \in Workers : nacking[w] # Absent => delivered[w] # Absent

\* The inductive invariant.  TypeOK and EnvMirrorsQueues are inductive by
\* themselves; the other conjuncts need them and each other.
IInv ==
  /\ TypeOK /\ EnvMirrorsQueues
  /\ SlotsHaveMessages /\ QueuedHasMessage /\ QueuedNotCharged
  /\ MasterCoversQueues /\ FreshRunsAreClean /\ CallersAreReady

\* A run that claims a slot overtakes no message of its queue that is due: the
\* fast path is for a queue with nothing due, a batch is the earliest messages.
NoOvertaking ==
  [][\A r \in queueCurrentConcurrency' \ queueCurrentConcurrency :
       \A s \in DueIn(QueueOf[r]) :
         queue'[s] # Absent => queue[r] # Absent /\ queue[r] <= queue[s]]_vars

\* FINISHED is final, although the TTL worker finishes runs without their lock.
FinishedIsFinal ==
  [][\A r \in Runs : phase[r] = "Finished" => phase'[r] = "Finished"]_vars

\* "leaving messageKey and ttlQueueKey intact for the TTL consumer": a message
\* dropped from its queue because its TTL passed is still in the TTL set.
ExpiredIsLeftToTtlConsumer ==
  [][\A r \in Runs :
       /\ queue[r] # Absent /\ queue'[r] = Absent
       /\ message'[r] # Absent /\ r \notin queueCurrentConcurrency'
       /\ r \notin deadLetterQueue'
       => ttlQueue'[r] # Absent]_vars

\* A run that waits leaves the queue: it starts, expires, is cancelled, or fails.
QueuedRunLeaves == \A r \in Runs : phase[r] = "Queued" ~> phase[r] # "Queued"

\* A run that is finished for good gives its slot back for good, even when the
\* caller that had to acknowledge it died or a late nack wrote its message again:
\* the sweeper finds it.
FinishedReleasesSlot ==
  \A r \in Runs :
    <>[](phase[r] = "Finished") => <>[](r \notin queueCurrentConcurrency)

=============================================================================
