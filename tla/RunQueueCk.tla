----------------------------- MODULE RunQueueCk -----------------------------
(***************************************************************************)
(* The concurrency-key queues of the run queue                             *)
(* (internal-packages/run-engine/src/run-queue/index.ts).  The runs of one *)
(* base queue are spread over variants, one sorted set and one pair of     *)
(* concurrency sets per concurrency key.  The ckIndex of the base queue    *)
(* holds the variants that have messages, the master queue one wildcard    *)
(* entry for all of them, and two counters with an expiry of their own     *)
(* cache the number of queued and of dequeued runs over all variants.      *)
(*                                                                         *)
(* A Lua script is one step, with the snapshot and the reads of the        *)
(* handler that sends it: how those interleave, and crashes of consumers   *)
(* and workers, are the subject of RunQueue, and the same code.  Scores    *)
(* are relative to the clock: a score of 0 or less is due.                 *)
(***************************************************************************)
EXTENDS Integers, FiniteSets, FiniteSetsExt

CONSTANTS
  Runs, Variants, VariantOf,    \* run ids, variants, the variant of each run
  Absent,                       \* "no such key", "not a member"
  BatchSize,                    \* maxCount of one dequeue script
  ScanFactor,                   \* variants scanned per run wanted (3)
  TtlBatchSize,                 \* batchSize of one TTL expiry script
  MaxAttempts,                  \* retryOptions.maxAttempts
  EnvLimit, QueueLimit,         \* limits of the environment, of each variant
  BurstNum, BurstDen,           \* concurrencyLimitBurstFactor as a fraction
  RetryDelays, TtlDelays,       \* retry backoffs and time-to-lives that occur
  MaxAge,                       \* bound: older scores are not told apart
  FastPath,                     \* values enableFastPath takes
  MaxEntries, MaxCounter        \* bounds: worker queue entries, counters

ASSUME CkRunsAssumption ==
  /\ IsFiniteSet(Runs) /\ IsFiniteSet(Variants)
  /\ VariantOf \in [Runs -> Variants]
  /\ Absent \notin Runs \cup Int
  /\ Absent \notin [attempt : Nat, ttl : Int \cup {Absent}]

ASSUME CkBoundsAssumption ==
  /\ MaxAge \in Nat /\ MaxEntries \in Nat /\ MaxCounter \in Nat
  /\ {BatchSize, ScanFactor, TtlBatchSize, MaxAttempts} \subseteq Nat \ {0}
  /\ {EnvLimit, QueueLimit, BurstNum} \subseteq Nat /\ BurstDen \in Nat \ {0}
  /\ RetryDelays \subseteq Nat /\ TtlDelays \subseteq Nat
  /\ FastPath \subseteq BOOLEAN

-----------------------------------------------------------------------------
(* State *)

VARIABLES
  message,                  \* messageKey: the payload of a run, or Absent
  queue,                    \* score of a run in the sorted set of its variant
  envQueue,                 \* score of a run in the environment's sorted set
  ckIndex,                  \* score of a variant in the index of the base queue
  masterQueue,              \* score of the wildcard entry in the master queue
  queueCurrentConcurrency,  \* union of the variants' currentConcurrency sets
  envCurrentConcurrency,
  queueCurrentDequeued,     \* union of the variants' currentDequeued sets
  envCurrentDequeued,
  lengthCounter,            \* cached number of queued runs, or Absent
  runningCounter,           \* cached number of dequeued runs, or Absent
  workerQueue,              \* number of entries of a run in the worker queue
  ttlQueue,                 \* score of a run in the TTL sorted set
  deadLetterQueue,
  delivered,                \* runs a worker received and has still to handle
  phase                     \* projection of the latest execution snapshot

indexes  == <<queue, envQueue, ckIndex, masterQueue>>
slots    == <<queueCurrentConcurrency, envCurrentConcurrency,
              queueCurrentDequeued, envCurrentDequeued>>
counters == <<lengthCounter, runningCounter>>

vars == <<message, indexes, slots, counters, workerQueue, ttlQueue,
          deadLetterQueue, delivered, phase>>

Scores == {s \in Int : s >= -MaxAge} \cup {Absent}

Message == [attempt : 0..(MaxAttempts - 1), ttl : Scores]

Phases == {"New", "Queued", "Executing", "Suspended", "Finished"}

-----------------------------------------------------------------------------
(* Sorted sets *)

RunsOf(v) == {r \in Runs : VariantOf[r] = v}

Waiting == {r \in Runs : queue[r] # Absent}

Indexed == {v \in Variants : ckIndex[v] # Absent}

Zrem(zset, S) == [r \in Runs |-> IF r \in S THEN Absent ELSE zset[r]]

\* ZRANGE 0 0 WITHSCORES of the members in D.
Earliest(zset, D) ==
  LET members == {x \in D : zset[x] # Absent} IN
  IF members = {} THEN Absent ELSE Min({zset[x] : x \in members})

\* ZRANGEBYSCORE -inf now LIMIT 0 n.  Ties are arbitrary here.
FirstOf(zset, due, n) ==
  {S \in SUBSET due :
     /\ Cardinality(S) = IF n < Cardinality(due) THEN n ELSE Cardinality(due)
     /\ \A x \in S, y \in due \ S : zset[x] <= zset[y]}

DueIn(v) == {r \in RunsOf(v) : queue[r] # Absent /\ queue[r] <= 0}

\* Mutated form: a variant that is in the index keeps the score it has there.
IndexKept(zset, variants) ==
  [v \in Variants |-> IF v \in variants /\ ckIndex[v] = Absent
                      THEN Earliest(zset, RunsOf(v)) ELSE ckIndex[v]]

\* The index once these variants were rebalanced to hold zset.
IndexOf(zset, variants) ==
  [v \in Variants |-> IF v \in variants THEN Earliest(zset, RunsOf(v)) ELSE ckIndex[v]]

\* Mutated form: a variant that is empty takes the wildcard along.
RebalanceAlone(zset, variants) ==
  /\ ckIndex' = IndexOf(zset, variants)
  /\ masterQueue' = IF \E v \in variants : Earliest(zset, RunsOf(v)) = Absent
                    THEN Absent ELSE Earliest(IndexOf(zset, variants), Variants)

\* Rebalance the index, and the wildcard entry after it.
Rebalance(zset, variants) ==
  /\ ckIndex' = IndexOf(zset, variants)
  /\ masterQueue' = Earliest(IndexOf(zset, variants), Variants)

AddToQueue(r, score) ==
  /\ queue' = [queue EXCEPT ![r] = score]
  /\ envQueue' = [envQueue EXCEPT ![r] = score]
  /\ Rebalance([queue EXCEPT ![r] = score], {VariantOf[r]})

RemoveFromQueue(r) ==
  /\ queue' = Zrem(queue, {r})
  /\ envQueue' = Zrem(envQueue, {r})
  /\ Rebalance(Zrem(queue, {r}), {VariantOf[r]})

-----------------------------------------------------------------------------
(* Slots *)

EnvAvailable ==
  ((EnvLimit * BurstNum) \div BurstDen) - Cardinality(envCurrentConcurrency)

VariantCapacity == IF QueueLimit < EnvLimit THEN QueueLimit ELSE EnvLimit

\* Mutated form: counts the runs that were delivered, not those that claimed.
VariantAvailableToDeliver(v) ==
  VariantCapacity - Cardinality(queueCurrentDequeued \cap RunsOf(v))

VariantAvailable(v) ==
  VariantCapacity - Cardinality(queueCurrentConcurrency \cap RunsOf(v))

ClaimSlots(S) ==
  /\ queueCurrentConcurrency' = queueCurrentConcurrency \cup S
  /\ envCurrentConcurrency' = envCurrentConcurrency \cup S
  /\ UNCHANGED <<queueCurrentDequeued, envCurrentDequeued>>

ReleaseSlots(S) ==
  /\ queueCurrentConcurrency' = queueCurrentConcurrency \ S
  /\ envCurrentConcurrency' = envCurrentConcurrency \ S
  /\ queueCurrentDequeued' = queueCurrentDequeued \ S
  /\ envCurrentDequeued' = envCurrentDequeued \ S

-----------------------------------------------------------------------------
(* The counters *)

\* decrFloored, k times.
Floored(counter, k) ==
  IF counter = Absent THEN Absent ELSE IF counter < k THEN 0 ELSE counter - k

\* Mutated form: only the variants that are due are summed.
LengthSeedDue ==
  Cardinality({r \in Waiting : ckIndex[VariantOf[r]] # Absent
                               /\ ckIndex[VariantOf[r]] <= 0})

\* The lazy init: ZCARD over the variants in the index, before the ZADD.
LengthSeed == Cardinality({r \in Waiting : VariantOf[r] \in Indexed})

\* INCR when the ZADD added a member.
CountAdded(r) ==
  /\ lengthCounter' =
       (IF lengthCounter = Absent THEN LengthSeed ELSE lengthCounter)
         + (IF queue[r] = Absent THEN 1 ELSE 0)
  /\ lengthCounter' <= MaxCounter

\* DECR for every ZREM that removed a member.
CountRemoved(S) ==
  lengthCounter' = Floored(lengthCounter, Cardinality(S \cap Waiting))

\* DECR for every SREM of currentDequeued that removed a member.
CountReleased(S) ==
  runningCounter' = Floored(runningCounter, Cardinality(S \cap queueCurrentDequeued))

\* releaseConcurrencyTracked initialises a missing counter first, from the
\* variants in the index.
CountReleasedSeeding(r) ==
  LET seed == Cardinality({s \in queueCurrentDequeued : VariantOf[s] \in Indexed})
  IN  runningCounter' = Floored(IF runningCounter = Absent THEN seed ELSE runningCounter,
                                Cardinality({r} \cap queueCurrentDequeued))

\* r and the dequeued runs of its variant and of the variants in the index.
SeenDequeued(r) ==
  {s \in queueCurrentDequeued \cup {r} :
     VariantOf[s] \in Indexed \/ VariantOf[s] = VariantOf[r]}

\* Mutated form: the seed counts r and the INCR counts it again.
CountDequeuedTwice(r) ==
  IF r \in queueCurrentDequeued THEN UNCHANGED runningCounter
  ELSE /\ runningCounter' = 1 + IF runningCounter = Absent
                                THEN Cardinality(SeenDequeued(r)) ELSE runningCounter
       /\ runningCounter' <= MaxCounter

\* dequeueMessageFromKeyTracked: after the SADD of r, the seed is taken from
\* SeenDequeued less r, and the INCR adds r again.
CountDequeued(r) ==
  IF r \in queueCurrentDequeued THEN UNCHANGED runningCounter
  ELSE /\ runningCounter' = IF runningCounter = Absent
                            THEN Cardinality(SeenDequeued(r)) ELSE runningCounter + 1
       /\ runningCounter' <= MaxCounter

-----------------------------------------------------------------------------
(* The scripts *)

\* enqueueMessageCkTracked and enqueueMessageWithTtlCkTracked, slow path.  The
\* SREM of currentDequeued is not counted.
EnqueueSlow(r, msg) ==
  /\ message' = [message EXCEPT ![r] = msg]
  /\ CountAdded(r)
  /\ \E score \in -MaxAge..0 : AddToQueue(r, score)
  /\ ttlQueue' = IF msg.ttl = Absent THEN ttlQueue
                 ELSE [ttlQueue EXCEPT ![r] = msg.ttl]
  /\ ReleaseSlots({r})
  /\ UNCHANGED <<runningCounter, workerQueue>>

PushEntries(S) ==
  /\ \A r \in S : workerQueue[r] < MaxEntries
  /\ workerQueue' = [r \in Runs |-> workerQueue[r] + (IF r \in S THEN 1 ELSE 0)]

FastPathOpen(v) ==
  DueIn(v) = {} /\ EnvAvailable > 0 /\ VariantAvailable(v) > 0

\* The fast path: straight to the worker queue, no index, no length counter.
EnqueueFast(r, msg) ==
  /\ message' = [message EXCEPT ![r] = msg]
  /\ ClaimSlots({r})
  /\ PushEntries({r})
  /\ UNCHANGED <<indexes, counters, ttlQueue>>

\* nackMessageCkTracked
Requeue(r) ==
  /\ message' = [message EXCEPT ![r].attempt = @ + 1]
  /\ CountReleased({r}) /\ CountAdded(r)
  /\ \E score \in {0} \cup RetryDelays : AddToQueue(r, score)
  /\ ReleaseSlots({r})

\* moveToDeadLetterQueueCkTracked
MoveToDeadLetterQueue(r) ==
  /\ deadLetterQueue' = deadLetterQueue \cup {r}
  /\ CountReleased({r}) /\ CountRemoved({r})
  /\ RemoveFromQueue(r)
  /\ ReleaseSlots({r})

\* acknowledgeMessageCkTracked, for a message that exists.
Acknowledge(r, removeFromWorkerQueue) ==
  /\ message[r] # Absent
  /\ message' = [message EXCEPT ![r] = Absent]
  /\ CountReleased({r}) /\ CountRemoved({r})
  /\ RemoveFromQueue(r)
  /\ ReleaseSlots({r})
  /\ workerQueue' = IF removeFromWorkerQueue THEN [workerQueue EXCEPT ![r] = 0]
                    ELSE workerQueue

\* acknowledgeMessage reads the message first and returns without one.
AcknowledgeMessage(r, removeFromWorkerQueue) ==
  \/ Acknowledge(r, removeFromWorkerQueue)
  \/ /\ message[r] = Absent
     /\ UNCHANGED <<message, indexes, slots, counters, workerQueue>>

SetPhase(r, p) == phase' = [phase EXCEPT ![r] = p]

-----------------------------------------------------------------------------
(* The handlers *)

\* engine.trigger: the run is QUEUED and enqueued, maybe on the fast path.
Trigger(r) ==
  /\ phase[r] = "New"
  /\ SetPhase(r, "Queued")
  /\ \E ttl \in {Absent} \cup TtlDelays, fast \in FastPath :
       IF fast /\ FastPathOpen(VariantOf[r])
       THEN EnqueueFast(r, [attempt |-> 0, ttl |-> ttl])
       ELSE EnqueueSlow(r, [attempt |-> 0, ttl |-> ttl])
  /\ UNCHANGED <<deadLetterQueue, delivered>>

\* continueRunIfUnblocked: a suspended run is enqueued again, without a TTL.
Resume(r) ==
  /\ phase[r] = "Suspended"
  /\ SetPhase(r, "Queued")
  /\ EnqueueSlow(r, [attempt |-> 0, ttl |-> Absent])
  /\ UNCHANGED <<deadLetterQueue, delivered>>

\* handleRedriveMessage, for a message that exists.
RedriveMessage(r) ==
  /\ r \in deadLetterQueue /\ message[r] # Absent
  /\ EnqueueSlow(r, [message[r] EXCEPT !.attempt = 0])
  /\ deadLetterQueue' = deadLetterQueue \ {r}
  /\ UNCHANGED <<delivered, phase>>

\* The earliest due message of each of these variants; ties are arbitrary.
HeadChoices(variants) ==
  {H \in SUBSET UNION {DueIn(v) : v \in variants} :
     \A v \in variants :
       \/ DueIn(v) = {}
       \/ \E h \in DueIn(v) : /\ H \cap RunsOf(v) = {h}
                              /\ \A r \in DueIn(v) : queue[h] <= queue[r]}

\* The loop over the scanned variants ends with the scan or with the claim that
\* completes the batch: "visited" are the variants it came to.
LoopEnds(scan, visited, claimed, n) ==
  \/ visited = scan /\ Cardinality(claimed) < n
  \/ /\ Cardinality(claimed) = n
     /\ \E r \in claimed : \A v \in visited : ckIndex[v] <= ckIndex[VariantOf[r]]

\* The runs of S that get a slot: not the stale entries, nor those past their
\* TTL, which are left to the TTL consumer.
Claimable(S) ==
  {r \in S : message[r] # Absent /\ (message[r].ttl # Absent => message[r].ttl > 0)}

\* What the loop does to the heads "taken" of the variants with a free slot, and
\* the RPUSHes that follow.
Take(open, taken) ==
  /\ queue' = Zrem(queue, taken)
  /\ envQueue' = Zrem(envQueue, taken)
  /\ Rebalance(Zrem(queue, taken), open)
  /\ CountRemoved(taken)
  /\ ClaimSlots(Claimable(taken))
  /\ ttlQueue' = Zrem(ttlQueue, {r \in Claimable(taken) : message[r].ttl # Absent})
  /\ PushEntries(Claimable(taken))
  /\ UNCHANGED <<message, runningCounter, deadLetterQueue, delivered, phase>>

\* dequeueMessagesFromCkQueueTracked.  A scan that finds nothing rebalances the
\* wildcard.
DequeueMessages ==
  LET n   == Min({BatchSize, EnvAvailable})
      due == {v \in Indexed : ckIndex[v] <= 0}
  IN
  /\ n > 0
  /\ \E scan \in FirstOf(ckIndex, due, n * ScanFactor) :
     \E visited \in UNION {FirstOf(ckIndex, scan, k) : k \in 0..Cardinality(scan)} :
     LET open == {v \in visited : VariantAvailable(v) > 0} IN
     \E taken \in HeadChoices(open) :
       /\ LoopEnds(scan, visited, Claimable(taken), n)
       /\ Take(open, taken)

\* The pop of a worker queue and dequeueMessageFromKeyTracked: nothing is
\* delivered when the message is gone.
DequeueMessageFromWorkerQueue(r) ==
  /\ workerQueue[r] > 0
  /\ workerQueue' = [workerQueue EXCEPT ![r] = @ - 1]
  /\ IF message[r] = Absent
     THEN UNCHANGED <<delivered, slots, runningCounter>>
     ELSE /\ delivered' = delivered \cup {r}
          /\ queueCurrentDequeued' = queueCurrentDequeued \cup {r}
          /\ envCurrentDequeued' = envCurrentDequeued \cup {r}
          /\ CountDequeued(r)
          /\ UNCHANGED <<queueCurrentConcurrency, envCurrentConcurrency>>
  /\ UNCHANGED <<message, indexes, lengthCounter, ttlQueue, deadLetterQueue, phase>>

\* dequeueFromWorkerQueue, the run is queued: it starts executing.
StartRun(r) ==
  /\ r \in delivered /\ phase[r] = "Queued"
  /\ delivered' = delivered \ {r}
  /\ SetPhase(r, "Executing")
  /\ UNCHANGED <<message, indexes, slots, counters, workerQueue, ttlQueue,
                 deadLetterQueue>>

\* systemFailure: the run fails and its message is acknowledged, unless it has
\* finished already.
SystemFailure(r) ==
  IF phase[r] = "Finished"
  THEN UNCHANGED <<message, indexes, slots, counters, workerQueue, phase>>
  ELSE SetPhase(r, "Finished") /\ AcknowledgeMessage(r, TRUE)

\* dequeueFromWorkerQueue, any other state: a duplicate is acknowledged, or the
\* run fails.
RejectDelivery(r) ==
  /\ r \in delivered /\ phase[r] # "Queued"
  /\ delivered' = delivered \ {r}
  /\ \/ phase[r] = "Executing" /\ AcknowledgeMessage(r, FALSE) /\ UNCHANGED phase
     \/ SystemFailure(r)
  /\ UNCHANGED <<ttlQueue, deadLetterQueue>>

\* Mutated form: the last attempt is counted once more.
AttemptsLeftInclusive(r) == message[r].attempt + 1 <= MaxAttempts

AttemptsLeft(r) == message[r].attempt + 1 < MaxAttempts

\* tryNackAndRequeue: requeued, or dead-lettered and failed (the ack of the
\* failed run finds its message and nothing else to remove).
TryNackAndRequeue(r) ==
  \/ /\ message[r] = Absent
     /\ SystemFailure(r)
     /\ UNCHANGED deadLetterQueue
  \/ /\ message[r] # Absent /\ AttemptsLeft(r)
     /\ Requeue(r)
     /\ SetPhase(r, "Queued")
     /\ UNCHANGED <<workerQueue, deadLetterQueue>>
  \/ /\ message[r] # Absent /\ ~AttemptsLeft(r)
     /\ MoveToDeadLetterQueue(r)
     /\ IF phase[r] = "Finished" THEN UNCHANGED <<message, workerQueue>>
        ELSE /\ message' = [message EXCEPT ![r] = Absent]
             /\ workerQueue' = [workerQueue EXCEPT ![r] = 0]
     /\ SetPhase(r, "Finished")

\* A run that executes goes back to the queue: a retry, a missed heartbeat.
Nack(r) ==
  /\ phase[r] = "Executing"
  /\ TryNackAndRequeue(r)
  /\ UNCHANGED <<ttlQueue, delivered>>

\* An error while a delivered run is prepared.
NackUndelivered(r) ==
  /\ r \in delivered
  /\ delivered' = delivered \ {r}
  /\ TryNackAndRequeue(r)
  /\ UNCHANGED ttlQueue

\* nackMessage by a caller that looks at nothing but the message.
NackOnly(r) ==
  \/ /\ message[r] = Absent
     /\ UNCHANGED <<message, indexes, slots, counters, deadLetterQueue>>
  \/ message[r] # Absent /\ AttemptsLeft(r) /\ Requeue(r) /\ UNCHANGED deadLetterQueue
  \/ message[r] # Absent /\ ~AttemptsLeft(r) /\ MoveToDeadLetterQueue(r)
     /\ UNCHANGED message

\* BACKGROUND_WORKER_MISMATCH: a nack whose outcome nobody looks at.
WorkerMismatch(r) ==
  /\ r \in delivered /\ phase[r] = "Queued"
  /\ delivered' = delivered \ {r}
  /\ NackOnly(r)
  /\ UNCHANGED <<workerQueue, ttlQueue, phase>>

\* runAttemptSucceeded, permanentlyFailRun.
CompleteRun(r) ==
  /\ phase[r] = "Executing"
  /\ SetPhase(r, "Finished")
  /\ \E remove \in BOOLEAN : AcknowledgeMessage(r, remove)
  /\ UNCHANGED <<ttlQueue, deadLetterQueue, delivered>>

\* cancelRun
CancelRun(r) ==
  /\ phase[r] \in {"Queued", "Executing", "Suspended"}
  /\ SetPhase(r, "Finished")
  /\ AcknowledgeMessage(r, TRUE)
  /\ UNCHANGED <<ttlQueue, deadLetterQueue, delivered>>

\* createCheckpoint: SUSPENDED, then releaseAllConcurrency.
Suspend(r) ==
  /\ phase[r] = "Executing"
  /\ SetPhase(r, "Suspended")
  /\ IF message[r] = Absent THEN UNCHANGED <<slots, runningCounter>>
     ELSE /\ CountReleasedSeeding(r)
          /\ ReleaseSlots({r})
  /\ UNCHANGED <<message, indexes, lengthCounter, workerQueue, ttlQueue,
                 deadLetterQueue, delivered>>

\* The process dies between the FINISHED snapshot and the ack.
CrashBeforeAck(r) ==
  /\ phase[r] = "Executing"
  /\ SetPhase(r, "Finished")
  /\ UNCHANGED <<message, indexes, slots, counters, workerQueue, ttlQueue,
                 deadLetterQueue, delivered>>

\* expireTtlRunsTracked, and expireRunsBatch of the TTL worker.  The wildcard is
\* not rebalanced, neither in the script nor after it.
ExpireTtlRuns ==
  LET due == {r \in Runs : ttlQueue[r] # Absent /\ ttlQueue[r] <= 0} IN
  /\ due # {}
  /\ \E batch \in FirstOf(ttlQueue, due, TtlBatchSize) :
       /\ ttlQueue' = Zrem(ttlQueue, batch)
       /\ message' = [r \in Runs |-> IF r \in batch THEN Absent ELSE message[r]]
       /\ queue' = Zrem(queue, batch)
       /\ envQueue' = Zrem(envQueue, batch)
       /\ ckIndex' = IndexOf(Zrem(queue, batch), {VariantOf[r] : r \in batch})
       /\ CountReleased(batch) /\ CountRemoved(batch)
       /\ ReleaseSlots(batch)
       /\ phase' = [r \in Runs |-> IF r \in batch /\ phase[r] = "Queued"
                                   THEN "Finished" ELSE phase[r]]
  /\ UNCHANGED <<masterQueue, workerQueue, deadLetterQueue, delivered>>

\* Mutated form: the sweeper does not look whether the run has finished.
SweepRun(r) ==
  /\ r \in queueCurrentConcurrency
  /\ AcknowledgeMessage(r, FALSE)
  /\ UNCHANGED <<ttlQueue, deadLetterQueue, delivered, phase>>

\* The concurrency sweeper: an ack of a run that finished long ago and still
\* holds a slot of its variant.
SweepFinishedRun(r) ==
  /\ r \in queueCurrentConcurrency /\ phase[r] = "Finished"
  /\ AcknowledgeMessage(r, FALSE)
  /\ UNCHANGED <<ttlQueue, deadLetterQueue, delivered, phase>>

\* The EX of the lazy init: a counter disappears a day after it was written.
ExpireCounter ==
  /\ \/ lengthCounter' = Absent /\ UNCHANGED runningCounter
     \/ runningCounter' = Absent /\ UNCHANGED lengthCounter
  /\ UNCHANGED <<message, indexes, slots, workerQueue, ttlQueue, deadLetterQueue,
                 delivered, phase>>

Aged(score) == IF score = Absent \/ score <= -MaxAge THEN score ELSE score - 1

Tick ==
  /\ message' = [r \in Runs |-> IF message[r] = Absent THEN Absent
                                ELSE [message[r] EXCEPT !.ttl = Aged(@)]]
  /\ queue' = [r \in Runs |-> Aged(queue[r])]
  /\ envQueue' = [r \in Runs |-> Aged(envQueue[r])]
  /\ ckIndex' = [v \in Variants |-> Aged(ckIndex[v])]
  /\ masterQueue' = Aged(masterQueue)
  /\ ttlQueue' = [r \in Runs |-> Aged(ttlQueue[r])]
  /\ UNCHANGED <<slots, counters, workerQueue, deadLetterQueue, delivered, phase>>

-----------------------------------------------------------------------------
(* Specification *)

Init ==
  /\ message = [r \in Runs |-> Absent]
  /\ queue = [r \in Runs |-> Absent] /\ envQueue = [r \in Runs |-> Absent]
  /\ ckIndex = [v \in Variants |-> Absent] /\ masterQueue = Absent
  /\ queueCurrentConcurrency = {} /\ envCurrentConcurrency = {}
  /\ queueCurrentDequeued = {} /\ envCurrentDequeued = {}
  /\ lengthCounter = Absent /\ runningCounter = Absent
  /\ workerQueue = [r \in Runs |-> 0]
  /\ ttlQueue = [r \in Runs |-> Absent]
  /\ deadLetterQueue = {} /\ delivered = {}
  /\ phase = [r \in Runs |-> "New"]

RunStep(r) ==
  \/ Trigger(r) \/ Resume(r) \/ RedriveMessage(r)
  \/ DequeueMessageFromWorkerQueue(r) \/ StartRun(r) \/ RejectDelivery(r)
  \/ Nack(r) \/ NackUndelivered(r) \/ WorkerMismatch(r)
  \/ CompleteRun(r) \/ CancelRun(r) \/ Suspend(r)
  \/ CrashBeforeAck(r) \/ SweepFinishedRun(r)

Next ==
  \/ \E r \in Runs : RunStep(r)
  \/ DequeueMessages \/ ExpireTtlRuns \/ ExpireCounter \/ Tick

Spec == Init /\ [][Next]_vars

-----------------------------------------------------------------------------
(* Properties *)

TypeOK ==
  /\ message \in [Runs -> Message \cup {Absent}]
  /\ queue \in [Runs -> Scores] /\ envQueue \in [Runs -> Scores]
  /\ ckIndex \in [Variants -> Scores] /\ masterQueue \in Scores
  /\ queueCurrentConcurrency \in SUBSET Runs
  /\ envCurrentConcurrency \in SUBSET Runs
  /\ queueCurrentDequeued \in SUBSET Runs
  /\ envCurrentDequeued \in SUBSET Runs
  /\ lengthCounter \in Nat \cup {Absent}
  /\ runningCounter \in Nat \cup {Absent}
  /\ workerQueue \in [Runs -> Nat]
  /\ ttlQueue \in [Runs -> Scores]
  /\ deadLetterQueue \in SUBSET Runs /\ delivered \in SUBSET Runs
  /\ phase \in [Runs -> Phases]

\* The index of the base queue holds exactly the variants that have messages,
\* each with the score of its earliest one: the dequeue script looks nowhere
\* else, and both counters are initialised from it.
IndexIsExact == \A v \in Variants : ckIndex[v] = Earliest(queue, RunsOf(v))

\* A message that waits is covered by the wildcard entry, no later than its own
\* score, although TTL expiry changes the index and leaves the wildcard alone.
MasterCoversIndex ==
  \A r \in Waiting : masterQueue # Absent /\ masterQueue <= queue[r]

\* While it exists, the length counter is the number of runs that wait, over
\* all the variants, whatever was enqueued twice and whenever it expired.
LengthCounterExact ==
  lengthCounter # Absent => lengthCounter = Cardinality(Waiting)

\* The running counter may miss runs (its seed sees only indexed variants), but
\* it never counts a run that is not dequeued.
RunningNotOvercounted ==
  runningCounter # Absent => runningCounter <= Cardinality(queueCurrentDequeued)

\* The sets of the environment agree with those of the variants: every script
\* writes both, by hand.
EnvMirrorsVariants ==
  /\ envQueue = queue
  /\ envCurrentConcurrency = queueCurrentConcurrency
  /\ envCurrentDequeued = queueCurrentDequeued

\* Never more runs of one concurrency key execute than its limit, nor of all keys
\* together than the environment's, whichever path gave them their slots and
\* however often they are retried, resumed or swept.
ExecutingRuns == {r \in Runs : phase[r] = "Executing"}
ExecutingFitsLimits ==
  /\ Cardinality(ExecutingRuns) <= (EnvLimit * BurstNum) \div BurstDen
  /\ \A v \in Variants : Cardinality(ExecutingRuns \cap RunsOf(v)) <= VariantCapacity

\* What the run queue promises the run engine, each variant as a queue.
Slots == INSTANCE SlotQueue WITH
  Queues <- Variants, QueueOf <- VariantOf,
  EnvLimits <- {EnvLimit}, QueueLimits <- {QueueLimit},
  DefaultQueueLimit <- QueueLimit,
  waiting <- Waiting, running <- envCurrentConcurrency,
  envLimit <- EnvLimit, queueLimit <- [v \in Variants |-> QueueLimit]

\* The scripts of the variants implement the promise, and a run gets a slot
\* within the limits of its variant and of the environment only.
ImplementsSlotQueue == Slots!Spec

=============================================================================
