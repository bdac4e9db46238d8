------------------------------ MODULE JobQueue ------------------------------
(***************************************************************************)
(* The job queue of packages/redis-worker (src/queue.ts, SimpleQueue) and  *)
(* the processes that work on it (src/worker.ts, Worker).  The engine uses *)
(* it for everything it must not forget: heartbeats, delayed runs, expiry, *)
(* repair, the jobs of the run queue.                                      *)
(*                                                                         *)
(* A job is known by an id.  Its item is in a hash, the time it becomes    *)
(* due is its score in a sorted set.  A dequeue leaves the item where it   *)
(* is and moves its score behind the visibility timeout; whoever finishes  *)
(* the job removes it.  Each enqueue gives the item a new deduplicationKey *)
(* so that an ack can tell the item it worked on from a newer one.         *)
(*                                                                         *)
(* Each Lua script is one step; what a process does between two scripts is *)
(* open to every other step.  Scores are kept relative to the clock.       *)
(***************************************************************************)
EXTENDS Integers, FiniteSets, FiniteSetsExt

CONSTANTS
  Ids,                     \* job ids
  Processes,               \* processes that run a Worker
  Handlers, ProcessOf,     \* slots of their limiters, the process of each
  Absent,                  \* "no such field", "not a member", no task
  Keys,                    \* deduplication keys
  DequeueCount,            \* items one dequeue asks for at most
  VisibilityTimeout, MaxAttempts, RetryDelays,
  Delays,                  \* availableAt - now, as producers choose it
  MaxJobs,                 \* bound: jobs the producers issue
  MaxAge,                  \* bound: a score further in the past is not told apart
  Events                   \* what producers, operators and failures do

EventKinds ==
  {"enqueueOnce", "overlap", "reschedule", "remove", "redrive", "throw",
   "crash", "slow", "lostDelivery", "redisError"}

ASSUME JobsAssumption ==
  /\ ProcessOf \in [Handlers -> Processes]
  /\ IsFiniteSet(Handlers) /\ IsFiniteSet(Ids)
  /\ Events \subseteq EventKinds

ASSUME JobBoundsAssumption ==
  /\ DequeueCount \in Nat \ {0} /\ MaxAttempts \in Nat \ {0}
  /\ VisibilityTimeout \in Nat /\ MaxAge \in Nat /\ MaxJobs \in Nat
  /\ RetryDelays \subseteq Nat /\ Delays \subseteq Int

-----------------------------------------------------------------------------
(* State *)

VARIABLES
  queue,       \* sorted set: score of an id minus now
  items,       \* hash: item of an id
  deadLetters, \* dlq and dlq:items, which hold the same ids
  task,        \* what a handler slot works on
  jobs,        \* number of jobs issued so far
  latest,      \* history: the last job issued for an id that was not removed
  handled      \* history: jobs a handler has completed

producer == <<jobs, latest>>
vars == <<queue, items, deadLetters, producer, task, handled>>

Item == [work : 1..MaxJobs, key : Keys, attempt : 0..(MaxAttempts - 1)]

\* until: what is left of the visibility timeout of this delivery.
Task == [id : Ids, item : Item, until : 0..VisibilityTimeout,
         step : {"running", "returned", "threw"}]

ASSUME AbsentAssumption ==
  Absent \notin Int /\ Absent \notin Ids /\ Absent \notin Item /\ Absent \notin Task

InUse(key) ==
  \/ \E id \in Ids : items[id] # Absent /\ items[id].key = key
  \/ \E id \in Ids : deadLetters[id] # Absent /\ deadLetters[id].key = key
  \/ \E h \in Handlers : task[h] # Absent /\ task[h].item.key = key

\* nanoid(): a key nobody has; which one makes no difference.
HasFreshKey == \E key \in Keys : ~InUse(key)
FreshKey == CHOOSE key \in Keys : ~InUse(key)

InFlight(id) == \E h \in Handlers : task[h] # Absent /\ task[h].id = id
Zadd(id, score) == queue' = [queue EXCEPT ![id] = score]

Remove(id) ==
  /\ queue' = [queue EXCEPT ![id] = Absent]
  /\ items' = [items EXCEPT ![id] = Absent]

-----------------------------------------------------------------------------
(* Producers and operators *)

\* ZADD and HSET: an item with the same id is replaced.
EnqueueItem(id, item, score) ==
  /\ Zadd(id, score)
  /\ items' = [items EXCEPT ![id] = item]

NewItem == [work |-> jobs + 1, key |-> FreshKey, attempt |-> 0]

Issue(id, scores) ==
  /\ jobs < MaxJobs /\ HasFreshKey
  /\ jobs' = jobs + 1
  /\ latest' = [latest EXCEPT ![id] = jobs + 1]
  /\ \E score \in scores : EnqueueItem(id, NewItem, score)
  /\ UNCHANGED <<deadLetters, task, handled>>

\* worker.enqueue.  Unless jobs "overlap", a producer uses an id again only
\* when its last job is over.
Enqueue(id) ==
  /\ \/ "overlap" \in Events
     \/ items[id] = Absent /\ deadLetters[id] = Absent /\ ~InFlight(id)
  /\ Issue(id, Delays)

\* worker.enqueueOnce: HSETNX, then ZADD NX.  An id that is known, due, waiting
\* or in flight, keeps its item and its score.
EnqueueOnce(id) ==
  /\ "enqueueOnce" \in Events
  /\ items[id] = Absent
  /\ Issue(id, IF queue[id] = Absent THEN Delays ELSE {queue[id]})

\* Mutated form: ZADD without XX.
RescheduleAny(id) ==
  /\ "reschedule" \in Events
  /\ \E delay \in Delays : Zadd(id, delay)
  /\ UNCHANGED <<items, deadLetters, producer, task, handled>>

\* worker.reschedule: ZADD XX, whether the job waits or is in flight.
Reschedule(id) ==
  /\ "reschedule" \in Events
  /\ queue[id] # Absent
  /\ \E delay \in Delays : Zadd(id, delay)
  /\ UNCHANGED <<items, deadLetters, producer, task, handled>>

\* worker.ack, called by a producer without a deduplication key.
RemoveJob(id) ==
  /\ "remove" \in Events
  /\ items[id] # Absent
  /\ Remove(id)
  /\ latest' = [latest EXCEPT ![id] = 0]
  /\ UNCHANGED <<deadLetters, jobs, task, handled>>

\* redriveFromDeadLetterQueue, on a message to the redrive channel.
RedriveFromDeadLetterQueue(id) ==
  /\ "redrive" \in Events
  /\ deadLetters[id] # Absent
  /\ EnqueueItem(id, deadLetters[id], 0)
  /\ deadLetters' = [deadLetters EXCEPT ![id] = Absent]
  /\ UNCHANGED <<producer, task, handled>>

-----------------------------------------------------------------------------
(* The worker loop *)

Free(p) == {h \in Handlers : ProcessOf[h] = p /\ task[h] = Absent}

DueIds == {id \in Ids : queue[id] # Absent /\ queue[id] <= 0}

\* ZRANGEBYSCORE -inf now LIMIT 0 n
DueBatches(n) ==
  {S \in SUBSET DueIds :
     /\ Cardinality(S) = Min({n, Cardinality(DueIds)})
     /\ \A id \in S, other \in DueIds \ S : queue[id] <= queue[other]}

\* Who gets what of a batch.  An item that does not fit the schema, or whose
\* process does not receive the answer of Redis, goes to nobody.
Deliveries(p, live) ==
  {got \in [Free(p) -> live \cup {Absent}] :
     /\ \A h, g \in Free(p) : got[h] = got[g] /\ h # g => got[h] = Absent
     /\ "lostDelivery" \in Events \/ \A id \in live : \E h \in Free(p) : got[h] = id}

Deliver(p, got) ==
  task' = [h \in Handlers |->
             IF h \in Free(p) /\ got[h] # Absent
             THEN [id |-> got[h], item |-> items[got[h]],
                   until |-> VisibilityTimeout, step |-> "running"]
             ELSE task[h]]

\* Mutated form: a delivered item leaves the sorted set.
HideForGood(live) ==
  [id \in Ids |-> IF id \in live THEN Absent ELSE queue[id]]

\* Mutated form: a delivered item keeps its score.
HideNothing(live) == queue

\* What was dequeued becomes due again when its visibility timeout is over.
Hide(live) ==
  [id \in Ids |-> IF id \in live THEN VisibilityTimeout ELSE queue[id]]

\* dequeue and its script; entries without an item are dropped.
DequeueItems(p) ==
  /\ Free(p) # {} /\ DueIds # {}
  /\ \E batch \in DueBatches(Min({DequeueCount, Cardinality(Free(p))})) :
       LET live == {id \in batch : items[id] # Absent} IN
       /\ queue' = [id \in Ids |-> IF id \in batch \ live THEN Absent
                                   ELSE Hide(live)[id]]
       /\ \E got \in Deliveries(p, live) : Deliver(p, got)
  /\ UNCHANGED <<items, deadLetters, producer, handled>>

-----------------------------------------------------------------------------
(* processItem *)

SetStep(h, step) == task' = [task EXCEPT ![h].step = step]

Finish(h) == task' = [task EXCEPT ![h] = Absent]

\* The handler resolves; the ack is still to come.
HandlerReturns(h) ==
  /\ task[h] # Absent /\ task[h].step = "running"
  /\ SetStep(h, "returned")
  /\ handled' = handled \cup {task[h].item.work}
  /\ UNCHANGED <<queue, items, deadLetters, producer>>

HandlerThrows(h) ==
  /\ "throw" \in Events
  /\ task[h] # Absent /\ task[h].step = "running"
  /\ SetStep(h, "threw")
  /\ UNCHANGED <<queue, items, deadLetters, producer, handled>>

\* Mutated form: the deduplication key is not compared.
AckById(id, key) == IF items[id] # Absent THEN Remove(id) ELSE UNCHANGED <<queue, items>>

\* The ackItem script: an item with another key is somebody else's.
Ack(id, key) ==
  IF items[id] # Absent /\ items[id].key = key THEN Remove(id)
  ELSE UNCHANGED <<queue, items>>

AckItem(h) ==
  /\ task[h] # Absent /\ task[h].step = "returned"
  /\ Ack(task[h].id, task[h].item.key)
  /\ Finish(h)
  /\ UNCHANGED <<deadLetters, producer, handled>>

\* queue.ack rejects, before or after Redis ran the script: the catch of
\* processItem takes it for a failure of the handler.
AckRejects(h) ==
  /\ "redisError" \in Events
  /\ task[h] # Absent /\ task[h].step = "returned"
  /\ Ack(task[h].id, task[h].item.key) \/ UNCHANGED <<queue, items>>
  /\ SetStep(h, "threw")
  /\ UNCHANGED <<deadLetters, producer, handled>>

\* Mutated form: the attempt that failed is not counted.
RetriesLeftInclusive(item) == item.attempt < MaxAttempts

\* Mutated form: the attempt that failed is counted twice.
RetriesLeftCountedTwice(item) == item.attempt + 2 < MaxAttempts

\* calculateNextRetryDelay has a delay for the next attempt.
RetriesLeft(item) == item.attempt + 1 < MaxAttempts

\* The item this handler worked on is enqueued again, under a new key.
RequeueItem(h) ==
  /\ task[h] # Absent /\ task[h].step = "threw"
  /\ RetriesLeft(task[h].item) /\ HasFreshKey
  /\ \E delay \in RetryDelays :
       EnqueueItem(task[h].id, [task[h].item EXCEPT !.key = FreshKey,
                                                    !.attempt = @ + 1], delay)
  /\ Finish(h)
  /\ UNCHANGED <<deadLetters, producer, handled>>

\* moveToDeadLetterQueue takes the item of that id, whichever it is by now.
MoveToDeadLetterQueue(h) ==
  /\ task[h] # Absent /\ task[h].step = "threw"
  /\ ~RetriesLeft(task[h].item)
  /\ IF items[task[h].id] = Absent THEN UNCHANGED <<queue, items, deadLetters>>
     ELSE /\ deadLetters' = [deadLetters EXCEPT ![task[h].id] = items[task[h].id]]
          /\ Remove(task[h].id)
  /\ Finish(h)
  /\ UNCHANGED <<producer, handled>>

\* The command of the catch fails as well: the job waits for its timeout.
RequeueRejects(h) ==
  /\ "redisError" \in Events
  /\ task[h] # Absent /\ task[h].step = "threw"
  /\ Finish(h)
  /\ UNCHANGED <<queue, items, deadLetters, producer, handled>>

\* The process dies, or shuts down: stop() does not wait for its handlers.
Crash(p) ==
  /\ "crash" \in Events
  /\ \E h \in Handlers : ProcessOf[h] = p /\ task[h] # Absent
  /\ task' = [h \in Handlers |-> IF ProcessOf[h] = p THEN Absent ELSE task[h]]
  /\ UNCHANGED <<queue, items, deadLetters, producer, handled>>

\* Time passes for the scores and for the deliveries.  Unless handlers are
\* "slow", each is done before its visibility timeout is over.
Tick ==
  /\ \/ "slow" \in Events
     \/ \A h \in Handlers : task[h] # Absent => task[h].until > 1
  /\ queue' = [id \in Ids |-> IF queue[id] = Absent \/ queue[id] <= -MaxAge
                              THEN queue[id] ELSE queue[id] - 1]
  /\ task' = [h \in Handlers |->
                IF task[h] = Absent \/ task[h].until = 0 THEN task[h]
                ELSE [task[h] EXCEPT !.until = @ - 1]]
  /\ UNCHANGED <<items, deadLetters, producer, handled>>

-----------------------------------------------------------------------------
(* Specification *)

Init ==
  /\ queue = [id \in Ids |-> Absent] /\ items = [id \in Ids |-> Absent]
  /\ deadLetters = [id \in Ids |-> Absent]
  /\ jobs = 0 /\ latest = [id \in Ids |-> 0]
  /\ task = [h \in Handlers |-> Absent]
  /\ handled = {}

ProducerStep(id) ==
  \/ Enqueue(id) \/ EnqueueOnce(id) \/ Reschedule(id) \/ RemoveJob(id)
  \/ RedriveFromDeadLetterQueue(id)

HandlerStep(h) ==
  \/ HandlerReturns(h) \/ HandlerThrows(h) \/ AckItem(h) \/ AckRejects(h)
  \/ RequeueItem(h) \/ MoveToDeadLetterQueue(h) \/ RequeueRejects(h)

Next ==
  \/ \E id \in Ids : ProducerStep(id)
  \/ \E h \in Handlers : HandlerStep(h)
  \/ \E p \in Processes : DequeueItems(p) \/ Crash(p)
  \/ Tick

Spec == Init /\ [][Next]_vars

\* What any handler does about the job of an id, from its delivery on.
Delivers(id) ==
  \E p \in Processes :
    /\ DequeueItems(p)
    /\ \E h \in Free(p) : task'[h] # Absent /\ task'[h].id = id
Runs(id) ==
  \E h \in Handlers : /\ task[h] # Absent /\ task[h].id = id
                      /\ HandlerReturns(h) \/ HandlerThrows(h)
Settles(id) ==
  \E h \in Handlers :
    /\ task[h] # Absent /\ task[h].id = id
    /\ AckItem(h) \/ RequeueItem(h) \/ MoveToDeadLetterQueue(h)

\* Processes poll and time passes.  Answers of Redis are not lost, processes do
\* not die and commands do not fail for ever: a job that is dequeued again and
\* again reaches a handler, that runs it and whose ack or requeue succeeds.
Fairness ==
  /\ \A p \in Processes : WF_vars(DequeueItems(p))
  /\ \A id \in Ids : SF_vars(Delivers(id)) /\ SF_vars(Runs(id)) /\ SF_vars(Settles(id))
  /\ WF_vars(Tick)

FairSpec == Spec /\ Fairness

-----------------------------------------------------------------------------
(* Properties *)

TypeOK ==
  /\ queue \in [Ids -> Int \cup {Absent}]
  /\ items \in [Ids -> Item \cup {Absent}]
  /\ deadLetters \in [Ids -> Item \cup {Absent}]
  /\ jobs \in 0..MaxJobs
  /\ latest \in [Ids -> 0..MaxJobs]
  /\ task \in [Handlers -> Task \cup {Absent}]
  /\ handled \in SUBSET (1..MaxJobs)

\* The sorted set and the hash hold the same ids: an item without a score would
\* never be dequeued, a score without an item is work for nobody.  Four scripts
\* and two bare commands write them, under handlers that come too late.
QueueMatchesItems ==
  \A id \in Ids : queue[id] = Absent <=> items[id] = Absent

\* The last job issued for an id is not lost before a handler completed it,
\* although the id is enqueued again, acknowledged or redelivered meanwhile.
LatestJobSurvives ==
  \A id \in Ids : latest[id] # 0 =>
    \/ latest[id] \in handled
    \/ items[id] # Absent /\ items[id].work = latest[id]
    \/ deadLetters[id] # Absent /\ deadLetters[id].work = latest[id]

\* Within a visibility timeout one handler has an item.
OneDelivery ==
  \A h, g \in {k \in Handlers : task[k] # Absent /\ task[k].until > 0} :
    h # g /\ task[h].id = task[g].id => task[h].item.key # task[g].item.key

\* Only a job that used up its attempts is dead-lettered.
DeadLettersExhausted ==
  \A id \in Ids : deadLetters[id] # Absent =>
    deadLetters[id].attempt = MaxAttempts - 1

\* The item of every job leaves the queue, and then a handler completed the job
\* or it is dead-lettered, although processes die, answers get lost, acks fail
\* and handlers throw.
JobSettles ==
  \A id \in Ids : \A work \in 1..MaxJobs :
    latest[id] = work ~>
      \/ latest[id] # work
      \/ /\ items[id] = Absent
         /\ work \in handled \/ (deadLetters[id] # Absent /\ deadLetters[id].work = work)

=============================================================================
