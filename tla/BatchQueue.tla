----------------------------- MODULE BatchQueue -----------------------------
(***************************************************************************)
(* The batch queue (internal-packages/run-engine/src/batch-queue) on top   *)
(* of the fair queue: the items of a batch are streamed in, each becomes a *)
(* run or a recorded failure, and the consumer that records the last one   *)
(* completes the batch.                                                    *)
(*                                                                         *)
(* A message is an item of a batch: markItemEnqueued lets each be enqueued *)
(* once.  Every await at which the process may die, or another one may     *)
(* come between, separates two steps.  A delivery is reclaimed when nobody *)
(* has its key any more: its holder is dead.                               *)
(***************************************************************************)
EXTENDS FairQueue

CONSTANTS
  Batches,      \* batches of the environment
  BatchOf,      \* the batch of each message
  Dispatchers,  \* master queue consumer loops, one per process
  Consumers,    \* worker queue consumer loops
  None,         \* no message
  MaxCrashes    \* bound: loops that die

ASSUME BatchConstantsAssumption ==
  /\ BatchOf \in [Messages -> Batches]
  /\ None \notin Messages
  /\ MaxCrashes \in Nat

VARIABLES
  meta,       \* batches whose metadata is stored
  marked,     \* items in the set enqueued-items of their batch
  sending,    \* items marked and about to be enqueued
  recorded,   \* what processed-items, runs and failures say of each item
  holding,    \* messages a dispatcher has claimed and not yet pushed
  hand,       \* what a consumer does with which message
  reclaiming, \* messages requeued by the reclaim loop that keep their slot
  runs,       \* runs created for each item
  row,        \* BatchTaskRun: outcome of the batch's items
  crashes,    \* bound: loops that died
  stranded    \* history: a process failed in a window that nothing covers

trackerVars == <<meta, marked, recorded>>
bqVars == <<trackerVars, sending, holding, hand, reclaiming, runs, row, crashes, stranded>>
vars == <<fqVars, bqVars>>

Stages == {"idle", "callback", "record", "complete", "release", "finalize",
           "cleanup", "fail"}
Idle == [stage |-> "idle", item |-> None, outcome |-> "none", last |-> FALSE]

ItemsOf(b) == {m \in Messages : BatchOf[m] = b}
Unsettled == [settled |-> FALSE, ok |-> {}, failed |-> {}]

Init ==
  /\ FQInit
  /\ meta = {} /\ marked = {} /\ sending = {} /\ reclaiming = {}
  /\ recorded = [m \in Messages |-> "none"]
  /\ holding = [d \in Dispatchers |-> {}]
  /\ hand = [c \in Consumers |-> Idle]
  /\ runs = [m \in Messages |-> 0]
  /\ row = [b \in Batches |-> Unsettled]
  /\ crashes = 0 /\ stranded = FALSE

-----------------------------------------------------------------------------
(* Streaming the items in *)

\* initializeBatch, once, when the batch is created; the limit it brings is the
\* environment's from now on.
InitializeBatch(b) ==
  /\ b \notin meta /\ row[b] = Unsettled /\ marked \cap ItemsOf(b) = {}
  /\ meta' = meta \cup {b}
  /\ limit' \in Limits
  /\ UNCHANGED <<queued, inflight, attempt, slots, workerQueue, marked, recorded,
                 sending, holding, hand, reclaiming, runs, row, crashes, stranded>>

\* enqueueBatchItem, first step: a marked item is a duplicate ...
MarkItem(m) ==
  /\ BatchOf[m] \in meta /\ m \notin marked
  /\ marked' = marked \cup {m}
  /\ sending' = sending \cup {m}
  /\ UNCHANGED <<fqVars, meta, recorded, holding, hand, reclaiming, runs, row,
                 crashes, stranded>>

\* ... second step, in any order: the items of a stream are sent concurrently.
EnqueueItem(m) ==
  /\ m \in sending
  /\ sending' = sending \ {m}
  /\ EnqueueMessage(m)
  /\ UNCHANGED <<trackerVars, holding, hand, reclaiming, runs, row, crashes, stranded>>

\* The server dies in between: the retried stream finds a duplicate.
StreamCrash(m) ==
  /\ m \in sending /\ crashes < MaxCrashes
  /\ sending' = sending \ {m}
  /\ crashes' = crashes + 1 /\ stranded' = TRUE
  /\ UNCHANGED <<fqVars, trackerVars, holding, hand, reclaiming, runs, row>>

-----------------------------------------------------------------------------
(* Dispatching: #claimAndPushToWorkerQueue *)

\* From one queue, that is from one batch.
Claim(d) ==
  /\ holding[d] = {}
  /\ \E b \in Batches, n \in ClaimCounts :
       LET Q == queued \cap ItemsOf(b) IN
       \E S \in SUBSET Q \ {{}} :
         ClaimMessages(S, Q, n) /\ holding' = [holding EXCEPT ![d] = S]
  /\ UNCHANGED <<trackerVars, sending, hand, reclaiming, runs, row, crashes, stranded>>

\* One message after the other; another dispatcher may have taken the last
\* slot since the capacity was read: everything left goes back.
ReserveAndPush(d) ==
  /\ \E m \in holding[d] :
       /\ Reserve(m)
       /\ workerQueue' = workerQueue \cup {m}
       /\ holding' = [holding EXCEPT ![d] = @ \ {m}]
  /\ UNCHANGED <<queued, inflight, attempt, limit, trackerVars, sending, hand,
                 reclaiming, runs, row, crashes, stranded>>

PutBack(d) ==
  /\ holding[d] # {} /\ Cardinality(slots) >= limit
  /\ ReleaseMessages(holding[d])
  /\ holding' = [holding EXCEPT ![d] = {}]
  /\ UNCHANGED <<trackerVars, sending, hand, reclaiming, runs, row, crashes, stranded>>

\* The process dies, possibly after a slot was reserved.
DispatcherCrash(d) ==
  /\ holding[d] # {} /\ crashes < MaxCrashes
  /\ \/ UNCHANGED slots
     \/ \E m \in holding[d] : Reserve(m)
  /\ holding' = [holding EXCEPT ![d] = {}]
  /\ crashes' = crashes + 1
  /\ UNCHANGED <<queued, inflight, attempt, limit, workerQueue, trackerVars, sending,
                 hand, reclaiming, runs, row, stranded>>

-----------------------------------------------------------------------------
(* Reclaiming: #reclaimTimedOutMessages *)

\* Nobody is left who could acknowledge the delivery.
Abandoned(m) ==
  /\ m \in inflight \ workerQueue
  /\ \A d \in Dispatchers : m \notin holding[d]
  /\ \A c \in Consumers : hand[c].item # m

Requeue(m) ==
  /\ Abandoned(m)
  /\ ReleaseMessages({m})
  /\ reclaiming' = reclaiming \cup {m}
  /\ UNCHANGED <<trackerVars, sending, holding, hand, runs, row, crashes, stranded>>

\* releaseBatch for everything reclaimed.
ReleaseReclaimed ==
  /\ reclaiming # {}
  /\ ReleaseSlots(reclaiming)
  /\ reclaiming' = {}
  /\ UNCHANGED <<trackerVars, sending, holding, hand, runs, row, crashes, stranded>>

\* The release fails, and is only logged, or the process dies before it.
ReclaimFails ==
  /\ reclaiming # {}
  /\ reclaiming' = {} /\ stranded' = TRUE
  /\ UNCHANGED <<fqVars, trackerVars, sending, holding, hand, runs, row, crashes>>

-----------------------------------------------------------------------------
(* Consuming: #handleMessage *)

Holds(c, stage) == hand[c].stage = stage
Goes(c, stage) == hand' = [hand EXCEPT ![c].stage = stage]
Done(c) == hand' = [hand EXCEPT ![c] = Idle]

\* blockingPop, then read the message and the batch's metadata: a message
\* without batch is acknowledged at once.
Take(c) ==
  /\ Holds(c, "idle")
  /\ \E m \in workerQueue :
       /\ workerQueue' = workerQueue \ {m}
       /\ hand' = [hand EXCEPT ![c] =
            [Idle EXCEPT !.item = m,
               !.stage = IF m \in inflight /\ BatchOf[m] \in meta
                         THEN "callback" ELSE "complete"]]
  /\ UNCHANGED <<queued, inflight, attempt, limit, slots, trackerVars, sending, holding,
                 reclaiming, runs, row, crashes, stranded>>

FinalAttemptLate(m) == attempt[m] > MaxAttempts
IsFinalAttempt(m) == attempt[m] >= MaxAttempts

\* processItemCallback creates a run (a failed one, if need be), fails for
\* good (skipRetries, or the final attempt), or fails and is retried.
ProcessItem(c) ==
  LET m == hand[c].item IN
  /\ Holds(c, "callback")
  /\ \/ /\ runs' = [runs EXCEPT ![m] = @ + 1]
        /\ hand' = [hand EXCEPT ![c].stage = "record", ![c].outcome = "success"]
     \/ /\ hand' = [hand EXCEPT ![c].stage = "record", ![c].outcome = "failure"]
        /\ UNCHANGED runs
     \/ /\ ~IsFinalAttempt(m)
        /\ Goes(c, "fail")
        /\ UNCHANGED runs
  /\ UNCHANGED <<fqVars, trackerVars, sending, holding, reclaiming, row, crashes, stranded>>

\* failMessage: nothing happens to a message that is no longer in flight.
FailMessage(c) ==
  LET m == hand[c].item IN
  /\ Holds(c, "fail")
  /\ IF m \in inflight
     THEN RetryOrDiscard(m) /\ Goes(c, "release")
     ELSE UNCHANGED fqVars /\ Done(c)
  /\ UNCHANGED <<trackerVars, sending, holding, reclaiming, runs, row, crashes, stranded>>

\* recordSuccess and recordFailure: only the first record of an item counts.
Record(m, outcome) ==
  IF recorded[m] = "none" THEN [recorded EXCEPT ![m] = outcome] ELSE recorded

AllButOneRecorded(b, r) == Cardinality({m \in ItemsOf(b) : r[m] = "none"}) <= 1
\* processedCount === meta.runCount, with the count the script returned.
AllRecorded(b, r) == \A m \in ItemsOf(b) : r[m] # "none"

RecordItem(c) ==
  LET m == hand[c].item IN
  /\ Holds(c, "record")
  /\ recorded' = Record(m, hand[c].outcome)
  /\ hand' = [hand EXCEPT ![c].stage = "complete",
                          ![c].last = AllRecorded(BatchOf[m], recorded')]
  /\ UNCHANGED <<fqVars, meta, marked, sending, holding, reclaiming, runs, row,
                 crashes, stranded>>

FinalizeIfLast(c) == IF hand[c].last THEN Goes(c, "finalize") ELSE Done(c)

\* completeMessage, first step; without data there is no slot to release.
CompleteMessage(c) ==
  LET m == hand[c].item IN
  /\ Holds(c, "complete")
  /\ CompleteInflight(m)
  /\ IF m \in inflight THEN Goes(c, "release") ELSE FinalizeIfLast(c)
  /\ UNCHANGED <<trackerVars, sending, holding, reclaiming, runs, row, crashes, stranded>>

\* Second step, of completeMessage and of failMessage.
ReleaseConcurrency(c) ==
  /\ Holds(c, "release")
  /\ ReleaseSlots({hand[c].item})
  /\ FinalizeIfLast(c)
  /\ UNCHANGED <<trackerVars, sending, holding, reclaiming, runs, row, crashes, stranded>>

Outcome(b, outcome) == {m \in ItemsOf(b) : recorded[m] = outcome}

\* #finalizeBatch: the completion callback writes the result to the batch ...
FinalizeBatch(c) ==
  LET b == BatchOf[hand[c].item] IN
  /\ Holds(c, "finalize")
  /\ row' = [row EXCEPT ![b] = [settled |-> TRUE,
                                ok      |-> Outcome(b, "success"),
                                failed  |-> Outcome(b, "failure")]]
  /\ Goes(c, "cleanup")
  /\ UNCHANGED <<fqVars, trackerVars, sending, holding, reclaiming, runs, crashes, stranded>>

\* ... or throws; the message is acknowledged already, nobody tries again.
CompletionFails(c) ==
  /\ Holds(c, "finalize") /\ crashes < MaxCrashes
  /\ Done(c)
  /\ crashes' = crashes + 1 /\ stranded' = TRUE
  /\ UNCHANGED <<fqVars, trackerVars, sending, holding, reclaiming, runs, row>>

\* cleanup deletes the keys of the batch.
Cleanup(c) ==
  LET b == BatchOf[hand[c].item] IN
  /\ Holds(c, "cleanup")
  /\ meta' = meta \ {b}
  /\ marked' = marked \ ItemsOf(b)
  /\ recorded' = [m \in Messages |-> IF BatchOf[m] = b THEN "none" ELSE recorded[m]]
  /\ Done(c)
  /\ UNCHANGED <<fqVars, sending, holding, reclaiming, runs, row, crashes, stranded>>

\* The process dies.  Until the message is acknowledged it will be delivered
\* again; afterwards its slot, or the completion of its batch, is lost.
ConsumerCrash(c) ==
  /\ hand[c].stage \notin {"idle", "finalize"} /\ crashes < MaxCrashes
  /\ Done(c)
  /\ crashes' = crashes + 1
  /\ stranded' = (stranded \/ Holds(c, "release"))
  /\ UNCHANGED <<fqVars, trackerVars, sending, holding, reclaiming, runs, row>>

-----------------------------------------------------------------------------
Stream(m) == MarkItem(m) \/ EnqueueItem(m) \/ StreamCrash(m)
Dispatch(d) == Claim(d) \/ ReserveAndPush(d) \/ PutBack(d)
Consume(c) ==
  \/ Take(c) \/ ProcessItem(c) \/ FailMessage(c) \/ RecordItem(c)
  \/ CompleteMessage(c) \/ ReleaseConcurrency(c) \/ FinalizeBatch(c) \/ Cleanup(c)

Next ==
  \/ \E b \in Batches : InitializeBatch(b)
  \/ \E m \in Messages : Stream(m) \/ Requeue(m)
  \/ \E d \in Dispatchers : Dispatch(d) \/ DispatcherCrash(d)
  \/ ReleaseReclaimed \/ ReclaimFails
  \/ \E c \in Consumers : Consume(c) \/ CompletionFails(c) \/ ConsumerCrash(c)

Spec == Init /\ [][Next]_vars

\* The loops run for ever, a process that died is replaced, and the stream
\* that has marked an item sends it.  Nothing is assumed of the stream's start.
Fairness ==
  /\ \A m \in Messages : WF_vars(EnqueueItem(m)) /\ WF_vars(Requeue(m))
  /\ \A d \in Dispatchers : WF_vars(Dispatch(d))
  /\ WF_vars(ReleaseReclaimed)
  /\ \A c \in Consumers : WF_vars(Consume(c))

FairSpec == Spec /\ Fairness

-----------------------------------------------------------------------------
(* Properties *)

TypeOK ==
  /\ queued \subseteq Messages /\ inflight \subseteq Messages
  /\ attempt \in [Messages -> 0..MaxAttempts]
  /\ limit \in Limits
  /\ slots \subseteq Messages /\ workerQueue \subseteq Messages
  /\ meta \subseteq Batches /\ marked \subseteq Messages /\ sending \subseteq Messages
  /\ recorded \in [Messages -> {"none", "success", "failure"}]
  /\ holding \in [Dispatchers -> SUBSET Messages]
  /\ hand \in [Consumers -> [stage : Stages, item : Messages \cup {None},
                             outcome : {"none", "success", "failure"},
                             last : BOOLEAN]]
  /\ reclaiming \subseteq Messages
  /\ runs \in [Messages -> Nat]
  /\ row \in [Batches -> [settled : BOOLEAN, ok : SUBSET Messages,
                          failed : SUBSET Messages]]
  /\ crashes \in 0..MaxCrashes /\ stranded \in BOOLEAN

\* An item that was enqueued waits or is in flight until its outcome is
\* recorded: whoever dies, at whatever step, it is processed again.
NoItemLost ==
  \A m \in Messages :
    attempt[m] > 0 /\ BatchOf[m] \in meta /\ recorded[m] = "none"
      => m \in queued \cup inflight

\* A concurrency slot belongs to a message in flight, or is about to be
\* released; only a failure between a message's release and its slot's leaks it.
Releasing == {hand[c].item : c \in {c \in Consumers : Holds(c, "release")}}
NoSlotLeak == stranded \/ slots \subseteq inflight \cup reclaiming \cup Releasing

\* An item becomes one run, and one more at most for every process that died.
OneRunEach == \A m \in Messages : runs[m] <= 1 + crashes

\* The first result written to a batch accounts for every one of its items,
\* each as a run or a failure: tryCompleteBatch waits for that count.
FirstResultWhole ==
  [][\A b \in Batches : ~row[b].settled /\ row'[b].settled =>
       /\ row'[b].ok \cup row'[b].failed = ItemsOf(b)
       /\ \A m \in row'[b].ok : runs[m] > 0]_vars

\* A batch whose items are all streamed is completed, whoever dies, unless it
\* was in one of the windows that no redelivery covers: an item marked and not
\* enqueued, a message released and not its slot, the completion itself.
BatchCompletes ==
  \A b \in Batches :
    ItemsOf(b) \subseteq marked ~> row[b].settled \/ stranded

=============================================================================
