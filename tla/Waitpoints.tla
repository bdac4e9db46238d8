----------------------------- MODULE Waitpoints -----------------------------
(***************************************************************************)
(* One run that blocks on waitpoints, is suspended, and is resumed.        *)
(*                                                                         *)
(* The engine keeps the run's latest execution snapshot and one edge per   *)
(* waitpoint that blocks the run (internal-packages/run-engine/src/engine/ *)
(* systems: waitpointSystem, checkpointSystem, runAttemptSystem, batch-    *)
(* System, executionSnapshotSystem, and #handleStalledSnapshot of          *)
(* index.ts).  The runner (packages/cli-v3/src/entryPoints/managed and     *)
(* packages/core/src/v3/runtime) holds the user's process.                 *)
(*                                                                         *)
(* Handlers that take the run lock are single steps, except                *)
(* blockRunWithWaitpoint, whose insert and check are two steps because     *)
(* completeWaitpoint and the lockless insert of batch items do not take    *)
(* that lock.  A snapshot id is used only in comparisons with the latest   *)
(* one, so whoever holds an id holds a reference, "latest" or "old".       *)
(***************************************************************************)
EXTENDS Integers, FiniteSets

CONSTANTS
  Tokens,       \* MANUAL and DATETIME waitpoints
  Children,     \* RUN waitpoints of single triggerAndWait calls
  Batches,      \* BATCH waitpoints of batchTriggerAndWait calls
  Items,        \* RUN waitpoints of the runs of those batches
  BatchOf,      \* the batch of each item
  None,         \* no waitpoint
  MaxWaits,     \* bound: waits the user's code makes, over all attempts
  MaxAttempts,  \* TaskRun.maxAttempts
  MaxNacks,     \* nacks a message may have: one less than the queue's maxAttempts
  Faults        \* the failures an instance includes

Waitpoint == Tokens \cup Children \cup Batches \cup Items

FaultKinds == {"blockCrash", "handlerCrash", "completerCrash", "runnerCrash",
               "suspendFails", "startSlow", "streamFails", "lateBlock"}

ASSUME WaitpointSetsAssumption ==
  /\ Tokens \cap (Children \cup Batches \cup Items) = {}
  /\ Children \cap (Batches \cup Items) = {}
  /\ Batches \cap Items = {}
  /\ None \notin Waitpoint
  /\ BatchOf \in [Items -> Batches]
ASSUME WaitpointBoundsAssumption ==
  MaxWaits \in Nat /\ MaxAttempts \in Nat /\ MaxNacks \in Nat
ASSUME WaitpointFaultsAssumption == Faults \subseteq FaultKinds

VARIABLES
  snap,        \* latest snapshot: status, has a checkpoint, completedWaitpoints
  canceled,    \* TaskRun.status is CANCELED
  message,     \* the run queue holds the run's message
  nacks,       \* how often that message was nacked
  attempts,    \* TaskRun.attemptNumber
  edges,       \* TaskRunWaitpoint rows of the run
  wp,          \* status of each waitpoint row, "none" before it is created
  ended,       \* child runs in a final status, batches COMPLETED or ABORTED
  sealed,      \* batches known as sealed: PROCESSING or COMPLETED
  streamed,    \* batch items enqueued in the batch queue
  processed,   \* batch items whose edge the batch queue has inserted
  completing,  \* progress of the completeWaitpoint call of each waitpoint
  job,         \* continueRunIfUnblocked:<run> is queued
  continuing,  \* its handler runs
  heartbeat,   \* snapshot the job heartbeatSnapshot.<run> names
  call,        \* the runner's blocking API call
  proc,        \* what the runner does
  awaits,      \* waitpoints the process awaits
  got,         \* waitpoints delivered to the process and not yet consumed
  view,        \* snapshot the runner's SnapshotManager holds
  suspendReq,  \* snapshot the checkpoint in progress was requested for
  waits        \* bound: waits made

runVars     == <<snap, canceled, message, nacks, attempts>>
wpVars      == <<wp, ended, sealed, streamed, processed, completing>>
jobVars     == <<job, continuing>>
runnerVars  == <<call, proc, awaits, got, waits>>
vars == <<runVars, edges, wpVars, jobVars, heartbeat, runnerVars, view, suspendReq>>

Executing == {"EXECUTING", "EXECUTING_WITH_WAITPOINTS"}
HeartbeatenButForCancel == Executing \cup {"PENDING_EXECUTING", "SUSPENDED"}
\* Statuses for which createExecutionSnapshot enqueues a heartbeat job.
Heartbeaten == Executing \cup {"PENDING_EXECUTING", "PENDING_CANCEL", "SUSPENDED"}
Statuses == Heartbeaten \cup {"QUEUED", "FINISHED"}
\* Phases of the runner in which user code is loaded.
Live == {"running", "calling", "waiting", "returning"}
Phases == Live \cup {"none", "starting", "canceling", "frozen", "restoring"}

\* What a wait on w awaits: a batch wait awaits the runs of its items.
Awaited(w) == IF w \in Batches THEN {i \in Items : BatchOf[i] = w} ELSE {w}

Completed(S) == \A w \in S : wp[w] = "completed"

LockIgnored == TRUE
\* blockRunWithWaitpoint holds the run lock between its two steps.
LockFree == call.stage # "inserted"

Init ==
  /\ snap = [status |-> "QUEUED", ckpt |-> FALSE, done |-> {}]
  /\ canceled = FALSE /\ message = TRUE /\ nacks = 0 /\ attempts = 0
  /\ edges = {}
  /\ wp = [w \in Waitpoint |-> IF w \in Tokens THEN "pending" ELSE "none"]
  /\ ended = {} /\ sealed = {} /\ streamed = {} /\ processed = {}
  /\ completing = [w \in Waitpoint |-> "idle"]
  /\ job = FALSE /\ continuing = FALSE /\ heartbeat = "old"
  /\ call = [target |-> None, stage |-> "none"]
  /\ proc = "none" /\ awaits = {} /\ got = {} /\ waits = 0
  /\ view = "old" /\ suspendReq = "none"

-----------------------------------------------------------------------------
(* Snapshots *)

\* createExecutionSnapshot: every reference held to the previous latest
\* snapshot becomes old; the heartbeat job of the run is overwritten when the
\* status has an interval, and names an old snapshot otherwise.
WriteSnapshot(status, ckpt, done) ==
  /\ snap' = [status |-> status, ckpt |-> ckpt, done |-> done]
  /\ heartbeat' = IF status \in Heartbeaten THEN "latest" ELSE "old"
NewSnapshot(status, ckpt, done) ==
  /\ WriteSnapshot(status, ckpt, done)
  /\ suspendReq' = IF suspendReq = "none" THEN "none" ELSE "old"

\* The id check that every handler called with a snapshot id makes.
IsLatest(ref) == ref = "latest"

\* The FINISHED snapshot; the message is acknowledged, the heartbeat cancelled.
Finish ==
  /\ NewSnapshot("FINISHED", FALSE, {})
  /\ message' = FALSE
  /\ UNCHANGED nacks

NacksLeftInclusive == nacks <= MaxNacks
NacksLeft == nacks < MaxNacks

\* tryNackAndRequeue: nackMessage refuses a message that is gone or has used
\* up its attempts; systemFailure then fails the run, which clears the edges.
TryNackAndRequeue(ckpt, done, kept) ==
  \/ /\ message /\ NacksLeft
     /\ nacks' = nacks + 1
     /\ NewSnapshot("QUEUED", ckpt, done)
     /\ edges' = kept
     /\ UNCHANGED message
  \/ /\ ~(message /\ NacksLeft)
     /\ Finish
     /\ edges' = {}

\* attemptFailed with outcome fail_run or cancel_run.
FailRun == Finish /\ edges' = {}

\* attemptFailed with outcome retry: requeued when forced or slow, otherwise
\* the runner starts the next attempt on a new EXECUTING snapshot.
RetryQueued == attempts < MaxAttempts /\ TryNackAndRequeue(FALSE, {}, {})
RetryImmediately ==
  /\ attempts < MaxAttempts
  /\ NewSnapshot("EXECUTING", FALSE, {})
  /\ edges' = {}
  /\ UNCHANGED <<message, nacks>>

-----------------------------------------------------------------------------
(* Dequeue and attempts *)

\* dequeueFromWorkerQueue on a QUEUED run; the supervisor starts a runner, or
\* restores the checkpoint, which carries on from the image of the process.
Dequeue ==
  /\ snap.status = "QUEUED" /\ message /\ LockFree
  /\ NewSnapshot("PENDING_EXECUTING", snap.ckpt, snap.done)
  /\ IF snap.ckpt
     THEN proc' = "restoring" /\ view' = "old"
     ELSE proc' = "starting" /\ view' = "latest"
  /\ UNCHANGED <<canceled, message, nacks, attempts, edges, wpVars, jobVars,
                 call, awaits, got, waits>>

\* startRunAttempt, for a new runner and for an immediate retry.
StartAttempt ==
  /\ proc = "starting" /\ LockFree
  /\ IsLatest(view) /\ snap.status \notin {"FINISHED", "PENDING_CANCEL"}
  /\ attempts < MaxAttempts
  /\ attempts' = attempts + 1
  /\ NewSnapshot("EXECUTING", FALSE, snap.done)
  /\ proc' = "running" /\ view' = "latest"
  /\ awaits' = {} /\ got' = {}
  /\ UNCHANGED <<canceled, message, nacks, edges, wpVars, jobVars, call, waits>>

\* The snapshot changed before the attempt started: the runner gives up.
StartRejected ==
  /\ proc = "starting" /\ ~IsLatest(view)
  /\ proc' = "none"
  /\ UNCHANGED <<runVars, edges, wpVars, jobVars, heartbeat, call, awaits, got,
                 waits, view, suspendReq>>

\* continueRunExecution, called by restore() with the snapshot it was shown.
ContinueRunExecution ==
  /\ proc = "restoring" /\ LockFree
  /\ IsLatest(view) /\ snap.status = "PENDING_EXECUTING" /\ snap.done # {}
  /\ NewSnapshot("EXECUTING", FALSE, snap.done)
  /\ view' = "old"
  /\ UNCHANGED <<canceled, message, nacks, attempts, edges, wpVars, jobVars,
                 call, proc, awaits, got, waits>>

\* attemptSucceeded; the edges of the run stay.
AttemptSucceeded ==
  /\ proc = "returning" /\ LockFree
  /\ IsLatest(view) /\ snap.status # "FINISHED"
  /\ Finish
  /\ proc' = "none" /\ view' = "old"
  /\ UNCHANGED <<canceled, attempts, edges, wpVars, jobVars, call, awaits, got, waits>>

RetryNeverAborted == FALSE
\* The runner, which the poller has shown PENDING_CANCEL while the process
\* returned, is aborted and starts no further attempt.
RetryAborted == snap.status = "PENDING_CANCEL"

\* attemptFailed, reported by the runner.
AttemptFailed ==
  /\ proc \in {"returning", "canceling"} /\ LockFree
  /\ IsLatest(view) /\ snap.status # "FINISHED"
  /\ \/ FailRun /\ proc' = "none" /\ view' = "old"
     \/ proc = "returning" /\ RetryQueued /\ proc' = "none" /\ view' = "old"
     \/ /\ proc = "returning" /\ RetryImmediately
        /\ IF RetryAborted
           THEN proc' = "none" /\ view' = "old"
           ELSE proc' = "starting" /\ view' = "latest"
  /\ UNCHANGED <<canceled, attempts, wpVars, jobVars, call, awaits, got, waits>>

\* A completion with an old snapshot id is refused and not sent again.
CompletionRejected ==
  /\ proc \in {"returning", "canceling"} /\ LockFree
  /\ ~IsLatest(view) \/ snap.status = "FINISHED"
  /\ proc' = "none"
  /\ UNCHANGED <<runVars, edges, wpVars, jobVars, heartbeat, call, awaits, got,
                 waits, view, suspendReq>>

\* cancelRun called by a user: a run that executes, or is about to, must be
\* stopped by its runner first.
CancelRun ==
  /\ LockFree
  /\ snap.status \notin {"FINISHED", "PENDING_CANCEL"}
  /\ canceled' = TRUE
  /\ IF snap.status \in Executing \cup {"PENDING_EXECUTING"}
     THEN /\ NewSnapshot("PENDING_CANCEL", FALSE, {})
          /\ message' = FALSE
          /\ UNCHANGED nacks
     ELSE Finish
  /\ view' = "old"
  /\ UNCHANGED <<attempts, edges, wpVars, jobVars, runnerVars>>

-----------------------------------------------------------------------------
(* Blocking the run *)

\* The user's code waits: triggerAndWait and batchTriggerAndWait first create
\* the child run, or the batch, with its waitpoint.
BeginWait(w) ==
  /\ proc = "running" /\ waits < MaxWaits /\ call.stage = "none"
  /\ \/ w \in Tokens /\ UNCHANGED wp
     \/ /\ w \in Children \cup Batches /\ wp[w] = "none"
        /\ wp' = [wp EXCEPT ![w] = "pending"]
  /\ waits' = waits + 1
  /\ call' = [target |-> w, stage |-> "sent"]
  /\ proc' = "calling"
  /\ UNCHANGED <<runVars, edges, ended, sealed, streamed, processed, completing, jobVars,
                 heartbeat, awaits, got, view, suspendReq>>

\* Without lateBlock, a call reaches the engine while its process waits for
\* the answer and the run executes; with it, at any time.
CallInTime == proc = "calling" /\ snap.status \in Executing

\* blockRunWithWaitpoint, first step: under the run lock, insert the edge.
BlockInsert ==
  /\ call.stage = "sent"
  /\ CallInTime \/ "lateBlock" \in Faults
  /\ edges' = edges \cup {call.target}
  /\ call' = [call EXCEPT !.stage = "inserted"]
  /\ UNCHANGED <<runVars, wpVars, jobVars, heartbeat, proc, awaits, got, waits,
                 view, suspendReq>>

ContinueNeverAfterBlock == UNCHANGED job
\* The count of pending waitpoints among those of the call, read after the
\* edge is there: with none the run is continued at once.
ContinueAfterBlock == job' = (job \/ Completed({call.target}))

\* Second step: read whether the waitpoint is still pending, write the new
\* status without looking at any other, and schedule the continuation when
\* nothing is pending.
BlockRun ==
  /\ call.stage = "inserted"
  /\ LET status == IF snap.status \in Executing
                   THEN "EXECUTING_WITH_WAITPOINTS" ELSE "SUSPENDED"
     IN IF status # snap.status
        THEN NewSnapshot(status, FALSE, {}) /\ view' = "old"
        ELSE UNCHANGED <<snap, heartbeat, suspendReq, view>>
  /\ ContinueAfterBlock
  /\ call' = [call EXCEPT !.stage = "answered"]
  /\ UNCHANGED <<canceled, message, nacks, attempts, edges, wpVars, continuing,
                 proc, awaits, got, waits>>

\* The server dies between the two steps; the runner sends the call again.
BlockCrash ==
  /\ "blockCrash" \in Faults
  /\ call.stage = "inserted" /\ call.target \in Tokens
  /\ call' = [call EXCEPT !.stage = "sent"]
  /\ UNCHANGED <<runVars, edges, wpVars, jobVars, heartbeat, proc, awaits, got,
                 waits, view, suspendReq>>

\* streamBatchItems: once its parent is blocked, a batch that is neither sealed
\* nor over takes its items one by one.
StreamItem(i) ==
  /\ call.target = BatchOf[i] /\ call.stage = "answered" /\ proc = "calling"
  /\ BatchOf[i] \notin ended \cup sealed /\ i \notin streamed
  /\ streamed' = streamed \cup {i}
  /\ UNCHANGED <<runVars, edges, wp, ended, sealed, processed, completing, jobVars,
                 heartbeat, runnerVars, view, suspendReq>>

\* A batch with all its items is sealed; one that is already COMPLETED counts
\* as sealed, an aborted one fails the call in the user's code, as does a
\* stream that breaks off.
Seal(b) == b \notin ended \ sealed /\ Awaited(b) \subseteq streamed
StreamFails ==
  /\ call.target \in Batches \ sealed
  /\ call.target \in ended \/ "streamFails" \in Faults

\* The call returns: waitForTask, waitForBatch or waitForWaitpoint registers
\* the resolvers; waitpoints that arrived earlier are in got.
CallReturns ==
  /\ call.stage = "answered" /\ proc = "calling"
  /\ call' = [target |-> None, stage |-> "none"]
  /\ \/ StreamFails /\ proc' = "running" /\ UNCHANGED <<awaits, sealed>>
     \/ /\ call.target \in Batches => Seal(call.target)
        /\ proc' = "waiting" /\ awaits' = Awaited(call.target)
        /\ sealed' = sealed \cup ({call.target} \cap Batches)
  /\ UNCHANGED <<runVars, edges, wp, ended, streamed, processed, completing,
                 jobVars, heartbeat, got, waits, view, suspendReq>>

\* The process that made the call is gone.
CallDropped ==
  /\ call.stage \in {"sent", "answered"}
  /\ IF call.stage = "sent" THEN ~CallInTime ELSE proc # "calling"
  /\ call' = [target |-> None, stage |-> "none"]
  /\ UNCHANGED <<runVars, edges, wpVars, jobVars, heartbeat, proc, awaits, got,
                 waits, view, suspendReq>>

\* The batch queue handles an item: it creates the run (and its waitpoint) ...
CreateItem(i) ==
  /\ wp[i] = "none" /\ i \in streamed
  /\ wp' = [wp EXCEPT ![i] = "pending"]
  /\ UNCHANGED <<runVars, edges, ended, sealed, streamed, processed, completing, jobVars,
                 heartbeat, runnerVars, view, suspendReq>>

\* ... and inserts its edge without the run lock and without looking whether
\* the waitpoint is still pending (blockRunWithWaitpointLockless).
BlockLockless(i) ==
  /\ wp[i] # "none" /\ i \notin processed
  /\ edges' = edges \cup {i}
  /\ processed' = processed \cup {i}
  /\ UNCHANGED <<runVars, wp, ended, sealed, streamed, completing, jobVars, heartbeat,
                 runnerVars, view, suspendReq>>

-----------------------------------------------------------------------------
(* Completing waitpoints *)

\* A token is completed through the API or by its timeout: completeWaitpoint
\* starts with the waitpoint row.
CompleteToken(t) ==
  /\ wp[t] = "pending"
  /\ wp' = [wp EXCEPT ![t] = "completed"]
  /\ completing' = [completing EXCEPT ![t] = "notify"]
  /\ UNCHANGED <<runVars, edges, ended, sealed, streamed, processed, jobVars,
                 heartbeat, runnerVars, view, suspendReq>>

\* A child run reaches a final status and completes its waitpoint.
ChildEnds(c) ==
  /\ wp[c] = "pending" /\ c \notin ended
  /\ ended' = ended \cup {c}
  /\ completing' = [completing EXCEPT ![c] = "update"]
  /\ UNCHANGED <<runVars, edges, wp, sealed, streamed, processed, jobVars, heartbeat, runnerVars,
                 view, suspendReq>>

BatchDoneOffByOne(b) ==
  Cardinality(Awaited(b) \cap processed \cap ended) > Cardinality(Awaited(b))
BatchDone(b) == Awaited(b) \subseteq processed \cap ended

\* tryCompleteBatch: every item processed, every run of the batch final, and
\* the batch not yet over; it may be, before it is sealed.
TryCompleteBatch(b) ==
  /\ wp[b] # "none" /\ b \notin ended
  /\ BatchDone(b)
  /\ ended' = ended \cup {b} /\ sealed' = sealed \cup {b}
  /\ completing' = [completing EXCEPT ![b] = "update"]
  /\ UNCHANGED <<runVars, edges, wp, streamed, processed, jobVars, heartbeat,
                 runnerVars, view, suspendReq>>

\* expireBatch: a batch that was not sealed in time is aborted.
ExpireBatch(b) ==
  /\ wp[b] = "pending" /\ b \notin sealed \cup ended
  /\ ended' = ended \cup {b}
  /\ completing' = [completing EXCEPT ![b] = "update"]
  /\ UNCHANGED <<runVars, edges, wp, sealed, streamed, processed, jobVars, heartbeat,
                 runnerVars, view, suspendReq>>

\* completeWaitpoint of a run or a batch, first step: the waitpoint row.
CompleteWaitpoint(w) ==
  /\ completing[w] = "update"
  /\ wp' = [wp EXCEPT ![w] = "completed"]
  /\ completing' = [completing EXCEPT ![w] = "notify"]
  /\ UNCHANGED <<runVars, edges, ended, sealed, streamed, processed, jobVars, heartbeat,
                 runnerVars, view, suspendReq>>

\* Second step: schedule the continuation of the run if it has the edge.
NotifyBlockedRun(w) ==
  /\ completing[w] = "notify"
  /\ completing' = [completing EXCEPT ![w] = "idle"]
  /\ job' = (job \/ w \in edges)
  /\ UNCHANGED <<runVars, edges, wp, ended, sealed, streamed, processed, continuing, heartbeat,
                 runnerVars, view, suspendReq>>

\* The server dies between the final status of the run or batch and the end of
\* completeWaitpoint.  Nobody calls it again: a completion is refused once the
\* run is FINISHED, and a retried tryCompleteBatch finds the batch COMPLETED
\* and returns.  (A retried expireBatch goes on.)
CompleterCrash(w) ==
  /\ "completerCrash" \in Faults
  /\ w \in ended \ (Batches \ sealed)
  /\ completing[w] \in {"update", "notify"}
  /\ completing' = [completing EXCEPT ![w] = "idle"]
  /\ UNCHANGED <<runVars, edges, wp, ended, sealed, streamed, processed, jobVars, heartbeat,
                 runnerVars, view, suspendReq>>

-----------------------------------------------------------------------------
(* Continuing the run *)

UnblockedBySome == edges = {} \/ \E w \in edges : wp[w] = "completed"
Unblocked == Completed(edges)

ResumeAnyStatus ==
  /\ snap.status # "SUSPENDED"
  /\ NewSnapshot("EXECUTING", FALSE, edges)
  /\ UNCHANGED <<message, nacks>>
\* continueRunIfUnblocked on a run that still executes ...
ResumeExecuting ==
  /\ snap.status = "EXECUTING_WITH_WAITPOINTS"
  /\ NewSnapshot("EXECUTING", FALSE, edges)
  /\ UNCHANGED <<message, nacks>>

ResumeWithoutWaitpoints ==
  /\ snap.status = "SUSPENDED" /\ snap.ckpt
  /\ NewSnapshot("QUEUED", TRUE, {})
  /\ message' = TRUE /\ nacks' = 0
\* ... and on a suspended run, which enqueueRun puts back in the queue.
ResumeSuspended ==
  /\ snap.status = "SUSPENDED" /\ snap.ckpt
  /\ NewSnapshot("QUEUED", TRUE, edges)
  /\ message' = TRUE /\ nacks' = 0

\* In any other status it skips the run; for a suspended run without
\* checkpoint that is not canceled it throws.
SkipContinue ==
  /\ snap.status = "SUSPENDED" => ~snap.ckpt
  /\ snap.status # "EXECUTING_WITH_WAITPOINTS"
  /\ UNCHANGED <<snap, message, nacks, heartbeat, suspendReq, view, edges>>

\* The new snapshot carries the waitpoints read, and only their edges go.
ContinueRunIfUnblocked ==
  \/ ~Unblocked /\ UNCHANGED <<snap, message, nacks, heartbeat, suspendReq, view, edges>>
  \/ Unblocked /\ (ResumeExecuting \/ ResumeSuspended) /\ view' = "old" /\ edges' = {}
  \/ Unblocked /\ SkipContinue

\* The worker takes the job; a job enqueued meanwhile survives its ack.
TakeContinueJob ==
  /\ job /\ ~continuing
  /\ job' = FALSE /\ continuing' = TRUE
  /\ UNCHANGED <<runVars, edges, wpVars, heartbeat, runnerVars, view, suspendReq>>

HandleContinueJob ==
  /\ continuing /\ LockFree
  /\ ContinueRunIfUnblocked
  /\ continuing' = FALSE
  /\ UNCHANGED <<canceled, attempts, wpVars, job, runnerVars>>

\* The server dies after the new snapshot and before the edges are removed;
\* the job is delivered again.
ContinueCrash ==
  /\ "handlerCrash" \in Faults
  /\ continuing /\ LockFree /\ Unblocked
  /\ ResumeExecuting \/ ResumeSuspended
  /\ view' = "old"
  /\ continuing' = FALSE /\ job' = TRUE
  /\ UNCHANGED <<canceled, attempts, edges, wpVars, runnerVars>>

-----------------------------------------------------------------------------
(* The runner *)

\* The SnapshotManager is shown the latest snapshot: waitpoints that an
\* EXECUTING snapshot carries are delivered, BATCH waitpoints are ignored.
\* A runner whose process has returned only takes the new id.
RunnerSees ==
  /\ proc \in Live \cup {"restoring"} /\ ~IsLatest(view)
  /\ view' = "latest"
  /\ proc' = CASE proc = "returning" -> proc
               [] snap.status = "PENDING_CANCEL" -> "canceling"
               [] snap.status \in {"QUEUED", "FINISHED", "SUSPENDED"} ->
                    IF proc = "restoring" THEN "frozen" ELSE "none"
               [] snap.status = "EXECUTING" /\ proc = "restoring" -> "waiting"
               [] OTHER -> proc
  /\ got' = IF snap.status = "EXECUTING" THEN got \cup (snap.done \ Batches) ELSE got
  /\ UNCHANGED <<runVars, edges, wpVars, jobVars, heartbeat, call, awaits,
                 waits, suspendReq>>

\* Every awaited waitpoint has been delivered: the user's code carries on.
Proceed ==
  /\ proc = "waiting" /\ awaits \subseteq got
  /\ proc' = "running" /\ awaits' = {} /\ got' = got \ awaits
  /\ UNCHANGED <<runVars, edges, wpVars, jobVars, heartbeat, call, waits, view,
                 suspendReq>>

\* The user's code ends, well or not.
TaskReturns ==
  /\ proc = "running"
  /\ proc' = "returning"
  /\ UNCHANGED <<runVars, edges, wpVars, jobVars, heartbeat, call, awaits, got,
                 waits, view, suspendReq>>

RunnerCrash ==
  /\ "runnerCrash" \in Faults
  /\ proc \in Live \cup {"starting", "canceling", "restoring"}
  /\ proc' = IF proc = "restoring" THEN "frozen" ELSE "none"
  /\ UNCHANGED <<runVars, edges, wpVars, jobVars, heartbeat, call, awaits, got,
                 waits, view, suspendReq>>

\* checkSuspendableState and handleSuspendable: a process that waits asks to
\* be checkpointed, naming the snapshot it was shown.
RequestSuspend ==
  /\ proc = "waiting" /\ ~(awaits \subseteq got)
  /\ IsLatest(view) /\ snap.status = "EXECUTING_WITH_WAITPOINTS"
  /\ suspendReq = "none"
  /\ suspendReq' = "latest"
  /\ UNCHANGED <<runVars, edges, wpVars, jobVars, heartbeat, runnerVars, view>>

\* createCheckpoint: the checkpoint of a process that still waits on the
\* latest snapshot suspends the run ...
CreateCheckpoint ==
  /\ suspendReq # "none" /\ LockFree
  /\ IsLatest(suspendReq) /\ snap.status \in Executing \cup {"QUEUED"}
  /\ WriteSnapshot("SUSPENDED", TRUE, snap.done)
  /\ suspendReq' = "none" /\ view' = "old"
  /\ proc' = "frozen"
  /\ UNCHANGED <<canceled, message, nacks, attempts, edges, wpVars, jobVars,
                 call, awaits, got, waits>>

\* ... any other is discarded; or the checkpoint is never made.
DiscardCheckpoint ==
  /\ \/ suspendReq = "old" /\ LockFree
     \/ suspendReq = "latest" /\ "suspendFails" \in Faults
  /\ suspendReq' = "none"
  /\ UNCHANGED <<runVars, edges, wpVars, jobVars, heartbeat, runnerVars, view>>

-----------------------------------------------------------------------------
(* Stalled snapshots: #handleStalledSnapshot *)

\* The runner never started the attempt, or is slow to.
StalledPendingExecuting ==
  /\ snap.status = "PENDING_EXECUTING"
  /\ proc \notin {"starting", "restoring"} \/ "startSlow" \in Faults
  /\ TryNackAndRequeue(snap.ckpt, snap.done, edges)
  /\ view' = "old"

\* A live runner extends the heartbeat, so only a dead one lets it pass.
StalledExecuting ==
  /\ snap.status \in Executing /\ proc \in {"none", "frozen"}
  /\ RetryQueued \/ FailRun
  /\ view' = "old"

\* A suspended run is continued if it can be; if not, the heartbeat is
\* restarted (a limited number of times) while a run or a batch blocks it.
StalledSuspended ==
  /\ snap.status = "SUSPENDED"
  /\ \/ Unblocked /\ ResumeSuspended /\ edges' = {} /\ view' = "old"
     \/ /\ ~Unblocked \/ ~snap.ckpt
        /\ heartbeat' \in IF Unblocked \/ edges \subseteq Tokens
                          THEN {"old"} ELSE {"latest", "old"}
        /\ UNCHANGED <<snap, message, nacks, suspendReq, edges, view>>

\* The worker did not confirm the cancellation: the run is cancelled anyway.
StalledPendingCancel ==
  /\ snap.status = "PENDING_CANCEL"
  /\ Finish
  /\ view' = "old"
  /\ UNCHANGED edges

HandleStalledSnapshot ==
  /\ IsLatest(heartbeat) /\ LockFree
  /\ \/ StalledPendingExecuting
     \/ StalledExecuting
     \/ StalledSuspended
     \/ StalledPendingCancel
  /\ UNCHANGED <<canceled, attempts, wpVars, jobVars, runnerVars>>

-----------------------------------------------------------------------------
Attempt == Dequeue \/ StartAttempt \/ StartRejected \/ ContinueRunExecution
Complete == AttemptSucceeded \/ AttemptFailed \/ CompletionRejected
Block == BlockInsert \/ BlockRun \/ CallReturns \/ CallDropped
Continue == TakeContinueJob \/ HandleContinueJob
Runner == RunnerSees \/ Proceed \/ TaskReturns
Checkpoint == RequestSuspend \/ CreateCheckpoint \/ DiscardCheckpoint

Next ==
  \/ Attempt \/ Complete \/ CancelRun
  \/ \E w \in Waitpoint : BeginWait(w)
  \/ Block \/ BlockCrash
  \/ \E i \in Items : StreamItem(i) \/ CreateItem(i) \/ BlockLockless(i)
  \/ \E t \in Tokens : CompleteToken(t)
  \/ \E c \in Children \cup Items : ChildEnds(c)
  \/ \E b \in Batches : TryCompleteBatch(b) \/ ExpireBatch(b)
  \/ \E w \in Waitpoint : CompleteWaitpoint(w) \/ NotifyBlockedRun(w)
                        \/ CompleterCrash(w)
  \/ Continue \/ ContinueCrash
  \/ Runner \/ RunnerCrash
  \/ Checkpoint
  \/ HandleStalledSnapshot

Spec == Init /\ [][Next]_vars

\* The engine's workers, the batch queue, the worker queue's consumers and the
\* runner's poller run for ever.  A crash repeats only so often: the retried
\* call or job is in the end carried through (SF).  Nothing is assumed of the
\* user's code, of tokens, of child runs, of the checkpoint service or of
\* expiry.
Fairness ==
  /\ WF_vars(Attempt) /\ WF_vars(Complete) /\ WF_vars(HandleStalledSnapshot)
  /\ WF_vars(BlockInsert) /\ SF_vars(BlockRun)
  /\ WF_vars(CallReturns) /\ WF_vars(CallDropped)
  /\ \A i \in Items :
       WF_vars(StreamItem(i)) /\ WF_vars(CreateItem(i)) /\ WF_vars(BlockLockless(i))
  /\ \A b \in Batches : WF_vars(TryCompleteBatch(b))
  /\ \A w \in Waitpoint :
       WF_vars(CompleteWaitpoint(w)) /\ WF_vars(NotifyBlockedRun(w))
  /\ WF_vars(TakeContinueJob) /\ SF_vars(HandleContinueJob)
  /\ WF_vars(RunnerSees) /\ WF_vars(Proceed)
  /\ WF_vars(CreateCheckpoint) /\ WF_vars(DiscardCheckpoint)

FairSpec == Spec /\ Fairness

-----------------------------------------------------------------------------
(* Properties *)

TypeOK ==
  /\ snap \in [status : Statuses, ckpt : BOOLEAN, done : SUBSET Waitpoint]
  /\ canceled \in BOOLEAN /\ message \in BOOLEAN
  /\ nacks \in 0..MaxNacks /\ attempts \in 0..MaxAttempts /\ waits \in 0..MaxWaits
  /\ edges \subseteq Waitpoint
  /\ wp \in [Waitpoint -> {"none", "pending", "completed"}]
  /\ ended \subseteq Children \cup Items \cup Batches
  /\ sealed \subseteq Batches /\ streamed \subseteq Items /\ processed \subseteq streamed
  /\ completing \in [Waitpoint -> {"idle", "update", "notify"}]
  /\ job \in BOOLEAN /\ continuing \in BOOLEAN
  /\ heartbeat \in {"latest", "old"} /\ view \in {"latest", "old"}
  /\ suspendReq \in {"none", "latest", "old"}
  /\ call \in [target : Waitpoint \cup {None},
               stage : {"none", "sent", "inserted", "answered"}]
  /\ proc \in Phases
  /\ awaits \subseteq Waitpoint /\ got \subseteq Waitpoint

\* The run of a process that waits, in memory or in its checkpoint.
Waiting ==
  \/ proc = "waiting" /\ snap.status \in Executing
  \/ proc \in {"frozen", "restoring"} /\ snap.ckpt
  \/ proc = "restoring" /\ snap.status = "EXECUTING"

\* A wait is never forgotten.  Each waitpoint that a waiting process still
\* lacks is an edge of the run, is carried by its latest snapshot, or is an
\* item not yet processed of a batch that is itself an edge: through every
\* snapshot that is written, dropped or requeued meanwhile, and a checkpoint
\* or a continuation that is late.
AwaitedTracked ==
  Waiting => \A w \in awaits \ got :
    \/ w \in edges \/ w \in snap.done
    \/ w \in Items \ processed /\ BatchOf[w] \in edges

\* No run is resumed before its time: the waitpoints a snapshot carries are
\* completed, and an EXECUTING snapshot written for a waiting process brings
\* everything that process lacks.
NoPartialResume ==
  /\ Completed(snap.done)
  /\ Waiting /\ snap.status = "EXECUTING" => awaits \subseteq got \cup snap.done

\* A suspended run can be restored: continueRunIfUnblocked throws when it
\* meets a SUSPENDED snapshot that has no checkpoint.
SuspendedHasCheckpoint == snap.status = "SUSPENDED" => snap.ckpt

\* A canceled run starts no further attempt: neither a retry that crosses the
\* cancellation, nor a requeue by its heartbeat, nor a runner that was slow.
CanceledNeverStarts == [][canceled => attempts' = attempts]_vars

\* A finished run stays finished, whatever calls and jobs about it are late.
FinishedStays == [][snap.status = "FINISHED" => snap'.status = "FINISHED"]_vars

\* A wait whose waitpoints are all completed ends: the user's code carries on,
\* or its attempt is over.  (Pending edges that an earlier attempt's batch
\* left behind may hold it up.)
ReadyToResume ==
  /\ proc \in {"waiting", "frozen"} /\ Waiting
  /\ Completed(awaits) /\ Completed(edges)
WaitEnds == ReadyToResume ~> ~ReadyToResume

\* Cancelling a run ends it, also when its runner never answers.
CanceledFinishes == canceled ~> snap.status = "FINISHED"

\* A batch whose runs have all finished releases the parent that waits for it.
HeldByBatch(b) ==
  /\ proc \in {"waiting", "frozen"} /\ Waiting
  /\ awaits = Awaited(b) /\ Completed(awaits)
  /\ b \in edges /\ awaits \subseteq processed /\ Completed(edges \ {b})
BatchReleasesParent == \A b \in Batches : HeldByBatch(b) ~> ~HeldByBatch(b)

=============================================================================
