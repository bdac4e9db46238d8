--------------------------- MODULE WaitpointsProofs ---------------------------
(***************************************************************************)
(* What is proved of Waitpoints for any waitpoints and bounds, under every *)
(* fault but calls that are late.                                          *)
(***************************************************************************)
EXTENDS Waitpoints, TLAPS

USE WaitpointSetsAssumption, WaitpointBoundsAssumption

-----------------------------------------------------------------------------
(* The inductive invariant *)

\* A blocking call between its two steps holds the lock: the run executes, the
\* edge is there, and a batch has no items yet.
BlockInv ==
  call.stage = "inserted" =>
    /\ snap.status \in Executing /\ proc \in {"calling", "none"}
    /\ call.target \in edges

\* Calls block on what can be waited for; an item that became a run was
\* streamed.
TypeInv ==
  /\ TypeOK
  /\ call.stage # "none" => call.target \in Tokens \cup Children \cup Batches
  /\ \A i \in Items : wp[i] # "none" \/ completing[i] # "idle" => i \in streamed

\* A batch has no items before the call that blocks its parent is answered.
StreamInv ==
  /\ call.stage \in {"sent", "inserted"} /\ call.target \in Batches =>
       Awaited(call.target) \cap streamed = {}
  /\ \A b \in Batches : wp[b] = "none" =>
       Awaited(b) \cap streamed = {} /\ (call.stage # "none" => call.target # b)

\* A completed batch is over; over and sealed, its items are processed.
BatchInv ==
  \A b \in Batches :
    /\ wp[b] = "completed" \/ completing[b] # "idle" => b \in ended
    /\ b \in ended \cap sealed => Awaited(b) \subseteq processed

\* What a process awaits: no batch itself, and items of sealed batches only.
AwaitInv ==
  /\ awaits \subseteq Tokens \cup Children \cup Items
  /\ \A i \in awaits \cap Items : BatchOf[i] \in sealed

\* Where a checkpoint is, no process runs; a restored runner never finds the
\* run blocked.
CheckpointInv ==
  /\ snap.ckpt => proc \in {"frozen", "restoring"}
               /\ snap.status \in {"SUSPENDED", "QUEUED", "PENDING_EXECUTING"}
  /\ proc = "restoring" => snap.status # "EXECUTING_WITH_WAITPOINTS"
  /\ proc = "restoring" /\ snap.status = "PENDING_EXECUTING" => snap.ckpt
  /\ suspendReq = "latest" => snap.status = "EXECUTING_WITH_WAITPOINTS"
  /\ SuspendedHasCheckpoint

\* The waitpoints S, which a process lacks, are edges of the run, or items to
\* come of a batch that is one.
Blocking(S) ==
  \A w \in S : w \in edges \/ (w \in Items \ processed /\ BatchOf[w] \in edges)

\* While the run is blocked its edges hold what is lacking; from then on its
\* snapshot carries it.
Held(S) == IF snap.status \in {"EXECUTING_WITH_WAITPOINTS", "SUSPENDED"}
           THEN Blocking(S) ELSE S \subseteq snap.done

WaitInv == Waiting \/ suspendReq = "latest" => Held(awaits \ got)
CallInv ==
  /\ proc = "calling" /\ call.stage = "answered" /\ snap.status \in Executing
  /\ call.target \notin (Batches \cap ended) \ sealed
  => Held(Awaited(call.target) \ got)

\* The waitpoints that a snapshot carries are completed.
DoneInv == Completed(snap.done)

WInv ==
  /\ TypeInv /\ BlockInv /\ StreamInv /\ BatchInv /\ AwaitInv /\ CheckpointInv
  /\ WaitInv /\ CallInv /\ DoneInv

\* A canceled run is stopped or being stopped, or its runner has given up after
\* a retry that crossed the cancellation; nothing is left that could start it.
CancelInv ==
  canceled =>
    /\ message = FALSE /\ suspendReq # "latest" /\ call.stage # "inserted"
    /\ \/ snap.status \in {"PENDING_CANCEL", "FINISHED"}
       \/ snap.status = "EXECUTING" /\ proc = "none"

-----------------------------------------------------------------------------
(* Three kinds of steps: of the run, of a call that blocks it, of waitpoints *)

RunStep ==
  \/ Attempt \/ Complete \/ CancelRun \/ Continue \/ ContinueCrash
  \/ Runner \/ RunnerCrash \/ Checkpoint \/ HandleStalledSnapshot
BlockStep == Block \/ BlockCrash \/ \E w \in Waitpoint : BeginWait(w)
WaitpointStep ==
  \/ \E i \in Items : StreamItem(i) \/ CreateItem(i) \/ BlockLockless(i)
  \/ \E t \in Tokens : CompleteToken(t)
  \/ \E c \in Children \cup Items : ChildEnds(c)
  \/ \E b \in Batches : TryCompleteBatch(b) \/ ExpireBatch(b)
  \/ \E w \in Waitpoint :
       CompleteWaitpoint(w) \/ NotifyBlockedRun(w) \/ CompleterCrash(w)

LEMMA StepKinds ==
  ASSUME [Next]_vars
  PROVE  RunStep \/ BlockStep \/ WaitpointStep \/ UNCHANGED vars
<1>1. ASSUME NEW i \in Items, StreamItem(i) \/ CreateItem(i) \/ BlockLockless(i)
      PROVE WaitpointStep
  BY <1>1, Zenon DEF WaitpointStep
<1>2. ASSUME NEW t \in Tokens, CompleteToken(t) PROVE WaitpointStep
  BY <1>2, Zenon DEF WaitpointStep
<1>3. ASSUME NEW c \in Children \cup Items, ChildEnds(c) PROVE WaitpointStep
  BY <1>3, Zenon DEF WaitpointStep
<1>4. ASSUME NEW b \in Batches, TryCompleteBatch(b) \/ ExpireBatch(b) PROVE WaitpointStep
  BY <1>4, Zenon DEF WaitpointStep
<1>5. ASSUME NEW w \in Waitpoint,
             CompleteWaitpoint(w) \/ NotifyBlockedRun(w) \/ CompleterCrash(w)
      PROVE WaitpointStep
  BY <1>5, Zenon DEF WaitpointStep
<1> QED  BY <1>1, <1>2, <1>3, <1>4, <1>5 DEF Next, RunStep, BlockStep

\* A step of the run touches neither the call nor the waitpoints.
LEMMA RunStepFrame == ASSUME RunStep \/ UNCHANGED vars PROVE UNCHANGED <<call, wpVars>>
<1> USE DEF vars, runVars, wpVars, jobVars, runnerVars
<1>1. CASE Attempt
  BY <1>1 DEF Attempt, Dequeue, StartAttempt, StartRejected, ContinueRunExecution
<1>2. CASE Complete \/ CancelRun
  BY <1>2 DEF Complete, AttemptSucceeded, AttemptFailed, CompletionRejected, CancelRun
<1>3. CASE Continue \/ ContinueCrash
  BY <1>3 DEF Continue, TakeContinueJob, HandleContinueJob, ContinueCrash
<1>4. CASE Runner \/ RunnerCrash
  BY <1>4 DEF Runner, RunnerSees, Proceed, TaskReturns, RunnerCrash
<1>5. CASE Checkpoint \/ HandleStalledSnapshot
  BY <1>5 DEF Checkpoint, RequestSuspend, CreateCheckpoint, DiscardCheckpoint,
              HandleStalledSnapshot
<1> QED  BY <1>1, <1>2, <1>3, <1>4, <1>5 DEF RunStep

\* A call that goes on keeps its target.
LEMMA CallStepFrame ==
  ASSUME TypeOK, BlockInsert \/ BlockRun \/ BlockCrash
  PROVE  /\ call.stage \in {"sent", "inserted"} /\ call'.target = call.target
         /\ call'.stage = "sent" => call.target \in Tokens
         /\ UNCHANGED wpVars
<1>1. \A st \in STRING : [call EXCEPT !.stage = st].target = call.target
                       /\ [call EXCEPT !.stage = st].stage = st
  BY DEF TypeOK
<1>2. CASE BlockInsert  BY <1>1, <1>2 DEF BlockInsert
<1>3. CASE BlockRun
  <2>1. call.stage = "inserted" /\ call' = [call EXCEPT !.stage = "answered"]
    BY <1>3, Zenon DEF BlockRun
  <2>2. UNCHANGED wpVars  BY <1>3, Zenon DEF BlockRun, wpVars
  <2> QED  BY <1>1, <2>1, <2>2
<1>4. CASE BlockCrash  BY <1>1, <1>4 DEF BlockCrash
<1> QED  BY <1>2, <1>3, <1>4

\* A step of a waitpoint touches neither the run, but for its edges and its job,
\* nor the runner; what it adds to the edges and to the state of waitpoints stays.
WaitpointFrame ==
  /\ UNCHANGED <<runVars, continuing, heartbeat, runnerVars, view, suspendReq>>
  /\ edges \subseteq edges' /\ processed \subseteq processed'
  /\ ended \subseteq ended' /\ sealed \subseteq sealed'
  /\ sealed' \cap ended \subseteq sealed
  /\ processed' \ processed \subseteq edges'
  /\ \A w \in Waitpoint : wp[w] = "completed" => wp'[w] = "completed"

LEMMA WaitpointStepFrame == ASSUME TypeInv, WaitpointStep PROVE WaitpointFrame
<1> USE DEF WaitpointFrame, TypeInv, TypeOK, runVars, jobVars, runnerVars, Waitpoint
<1>1. ASSUME NEW i \in Items, StreamItem(i) PROVE WaitpointFrame  BY <1>1 DEF StreamItem
<1>2. ASSUME NEW i \in Items, CreateItem(i) PROVE WaitpointFrame  BY <1>2 DEF CreateItem
<1>3. ASSUME NEW i \in Items, BlockLockless(i) PROVE WaitpointFrame  BY <1>3 DEF BlockLockless
<1>4. ASSUME NEW t \in Tokens, CompleteToken(t) PROVE WaitpointFrame  BY <1>4 DEF CompleteToken
<1>5. ASSUME NEW c \in Children \cup Items, ChildEnds(c) PROVE WaitpointFrame
  BY <1>5 DEF ChildEnds
<1>6. ASSUME NEW b \in Batches, TryCompleteBatch(b) \/ ExpireBatch(b) PROVE WaitpointFrame
  BY <1>6 DEF TryCompleteBatch, ExpireBatch
<1>7. ASSUME NEW w \in Waitpoint, CompleteWaitpoint(w) PROVE WaitpointFrame
  BY <1>7 DEF CompleteWaitpoint
<1>8. ASSUME NEW w \in Waitpoint, NotifyBlockedRun(w) PROVE WaitpointFrame
  BY <1>8 DEF NotifyBlockedRun
<1>9. ASSUME NEW w \in Waitpoint, CompleterCrash(w) PROVE WaitpointFrame
  BY <1>9 DEF CompleterCrash
<1> QED
  BY <1>1, <1>2, <1>3, <1>4, <1>5, <1>6, <1>7, <1>8, <1>9 DEF WaitpointStep

-----------------------------------------------------------------------------
(* Types *)

SnapshotTypes ==
  /\ snap \in [status : Statuses, ckpt : BOOLEAN, done : SUBSET Waitpoint]
  /\ message \in BOOLEAN /\ nacks \in 0..MaxNacks
  /\ edges \subseteq Waitpoint
  /\ heartbeat \in {"latest", "old"} /\ suspendReq \in {"none", "latest", "old"}

LEMMA NewSnapshotType ==
  ASSUME TypeOK, NEW status \in Statuses, NEW ckpt \in BOOLEAN,
         NEW done \in SUBSET Waitpoint, NewSnapshot(status, ckpt, done)
  PROVE  /\ snap' \in [status : Statuses, ckpt : BOOLEAN, done : SUBSET Waitpoint]
         /\ heartbeat' \in {"latest", "old"} /\ suspendReq' \in {"none", "latest", "old"}
  BY DEF NewSnapshot, WriteSnapshot

LEMMA StatusesAreStatuses ==
  /\ "QUEUED" \in Statuses /\ "FINISHED" \in Statuses /\ "EXECUTING" \in Statuses
  /\ "EXECUTING_WITH_WAITPOINTS" \in Statuses /\ "PENDING_EXECUTING" \in Statuses
  /\ "PENDING_CANCEL" \in Statuses /\ "SUSPENDED" \in Statuses
  BY DEF Statuses, Heartbeaten, Executing

LEMMA TypesUnfolded ==
  ASSUME TypeOK
  PROVE  /\ SnapshotTypes
         /\ snap.status \in Statuses /\ snap.ckpt \in BOOLEAN /\ snap.done \in SUBSET Waitpoint
  BY DEF TypeOK, SnapshotTypes

LEMMA FinishType == ASSUME TypeOK, Finish, edges' = edges \/ edges' = {} PROVE SnapshotTypes'
  BY NewSnapshotType, StatusesAreStatuses, TypesUnfolded DEF Finish, SnapshotTypes

LEMMA RequeueType ==
  ASSUME TypeOK, NEW ckpt \in BOOLEAN, NEW done \in SUBSET Waitpoint,
         NEW kept \in SUBSET Waitpoint, TryNackAndRequeue(ckpt, done, kept)
  PROVE  SnapshotTypes'
<1>1. CASE Finish /\ edges' = {}  BY <1>1, FinishType
<1>2. CASE /\ NacksLeft /\ nacks' = nacks + 1 /\ edges' = kept /\ message' = message
           /\ NewSnapshot("QUEUED", ckpt, done)
  <2>1. nacks' \in 0..MaxNacks  BY <1>2, SMT DEF NacksLeft, TypeOK
  <2> QED
    BY <1>2, <2>1, NewSnapshotType, StatusesAreStatuses, TypesUnfolded DEF SnapshotTypes
<1> QED  BY <1>1, <1>2 DEF TryNackAndRequeue

LEMMA RetryType ==
  ASSUME TypeOK, RetryQueued \/ FailRun \/ RetryImmediately
  PROVE  SnapshotTypes'
<1>1. CASE RetryQueued  BY <1>1, RequeueType DEF RetryQueued
<1>2. CASE FailRun  BY <1>2, FinishType DEF FailRun
<1>3. CASE RetryImmediately
  BY <1>3, NewSnapshotType, StatusesAreStatuses, TypesUnfolded
     DEF RetryImmediately, SnapshotTypes
<1> QED  BY <1>1, <1>2, <1>3

LEMMA ResumeType ==
  ASSUME TypeOK, ResumeExecuting \/ ResumeSuspended, edges' = edges \/ edges' = {}
  PROVE  SnapshotTypes'
<1>1. edges \in SUBSET Waitpoint  BY DEF TypeOK
<1>2. 0 \in 0..MaxNacks  BY SMT
<1> QED
  BY <1>1, <1>2, NewSnapshotType, StatusesAreStatuses, TypesUnfolded
     DEF ResumeExecuting, ResumeSuspended, SnapshotTypes

LEMMA AttemptTypes == ASSUME TypeOK, Attempt PROVE TypeOK'
<1>1. CASE Dequeue
  BY <1>1, NewSnapshotType, StatusesAreStatuses, TypesUnfolded
     DEF Dequeue, TypeOK, wpVars, jobVars, Phases
<1>2. CASE StartAttempt
  <2>1. attempts' \in 0..MaxAttempts  BY <1>2, SMT DEF StartAttempt, TypeOK
  <2> QED
    BY <1>2, <2>1, NewSnapshotType, StatusesAreStatuses, TypesUnfolded
       DEF StartAttempt, TypeOK, wpVars, jobVars, Phases, Live
<1>3. CASE StartRejected
  BY <1>3 DEF StartRejected, TypeOK, runVars, wpVars, jobVars, Phases
<1>4. CASE ContinueRunExecution
  BY <1>4, NewSnapshotType, StatusesAreStatuses, TypesUnfolded
     DEF ContinueRunExecution, TypeOK, wpVars, jobVars
<1> QED  BY <1>1, <1>2, <1>3, <1>4 DEF Attempt

LEMMA CompleteTypes == ASSUME TypeOK, Complete \/ CancelRun PROVE TypeOK'
<1>1. CASE AttemptSucceeded
  BY <1>1, FinishType DEF AttemptSucceeded, SnapshotTypes, TypeOK, wpVars, jobVars, Phases
<1>2. CASE AttemptFailed
  <2>1. SnapshotTypes'  BY <1>2, RetryType DEF AttemptFailed
  <2> QED  BY <1>2, <2>1 DEF AttemptFailed, SnapshotTypes, TypeOK, wpVars, jobVars, Phases
<1>3. CASE CompletionRejected
  BY <1>3 DEF CompletionRejected, TypeOK, runVars, wpVars, jobVars, Phases
<1>4. CASE CancelRun
  <2>1. SnapshotTypes'
    BY <1>4, FinishType, NewSnapshotType, StatusesAreStatuses, TypesUnfolded
       DEF CancelRun, SnapshotTypes
  <2> QED  BY <1>4, <2>1 DEF CancelRun, SnapshotTypes, TypeOK, wpVars, jobVars, runnerVars
<1> QED  BY <1>1, <1>2, <1>3, <1>4 DEF Complete

LEMMA BlockTypes == ASSUME TypeInv, BlockStep PROVE TypeOK'
<1>0. TypeOK /\ (call.stage # "none" => call.target \in Waitpoint)
  BY DEF TypeInv, Waitpoint
<1> USE <1>0 DEF TypeOK, runVars, wpVars, jobVars, Phases, Live
<1>1. ASSUME NEW w \in Waitpoint, BeginWait(w) PROVE TypeOK'
  <2>1. waits' \in 0..MaxWaits  BY <1>1, SMT DEF BeginWait
  <2> QED  BY <1>1, <2>1 DEF BeginWait
<1>2. CASE BlockInsert
  <2>1. call.target \in Waitpoint  BY <1>2 DEF BlockInsert
  <2>2. call' \in [target : Waitpoint \cup {None}, stage : {"none", "sent", "inserted", "answered"}]
    BY <1>2 DEF BlockInsert
  <2>3. edges' \subseteq Waitpoint  BY <1>2, <2>1 DEF BlockInsert
  <2> QED  BY <1>2, <2>2, <2>3 DEF BlockInsert
<1>3. CASE BlockRun
  <2>1. SnapshotTypes' /\ view' \in {"latest", "old"}
    BY <1>3, NewSnapshotType, StatusesAreStatuses, TypesUnfolded
       DEF BlockRun, SnapshotTypes
  <2>2. job' \in BOOLEAN  BY <1>3 DEF BlockRun, ContinueAfterBlock
  <2> QED  BY <1>3, <2>1, <2>2 DEF BlockRun, SnapshotTypes
<1>4. CASE CallReturns
  <2>1. call.target \in Waitpoint  BY <1>4 DEF CallReturns
  <2>2. Awaited(call.target) \subseteq Waitpoint  BY <2>1 DEF Awaited, Waitpoint
  <2> QED  BY <1>4, <2>2 DEF CallReturns
<1>5. CASE CallDropped  BY <1>5 DEF CallDropped
<1>6. CASE BlockCrash  BY <1>6 DEF BlockCrash
<1> QED  BY <1>1, <1>2, <1>3, <1>4, <1>5, <1>6 DEF BlockStep, Block

LEMMA WaitpointTypes == ASSUME TypeInv, WaitpointStep PROVE TypeOK'
<1>0. TypeOK /\ \A i \in Items : wp[i] # "none" => i \in streamed  BY DEF TypeInv
<1> USE <1>0 DEF TypeOK, runVars, jobVars, runnerVars, Waitpoint
<1>1. ASSUME NEW i \in Items, StreamItem(i) \/ CreateItem(i) \/ BlockLockless(i) PROVE TypeOK'
  <2>1. CASE StreamItem(i)  BY <2>1 DEF StreamItem
  <2>2. CASE CreateItem(i)  BY <2>2 DEF CreateItem
  <2>3. CASE BlockLockless(i)
    <3>1. i \in streamed  BY <2>3 DEF BlockLockless
    <3> QED  BY <2>3, <3>1 DEF BlockLockless
  <2> QED  BY <1>1, <2>1, <2>2, <2>3
<1>2. ASSUME NEW t \in Tokens, CompleteToken(t) PROVE TypeOK'  BY <1>2 DEF CompleteToken
<1>3. ASSUME NEW c \in Children \cup Items, ChildEnds(c) PROVE TypeOK'  BY <1>3 DEF ChildEnds
<1>4. ASSUME NEW b \in Batches, TryCompleteBatch(b) \/ ExpireBatch(b) PROVE TypeOK'
  BY <1>4 DEF TryCompleteBatch, ExpireBatch
<1>5. ASSUME NEW w \in Waitpoint,
             CompleteWaitpoint(w) \/ NotifyBlockedRun(w) \/ CompleterCrash(w)
      PROVE TypeOK'
  <2>1. CASE CompleteWaitpoint(w)  BY <2>1 DEF CompleteWaitpoint
  <2>2. CASE NotifyBlockedRun(w)
    <3>1. job' \in BOOLEAN  BY <2>2, Zenon DEF NotifyBlockedRun
    <3> QED  BY <2>2, <3>1 DEF NotifyBlockedRun
  <2>3. CASE CompleterCrash(w)  BY <2>3 DEF CompleterCrash
  <2> QED  BY <1>5, <2>1, <2>2, <2>3
<1> QED  BY <1>1, <1>2, <1>3, <1>4, <1>5 DEF WaitpointStep

LEMMA ContinueTypes == ASSUME TypeOK, Continue \/ ContinueCrash PROVE TypeOK'
<1>1. CASE TakeContinueJob
  BY <1>1 DEF TakeContinueJob, TypeOK, runVars, wpVars, runnerVars
<1>2. CASE HandleContinueJob
  <2>1. SnapshotTypes' /\ view' \in {"latest", "old"}
    <3>1. CASE UNCHANGED <<snap, message, nacks, heartbeat, suspendReq, view, edges>>
      BY <3>1 DEF SnapshotTypes, TypeOK
    <3>2. CASE (ResumeExecuting \/ ResumeSuspended) /\ view' = "old" /\ edges' = {}
      BY <3>2, ResumeType
    <3> QED
      BY <1>2, <3>1, <3>2 DEF HandleContinueJob, ContinueRunIfUnblocked, SkipContinue
  <2> QED
    BY <1>2, <2>1 DEF HandleContinueJob, SnapshotTypes, TypeOK, wpVars, runnerVars
<1>3. CASE ContinueCrash
  <2>1. SnapshotTypes'  BY <1>3, ResumeType DEF ContinueCrash
  <2> QED  BY <1>3, <2>1 DEF ContinueCrash, SnapshotTypes, TypeOK, wpVars, runnerVars
<1> QED  BY <1>1, <1>2, <1>3 DEF Continue

LEMMA RunnerTypes == ASSUME TypeOK, Runner \/ RunnerCrash \/ Checkpoint PROVE TypeOK'
<1> USE DEF TypeOK, runVars, wpVars, jobVars, runnerVars, Phases, Live
<1>1. CASE RunnerSees
  <2>1. snap.done \subseteq Waitpoint  OBVIOUS
  <2>2. proc' \in Phases  BY <1>1 DEF RunnerSees
  <2> QED  BY <1>1, <2>1, <2>2 DEF RunnerSees
<1>2. CASE Proceed  BY <1>2 DEF Proceed
<1>3. CASE TaskReturns  BY <1>3 DEF TaskReturns
<1>4. CASE RunnerCrash  BY <1>4 DEF RunnerCrash
<1>5. CASE RequestSuspend  BY <1>5 DEF RequestSuspend
<1>6. CASE CreateCheckpoint
  BY <1>6, StatusesAreStatuses DEF CreateCheckpoint, WriteSnapshot
<1>7. CASE DiscardCheckpoint  BY <1>7 DEF DiscardCheckpoint
<1> QED  BY <1>1, <1>2, <1>3, <1>4, <1>5, <1>6, <1>7 DEF Runner, Checkpoint

LEMMA StalledTypes == ASSUME TypeOK, HandleStalledSnapshot PROVE TypeOK'
<1>1. SnapshotTypes' /\ view' \in {"latest", "old"}
  <2>1. CASE StalledPendingExecuting
    BY <2>1, RequeueType, TypesUnfolded DEF StalledPendingExecuting, SnapshotTypes
  <2>2. CASE StalledExecuting  BY <2>2, RetryType DEF StalledExecuting
  <2>3. CASE StalledSuspended
    <3>1. CASE ResumeSuspended /\ edges' = {} /\ view' = "old"  BY <3>1, ResumeType
    <3>2. CASE /\ heartbeat' \in {"latest", "old"}
               /\ UNCHANGED <<snap, message, nacks, suspendReq, edges, view>>
      BY <3>2 DEF SnapshotTypes, TypeOK
    <3> QED  BY <2>3, <3>1, <3>2 DEF StalledSuspended
  <2>4. CASE StalledPendingCancel  BY <2>4, FinishType DEF StalledPendingCancel
  <2> QED  BY <2>1, <2>2, <2>3, <2>4 DEF HandleStalledSnapshot
<1> QED
  BY <1>1 DEF HandleStalledSnapshot, SnapshotTypes, TypeOK, wpVars, jobVars, runnerVars

LEMMA TypeStep == TypeInv /\ [Next]_vars => TypeOK'
<1> SUFFICES ASSUME TypeInv, [Next]_vars PROVE TypeOK'  OBVIOUS
<1>0. TypeOK  BY DEF TypeInv
<1>1. CASE UNCHANGED vars
  BY <1>0, <1>1 DEF vars, runVars, wpVars, jobVars, runnerVars, TypeOK
<1> QED
  BY <1>0, <1>1, AttemptTypes, CompleteTypes, BlockTypes, WaitpointTypes, ContinueTypes,
     RunnerTypes, StalledTypes, StepKinds DEF RunStep

LEMMA TypeInit == Init => TypeInv
<1> SUFFICES ASSUME Init PROVE TypeInv  OBVIOUS
<1>1. 0 \in 0..MaxNacks /\ 0 \in 0..MaxAttempts /\ 0 \in 0..MaxWaits  BY SMT
<1>2. wp \in [Waitpoint -> {"none", "pending", "completed"}] /\ \A i \in Items : wp[i] = "none"
  BY DEF Init, Waitpoint
<1>3. snap \in [status : Statuses, ckpt : BOOLEAN, done : SUBSET Waitpoint]
  BY StatusesAreStatuses DEF Init
<1>4. call.stage = "none"
      /\ call \in [target : Waitpoint \cup {None},
                   stage : {"none", "sent", "inserted", "answered"}]
  BY DEF Init
<1> QED  BY <1>1, <1>2, <1>3, <1>4 DEF Init, TypeInv, TypeOK, Waitpoint, Phases

-----------------------------------------------------------------------------
(* Calls, batches and their items *)

LEMMA TypeInvStep == ASSUME TypeInv, [Next]_vars PROVE TypeInv'
<1> USE DEF TypeInv, TypeOK, runVars, wpVars, jobVars, runnerVars, Waitpoint
<1>1. CASE RunStep \/ UNCHANGED vars
  BY <1>1, RunStepFrame, TypeStep
<1>2. CASE BlockStep
  <2>1. ASSUME NEW w \in Waitpoint, BeginWait(w) PROVE TypeInv'
    BY <2>1, TypeStep DEF BeginWait
  <2>2. CASE BlockInsert \/ BlockRun \/ BlockCrash
    BY <2>2, CallStepFrame, TypeStep
  <2>3. CASE CallReturns \/ CallDropped
    BY <2>3, TypeStep DEF CallReturns, CallDropped
  <2> QED  BY <1>2, <2>1, <2>2, <2>3 DEF BlockStep, Block
<1>3. CASE WaitpointStep
  <2>1. TypeOK' /\ call' = call  BY <1>3, TypeStep, WaitpointStepFrame DEF WaitpointFrame
  <2>2. ASSUME NEW i \in Items, wp'[i] # "none" \/ completing'[i] # "idle"
        PROVE  i \in streamed'
    <3>1. ASSUME NEW j \in Items, StreamItem(j) PROVE i \in streamed'
      BY <2>2, <3>1 DEF StreamItem
    <3>2. ASSUME NEW j \in Items, CreateItem(j) \/ BlockLockless(j) PROVE i \in streamed'
      BY <2>2, <3>2 DEF CreateItem, BlockLockless
    <3>3. ASSUME NEW t \in Tokens, CompleteToken(t) PROVE i \in streamed'
      BY <2>2, <3>3 DEF CompleteToken
    <3>4. ASSUME NEW c \in Children \cup Items, ChildEnds(c) PROVE i \in streamed'
      BY <2>2, <3>4 DEF ChildEnds
    <3>5. ASSUME NEW b \in Batches, TryCompleteBatch(b) \/ ExpireBatch(b)
          PROVE i \in streamed'
      BY <2>2, <3>5 DEF TryCompleteBatch, ExpireBatch
    <3>6. ASSUME NEW w \in Waitpoint,
                 CompleteWaitpoint(w) \/ NotifyBlockedRun(w) \/ CompleterCrash(w)
          PROVE i \in streamed'
      BY <2>2, <3>6 DEF CompleteWaitpoint, NotifyBlockedRun, CompleterCrash
    <3> QED  BY <1>3, <3>1, <3>2, <3>3, <3>4, <3>5, <3>6 DEF WaitpointStep
  <2> QED  BY <2>1, <2>2
<1> QED  BY <1>1, <1>2, <1>3, StepKinds

LEMMA StreamStep == ASSUME TypeInv, StreamInv, [Next]_vars PROVE StreamInv'
<1> USE DEF TypeInv, StreamInv, TypeOK, runVars, wpVars, jobVars, runnerVars, Waitpoint
<1>0. \A b \in Batches : Awaited(b) = {i \in Items : BatchOf[i] = b} /\ Awaited(b)' = Awaited(b)
  BY DEF Awaited
<1>1. CASE RunStep \/ UNCHANGED vars
  BY <1>0, <1>1, RunStepFrame
<1>2. CASE BlockStep
  <2>1. ASSUME NEW w \in Waitpoint, BeginWait(w) PROVE StreamInv'
    <3>1. call'.stage = "sent" /\ call'.target = w /\ streamed' = streamed
      BY <2>1 DEF BeginWait
    <3>2. w \in Batches => wp[w] = "none" /\ wp'[w] = "pending"
      BY <2>1 DEF BeginWait
    <3>3. \A b \in Batches : wp'[b] = "none" => wp[b] = "none"
      BY <2>1 DEF BeginWait
    <3> QED  BY <1>0, <3>1, <3>2, <3>3
  <2>2. CASE BlockInsert \/ BlockRun \/ BlockCrash
    BY <1>0, <2>2, CallStepFrame
  <2>3. CASE CallReturns \/ CallDropped
    BY <1>0, <2>3 DEF CallReturns, CallDropped
  <2> QED  BY <1>2, <2>1, <2>2, <2>3 DEF BlockStep, Block
<1>3. CASE WaitpointStep
  <2>1. ASSUME NEW j \in Items, StreamItem(j) PROVE StreamInv'
    BY <1>0, <2>1 DEF StreamItem
  <2>2. ASSUME NEW j \in Items, CreateItem(j) \/ BlockLockless(j) PROVE StreamInv'
    BY <1>0, <2>2 DEF CreateItem, BlockLockless
  <2>3. ASSUME NEW t \in Tokens, CompleteToken(t) PROVE StreamInv'
    BY <1>0, <2>3 DEF CompleteToken
  <2>4. ASSUME NEW c \in Children \cup Items, ChildEnds(c) PROVE StreamInv'
    BY <1>0, <2>4 DEF ChildEnds
  <2>5. ASSUME NEW b \in Batches, TryCompleteBatch(b) \/ ExpireBatch(b) PROVE StreamInv'
    BY <1>0, <2>5 DEF TryCompleteBatch, ExpireBatch
  <2>6. ASSUME NEW w \in Waitpoint,
               CompleteWaitpoint(w) \/ NotifyBlockedRun(w) \/ CompleterCrash(w)
        PROVE StreamInv'
    BY <1>0, <2>6 DEF CompleteWaitpoint, NotifyBlockedRun, CompleterCrash
  <2> QED  BY <1>3, <2>1, <2>2, <2>3, <2>4, <2>5, <2>6 DEF WaitpointStep
<1> QED  BY <1>1, <1>2, <1>3, StepKinds

LEMMA BatchStep == ASSUME TypeInv, BatchInv, [Next]_vars PROVE BatchInv'
<1> USE DEF TypeInv, BatchInv, TypeOK, runVars, wpVars, jobVars, runnerVars, Waitpoint
<1>0. \A b \in Batches : Awaited(b) = {i \in Items : BatchOf[i] = b} /\ Awaited(b)' = Awaited(b)
  BY DEF Awaited
<1>1. CASE RunStep \/ UNCHANGED vars
  BY <1>0, <1>1, RunStepFrame
<1>2. CASE BlockStep
  <2>1. ASSUME NEW w \in Waitpoint, BeginWait(w) PROVE BatchInv'
    BY <1>0, <2>1 DEF BeginWait
  <2>2. CASE BlockInsert \/ BlockRun \/ BlockCrash
    BY <1>0, <2>2 DEF BlockInsert, BlockRun, BlockCrash
  <2>3. CASE CallReturns
    <3>1. UNCHANGED <<wp, ended, processed, completing>>  BY <2>3 DEF CallReturns
    <3>2. ASSUME NEW b \in Batches, b \in ended \cap sealed' PROVE b \in sealed
      BY <2>3, <3>2 DEF CallReturns, Seal
    <3> QED  BY <1>0, <3>1, <3>2
  <2>4. CASE CallDropped
    BY <1>0, <2>4 DEF CallDropped
  <2> QED  BY <1>2, <2>1, <2>2, <2>3, <2>4 DEF BlockStep, Block
<1>3. CASE WaitpointStep
  <2>1. ASSUME NEW j \in Items, StreamItem(j) PROVE BatchInv'
    BY <1>0, <2>1 DEF StreamItem
  <2>2. ASSUME NEW j \in Items, CreateItem(j) \/ BlockLockless(j) PROVE BatchInv'
    BY <1>0, <2>2 DEF CreateItem, BlockLockless
  <2>3. ASSUME NEW t \in Tokens, CompleteToken(t) PROVE BatchInv'
    BY <1>0, <2>3 DEF CompleteToken
  <2>4. ASSUME NEW c \in Children \cup Items, ChildEnds(c) PROVE BatchInv'
    BY <1>0, <2>4 DEF ChildEnds
  <2>5. ASSUME NEW b \in Batches, TryCompleteBatch(b) PROVE BatchInv'
    BY <1>0, <2>5 DEF TryCompleteBatch, BatchDone
  <2>6. ASSUME NEW b \in Batches, ExpireBatch(b) PROVE BatchInv'
    BY <1>0, <2>6 DEF ExpireBatch
  <2>7. ASSUME NEW w \in Waitpoint,
               CompleteWaitpoint(w) \/ NotifyBlockedRun(w) \/ CompleterCrash(w)
        PROVE BatchInv'
    BY <1>0, <2>7 DEF CompleteWaitpoint, NotifyBlockedRun, CompleterCrash
  <2> QED  BY <1>3, <2>1, <2>2, <2>3, <2>4, <2>5, <2>6, <2>7 DEF WaitpointStep
<1> QED  BY <1>1, <1>2, <1>3, StepKinds

LEMMA AwaitStep == ASSUME TypeInv, AwaitInv, [Next]_vars PROVE AwaitInv'
<1> USE DEF TypeInv, AwaitInv, TypeOK, runVars, wpVars, jobVars, runnerVars, Waitpoint
<1>1. CASE awaits' \in {awaits, {}} /\ sealed \subseteq sealed'
  BY <1>1
<1>2. CASE CallReturns
  <2>1. CASE awaits' = awaits  BY <1>2, <2>1 DEF CallReturns
  <2>2. CASE awaits' = Awaited(call.target)
    BY <1>2, <2>2 DEF CallReturns, Awaited
  <2> QED  BY <1>2, <2>1, <2>2 DEF CallReturns
<1>3. CASE WaitpointStep  BY <1>1, <1>3, WaitpointStepFrame DEF WaitpointFrame
<1>4. CASE BlockStep
  BY <1>1, <1>2, <1>4 DEF BlockStep, Block, BeginWait, BlockInsert, BlockRun, CallDropped,
                          BlockCrash
<1>5. CASE RunStep \/ UNCHANGED vars
  <2>1. sealed' = sealed  BY <1>5, RunStepFrame
  <2>2. awaits' \in {awaits, {}}
    <3>1. CASE Attempt \/ UNCHANGED vars
      BY <3>1 DEF Attempt, Dequeue, StartAttempt, StartRejected, ContinueRunExecution, vars
    <3>2. CASE Complete \/ CancelRun
      BY <3>2 DEF Complete, AttemptSucceeded, AttemptFailed, CompletionRejected, CancelRun
    <3>3. CASE Continue \/ ContinueCrash
      BY <3>3 DEF Continue, TakeContinueJob, HandleContinueJob, ContinueCrash
    <3>4. CASE Runner \/ RunnerCrash
      BY <3>4 DEF Runner, RunnerSees, Proceed, TaskReturns, RunnerCrash
    <3>5. CASE Checkpoint \/ HandleStalledSnapshot
      BY <3>5 DEF Checkpoint, RequestSuspend, CreateCheckpoint, DiscardCheckpoint,
                  HandleStalledSnapshot
    <3> QED  BY <1>5, <3>1, <3>2, <3>3, <3>4, <3>5 DEF RunStep
  <2> QED  BY <1>1, <2>1, <2>2
<1> QED  BY <1>3, <1>4, <1>5, StepKinds

-----------------------------------------------------------------------------
(* The run while a call holds its lock *)

OnTime == "lateBlock" \notin Faults

LEMMA RunStepLocked ==
  ASSUME TypeInv, BlockInv, call.stage = "inserted", RunStep
  PROVE  UNCHANGED <<snap, edges>> /\ proc' \in {"calling", "none"}
<1> USE DEF runVars, jobVars, runnerVars
<1>1. /\ ~LockFree /\ snap.status \in Executing /\ proc \in {"calling", "none"}
      /\ snap.status \notin {"QUEUED", "FINISHED", "SUSPENDED", "PENDING_CANCEL"}
  BY DEF LockFree, BlockInv, Executing
<1>2. ~Attempt
  BY <1>1 DEF Attempt, Dequeue, StartAttempt, StartRejected, ContinueRunExecution
<1>3. ~Complete /\ ~CancelRun
  BY <1>1 DEF Complete, AttemptSucceeded, AttemptFailed, CompletionRejected, CancelRun
<1>4. CASE Continue \/ ContinueCrash
  BY <1>1, <1>4 DEF Continue, TakeContinueJob, HandleContinueJob, ContinueCrash
<1>5. CASE Runner \/ RunnerCrash
  <2>1. CASE RunnerSees  BY <1>1, <2>1 DEF RunnerSees, Live
  <2>2. CASE RunnerCrash  BY <1>1, <2>2 DEF RunnerCrash
  <2>3. ~Proceed /\ ~TaskReturns  BY <1>1 DEF Proceed, TaskReturns
  <2> QED  BY <1>5, <2>1, <2>2, <2>3 DEF Runner
<1>6. CASE Checkpoint
  BY <1>1, <1>6 DEF Checkpoint, RequestSuspend, CreateCheckpoint, DiscardCheckpoint
<1>7. ~HandleStalledSnapshot  BY <1>1 DEF HandleStalledSnapshot
<1> QED  BY <1>2, <1>3, <1>4, <1>5, <1>6, <1>7 DEF RunStep

\* What the second step of a call that is on time does to the run.
LEMMA BlockRunOnTime ==
  ASSUME TypeInv, BlockInv, BlockRun
  PROVE  /\ call.stage = "inserted" /\ call.target \in edges /\ proc \in {"calling", "none"}
         /\ snap.status \in Executing
         /\ snap'.status = "EXECUTING_WITH_WAITPOINTS"
         /\ \/ snap'.ckpt = FALSE /\ snap'.done = {} /\ suspendReq' \in {"none", "old"}
            \/ UNCHANGED <<snap, suspendReq>>
         /\ call'.stage = "answered" /\ call'.target = call.target
         /\ UNCHANGED <<canceled, message, nacks, attempts, edges, wpVars, proc, awaits, got>>
<1>1. call.stage = "inserted" /\ call' = [call EXCEPT !.stage = "answered"]
  BY Zenon DEF BlockRun
<1>2. call'.stage = "answered" /\ call'.target = call.target
  BY <1>1 DEF TypeInv, TypeOK
<1>3. UNCHANGED <<canceled, message, nacks, attempts, edges, wpVars, proc, awaits, got>>
  BY Zenon DEF BlockRun
<1>4. snap.status \in Executing  BY <1>1 DEF BlockInv
<1>5. \/ NewSnapshot("EXECUTING_WITH_WAITPOINTS", FALSE, {})
      \/ snap.status = "EXECUTING_WITH_WAITPOINTS" /\ UNCHANGED <<snap, suspendReq>>
  BY <1>4, Zenon DEF BlockRun
<1>6. /\ snap'.status = "EXECUTING_WITH_WAITPOINTS"
      /\ \/ snap'.ckpt = FALSE /\ snap'.done = {} /\ suspendReq' \in {"none", "old"}
         \/ UNCHANGED <<snap, suspendReq>>
  BY <1>5 DEF NewSnapshot, WriteSnapshot
<1> QED  BY <1>1, <1>2, <1>3, <1>4, <1>6 DEF BlockInv

LEMMA BlockInvStep == ASSUME OnTime, TypeInv, BlockInv, [Next]_vars PROVE BlockInv'
<1> SUFFICES ASSUME call'.stage = "inserted"
             PROVE  /\ snap'.status \in Executing /\ proc' \in {"calling", "none"}
                    /\ call'.target \in edges'
  BY DEF BlockInv, Executing
<1>1. CASE RunStep
  BY <1>1, RunStepFrame, RunStepLocked DEF BlockInv
<1>2. CASE UNCHANGED vars
  BY <1>2 DEF vars, runVars, runnerVars, BlockInv
<1>3. CASE WaitpointStep
  BY <1>3, WaitpointStepFrame DEF WaitpointFrame, BlockInv, runVars, runnerVars
<1>4. CASE BlockStep
  <2>1. CASE BlockInsert
    <3>1. call'.target = call.target /\ UNCHANGED <<snap, proc>> /\ call.target \in edges'
      BY <2>1, CallStepFrame DEF BlockInsert, TypeInv, runVars
    <3>2. CallInTime  BY <2>1 DEF BlockInsert, OnTime
    <3> QED  BY <3>1, <3>2 DEF CallInTime
  <2>2. ~BlockRun  BY BlockRunOnTime
  <2>3. ~CallReturns /\ ~CallDropped
    BY DEF CallReturns, CallDropped
  <2>4. ~BlockCrash
    BY DEF BlockCrash, TypeInv, TypeOK
  <2>5. ASSUME NEW w \in Waitpoint, BeginWait(w) PROVE FALSE
    BY <2>5 DEF BeginWait
  <2> QED  BY <1>4, <2>1, <2>2, <2>3, <2>4, <2>5 DEF BlockStep, Block
<1> QED  BY <1>1, <1>2, <1>3, <1>4, StepKinds

-----------------------------------------------------------------------------
(* Snapshots, checkpoints and runners *)

LEMMA Written ==
  ASSUME TypeInv, NEW status, NEW ckpt, NEW done, NewSnapshot(status, ckpt, done)
  PROVE  /\ snap'.status = status /\ snap'.ckpt = ckpt /\ snap'.done = done
         /\ suspendReq' # "latest"
  BY DEF NewSnapshot, WriteSnapshot

LEMMA FinishWrites ==
  ASSUME TypeInv, Finish
  PROVE  /\ snap'.status = "FINISHED" /\ snap'.ckpt = FALSE /\ snap'.done = {}
         /\ suspendReq' # "latest" /\ message' = FALSE
  BY Written DEF Finish

\* tryNackAndRequeue ends in QUEUED, with the edges it is told to keep, or in
\* FINISHED; a message that is gone does not come back.
LEMMA RequeueWrites ==
  ASSUME TypeInv, NEW ckpt, NEW done, NEW kept, TryNackAndRequeue(ckpt, done, kept)
  PROVE  /\ \/ /\ snap'.status = "QUEUED" /\ snap'.ckpt = ckpt /\ snap'.done = done
               /\ edges' = kept /\ message' = message /\ message
            \/ /\ snap'.status = "FINISHED" /\ snap'.ckpt = FALSE /\ snap'.done = {}
               /\ message' = FALSE
         /\ suspendReq' # "latest"
<1>1. CASE Finish  BY <1>1, FinishWrites
<1>2. CASE /\ message /\ NewSnapshot("QUEUED", ckpt, done)
           /\ edges' = kept /\ message' = message
  BY <1>2, Written
<1> QED  BY <1>1, <1>2 DEF TryNackAndRequeue

\* What a failed attempt, or a runner that is lost, leaves behind.
LEMMA RetryWrites ==
  ASSUME TypeInv, RetryQueued \/ FailRun \/ RetryImmediately
  PROVE  /\ snap'.ckpt = FALSE /\ snap'.done = {} /\ suspendReq' # "latest"
         /\ snap'.status \in {"QUEUED", "FINISHED", "EXECUTING"}
         /\ snap'.status = "EXECUTING" => RetryImmediately
         /\ snap'.status = "QUEUED" => message
         /\ message' => message
<1>1. CASE RetryQueued
  BY <1>1, RequeueWrites DEF RetryQueued
<1>2. CASE FailRun  BY <1>2, FinishWrites DEF FailRun
<1>3. CASE RetryImmediately
  <2>1. message' = message /\ NewSnapshot("EXECUTING", FALSE, {})
    BY <1>3, Zenon DEF RetryImmediately
  <2> QED  BY <1>3, <2>1 DEF NewSnapshot, WriteSnapshot
<1> QED  BY <1>1, <1>2, <1>3

\* Continuing a run turns its edges into the waitpoints of its snapshot.
ResumeEffect ==
  /\ snap'.done = edges /\ suspendReq' # "latest"
  /\ \/ /\ snap.status = "EXECUTING_WITH_WAITPOINTS" /\ snap'.status = "EXECUTING"
        /\ snap'.ckpt = FALSE /\ message' = message
     \/ /\ snap.status = "SUSPENDED" /\ snap.ckpt
        /\ snap'.status = "QUEUED" /\ snap'.ckpt = TRUE

LEMMA ResumeWrites ==
  ASSUME TypeInv, ResumeExecuting \/ ResumeSuspended PROVE ResumeEffect
  BY Written DEF ResumeExecuting, ResumeSuspended, ResumeEffect

\* A step of the continuation job leaves the run alone or resumes it.
LEMMA ContinueEffect ==
  ASSUME TypeInv, Continue \/ ContinueCrash
  PROVE  /\ UNCHANGED <<canceled, proc, awaits, got, call, wpVars>>
         /\ \/ UNCHANGED <<snap, message, suspendReq, edges>>
            \/ Unblocked /\ ResumeEffect
<1>1. CASE TakeContinueJob
  BY <1>1 DEF TakeContinueJob, runVars, wpVars, runnerVars
<1>2. CASE HandleContinueJob
  <2>1. UNCHANGED <<canceled, proc, awaits, got, call, wpVars>>
    BY <1>2 DEF HandleContinueJob, wpVars, runnerVars
  <2>2. ContinueRunIfUnblocked  BY <1>2 DEF HandleContinueJob
  <2> QED  BY <2>1, <2>2, ResumeWrites DEF ContinueRunIfUnblocked, SkipContinue
<1>3. CASE ContinueCrash
  <2>1. UNCHANGED <<canceled, proc, awaits, got, call, wpVars>>
    BY <1>3 DEF ContinueCrash, wpVars, runnerVars
  <2> QED  BY <1>3, <2>1, ResumeWrites DEF ContinueCrash
<1> QED  BY <1>1, <1>2, <1>3 DEF Continue

\* A step of the stall handler resumes a suspended run, requeues one that did
\* not start, gives up one whose runner is lost, or cancels.
LEMMA StalledEffect ==
  ASSUME TypeInv, HandleStalledSnapshot
  PROVE  /\ UNCHANGED <<canceled, attempts, proc, awaits, got, call, wpVars>>
         /\ \/ UNCHANGED <<snap, message, suspendReq, edges>>
            \/ Unblocked /\ snap.status = "SUSPENDED" /\ ResumeEffect
            \/ /\ snap.status = "PENDING_EXECUTING"
               /\ snap'.status = "QUEUED" /\ snap'.ckpt = snap.ckpt /\ snap'.done = snap.done
               /\ message /\ message' = message
               /\ suspendReq' # "latest" /\ edges' = edges
            \/ /\ snap.status \in Executing /\ proc \in {"none", "frozen"}
               /\ snap'.status = "QUEUED" /\ snap'.ckpt = FALSE /\ snap'.done = {}
               /\ message /\ (message' => message) /\ suspendReq' # "latest"
            \/ /\ snap.status # "FINISHED"
               /\ snap'.status = "FINISHED" /\ snap'.ckpt = FALSE /\ snap'.done = {}
               /\ message' = FALSE /\ suspendReq' # "latest"
<1>1. UNCHANGED <<canceled, attempts, proc, awaits, got, call, wpVars>>
  BY DEF HandleStalledSnapshot, wpVars, runnerVars
<1>2. CASE StalledPendingExecuting
  BY <1>1, <1>2, RequeueWrites DEF StalledPendingExecuting
<1>3. CASE StalledExecuting
  <2>1. CASE RetryQueued
    BY <1>1, <1>3, <2>1, RequeueWrites DEF RetryQueued, StalledExecuting, Executing
  <2>2. CASE FailRun
    BY <1>1, <1>3, <2>2, FinishWrites DEF FailRun, StalledExecuting, Executing
  <2> QED  BY <1>3, <2>1, <2>2 DEF StalledExecuting
<1>4. CASE StalledSuspended
  BY <1>1, <1>4, ResumeWrites DEF StalledSuspended
<1>5. CASE StalledPendingCancel
  BY <1>1, <1>5, FinishWrites DEF StalledPendingCancel
<1> QED  BY <1>2, <1>3, <1>4, <1>5 DEF HandleStalledSnapshot

\* What a runner becomes that is shown the latest snapshot.
LEMMA RunnerSeesEffect ==
  ASSUME TypeInv, RunnerSees
  PROVE  /\ UNCHANGED <<canceled, message, attempts, snap, edges, awaits, call, wpVars, suspendReq>>
         /\ proc \in Live \cup {"restoring"}
         /\ proc' \in {proc, "none", "canceling", "frozen", "waiting"}
         /\ proc' = "waiting" =>
              proc = "waiting" \/ (proc = "restoring" /\ snap.status = "EXECUTING")
         /\ proc' = "frozen" => proc = "restoring"
         /\ proc = "restoring" /\ snap.status \in {"SUSPENDED", "QUEUED", "PENDING_EXECUTING"}
              => proc' \in {"restoring", "frozen"}
         /\ got \subseteq got'
         /\ snap.status = "EXECUTING" => got' = got \cup (snap.done \ Batches)
<1>1. UNCHANGED <<canceled, message, attempts, snap, edges, awaits, call, wpVars, suspendReq>>
  BY DEF RunnerSees, runVars, wpVars
<1>2. got \subseteq got' /\ (snap.status = "EXECUTING" => got' = got \cup (snap.done \ Batches))
  BY DEF RunnerSees
<1>3. proc \in Live \cup {"restoring"}  BY DEF RunnerSees
<1>4. /\ proc' \in {proc, "none", "canceling", "frozen", "waiting"}
      /\ proc' = "waiting" =>
           proc = "waiting" \/ (proc = "restoring" /\ snap.status = "EXECUTING")
      /\ proc' = "frozen" => proc = "restoring"
      /\ proc = "restoring" /\ snap.status \in {"SUSPENDED", "QUEUED", "PENDING_EXECUTING"}
           => proc' \in {"restoring", "frozen"}
  BY <1>3 DEF RunnerSees, Live
<1> QED  BY <1>1, <1>2, <1>3, <1>4

LEMMA CheckpointStep ==
  ASSUME OnTime, TypeInv, BlockInv, CheckpointInv, [Next]_vars PROVE CheckpointInv'
<1> USE DEF CheckpointInv, SuspendedHasCheckpoint
<1>1. CASE WaitpointStep \/ UNCHANGED vars
  BY <1>1, WaitpointStepFrame
     DEF WaitpointFrame, vars, runVars, runnerVars
<1>2. CASE BlockStep
  <2>1. CASE BlockRun  BY <2>1, BlockRunOnTime
  <2>2. ASSUME NEW w \in Waitpoint, BeginWait(w) PROVE CheckpointInv'
    BY <2>2 DEF BeginWait, runVars
  <2>3. CASE BlockInsert \/ BlockCrash \/ CallDropped
    BY <2>3 DEF BlockInsert, BlockCrash, CallDropped, runVars
  <2>4. CASE CallReturns  BY <2>4 DEF CallReturns, runVars
  <2> QED  BY <1>2, <2>1, <2>2, <2>3, <2>4 DEF BlockStep, Block
<1>3. CASE Attempt
  <2>1. CASE Dequeue  BY <2>1, Written DEF Dequeue
  <2>2. CASE StartAttempt
    <3>1. NewSnapshot("EXECUTING", FALSE, snap.done) /\ proc' = "running"
      BY <2>2, Zenon DEF StartAttempt
    <3> QED  BY <3>1 DEF NewSnapshot, WriteSnapshot
  <2>3. CASE StartRejected  BY <2>3 DEF StartRejected, runVars
  <2>4. CASE ContinueRunExecution
    <3>1. NewSnapshot("EXECUTING", FALSE, snap.done) /\ proc' = proc
      BY <2>4, Zenon DEF ContinueRunExecution
    <3> QED  BY <3>1 DEF NewSnapshot, WriteSnapshot
  <2> QED  BY <1>3, <2>1, <2>2, <2>3, <2>4 DEF Attempt
<1>4. CASE Complete
  <2>1. CASE AttemptSucceeded  BY <2>1, FinishWrites DEF AttemptSucceeded
  <2>2. CASE AttemptFailed
    <3>1. proc' # "restoring"  BY <2>2 DEF AttemptFailed
    <3> QED  BY <2>2, <3>1, RetryWrites DEF AttemptFailed
  <2>3. CASE CompletionRejected  BY <2>3 DEF CompletionRejected, runVars
  <2> QED  BY <1>4, <2>1, <2>2, <2>3 DEF Complete
<1>5. CASE CancelRun
  <2>1. proc' = proc /\ (NewSnapshot("PENDING_CANCEL", FALSE, {}) \/ Finish)
    BY <1>5 DEF CancelRun, runnerVars
  <2>2. CASE Finish  BY <2>1, <2>2, FinishWrites
  <2>3. CASE NewSnapshot("PENDING_CANCEL", FALSE, {})
    BY <2>1, <2>3 DEF NewSnapshot, WriteSnapshot
  <2> QED  BY <2>1, <2>2, <2>3
<1>6. CASE Continue \/ ContinueCrash
  BY <1>6, ContinueEffect DEF ResumeEffect
<1>7. CASE Runner \/ RunnerCrash
  <2>1. CASE RunnerSees  BY <2>1, RunnerSeesEffect DEF Live
  <2>2. CASE Proceed \/ TaskReturns  BY <2>2 DEF Proceed, TaskReturns, runVars
  <2>3. CASE RunnerCrash  BY <2>3 DEF RunnerCrash, runVars, Live
  <2> QED  BY <1>7, <2>1, <2>2, <2>3 DEF Runner
<1>8. CASE Checkpoint
  <2>1. CASE RequestSuspend  BY <2>1 DEF RequestSuspend, runVars, runnerVars
  <2>2. CASE CreateCheckpoint  BY <2>2 DEF CreateCheckpoint, WriteSnapshot
  <2>3. CASE DiscardCheckpoint  BY <2>3 DEF DiscardCheckpoint, runVars, runnerVars
  <2> QED  BY <1>8, <2>1, <2>2, <2>3 DEF Checkpoint
<1>9. CASE HandleStalledSnapshot
  BY <1>9, StalledEffect DEF ResumeEffect, Executing
<1> QED
  BY <1>1, <1>2, <1>3, <1>4, <1>5, <1>6, <1>7, <1>8, <1>9, StepKinds DEF RunStep

-----------------------------------------------------------------------------
(* What a waiting process lacks *)

\* When nothing that blocks the run is pending, everything a process lacks is
\* an edge of the run: no item of a completed and sealed batch is to come.
LEMMA UnblockedHolds ==
  ASSUME TypeInv, BatchInv, Unblocked,
         NEW S \in SUBSET Waitpoint, Blocking(S),
         \A i \in S \cap Items : BatchOf[i] \notin ended \ sealed
  PROVE  S \subseteq edges
<1> SUFFICES ASSUME NEW w \in S, w \notin edges PROVE FALSE  OBVIOUS
<1>1. w \in Items \ processed /\ BatchOf[w] \in edges  BY DEF Blocking
<1> DEFINE b == BatchOf[w]
<1>2. b \in Batches  BY <1>1
<1>3. wp[b] = "completed"  BY <1>1 DEF Unblocked, Completed
<1>4. b \in ended \cap sealed  BY <1>1, <1>2, <1>3 DEF BatchInv
<1>5. w \in Awaited(b)  BY <1>1, <1>2 DEF Awaited
<1> QED  BY <1>1, <1>2, <1>4, <1>5 DEF BatchInv

\* A completed waitpoint stays completed.
LEMMA CompletedStays ==
  ASSUME TypeInv, [Next]_vars
  PROVE  \A w \in Waitpoint : wp[w] = "completed" => wp'[w] = "completed"
<1>1. CASE RunStep \/ UNCHANGED vars  BY <1>1, RunStepFrame DEF wpVars
<1>2. CASE WaitpointStep  BY <1>2, WaitpointStepFrame DEF WaitpointFrame
<1>3. CASE BlockStep
  <2>1. CASE BlockInsert \/ BlockRun \/ BlockCrash  BY <2>1, CallStepFrame DEF wpVars, TypeInv
  <2>2. CASE CallReturns \/ CallDropped  BY <2>2 DEF CallReturns, CallDropped, wpVars
  <2>3. ASSUME NEW w \in Waitpoint, BeginWait(w)
        PROVE \A v \in Waitpoint : wp[v] = "completed" => wp'[v] = "completed"
    BY <2>3 DEF BeginWait, TypeInv, TypeOK
  <2> QED  BY <1>3, <2>1, <2>2, <2>3 DEF BlockStep, Block
<1> QED  BY <1>1, <1>2, <1>3, StepKinds

LEMMA DoneStep ==
  ASSUME OnTime, TypeInv, BlockInv, DoneInv, [Next]_vars PROVE DoneInv'
<1>1. \A w \in Waitpoint : wp[w] = "completed" => wp'[w] = "completed"
  BY CompletedStays
<1>2. snap.done \subseteq Waitpoint /\ edges \subseteq Waitpoint  BY DEF TypeInv, TypeOK
<1>3. snap'.done \in {snap.done, {}} \/ (Unblocked /\ snap'.done = edges)
  <2> USE DEF runVars
  <2>1. CASE WaitpointStep \/ UNCHANGED vars
    BY <2>1, WaitpointStepFrame DEF WaitpointFrame, vars
  <2>2. CASE BlockStep
    <3>1. CASE BlockRun  BY <3>1, BlockRunOnTime
    <3>2. CASE BlockInsert \/ BlockCrash  BY <3>2 DEF BlockInsert, BlockCrash
    <3>3. CASE CallReturns \/ CallDropped  BY <3>3 DEF CallReturns, CallDropped
    <3>4. ASSUME NEW w \in Waitpoint, BeginWait(w) PROVE snap' = snap  BY <3>4 DEF BeginWait
    <3> QED  BY <2>2, <3>1, <3>2, <3>3, <3>4 DEF BlockStep, Block
  <2>3. CASE Attempt
    BY <2>3 DEF Attempt, Dequeue, StartAttempt, StartRejected, ContinueRunExecution,
                NewSnapshot, WriteSnapshot
  <2>4. CASE Complete \/ CancelRun
    <3>1. CASE AttemptFailed  BY <3>1, RetryWrites DEF AttemptFailed
    <3>2. CASE AttemptSucceeded  BY <3>2, FinishWrites DEF AttemptSucceeded
    <3>3. CASE CompletionRejected  BY <3>3 DEF CompletionRejected
    <3>4. CASE CancelRun
      <4>1. CASE Finish  BY <4>1, FinishWrites
      <4>2. CASE NewSnapshot("PENDING_CANCEL", FALSE, {})
        BY <4>2 DEF NewSnapshot, WriteSnapshot
      <4> QED  BY <3>4, <4>1, <4>2 DEF CancelRun
    <3> QED  BY <2>4, <3>1, <3>2, <3>3, <3>4 DEF Complete
  <2>5. CASE Continue \/ ContinueCrash  BY <2>5, ContinueEffect DEF ResumeEffect
  <2>6. CASE Runner \/ RunnerCrash
    BY <2>6 DEF Runner, RunnerSees, Proceed, TaskReturns, RunnerCrash
  <2>7. CASE Checkpoint
    BY <2>7 DEF Checkpoint, RequestSuspend, CreateCheckpoint, DiscardCheckpoint,
                WriteSnapshot
  <2>8. CASE HandleStalledSnapshot  BY <2>8, StalledEffect DEF ResumeEffect
  <2> QED  BY <2>1, <2>2, <2>3, <2>4, <2>5, <2>6, <2>7, <2>8, StepKinds DEF RunStep
<1> QED  BY <1>1, <1>2, <1>3 DEF DoneInv, Completed, Unblocked

\* Held, of the next state, for a set that is given.
HeldThen(T) ==
  IF snap'.status \in {"EXECUTING_WITH_WAITPOINTS", "SUSPENDED"}
  THEN \A w \in T : w \in edges' \/ (w \in Items \ processed' /\ BatchOf[w] \in edges')
  ELSE T \subseteq snap'.done

\* A set that is held stays held while the status and the waitpoints of the
\* snapshot stay and the edges grow with the items that are processed.
LEMMA HeldStays ==
  ASSUME NEW S, NEW T, T \subseteq S, Held(S),
         snap'.status = snap.status, snap'.done = snap.done,
         edges \subseteq edges', processed' \ processed \subseteq edges'
  PROVE  HeldThen(T)
  BY DEF Held, Blocking, HeldThen

\* It stays held when the run is continued.
LEMMA HeldResumed ==
  ASSUME TypeInv, BatchInv, NEW S \in SUBSET Waitpoint, Held(S),
         \A i \in S \cap Items : BatchOf[i] \notin ended \ sealed,
         Unblocked, ResumeEffect
  PROVE  S \subseteq snap'.done /\ HeldThen(S)
<1>1. snap.status \in {"EXECUTING_WITH_WAITPOINTS", "SUSPENDED"}  BY DEF ResumeEffect
<1>2. S \subseteq edges  BY <1>1, UnblockedHolds DEF Held
<1> QED  BY <1>2 DEF ResumeEffect, HeldThen

WaitContext == Waiting \/ suspendReq = "latest"

LEMMA WaitStep ==
  ASSUME OnTime, TypeInv, BlockInv, BatchInv, AwaitInv, CheckpointInv, WaitInv, CallInv,
         [Next]_vars
  PROVE  WaitInv'
<1> DEFINE L == awaits \ got
<1>0. /\ L \in SUBSET Waitpoint /\ \A i \in L \cap Items : BatchOf[i] \notin ended \ sealed
      /\ L \cap Batches = {}
  BY DEF AwaitInv, Waitpoint
<1>a. SUFFICES ASSUME WaitContext' PROVE HeldThen(awaits' \ got')
  BY DEF WaitInv, WaitContext, Held, HeldThen, Blocking
<1>b. WaitContext => Held(L)  BY DEF WaitInv, WaitContext
<1> USE DEF runVars, wpVars, jobVars, runnerVars
<1>1. CASE WaitpointStep \/ UNCHANGED vars
  <2>1. /\ UNCHANGED <<snap, proc, suspendReq, awaits, got>>
        /\ edges \subseteq edges' /\ processed' \ processed \subseteq edges'
    BY <1>1, WaitpointStepFrame DEF WaitpointFrame, vars
  <2>2. WaitContext  BY <1>a, <2>1 DEF WaitContext, Waiting
  <2> QED  BY <1>b, <2>1, <2>2, HeldStays
<1>2. CASE BlockStep
  <2>1. CASE BlockRun
    <3>1. suspendReq' = "latest"  BY <1>a, <2>1, BlockRunOnTime DEF WaitContext, Waiting, CheckpointInv
    <3>2. UNCHANGED <<snap, suspendReq, awaits, got, edges, processed>>
      BY <2>1, <3>1, BlockRunOnTime
    <3>3. WaitContext  BY <3>1, <3>2 DEF WaitContext
    <3> QED  BY <1>b, <3>2, <3>3, HeldStays
  <2>2. CASE CallReturns
    <3>1. UNCHANGED <<snap, edges, processed, suspendReq, got>>  BY <2>2 DEF CallReturns
    <3>2. CASE awaits' = awaits /\ proc' = "running"
      <4>1. WaitContext  BY <1>a, <3>1, <3>2 DEF WaitContext, Waiting, CheckpointInv
      <4> QED  BY <1>b, <3>1, <3>2, <4>1, HeldStays
    <3>3. CASE /\ awaits' = Awaited(call.target) /\ proc' = "waiting"
               /\ call.target \in Batches => Seal(call.target)
      <4>1. proc = "calling" /\ call.stage = "answered"  BY <2>2 DEF CallReturns
      <4>2. call.target \notin (Batches \cap ended) \ sealed  BY <3>3 DEF Seal
      <4>3. snap.status \in Executing
        BY <1>a, <3>1, <3>3 DEF WaitContext, Waiting, CheckpointInv, Executing
      <4>4. Held(Awaited(call.target) \ got)  BY <4>1, <4>2, <4>3 DEF CallInv
      <4> QED  BY <3>1, <3>3, <4>4, HeldStays
    <3> QED  BY <2>2, <3>2, <3>3 DEF CallReturns
  <2>3. CASE BlockInsert \/ BlockCrash \/ CallDropped
    <3>1. UNCHANGED <<snap, proc, suspendReq, awaits, got, processed>> /\ edges \subseteq edges'
      BY <2>3 DEF BlockInsert, BlockCrash, CallDropped
    <3>2. WaitContext  BY <1>a, <3>1 DEF WaitContext, Waiting
    <3> QED  BY <1>b, <3>1, <3>2, HeldStays
  <2>4. ASSUME NEW w \in Waitpoint, BeginWait(w) PROVE HeldThen(awaits' \ got')
    <3>1. /\ UNCHANGED <<snap, suspendReq, awaits, got, processed, edges>> /\ proc' = "calling"
      BY <2>4 DEF BeginWait
    <3>2. WaitContext  BY <1>a, <3>1 DEF WaitContext, Waiting
    <3> QED  BY <1>b, <3>1, <3>2, HeldStays
  <2> QED  BY <1>2, <2>1, <2>2, <2>3, <2>4 DEF BlockStep, Block
<1>3. CASE Attempt
  <2>1. CASE Dequeue
    <3>1. /\ snap.status = "QUEUED" /\ snap'.status = "PENDING_EXECUTING"
          /\ snap'.done = snap.done /\ snap'.ckpt = snap.ckpt /\ suspendReq' # "latest"
          /\ UNCHANGED <<awaits, got>>
      BY <2>1, Written DEF Dequeue
    <3>2. Waiting  BY <1>a, <3>1 DEF WaitContext, Waiting, CheckpointInv, Executing
    <3>3. Held(L)  BY <1>b, <3>2 DEF WaitContext
    <3> QED  BY <3>1, <3>3 DEF Held, HeldThen
  <2>2. CASE StartAttempt  BY <2>2 DEF StartAttempt, HeldThen
  <2>3. CASE StartRejected
    <3>1. UNCHANGED <<snap, suspendReq, awaits, got, processed, edges>> /\ proc' = "none"
      BY <2>3 DEF StartRejected
    <3>2. WaitContext  BY <1>a, <3>1 DEF WaitContext, Waiting
    <3> QED  BY <1>b, <3>1, <3>2, HeldStays
  <2>4. CASE ContinueRunExecution
    <3>1. proc = "restoring" /\ snap.status = "PENDING_EXECUTING" /\ UNCHANGED <<awaits, got>>
      BY <2>4 DEF ContinueRunExecution
    <3>2. snap'.status = "EXECUTING" /\ snap'.done = snap.done
      BY <2>4 DEF ContinueRunExecution, NewSnapshot, WriteSnapshot
    <3>3. WaitContext  BY <3>1 DEF WaitContext, Waiting, CheckpointInv
    <3>4. Held(L)  BY <1>b, <3>3
    <3> QED  BY <3>1, <3>2, <3>4 DEF Held, HeldThen
  <2> QED  BY <1>3, <2>1, <2>2, <2>3, <2>4 DEF Attempt
<1>4. CASE Complete
  <2>1. CASE AttemptSucceeded
    BY <1>a, <2>1, FinishWrites DEF AttemptSucceeded, WaitContext, Waiting
  <2>2. CASE AttemptFailed
    <3>1. proc' \in {"none", "starting"}  BY <2>2 DEF AttemptFailed
    <3>2. suspendReq' # "latest"  BY <2>2, RetryWrites DEF AttemptFailed
    <3> QED  BY <1>a, <3>1, <3>2 DEF WaitContext, Waiting
  <2>3. CASE CompletionRejected
    <3>1. UNCHANGED <<snap, suspendReq, awaits, got, processed, edges>> /\ proc' = "none"
      BY <2>3 DEF CompletionRejected
    <3>2. WaitContext  BY <1>a, <3>1 DEF WaitContext, Waiting
    <3> QED  BY <1>b, <3>1, <3>2, HeldStays
  <2> QED  BY <1>4, <2>1, <2>2, <2>3 DEF Complete
<1>5. CASE CancelRun
  <2>1. snap'.ckpt = FALSE /\ snap'.status \in {"FINISHED", "PENDING_CANCEL"}
        /\ suspendReq' # "latest"
    <3>1. CASE Finish  BY <3>1, FinishWrites
    <3>2. CASE NewSnapshot("PENDING_CANCEL", FALSE, {})
      BY <3>2 DEF NewSnapshot, WriteSnapshot
    <3> QED  BY <1>5, <3>1, <3>2 DEF CancelRun
  <2> QED  BY <1>a, <2>1 DEF WaitContext, Waiting, Executing
<1>6. CASE Continue \/ ContinueCrash
  <2>1. UNCHANGED <<proc, awaits, got, processed>>  BY <1>6, ContinueEffect
  <2>2. CASE UNCHANGED <<snap, suspendReq, edges>>
    <3>1. WaitContext  BY <1>a, <2>1, <2>2 DEF WaitContext, Waiting
    <3> QED  BY <1>b, <2>1, <2>2, <3>1, HeldStays
  <2>3. CASE Unblocked /\ ResumeEffect
    <3>1. Waiting
      BY <1>a, <2>1, <2>3 DEF ResumeEffect, WaitContext, Waiting, CheckpointInv, Executing
    <3> QED  BY <1>0, <1>b, <2>1, <2>3, <3>1, HeldResumed DEF WaitContext
  <2> QED  BY <1>6, <2>2, <2>3, ContinueEffect
<1>7. CASE Runner \/ RunnerCrash
  <2>1. CASE RunnerSees
    <3>1. UNCHANGED <<snap, edges, awaits, suspendReq, processed>> /\ got \subseteq got'
      BY <2>1, RunnerSeesEffect
    <3>2. WaitContext
      BY <1>a, <2>1, <3>1, RunnerSeesEffect DEF WaitContext, Waiting, CheckpointInv, Live
    <3> QED  BY <1>b, <3>1, <3>2, HeldStays
  <2>2. CASE Proceed  BY <2>2 DEF Proceed, HeldThen
  <2>3. CASE TaskReturns \/ RunnerCrash
    <3>1. UNCHANGED <<snap, edges, awaits, suspendReq, processed, got>>
          /\ proc' \in {"returning", "none", "frozen"}
          /\ (proc' = "frozen" => proc = "restoring")
      BY <2>3 DEF TaskReturns, RunnerCrash
    <3>2. WaitContext  BY <1>a, <3>1 DEF WaitContext, Waiting
    <3> QED  BY <1>b, <3>1, <3>2, HeldStays
  <2> QED  BY <1>7, <2>1, <2>2, <2>3 DEF Runner
<1>8. CASE Checkpoint
  <2>1. CASE RequestSuspend
    <3>1. UNCHANGED <<snap, edges, awaits, processed, got>>  BY <2>1 DEF RequestSuspend
    <3>2. WaitContext  BY <2>1 DEF RequestSuspend, WaitContext, Waiting, Executing
    <3> QED  BY <1>b, <3>1, <3>2, HeldStays
  <2>2. CASE CreateCheckpoint
    <3>1. suspendReq = "latest" /\ UNCHANGED <<edges, awaits, processed, got>>
      BY <2>2 DEF CreateCheckpoint, IsLatest
    <3>2. snap'.status = "SUSPENDED"  BY <2>2 DEF CreateCheckpoint, WriteSnapshot
    <3>3. Held(L) /\ snap.status = "EXECUTING_WITH_WAITPOINTS"
      BY <1>b, <3>1 DEF WaitContext, CheckpointInv
    <3> QED  BY <3>1, <3>2, <3>3 DEF Held, HeldThen, Blocking
  <2>3. CASE DiscardCheckpoint
    <3>1. UNCHANGED <<snap, edges, awaits, processed, got, proc>> /\ suspendReq' = "none"
      BY <2>3 DEF DiscardCheckpoint
    <3>2. WaitContext  BY <1>a, <3>1 DEF WaitContext, Waiting
    <3> QED  BY <1>b, <3>1, <3>2, HeldStays
  <2> QED  BY <1>8, <2>1, <2>2, <2>3 DEF Checkpoint
<1>9. CASE HandleStalledSnapshot
  <2>1. UNCHANGED <<proc, awaits, got, processed>>  BY <1>9, StalledEffect
  <2>2. CASE UNCHANGED <<snap, suspendReq, edges>>
    <3>1. WaitContext  BY <1>a, <2>1, <2>2 DEF WaitContext, Waiting
    <3> QED  BY <1>b, <2>1, <2>2, <3>1, HeldStays
  <2>3. CASE Unblocked /\ snap.status = "SUSPENDED" /\ ResumeEffect
    <3>1. Waiting
      BY <1>a, <2>1, <2>3 DEF ResumeEffect, WaitContext, Waiting, CheckpointInv, Executing
    <3> QED  BY <1>0, <1>b, <2>1, <2>3, <3>1, HeldResumed DEF WaitContext
  <2>4. CASE /\ snap.status = "PENDING_EXECUTING" /\ snap'.status = "QUEUED"
             /\ snap'.ckpt = snap.ckpt /\ snap'.done = snap.done
             /\ suspendReq' # "latest" /\ edges' = edges
    <3>1. Waiting  BY <1>a, <2>1, <2>4 DEF WaitContext, Waiting, Executing
    <3>2. Held(L)  BY <1>b, <3>1 DEF WaitContext
    <3> QED  BY <2>1, <2>4, <3>2 DEF Held, HeldThen
  <2>5. CASE snap'.status \in {"QUEUED", "FINISHED"} /\ snap'.ckpt = FALSE /\ suspendReq' # "latest"
    BY <1>a, <2>5 DEF WaitContext, Waiting, Executing
  <2> QED  BY <1>9, <2>2, <2>3, <2>4, <2>5, StalledEffect
<1> QED
  BY <1>1, <1>2, <1>3, <1>4, <1>5, <1>6, <1>7, <1>8, <1>9, StepKinds DEF RunStep

CallContext ==
  /\ proc = "calling" /\ call.stage = "answered" /\ snap.status \in Executing
  /\ call.target \notin (Batches \cap ended) \ sealed

LEMMA CallStep ==
  ASSUME OnTime, TypeInv, BlockInv, StreamInv, BatchInv, CheckpointInv, CallInv, [Next]_vars
  PROVE  CallInv'
<1> DEFINE S == Awaited(call.target) \ got
<1>a. SUFFICES ASSUME CallContext' PROVE HeldThen(Awaited(call'.target) \ got')
  BY DEF CallInv, CallContext, Held, HeldThen, Blocking, Awaited
<1>b. CallContext => Held(S)  BY DEF CallInv, CallContext
<1>c. CallContext => /\ S \in SUBSET Waitpoint
                     /\ \A i \in S \cap Items : BatchOf[i] \notin ended \ sealed
  <2> SUFFICES ASSUME CallContext
               PROVE  S \in SUBSET Waitpoint /\ \A i \in S \cap Items : BatchOf[i] \notin ended \ sealed
    OBVIOUS
  <2>1. call.target \in Tokens \cup Children \cup Batches
    BY DEF CallContext, TypeInv
  <2> QED  BY <2>1 DEF CallContext, Awaited, Waitpoint
<1> USE DEF runVars, wpVars, jobVars, runnerVars
<1>1. CASE WaitpointStep \/ UNCHANGED vars
  <2>1. /\ UNCHANGED <<snap, proc, call, got>>
        /\ edges \subseteq edges' /\ processed' \ processed \subseteq edges'
        /\ ended \subseteq ended' /\ sealed' \cap ended \subseteq sealed
    BY <1>1, WaitpointStepFrame DEF WaitpointFrame, vars
  <2>2. CallContext  BY <1>a, <2>1 DEF CallContext
  <2> QED  BY <1>b, <2>1, <2>2, HeldStays
<1>2. CASE BlockStep
  <2>1. CASE BlockRun
    <3>1. /\ call.stage = "inserted" /\ call.target \in edges /\ edges' = edges
          /\ snap'.status = "EXECUTING_WITH_WAITPOINTS"
          /\ call'.target = call.target /\ processed' = processed
      BY <2>1, BlockRunOnTime
    <3>2. call.target \in Batches => Awaited(call.target) \cap processed = {}
      BY <3>1 DEF StreamInv, TypeInv, TypeOK
    <3>3. ASSUME NEW w \in Awaited(call.target)
          PROVE  w \in edges \/ (w \in Items \ processed /\ BatchOf[w] \in edges)
      BY <3>1, <3>2, <3>3 DEF Awaited
    <3> QED  BY <3>1, <3>3 DEF HeldThen
  <2>2. ASSUME CallReturns \/ CallDropped \/ BlockInsert \/ BlockCrash
               \/ \E w \in Waitpoint : BeginWait(w)
        PROVE  FALSE
    <3>1. CASE CallReturns \/ CallDropped
      BY <1>a, <3>1 DEF CallReturns, CallDropped, CallContext
    <3>2. CASE BlockInsert \/ BlockCrash
      BY <1>a, <3>2 DEF BlockInsert, BlockCrash, CallContext, TypeInv, TypeOK
    <3>3. ASSUME NEW w \in Waitpoint, BeginWait(w) PROVE FALSE
      BY <1>a, <3>3 DEF BeginWait, CallContext
    <3> QED  BY <2>2, <3>1, <3>2, <3>3
  <2> QED  BY <1>2, <2>1, <2>2 DEF BlockStep, Block
<1>3. CASE RunStep
  <2>0. UNCHANGED <<call, ended, sealed, processed>>  BY <1>3, RunStepFrame
  <2>1. ASSUME UNCHANGED <<snap, proc, edges>>, got \subseteq got'
        PROVE  HeldThen(Awaited(call'.target) \ got')
    <3>1. CallContext  BY <1>a, <2>0, <2>1 DEF CallContext
    <3> QED  BY <1>b, <2>0, <2>1, <3>1, HeldStays
  <2>2. CASE Attempt
    <3>1. CASE Dequeue \/ StartAttempt \/ StartRejected
      BY <1>a, <3>1 DEF Dequeue, StartAttempt, StartRejected, CallContext
    <3>2. CASE ContinueRunExecution
      BY <1>a, <3>2 DEF ContinueRunExecution, CallContext
    <3> QED  BY <2>2, <3>1, <3>2 DEF Attempt
  <2>3. CASE Complete
    BY <1>a, <2>3 DEF Complete, AttemptSucceeded, AttemptFailed, CompletionRejected, CallContext
  <2>4. CASE CancelRun
    <3>1. CASE Finish  BY <1>a, <3>1, FinishWrites DEF CallContext, Executing
    <3>2. CASE NewSnapshot("PENDING_CANCEL", FALSE, {})
      BY <1>a, <3>2 DEF NewSnapshot, WriteSnapshot, CallContext, Executing
    <3> QED  BY <2>4, <3>1, <3>2 DEF CancelRun
  <2>5. CASE Continue \/ ContinueCrash
    <3>1. UNCHANGED <<proc, got>>  BY <2>5, ContinueEffect
    <3>2. CASE UNCHANGED <<snap, edges>>  BY <2>1, <3>1, <3>2
    <3>3. CASE Unblocked /\ ResumeEffect
      <4>1. CallContext
        BY <1>a, <2>0, <3>1, <3>3 DEF ResumeEffect, CallContext, Executing
      <4> QED  BY <1>b, <1>c, <2>0, <3>1, <3>3, <4>1, HeldResumed
    <3> QED  BY <2>5, <3>2, <3>3, ContinueEffect
  <2>6. CASE Runner \/ RunnerCrash
    <3>1. CASE RunnerSees
      <4>1. proc' = proc  BY <1>a, <3>1, RunnerSeesEffect DEF CallContext
      <4> QED  BY <2>1, <3>1, <4>1, RunnerSeesEffect
    <3>2. CASE Proceed \/ TaskReturns \/ RunnerCrash
      BY <1>a, <3>2 DEF Proceed, TaskReturns, RunnerCrash, CallContext
    <3> QED  BY <2>6, <3>1, <3>2 DEF Runner
  <2>7. CASE Checkpoint
    <3>1. CASE RequestSuspend \/ DiscardCheckpoint
      BY <2>1, <3>1 DEF RequestSuspend, DiscardCheckpoint
    <3>2. CASE CreateCheckpoint  BY <1>a, <3>2 DEF CreateCheckpoint, CallContext
    <3> QED  BY <2>7, <3>1, <3>2 DEF Checkpoint
  <2>8. CASE HandleStalledSnapshot
    <3>1. UNCHANGED <<proc, got>>  BY <2>8, StalledEffect
    <3>2. CASE UNCHANGED <<snap, edges>>  BY <2>1, <3>1, <3>2
    <3>3. CASE snap'.status \in {"QUEUED", "FINISHED"}
      BY <1>a, <3>3 DEF CallContext, Executing
    <3> QED  BY <2>8, <3>2, <3>3, StalledEffect DEF ResumeEffect
  <2> QED  BY <1>3, <2>2, <2>3, <2>4, <2>5, <2>6, <2>7, <2>8 DEF RunStep
<1> QED  BY <1>1, <1>2, <1>3, StepKinds

-----------------------------------------------------------------------------
(* Invariance *)

LEMMA WInvInit == Init => WInv
<1> SUFFICES ASSUME Init PROVE WInv  OBVIOUS
<1>1. TypeInv  BY TypeInit
<1>2. \A w \in Waitpoint : wp[w] = IF w \in Tokens THEN "pending" ELSE "none"
  BY DEF Init
<1>3. BlockInv /\ StreamInv  BY DEF Init, BlockInv, StreamInv, Awaited
<1>4. BatchInv
  <2>1. ASSUME NEW b \in Batches
        PROVE  b \in Waitpoint /\ wp[b] = "none" /\ completing[b] = "idle"
    BY <1>2 DEF Waitpoint, Init
  <2> QED  BY <2>1 DEF Init, BatchInv
<1>5. AwaitInv /\ CheckpointInv /\ WaitInv /\ CallInv /\ DoneInv
  BY DEF Init, AwaitInv, CheckpointInv, SuspendedHasCheckpoint, WaitInv, CallInv, DoneInv,
         Held, Blocking, Waiting, Completed, Executing
<1> QED  BY <1>1, <1>3, <1>4, <1>5 DEF WInv

LEMMA WInvStep == OnTime => (WInv /\ [Next]_vars => WInv')
<1> SUFFICES ASSUME OnTime, WInv, [Next]_vars PROVE WInv'  OBVIOUS
<1> USE DEF WInv
<1> QED
  BY TypeInvStep, BlockInvStep, StreamStep, BatchStep, AwaitStep, CheckpointStep,
     WaitStep, CallStep, DoneStep

-----------------------------------------------------------------------------
(* Cancelled and finished runs *)

\* Steps that leave a cancelled run cancelled: they cannot requeue it, as its
\* message is gone, nor block it, as its call finds no process.
LEMMA CancelStep ==
  ASSUME OnTime, WInv, CancelInv, [Next]_vars PROVE CancelInv'
<1> SUFFICES ASSUME canceled'
             PROVE  /\ message' = FALSE /\ suspendReq' # "latest" /\ call'.stage # "inserted"
                    /\ \/ snap'.status \in {"PENDING_CANCEL", "FINISHED"}
                       \/ snap'.status = "EXECUTING" /\ proc' = "none"
  BY DEF CancelInv
<1>0. TypeInv /\ BlockInv  BY DEF WInv
<1> USE <1>0 DEF runVars, runnerVars
<1>1. CASE CancelRun
  <2>1. call'.stage # "inserted"  BY <1>1 DEF CancelRun, LockFree
  <2>2. CASE Finish  BY <2>1, <2>2, FinishWrites
  <2>3. CASE NewSnapshot("PENDING_CANCEL", FALSE, {}) /\ message' = FALSE
    BY <2>1, <2>3 DEF NewSnapshot, WriteSnapshot
  <2> QED  BY <1>1, <2>2, <2>3 DEF CancelRun
<1>a. CASE canceled
  <2>0. /\ message = FALSE /\ suspendReq # "latest" /\ call.stage # "inserted"
        /\ \/ snap.status \in {"PENDING_CANCEL", "FINISHED"}
           \/ snap.status = "EXECUTING" /\ proc = "none"
    BY <1>a DEF CancelInv
  <2>1. CASE WaitpointStep \/ UNCHANGED vars
    BY <2>0, <2>1, WaitpointStepFrame DEF WaitpointFrame, vars
  <2>2. CASE BlockStep
    <3>1. ~BlockRun  BY <2>0, Zenon DEF BlockRun
    <3>2. ~BlockInsert  BY <2>0 DEF BlockInsert, OnTime, CallInTime, Executing
    <3>3. CASE BlockCrash  BY <2>0, <3>3 DEF BlockCrash
    <3>4. CASE CallReturns \/ CallDropped
      <4>1. /\ UNCHANGED <<message, suspendReq, snap>> /\ call'.stage = "none"
            /\ proc = "none" => proc' = "none"
        <5>1. CASE CallReturns  BY <5>1 DEF CallReturns
        <5>2. CASE CallDropped  BY <5>2 DEF CallDropped
        <5> QED  BY <3>4, <5>1, <5>2
      <4> QED  BY <2>0, <4>1
    <3>5. ASSUME NEW w \in Waitpoint, BeginWait(w)
          PROVE  /\ UNCHANGED <<message, suspendReq, snap>> /\ proc # "none"
                 /\ call'.stage = "sent"
      BY <3>5 DEF BeginWait
    <3> QED  BY <2>0, <2>2, <3>1, <3>2, <3>3, <3>4, <3>5 DEF BlockStep, Block
  <2>3. CASE Attempt
    BY <2>0, <2>3 DEF Attempt, Dequeue, StartAttempt, StartRejected, ContinueRunExecution
  <2>4. CASE Complete
    <3>1. call' = call /\ (CompletionRejected \/ proc \in {"returning", "canceling"})
      BY <2>4 DEF Complete, AttemptSucceeded, AttemptFailed, CompletionRejected
    <3>2. CASE AttemptSucceeded
      BY <2>0, <3>1, <3>2, FinishWrites DEF AttemptSucceeded
    <3>3. CASE AttemptFailed
      <4>1. CASE FailRun \/ RetryQueued
        <5>1. snap'.status = "FINISHED" /\ message' = FALSE /\ suspendReq' # "latest"
          BY <2>0, <4>1, FinishWrites, RequeueWrites DEF FailRun, RetryQueued
        <5> QED  BY <2>0, <3>1, <5>1
      <4>2. CASE RetryImmediately
        <5>1. snap.status = "PENDING_CANCEL"
          BY <2>0, <3>3 DEF AttemptFailed
        <5>2. proc' = "none"  BY <3>3, <5>1 DEF AttemptFailed, RetryAborted
        <5>3. /\ snap'.status = "EXECUTING" /\ suspendReq' # "latest"
              /\ message' = message
          BY <4>2 DEF RetryImmediately, NewSnapshot, WriteSnapshot, TypeInv, TypeOK
        <5> QED  BY <2>0, <3>1, <5>2, <5>3
      <4> QED  BY <3>3, <4>1, <4>2 DEF AttemptFailed
    <3>4. CASE CompletionRejected  BY <2>0, <3>4 DEF CompletionRejected
    <3> QED  BY <2>4, <3>2, <3>3, <3>4 DEF Complete
  <2>5. CASE Continue \/ ContinueCrash
    BY <2>0, <2>5, ContinueEffect DEF ResumeEffect
  <2>6. CASE Runner \/ RunnerCrash
    <3>1. UNCHANGED <<message, suspendReq, call, snap>> /\ proc # "none"
      BY <2>6 DEF Runner, RunnerSees, Proceed, TaskReturns, RunnerCrash, Live
    <3> QED  BY <2>0, <3>1
  <2>7. CASE Checkpoint
    <3>1. ~RequestSuspend  BY <2>0 DEF RequestSuspend
    <3>2. ~CreateCheckpoint  BY <2>0 DEF CreateCheckpoint, IsLatest
    <3> QED  BY <2>0, <2>7, <3>1, <3>2 DEF Checkpoint, DiscardCheckpoint
  <2>8. CASE HandleStalledSnapshot
    BY <2>0, <2>8, StalledEffect
  <2> QED
    BY <1>1, <2>1, <2>2, <2>3, <2>4, <2>5, <2>6, <2>7, <2>8, StepKinds DEF RunStep
<1>b. CASE ~canceled
  <2> SUFFICES ASSUME ~CancelRun PROVE canceled' = canceled  BY <1>1, <1>b
  <2>1. CASE WaitpointStep \/ UNCHANGED vars
    BY <2>1, WaitpointStepFrame DEF WaitpointFrame, vars
  <2>2. CASE BlockStep
    BY <2>2, BlockRunOnTime
       DEF BlockStep, Block, BeginWait, BlockInsert, BlockCrash, CallReturns, CallDropped
  <2>3. CASE Attempt \/ Complete
    BY <2>3 DEF Attempt, Dequeue, StartAttempt, StartRejected, ContinueRunExecution, Complete,
                AttemptSucceeded, AttemptFailed, CompletionRejected
  <2>4. CASE Continue \/ ContinueCrash \/ HandleStalledSnapshot
    BY <2>4, ContinueEffect, StalledEffect
  <2>5. CASE Runner \/ RunnerCrash \/ Checkpoint
    BY <2>5 DEF Runner, RunnerSees, Proceed, TaskReturns, RunnerCrash, Checkpoint,
                RequestSuspend, CreateCheckpoint, DiscardCheckpoint
  <2> QED  BY <2>1, <2>2, <2>3, <2>4, <2>5, StepKinds DEF RunStep
<1> QED  BY <1>a, <1>b

\* The next attempt starts only where nobody cancelled the run.
LEMMA OnlyStartAttemptCounts ==
  ASSUME WInv, CancelInv, [Next]_vars, canceled PROVE attempts' = attempts
<1>0. TypeInv /\ BlockInv  BY DEF WInv
<1> USE <1>0 DEF runVars
<1>1. ~StartAttempt  BY DEF CancelInv, StartAttempt
<1>2. CASE WaitpointStep \/ UNCHANGED vars
  BY <1>2, WaitpointStepFrame DEF WaitpointFrame, vars
<1>3. CASE BlockStep
  BY <1>3, BlockRunOnTime
     DEF BlockStep, Block, BeginWait, BlockInsert, BlockCrash, CallReturns, CallDropped
<1>4. CASE Attempt \/ Complete \/ CancelRun
  BY <1>1, <1>4 DEF Attempt, Dequeue, StartRejected, ContinueRunExecution, Complete,
                    AttemptSucceeded, AttemptFailed, CompletionRejected, CancelRun
<1>5. CASE Continue \/ ContinueCrash \/ HandleStalledSnapshot
  BY <1>5 DEF Continue, TakeContinueJob, HandleContinueJob, ContinueCrash,
              HandleStalledSnapshot
<1>6. CASE Runner \/ RunnerCrash \/ Checkpoint
  BY <1>6 DEF Runner, RunnerSees, Proceed, TaskReturns, RunnerCrash, Checkpoint,
              RequestSuspend, CreateCheckpoint, DiscardCheckpoint
<1> QED  BY <1>2, <1>3, <1>4, <1>5, <1>6, StepKinds DEF RunStep

\* Every handler refuses a finished run, or does not reach it.
LEMMA FinishedStep ==
  ASSUME WInv, [Next]_vars, snap.status = "FINISHED" PROVE snap'.status = "FINISHED"
<1>0. TypeInv /\ BlockInv /\ snap.status \notin Executing
  BY DEF WInv, Executing
<1> USE <1>0 DEF runVars
<1>1. CASE WaitpointStep \/ UNCHANGED vars
  BY <1>1, WaitpointStepFrame DEF WaitpointFrame, vars
<1>2. CASE BlockStep
  BY <1>2, BlockRunOnTime
     DEF BlockStep, Block, BeginWait, BlockInsert, BlockCrash, CallReturns, CallDropped
<1>3. CASE Attempt
  BY <1>3 DEF Attempt, Dequeue, StartAttempt, StartRejected, ContinueRunExecution
<1>4. CASE Complete \/ CancelRun
  BY <1>4 DEF Complete, AttemptSucceeded, AttemptFailed, CompletionRejected, CancelRun
<1>5. CASE Continue \/ ContinueCrash \/ HandleStalledSnapshot
  BY <1>5, ContinueEffect, StalledEffect DEF ResumeEffect
<1>6. CASE Runner \/ RunnerCrash \/ Checkpoint
  BY <1>6 DEF Runner, RunnerSees, Proceed, TaskReturns, RunnerCrash, Checkpoint,
              RequestSuspend, CreateCheckpoint, DiscardCheckpoint
<1> QED  BY <1>1, <1>2, <1>3, <1>4, <1>5, <1>6, StepKinds DEF RunStep

-----------------------------------------------------------------------------
(* Theorems *)

\* Every handler writes values of its fields' types, and counters respect their
\* limits: attempts never exceed maxAttempts, whichever calls are late.
THEOREM TypeCorrect == Spec => []TypeOK
<1>1. TypeInv /\ [Next]_vars => TypeInv'  BY TypeInvStep
<1>2. TypeInv => TypeOK  BY DEF TypeInv
<1> QED  BY <1>1, <1>2, TypeInit, PTL DEF Spec

\* The inductive invariant, while no call that blocks the run is late.
THEOREM Invariance == ASSUME OnTime PROVE Spec => []WInv
<1>1. WInv /\ [Next]_vars => WInv'  BY WInvStep
<1> QED  BY <1>1, WInvInit, PTL DEF Spec

\* A suspended run can be restored from its checkpoint: continueRunIfUnblocked
\* never meets a SUSPENDED snapshot that has none.
THEOREM SuspendedIsRestorable == ASSUME OnTime PROVE Spec => []SuspendedHasCheckpoint
<1>1. WInv => SuspendedHasCheckpoint  BY DEF WInv, CheckpointInv
<1> QED  BY <1>1, Invariance, PTL

\* No wait is forgotten: through suspension, restore and continuation, each
\* waitpoint that the process lacks is an edge, is carried by the snapshot, or
\* is an item to come of a batch that blocks the run.
THEOREM WaitsAreTracked == ASSUME OnTime PROVE Spec => []AwaitedTracked
<1>1. WInv => AwaitedTracked
  BY DEF WInv, WaitInv, Held, Blocking, AwaitedTracked
<1> QED  BY <1>1, Invariance, PTL

\* No run is resumed with a part of what it waits for: continueRunIfUnblocked,
\* concurrent completions and lockless inserts of a batch's edges included.
THEOREM ResumesAreWhole == ASSUME OnTime PROVE Spec => []NoPartialResume
<1>1. WInv => NoPartialResume
  BY DEF WInv, WaitInv, DoneInv, Held, NoPartialResume
<1> QED  BY <1>1, Invariance, PTL

\* A canceled run starts no further attempt, whatever crosses cancelRun.
THEOREM CanceledRunsStop == ASSUME OnTime PROVE Spec => CanceledNeverStarts
<1>1. Init => CancelInv  BY DEF Init, CancelInv
<1>2. WInv /\ CancelInv /\ [Next]_vars => CancelInv'  BY CancelStep
<1>3. WInv /\ CancelInv /\ [Next]_vars => [canceled => attempts' = attempts]_vars
  BY OnlyStartAttemptCounts
<1> QED  BY <1>1, <1>2, <1>3, Invariance, PTL DEF Spec, CanceledNeverStarts

\* FINISHED is final: no late completion, job, heartbeat or checkpoint revives
\* the run.
THEOREM FinishedIsFinal == ASSUME OnTime PROVE Spec => FinishedStays
<1>1. WInv /\ [Next]_vars => [snap.status = "FINISHED" => snap'.status = "FINISHED"]_vars
  BY FinishedStep
<1> QED  BY <1>1, Invariance, PTL DEF Spec, FinishedStays

=============================================================================
