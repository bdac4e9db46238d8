---------------------- MODULE WaitpointsRefinementProofs ----------------------
(***************************************************************************)
(* The engine and the runner implement RunLife, proved for any waitpoints  *)
(* and bounds, under every fault but calls that are late.                  *)
(***************************************************************************)
EXTENDS WaitpointsRefinement, WaitpointsProofs

\* What the runner holds is completed; a checkpoint in progress is of code that
\* waits, or waited when its process died; the run of a live process executes
\* unless it was canceled or is over; and only cancelRun asks a runner to stop.
LifeInv ==
  /\ suspendReq = "latest" => proc \in {"waiting", "none"} /\ ~(awaits \subseteq got)
  /\ Completed(got)
  /\ proc \in Live => snap.status \in Executing \cup {"PENDING_CANCEL", "FINISHED"}
  /\ snap.status = "PENDING_CANCEL" => canceled

LInv == WInv /\ CancelInv /\ LifeInv

LEMMA LInvUnfolded ==
  ASSUME LInv
  PROVE  TypeInv /\ TypeOK /\ BlockInv /\ CheckpointInv /\ DoneInv /\ CancelInv /\ LifeInv
  BY DEF LInv, WInv, TypeInv

-----------------------------------------------------------------------------
(* The invariant *)

\* What the runner is given is what a snapshot carries, which is completed.
LEMMA GotStaysCompleted ==
  ASSUME LInv, [Next]_vars,
         \A w \in got' : w \in got \/ w \in snap.done
  PROVE  Completed(got)'
<1>1. got \subseteq Waitpoint /\ snap.done \subseteq Waitpoint
  BY LInvUnfolded DEF TypeOK
<1>2. Completed(got) /\ Completed(snap.done)  BY LInvUnfolded DEF LifeInv, DoneInv
<1> QED  BY <1>1, <1>2, CompletedStays, LInvUnfolded DEF Completed

LEMMA LifeBlockStep ==
  ASSUME LInv, [Next]_vars, BlockStep
  PROVE  LifeInv'
<1> USE LInvUnfolded DEF LifeInv
<1>1. CASE BlockRun
  <2>1. got' = got /\ awaits' = awaits /\ proc' = proc /\ canceled' = canceled
        /\ snap'.status = "EXECUTING_WITH_WAITPOINTS"
        /\ (suspendReq' = "latest" => suspendReq = "latest")
    BY <1>1, BlockRunOnTime
  <2>2. Completed(got)'  BY <2>1, GotStaysCompleted
  <2> QED  BY <1>1, <2>2, BlockRunOnTime DEF Executing
<1>2. ASSUME UNCHANGED <<snap, canceled, awaits, got, suspendReq>>,
             proc' = proc \/ (proc \in Live \ {"waiting"} /\ proc' \in Live)
      PROVE  LifeInv'
  <2>1. Completed(got)'  BY <1>2, GotStaysCompleted
  <2> QED  BY <1>2, <2>1 DEF Live
<1>3. CASE CallReturns
  <2>1. /\ UNCHANGED <<snap, canceled, got, suspendReq>>
        /\ proc = "calling" /\ proc' \in {"running", "waiting"}
    BY <1>3 DEF CallReturns, runVars
  <2>2. Completed(got)'  BY <2>1, GotStaysCompleted
  <2> QED  BY <2>1, <2>2 DEF Live
<1>4. ASSUME NEW w \in Waitpoint, BeginWait(w) PROVE LifeInv'
  BY <1>2, <1>4 DEF BeginWait, runVars, Live
<1>5. CASE BlockInsert \/ BlockCrash \/ CallDropped
  BY <1>2, <1>5 DEF BlockInsert, BlockCrash, CallDropped, runVars
<1> QED  BY <1>1, <1>3, <1>4, <1>5 DEF BlockStep, Block

LEMMA LifeAttemptStep ==
  ASSUME LInv, [Next]_vars, Attempt
  PROVE  LifeInv'
<1> USE LInvUnfolded DEF LifeInv
<1>1. CASE Dequeue
  <2>1. /\ snap'.status = "PENDING_EXECUTING" /\ suspendReq' # "latest"
        /\ got' = got /\ proc' \in {"restoring", "starting"}
    BY <1>1, Written DEF Dequeue
  <2> QED  BY <2>1, GotStaysCompleted DEF Live
<1>2. CASE StartAttempt
  <2>1. NewSnapshot("EXECUTING", FALSE, snap.done) /\ got' = {} /\ proc' = "running"
    BY <1>2, Zenon DEF StartAttempt
  <2>2. snap'.status = "EXECUTING" /\ suspendReq' # "latest"  BY <2>1, Written
  <2> QED  BY <2>1, <2>2, GotStaysCompleted DEF Executing
<1>3. CASE StartRejected
  <2>1. UNCHANGED <<snap, canceled, awaits, got, suspendReq>> /\ proc' = "none"
        /\ proc = "starting"
    BY <1>3 DEF StartRejected, runVars
  <2> QED  BY <2>1, GotStaysCompleted DEF Live
<1>4. CASE ContinueRunExecution
  <2>1. NewSnapshot("EXECUTING", FALSE, snap.done) /\ got' = got /\ proc' = proc
    BY <1>4, Zenon DEF ContinueRunExecution
  <2>2. snap'.status = "EXECUTING" /\ suspendReq' # "latest"  BY <2>1, Written
  <2> QED  BY <2>1, <2>2, GotStaysCompleted DEF Executing
<1> QED  BY <1>1, <1>2, <1>3, <1>4 DEF Attempt

LEMMA LifeCompleteStep ==
  ASSUME LInv, [Next]_vars, Complete \/ CancelRun
  PROVE  LifeInv'
<1> USE LInvUnfolded DEF LifeInv
<1>0. got' = got /\ Completed(got)'
  <2>1. got' = got
    BY DEF Complete, AttemptSucceeded, AttemptFailed, CompletionRejected, CancelRun, runnerVars
  <2> QED  BY <2>1, GotStaysCompleted
<1>1. CASE AttemptSucceeded
  BY <1>0, <1>1, FinishWrites DEF AttemptSucceeded
<1>2. CASE AttemptFailed
  <2>1. snap'.status \in {"QUEUED", "FINISHED", "EXECUTING"} /\ suspendReq' # "latest"
    BY <1>2, RetryWrites DEF AttemptFailed
  <2>2. proc' \notin Live  BY <1>2 DEF AttemptFailed, Live
  <2> QED  BY <1>0, <2>1, <2>2
<1>3. CASE CompletionRejected
  <2>1. UNCHANGED <<snap, canceled, suspendReq>> /\ proc' = "none"
        /\ proc \in {"returning", "canceling"}
    BY <1>3 DEF CompletionRejected, runVars
  <2> QED  BY <1>0, <2>1 DEF Live
<1>4. CASE CancelRun
  <2>1. snap'.status \in {"PENDING_CANCEL", "FINISHED"} /\ suspendReq' # "latest"
    <3>1. CASE Finish  BY <3>1, FinishWrites
    <3>2. CASE NewSnapshot("PENDING_CANCEL", FALSE, {})  BY <3>2, Written
    <3> QED  BY <1>4, <3>1, <3>2 DEF CancelRun
  <2>2. canceled'  BY <1>4 DEF CancelRun
  <2> QED  BY <1>0, <2>1, <2>2
<1> QED  BY <1>1, <1>2, <1>3, <1>4 DEF Complete

LEMMA LifeContinueStep ==
  ASSUME LInv, [Next]_vars, Continue \/ ContinueCrash
  PROVE  LifeInv'
<1> USE LInvUnfolded
<1>1. UNCHANGED <<canceled, proc, awaits, got>>  BY ContinueEffect
<1>2. Completed(got)'  BY <1>1, GotStaysCompleted
<1>3. CASE UNCHANGED <<snap, suspendReq>>  BY <1>1, <1>2, <1>3 DEF LifeInv
<1>4. CASE ResumeEffect
  <2>1. proc \in Live => snap.status # "SUSPENDED"  BY DEF LifeInv, Executing
  <2> QED  BY <1>1, <1>2, <1>4, <2>1 DEF LifeInv, ResumeEffect, Executing
<1> QED  BY <1>3, <1>4, ContinueEffect

LEMMA LifeStalledStep ==
  ASSUME LInv, [Next]_vars, HandleStalledSnapshot
  PROVE  LifeInv'
<1> USE LInvUnfolded
<1>1. UNCHANGED <<canceled, proc, awaits, got>>  BY StalledEffect
<1>2. Completed(got)'  BY <1>1, GotStaysCompleted
<1>3. CASE UNCHANGED <<snap, suspendReq>>  BY <1>1, <1>2, <1>3 DEF LifeInv
<1>4. CASE snap.status = "SUSPENDED" /\ ResumeEffect
  <2>1. proc \notin Live  BY <1>4 DEF LifeInv, Executing
  <2> QED  BY <1>1, <1>2, <1>4, <2>1 DEF LifeInv, ResumeEffect
<1>5. CASE /\ snap.status = "PENDING_EXECUTING" \/ (proc \in {"none", "frozen"})
           /\ snap'.status = "QUEUED" /\ suspendReq' # "latest"
  <2>1. proc \notin Live  BY <1>5 DEF LifeInv, Executing, Live
  <2> QED  BY <1>1, <1>2, <1>5, <2>1 DEF LifeInv
<1>6. CASE snap'.status = "FINISHED" /\ suspendReq' # "latest"
  BY <1>1, <1>2, <1>6 DEF LifeInv
<1> QED  BY <1>3, <1>4, <1>5, <1>6, StalledEffect

LEMMA LifeRunnerStep ==
  ASSUME LInv, [Next]_vars, Runner \/ RunnerCrash \/ Checkpoint
  PROVE  LifeInv'
<1> USE LInvUnfolded
<1>1. CASE RunnerSees
  <2>1. UNCHANGED <<canceled, snap, awaits, suspendReq>>  BY <1>1, RunnerSeesEffect
  <2>2. \A w \in got' : w \in got \/ w \in snap.done  BY <1>1 DEF RunnerSees
  <2>3. suspendReq = "latest" => proc' = proc /\ got' = got
    <3>1. suspendReq = "latest" =>
            snap.status = "EXECUTING_WITH_WAITPOINTS" /\ proc \in {"waiting", "none"}
      BY DEF CheckpointInv, LifeInv
    <3> QED  BY <1>1, <3>1 DEF RunnerSees, Live
  <2>4. proc' \in Live => snap.status \in Executing \cup {"PENDING_CANCEL", "FINISHED"}
    BY <1>1, RunnerSeesEffect DEF LifeInv, Executing, Live
  <2>5. Completed(got)'  BY <2>2, GotStaysCompleted
  <2> QED  BY <2>1, <2>3, <2>4, <2>5 DEF LifeInv
<1>2. CASE Proceed
  <2>1. /\ UNCHANGED <<canceled, snap, suspendReq>> /\ proc = "waiting" /\ proc' = "running"
        /\ awaits \subseteq got /\ got' \subseteq got
    BY <1>2 DEF Proceed, runVars
  <2>2. Completed(got)'  BY <2>1, GotStaysCompleted
  <2> QED  BY <2>1, <2>2 DEF LifeInv, Live
<1>3. CASE TaskReturns
  <2>1. /\ UNCHANGED <<canceled, snap, suspendReq, got>> /\ proc = "running" /\ proc' = "returning"
    BY <1>3 DEF TaskReturns, runVars
  <2>2. Completed(got)'  BY <2>1, GotStaysCompleted
  <2> QED  BY <2>1, <2>2 DEF LifeInv, Live
<1>4. CASE RunnerCrash
  <2>1. /\ UNCHANGED <<canceled, snap, suspendReq, got, awaits>>
        /\ proc' = IF proc = "restoring" THEN "frozen" ELSE "none"
    BY <1>4 DEF RunnerCrash, runVars
  <2>2. Completed(got)'  BY <2>1, GotStaysCompleted
  <2> QED  BY <2>1, <2>2 DEF LifeInv, Live
<1>5. CASE RequestSuspend
  <2>1. /\ UNCHANGED <<canceled, snap, proc, got, awaits>>
        /\ proc = "waiting" /\ ~(awaits \subseteq got)
    BY <1>5 DEF RequestSuspend, runVars, runnerVars
  <2>2. Completed(got)'  BY <2>1, GotStaysCompleted
  <2> QED  BY <2>1, <2>2 DEF LifeInv
<1>6. CASE CreateCheckpoint
  <2>1. /\ UNCHANGED <<canceled, got>> /\ suspendReq' = "none" /\ proc' = "frozen"
        /\ snap'.status = "SUSPENDED"
    BY <1>6 DEF CreateCheckpoint, WriteSnapshot
  <2>2. Completed(got)'  BY <2>1, GotStaysCompleted
  <2> QED  BY <2>1, <2>2 DEF LifeInv, Live
<1>7. CASE DiscardCheckpoint
  <2>1. UNCHANGED <<canceled, snap, proc, got, awaits>> /\ suspendReq' = "none"
    BY <1>7 DEF DiscardCheckpoint, runVars, runnerVars
  <2>2. Completed(got)'  BY <2>1, GotStaysCompleted
  <2> QED  BY <2>1, <2>2 DEF LifeInv
<1> QED  BY <1>1, <1>2, <1>3, <1>4, <1>5, <1>6, <1>7 DEF Runner, Checkpoint

LEMMA LifeStep ==
  ASSUME LInv, [Next]_vars PROVE LifeInv'
<1>1. CASE WaitpointStep \/ UNCHANGED vars
  <2>1. UNCHANGED <<snap, canceled, proc, awaits, got, suspendReq>>
    BY <1>1, WaitpointStepFrame, LInvUnfolded
       DEF WaitpointFrame, vars, runVars, runnerVars
  <2>2. Completed(got)'  BY <2>1, GotStaysCompleted
  <2> QED  BY <2>1, <2>2, LInvUnfolded DEF LifeInv
<1> QED
  BY <1>1, LifeBlockStep, LifeAttemptStep, LifeCompleteStep, LifeContinueStep,
     LifeStalledStep, LifeRunnerStep, StepKinds DEF RunStep

-----------------------------------------------------------------------------
(* What the steps are in the abstract specification *)

LEMMA PhaseIs ==
  /\ Phase \in {"idle", "running", "waiting"}
  /\ Phase = "running" <=> proc \in {"running", "calling"}
  /\ Phase = "waiting" <=>
       \/ proc \in {"waiting", "frozen", "restoring"}
       \/ suspendReq = "latest" /\ proc \notin {"running", "calling"}
  /\ AwaitedNow = IF Phase = "waiting" THEN awaits ELSE {}
  BY DEF Phase, AwaitedNow

LEMMA PhaseWillBe ==
  /\ Phase' \in {"idle", "running", "waiting"}
  /\ Phase' = "running" <=> proc' \in {"running", "calling"}
  /\ Phase' = "waiting" <=>
       \/ proc' \in {"waiting", "frozen", "restoring"}
       \/ suspendReq' = "latest" /\ proc' \notin {"running", "calling"}
  /\ AwaitedNow' = IF Phase' = "waiting" THEN awaits' ELSE {}
  BY DEF Phase, AwaitedNow

CodeKept == UNCHANGED <<Phase, AwaitedNow>>
CodeStopped == Phase' = "idle" /\ AwaitedNow' = {}
RestKept == UNCHANGED <<CompletedNow, attempts, canceled, Over>>

LEMMA CodeIsLife ==
  /\ CodeKept <=> Life!Undisturbed
  /\ CodeStopped <=> Life!Stopped
BY DEF CodeKept, CodeStopped, Life!Undisturbed, Life!Stopped, Life!code

LEMMA KeptRefines == CodeKept /\ RestKept => UNCHANGED Life!vars
BY DEF CodeKept, RestKept, Life!vars, Life!code

LEMMA StopRefines == CodeStopped /\ RestKept => Life!Next
BY CodeIsLife DEF RestKept, Life!Stop, Life!Next

\* A step that leaves the process alone and makes no request stops the code at
\* most: the checkpoint of a process that died is dropped.
LEMMA ProcessKept ==
  ASSUME UNCHANGED <<proc, awaits>>, suspendReq' = "latest" => suspendReq = "latest"
  PROVE  CodeKept \/ CodeStopped
BY PhaseIs, PhaseWillBe DEF CodeKept, CodeStopped

LEMMA ProcessStopped ==
  ASSUME proc' \in {"none", "starting", "returning", "canceling"}, suspendReq' # "latest"
  PROVE  CodeStopped
BY PhaseWillBe DEF CodeStopped

LEMMA CompletedKept == wp' = wp => UNCHANGED CompletedNow
BY DEF CompletedNow

LEMMA OverKept ==
  ASSUME snap'.status = "FINISHED" <=> snap.status = "FINISHED" PROVE UNCHANGED Over
BY DEF Over

-----------------------------------------------------------------------------
(* Waitpoints and calls *)

LEMMA OneMoreCompleted ==
  ASSUME TypeOK, NEW w \in Waitpoint, wp' = [wp EXCEPT ![w] = "completed"]
  PROVE  CompletedNow' = CompletedNow \cup {w}
BY DEF CompletedNow, TypeOK

LEMMA WaitpointRefines ==
  ASSUME LInv, WaitpointStep
  PROVE  Life!Next \/ UNCHANGED Life!vars
<1> USE LInvUnfolded
<1>1. CodeKept /\ UNCHANGED <<attempts, canceled, Over>>
  <2>1. UNCHANGED <<snap, canceled, attempts, proc, awaits, suspendReq>>
    BY WaitpointStepFrame DEF WaitpointFrame, runVars, runnerVars
  <2> QED  BY <2>1 DEF CodeKept, Phase, AwaitedNow, Over
<1>2. ASSUME NEW w \in Waitpoint, wp' = [wp EXCEPT ![w] = "completed"]
      PROVE  Life!Next
  <2>1. Life!Complete(w)
    BY <1>1, <1>2, OneMoreCompleted, CodeIsLife DEF Life!Complete, Life!Undisturbed
  <2> QED  BY <2>1 DEF Life!Next
<1>3. CASE UNCHANGED CompletedNow  BY <1>1, <1>3, KeptRefines DEF RestKept
<1>4. ASSUME NEW i \in Items, StreamItem(i) \/ CreateItem(i) \/ BlockLockless(i)
      PROVE  UNCHANGED CompletedNow
  <2>1. CASE StreamItem(i) \/ BlockLockless(i)
    BY <2>1, CompletedKept DEF StreamItem, BlockLockless
  <2>2. CASE CreateItem(i)
    BY <2>2 DEF CreateItem, CompletedNow, TypeOK
  <2> QED  BY <1>4, <2>1, <2>2
<1>5. ASSUME NEW t \in Tokens, CompleteToken(t) PROVE Life!Next
  BY <1>2, <1>5 DEF CompleteToken, Waitpoint
<1>6. ASSUME NEW c \in Children \cup Items, ChildEnds(c) PROVE UNCHANGED CompletedNow
  BY <1>6, CompletedKept DEF ChildEnds
<1>7. ASSUME NEW b \in Batches, TryCompleteBatch(b) \/ ExpireBatch(b)
      PROVE  UNCHANGED CompletedNow
  BY <1>7, CompletedKept DEF TryCompleteBatch, ExpireBatch
<1>8. ASSUME NEW w \in Waitpoint, CompleteWaitpoint(w) PROVE Life!Next
  BY <1>2, <1>8 DEF CompleteWaitpoint
<1>9. ASSUME NEW w \in Waitpoint, NotifyBlockedRun(w) \/ CompleterCrash(w)
      PROVE  UNCHANGED CompletedNow
  BY <1>9, CompletedKept DEF NotifyBlockedRun, CompleterCrash
<1> QED  BY <1>3, <1>4, <1>5, <1>6, <1>7, <1>8, <1>9 DEF WaitpointStep

LEMMA BlockRefines ==
  ASSUME LInv, BlockStep
  PROVE  Life!Next \/ UNCHANGED Life!vars
<1> USE LInvUnfolded
<1>1. CASE BlockRun
  <2>1. /\ UNCHANGED <<canceled, attempts, wpVars, proc, awaits>>
        /\ snap'.status = "EXECUTING_WITH_WAITPOINTS" /\ snap.status \in Executing
        /\ (suspendReq' = "latest" => suspendReq = "latest")
    BY <1>1, BlockRunOnTime
  <2>2. RestKept
    BY <2>1, CompletedKept, OverKept DEF RestKept, wpVars, Executing
  <2> QED  BY <2>1, <2>2, ProcessKept, KeptRefines, StopRefines
<1>2. CASE BlockInsert \/ BlockCrash \/ CallDropped
  <2>1. UNCHANGED <<canceled, attempts, wp, proc, awaits, snap, suspendReq>>
    BY <1>2 DEF BlockInsert, BlockCrash, CallDropped, runVars, wpVars
  <2> QED
    BY <2>1, CompletedKept, OverKept, ProcessKept, KeptRefines, StopRefines DEF RestKept
<1>3. ASSUME NEW w \in Waitpoint, BeginWait(w) PROVE UNCHANGED Life!vars
  <2>1. /\ UNCHANGED <<canceled, attempts, snap>>
        /\ proc = "running" /\ proc' = "calling"
    BY <1>3 DEF BeginWait, runVars
  <2>2. UNCHANGED CompletedNow
    BY <1>3 DEF BeginWait, CompletedNow, TypeOK
  <2>3. CodeKept  BY <2>1, PhaseIs, PhaseWillBe DEF CodeKept
  <2> QED  BY <2>1, <2>2, <2>3, OverKept, KeptRefines DEF RestKept
<1>4. CASE CallReturns
  <2>1. /\ UNCHANGED <<canceled, attempts, wp, snap>>
        /\ proc = "calling" /\ call.target \in Waitpoint
        /\ \/ proc' = "running"
           \/ proc' = "waiting" /\ awaits' = Awaited(call.target)
    BY <1>4 DEF CallReturns, runVars, TypeInv, Waitpoint
  <2>2. RestKept  BY <2>1, CompletedKept, OverKept DEF RestKept
  <2>3. CASE proc' = "running"
    <3>1. CodeKept  BY <2>1, <2>3, PhaseIs, PhaseWillBe DEF CodeKept
    <3> QED  BY <2>2, <3>1, KeptRefines
  <2>4. CASE proc' = "waiting" /\ awaits' = Awaited(call.target)
    <3>1. Awaited(call.target) \in SUBSET Waitpoint
      BY <2>1 DEF Awaited, Waitpoint
    <3>2. Phase = "running" /\ Phase' = "waiting" /\ AwaitedNow' \in SUBSET Waitpoint
      BY <2>1, <2>4, <3>1, PhaseIs, PhaseWillBe
    <3>3. Life!Wait  BY <2>2, <3>2 DEF Life!Wait, RestKept
    <3> QED  BY <3>3 DEF Life!Next
  <2> QED  BY <2>1, <2>3, <2>4
<1> QED  BY <1>1, <1>2, <1>3, <1>4 DEF BlockStep, Block

-----------------------------------------------------------------------------
(* Attempts, their end and their cancellation *)

LEMMA AttemptRefines ==
  ASSUME LInv, Attempt
  PROVE  Life!Next \/ UNCHANGED Life!vars
<1> USE LInvUnfolded
<1>0. suspendReq = "latest" => proc \in {"waiting", "none"}  BY DEF LifeInv
<1>1. CASE Dequeue
  <2>1. /\ UNCHANGED <<canceled, attempts, wp, awaits>> /\ suspendReq' # "latest"
        /\ snap.status = "QUEUED" /\ snap'.status = "PENDING_EXECUTING"
        /\ proc' = IF snap.ckpt THEN "restoring" ELSE "starting"
    BY <1>1, Written DEF Dequeue, wpVars
  <2>2. RestKept  BY <2>1, CompletedKept, OverKept DEF RestKept
  <2>3. CASE snap.ckpt
    <3>1. proc \in {"frozen", "restoring"}  BY <2>3 DEF CheckpointInv
    <3>2. CodeKept  BY <2>1, <2>3, <3>1, PhaseIs, PhaseWillBe DEF CodeKept
    <3> QED  BY <2>2, <3>2, KeptRefines
  <2>4. CASE ~snap.ckpt  BY <2>1, <2>2, <2>4, ProcessStopped, StopRefines
  <2> QED  BY <2>3, <2>4
<1>2. CASE StartAttempt
  <2>1. /\ proc = "starting" /\ proc' = "running"
        /\ snap.status \notin {"FINISHED", "PENDING_CANCEL"}
        /\ attempts < MaxAttempts /\ attempts' = attempts + 1
        /\ UNCHANGED <<canceled, wp>> /\ NewSnapshot("EXECUTING", FALSE, snap.done)
    BY <1>2, Zenon DEF StartAttempt, wpVars
  <2>2. snap'.status = "EXECUTING"  BY <2>1, Written
  <2>3. ~canceled  BY <2>1 DEF CancelInv
  <2>4. Phase = "idle" /\ Phase' = "running" /\ AwaitedNow' = {}
    BY <1>0, <2>1, PhaseIs, PhaseWillBe
  <2>5. ~Over /\ UNCHANGED Over  BY <2>1, <2>2 DEF Over
  <2>6. Life!Start  BY <2>1, <2>3, <2>4, <2>5, CompletedKept DEF Life!Start
  <2> QED  BY <2>6 DEF Life!Next
<1>3. CASE StartRejected
  <2>1. /\ UNCHANGED <<canceled, attempts, wp, snap, suspendReq>>
        /\ proc = "starting" /\ proc' = "none"
    BY <1>3 DEF StartRejected, runVars, wpVars
  <2>2. CodeStopped  BY <1>0, <2>1, ProcessStopped
  <2> QED  BY <2>1, <2>2, CompletedKept, OverKept, StopRefines DEF RestKept
<1>4. CASE ContinueRunExecution
  <2>1. /\ UNCHANGED <<canceled, attempts, wp, proc, awaits>>
        /\ snap.status = "PENDING_EXECUTING" /\ NewSnapshot("EXECUTING", FALSE, snap.done)
    BY <1>4, Zenon DEF ContinueRunExecution, wpVars
  <2>2. snap'.status = "EXECUTING" /\ suspendReq' # "latest"  BY <2>1, Written
  <2>3. RestKept  BY <2>1, <2>2, CompletedKept, OverKept DEF RestKept
  <2> QED  BY <2>1, <2>2, <2>3, ProcessKept, KeptRefines, StopRefines
<1> QED  BY <1>1, <1>2, <1>3, <1>4 DEF Attempt

LEMMA FinishRefines ==
  ASSUME snap.status # "FINISHED", snap'.status = "FINISHED",
         canceled \/ Phase # "running", CodeKept \/ CodeStopped,
         UNCHANGED <<wp, attempts, canceled>>
  PROVE  Life!Next
<1>1. ~Over /\ Over'  BY DEF Over
<1>2. Life!Finish  BY <1>1, CodeIsLife, CompletedKept DEF Life!Finish
<1> QED  BY <1>2 DEF Life!Next

LEMMA CompleteRefines ==
  ASSUME LInv, Complete
  PROVE  Life!Next \/ UNCHANGED Life!vars
<1> USE LInvUnfolded
<1>0. suspendReq = "latest" => proc \in {"waiting", "none"}  BY DEF LifeInv
<1>1. CASE AttemptSucceeded
  <2>1. /\ UNCHANGED <<canceled, attempts, wp>> /\ proc = "returning" /\ proc' = "none"
        /\ snap.status # "FINISHED" /\ snap'.status = "FINISHED" /\ suspendReq' # "latest"
    BY <1>1, FinishWrites DEF AttemptSucceeded, wpVars
  <2> QED  BY <2>1, PhaseIs, ProcessStopped, FinishRefines
<1>2. CASE AttemptFailed
  <2>1. /\ UNCHANGED <<canceled, attempts, wp>> /\ proc \in {"returning", "canceling"}
        /\ proc' \in {"none", "starting"} /\ snap.status # "FINISHED"
        /\ suspendReq' # "latest"
    <3>1. suspendReq' # "latest"  BY <1>2, RetryWrites DEF AttemptFailed
    <3> QED  BY <1>2, <3>1 DEF AttemptFailed, wpVars
  <2>2. CodeStopped  BY <2>1, ProcessStopped
  <2>3. CASE snap'.status = "FINISHED"  BY <2>1, <2>2, <2>3, PhaseIs, FinishRefines
  <2>4. CASE snap'.status # "FINISHED"
    BY <2>1, <2>2, <2>4, CompletedKept, OverKept, StopRefines DEF RestKept
  <2> QED  BY <2>3, <2>4
<1>3. CASE CompletionRejected
  <2>1. /\ UNCHANGED <<canceled, attempts, wp, snap, suspendReq>>
        /\ proc \in {"returning", "canceling"} /\ proc' = "none"
    BY <1>3 DEF CompletionRejected, runVars, wpVars
  <2>2. CodeStopped  BY <1>0, <2>1, ProcessStopped
  <2> QED  BY <2>1, <2>2, CompletedKept, OverKept, StopRefines DEF RestKept
<1> QED  BY <1>1, <1>2, <1>3 DEF Complete

LEMMA CancelRefines ==
  ASSUME LInv, CancelRun
  PROVE  Life!Next
<1> USE LInvUnfolded
<1>1. /\ UNCHANGED <<attempts, wp, proc, awaits>> /\ canceled' = TRUE
      /\ snap.status # "FINISHED"
  BY DEF CancelRun, wpVars, runnerVars
<1>2. suspendReq' # "latest"
  <2>1. CASE Finish  BY <2>1, FinishWrites
  <2>2. CASE NewSnapshot("PENDING_CANCEL", FALSE, {})  BY <2>2, Written
  <2> QED  BY <2>1, <2>2 DEF CancelRun
<1>3. CodeKept \/ CodeStopped  BY <1>1, <1>2, ProcessKept
<1>4. ~Over /\ Over' \in BOOLEAN  BY <1>1 DEF Over
<1>5. Life!Cancel  BY <1>1, <1>3, <1>4, CodeIsLife, CompletedKept DEF Life!Cancel
<1> QED  BY <1>5 DEF Life!Next

-----------------------------------------------------------------------------
(* Continuations, stalled snapshots, the runner and its checkpoints *)

LEMMA ContinueRefines ==
  ASSUME LInv, Continue \/ ContinueCrash
  PROVE  Life!Next \/ UNCHANGED Life!vars
<1> USE LInvUnfolded
<1>1. UNCHANGED <<canceled, proc, awaits, wp>>  BY ContinueEffect DEF wpVars
<1>2. attempts' = attempts
  BY DEF Continue, TakeContinueJob, HandleContinueJob, ContinueCrash, runVars
<1>3. /\ (snap'.status = "FINISHED" <=> snap.status = "FINISHED")
      /\ (suspendReq' = "latest" => suspendReq = "latest")
  BY ContinueEffect DEF ResumeEffect
<1>4. RestKept  BY <1>1, <1>2, <1>3, CompletedKept, OverKept DEF RestKept
<1> QED  BY <1>1, <1>3, <1>4, ProcessKept, KeptRefines, StopRefines

\* The stall handler finishes no run whose code runs, but a canceled one.
LEMMA StalledFinish ==
  ASSUME LInv, HandleStalledSnapshot, snap'.status = "FINISHED", snap.status # "FINISHED"
  PROVE  canceled \/ Phase # "running"
<1> USE LInvUnfolded
<1>1. CASE StalledPendingExecuting
  BY <1>1, PhaseIs DEF StalledPendingExecuting, LifeInv, Executing, Live
<1>2. CASE StalledExecuting  BY <1>2, PhaseIs DEF StalledExecuting
<1>3. CASE StalledSuspended
  BY <1>3, ResumeWrites DEF StalledSuspended, ResumeEffect
<1>4. CASE StalledPendingCancel  BY <1>4 DEF StalledPendingCancel, LifeInv
<1> QED  BY <1>1, <1>2, <1>3, <1>4 DEF HandleStalledSnapshot

LEMMA StalledRefines ==
  ASSUME LInv, HandleStalledSnapshot
  PROVE  Life!Next \/ UNCHANGED Life!vars
<1> USE LInvUnfolded
<1>1. UNCHANGED <<canceled, attempts, proc, awaits, wp>>  BY StalledEffect DEF wpVars
<1>2. /\ (snap.status = "FINISHED" => snap'.status = "FINISHED")
      /\ (suspendReq' = "latest" => suspendReq = "latest")
  BY StalledEffect DEF ResumeEffect, Executing
<1>3. CodeKept \/ CodeStopped  BY <1>1, <1>2, ProcessKept
<1>4. CASE snap'.status = "FINISHED" /\ snap.status # "FINISHED"
  BY <1>1, <1>3, <1>4, StalledFinish, FinishRefines
<1>5. CASE snap'.status = "FINISHED" <=> snap.status = "FINISHED"
  BY <1>1, <1>3, <1>5, CompletedKept, OverKept, KeptRefines, StopRefines DEF RestKept
<1> QED  BY <1>2, <1>4, <1>5

LEMMA RunnerRefines ==
  ASSUME LInv, Runner \/ RunnerCrash \/ Checkpoint
  PROVE  Life!Next \/ UNCHANGED Life!vars
<1> USE LInvUnfolded
<1>0. /\ suspendReq = "latest" => proc \in {"waiting", "none"} /\ ~(awaits \subseteq got)
      /\ suspendReq = "latest" => snap.status = "EXECUTING_WITH_WAITPOINTS"
  BY DEF LifeInv, CheckpointInv
<1>1. UNCHANGED <<canceled, attempts, wp>>
  BY DEF Runner, RunnerSees, Proceed, TaskReturns, RunnerCrash, Checkpoint,
         RequestSuspend, CreateCheckpoint, DiscardCheckpoint, runVars, wpVars
<1>2. CASE RunnerSees
  <2>1. UNCHANGED <<snap, awaits, suspendReq>>  BY <1>2, RunnerSeesEffect
  <2>2. RestKept  BY <1>1, <2>1, CompletedKept, OverKept DEF RestKept
  <2>3. CodeKept \/ CodeStopped
    BY <1>0, <1>2, <2>1, RunnerSeesEffect, PhaseIs, PhaseWillBe
       DEF CodeKept, CodeStopped, Live
  <2> QED  BY <2>2, <2>3, KeptRefines, StopRefines
<1>3. CASE Proceed
  <2>1. /\ snap' = snap /\ proc = "waiting" /\ proc' = "running" /\ awaits \subseteq got
    BY <1>3 DEF Proceed, runVars
  <2>2. awaits \subseteq CompletedNow
    <3>1. got \subseteq Waitpoint /\ Completed(got)  BY DEF TypeOK, LifeInv
    <3> QED  BY <2>1, <3>1 DEF Completed, CompletedNow
  <2>3. Phase = "waiting" /\ AwaitedNow = awaits /\ Phase' = "running" /\ AwaitedNow' = {}
    BY <2>1, PhaseIs, PhaseWillBe
  <2>4. Life!Proceed
    BY <1>1, <2>1, <2>2, <2>3, CompletedKept, OverKept DEF Life!Proceed
  <2> QED  BY <2>4 DEF Life!Next
<1>4. CASE TaskReturns
  <2>1. UNCHANGED <<snap, suspendReq>> /\ proc = "running" /\ proc' = "returning"
    BY <1>4 DEF TaskReturns, runVars
  <2>2. CodeStopped  BY <1>0, <2>1, ProcessStopped
  <2> QED  BY <1>1, <2>1, <2>2, CompletedKept, OverKept, StopRefines DEF RestKept
<1>5. CASE RunnerCrash
  <2>1. /\ UNCHANGED <<snap, suspendReq, awaits>>
        /\ proc' = IF proc = "restoring" THEN "frozen" ELSE "none"
    BY <1>5 DEF RunnerCrash, runVars
  <2>2. CodeKept \/ CodeStopped
    BY <1>0, <2>1, PhaseIs, PhaseWillBe DEF CodeKept, CodeStopped
  <2> QED
    BY <1>1, <2>1, <2>2, CompletedKept, OverKept, KeptRefines, StopRefines DEF RestKept
<1>6. CASE RequestSuspend
  <2>1. UNCHANGED <<snap, proc, awaits>> /\ proc = "waiting"
    BY <1>6 DEF RequestSuspend, runVars, runnerVars
  <2>2. CodeKept  BY <2>1, PhaseIs, PhaseWillBe DEF CodeKept
  <2> QED  BY <1>1, <2>1, <2>2, CompletedKept, OverKept, KeptRefines DEF RestKept
<1>7. CASE CreateCheckpoint
  <2>1. /\ suspendReq = "latest" /\ awaits' = awaits /\ proc' = "frozen"
        /\ snap'.status = "SUSPENDED"
    BY <1>7 DEF CreateCheckpoint, WriteSnapshot, IsLatest
  <2>2. CodeKept  BY <1>0, <2>1, PhaseIs, PhaseWillBe DEF CodeKept
  <2>3. UNCHANGED Over  BY <1>0, <2>1, OverKept
  <2> QED  BY <1>1, <2>2, <2>3, CompletedKept, KeptRefines DEF RestKept
<1>8. CASE DiscardCheckpoint
  <2>1. UNCHANGED <<snap, proc, awaits>> /\ suspendReq' = "none"
    BY <1>8 DEF DiscardCheckpoint, runVars, runnerVars
  <2>2. CodeKept \/ CodeStopped  BY <2>1, ProcessKept
  <2> QED
    BY <1>1, <2>1, <2>2, CompletedKept, OverKept, KeptRefines, StopRefines DEF RestKept
<1> QED  BY <1>2, <1>3, <1>4, <1>5, <1>6, <1>7, <1>8 DEF Runner, Checkpoint

-----------------------------------------------------------------------------
(* Theorems *)

LEMMA InitRefines == Init => Life!Init
<1> SUFFICES ASSUME Init PROVE Life!Init  OBVIOUS
<1>1. Phase = "idle" /\ AwaitedNow = {}  BY PhaseIs DEF Init
<1>2. CompletedNow = {}  BY DEF Init, CompletedNow
<1> QED  BY <1>1, <1>2 DEF Init, Life!Init, Over

LEMMA StepRefines ==
  ASSUME LInv, [Next]_vars
  PROVE  [Life!Next]_(Life!vars)
<1>1. CASE UNCHANGED vars
  <2>1. UNCHANGED <<snap, canceled, attempts, proc, awaits, suspendReq, wp>>
    BY <1>1 DEF vars, runVars, runnerVars, wpVars
  <2> QED
    BY <2>1, CompletedKept, OverKept, ProcessKept, KeptRefines, StopRefines DEF RestKept
<1> QED
  BY <1>1, WaitpointRefines, BlockRefines, AttemptRefines, CompleteRefines, CancelRefines,
     ContinueRefines, StalledRefines, RunnerRefines, StepKinds DEF RunStep

\* The invariant that the refinement needs.
THEOREM LifeInvariance == ASSUME OnTime PROVE Spec => []LInv
<1>1. Init => LInv
  BY WInvInit DEF LInv, Init, CancelInv, LifeInv, Completed, Live
<1>2. LInv /\ [Next]_vars => LInv'
  BY WInvStep, CancelStep, LifeStep DEF LInv
<1> QED  BY <1>1, <1>2, PTL DEF Spec

\* The engine and the runner keep the promise of RunLife: whatever is suspended,
\* restored, requeued, retried or lost on the way, code goes on past a wait only
\* when all of it is completed, no canceled or finished run starts again, and no
\* run is finished under code that runs but by who cancels it.
THEOREM Refinement == ASSUME OnTime PROVE Spec => ImplementsRunLife
<1>1. LInv /\ [Next]_vars => [Life!Next]_(Life!vars)
  BY StepRefines
<1> QED
  BY <1>1, InitRefines, LifeInvariance, PTL DEF Spec, ImplementsRunLife, Life!Spec
=============================================================================
