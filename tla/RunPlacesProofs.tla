--------------------------- MODULE RunPlacesProofs ---------------------------
(***************************************************************************)
(* Theorems about the place of a run between its queue and its worker.     *)
(* Consumers, workers and the TTL consumer may die at any time, dead       *)
(* letters may be redriven, and callers may die where three assumptions    *)
(* allow it: NacksAreWhole, EndsAreWhole, StartsAreWhole, each stronger    *)
(* than the one before.                                                    *)
(*                                                                         *)
(* SoleInv says that a run has one place, RunOk relates the place of a run *)
(* to its snapshot, to the call under way, and to its slot and TTL.  Most  *)
(* steps leave a run as it is and at most take a place from it: SameOk.    *)
(***************************************************************************)
EXTENDS RunQueueProofs

\* A nack is whole: its caller lives until the snapshot that follows it, and
\* nobody repairs, that is, nacks runs wherever they are.
NacksAreWhole ==
  /\ "repair" \notin Faults
  /\ CrashPoints \cap {"requeued", "deadLettered"} = {}

\* An end is whole as well: a run that is FINISHED is acknowledged, and no nack
\* beside the run lock brings its message back.
EndsAreWhole ==
  /\ NacksAreWhole
  /\ "directNack" \notin Faults
  /\ "ackRemove" \notin CrashPoints

\* A start is whole as well: a QUEUED snapshot has its enqueue, and the outcome
\* of a nack is looked at.
StartsAreWhole ==
  /\ EndsAreWhole
  /\ "workerMismatch" \notin Faults
  /\ CrashPoints \cap {"enqueue", "enqueueFast"} = {}

\* On its way from the queue to a worker.
Carried(r) ==
  \/ \E c \in Consumers : r \in held[c]
  \/ workerQueue[r] > 0
  \/ \E w \in Workers : popped[w] = r \/ delivered[w] = r

Waits(r) == phase[r] = "Queued" /\ call[r] = "none"

\* Queued for good or finished, with no enqueue or nack to come, or nacked and
\* not QUEUED or failed yet.
Settled(r) ==
  \/ /\ phase[r] \in {"Queued", "Finished"}
     /\ call[r] \notin {"enqueue", "enqueueFast", "nack", "nackOnly"}
  \/ phase[r] = "Executing" /\ call[r] \in {"requeued", "deadLettered"}

\* One place: in a queue, in the hands of one consumer, in the worker queue
\* once, or with one worker.
SoleInv ==
  /\ \A r \in Runs : queue[r] # Absent => ~Carried(r)
  /\ \A r \in Runs : workerQueue[r] <= 1
  /\ \A c, d \in Consumers : c # d => held[c] \cap held[d] = {}
  /\ \A c \in Consumers : \A r \in held[c] :
       workerQueue[r] = 0 /\ \A w \in Workers : popped[w] # r /\ delivered[w] # r
  /\ \A w \in Workers :
       /\ popped[w] # Absent => workerQueue[popped[w]] = 0
       /\ delivered[w] # Absent => workerQueue[delivered[w]] = 0
  /\ \A w, v \in Workers :
       /\ w # v /\ popped[w] # Absent => popped[w] # popped[v]
       /\ w # v /\ delivered[w] # Absent => delivered[w] # delivered[v]
       /\ popped[w] # Absent => popped[w] # delivered[v]

\* The snapshot that a call goes with.
CallOk(r) ==
  /\ call[r] \in {"enqueue", "enqueueFast", "nackOnly"} => phase[r] = "Queued"
  /\ call[r] = "release" => phase[r] = "Suspended"
  /\ call[r] \in {"nack", "requeued", "deadLettered"} =>
       phase[r] \in {"Queued", "Executing", "Finished"}
  /\ call[r] \in {"ack", "ackRemove"} => phase[r] \in {"Created", "Finished"}

\* Only a settled run has a place.
PlaceOk(r) == queue[r] # Absent \/ Carried(r) => Settled(r)

\* On its way a run has a slot for as long as it has a message.
SlotOk(r) ==
  /\ Carried(r) => r \in queueCurrentConcurrency \/ message[r] = Absent
  /\ r \in queueCurrentDequeued => r \in queueCurrentConcurrency

\* Only a settled run that is unclaimed can expire.
TtlOk(r) ==
  /\ ttlQueue[r] # Absent =>
       /\ ~Carried(r) /\ r \notin queueCurrentConcurrency /\ Settled(r)
       /\ message[r] # Absent => message[r].ttl # Absent
  /\ r \in ttlWorkerQueue => ~Carried(r) /\ message[r] = Absent /\ Settled(r)

\* A dead letter is a settled run without a place, until it is redriven.
DeadOk(r) ==
  r \in deadLetterQueue \ redriving => queue[r] = Absent /\ ~Carried(r) /\ Settled(r)

\* What can still bring a run back to a worker.
Reachable(r) == queue[r] # Absent \/ Carried(r) \/ r \in deadLetterQueue \ redriving

\* A run that is finished and not to be acknowledged has no message wherever a
\* worker may get hold of it; a run that executes has its slot.
FinalOk(r) ==
  /\ phase[r] = "Finished" /\ call[r] \in {"none", "deadLettered", "ack"} /\ Reachable(r) =>
       message[r] = Absent
  /\ phase[r] = "Finished" => call[r] \notin {"nack", "requeued"}
  /\ call[r] = "requeued" =>
       ttlQueue[r] = Absent /\ r \notin ttlWorkerQueue /\ r \notin deadLetterQueue \ redriving
  /\ phase[r] = "Executing" /\ call[r] \in {"none", "nack"} => r \in queueCurrentConcurrency
  /\ Carried(r) => r \in queueCurrentConcurrency \/ phase[r] = "Finished"
  /\ r \in markedForAck => phase[r] = "Finished"

\* Where a run that waits can be found; a message past its TTL may be left to a
\* TTL consumer that has never heard of it.
Found(r) ==
  \/ queue[r] # Absent \/ r \in queueCurrentConcurrency
  \/ ttlQueue[r] # Absent \/ r \in ttlWorkerQueue
  \/ message[r] # Absent /\ message[r].ttl # Absent

TrackOk(r) ==
  /\ call[r] # "nackOnly"
  /\ \/ Waits(r)
     \/ call[r] = "requeued"
     \/ call[r] = "nack" /\ phase[r] = "Queued"
     => Found(r)

RunOk(r) ==
  /\ CallOk(r) /\ PlaceOk(r) /\ SlotOk(r) /\ TtlOk(r) /\ DeadOk(r)
  /\ EndsAreWhole => FinalOk(r)
  /\ StartsAreWhole => TrackOk(r)

PInv == SoleInv /\ repairing = {} /\ \A r \in Runs : RunOk(r)

-----------------------------------------------------------------------------
(* What a step leaves alone *)

\* All that RunOk says of a run but its place.
Same(r) ==
  /\ phase'[r] = phase[r] /\ call'[r] = call[r] /\ message'[r] = message[r]
  /\ queue'[r] = queue[r] /\ ttlQueue'[r] = ttlQueue[r]
  /\ r \in queueCurrentConcurrency' <=> r \in queueCurrentConcurrency
  /\ r \in queueCurrentDequeued' <=> r \in queueCurrentDequeued
  /\ r \in ttlWorkerQueue' <=> r \in ttlWorkerQueue
  /\ r \in deadLetterQueue' <=> r \in deadLetterQueue
  /\ r \in redriving' <=> r \in redriving
  /\ r \in markedForAck' => r \in markedForAck

\* A place may be taken away from a run.
LEMMA SameOk ==
  ASSUME NEW r \in Runs, RunOk(r), Same(r), Carried(r)' => Carried(r)
  PROVE  RunOk(r)'
<1> USE DEF RunOk, Same
<1>1. CallOk(r)'  BY DEF CallOk
<1>2. PlaceOk(r)'  BY DEF PlaceOk, Settled
<1>3. SlotOk(r)'  BY DEF SlotOk
<1>4. TtlOk(r)'  BY DEF TtlOk, Settled
<1>5. DeadOk(r)'  BY DEF DeadOk, Settled
<1>6. EndsAreWhole => FinalOk(r)'  BY DEF FinalOk, Reachable
<1>7. StartsAreWhole => TrackOk(r)'  BY DEF TrackOk, Waits, Found
<1> QED  BY <1>1, <1>2, <1>3, <1>4, <1>5, <1>6, <1>7

\* Where nothing moves, every place stays.
LEMMA StillPlaces ==
  ASSUME UNCHANGED <<queue, held, workerQueue, popped, delivered>>, SoleInv
  PROVE  SoleInv' /\ \A r \in Runs : Carried(r)' <=> Carried(r)
BY DEF SoleInv, Carried

\* A worker that hands a run over had the only place of it.
LEMMA HandOverTakes ==
  ASSUME TypeOK, SoleInv, NEW w \in Workers, NEW r \in Runs, HandOver(w), delivered[w] = r
  PROVE  /\ SoleInv'
         /\ ~Carried(r)' /\ Carried(r) /\ queue[r] = Absent
         /\ \A s \in Runs : Carried(s)' => Carried(s)
<1> USE DEF HandOver, indexes, consumers, TypeOK
<1>1. \A s \in Runs : Carried(s)' => Carried(s)
  BY RunsAssumption DEF Carried
<1>2. Carried(r) /\ queue[r] = Absent
  BY DEF SoleInv, Carried
<1>3. ~Carried(r)'
  BY RunsAssumption DEF SoleInv, Carried
<1>4. SoleInv'
  <2>1. \A s \in Runs : queue'[s] # Absent => ~Carried(s)'
    BY <1>1 DEF SoleInv
  <2> QED  BY <2>1, RunsAssumption DEF SoleInv
<1> QED  BY <1>1, <1>2, <1>3, <1>4

-----------------------------------------------------------------------------
(* Steps of the holder of the run lock between two scripts *)

CallerStep(r) ==
  \/ Trigger(r) \/ TriggerDelayed(r) \/ EnqueueCreated(r) \/ Resume(r)
  \/ Nack(r) \/ SnapshotAfterNack(r) \/ CompleteRun(r) \/ CancelRun(r) \/ Suspend(r)

\* How such a step changes the snapshot, and the call, of its run.
Turn(r) ==
  \/ /\ phase[r] = "New" /\ call[r] = "none"
     /\ \/ phase'[r] = "Created" /\ call'[r] = "none"
        \/ phase'[r] = "Queued" /\ call'[r] \in {"enqueue", "enqueueFast"}
  \/ /\ phase[r] \in {"Created", "Suspended"} /\ call[r] = "none"
     /\ phase'[r] = "Queued" /\ call'[r] = "enqueue"
  \/ /\ phase[r] = "Executing" /\ call[r] = "none"
     /\ \/ phase'[r] = "Executing" /\ call'[r] = "nack"
        \/ phase'[r] = "Suspended" /\ call'[r] = "release"
        \/ phase'[r] = "Finished" /\ call'[r] = "ack"
  \/ /\ phase[r] \in {"Created", "Queued", "Executing", "Suspended"} /\ call[r] = "none"
     /\ phase'[r] = "Finished" /\ call'[r] = "ackRemove"
  \/ call[r] = "requeued" /\ phase'[r] = "Queued" /\ call'[r] = "none"
  \/ call[r] = "deadLettered" /\ phase[r] # "Finished"
     /\ phase'[r] = "Finished" /\ call'[r] = "ackRemove"
  \/ call[r] = "deadLettered" /\ phase[r] = "Finished"
     /\ phase'[r] = "Finished" /\ call'[r] = "none"

\* The step writes nothing but that, and nothing of any other run.
TurnsOnly(r) ==
  /\ UNCHANGED <<queue, held, workerQueue, popped, delivered, message, slots, ttlState,
                 dlqState, markedForAck>>
  /\ \A s \in Runs \ {r} : phase'[s] = phase[s] /\ call'[s] = call[s]
  /\ repairing' \subseteq repairing

LEMMA CallerStepTurns ==
  ASSUME TypeOK, CallersAreReady, NEW r \in Runs, CallOk(r), CallerStep(r)
  PROVE  Turn(r) /\ TurnsOnly(r)
<1> USE DEF TypeOK, CallersAreReady, CallOk, Turn, TurnsOnly, SetPhase, BeginCall, EndCall,
        SystemFailure, TryNackAndRequeue, Unlocked, indexes, slots, ttlState, dlqState, consumers, workers
<1>1. CASE Trigger(r)  BY <1>1 DEF Trigger
<1>2. CASE TriggerDelayed(r)  BY <1>2 DEF TriggerDelayed
<1>3. CASE EnqueueCreated(r)  BY <1>3 DEF EnqueueCreated
<1>4. CASE Resume(r)  BY <1>4 DEF Resume
<1>5. CASE Nack(r)  BY <1>5 DEF Nack
<1>6. CASE SnapshotAfterNack(r)  BY <1>6 DEF SnapshotAfterNack
<1>7. CASE CompleteRun(r)  BY <1>7 DEF CompleteRun
<1>8. CASE CancelRun(r)  BY <1>8 DEF CancelRun
<1>9. CASE Suspend(r)  BY <1>9 DEF Suspend
<1> QED  BY <1>1, <1>2, <1>3, <1>4, <1>5, <1>6, <1>7, <1>8, <1>9 DEF CallerStep

LEMMA CallerStepKeepsPlaces ==
  ASSUME TypeOK, CallersAreReady, PInv, NEW r \in Runs, CallerStep(r)
  PROVE  PInv'
<1> USE DEF PInv
<1>1. Turn(r) /\ TurnsOnly(r)
  BY CallerStepTurns DEF RunOk
<1>2. SoleInv' /\ \A s \in Runs : Carried(s)' <=> Carried(s)
  BY <1>1, StillPlaces DEF TurnsOnly
<1>3. repairing' = {}
  BY <1>1 DEF TurnsOnly
<1>4. ASSUME NEW s \in Runs \ {r} PROVE RunOk(s)'
  BY <1>1, <1>2, SameOk DEF Same, TurnsOnly, slots, ttlState, dlqState
<1>5. RunOk(r)'
  <2> USE <1>1, <1>2 DEF RunOk, Turn, TurnsOnly, slots, ttlState, dlqState
  <2>1. CallOk(r)'  BY DEF CallOk
  <2>2. Settled(r) => Settled(r)'  BY DEF CallOk, Settled
  <2>3. PlaceOk(r)'  BY <2>2 DEF PlaceOk
  <2>4. SlotOk(r)'  BY DEF SlotOk
  <2>5. TtlOk(r)'  BY <2>2 DEF TtlOk
  <2>6. DeadOk(r)'  BY <2>2 DEF DeadOk
  <2>7. EndsAreWhole => FinalOk(r)'
    BY DEF CallOk, PlaceOk, DeadOk, FinalOk, Reachable, Settled
  <2>8. StartsAreWhole => TrackOk(r)'
    BY DEF TrackOk, Waits, Found, FinalOk, StartsAreWhole
  <2> QED  BY <2>1, <2>3, <2>4, <2>5, <2>6, <2>7, <2>8
<1> QED  BY <1>2, <1>3, <1>4, <1>5

\* A caller that dies leaves its run to the next one; its call is never made.
LEMMA CallerCrashKeepsPlaces ==
  ASSUME TypeOK, NacksAreWhole, PInv, NEW r \in Runs, CallerCrash(r)
  PROVE  PInv'
<1> USE DEF PInv, TypeOK, EndCall, BeginCall
<1>1. /\ call[r] \in CrashPoints /\ call' = [call EXCEPT ![r] = "none"]
      /\ UNCHANGED <<phase, repairing, queue, held, workerQueue, popped, delivered, message,
                     slots, ttlState, dlqState, markedForAck>>
  BY DEF CallerCrash, indexes, consumers, workers
<1>2. SoleInv' /\ \A s \in Runs : Carried(s)' <=> Carried(s)
  BY <1>1, StillPlaces
<1>3. ASSUME NEW s \in Runs \ {r} PROVE RunOk(s)'
  BY <1>1, <1>2, SameOk DEF Same, slots, ttlState, dlqState
<1>4. call[r] \in {"enqueue", "enqueueFast", "nack", "nackOnly", "ack", "ackRemove", "release"}
  BY <1>1, CrashPointsAssumption DEF NacksAreWhole, Calls
<1>5. RunOk(r)'
  <2> USE <1>1, <1>2, <1>4 DEF RunOk, slots, ttlState, dlqState
  <2>1. CallOk(r)'  BY DEF CallOk
  <2>2. Settled(r) => Settled(r)'  BY DEF CallOk, Settled
  <2>3. PlaceOk(r)'  BY <2>2 DEF PlaceOk
  <2>4. SlotOk(r)'  BY DEF SlotOk
  <2>5. TtlOk(r)'  BY <2>2 DEF TtlOk
  <2>6. DeadOk(r)'  BY <2>2 DEF DeadOk
  <2>7. EndsAreWhole => FinalOk(r)'
    BY DEF CallOk, FinalOk, Reachable, EndsAreWhole
  <2>8. StartsAreWhole => TrackOk(r)'
    BY DEF CallOk, TrackOk, Waits, Found, StartsAreWhole, EndsAreWhole
  <2> QED  BY <2>1, <2>3, <2>4, <2>5, <2>6, <2>7, <2>8
<1> QED  BY <1>1, <1>2, <1>3, <1>5

-----------------------------------------------------------------------------
(* Steps of a worker that received a run *)

\* How a worker takes over the run it received: it starts, is refused, or is
\* nacked, and a finished run without a message is left alone.
TakeOver(r) ==
  \/ phase[r] = "Queued" /\ phase'[r] = "Executing" /\ call'[r] = "none"
  \/ phase[r] = "Queued" /\ phase'[r] = "Created" /\ call'[r] = "ack"
  \/ phase[r] = "Queued" /\ phase'[r] = "Finished" /\ call'[r] = "ackRemove"
  \/ phase'[r] = phase[r] /\ call'[r] = "nack" /\ message[r] # Absent
  \/ phase[r] = "Queued" /\ phase'[r] = "Queued" /\ call'[r] \in {"none", "nackOnly"}
     /\ "workerMismatch" \in Faults
  \/ phase[r] = "Finished" /\ phase'[r] = "Finished" /\ call'[r] = "none"

TakeOverStep(w, r) ==
  /\ Locks(w, r) /\ HandOver(w) /\ TakeOver(r)
  /\ \A s \in Runs \ {r} : phase'[s] = phase[s] /\ call'[s] = call[s]
  /\ repairing' \subseteq repairing

LEMMA DeliveredIsSettled ==
  ASSUME PInv, NEW r \in Runs, NEW w \in Workers, Locks(w, r)
  PROVE  phase[r] \in {"Queued", "Finished"} /\ call[r] = "none"
<1>1. Carried(r) /\ call[r] = "none"
  BY DEF Locks, Carried, Unlocked
<1> QED
  BY <1>1 DEF PInv, RunOk, PlaceOk, Settled

LEMMA WorkersTakeOver ==
  ASSUME TypeOK, PInv, NEW w \in Workers,
         \/ StartRun(w) \/ PendingVersion(w) \/ AckDuplicate(w) \/ RejectInvalid(w)
         \/ NackUndelivered(w) \/ WorkerMismatch(w)
  PROVE  \E r \in Runs : TakeOverStep(w, r)
<1> USE DEF TypeOK, TakeOverStep, TakeOver, SetPhase, BeginCall, EndCall, SystemFailure,
        TryNackAndRequeue
<1>1. CASE StartRun(w)
  <2>1. PICK r \in Runs : Locks(w, r) /\ phase[r] = "Queued" /\ SetPhase(r, "Executing")
                          /\ HandOver(w) /\ UNCHANGED <<call, payload>>
    BY <1>1 DEF StartRun
  <2> QED  BY <2>1, DeliveredIsSettled
<1>2. CASE PendingVersion(w)
  <2>1. PICK r \in Runs : Locks(w, r) /\ phase[r] = "Queued" /\ SetPhase(r, "Created")
                          /\ BeginCall(r, "ack", Absent) /\ HandOver(w)
    BY <1>2 DEF PendingVersion
  <2> QED  BY <2>1, DeliveredIsSettled
<1>3. CASE AckDuplicate(w)
  BY <1>3, DeliveredIsSettled DEF AckDuplicate
<1>4. CASE RejectInvalid(w)
  <2>1. PICK r \in Runs : Locks(w, r) /\ SystemFailure(r) /\ HandOver(w)
                          /\ phase[r] \in {"Created", "Executing", "Suspended", "Finished"}
    BY <1>4 DEF RejectInvalid
  <2>2. phase[r] = "Finished" /\ call[r] = "none"
    BY <2>1, DeliveredIsSettled
  <2> QED  BY <2>1, <2>2
<1>5. CASE NackUndelivered(w)
  <2>1. PICK r \in Runs : Locks(w, r) /\ TryNackAndRequeue(r) /\ HandOver(w)
    BY <1>5 DEF NackUndelivered
  <2> QED  BY <2>1, DeliveredIsSettled
<1>6. CASE WorkerMismatch(w)
  <2>1. PICK r \in Runs :
          /\ "workerMismatch" \in Faults /\ Locks(w, r) /\ phase[r] = "Queued" /\ HandOver(w)
          /\ IF message[r] = Absent THEN UNCHANGED engine
             ELSE BeginCall(r, "nackOnly", message[r]) /\ UNCHANGED <<phase, repairing>>
    BY <1>6 DEF WorkerMismatch
  <2> QED  BY <2>1, DeliveredIsSettled DEF engine
<1> QED  BY <1>1, <1>2, <1>3, <1>4, <1>5, <1>6

LEMMA TakeOverKeepsPlaces ==
  ASSUME TypeOK, PInv, NEW w \in Workers, NEW r \in Runs, TakeOverStep(w, r)
  PROVE  PInv'
<1> USE DEF PInv
<1>1. SoleInv' /\ ~Carried(r)' /\ Carried(r) /\ queue[r] = Absent
      /\ \A s \in Runs : Carried(s)' => Carried(s)
  BY HandOverTakes DEF TakeOverStep, Locks
<1>2. UNCHANGED <<message, queue, slots, ttlState, dlqState, markedForAck>>
  BY DEF TakeOverStep, HandOver, indexes
<1>3. repairing' = {}
  BY DEF TakeOverStep
<1>4. ASSUME NEW s \in Runs \ {r} PROVE RunOk(s)'
  BY <1>1, <1>2, SameOk DEF Same, TakeOverStep, slots, ttlState, dlqState
<1>5. RunOk(r)'
  <2>1. TakeOver(r) /\ call[r] = "none" /\ phase[r] \in {"Queued", "Finished"}
    BY DeliveredIsSettled DEF TakeOverStep
  <2> USE <1>1, <1>2, <2>1 DEF RunOk, TakeOver, slots, ttlState, dlqState
  <2>2. CallOk(r)'  BY DEF CallOk
  <2>3. PlaceOk(r)'  BY DEF PlaceOk
  <2>4. SlotOk(r)'  BY DEF SlotOk
  <2>5. TtlOk(r)'  BY DEF TtlOk
  <2>6. DeadOk(r)'  BY DEF DeadOk
  <2>7. EndsAreWhole => FinalOk(r)'
    BY DEF FinalOk, Reachable, TtlOk, DeadOk
  <2>8. StartsAreWhole => TrackOk(r)'
    BY DEF SlotOk, TrackOk, Waits, Found, StartsAreWhole
  <2> QED  BY <2>2, <2>3, <2>4, <2>5, <2>6, <2>7, <2>8
<1> QED  BY <1>1, <1>3, <1>4, <1>5

-----------------------------------------------------------------------------
(* Steps that move a run along, or lose it *)

\* Whatever moves runs, and changes nothing else that RunOk speaks of.
LEMMA MovesKeepRuns ==
  ASSUME \A r \in Runs : RunOk(r), \A r \in Runs : Carried(r)' => Carried(r),
         UNCHANGED <<phase, call, message, queue, slots, ttlQueue, ttlWorkerQueue, dlqState,
                     markedForAck>>
  PROVE  \A r \in Runs : RunOk(r)'
BY SameOk DEF Same, slots, dlqState

LEMMA ConsumersMove ==
  ASSUME TypeOK, PInv, NEW c \in Consumers,
         \/ StartProcessJob(c) \/ FinishProcessJob(c)
         \/ PushToWorkerQueue(c) \/ ConsumerCrash(c)
  PROVE  PInv'
<1> USE DEF PInv, TypeOK
<1>1. CASE StartProcessJob(c) \/ FinishProcessJob(c)
  <2>1. UNCHANGED <<indexes, held, workerQueue, workers, engine, message, slots, ttlState,
                    dlqState, markedForAck>>
    BY <1>1 DEF StartProcessJob, FinishProcessJob
  <2> QED
    BY <2>1, StillPlaces, MovesKeepRuns DEF indexes, workers, engine, ttlState
<1>2. CASE PushToWorkerQueue(c)
  <2>1. PICK r \in held[c] : PushEntry(r) /\ held' = [held EXCEPT ![c] = @ \ {r}]
    BY <1>2 DEF PushToWorkerQueue
  <2>2. UNCHANGED <<indexes, workers, engine, message, slots, ttlState,
                    dlqState, markedForAck>>
    BY <1>2 DEF PushToWorkerQueue
  <2> USE <2>1, <2>2 DEF PushEntry, indexes, workers, engine, ttlState, dlqState
  <2>3. r \in Runs  OBVIOUS
  <2>4. \A s \in Runs : Carried(s)' => Carried(s)
    <3>1. ASSUME NEW s \in Runs \ {r}, Carried(s)' PROVE Carried(s)
      BY <3>1, <2>3 DEF Carried
    <3> QED  BY <3>1 DEF Carried
  <2>5. SoleInv'
    <3>1. \A s \in Runs : queue'[s] # Absent => ~Carried(s)'
      BY <2>4 DEF SoleInv
    <3>2. \A d, e \in Consumers : d # e => held'[d] \cap held'[e] = {}
      BY DEF SoleInv
    <3>3. workerQueue' = [workerQueue EXCEPT ![r] = 1]
      <4>1. workerQueue[r] = 0
        BY <2>3 DEF SoleInv
      <4> QED  BY <4>1
    <3>4. \A d \in Consumers : r \notin held'[d]
      BY DEF SoleInv
    <3>5. \A v \in Workers : popped[v] # r /\ delivered[v] # r
      BY DEF SoleInv
    <3> QED
      BY <2>3, <3>1, <3>2, <3>3, <3>4, <3>5, RunsAssumption DEF SoleInv
  <2> QED  BY <2>4, <2>5, MovesKeepRuns
<1>3. CASE ConsumerCrash(c)
  <2>1. /\ held' = [held EXCEPT ![c] = {}]
        /\ UNCHANGED <<indexes, workerQueue, workers, engine, message, slots, ttlState, dlqState,
                       markedForAck>>
    BY <1>3 DEF ConsumerCrash
  <2> USE <2>1 DEF indexes, workers, engine, ttlState, dlqState
  <2>2. \A s \in Runs : Carried(s)' => Carried(s)
    BY DEF Carried
  <2>3. SoleInv'
    <3>1. \A s \in Runs : queue'[s] # Absent => ~Carried(s)'
      BY <2>2 DEF SoleInv
    <3> QED  BY <3>1 DEF SoleInv
  <2> QED  BY <2>2, <2>3, MovesKeepRuns
<1> QED  BY <1>1, <1>2, <1>3

LEMMA WorkersMove ==
  ASSUME TypeOK, PInv, NEW w \in Workers,
         PopWorkerQueue(w) \/ DequeueMessageFromKey(w) \/ WorkerCrash(w) \/ DirectNackRead(w)
  PROVE  PInv'
<1> USE DEF PInv, TypeOK
<1>1. CASE PopWorkerQueue(w)
  <2>1. PICK r \in Runs : /\ workerQueue[r] > 0
                          /\ workerQueue' = [workerQueue EXCEPT ![r] = @ - 1]
                          /\ popped' = [popped EXCEPT ![w] = r]
    BY <1>1 DEF PopWorkerQueue
  <2>2. /\ popped[w] = Absent /\ delivered[w] = Absent
        /\ UNCHANGED <<indexes, held, delivered, nacking, engine, message, slots, ttlState, dlqState,
                       markedForAck>>
    BY <1>1 DEF PopWorkerQueue, consumers
  <2> USE <2>1, <2>2 DEF indexes, engine, ttlState, dlqState
  <2>3. \A s \in Runs : Carried(s)' => Carried(s)
    BY DEF Carried
  <2>4. SoleInv'
    <3>1. \A s \in Runs : queue'[s] # Absent => ~Carried(s)'
      BY <2>3 DEF SoleInv
    <3>2. \A d \in Consumers : r \notin held[d]
      BY DEF SoleInv
    <3>3. \A v \in Workers : popped[v] # r /\ delivered[v] # r
      BY RunsAssumption DEF SoleInv
    <3>4. workerQueue' = [workerQueue EXCEPT ![r] = 0]
      <4>1. workerQueue[r] = 1
        BY DEF SoleInv
      <4> QED  BY <4>1
    <3> QED  BY <3>1, <3>2, <3>3, <3>4, RunsAssumption DEF SoleInv
  <2> QED  BY <2>3, <2>4, MovesKeepRuns
<1>2. CASE DequeueMessageFromKey(w)
  <2>1. PICK r \in Runs : popped[w] = r
    BY <1>2 DEF DequeueMessageFromKey
  <2>2. /\ popped' = [popped EXCEPT ![w] = Absent]
        /\ \/ message[r] = Absent /\ UNCHANGED <<delivered, queueCurrentDequeued>>
           \/ /\ message[r] # Absent /\ delivered' = [delivered EXCEPT ![w] = r]
              /\ queueCurrentDequeued' = queueCurrentDequeued \cup {r}
        /\ UNCHANGED <<indexes, held, workerQueue, nacking, engine, message, ttlState, dlqState,
                       markedForAck, queueCurrentConcurrency>>
    BY <1>2, <2>1 DEF DequeueMessageFromKey, consumers
  <2> USE <2>1, <2>2 DEF indexes, engine, ttlState, dlqState
  <2>3. \A s \in Runs : Carried(s)' => Carried(s)
    <3>1. \A v \in Workers : popped'[v] = popped[v] \/ popped'[v] = Absent
      OBVIOUS
    <3>2. \A v \in Workers : delivered'[v] = delivered[v] \/ delivered'[v] = r
      OBVIOUS
    <3> QED  BY <3>1, <3>2, RunsAssumption DEF Carried
  <2>4. SoleInv'
    <3>1. \A s \in Runs : queue'[s] # Absent => ~Carried(s)'
      BY <2>3 DEF SoleInv
    <3>2. workerQueue[r] = 0 /\ \A d \in Consumers : r \notin held[d]
      BY RunsAssumption DEF SoleInv
    <3>3. /\ \A v \in Workers : delivered[v] # r
          /\ \A v \in Workers \ {w} : popped[v] # r
      BY RunsAssumption DEF SoleInv
    <3> QED  BY <3>1, <3>2, <3>3, RunsAssumption DEF SoleInv
  <2>5. ASSUME NEW s \in Runs PROVE RunOk(s)'
    <3>1. CASE Same(s)
      BY <3>1, <2>3, SameOk
    <3>2. CASE ~Same(s)
      <4>1. s = r /\ message[r] # Absent
        BY <3>2 DEF Same
      <4>2. r \in queueCurrentConcurrency
        BY <4>1 DEF Carried, RunOk, SlotOk
      <4>3. CallOk(s)'  BY DEF RunOk, CallOk
      <4>4. PlaceOk(s)'  BY <2>3 DEF RunOk, PlaceOk, Settled
      <4>5. SlotOk(s)'  BY <2>3, <4>1, <4>2 DEF RunOk, SlotOk
      <4>6. TtlOk(s)'  BY <2>3 DEF RunOk, TtlOk, Settled
      <4>7. DeadOk(s)'  BY <2>3 DEF RunOk, DeadOk, Settled
      <4>8. EndsAreWhole => FinalOk(s)'  BY <2>3 DEF RunOk, FinalOk, Reachable
      <4>9. StartsAreWhole => TrackOk(s)'  BY DEF RunOk, TrackOk, Waits, Found
      <4> QED  BY <4>3, <4>4, <4>5, <4>6, <4>7, <4>8, <4>9 DEF RunOk
    <3> QED  BY <3>1, <3>2
  <2> QED  BY <2>4, <2>5
<1>3. CASE WorkerCrash(w)
  <2>1. /\ popped' = [popped EXCEPT ![w] = Absent]
        /\ delivered' = [delivered EXCEPT ![w] = Absent]
        /\ nacking' = [nacking EXCEPT ![w] = Absent]
        /\ UNCHANGED <<indexes, held, workerQueue, engine, message, slots, ttlState, dlqState,
                       markedForAck>>
    BY <1>3 DEF WorkerCrash, consumers
  <2> USE <2>1 DEF indexes, engine, ttlState, dlqState
  <2>2. \A s \in Runs : Carried(s)' => Carried(s)
    BY RunsAssumption DEF Carried
  <2>3. SoleInv'
    <3>1. \A s \in Runs : queue'[s] # Absent => ~Carried(s)'
      BY <2>2 DEF SoleInv
    <3> QED  BY <3>1, RunsAssumption DEF SoleInv
  <2> QED  BY <2>2, <2>3, MovesKeepRuns
<1>4. CASE DirectNackRead(w)
  <2>1. /\ delivered' = [delivered EXCEPT ![w] = Absent] \/ delivered' = delivered
        /\ UNCHANGED <<indexes, held, workerQueue, popped, engine, message, slots, ttlState,
                       dlqState, markedForAck>>
    BY <1>4 DEF DirectNackRead, consumers
  <2> USE <2>1 DEF indexes, engine, ttlState, dlqState
  <2>2. \A s \in Runs : Carried(s)' => Carried(s)
    BY RunsAssumption DEF Carried
  <2>3. SoleInv'
    <3>1. \A s \in Runs : queue'[s] # Absent => ~Carried(s)'
      BY <2>2 DEF SoleInv
    <3> QED  BY <3>1, RunsAssumption DEF SoleInv
  <2> QED  BY <2>2, <2>3, MovesKeepRuns
<1> QED  BY <1>1, <1>2, <1>3, <1>4

-----------------------------------------------------------------------------
(* The scripts on one run *)

USE DEF indexes, slots, ttlState, dlqState, consumers, workers, engine

\* Entries may leave the queue and the worker queue, and a run that has no
\* place may get one in its queue.
LEMMA PlacesStayUnique ==
  ASSUME TypeOK, SoleInv, UNCHANGED <<held, popped, delivered>>,
         workerQueue' \in [Runs -> Nat],
         \A r \in Runs : workerQueue'[r] <= workerQueue[r],
         \A r \in Runs : queue'[r] # Absent => queue[r] # Absent \/ ~Carried(r)
  PROVE  SoleInv' /\ \A r \in Runs : Carried(r)' => Carried(r)
<1> USE DEF TypeOK
<1>1. \A r \in Runs : workerQueue[r] = 0 => workerQueue'[r] = 0
  OBVIOUS
<1>2. \A r \in Runs : workerQueue'[r] > 0 => workerQueue[r] > 0
  OBVIOUS
<1>3. \A r \in Runs : Carried(r)' => Carried(r)
  BY <1>2 DEF Carried
<1>4. \A r \in Runs : queue'[r] # Absent => ~Carried(r)'
  BY <1>3 DEF SoleInv
<1>5. \A r \in Runs : workerQueue'[r] <= 1
  BY DEF SoleInv
<1>6. \A c \in Consumers : \A r \in held'[c] :
        workerQueue'[r] = 0 /\ \A w \in Workers : popped'[w] # r /\ delivered'[w] # r
  BY <1>1 DEF SoleInv
<1>7. \A w \in Workers :
        /\ popped'[w] # Absent => workerQueue'[popped'[w]] = 0
        /\ delivered'[w] # Absent => workerQueue'[delivered'[w]] = 0
  BY <1>1, RunsAssumption DEF SoleInv
<1>8. /\ \A c, d \in Consumers : c # d => held'[c] \cap held'[d] = {}
      /\ \A w, v \in Workers :
           /\ w # v /\ popped'[w] # Absent => popped'[w] # popped'[v]
           /\ w # v /\ delivered'[w] # Absent => delivered'[w] # delivered'[v]
           /\ popped'[w] # Absent => popped'[w] # delivered'[v]
  BY DEF SoleInv
<1> QED  BY <1>3, <1>4, <1>5, <1>6, <1>7, <1>8 DEF SoleInv

\* A script on the run r leaves the others as they are.
OnlyRun(r) ==
  /\ \A s \in Runs \ {r} :
       /\ phase'[s] = phase[s] /\ call'[s] = call[s] /\ message'[s] = message[s]
       /\ queue'[s] = queue[s] /\ ttlQueue'[s] = ttlQueue[s]
       /\ s \in queueCurrentConcurrency' <=> s \in queueCurrentConcurrency
       /\ s \in queueCurrentDequeued' <=> s \in queueCurrentDequeued
       /\ s \in ttlWorkerQueue' <=> s \in ttlWorkerQueue
       /\ s \in deadLetterQueue' <=> s \in deadLetterQueue
       /\ s \in redriving' <=> s \in redriving
       /\ s \in markedForAck' => s \in markedForAck
  /\ repairing' \subseteq repairing

LEMMA ScriptKeepsPlaces ==
  ASSUME PInv, NEW r \in Runs, OnlyRun(r), SoleInv', RunOk(r)',
         \A s \in Runs \ {r} : Carried(s)' => Carried(s)
  PROVE  PInv'
<1>1. ASSUME NEW s \in Runs \ {r} PROVE RunOk(s)'
  BY <1>1, SameOk DEF Same, OnlyRun, PInv
<1>2. repairing' = {}
  BY DEF OnlyRun, PInv
<1> QED  BY <1>1, <1>2 DEF PInv

\* A run whose caller is about to enqueue or nack has no place, and no TTL.
LEMMA NoPlaceYet ==
  ASSUME PInv, NEW r \in Runs, ~Settled(r)
  PROVE  /\ ~Carried(r) /\ queue[r] = Absent
         /\ ttlQueue[r] = Absent /\ r \notin ttlWorkerQueue
         /\ r \notin deadLetterQueue \ redriving
BY DEF PInv, RunOk, PlaceOk, TtlOk, DeadOk

LEMMA AboutToPlace ==
  ASSUME PInv, NEW r \in Runs, call[r] \in {"enqueue", "enqueueFast", "nack", "nackOnly", "release"}
  PROVE  ~Settled(r)
BY DEF PInv, RunOk, CallOk, Settled

\* What the slow path of the enqueue script writes for a run without a place.
SlowWrites(r, msg) ==
  /\ message'[r] = msg /\ queue'[r] # Absent
  /\ ttlQueue'[r] = IF msg.ttl = Absent THEN ttlQueue[r] ELSE msg.ttl
  /\ r \notin queueCurrentConcurrency' /\ r \notin queueCurrentDequeued'
  /\ UNCHANGED ttlWorkerQueue
  /\ \A s \in Runs \ {r} :
       /\ message'[s] = message[s] /\ queue'[s] = queue[s] /\ ttlQueue'[s] = ttlQueue[s]
       /\ s \in queueCurrentConcurrency' <=> s \in queueCurrentConcurrency
       /\ s \in queueCurrentDequeued' <=> s \in queueCurrentDequeued
  /\ SoleInv' /\ \A s \in Runs : Carried(s)' => Carried(s)

LEMMA EnqueueSlowWrites ==
  ASSUME TypeOK, SoleInv, NEW r \in Runs, NEW msg, EnqueueSlow(r, msg), ~Carried(r),
         UNCHANGED <<held, popped, delivered>>
  PROVE  SlowWrites(r, msg)
<1> USE DEF TypeOK
<1>1. PICK score \in 0..now : queue' = [queue EXCEPT ![r] = score]
  BY DEF EnqueueSlow, AddToQueue
<1>2. score # Absent
  BY RunsAssumption
<1>3. /\ message' = [message EXCEPT ![r] = msg]
      /\ ttlQueue' = IF msg.ttl = Absent THEN ttlQueue ELSE [ttlQueue EXCEPT ![r] = msg.ttl]
      /\ queueCurrentConcurrency' = queueCurrentConcurrency \ {r}
      /\ queueCurrentDequeued' = queueCurrentDequeued \ {r}
      /\ UNCHANGED <<workerQueue, ttlWorkerQueue>>
  BY DEF EnqueueSlow, ReleaseSlots
<1>4. SoleInv' /\ \A s \in Runs : Carried(s)' => Carried(s)
  BY <1>1, <1>3, PlacesStayUnique
<1> QED  BY <1>1, <1>2, <1>3, <1>4 DEF SlowWrites

\* The enqueue script gives a run its first place: in its queue, or on the fast
\* path an entry of the worker queue and a slot.
LEMMA EnqueueMessagePlaces ==
  ASSUME TypeOK, CallersAreReady, PInv, NEW r \in Runs, EnqueueMessage(r)
  PROVE  PInv'
<1> USE DEF TypeOK, EndCall, BeginCall
<1>1. /\ call[r] \in {"enqueue", "enqueueFast"} /\ payload[r] \in Message
      /\ UNCHANGED <<phase, repairing, markedForAck, dlqState, held, popped, delivered,
                     nacking>>
      /\ call' = [call EXCEPT ![r] = "none"]
      /\ EnqueueSlow(r, payload[r]) \/ EnqueueFast(r, payload[r])
  BY DEF EnqueueMessage, CallersAreReady
<1>2. /\ phase[r] = "Queued" /\ ~Carried(r) /\ queue[r] = Absent
      /\ ttlQueue[r] = Absent /\ r \notin ttlWorkerQueue
      /\ r \notin deadLetterQueue \ redriving
      /\ EndsAreWhole => r \notin markedForAck
  BY <1>1, AboutToPlace, NoPlaceYet DEF PInv, RunOk, CallOk, FinalOk
<1>3. CASE EnqueueSlow(r, payload[r])
  <2>1. SlowWrites(r, payload[r])
    BY <1>1, <1>2, <1>3, EnqueueSlowWrites DEF PInv
  <2>2. OnlyRun(r)
    BY <1>1, <2>1 DEF OnlyRun, SlowWrites
  <2>3. RunOk(r)'
    <3> USE <1>1, <1>2, <2>1 DEF SlowWrites
    <3>1. CallOk(r)'  BY DEF CallOk
    <3>2. Settled(r)'  BY DEF Settled
    <3>3. PlaceOk(r)'  BY <3>2 DEF PlaceOk
    <3>4. SlotOk(r)'  BY DEF SlotOk
    <3>5. TtlOk(r)'  BY <3>2, AbsentIsNoMessage DEF TtlOk
    <3>6. DeadOk(r)'  BY DEF DeadOk
    <3>7. EndsAreWhole => FinalOk(r)'  BY DEF FinalOk
    <3>8. TrackOk(r)'  BY DEF TrackOk, Found
    <3> QED  BY <3>1, <3>3, <3>4, <3>5, <3>6, <3>7, <3>8 DEF RunOk
  <2> QED  BY <2>1, <2>2, <2>3, ScriptKeepsPlaces DEF SlowWrites
<1>4. CASE EnqueueFast(r, payload[r])
  <2>1. /\ message' = [message EXCEPT ![r] = payload[r]]
        /\ workerQueue' = [workerQueue EXCEPT ![r] = @ + 1]
        /\ queueCurrentConcurrency' = queueCurrentConcurrency \cup {r}
        /\ UNCHANGED <<queue, queueCurrentDequeued, ttlQueue, ttlWorkerQueue>>
    BY <1>4 DEF EnqueueFast, ClaimSlots, PushEntry
  <2>2. workerQueue' = [workerQueue EXCEPT ![r] = 1]
    <3>1. workerQueue[r] = 0
      BY <1>2 DEF Carried
    <3> QED  BY <2>1, <3>1
  <2>3. \A s \in Runs \ {r} : Carried(s)' => Carried(s)
    BY <1>1, <2>2 DEF Carried
  <2>4. SoleInv'
    <3> USE <1>1, <1>2, <2>2
    <3>1. \A s \in Runs : queue'[s] # Absent => ~Carried(s)'
      BY <2>1, <2>3 DEF PInv, SoleInv
    <3>2. /\ \A c \in Consumers : r \notin held[c]
          /\ \A w \in Workers : popped[w] # r /\ delivered[w] # r
      BY DEF Carried
    <3> QED  BY <3>1, <3>2, RunsAssumption DEF PInv, SoleInv
  <2>5. OnlyRun(r)
    BY <1>1, <2>1 DEF OnlyRun
  <2>6. RunOk(r)'
    <3> USE <1>1, <1>2, <2>1
    <3>1. CallOk(r)'  BY DEF CallOk
    <3>2. PlaceOk(r)'  BY DEF PlaceOk, Settled
    <3>3. SlotOk(r)'  BY DEF SlotOk
    <3>4. TtlOk(r)'  BY DEF TtlOk
    <3>5. DeadOk(r)'  BY DEF DeadOk
    <3>6. EndsAreWhole => FinalOk(r)'  BY DEF FinalOk
    <3>7. TrackOk(r)'  BY DEF TrackOk, Found
    <3> QED  BY <3>1, <3>2, <3>3, <3>4, <3>5, <3>6, <3>7 DEF RunOk
  <2> QED  BY <2>3, <2>4, <2>5, <2>6, ScriptKeepsPlaces
<1> QED  BY <1>1, <1>3, <1>4

\* A redrive writes the message that the dead letter kept; the run may have
\* failed meanwhile.
LEMMA RedriveMessagePlaces ==
  ASSUME TypeOK, PInv, NEW r \in Runs, RedriveMessage(r)
  PROVE  PInv'
<1> USE DEF TypeOK
<1> DEFINE msg == [message[r] EXCEPT !.attempt = 0]
<1>1. /\ r \in deadLetterQueue /\ r \notin redriving /\ message[r] # Absent
      /\ EnqueueSlow(r, msg)
      /\ redriving' = redriving \cup {r}
      /\ UNCHANGED <<deadLetterQueue, phase, call, repairing, markedForAck, held, popped,
                     delivered, nacking>>
  BY DEF RedriveMessage
<1>2. /\ ~Carried(r) /\ r \notin ttlWorkerQueue /\ Settled(r)
      /\ ttlQueue[r] # Absent => message[r].ttl # Absent
  BY <1>1 DEF PInv, RunOk, DeadOk, TtlOk
<1>3. message[r] \in Message /\ msg.ttl = message[r].ttl /\ msg \in Message
  BY <1>1, RedrivenMessageType DEF Message
<1> HIDE DEF msg
<1>4. SlowWrites(r, msg)
  BY <1>1, <1>2, EnqueueSlowWrites DEF PInv
<1>5. OnlyRun(r)
  BY <1>1, <1>4 DEF OnlyRun, SlowWrites
<1>6. RunOk(r)'
  <2> USE <1>1, <1>2, <1>3, <1>4 DEF SlowWrites, PInv, RunOk
  <2>1. CallOk(r)'  BY DEF CallOk
  <2>2. Settled(r)'  BY DEF Settled
  <2>3. PlaceOk(r)'  BY <2>2 DEF PlaceOk
  <2>4. SlotOk(r)'  BY DEF SlotOk
  <2>5. TtlOk(r)'  BY <2>2, AbsentIsNoMessage DEF TtlOk
  <2>6. DeadOk(r)'  BY DEF DeadOk
  <2>7. EndsAreWhole => FinalOk(r)'  BY DEF FinalOk, Reachable, Settled
  <2>8. StartsAreWhole => TrackOk(r)'  BY DEF TrackOk, Found
  <2> QED  BY <2>1, <2>3, <2>4, <2>5, <2>6, <2>7, <2>8
<1> QED  BY <1>4, <1>5, <1>6, ScriptKeepsPlaces DEF SlowWrites

\* A redrive ends: its run is in no dead letter queue any more.
LEMMA FinishRedrivePlaces ==
  ASSUME PInv, NEW r \in Runs, FinishRedrive(r)
  PROVE  PInv'
<1>1. /\ UNCHANGED <<phase, call, message, queue, workerQueue, held, popped, delivered,
                     repairing, ttlQueue, ttlWorkerQueue, markedForAck,
                     queueCurrentConcurrency, queueCurrentDequeued>>
      /\ redriving' = redriving \ {r} /\ deadLetterQueue' = deadLetterQueue \ {r}
  BY DEF FinishRedrive
<1>2. SoleInv' /\ \A s \in Runs : Carried(s)' <=> Carried(s)
  BY <1>1, StillPlaces DEF PInv
<1>3. OnlyRun(r)
  BY <1>1 DEF OnlyRun
<1>4. RunOk(r)'
  <2> USE <1>1, <1>2 DEF PInv, RunOk
  <2>1. CallOk(r)'  BY DEF CallOk
  <2>2. PlaceOk(r)'  BY DEF PlaceOk, Settled
  <2>3. SlotOk(r)'  BY DEF SlotOk
  <2>4. TtlOk(r)'  BY DEF TtlOk, Settled
  <2>5. DeadOk(r)'  BY DEF DeadOk
  <2>6. EndsAreWhole => FinalOk(r)'  BY DEF FinalOk, Reachable
  <2>7. StartsAreWhole => TrackOk(r)'  BY DEF TrackOk, Waits, Found
  <2> QED  BY <2>1, <2>2, <2>3, <2>4, <2>5, <2>6, <2>7
<1> QED  BY <1>2, <1>3, <1>4, ScriptKeepsPlaces

\* What the nack script writes for a run that is in no queue: a new entry of its
\* queue, or a dead letter.
NackWrites(r) ==
  /\ queueCurrentConcurrency' = queueCurrentConcurrency \ {r}
  /\ queueCurrentDequeued' = queueCurrentDequeued \ {r}
  /\ UNCHANGED redriving
  /\ \A s \in Runs \ {r} : message'[s] = message[s] /\ queue'[s] = queue[s]

RequeueWrites(r) ==
  /\ queue'[r] # Absent /\ deadLetterQueue' = deadLetterQueue

DeadLetterWrites(r) ==
  /\ queue'[r] = Absent /\ deadLetterQueue' = deadLetterQueue \cup {r}

LEMMA RequeueScript ==
  ASSUME TypeOK, NEW r \in Runs, NEW msg \in Message, Requeue(r, msg)
  PROVE  NackWrites(r) /\ RequeueWrites(r)
<1> USE DEF TypeOK
<1>1. PICK score \in RetryTimes : queue' = [queue EXCEPT ![r] = score]
  BY DEF Requeue, AddToQueue
<1>2. score # Absent
  BY RunsAssumption, BoundsAssumption DEF RetryTimes
<1> QED
  BY <1>1, <1>2 DEF Requeue, ReleaseSlots, NackWrites, RequeueWrites

LEMMA DeadLetterScript ==
  ASSUME TypeOK, NEW r \in Runs, MoveToDeadLetterQueue(r)
  PROVE  NackWrites(r) /\ DeadLetterWrites(r)
BY DEF TypeOK, MoveToDeadLetterQueue, RemoveFromQueue, ReleaseSlots, Zrem, NackWrites,
       DeadLetterWrites

LEMMA NackMessagePlaces ==
  ASSUME TypeOK, CallersAreReady, PInv, NEW r \in Runs, NackMessage(r)
  PROVE  PInv'
<1> USE DEF TypeOK, BeginCall
<1>1. /\ call[r] \in {"nack", "nackOnly"} /\ payload[r] \in Message
      /\ phase[r] \in {"Queued", "Executing", "Finished"}
      /\ call[r] = "nackOnly" => phase[r] = "Queued"
      /\ ~Carried(r) /\ queue[r] = Absent
      /\ ttlQueue[r] = Absent /\ r \notin ttlWorkerQueue
      /\ r \notin deadLetterQueue \ redriving
  BY AboutToPlace, NoPlaceYet DEF NackMessage, CallersAreReady, PInv, RunOk, CallOk
<1>2. /\ UNCHANGED <<phase, repairing, markedForAck, held, popped, delivered, workerQueue,
                     ttlQueue, ttlWorkerQueue>>
      /\ \A s \in Runs \ {r} : call'[s] = call[s]
      /\ call[r] = "nackOnly" => call'[r] = "none"
      /\ call[r] = "nack" => call'[r] = IF AttemptsLeft(payload[r]) THEN "requeued"
                                       ELSE "deadLettered"
  BY <1>1 DEF NackMessage
<1>3. /\ NackWrites(r)
      /\ IF AttemptsLeft(payload[r]) THEN RequeueWrites(r) ELSE DeadLetterWrites(r)
  BY <1>1, RequeueScript, DeadLetterScript DEF NackMessage
<1>4. SoleInv' /\ \A s \in Runs : Carried(s)' => Carried(s)
  BY <1>1, <1>2, <1>3, PlacesStayUnique DEF PInv, NackWrites
<1>5. OnlyRun(r)
  BY <1>2, <1>3 DEF OnlyRun, NackWrites, RequeueWrites, DeadLetterWrites
<1>6. RunOk(r)'
  <2> USE <1>1, <1>2, <1>3, <1>4 DEF NackWrites, RequeueWrites, DeadLetterWrites
  <2>1. CallOk(r)'  BY DEF CallOk
  <2>2. Settled(r)'  BY DEF Settled
  <2>3. PlaceOk(r)'  BY <2>2 DEF PlaceOk
  <2>4. SlotOk(r)'  BY DEF SlotOk
  <2>5. TtlOk(r)'  BY DEF TtlOk
  <2>6. DeadOk(r)'  BY <2>2 DEF DeadOk
  <2>7. EndsAreWhole => FinalOk(r)'
    <3> SUFFICES ASSUME EndsAreWhole PROVE FinalOk(r)'
      OBVIOUS
    <3>1. FinalOk(r)
      BY DEF PInv, RunOk
    <3>2. phase'[r] # "Finished"
      BY <3>1 DEF FinalOk
    <3> QED  BY <3>1, <3>2 DEF FinalOk
  <2>8. StartsAreWhole => TrackOk(r)'
    BY DEF PInv, RunOk, TrackOk, Waits, Found
  <2> QED  BY <2>1, <2>3, <2>4, <2>5, <2>6, <2>7, <2>8 DEF RunOk
<1> QED  BY <1>4, <1>5, <1>6, ScriptKeepsPlaces

\* A nack without the run lock: the run leaves the worker it was delivered to.
LEMMA DirectNackPlaces ==
  ASSUME TypeOK, CallersAreReady, PInv, ~EndsAreWhole, NEW w \in Workers,
         DirectNackMessage(w)
  PROVE  PInv'
<1> USE DEF TypeOK
<1>1. PICK r \in Runs : delivered[w] = r
  BY DEF DirectNackMessage, CallersAreReady
<1>2. /\ nacking[w] \in Message
      /\ UNCHANGED <<phase, call, repairing, markedForAck, held, popped, workerQueue,
                     ttlQueue, ttlWorkerQueue>>
      /\ delivered' = [delivered EXCEPT ![w] = Absent]
  BY DEF DirectNackMessage
<1>3. NackWrites(r) /\ (RequeueWrites(r) \/ DeadLetterWrites(r))
  BY <1>1, <1>2, RequeueScript, DeadLetterScript DEF DirectNackMessage
<1>4. Carried(r) /\ queue[r] = Absent /\ Settled(r)
  BY <1>1 DEF Carried, PInv, SoleInv, RunOk, PlaceOk
<1>5. ~Carried(r)' /\ \A s \in Runs : Carried(s)' => Carried(s)
  <2>1. \A s \in Runs : Carried(s)' => Carried(s)
    BY <1>2, RunsAssumption DEF Carried
  <2>2. ~Carried(r)'
    BY <1>1, <1>2, RunsAssumption DEF PInv, SoleInv, Carried
  <2> QED  BY <2>1, <2>2
<1>6. SoleInv'
  <2>1. \A s \in Runs : queue'[s] # Absent => ~Carried(s)'
    BY <1>3, <1>5 DEF PInv, SoleInv, NackWrites
  <2> QED  BY <1>2, <2>1, RunsAssumption DEF PInv, SoleInv
<1>7. OnlyRun(r)
  BY <1>2, <1>3 DEF OnlyRun, NackWrites, RequeueWrites, DeadLetterWrites
<1>8. RunOk(r)'
  <2> USE <1>2, <1>3, <1>4, <1>5 DEF PInv, RunOk, NackWrites, RequeueWrites, DeadLetterWrites
  <2>1. CallOk(r)'  BY DEF CallOk
  <2>2. Settled(r)'  BY DEF Settled
  <2>3. PlaceOk(r)'  BY <2>2 DEF PlaceOk
  <2>4. SlotOk(r)'  BY DEF SlotOk
  <2>5. TtlOk(r)'  BY <2>2 DEF TtlOk
  <2>6. DeadOk(r)'  BY <2>2 DEF DeadOk
  <2>7. ~StartsAreWhole  BY DEF StartsAreWhole
  <2> QED  BY <2>1, <2>3, <2>4, <2>5, <2>6, <2>7
<1> QED  BY <1>5, <1>6, <1>7, <1>8, ScriptKeepsPlaces

\* The acknowledge script takes the run out of every set: it is finished, or it
\* was never to be started (a pending version), or it was marked when it was
\* finished.
LEMMA AcknowledgePlaces ==
  ASSUME TypeOK, QueuedHasMessage, SlotsHaveMessages, PInv, NEW r \in Runs,
         NEW remove \in BOOLEAN,
         IF message[r] = Absent THEN NoMessageToAcknowledge ELSE Acknowledge(r, remove),
         UNCHANGED <<phase, repairing, held, popped, delivered, ttlQueue, ttlWorkerQueue,
                     dlqState>>,
         \A s \in Runs \ {r} : call'[s] = call[s],
         markedForAck' \subseteq markedForAck,
         \/ call[r] \in {"ack", "ackRemove"} /\ call'[r] = "none"
         \/ r \in markedForAck /\ call'[r] = call[r]
  PROVE  PInv'
<1> USE DEF TypeOK
<1>1. /\ message'[r] = Absent /\ queue'[r] = Absent
      /\ r \notin queueCurrentConcurrency' /\ r \notin queueCurrentDequeued'
      /\ \A s \in Runs \ {r} :
           /\ message'[s] = message[s] /\ queue'[s] = queue[s]
           /\ s \in queueCurrentConcurrency' <=> s \in queueCurrentConcurrency
           /\ s \in queueCurrentDequeued' <=> s \in queueCurrentDequeued
      /\ workerQueue' = workerQueue \/ workerQueue' = [workerQueue EXCEPT ![r] = 0]
  <2>1. CASE message[r] = Absent
    BY <2>1 DEF NoMessageToAcknowledge, QueuedHasMessage, SlotsHaveMessages
  <2>2. CASE message[r] # Absent
    BY <2>2 DEF Acknowledge, RemoveFromQueue, ReleaseSlots, Zrem
  <2> QED  BY <2>1, <2>2
<1>2. SoleInv' /\ \A s \in Runs : Carried(s)' => Carried(s)
  <2>1. /\ workerQueue' \in [Runs -> Nat]
        /\ \A s \in Runs : workerQueue'[s] <= workerQueue[s]
    BY <1>1
  <2>2. \A s \in Runs : queue'[s] # Absent => queue[s] # Absent
    BY <1>1
  <2> QED  BY <2>1, <2>2, PlacesStayUnique DEF PInv
<1>3. OnlyRun(r)
  BY <1>1 DEF OnlyRun
<1>4. RunOk(r)'
  <2> USE <1>1, <1>2 DEF PInv, RunOk
  <2>1. CallOk(r)'  BY DEF CallOk
  <2>2. Settled(r) => Settled(r)'  BY DEF Settled
  <2>3. PlaceOk(r)'  BY <2>2 DEF PlaceOk
  <2>4. SlotOk(r)'  BY DEF SlotOk
  <2>5. TtlOk(r)'  BY <2>2 DEF TtlOk
  <2>6. DeadOk(r)'  BY <2>2 DEF DeadOk
  <2>7. ASSUME EndsAreWhole PROVE phase[r] \in {"Created", "Finished"} /\ FinalOk(r)'
    <3>1. FinalOk(r)
      BY <2>7
    <3>2. phase[r] \in {"Created", "Finished"}
      BY <3>1 DEF CallOk, FinalOk
    <3> QED  BY <3>1, <3>2 DEF FinalOk, Reachable, CallOk, PlaceOk, Settled
  <2>8. ASSUME StartsAreWhole PROVE TrackOk(r)'
    <3>1. TrackOk(r) /\ FinalOk(r) /\ phase[r] \in {"Created", "Finished"}
      BY <2>7, <2>8 DEF StartsAreWhole
    <3>2. call'[r] # "requeued"
      BY <3>1 DEF FinalOk, CallOk
    <3> QED  BY <3>1, <3>2 DEF TrackOk, Waits
  <2> QED  BY <2>1, <2>3, <2>4, <2>5, <2>6, <2>7, <2>8
<1> QED  BY <1>2, <1>3, <1>4, ScriptKeepsPlaces

LEMMA AcknowledgeMessagePlaces ==
  ASSUME TypeOK, QueuedHasMessage, SlotsHaveMessages, PInv, NEW r \in Runs,
         AcknowledgeMessage(r)
  PROVE  PInv'
<1>1. call' = [call EXCEPT ![r] = "none"]
  BY DEF AcknowledgeMessage, EndCall, BeginCall
<1>2. call'[r] = "none" /\ \A s \in Runs \ {r} : call'[s] = call[s]
  BY <1>1 DEF TypeOK
<1>3. PICK remove \in BOOLEAN :
        IF message[r] = Absent THEN NoMessageToAcknowledge ELSE Acknowledge(r, remove)
  BY DEF AcknowledgeMessage
<1>4. /\ call[r] \in {"ack", "ackRemove"}
      /\ UNCHANGED <<phase, repairing, held, popped, delivered, ttlQueue, ttlWorkerQueue,
                     markedForAck, dlqState>>
  BY DEF AcknowledgeMessage
<1> QED  BY <1>2, <1>3, <1>4, AcknowledgePlaces

LEMMA ProcessMarkedRunPlaces ==
  ASSUME TypeOK, QueuedHasMessage, SlotsHaveMessages, PInv, NEW r \in Runs,
         ProcessMarkedRun(r)
  PROVE  PInv'
<1>1. /\ r \in markedForAck /\ call' = call
      /\ markedForAck' \subseteq markedForAck
      /\ UNCHANGED <<phase, repairing, held, popped, delivered, ttlQueue, ttlWorkerQueue,
                     dlqState>>
  BY DEF ProcessMarkedRun
<1>2. IF message[r] = Absent THEN NoMessageToAcknowledge ELSE Acknowledge(r, FALSE)
  BY DEF ProcessMarkedRun
<1> QED  BY <1>1, <1>2, AcknowledgePlaces

\* A suspended run gives its slot back and keeps its message.
LEMMA ReleaseAllConcurrencyPlaces ==
  ASSUME TypeOK, PInv, NEW r \in Runs, ReleaseAllConcurrency(r)
  PROVE  PInv'
<1> USE DEF TypeOK, EndCall, BeginCall
<1>1. call[r] = "release" /\ phase[r] = "Suspended" /\ call' = [call EXCEPT ![r] = "none"]
  BY DEF ReleaseAllConcurrency, PInv, RunOk, CallOk
<1>2. /\ UNCHANGED <<phase, repairing, message, queue, workerQueue, held, popped, delivered,
                     ttlQueue, ttlWorkerQueue, dlqState, markedForAck>>
      /\ \/ UNCHANGED <<queueCurrentConcurrency, queueCurrentDequeued>>
         \/ /\ queueCurrentConcurrency' = queueCurrentConcurrency \ {r}
            /\ queueCurrentDequeued' = queueCurrentDequeued \ {r}
  BY DEF ReleaseAllConcurrency, ReleaseSlots
<1>3. SoleInv' /\ \A s \in Runs : Carried(s)' => Carried(s)
  BY <1>2, StillPlaces DEF PInv
<1>4. OnlyRun(r)
  BY <1>1, <1>2 DEF OnlyRun
<1>5. RunOk(r)'
  <2> USE <1>1, <1>2, <1>3, AboutToPlace, NoPlaceYet DEF PInv, RunOk
  <2>1. CallOk(r)'  BY DEF CallOk
  <2>2. PlaceOk(r)'  BY DEF PlaceOk
  <2>3. SlotOk(r)'  BY DEF SlotOk
  <2>4. TtlOk(r)'  BY DEF TtlOk
  <2>5. DeadOk(r)'  BY DEF DeadOk
  <2>6. EndsAreWhole => FinalOk(r)'  BY DEF FinalOk
  <2>7. StartsAreWhole => TrackOk(r)'  BY DEF TrackOk, Waits
  <2> QED  BY <2>1, <2>2, <2>3, <2>4, <2>5, <2>6, <2>7
<1> QED  BY <1>3, <1>4, <1>5, ScriptKeepsPlaces

-----------------------------------------------------------------------------
(* Steps without a run lock: time to live, the concurrency sweeper *)

\* What expires waits: its message and its queue entry go together.
LEMMA ExpireTtlRunsPlaces ==
  ASSUME TypeOK, PInv, ExpireTtlRuns
  PROVE  PInv'
<1> USE DEF TypeOK
<1>1. PICK batch \in SUBSET {r \in Runs : ttlQueue[r] # Absent /\ ttlQueue[r] <= now} :
        /\ ttlQueue' = Zrem(ttlQueue, batch)
        /\ message' = [r \in Runs |-> IF r \in batch THEN Absent ELSE message[r]]
        /\ queue' = Zrem(queue, batch)
        /\ ReleaseSlots(batch)
        /\ ttlWorkerQueue' = ttlWorkerQueue \cup batch
  BY DEF ExpireTtlRuns, DueBatches
<1>2. UNCHANGED <<workerQueue, held, popped, delivered, phase, call, repairing,
                  dlqState, markedForAck>>
  BY DEF ExpireTtlRuns
<1>3. \A s \in Runs : queue'[s] # Absent => queue[s] # Absent
  BY <1>1 DEF Zrem
<1>4. SoleInv' /\ \A s \in Runs : Carried(s)' => Carried(s)
  BY <1>2, <1>3, PlacesStayUnique DEF PInv
<1>5. ASSUME NEW s \in Runs \ batch PROVE RunOk(s)'
  BY <1>1, <1>2, <1>4, SameOk DEF Same, Zrem, ReleaseSlots, PInv
<1>6. ASSUME NEW s \in batch PROVE RunOk(s)'
  <2>1. /\ message'[s] = Absent /\ queue'[s] = Absent /\ ttlQueue'[s] = Absent
        /\ s \notin queueCurrentConcurrency' /\ s \notin queueCurrentDequeued'
    BY <1>1 DEF Zrem, ReleaseSlots
  <2>2. s \in Runs /\ ttlQueue[s] # Absent /\ ~Carried(s) /\ Settled(s)
    BY DEF PInv, RunOk, TtlOk
  <2> USE <1>2, <1>4, <2>1, <2>2 DEF PInv, RunOk
  <2>3. CallOk(s)'  BY DEF CallOk
  <2>4. Settled(s)'  BY DEF Settled
  <2>5. PlaceOk(s)'  BY <2>4 DEF PlaceOk
  <2>6. SlotOk(s)'  BY DEF SlotOk
  <2>7. TtlOk(s)'  BY <2>4 DEF TtlOk
  <2>8. DeadOk(s)'  BY <2>4 DEF DeadOk
  <2>9. EndsAreWhole => FinalOk(s)'  BY DEF FinalOk, Settled
  <2>10. s \in ttlWorkerQueue'  BY <1>1
  <2>11. StartsAreWhole => TrackOk(s)'  BY <2>10 DEF TrackOk, Found
  <2> QED  BY <2>3, <2>5, <2>6, <2>7, <2>8, <2>9, <2>11
<1> QED  BY <1>2, <1>4, <1>5, <1>6 DEF PInv

\* The TTL worker finishes a run that waits and has no place any more.
LEMMA ExpireRunPlaces ==
  ASSUME TypeOK, QueuedHasMessage, PInv, NEW r \in Runs, ExpireRun(r)
  PROVE  PInv'
<1> USE DEF TypeOK, SetPhase
<1>1. ~Carried(r) /\ message[r] = Absent /\ queue[r] = Absent /\ Settled(r)
  BY DEF ExpireRun, PInv, RunOk, TtlOk, QueuedHasMessage
<1>2. /\ \/ phase[r] = "Queued" /\ phase'[r] = "Finished"
         \/ phase[r] # "Queued" /\ phase'[r] = phase[r]
      /\ \A s \in Runs \ {r} : phase'[s] = phase[s]
      /\ repairing' \subseteq repairing
      /\ r \in ttlWorkerQueue /\ ttlWorkerQueue' = ttlWorkerQueue \ {r}
      /\ UNCHANGED <<call, message, queue, workerQueue, held, popped, delivered, ttlQueue,
                     queueCurrentConcurrency, queueCurrentDequeued, dlqState, markedForAck>>
  BY DEF ExpireRun
<1>3. SoleInv' /\ \A s \in Runs : Carried(s)' <=> Carried(s)
  BY <1>2, StillPlaces DEF PInv
<1>4. OnlyRun(r)
  BY <1>2 DEF OnlyRun
<1>5. RunOk(r)'
  <2> USE <1>1, <1>2, <1>3 DEF PInv, RunOk
  <2>1. CallOk(r)'  BY DEF CallOk, Settled
  <2>2. Settled(r)'  BY DEF Settled
  <2>3. PlaceOk(r)'  BY DEF PlaceOk
  <2>4. SlotOk(r)'  BY DEF SlotOk
  <2>5. TtlOk(r)'  BY <2>2 DEF TtlOk
  <2>6. DeadOk(r)'  BY <2>2 DEF DeadOk
  <2>7. EndsAreWhole => FinalOk(r)'  BY DEF FinalOk, Settled
  <2>8. ASSUME StartsAreWhole PROVE TrackOk(r)'
    <3>1. TrackOk(r) /\ FinalOk(r)
      BY <2>8 DEF StartsAreWhole
    <3> QED  BY <3>1 DEF TrackOk, FinalOk, Waits
  <2> QED  BY <2>1, <2>3, <2>4, <2>5, <2>6, <2>7, <2>8
<1> QED  BY <1>3, <1>4, <1>5, ScriptKeepsPlaces

\* The sweeper marks finished runs only.
LEMMA MarkRunForAckPlaces ==
  ASSUME PInv, NEW r \in Runs, MarkRunForAck(r)
  PROVE  PInv'
<1>1. /\ UNCHANGED <<phase, call, message, queue, workerQueue, held, popped, delivered,
                     repairing, ttlQueue, ttlWorkerQueue, dlqState,
                     queueCurrentConcurrency, queueCurrentDequeued>>
      /\ markedForAck' = markedForAck \cup {r} /\ phase[r] = "Finished"
  BY DEF MarkRunForAck
<1>2. SoleInv' /\ \A s \in Runs : Carried(s)' <=> Carried(s)
  BY <1>1, StillPlaces DEF PInv
<1>3. ASSUME NEW s \in Runs \ {r} PROVE RunOk(s)'
  BY <1>1, <1>2, SameOk DEF Same, PInv
<1>4. RunOk(r)'
  <2> USE <1>1, <1>2 DEF PInv, RunOk
  <2>1. CallOk(r)'  BY DEF CallOk
  <2>2. PlaceOk(r)'  BY DEF PlaceOk, Settled
  <2>3. SlotOk(r)'  BY DEF SlotOk
  <2>4. TtlOk(r)'  BY DEF TtlOk, Settled
  <2>5. DeadOk(r)'  BY DEF DeadOk, Settled
  <2>6. EndsAreWhole => FinalOk(r)'  BY DEF FinalOk, Reachable
  <2>7. StartsAreWhole => TrackOk(r)'  BY DEF TrackOk, Waits, Found
  <2> QED  BY <2>1, <2>2, <2>3, <2>4, <2>5, <2>6, <2>7
<1> QED  BY <1>1, <1>2, <1>3, <1>4 DEF PInv

-----------------------------------------------------------------------------
(* The dequeue script *)

\* A batch leaves its queue; what was claimed of it is in the hands of one
\* consumer, holds slots and cannot expire any more.
LEMMA DequeueMessagesPlaces ==
  ASSUME TypeOK, QueuedHasMessage, PInv, NEW c \in Consumers, NEW q \in Queues, held[c] = {},
         DequeueMessages(c, q)
  PROVE  PInv'
<1> USE DEF TypeOK
<1>1. PICK batch \in SUBSET DueIn(q), claimed \in SUBSET DueIn(q) :
        /\ claimed \subseteq batch
        /\ \A r \in claimed : message[r] # Absent
        /\ \A r \in batch \ claimed : message[r] # Absent => message[r].ttl # Absent
        /\ queue' = Zrem(queue, batch)
        /\ ClaimSlots(claimed) /\ UntrackTtl(claimed)
        /\ held' = [held EXCEPT ![c] = claimed]
  <2>1. PICK batch \in SUBSET DueIn(q) :
          LET live    == {r \in batch : message[r] # Absent}
              expired == {r \in live : message[r].ttl # Absent /\ message[r].ttl <= now}
              claimed == live \ expired
          IN  /\ queue' = Zrem(queue, batch)
              /\ ClaimSlots(claimed)
              /\ UntrackTtl(claimed)
              /\ held' = [held EXCEPT ![c] = claimed]
    BY DEF DequeueMessages, DueBatches
  <2> DEFINE live    == {r \in batch : message[r] # Absent}
             expired == {r \in live : message[r].ttl # Absent /\ message[r].ttl <= now}
  <2>2. /\ live \ expired \subseteq batch /\ \A r \in live \ expired : message[r] # Absent
        /\ \A r \in batch \ (live \ expired) : message[r] # Absent => message[r].ttl # Absent
    OBVIOUS
  <2> QED  BY <2>1, <2>2
<1>2. UNCHANGED <<message, workerQueue, ttlWorkerQueue, markedForAck, popped, delivered,
                  phase, call, repairing, dlqState, queueCurrentDequeued>>
  BY <1>1 DEF DequeueMessages, ClaimSlots
<1>3. /\ batch \subseteq Runs
      /\ \A r \in batch : queue[r] # Absent /\ ~Carried(r)
  BY DEF DueIn, Members, PInv, SoleInv
<1>4. /\ \A r \in batch : queue'[r] = Absent
      /\ \A r \in Runs \ batch : queue'[r] = queue[r]
      /\ queueCurrentConcurrency' = queueCurrentConcurrency \cup claimed
  BY <1>1, <1>3 DEF Zrem, ClaimSlots
<1>5. \A r \in Runs : Carried(r)' => Carried(r) \/ r \in claimed
  BY <1>1, <1>2 DEF Carried
<1>6. SoleInv'
  <2>1. \A r \in Runs : queue'[r] # Absent => ~Carried(r)'
    BY <1>1, <1>3, <1>4, <1>5 DEF PInv, SoleInv
  <2>2. \A r \in claimed :
          /\ workerQueue[r] = 0 /\ \A d \in Consumers : r \notin held[d]
          /\ \A w \in Workers : popped[w] # r /\ delivered[w] # r
    BY <1>1, <1>3 DEF Carried
  <2>3. \A d, e \in Consumers : d # e => held'[d] \cap held'[e] = {}
    BY <1>1, <2>2 DEF PInv, SoleInv
  <2>4. \A d \in Consumers : \A r \in held'[d] :
          workerQueue'[r] = 0 /\ \A w \in Workers : popped'[w] # r /\ delivered'[w] # r
    BY <1>1, <1>2, <2>2 DEF PInv, SoleInv
  <2> QED  BY <1>2, <2>1, <2>3, <2>4 DEF PInv, SoleInv
<1>7. \A r \in Runs : \/ ttlQueue'[r] = ttlQueue[r]
                      \/ r \in claimed /\ ttlQueue'[r] = Absent
  <2> DEFINE S == {r \in claimed : message[r].ttl # Absent}
  <2>1. ttlQueue' = Zrem(ttlQueue, S)
    BY <1>1 DEF UntrackTtl
  <2>2. S \subseteq claimed
    OBVIOUS
  <2> HIDE DEF S
  <2> QED  BY <2>1, <2>2 DEF Zrem
<1>8. ASSUME NEW r \in claimed PROVE RunOk(r)'
  <2>1. message[r] # Absent /\ queue[r] # Absent /\ ~Carried(r) /\ r \in Runs
    BY <1>1, <1>3
  <2>2. ttlQueue'[r] = Absent
    <3>1. message[r].ttl # Absent => ttlQueue'[r] = Absent
      BY <1>1, <2>1 DEF UntrackTtl, Zrem
    <3>2. message[r].ttl = Absent => ttlQueue[r] = Absent
      BY <2>1 DEF PInv, RunOk, TtlOk
    <3> QED  BY <1>7, <2>1, <3>1, <3>2
  <2> USE <1>2, <1>4, <2>1, <2>2 DEF PInv, RunOk
  <2>3. CallOk(r)'  BY DEF CallOk
  <2>4. PlaceOk(r)'  BY DEF PlaceOk, Settled
  <2>5. SlotOk(r)'  BY DEF SlotOk
  <2>6. TtlOk(r)'  BY DEF TtlOk
  <2>7. DeadOk(r)'  BY DEF DeadOk
  <2>8. EndsAreWhole => FinalOk(r)'  BY DEF FinalOk, Reachable
  <2>9. StartsAreWhole => TrackOk(r)'  BY DEF TrackOk, Found
  <2> QED  BY <2>3, <2>4, <2>5, <2>6, <2>7, <2>8, <2>9
<1>9. ASSUME NEW r \in batch \ claimed PROVE RunOk(r)'
  <2>1. queue[r] # Absent /\ queue'[r] = Absent /\ ~Carried(r) /\ ~Carried(r)' /\ r \in Runs
        /\ ttlQueue'[r] = ttlQueue[r]
    BY <1>3, <1>4, <1>5, <1>7
  <2>2. message[r] # Absent /\ message[r].ttl # Absent
    BY <1>1, <2>1 DEF QueuedHasMessage
  <2> USE <1>2, <1>4, <2>1 DEF PInv, RunOk
  <2>3. CallOk(r)'  BY DEF CallOk
  <2>4. PlaceOk(r)'  BY DEF PlaceOk
  <2>5. SlotOk(r)'  BY DEF SlotOk
  <2>6. TtlOk(r)'  BY DEF TtlOk, Settled
  <2>7. DeadOk(r)'  BY DEF DeadOk, Settled
  <2>8. EndsAreWhole => FinalOk(r)'  BY DEF FinalOk, Reachable
  <2>9. StartsAreWhole => TrackOk(r)'  BY <2>2 DEF TrackOk, Found
  <2> QED  BY <2>3, <2>4, <2>5, <2>6, <2>7, <2>8, <2>9
<1>10. ASSUME NEW r \in Runs \ batch PROVE RunOk(r)'
  <2>1. Same(r)
    BY <1>1, <1>2, <1>4, <1>7 DEF Same
  <2>2. Carried(r)' => Carried(r)
    BY <1>1, <1>5
  <2> QED  BY <2>1, <2>2, SameOk DEF PInv
<1> QED  BY <1>2, <1>6, <1>8, <1>9, <1>10 DEF PInv

-----------------------------------------------------------------------------
(* Every step *)

\* While nobody repairs, those steps are not taken.
LEMMA NoRepairSteps ==
  ASSUME PInv, NacksAreWhole, NEW r \in Runs
  PROVE  ~RepairEnvironment(r) /\ ~HandleRepairSnapshot(r)
BY DEF NacksAreWhole, RepairEnvironment, HandleRepairSnapshot, PInv

\* Only a worker that found the database unreachable has a message in hand.
NoDirectNack == \A w \in Workers : nacking[w] = Absent

LEMMA NoDirectNackStep ==
  ASSUME TypeOK, "directNack" \notin Faults, NoDirectNack, [Next]_vars
  PROVE  NoDirectNack'
<1> USE DEF TypeOK, NoDirectNack
<1>1. ASSUME NEW r \in Runs, RunStep(r) PROVE NoDirectNack'
  <2>1. UNCHANGED workers
    BY <1>1
       DEF RunStep, Trigger, TriggerDelayed, EnqueueCreated, Resume, EnqueueMessage, Nack,
           NackMessage, SnapshotAfterNack, CompleteRun, CancelRun, AcknowledgeMessage, Suspend,
           ReleaseAllConcurrency, CallerCrash, ExpireRun, MarkRunForAck, ProcessMarkedRun,
           RepairEnvironment, HandleRepairSnapshot, RedriveMessage, FinishRedrive
  <2> QED  BY <2>1
<1>2. ASSUME NEW c \in Consumers, ConsumerStep(c) PROVE NoDirectNack'
  BY <1>2 DEF ConsumerStep, ProcessMasterQueue, StartProcessJob, ProcessQueueForWorkerQueue,
              FinishProcessJob, PushToWorkerQueue, ConsumerCrash, DequeueMessages
<1>3. ASSUME NEW w \in Workers, WorkerStep(w) PROVE NoDirectNack'
  <2>1. CASE \/ StartRun(w) \/ PendingVersion(w) \/ AckDuplicate(w) \/ RejectInvalid(w)
             \/ NackUndelivered(w) \/ WorkerMismatch(w)
    BY <2>1 DEF StartRun, PendingVersion, AckDuplicate, RejectInvalid, NackUndelivered,
                WorkerMismatch, HandOver
  <2>2. CASE PopWorkerQueue(w) \/ DequeueMessageFromKey(w) \/ WorkerCrash(w)
    BY <2>2 DEF PopWorkerQueue, DequeueMessageFromKey, WorkerCrash
  <2>3. ~DirectNackRead(w) /\ ~DirectNackMessage(w)
    BY DEF DirectNackRead, DirectNackMessage
  <2> QED  BY <1>3, <2>1, <2>2, <2>3 DEF WorkerStep
<1>4. CASE SystemStep
  BY <1>4 DEF SystemStep, ExpireTtlRuns, RebalanceExpired, TtlConsumerCrash, SetEnvLimit,
              SetQueueLimit, Tick
<1>5. CASE UNCHANGED vars
  BY <1>5 DEF vars
<1> QED  BY <1>1, <1>2, <1>3, <1>4, <1>5 DEF Next

\* Steps that touch neither a place nor what RunOk speaks of.
LEMMA ElsewhereKeepsPlaces ==
  ASSUME PInv,
         UNCHANGED <<message, queue, slots, workerQueue, ttlQueue, ttlWorkerQueue,
                     dlqState, markedForAck, held, popped, delivered, engine>>
  PROVE  PInv'
<1>1. SoleInv' /\ \A r \in Runs : Carried(r)' <=> Carried(r)
  BY StillPlaces DEF PInv
<1>2. \A r \in Runs : RunOk(r)'
  BY <1>1, MovesKeepRuns DEF PInv
<1> QED  BY <1>1, <1>2 DEF PInv

LEMMA PInvStep ==
  ASSUME IInv, NacksAreWhole, PInv, EndsAreWhole => NoDirectNack, [Next]_vars
  PROVE  PInv'
<1> USE DEF IInv
<1>1. ASSUME NEW r \in Runs, RunStep(r) PROVE PInv'
  <2>1. CASE CallerStep(r)
    BY <2>1, CallerStepKeepsPlaces
  <2>2. CASE EnqueueMessage(r)
    BY <2>2, EnqueueMessagePlaces
  <2>3. CASE NackMessage(r)
    BY <2>3, NackMessagePlaces
  <2>4. CASE AcknowledgeMessage(r)
    BY <2>4, AcknowledgeMessagePlaces
  <2>5. CASE ReleaseAllConcurrency(r)
    BY <2>5, ReleaseAllConcurrencyPlaces
  <2>6. CASE ExpireRun(r)
    BY <2>6, ExpireRunPlaces
  <2>7. CASE MarkRunForAck(r)
    BY <2>7, MarkRunForAckPlaces
  <2>8. CASE ProcessMarkedRun(r)
    BY <2>8, ProcessMarkedRunPlaces
  <2>9. CASE FinishRedrive(r)
    BY <2>9, FinishRedrivePlaces
  <2>10. CASE RedriveMessage(r)
    BY <2>10, RedriveMessagePlaces
  <2>11. CASE CallerCrash(r)
    BY <2>11, CallerCrashKeepsPlaces
  <2> QED
    BY <1>1, <2>1, <2>2, <2>3, <2>4, <2>5, <2>6, <2>7, <2>8, <2>9, <2>10, <2>11, NoRepairSteps
       DEF RunStep, CallerStep
<1>2. ASSUME NEW c \in Consumers, ConsumerStep(c) PROVE PInv'
  <2>1. CASE ProcessMasterQueue(c)
    BY <2>1, DequeueMessagesPlaces DEF ProcessMasterQueue
  <2>2. CASE ProcessQueueForWorkerQueue(c)
    <3>1. job[c] \in Queues /\ held[c] = {} /\ DequeueMessages(c, job[c])
      BY <2>2 DEF ProcessQueueForWorkerQueue, TypeOK
    <3> QED  BY <3>1, DequeueMessagesPlaces
  <2> QED
    BY <1>2, <2>1, <2>2, ConsumersMove DEF ConsumerStep
<1>3. ASSUME NEW w \in Workers, WorkerStep(w) PROVE PInv'
  <2>1. CASE \/ StartRun(w) \/ PendingVersion(w) \/ AckDuplicate(w) \/ RejectInvalid(w)
             \/ NackUndelivered(w) \/ WorkerMismatch(w)
    BY <2>1, WorkersTakeOver, TakeOverKeepsPlaces
  <2>2. CASE \/ PopWorkerQueue(w) \/ DequeueMessageFromKey(w) \/ WorkerCrash(w)
             \/ DirectNackRead(w)
    BY <2>2, WorkersMove
  <2>3. CASE DirectNackMessage(w)
    <3>1. ~EndsAreWhole
      BY <2>3 DEF DirectNackMessage, NoDirectNack
    <3> QED  BY <2>3, <3>1, DirectNackPlaces
  <2> QED  BY <1>3, <2>1, <2>2, <2>3 DEF WorkerStep
<1>4. CASE SystemStep
  <2>1. CASE ExpireTtlRuns
    BY <2>1, ExpireTtlRunsPlaces
  <2>2. CASE RebalanceExpired \/ TtlConsumerCrash \/ SetEnvLimit \/ SetQueueLimit \/ Tick
    BY <2>2, ElsewhereKeepsPlaces
       DEF RebalanceExpired, TtlConsumerCrash, SetEnvLimit, SetQueueLimit, Tick
  <2> QED  BY <1>4, <2>1, <2>2 DEF SystemStep
<1>5. CASE UNCHANGED vars
  BY <1>5, ElsewhereKeepsPlaces DEF vars
<1> QED  BY <1>1, <1>2, <1>3, <1>4, <1>5 DEF Next

LEMMA PInvInit ==
  ASSUME Init
  PROVE  PInv
<1> USE RunsAssumption DEF Init, NoScores
<1>1. \A r \in Runs : ~Carried(r)
  BY DEF Carried
<1>2. SoleInv
  BY <1>1 DEF SoleInv
<1>3. \A r \in Runs : RunOk(r)
  BY <1>1 DEF RunOk, CallOk, PlaceOk, SlotOk, TtlOk, DeadOk, FinalOk, Reachable, TrackOk, Waits
<1> QED  BY <1>2, <1>3 DEF PInv

\* While nacks are whole a run has one place, and its place agrees with its snapshot, its slot and its TTL; the conjuncts of RunOk about the end and the start of a run hold while those are whole too.
THEOREM PlacesInvariance == ASSUME NacksAreWhole PROVE Spec => []PInv
<1> DEFINE Inv == PInv /\ (EndsAreWhole => NoDirectNack)
<1>1. Init => Inv
  BY PInvInit DEF NoDirectNack, Init
<1>2. IInv /\ Inv /\ [Next]_vars => Inv'
  BY PInvStep, NoDirectNackStep DEF IInv, EndsAreWhole
<1> QED  BY <1>1, <1>2, Invariance, PTL DEF Spec

-----------------------------------------------------------------------------
(* The theorems *)

LEMMA AtMostOneIn ==
  ASSUME NEW S, \A x, y \in S : x = y
  PROVE  /\ S = {} => Cardinality(S) = 0
         /\ S # {} => Cardinality(S) = 1
<1>1. S = {} => Cardinality(S) = 0
  BY FS_EmptySet
<1>2. ASSUME S # {} PROVE Cardinality(S) = 1
  <2>1. PICK x : S = {x}
    BY <1>2
  <2> QED  BY <2>1, FS_Singleton
<1> QED  BY <1>1, <1>2

LEMMA SoleIsOneCopy ==
  ASSUME TypeOK, SoleInv
  PROVE  AtMostOneCopy
<1> SUFFICES ASSUME NEW r \in Runs PROVE Copies(r) <= 1
  BY DEF AtMostOneCopy
<1> USE RunsAssumption DEF TypeOK, SoleInv, Holders, Poppers, Receivers
<1>1. /\ \A c, d \in Holders(r) : c = d
      /\ \A w, v \in Poppers(r) : w = v
      /\ \A w, v \in Receivers(r) : w = v
  OBVIOUS
<1>2. /\ Holders(r) # {} => workerQueue[r] = 0 /\ Poppers(r) = {} /\ Receivers(r) = {}
      /\ Poppers(r) # {} => workerQueue[r] = 0 /\ Receivers(r) = {}
      /\ Receivers(r) # {} => workerQueue[r] = 0
      /\ workerQueue[r] \in {0, 1}
  <2>1. ASSUME NEW c \in Holders(r)
        PROVE  workerQueue[r] = 0 /\ Poppers(r) = {} /\ Receivers(r) = {}
    OBVIOUS
  <2>2. ASSUME NEW w \in Poppers(r)
        PROVE  workerQueue[r] = 0 /\ Receivers(r) = {}
    OBVIOUS
  <2>3. ASSUME NEW w \in Receivers(r)
        PROVE  workerQueue[r] = 0
    OBVIOUS
  <2>4. workerQueue[r] \in {0, 1}
    <3>1. workerQueue[r] \in Nat
      BY DEF TypeOK
    <3>2. workerQueue[r] <= 1
      BY DEF SoleInv
    <3> HIDE DEF TypeOK, SoleInv
    <3> QED  BY <3>1, <3>2
  <2> QED  BY <2>1, <2>2, <2>3, <2>4
<1>3. queue[r] # Absent =>
        Holders(r) = {} /\ workerQueue[r] = 0 /\ Poppers(r) = {} /\ Receivers(r) = {}
  BY DEF Carried
<1> HIDE DEF TypeOK, SoleInv, Holders, Poppers, Receivers
<1>4. /\ Cardinality(Holders(r)) = IF Holders(r) = {} THEN 0 ELSE 1
      /\ Cardinality(Poppers(r)) = IF Poppers(r) = {} THEN 0 ELSE 1
      /\ Cardinality(Receivers(r)) = IF Receivers(r) = {} THEN 0 ELSE 1
  BY <1>1, AtMostOneIn
<1> QED  BY <1>2, <1>3, <1>4 DEF Copies

\* A run is never delivered to two workers, nor queued while a worker may still
\* receive it, however consumers, workers, and the TTL system interleave or die.
THEOREM OneCopy == ASSUME NacksAreWhole PROVE Spec => []AtMostOneCopy
<1>1. IInv /\ PInv => AtMostOneCopy
  BY SoleIsOneCopy DEF IInv, PInv
<1> QED  BY <1>1, Invariance, PlacesInvariance, PTL

\* A run that executes is counted: the limits bound what really executes.
THEOREM ExecutingIsCharged == ASSUME EndsAreWhole PROVE Spec => []ExecutingHoldsSlot
<1>1. PInv => ExecutingHoldsSlot
  BY DEF PInv, RunOk, FinalOk, ExecutingHoldsSlot, Unlocked
<1>2. NacksAreWhole
  BY DEF EndsAreWhole
<1> QED  BY <1>1, <1>2, PlacesInvariance, PTL

LEMMA DivisionType ==
  \A l \in EnvLimits : (l * BurstNum) \div BurstDen \in Int
<1>1. \A a \in Int, b \in Nat \ {0} : a \div b \in Int  OBVIOUS
<1>2. \A l \in EnvLimits : l * BurstNum \in Int  BY LimitsAssumption
<1> QED  BY <1>1, <1>2, LimitsAssumption

LEMMA FewerFit ==
  ASSUME NEW S \in SUBSET Runs, NEW T \in SUBSET S, FitLimits(S)
  PROVE  FitLimits(T)
<1> USE RunsAssumption, LimitsAssumption
<1>1. ASSUME NEW A \in SUBSET Runs, NEW B \in SUBSET A
      PROVE  Cardinality(B) \in Nat /\ Cardinality(A) \in Nat /\ Cardinality(B) <= Cardinality(A)
  BY FS_Subset, FS_CardinalityType
<1>2. ASSUME NEW l \in EnvLimits, EnvNeverAbove((l * BurstNum) \div BurstDen)
      PROVE  Cardinality(T) <= (l * BurstNum) \div BurstDen
  <2>1. Cardinality(S) <= (l * BurstNum) \div BurstDen  BY <1>2 DEF FitLimits
  <2>2. (l * BurstNum) \div BurstDen \in Int  BY DivisionType
  <2> QED  BY <1>1, <2>1, <2>2
<1>3. ASSUME NEW n \in EnvLimits \cup OwnLimits, NEW q \in Queues, QueuesNeverAbove(n)
      PROVE  Cardinality(InQueue(T, q)) <= n
  <2>1. Cardinality(InQueue(S, q)) <= n  BY <1>3 DEF FitLimits
  <2>2. InQueue(S, q) \subseteq Runs /\ InQueue(T, q) \subseteq InQueue(S, q)
    BY DEF InQueue
  <2> QED  BY <1>1, <2>1, <2>2 DEF OwnLimits
<1> QED  BY <1>2, <1>3 DEF FitLimits

\* A claim that fits the limits in force fits the highest ones.
LEMMA SlotsFitStep ==
  ASSUME IInv, LimitsInRange, FitLimits(queueCurrentConcurrency), [Next]_vars
  PROVE  FitLimits(queueCurrentConcurrency')
<1>1. TypeOK /\ TypeOK' /\ EnvMirrorsQueues /\ EnvMirrorsQueues' /\ ClaimsFit
  BY ClaimsFitStep, NextIInv DEF IInv
<1>2. EnvCapacity \in Int /\ \A q \in Queues : QueueCapacity(q) \in Nat
  BY <1>1, CapacityType
<1>3. /\ queueCurrentConcurrency' \in SUBSET Runs
      /\ \A S \in SUBSET Runs : Cardinality(S) \in Nat
  BY <1>1, RunsAssumption, FS_Subset, FS_CardinalityType DEF TypeOK
<1>4. FitLimits(queueCurrentConcurrency \cap queueCurrentConcurrency')
  BY <1>1, FewerFit DEF TypeOK
<1>5. ASSUME NEW l \in EnvLimits, EnvNeverAbove((l * BurstNum) \div BurstDen)
      PROVE  Cardinality(queueCurrentConcurrency') <= (l * BurstNum) \div BurstDen
  <2>1. CASE queueCurrentConcurrency' \subseteq queueCurrentConcurrency
    <3>1. queueCurrentConcurrency \cap queueCurrentConcurrency' = queueCurrentConcurrency'
      BY <2>1
    <3> QED  BY <1>4, <1>5, <3>1 DEF FitLimits
  <2>2. CASE ~(queueCurrentConcurrency' \subseteq queueCurrentConcurrency)
    <3>1. Cardinality(queueCurrentConcurrency') <= EnvCapacity
      BY <1>1, <2>2 DEF ClaimsFit, EnvMirrorsQueues
    <3>2. EnvCapacity <= (l * BurstNum) \div BurstDen
      BY <1>5 DEF EnvNeverAbove, EnvCapacity, LimitsInRange
    <3>3. (l * BurstNum) \div BurstDen \in Int
      BY DivisionType, LimitsAssumption
    <3> QED  BY <1>2, <1>3, <3>1, <3>2, <3>3
  <2> QED  BY <2>1, <2>2
<1>6. ASSUME NEW n \in EnvLimits \cup OwnLimits, NEW q \in Queues, QueuesNeverAbove(n)
      PROVE  Cardinality(InQueue(queueCurrentConcurrency', q)) <= n
  <2> DEFINE Before == InQueue(queueCurrentConcurrency, q)
             After  == InQueue(queueCurrentConcurrency', q)
  <2>1. After \in SUBSET Runs /\ n \in Nat
    BY <1>3, LimitsAssumption DEF InQueue, OwnLimits
  <2>2. CASE After \subseteq Before
    <3>1. InQueue(queueCurrentConcurrency \cap queueCurrentConcurrency', q) = After
      BY <2>2 DEF InQueue
    <3> QED  BY <1>4, <1>6, <3>1 DEF FitLimits
  <2>3. CASE ~(After \subseteq Before)
    <3>1. Cardinality(After) <= QueueCapacity(q)
      BY <1>1, <2>3 DEF ClaimsFit
    <3>2. QueueCapacity(q) <= n
      <4> DEFINE own == IF queueLimit[q] = Absent THEN DefaultQueueLimit ELSE queueLimit[q]
      <4>1. own \in OwnLimits /\ envLimit \in EnvLimits
        BY DEF OwnLimits, LimitsInRange
      <4>2. own \in Nat /\ envLimit \in Nat
        BY <4>1, LimitsAssumption DEF OwnLimits
      <4>3. own <= n \/ envLimit <= n
        BY <1>6, <4>1 DEF QueuesNeverAbove
      <4>4. QueueCapacity(q) = IF own < envLimit THEN own ELSE envLimit
        BY DEF QueueCapacity
      <4> HIDE DEF own
      <4> QED  BY <2>1, <4>2, <4>3, <4>4
    <3>3. Cardinality(After) \in Nat /\ QueueCapacity(q) \in Nat
      BY <1>2, <1>3, <2>1
    <3> QED  BY <2>1, <3>1, <3>2, <3>3
  <2> QED  BY <2>2, <2>3
<1> QED  BY <1>5, <1>6 DEF FitLimits

SlotsFit == LimitsInRange /\ FitLimits(queueCurrentConcurrency)

LEMMA SlotsFitInit == Init => FitLimits(queueCurrentConcurrency)
<1> SUFFICES ASSUME Init PROVE FitLimits(queueCurrentConcurrency)  OBVIOUS
<1>1. /\ Cardinality(queueCurrentConcurrency) = 0
      /\ \A q \in Queues : Cardinality(InQueue(queueCurrentConcurrency, q)) = 0
  BY FS_EmptySet DEF Init, InQueue
<1>2. \A a \in Nat, b \in Nat \ {0} : 0 <= a \div b  OBVIOUS
<1>3. \A l \in EnvLimits : l * BurstNum \in Nat  BY LimitsAssumption
<1> QED  BY <1>1, <1>2, <1>3, LimitsAssumption DEF FitLimits, OwnLimits

\* The concurrency limits are kept by what executes, and not only by the entries
\* of sets in Redis: no more runs execute than the limits of environment and queue
\* ever allow, through retries, suspensions, expiry, sweeps, and processes that die.
THEOREM ExecutionIsBounded == ASSUME EndsAreWhole PROVE Spec => []ExecutingFitsLimits
<1>1. IInv /\ SlotsFit /\ ExecutingHoldsSlot => ExecutingFitsLimits
  <2> SUFFICES ASSUME IInv, FitLimits(queueCurrentConcurrency), ExecutingHoldsSlot
               PROVE  ExecutingFitsLimits
    BY DEF SlotsFit
  <2>1. queueCurrentConcurrency \in SUBSET Runs  BY DEF IInv, TypeOK
  <2>2. ExecutingRuns \in SUBSET queueCurrentConcurrency
    BY DEF ExecutingRuns, ExecutingHoldsSlot
  <2> QED  BY <2>1, <2>2, FewerFit DEF ExecutingFitsLimits
<1>2. IInv /\ SlotsFit /\ [Next]_vars => SlotsFit'
  BY SlotsFitStep, LimitsInRangeStep DEF SlotsFit, FitLimits, InQueue
<1>3. Init => SlotsFit
  BY SlotsFitInit DEF SlotsFit, LimitsInRange, Init
<1> QED  BY <1>1, <1>2, <1>3, Invariance, ExecutingIsCharged, PTL DEF Spec

\* The dequeued marks, which a worker sets after the slot was claimed, never
\* outlive the slot.
THEOREM DequeuedIsCharged == ASSUME NacksAreWhole PROVE Spec => []DequeuedHoldsSlot
<1>1. TypeOK /\ PInv => DequeuedHoldsSlot
  BY DEF TypeOK, PInv, RunOk, SlotOk, DequeuedHoldsSlot
<1>2. IInv => TypeOK
  BY DEF IInv
<1> QED  BY <1>1, <1>2, Invariance, PlacesInvariance, PTL

\* The TTL consumer never deletes the message of a run that holds a slot.
THEOREM ClaimedCannotExpire == ASSUME NacksAreWhole PROVE Spec => []ClaimedNotExpirable
<1>1. TypeOK /\ PInv => ClaimedNotExpirable
  BY DEF TypeOK, PInv, RunOk, TtlOk, ClaimedNotExpirable
<1>2. IInv => TypeOK
  BY DEF IInv
<1> QED  BY <1>1, <1>2, Invariance, PlacesInvariance, PTL

LEMMA FinishedStep ==
  ASSUME IInv, PInv, EndsAreWhole, NEW r \in Runs, phase[r] = "Finished", [Next]_vars
  PROVE  phase'[r] = "Finished"
<1> USE DEF IInv
<1>1. ASSUME NEW s \in Runs, RunStep(s) PROVE phase'[r] = "Finished"
  <2>1. CASE CallerStep(s)
    <3>1. Turn(s) /\ TurnsOnly(s)
      BY <2>1, CallerStepTurns DEF PInv, RunOk
    <3>2. call[r] # "requeued"
      BY DEF PInv, RunOk, FinalOk
    <3> QED  BY <3>1, <3>2 DEF Turn, TurnsOnly
  <2>2. CASE ExpireRun(s)
    BY <2>2 DEF ExpireRun, SetPhase, TypeOK
  <2>3. CASE \/ EnqueueMessage(s) \/ NackMessage(s) \/ AcknowledgeMessage(s)
             \/ ReleaseAllConcurrency(s) \/ MarkRunForAck(s) \/ ProcessMarkedRun(s)
             \/ RedriveMessage(s) \/ FinishRedrive(s) \/ CallerCrash(s)
    BY <2>3 DEF EnqueueMessage, NackMessage, AcknowledgeMessage, ReleaseAllConcurrency,
                MarkRunForAck, ProcessMarkedRun, RedriveMessage, FinishRedrive, CallerCrash
  <2> QED
    BY <1>1, <2>1, <2>2, <2>3, NoRepairSteps DEF RunStep, CallerStep, EndsAreWhole
<1>2. ASSUME NEW c \in Consumers, ConsumerStep(c) PROVE phase'[r] = "Finished"
  BY <1>2 DEF ConsumerStep, ProcessMasterQueue, StartProcessJob, ProcessQueueForWorkerQueue,
              FinishProcessJob, PushToWorkerQueue, ConsumerCrash, DequeueMessages
<1>3. ASSUME NEW w \in Workers, WorkerStep(w) PROVE phase'[r] = "Finished"
  <2>1. CASE \/ StartRun(w) \/ PendingVersion(w) \/ AckDuplicate(w) \/ RejectInvalid(w)
             \/ NackUndelivered(w) \/ WorkerMismatch(w)
    BY <2>1, WorkersTakeOver DEF TakeOverStep, TakeOver
  <2>2. CASE \/ PopWorkerQueue(w) \/ DequeueMessageFromKey(w) \/ WorkerCrash(w)
             \/ DirectNackRead(w) \/ DirectNackMessage(w)
    BY <2>2 DEF PopWorkerQueue, DequeueMessageFromKey, WorkerCrash, DirectNackRead,
                DirectNackMessage
  <2> QED  BY <1>3, <2>1, <2>2 DEF WorkerStep
<1>4. CASE SystemStep
  BY <1>4 DEF SystemStep, ExpireTtlRuns, RebalanceExpired, TtlConsumerCrash, SetEnvLimit,
              SetQueueLimit, Tick
<1>5. CASE UNCHANGED vars
  BY <1>5 DEF vars
<1> QED  BY <1>1, <1>2, <1>3, <1>4, <1>5 DEF Next

\* FINISHED is final: the TTL worker, which writes snapshots without the run
\* lock, a worker that received the run before, and a nack under way included.
THEOREM FinalIsFinal == ASSUME EndsAreWhole PROVE Spec => FinishedIsFinal
<1> DEFINE Final == \A r \in Runs : phase[r] = "Finished" => phase'[r] = "Finished"
<1>1. IInv /\ PInv /\ [Next]_vars => [Final]_vars
  BY FinishedStep
<1>2. NacksAreWhole
  BY DEF EndsAreWhole
<1> QED  BY <1>1, <1>2, Invariance, PlacesInvariance, PTL DEF Spec, FinishedIsFinal

\* A run that waits, and whose message has no TTL, can be found in its queue, by
\* its slot or by the TTL system, whichever consumer or worker died with it.
THEOREM WaitingIsTracked == ASSUME StartsAreWhole PROVE Spec => []QueuedRunIsTracked
<1>1. PInv => QueuedRunIsTracked
  BY DEF PInv, RunOk, TrackOk, Waits, Found, QueuedRunIsTracked, Unlocked
<1>2. NacksAreWhole
  BY DEF StartsAreWhole, EndsAreWhole
<1> QED  BY <1>1, <1>2, PlacesInvariance, PTL

=============================================================================
