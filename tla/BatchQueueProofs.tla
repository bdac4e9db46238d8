-------------------------- MODULE BatchQueueProofs --------------------------
(***************************************************************************)
(* What is proved of the batch queue for any messages, batches, consumers, *)
(* limits and number of crashes.                                           *)
(***************************************************************************)
EXTENDS BatchQueue, TLAPS

USE FairQueueBoundsAssumption, BatchConstantsAssumption

-----------------------------------------------------------------------------
(* The inductive invariant *)

\* Stages of a consumer that has the key of a delivery not yet acknowledged.
Working == {"callback", "record", "complete", "fail"}
Works(c) == hand[c].stage \in Working

\* A message is in one place: waiting, or in flight with at most one holder.
QueuePlaces ==
  /\ queued \cap inflight = {} /\ workerQueue \subseteq inflight
  /\ \A d \in Dispatchers : holding[d] \subseteq inflight \ workerQueue
  /\ \A d, e \in Dispatchers : d # e => holding[d] \cap holding[e] = {}
HandPlaces ==
  /\ \A c \in Consumers : hand[c].stage # "idle" => hand[c].item \in Messages
  /\ \A c \in Consumers : Works(c) =>
       /\ hand[c].item \in inflight \ workerQueue
       /\ \A d \in Dispatchers : hand[c].item \notin holding[d]
  /\ \A c, e \in Consumers : c # e /\ Works(c) /\ Works(e) => hand[c].item # hand[e].item
PlaceInv == QueuePlaces /\ HandPlaces

\* An item is sent once: from then on it stays marked until its batch has its
\* result and is cleaned up.
SentInv ==
  /\ \A m \in queued \cup inflight : attempt[m] > 0
  /\ \A m \in sending : attempt[m] = 0
  /\ \A m \in Messages : attempt[m] > 0 \/ m \in sending =>
       IF BatchOf[m] \in meta THEN m \in marked ELSE row[BatchOf[m]].settled
  /\ \A c \in Consumers : hand[c].stage = "cleanup" => row[BatchOf[hand[c].item]].settled

\* A delivery is acknowledged after its outcome is recorded, or when its batch
\* is gone; only one that may be retried is failed.
AckInv ==
  \A c \in Consumers :
    /\ hand[c].stage = "complete" =>
         recorded[hand[c].item] # "none" \/ BatchOf[hand[c].item] \notin meta
    /\ hand[c].stage = "fail" => attempt[hand[c].item] < MaxAttempts
    /\ hand[c].stage = "record" => hand[c].outcome # "none"

\* A claimed message has a slot only if an earlier delivery's is being released.
ClaimInv ==
  stranded \/ \A d \in Dispatchers : holding[d] \cap slots \subseteq reclaiming \cup Releasing

\* A run is created for what a message's delivery stands for, and again only
\* where a consumer died between the run and the acknowledgement.
Spent(m) ==
  \E c \in Consumers :
    /\ hand[c].item = m
    /\ hand[c].stage = "complete" \/ (hand[c].stage = "record" /\ hand[c].outcome = "success")
RunInv ==
  /\ \A m \in queued \cup inflight : ~Spent(m) => runs[m] <= crashes
  /\ \A m \in Messages : attempt[m] = 0 => runs[m] = 0

\* Who saw the last record of a batch found every item of it recorded; what is
\* recorded as a success has a run.
LastInv ==
  /\ \A c \in Consumers :
       /\ hand[c].last /\ ~row[BatchOf[hand[c].item]].settled =>
            AllRecorded(BatchOf[hand[c].item], recorded)
       /\ hand[c].last => hand[c].stage # "idle"
       /\ hand[c].stage = "finalize" => hand[c].last
       /\ hand[c].stage = "record" /\ hand[c].outcome = "success" => runs[hand[c].item] > 0
  /\ \A m \in Messages : recorded[m] = "success" => runs[m] > 0

BInv ==
  /\ TypeOK /\ PlaceInv /\ SentInv /\ AckInv /\ ClaimInv /\ RunInv /\ LastInv
  /\ NoItemLost /\ NoSlotLeak /\ OneRunEach

-----------------------------------------------------------------------------
(* Steps of producers and dispatchers, and steps of a consumer *)

ProducerStep ==
  \/ \E b \in Batches : InitializeBatch(b)
  \/ \E m \in Messages : Stream(m) \/ Requeue(m)
  \/ \E d \in Dispatchers : Dispatch(d) \/ DispatcherCrash(d)
  \/ ReleaseReclaimed \/ ReclaimFails
ConsumerStep(c) == Consume(c) \/ CompletionFails(c) \/ ConsumerCrash(c)

LEMMA StepKinds ==
  ASSUME [Next]_vars
  PROVE  ProducerStep \/ (\E c \in Consumers : ConsumerStep(c)) \/ UNCHANGED vars
BY Zenon DEF Next, ProducerStep, ConsumerStep

LEMMA ProducersLeaveHands ==
  ASSUME ProducerStep \/ UNCHANGED vars
  PROVE  UNCHANGED <<hand, runs, row, recorded>>
<1> USE DEF fqVars, bqVars, trackerVars, vars
<1>1. ASSUME NEW b \in Batches, InitializeBatch(b) PROVE UNCHANGED <<hand, runs, row, recorded>>
  BY <1>1 DEF InitializeBatch
<1>2. ASSUME NEW m \in Messages, Stream(m) \/ Requeue(m)
      PROVE  UNCHANGED <<hand, runs, row, recorded>>
  BY <1>2 DEF Stream, MarkItem, EnqueueItem, StreamCrash, Requeue
<1>3. ASSUME NEW d \in Dispatchers, Dispatch(d) \/ DispatcherCrash(d)
      PROVE  UNCHANGED <<hand, runs, row, recorded>>
  BY <1>3 DEF Dispatch, Claim, ReserveAndPush, PutBack, DispatcherCrash
<1>4. CASE ReleaseReclaimed \/ ReclaimFails \/ UNCHANGED vars
  BY <1>4 DEF ReleaseReclaimed, ReclaimFails
<1> QED  BY <1>1, <1>2, <1>3, <1>4 DEF ProducerStep

\* The hand of a consumer that goes on to a stage, and of one that is done.
Moves(c, stage) ==
  /\ hand'[c].stage = stage /\ hand'[c].item = hand[c].item
  /\ hand'[c].outcome = hand[c].outcome /\ hand'[c].last = hand[c].last
Drops(c) == hand'[c] = Idle
OthersRest(c) == \A e \in Consumers \ {c} : hand'[e] = hand[e]

LEMMA IdleFields ==
  Idle.stage = "idle" /\ Idle.item = None /\ Idle.outcome = "none" /\ Idle.last = FALSE
BY DEF Idle

LEMMA HandMoves ==
  ASSUME TypeOK, NEW c \in Consumers
  PROVE  /\ \A stage \in Stages : Goes(c, stage) => Moves(c, stage) /\ OthersRest(c)
         /\ Done(c) => Drops(c) /\ OthersRest(c)
         /\ FinalizeIfLast(c) =>
              /\ (hand[c].last /\ Moves(c, "finalize")) \/ (~hand[c].last /\ Drops(c))
              /\ OthersRest(c)
<1>1. ASSUME NEW stage \in Stages, Goes(c, stage) PROVE Moves(c, stage) /\ OthersRest(c)
  BY <1>1 DEF TypeOK, Goes, Moves, OthersRest
<1>2. Done(c) => Drops(c) /\ OthersRest(c)
  BY DEF TypeOK, Done, Drops, OthersRest
<1>3. "finalize" \in Stages  BY DEF Stages
<1>4. ASSUME FinalizeIfLast(c)
      PROVE  /\ (hand[c].last /\ Moves(c, "finalize")) \/ (~hand[c].last /\ Drops(c))
             /\ OthersRest(c)
  <2>1. CASE hand[c].last  BY <1>1, <1>3, <1>4, <2>1, Zenon DEF FinalizeIfLast
  <2>2. CASE ~hand[c].last  BY <1>2, <1>4, <2>2, Zenon DEF FinalizeIfLast
  <2> QED  BY <2>1, <2>2
<1> QED  BY <1>1, <1>2, <1>4

LEMMA TakeEffect ==
  ASSUME TypeOK, NEW c \in Consumers, Take(c)
  PROVE  /\ hand[c].stage = "idle" /\ OthersRest(c)
         /\ hand'[c].item \in workerQueue /\ workerQueue' = workerQueue \ {hand'[c].item}
         /\ hand'[c].outcome = "none" /\ hand'[c].last = FALSE
         /\ hand'[c].stage = IF hand'[c].item \in inflight /\ BatchOf[hand'[c].item] \in meta
                             THEN "callback" ELSE "complete"
<1>1. PICK m \in workerQueue :
        /\ workerQueue' = workerQueue \ {m}
        /\ hand' = [hand EXCEPT ![c] =
             [Idle EXCEPT !.item = m,
                !.stage = IF m \in inflight /\ BatchOf[m] \in meta
                          THEN "callback" ELSE "complete"]]
  BY Zenon DEF Take
<1>2. OthersRest(c)  BY <1>1 DEF OthersRest, TypeOK
<1>3. hand'[c] = [Idle EXCEPT !.item = m,
                    !.stage = IF m \in inflight /\ BatchOf[m] \in meta
                              THEN "callback" ELSE "complete"]
  BY <1>1 DEF TypeOK
<1>4. /\ hand'[c].item = m /\ hand'[c].outcome = "none" /\ hand'[c].last = FALSE
      /\ hand'[c].stage = IF m \in inflight /\ BatchOf[m] \in meta
                          THEN "callback" ELSE "complete"
  BY <1>3 DEF Idle
<1>5. hand[c].stage = "idle"  BY DEF Take, Holds
<1> QED  BY <1>1, <1>2, <1>4, <1>5

LEMMA ProcessEffect ==
  ASSUME TypeOK, NEW c \in Consumers, ProcessItem(c)
  PROVE  /\ hand[c].stage = "callback" /\ OthersRest(c)
         /\ hand'[c].item = hand[c].item /\ hand'[c].last = hand[c].last
         /\ \/ /\ hand'[c].stage = "record" /\ hand'[c].outcome = "success"
               /\ runs' = [runs EXCEPT ![hand[c].item] = @ + 1]
            \/ /\ hand'[c].stage = "record" /\ hand'[c].outcome = "failure" /\ runs' = runs
            \/ /\ hand'[c].stage = "fail" /\ ~IsFinalAttempt(hand[c].item)
               /\ hand'[c].outcome = hand[c].outcome /\ runs' = runs
         /\ UNCHANGED <<fqVars, trackerVars, sending, holding, reclaiming, row, crashes, stranded>>
<1>0. /\ hand[c].stage = "callback"
      /\ UNCHANGED <<fqVars, trackerVars, sending, holding, reclaiming, row, crashes, stranded>>
  BY Zenon DEF ProcessItem, Holds
<1>1. CASE /\ runs' = [runs EXCEPT ![hand[c].item] = @ + 1]
           /\ hand' = [hand EXCEPT ![c].stage = "record", ![c].outcome = "success"]
  BY <1>0, <1>1 DEF TypeOK, OthersRest
<1>2. CASE /\ hand' = [hand EXCEPT ![c].stage = "record", ![c].outcome = "failure"]
           /\ runs' = runs
  BY <1>0, <1>2 DEF TypeOK, OthersRest
<1>3. CASE ~IsFinalAttempt(hand[c].item) /\ Goes(c, "fail") /\ runs' = runs
  <2>1. Moves(c, "fail") /\ OthersRest(c)  BY <1>3, HandMoves DEF Stages
  <2> QED  BY <1>0, <1>3, <2>1 DEF Moves
<1> QED  BY <1>1, <1>2, <1>3, Zenon DEF ProcessItem

LEMMA RecordEffect ==
  ASSUME TypeOK, NEW c \in Consumers, RecordItem(c)
  PROVE  /\ hand[c].stage = "record" /\ OthersRest(c)
         /\ hand'[c].item = hand[c].item /\ hand'[c].outcome = hand[c].outcome
         /\ hand'[c].stage = "complete"
         /\ hand'[c].last = AllRecorded(BatchOf[hand[c].item], recorded')
         /\ recorded' = Record(hand[c].item, hand[c].outcome)
<1>1. hand' = [hand EXCEPT ![c].stage = "complete",
                          ![c].last = AllRecorded(BatchOf[hand[c].item], recorded')]
  BY Zenon DEF RecordItem
<1>2. hand[c].stage = "record" /\ recorded' = Record(hand[c].item, hand[c].outcome)
  BY Zenon DEF RecordItem, Holds
<1> DEFINE seen == AllRecorded(BatchOf[hand[c].item], recorded')
<1> HIDE DEF seen
<1>3. hand' = [hand EXCEPT ![c].stage = "complete", ![c].last = seen]
  BY <1>1 DEF seen
<1>4. /\ OthersRest(c) /\ hand'[c].item = hand[c].item /\ hand'[c].outcome = hand[c].outcome
      /\ hand'[c].stage = "complete" /\ hand'[c].last = seen
  BY <1>3 DEF TypeOK, OthersRest
<1> QED  BY <1>2, <1>4 DEF seen

-----------------------------------------------------------------------------
(* Types *)

LEMMA ProducerTypes == ASSUME TypeOK, ProducerStep PROVE TypeOK'
<1> USE DEF TypeOK, fqVars, bqVars, trackerVars
<1>1. ASSUME NEW b \in Batches, InitializeBatch(b) PROVE TypeOK'
  BY <1>1 DEF InitializeBatch
<1>2. ASSUME NEW m \in Messages, Stream(m) PROVE TypeOK'
  <2>1. CASE MarkItem(m)  BY <2>1 DEF MarkItem
  <2>2. CASE EnqueueItem(m)  BY <2>2 DEF EnqueueItem, EnqueueMessage
  <2>3. CASE StreamCrash(m)  BY <2>3 DEF StreamCrash
  <2> QED  BY <1>2, <2>1, <2>2, <2>3 DEF Stream
<1>3. ASSUME NEW m \in Messages, Requeue(m) PROVE TypeOK'
  BY <1>3 DEF Requeue, ReleaseMessages
<1>4. ASSUME NEW d \in Dispatchers, Claim(d) PROVE TypeOK'
  <2>1. PICK S \in SUBSET queued :
          /\ queued' = queued \ S /\ inflight' = inflight \cup S
          /\ UNCHANGED <<attempt, limit, slots, workerQueue>>
          /\ holding' = [holding EXCEPT ![d] = S]
    BY <1>4 DEF Claim, ClaimMessages
  <2> QED  BY <1>4, <2>1 DEF Claim
<1>5. ASSUME NEW d \in Dispatchers, ReserveAndPush(d) PROVE TypeOK'
  BY <1>5 DEF ReserveAndPush, Reserve
<1>6. ASSUME NEW d \in Dispatchers, PutBack(d) PROVE TypeOK'
  BY <1>6 DEF PutBack, ReleaseMessages
<1>7. ASSUME NEW d \in Dispatchers, DispatcherCrash(d) PROVE TypeOK'
  BY <1>7 DEF DispatcherCrash, Reserve
<1>8. CASE ReleaseReclaimed \/ ReclaimFails
  BY <1>8 DEF ReleaseReclaimed, ReleaseSlots, ReclaimFails
<1> QED
  BY <1>1, <1>2, <1>3, <1>4, <1>5, <1>6, <1>7, <1>8 DEF ProducerStep, Dispatch

HandRecord == [stage : Stages, item : Messages \cup {None},
               outcome : {"none", "success", "failure"}, last : BOOLEAN]
HandType == hand \in [Consumers -> HandRecord]

LEMMA HandTypes == ASSUME TypeOK, NEW c \in Consumers, ConsumerStep(c) PROVE HandType'
<1>0. ASSUME NEW r \in HandRecord, hand' = [hand EXCEPT ![c] = r] PROVE HandType'
  BY <1>0 DEF TypeOK, HandType, HandRecord
<1>a. hand[c] \in HandRecord  BY DEF TypeOK, HandRecord
<1>1. ASSUME NEW stage \in Stages, Goes(c, stage) PROVE HandType'
  <2>1. [hand[c] EXCEPT !.stage = stage] \in HandRecord  BY <1>a DEF HandRecord
  <2>2. hand' = [hand EXCEPT ![c] = [hand[c] EXCEPT !.stage = stage]]
    BY <1>1 DEF Goes
  <2> QED  BY <1>0, <2>1, <2>2
<1>2. ASSUME Done(c) PROVE HandType'
  <2>1. Idle \in HandRecord  BY DEF Idle, HandRecord, Stages
  <2> QED  BY <1>0, <1>2, <2>1 DEF Done
<1>b. /\ "finalize" \in Stages /\ "fail" \in Stages /\ "release" \in Stages
      /\ "cleanup" \in Stages /\ "record" \in Stages /\ "complete" \in Stages
      /\ "callback" \in Stages
  BY DEF Stages
<1>3. ASSUME FinalizeIfLast(c) PROVE HandType'
  BY <1>b, <1>1, <1>2, <1>3, Zenon DEF FinalizeIfLast
<1>4. CASE Take(c)
  <2>1. PICK m \in workerQueue :
          hand' = [hand EXCEPT ![c] =
            [Idle EXCEPT !.item = m,
               !.stage = IF m \in inflight /\ BatchOf[m] \in meta
                         THEN "callback" ELSE "complete"]]
    BY <1>4, Zenon DEF Take
  <2>2. ASSUME NEW stage \in Stages
        PROVE  [Idle EXCEPT !.item = m, !.stage = stage] \in HandRecord
    BY DEF Idle, HandRecord, TypeOK
  <2> QED  BY <1>0, <1>b, <2>1, <2>2
<1>5. CASE ProcessItem(c)
  <2>1. ASSUME NEW outcome \in {"success", "failure"},
               hand' = [hand EXCEPT ![c].stage = "record", ![c].outcome = outcome]
        PROVE  HandType'
    <3>1. [hand[c] EXCEPT !.stage = "record", !.outcome = outcome] \in HandRecord
      BY <1>a, <1>b DEF HandRecord
    <3>2. hand' = [hand EXCEPT ![c] = [hand[c] EXCEPT !.stage = "record", !.outcome = outcome]]
      BY <2>1 DEF TypeOK
    <3> QED  BY <1>0, <3>1, <3>2
  <2> QED  BY <1>1, <1>b, <1>5, <2>1, Zenon DEF ProcessItem
<1>6. CASE RecordItem(c)
  <2> DEFINE seen == AllRecorded(BatchOf[hand[c].item], recorded')
  <2>1. seen \in BOOLEAN  BY DEF AllRecorded
  <2>2. hand' = [hand EXCEPT ![c].stage = "complete", ![c].last = seen]
    BY <1>6, Zenon DEF RecordItem
  <2> HIDE DEF seen
  <2>3. [hand[c] EXCEPT !.stage = "complete", !.last = seen] \in HandRecord
    BY <1>a, <1>b, <2>1 DEF HandRecord
  <2>4. hand' = [hand EXCEPT ![c] = [hand[c] EXCEPT !.stage = "complete", !.last = seen]]
    BY <2>2 DEF TypeOK
  <2> QED  BY <1>0, <2>3, <2>4
<1>7. CASE FailMessage(c) \/ CompleteMessage(c) \/ ReleaseConcurrency(c)
  BY <1>1, <1>2, <1>3, <1>7, <1>b DEF FailMessage, CompleteMessage, ReleaseConcurrency
<1>8. CASE FinalizeBatch(c) \/ Cleanup(c) \/ CompletionFails(c) \/ ConsumerCrash(c)
  BY <1>1, <1>2, <1>8, <1>b DEF FinalizeBatch, Cleanup, CompletionFails, ConsumerCrash
<1> QED  BY <1>4, <1>5, <1>6, <1>7, <1>8 DEF ConsumerStep, Consume

LEMMA ConsumerTypes == ASSUME TypeOK, NEW c \in Consumers, ConsumerStep(c) PROVE TypeOK'
<1>0. HandType'  BY HandTypes
<1> USE <1>0 DEF HandType, HandRecord, TypeOK, fqVars, bqVars, trackerVars
<1>1. CASE Take(c)  BY <1>1 DEF Take
<1>2. CASE ProcessItem(c)
  <2>1. CASE runs' = [runs EXCEPT ![hand[c].item] = @ + 1]
    <3>1. \A m \in Messages : runs[m] + 1 \in Nat  OBVIOUS
    <3> HIDE DEF TypeOK
    <3>2. runs \in [Messages -> Nat]  BY DEF TypeOK
    <3>3. runs' \in [Messages -> Nat]  BY <2>1, <3>1, <3>2
    <3> QED  BY <1>2, <3>3, ProcessEffect DEF TypeOK
  <2>2. CASE runs' = runs  BY <1>2, <2>2, ProcessEffect
  <2> QED  BY <1>2, <2>1, <2>2, ProcessEffect
<1>3. CASE RecordItem(c)
  <2>1. recorded' \in [Messages -> {"none", "success", "failure"}]
    BY <1>3 DEF RecordItem, Record
  <2> QED  BY <1>3, <2>1 DEF RecordItem
<1>4. CASE FailMessage(c)
  <2>1. /\ inflight' \subseteq Messages /\ queued' \subseteq Messages
        /\ attempt' \in [Messages -> 0..MaxAttempts]
        /\ UNCHANGED <<limit, slots, workerQueue>>
    <3>1. CASE UNCHANGED fqVars  BY <3>1
    <3>2. CASE hand[c].item \in inflight /\ RetryOrDiscard(hand[c].item)
      <4> DEFINE m == hand[c].item
      <4>1. m \in Messages  BY <3>2
      <4>2. /\ inflight' \subseteq Messages /\ queued' \subseteq Messages
            /\ UNCHANGED <<limit, slots, workerQueue>>
        BY <3>2 DEF RetryOrDiscard
      <4>3. CASE attempt' = attempt  BY <4>2, <4>3
      <4>4. CASE attempt[m] < MaxAttempts /\ attempt' = [attempt EXCEPT ![m] = @ + 1]
        <5>1. attempt[m] + 1 \in 0..MaxAttempts  BY <4>1, <4>4
        <5>2. attempt' \in [Messages -> 0..MaxAttempts]  BY <4>4, <5>1
        <5> QED  BY <4>2, <5>2
      <4> QED  BY <3>2, <4>3, <4>4 DEF RetryOrDiscard
    <3> QED  BY <1>4, <3>1, <3>2 DEF FailMessage
  <2> QED  BY <1>4, <2>1 DEF FailMessage
<1>5. CASE CompleteMessage(c)  BY <1>5 DEF CompleteMessage, CompleteInflight
<1>6. CASE ReleaseConcurrency(c)  BY <1>6 DEF ReleaseConcurrency, ReleaseSlots
<1>7. CASE FinalizeBatch(c)
  <2>1. row' \in [Batches -> [settled : BOOLEAN, ok : SUBSET Messages,
                             failed : SUBSET Messages]]
    BY <1>7 DEF FinalizeBatch, Outcome, ItemsOf
  <2> QED  BY <1>7, <2>1 DEF FinalizeBatch
<1>8. CASE Cleanup(c)
  <2>1. recorded' \in [Messages -> {"none", "success", "failure"}]
    BY <1>8 DEF Cleanup
  <2> QED  BY <1>8, <2>1 DEF Cleanup
<1>9. CASE CompletionFails(c) \/ ConsumerCrash(c)
  <2>1. crashes' \in 0..MaxCrashes  BY <1>9 DEF CompletionFails, ConsumerCrash
  <2>2. stranded' \in BOOLEAN  BY <1>9 DEF CompletionFails, ConsumerCrash
  <2> QED  BY <1>9, <2>1, <2>2 DEF CompletionFails, ConsumerCrash
<1> QED
  BY <1>1, <1>2, <1>3, <1>4, <1>5, <1>6, <1>7, <1>8, <1>9 DEF ConsumerStep, Consume

LEMMA TypeStep == TypeOK /\ [Next]_vars => TypeOK'
<1>1. TypeOK /\ UNCHANGED vars => TypeOK'
  BY DEF TypeOK, vars, fqVars, bqVars, trackerVars
<1> QED  BY <1>1, StepKinds, ProducerTypes, ConsumerTypes

-----------------------------------------------------------------------------
(* Places *)

\* What the two steps that end a delivery do: the message of a consumer that
\* works is in flight.
LEMMA EndEffects ==
  ASSUME TypeOK, PlaceInv, NEW c \in Consumers, FailMessage(c) \/ CompleteMessage(c)
  PROVE  /\ Works(c) /\ hand[c].item \in Messages \cap inflight
         /\ inflight' = inflight \ {hand[c].item} /\ queued \subseteq queued'
         /\ Moves(c, "release") /\ OthersRest(c)
         /\ \/ hand[c].stage = "fail" /\ RetryOrDiscard(hand[c].item)
            \/ hand[c].stage = "complete" /\ UNCHANGED <<queued, attempt>>
         /\ UNCHANGED <<limit, slots, workerQueue, trackerVars, sending, holding, reclaiming,
                        runs, row, crashes, stranded>>
<1>0. "release" \in Stages  BY DEF Stages
<1>1. CASE FailMessage(c)
  <2>1. hand[c].stage = "fail"  BY <1>1 DEF FailMessage, Holds
  <2>2. Works(c) /\ hand[c].item \in Messages \cap inflight
    BY <2>1 DEF Works, Working, PlaceInv, HandPlaces, TypeOK
  <2>3. RetryOrDiscard(hand[c].item) /\ Goes(c, "release")
    BY <1>1, <2>2 DEF FailMessage
  <2>4. /\ inflight' = inflight \ {hand[c].item} /\ queued \subseteq queued'
        /\ UNCHANGED <<limit, slots, workerQueue>>
    BY <2>3 DEF RetryOrDiscard
  <2>5. UNCHANGED <<trackerVars, sending, holding, reclaiming, runs, row, crashes, stranded>>
    BY <1>1, Zenon DEF FailMessage
  <2> QED  BY <1>0, <2>1, <2>2, <2>3, <2>4, <2>5, HandMoves
<1>2. CASE CompleteMessage(c)
  <2>1. hand[c].stage = "complete"  BY <1>2 DEF CompleteMessage, Holds
  <2>2. Works(c) /\ hand[c].item \in Messages \cap inflight
    BY <2>1 DEF Works, Working, PlaceInv, HandPlaces, TypeOK
  <2>3. CompleteInflight(hand[c].item) /\ Goes(c, "release")
    BY <1>2, <2>2 DEF CompleteMessage
  <2>4. UNCHANGED <<trackerVars, sending, holding, reclaiming, runs, row, crashes, stranded>>
    BY <1>2, Zenon DEF CompleteMessage
  <2> QED  BY <1>0, <2>1, <2>2, <2>3, <2>4, HandMoves DEF CompleteInflight
<1> QED  BY <1>1, <1>2

LEMMA ProducerPlaces ==
  ASSUME TypeOK, PlaceInv, SentInv, ProducerStep \/ UNCHANGED vars
  PROVE  PlaceInv'
<1> USE DEF PlaceInv, QueuePlaces, HandPlaces, Works, fqVars, bqVars, trackerVars, vars
<1>0. hand' = hand  BY ProducersLeaveHands
<1>1. CASE UNCHANGED <<queued, inflight, workerQueue, holding>>
  BY <1>0, <1>1
<1>2. ASSUME NEW m \in Messages, EnqueueItem(m) PROVE PlaceInv'
  <2>1. m \notin inflight /\ queued' = queued \cup {m}
        /\ UNCHANGED <<inflight, workerQueue, holding>>
    BY <1>2 DEF EnqueueItem, EnqueueMessage, SentInv, TypeOK
  <2> QED  BY <1>0, <2>1
<1>3. ASSUME NEW m \in Messages, Requeue(m) PROVE PlaceInv'
  <2>1. /\ m \in inflight \ workerQueue /\ \A d \in Dispatchers : m \notin holding[d]
        /\ \A c \in Consumers : hand[c].item # m
        /\ inflight' = inflight \ {m} /\ queued' = queued \cup {m}
        /\ UNCHANGED <<workerQueue, holding>>
    BY <1>3 DEF Requeue, Abandoned, ReleaseMessages
  <2> QED  BY <1>0, <2>1
<1>4. ASSUME NEW d \in Dispatchers, Claim(d) PROVE PlaceInv'
  <2>1. PICK S \in SUBSET queued :
          /\ queued' = queued \ S /\ inflight' = inflight \cup S
          /\ workerQueue' = workerQueue
          /\ holding' = [holding EXCEPT ![d] = S]
    BY <1>4 DEF Claim, ClaimMessages
  <2>2. holding'[d] = S /\ \A e \in Dispatchers \ {d} : holding'[e] = holding[e]
    BY <2>1 DEF TypeOK
  <2>3. QueuePlaces'  BY <2>1, <2>2
  <2>4. HandPlaces'  BY <1>0, <2>1, <2>2
  <2> QED  BY <2>3, <2>4
<1>5. ASSUME NEW d \in Dispatchers, ReserveAndPush(d) PROVE PlaceInv'
  <2>1. PICK m \in holding[d] :
          /\ workerQueue' = workerQueue \cup {m}
          /\ holding' = [holding EXCEPT ![d] = @ \ {m}]
          /\ UNCHANGED <<queued, inflight>>
    BY <1>5 DEF ReserveAndPush
  <2>2. holding'[d] = holding[d] \ {m} /\ \A e \in Dispatchers \ {d} : holding'[e] = holding[e]
    BY <2>1 DEF TypeOK
  <2>3. QueuePlaces'  BY <2>1, <2>2
  <2>4. HandPlaces'  BY <1>0, <2>1, <2>2
  <2> QED  BY <2>3, <2>4
<1>6. ASSUME NEW d \in Dispatchers, PutBack(d) PROVE PlaceInv'
  <2>1. /\ inflight' = inflight \ holding[d] /\ queued' = queued \cup (holding[d] \cap inflight)
        /\ UNCHANGED workerQueue /\ holding' = [holding EXCEPT ![d] = {}]
    BY <1>6 DEF PutBack, ReleaseMessages
  <2>2. holding'[d] = {} /\ \A e \in Dispatchers \ {d} : holding'[e] = holding[e]
    BY <2>1 DEF TypeOK
  <2>3. QueuePlaces'  BY <2>1, <2>2
  <2>4. HandPlaces'  BY <1>0, <2>1, <2>2
  <2> QED  BY <2>3, <2>4
<1>7. ASSUME NEW d \in Dispatchers, DispatcherCrash(d) PROVE PlaceInv'
  <2>1. /\ UNCHANGED <<queued, inflight, workerQueue>>
        /\ holding'[d] = {} /\ \A e \in Dispatchers \ {d} : holding'[e] = holding[e]
    BY <1>7 DEF DispatcherCrash, TypeOK
  <2> QED  BY <1>0, <2>1
<1>8. ASSUME NEW b \in Batches, InitializeBatch(b) PROVE PlaceInv'
  BY <1>1, <1>8 DEF InitializeBatch
<1>9. ASSUME NEW m \in Messages, MarkItem(m) \/ StreamCrash(m) PROVE PlaceInv'
  BY <1>1, <1>9 DEF MarkItem, StreamCrash
<1>10. CASE ReleaseReclaimed \/ ReclaimFails
  BY <1>1, <1>10 DEF ReleaseReclaimed, ReleaseSlots, ReclaimFails
<1> QED
  BY <1>1, <1>2, <1>3, <1>4, <1>5, <1>6, <1>7, <1>8, <1>9, <1>10
     DEF ProducerStep, Stream, Dispatch

LEMMA ConsumerPlaces ==
  ASSUME TypeOK, PlaceInv, NEW c \in Consumers, ConsumerStep(c)
  PROVE  PlaceInv'
<1> USE DEF PlaceInv, QueuePlaces, HandPlaces, Works, Working, fqVars
<1>1. CASE Take(c)
  <2>1. UNCHANGED <<queued, inflight, holding>>  BY <1>1 DEF Take
  <2>2. hand'[c].item \in Messages  BY <1>1, TakeEffect DEF TypeOK
  <2>3. QueuePlaces'  BY <1>1, <2>1, TakeEffect
  <2>4. /\ hand'[c].item \in inflight \ workerQueue'
        /\ \A d \in Dispatchers : hand'[c].item \notin holding[d]
        /\ \A e \in Consumers : Works(e) => hand[e].item # hand'[c].item
        /\ \A e \in Consumers \ {c} : hand'[e] = hand[e]
        /\ workerQueue' \subseteq workerQueue
    BY <1>1, TakeEffect DEF OthersRest
  <2>5. HandPlaces'  BY <2>1, <2>2, <2>4
  <2> QED  BY <2>3, <2>5
<1>2. CASE ProcessItem(c) \/ RecordItem(c)
  <2>1. UNCHANGED <<queued, inflight, workerQueue, holding>>
    BY <1>2, ProcessEffect DEF RecordItem
  <2>2. Works(c) /\ Works(c)' /\ hand'[c].item = hand[c].item /\ OthersRest(c)
    BY <1>2, ProcessEffect, RecordEffect
  <2>3. QueuePlaces'  BY <2>1
  <2>4. HandPlaces'  BY <2>1, <2>2 DEF OthersRest
  <2> QED  BY <2>3, <2>4
<1>3. CASE FailMessage(c) \/ CompleteMessage(c)
  <2>1. /\ hand[c].item \in Messages \cap inflight /\ inflight' = inflight \ {hand[c].item}
        /\ queued' \in {queued, queued \cup {hand[c].item}}
        /\ UNCHANGED <<workerQueue, holding>>
    BY <1>3, EndEffects DEF RetryOrDiscard
  <2>2. Works(c) /\ ~Works(c)' /\ hand'[c].item = hand[c].item /\ OthersRest(c)
    BY <1>3, EndEffects DEF Moves
  <2>3. QueuePlaces'  BY <2>1, <2>2
  <2>4. HandPlaces'  BY <2>1, <2>2 DEF OthersRest
  <2> QED  BY <2>3, <2>4
<1>4. ASSUME \/ ReleaseConcurrency(c) \/ FinalizeBatch(c) \/ Cleanup(c)
             \/ CompletionFails(c) \/ ConsumerCrash(c)
      PROVE  PlaceInv'
  <2>1. UNCHANGED <<queued, inflight, workerQueue, holding>>
    BY <1>4 DEF ReleaseConcurrency, ReleaseSlots, FinalizeBatch, Cleanup, CompletionFails,
                ConsumerCrash
  <2>2. /\ OthersRest(c)
        /\ \/ hand'[c].stage = "idle"
           \/ /\ hand'[c].stage \in {"finalize", "cleanup"}
              /\ hand[c].stage # "idle" /\ hand'[c].item = hand[c].item
    BY <1>4, HandMoves, IdleFields
       DEF ReleaseConcurrency, FinalizeBatch, Cleanup, CompletionFails, ConsumerCrash,
           Moves, Drops, Stages, Holds
  <2>3. QueuePlaces'  BY <2>1
  <2>4. HandPlaces'  BY <2>1, <2>2 DEF OthersRest
  <2> QED  BY <2>3, <2>4
<1> QED  BY <1>1, <1>2, <1>3, <1>4 DEF ConsumerStep, Consume

-----------------------------------------------------------------------------
(* Sending *)

LEMMA ProducerSends ==
  ASSUME TypeOK, SentInv, ProducerStep \/ UNCHANGED vars
  PROVE  SentInv'
<1> USE DEF SentInv, fqVars, bqVars, trackerVars, vars
<1>0. UNCHANGED <<hand, row>>  BY ProducersLeaveHands
<1>1. CASE /\ UNCHANGED <<attempt, meta, marked>> /\ sending' \subseteq sending
           /\ queued' \cup inflight' \subseteq queued \cup inflight
  BY <1>0, <1>1
<1>2. ASSUME NEW b \in Batches, InitializeBatch(b) PROVE SentInv'
  <2>1. ~row[b].settled  BY <1>2 DEF InitializeBatch, Unsettled
  <2>2. \A m \in Messages : BatchOf[m] = b => ~(attempt[m] > 0 \/ m \in sending)
    BY <1>2, <2>1 DEF InitializeBatch
  <2>3. UNCHANGED <<queued, inflight, attempt, sending, marked>> /\ meta' = meta \cup {b}
    BY <1>2 DEF InitializeBatch
  <2> QED  BY <1>0, <2>2, <2>3
<1>3. ASSUME NEW m \in Messages, MarkItem(m) PROVE SentInv'
  <2>1. attempt[m] = 0  BY <1>3 DEF MarkItem, TypeOK
  <2>2. UNCHANGED <<queued, inflight, attempt, meta>> /\ marked' = marked \cup {m}
        /\ sending' = sending \cup {m} /\ BatchOf[m] \in meta
    BY <1>3 DEF MarkItem
  <2> QED  BY <1>0, <2>1, <2>2
<1>4. ASSUME NEW m \in Messages, EnqueueItem(m) PROVE SentInv'
  <2>1. /\ m \in sending /\ sending' = sending \ {m}
        /\ queued' = queued \cup {m} /\ attempt' = [attempt EXCEPT ![m] = 1]
        /\ UNCHANGED <<inflight, meta, marked>>
    BY <1>4 DEF EnqueueItem, EnqueueMessage
  <2>2. attempt'[m] = 1 /\ \A x \in Messages \ {m} : attempt'[x] = attempt[x]
    BY <2>1 DEF TypeOK
  <2> QED  BY <1>0, <2>1, <2>2 DEF TypeOK
<1>5. ASSUME NEW m \in Messages, StreamCrash(m) PROVE SentInv'
  BY <1>1, <1>5 DEF StreamCrash
<1>6. ASSUME NEW m \in Messages, Requeue(m) PROVE SentInv'
  BY <1>1, <1>6 DEF Requeue, ReleaseMessages, Abandoned
<1>7. ASSUME NEW d \in Dispatchers, Claim(d) PROVE SentInv'
  <2>1. PICK S \in SUBSET queued : queued' = queued \ S /\ inflight' = inflight \cup S
    BY <1>7 DEF Claim, ClaimMessages
  <2>2. UNCHANGED <<attempt, meta, marked, sending>>  BY <1>7 DEF Claim, ClaimMessages
  <2> QED  BY <1>1, <2>1, <2>2
<1>8. ASSUME NEW d \in Dispatchers, ReserveAndPush(d) \/ DispatcherCrash(d) PROVE SentInv'
  BY <1>1, <1>8 DEF ReserveAndPush, DispatcherCrash
<1>9. ASSUME NEW d \in Dispatchers, PutBack(d) PROVE SentInv'
  BY <1>1, <1>9 DEF PutBack, ReleaseMessages
<1>10. CASE ReleaseReclaimed \/ ReclaimFails
  BY <1>1, <1>10 DEF ReleaseReclaimed, ReleaseSlots, ReclaimFails
<1> QED
  BY <1>1, <1>2, <1>3, <1>4, <1>5, <1>6, <1>7, <1>8, <1>9, <1>10
     DEF ProducerStep, Stream, Dispatch

LEMMA ConsumerSends ==
  ASSUME TypeOK, PlaceInv, SentInv, NEW c \in Consumers, ConsumerStep(c)
  PROVE  SentInv'
<1> USE DEF SentInv, fqVars, trackerVars
<1>1. CASE /\ UNCHANGED <<attempt, meta, marked, sending, row>>
           /\ queued' \cup inflight' \subseteq queued \cup inflight
           /\ hand'[c].stage # "cleanup" /\ OthersRest(c)
  BY <1>1 DEF OthersRest
<1>2. CASE Take(c)
  BY <1>1, <1>2, TakeEffect DEF Take
<1>3. CASE ProcessItem(c) \/ RecordItem(c)
  BY <1>1, <1>3, ProcessEffect, RecordEffect DEF RecordItem
<1>4. CASE FailMessage(c)
  <2> DEFINE m == hand[c].item
  <2>0. m \in Messages /\ attempt[m] > 0 /\ attempt[m] \in Nat
    BY <1>4, EndEffects DEF TypeOK
  <2>1. RetryOrDiscard(m) /\ UNCHANGED <<meta, marked, sending, row>>
    BY <1>4, EndEffects DEF FailMessage, Holds
  <2>2. hand'[c].stage = "release" /\ OthersRest(c)  BY <1>4, EndEffects DEF Moves
  <2>3. /\ attempt'[m] > 0 /\ \A x \in Messages \ {m} : attempt'[x] = attempt[x]
        /\ queued' \cup inflight' \subseteq queued \cup inflight \cup {m}
    BY <2>0, <2>1 DEF RetryOrDiscard, TypeOK
  <2>4. queued \subseteq Messages /\ inflight \subseteq Messages /\ sending \subseteq Messages
    BY DEF TypeOK
  <2>5. \A x \in queued' \cup inflight' : attempt'[x] > 0
    BY <2>3, <2>4
  <2>6. \A x \in sending' : attempt'[x] = 0
    BY <2>0, <2>1, <2>3, <2>4
  <2>7. \A x \in Messages : attempt'[x] > 0 \/ x \in sending' => attempt[x] > 0 \/ x \in sending
    BY <2>0, <2>1, <2>3
  <2>8. \A e \in Consumers : hand'[e].stage = "cleanup" =>
          hand[e].stage = "cleanup" /\ hand'[e] = hand[e]
    BY <2>2 DEF OthersRest
  <2> QED  BY <2>1, <2>5, <2>6, <2>7, <2>8
<1>5. CASE CompleteMessage(c)
  BY <1>1, <1>5, EndEffects DEF CompleteMessage, Holds, Moves
<1>6. CASE ReleaseConcurrency(c) \/ CompletionFails(c) \/ ConsumerCrash(c)
  <2>1. /\ UNCHANGED <<attempt, meta, marked, sending, row, queued, inflight>>
        /\ Done(c) \/ FinalizeIfLast(c)
    BY <1>6 DEF ReleaseConcurrency, ReleaseSlots, CompletionFails, ConsumerCrash
  <2> QED  BY <1>1, <2>1, HandMoves, IdleFields DEF Moves, Drops
<1>7. CASE FinalizeBatch(c)
  <2> DEFINE b == BatchOf[hand[c].item]
  <2>1. UNCHANGED <<queued, inflight, attempt, meta, marked, sending>>
    BY <1>7 DEF FinalizeBatch
  <2>2. b \in Batches
    BY <1>7 DEF FinalizeBatch, Holds, PlaceInv, HandPlaces
  <2>3. row'[b].settled /\ \A x \in Batches : row[x].settled => row'[x].settled
    BY <1>7, <2>2 DEF FinalizeBatch, TypeOK
  <2>4. OthersRest(c) /\ hand'[c].item = hand[c].item
    BY <1>7, HandMoves DEF FinalizeBatch, Stages, Moves
  <2>5. \A e \in Consumers : hand[e].stage = "cleanup" => BatchOf[hand[e].item] \in Batches
    BY DEF PlaceInv, HandPlaces
  <2> QED  BY <2>1, <2>2, <2>3, <2>4, <2>5 DEF OthersRest
<1>8. CASE Cleanup(c)
  <2>1. /\ UNCHANGED <<queued, inflight, attempt, sending, row>>
        /\ meta' = meta \ {BatchOf[hand[c].item]}
        /\ marked' = marked \ ItemsOf(BatchOf[hand[c].item])
        /\ row[BatchOf[hand[c].item]].settled
    BY <1>8 DEF Cleanup, Holds
  <2>2. OthersRest(c) /\ hand'[c].stage = "idle"
    BY <1>8, HandMoves, IdleFields DEF Cleanup, Drops
  <2> QED  BY <2>1, <2>2 DEF OthersRest, ItemsOf
<1> QED
  BY <1>2, <1>3, <1>4, <1>5, <1>6, <1>7, <1>8 DEF ConsumerStep, Consume

-----------------------------------------------------------------------------
(* Acknowledgements *)

\* An item whose delivery a consumer works on was sent; its batch is not new.
LEMMA WorkedIsSent ==
  ASSUME TypeOK, PlaceInv, SentInv, NEW c \in Consumers, Works(c)
  PROVE  /\ hand[c].item \in Messages /\ hand[c].item \notin sending
         /\ BatchOf[hand[c].item] \notin meta => row[BatchOf[hand[c].item]].settled
<1>1. hand[c].item \in Messages \cap inflight
  BY DEF PlaceInv, HandPlaces, TypeOK
<1>2. attempt[hand[c].item] > 0  BY <1>1 DEF SentInv
<1> QED  BY <1>1, <1>2 DEF SentInv

\* What a producer does to the batches and attempts that others look at.
LEMMA ProducersKeep ==
  ASSUME TypeOK, ProducerStep \/ UNCHANGED vars
  PROVE  /\ \A b \in Batches : b \in meta' \ meta => ~row[b].settled
         /\ meta \subseteq meta'
         /\ \A m \in Messages : attempt'[m] # attempt[m] => m \in sending /\ attempt'[m] > 0
         /\ UNCHANGED <<hand, recorded, runs, row>>
         /\ crashes <= crashes' /\ (stranded => stranded')
<1> USE DEF fqVars, bqVars, trackerVars, vars
<1> DEFINE Keep == /\ \A b \in Batches : b \in meta' \ meta => ~row[b].settled
                   /\ meta \subseteq meta'
                   /\ \A m \in Messages :
                        attempt'[m] # attempt[m] => m \in sending /\ attempt'[m] > 0
                   /\ crashes <= crashes' /\ (stranded => stranded')
<1>0. crashes \in Nat  BY DEF TypeOK
<1>1. ASSUME NEW b \in Batches, InitializeBatch(b) PROVE Keep
  BY <1>0, <1>1 DEF InitializeBatch, Unsettled
<1>2. ASSUME NEW m \in Messages, Stream(m) \/ Requeue(m) PROVE Keep
  BY <1>0, <1>2
     DEF Stream, MarkItem, EnqueueItem, EnqueueMessage, StreamCrash, Requeue, ReleaseMessages, TypeOK
<1>3. ASSUME NEW d \in Dispatchers, Dispatch(d) \/ DispatcherCrash(d) PROVE Keep
  <2>1. UNCHANGED <<attempt, meta, row, stranded>> /\ crashes' \in {crashes, crashes + 1}
    <3>1. CASE Claim(d)  BY <3>1 DEF Claim, ClaimMessages
    <3>2. CASE ReserveAndPush(d) \/ PutBack(d)
      BY <3>2 DEF ReserveAndPush, PutBack, ReleaseMessages
    <3>3. CASE DispatcherCrash(d)  BY <3>3 DEF DispatcherCrash
    <3> QED  BY <1>3, <3>1, <3>2, <3>3 DEF Dispatch
  <2> QED  BY <1>0, <2>1
<1>4. CASE ReleaseReclaimed \/ ReclaimFails \/ UNCHANGED vars
  BY <1>0, <1>4 DEF ReleaseReclaimed, ReleaseSlots, ReclaimFails
<1>5. Keep  BY <1>1, <1>2, <1>3, <1>4 DEF ProducerStep
<1> QED  BY <1>5, ProducersLeaveHands

LEMMA ProducerAcks ==
  ASSUME TypeOK, PlaceInv, SentInv, AckInv, ProducerStep \/ UNCHANGED vars
  PROVE  AckInv'
<1> SUFFICES ASSUME NEW c \in Consumers
             PROVE  /\ hand[c].stage = "complete" =>
                         recorded[hand[c].item] # "none" \/ BatchOf[hand[c].item] \notin meta'
                    /\ hand[c].stage = "fail" => attempt'[hand[c].item] < MaxAttempts
                    /\ hand[c].stage = "record" => hand[c].outcome # "none"
  BY ProducersKeep DEF AckInv
<1>1. CASE hand[c].stage \in {"complete", "fail"}
  <2>1. Works(c)  BY <1>1 DEF Works, Working
  <2>2. BatchOf[hand[c].item] \in Batches  BY <2>1, WorkedIsSent
  <2> QED  BY <1>1, <2>1, <2>2, WorkedIsSent, ProducersKeep DEF AckInv
<1>2. CASE hand[c].stage \notin {"complete", "fail"}
  BY <1>2 DEF AckInv
<1> QED  BY <1>1, <1>2

\* What a step of a consumer does to records.
LEMMA RecordsKept ==
  ASSUME TypeOK, NEW c \in Consumers, ConsumerStep(c)
  PROVE  /\ meta' \subseteq meta
         /\ \A m \in Messages : recorded[m] # "none" =>
              recorded'[m] = recorded[m] \/ BatchOf[m] \notin meta'
<1> USE DEF fqVars, trackerVars
<1>1. CASE RecordItem(c)
  <2>1. meta' = meta  BY <1>1 DEF RecordItem
  <2> QED  BY <1>1, <2>1, RecordEffect DEF Record, TypeOK
<1>2. CASE Cleanup(c)
  BY <1>2 DEF Cleanup, TypeOK
<1>3. CASE Take(c) \/ ProcessItem(c)  BY <1>3, ProcessEffect DEF Take
<1>4. CASE FailMessage(c) \/ CompleteMessage(c)  BY <1>4 DEF FailMessage, CompleteMessage
<1>5. CASE ReleaseConcurrency(c) \/ FinalizeBatch(c) \/ CompletionFails(c) \/ ConsumerCrash(c)
  BY <1>5 DEF ReleaseConcurrency, FinalizeBatch, CompletionFails, ConsumerCrash
<1> QED  BY <1>1, <1>2, <1>3, <1>4, <1>5 DEF ConsumerStep, Consume

LEMMA ConsumerAcks ==
  ASSUME TypeOK, PlaceInv, SentInv, AckInv, NEW c \in Consumers, ConsumerStep(c)
  PROVE  AckInv'
<1> DEFINE Own == /\ hand'[c].stage = "complete" =>
                       recorded'[hand'[c].item] # "none" \/ BatchOf[hand'[c].item] \notin meta'
                  /\ hand'[c].stage = "fail" => attempt'[hand'[c].item] < MaxAttempts
                  /\ hand'[c].stage = "record" => hand'[c].outcome # "none"
<1> USE DEF fqVars, trackerVars
<1>1. /\ OthersRest(c) /\ Own
      /\ \A m \in Messages : attempt'[m] # attempt[m] => Works(c) /\ m = hand[c].item
  <2>1. CASE Take(c)
    <3>1. UNCHANGED <<inflight, meta, attempt, recorded>>  BY <2>1 DEF Take
    <3>2. hand'[c].item \in inflight  BY <2>1, TakeEffect DEF PlaceInv, QueuePlaces
    <3> QED  BY <2>1, <3>1, <3>2, TakeEffect
  <2>2. CASE ProcessItem(c)
    <3>1. Works(c) /\ hand[c].item \in Messages
      BY <2>2, ProcessEffect, WorkedIsSent DEF Works, Working
    <3>2. ~IsFinalAttempt(hand[c].item) => attempt[hand[c].item] < MaxAttempts
      BY <3>1 DEF IsFinalAttempt, TypeOK
    <3> QED  BY <2>2, <3>1, <3>2, ProcessEffect
  <2>3. CASE RecordItem(c)
    <3>1. Works(c) /\ hand[c].item \in Messages
      BY <2>3, RecordEffect, WorkedIsSent DEF Works, Working
    <3>2. recorded'[hand[c].item] # "none"
      BY <2>3, <3>1, RecordEffect DEF Record, AckInv, TypeOK
    <3>3. attempt' = attempt  BY <2>3 DEF RecordItem
    <3> QED  BY <2>3, <3>2, <3>3, RecordEffect
  <2>4. CASE FailMessage(c) \/ CompleteMessage(c)
    <3>1. \A m \in Messages : attempt'[m] # attempt[m] => m = hand[c].item
      BY <2>4, EndEffects DEF RetryOrDiscard, TypeOK
    <3> QED  BY <2>4, <3>1, EndEffects DEF Moves
  <2>5. CASE ReleaseConcurrency(c) \/ Cleanup(c) \/ CompletionFails(c) \/ ConsumerCrash(c)
    <3>1. attempt' = attempt /\ (Done(c) \/ FinalizeIfLast(c))
      BY <2>5 DEF ReleaseConcurrency, ReleaseSlots, Cleanup, CompletionFails, ConsumerCrash
    <3> QED  BY <3>1, HandMoves, IdleFields DEF Moves, Drops
  <2>6. CASE FinalizeBatch(c)
    <3>1. attempt' = attempt /\ Goes(c, "cleanup") /\ "cleanup" \in Stages
      BY <2>6 DEF FinalizeBatch, Stages
    <3> QED  BY <3>1, HandMoves DEF Moves
  <2> QED  BY <2>1, <2>2, <2>3, <2>4, <2>5, <2>6 DEF ConsumerStep, Consume
<1> HIDE DEF Own
<1> SUFFICES ASSUME NEW e \in Consumers
             PROVE  /\ hand'[e].stage = "complete" =>
                         recorded'[hand'[e].item] # "none" \/ BatchOf[hand'[e].item] \notin meta'
                    /\ hand'[e].stage = "fail" => attempt'[hand'[e].item] < MaxAttempts
                    /\ hand'[e].stage = "record" => hand'[e].outcome # "none"
  BY DEF AckInv
<1>2. CASE e = c  BY <1>1, <1>2 DEF Own
<1>3. CASE e # c
  <2>1. hand'[e] = hand[e]  BY <1>1, <1>3 DEF OthersRest
  <2>2. CASE hand[e].stage \in {"complete", "fail"}
    <3>1. Works(e)  BY <2>2 DEF Works, Working
    <3>2. hand[e].item \in Messages  BY <3>1, WorkedIsSent
    <3>3. attempt'[hand[e].item] = attempt[hand[e].item]
      BY <1>1, <1>3, <3>1, <3>2 DEF PlaceInv, HandPlaces
    <3> QED  BY <2>1, <2>2, <3>2, <3>3, RecordsKept DEF AckInv
  <2>3. CASE hand[e].stage \notin {"complete", "fail"}
    BY <2>1, <2>3 DEF AckInv
  <2> QED  BY <2>2, <2>3
<1> QED  BY <1>2, <1>3

LEMMA ProducersQueue ==
  ASSUME TypeOK, PlaceInv, ProducerStep \/ UNCHANGED vars
  PROVE  /\ queued \cup inflight \subseteq queued' \cup inflight'
         /\ \A m \in Messages : attempt'[m] # attempt[m] => m \in queued'
<1> USE DEF fqVars, vars
<1>1. CASE UNCHANGED <<queued, inflight, attempt>>  BY <1>1
<1>2. ASSUME NEW m \in Messages, EnqueueItem(m) \/ Requeue(m)
      PROVE  /\ queued \cup inflight \subseteq queued' \cup inflight'
             /\ \A x \in Messages : attempt'[x] # attempt[x] => x \in queued'
  BY <1>2 DEF EnqueueItem, EnqueueMessage, Requeue, Abandoned, ReleaseMessages, TypeOK
<1>3. ASSUME NEW d \in Dispatchers, PutBack(d)
      PROVE  queued \cup inflight \subseteq queued' \cup inflight' /\ attempt' = attempt
  BY <1>3 DEF PutBack, ReleaseMessages
<1>4. ASSUME NEW d \in Dispatchers, Claim(d)
      PROVE  queued \cup inflight \subseteq queued' \cup inflight' /\ attempt' = attempt
  BY <1>4 DEF Claim, ClaimMessages
<1>5. ASSUME NEW b \in Batches, InitializeBatch(b) PROVE UNCHANGED <<queued, inflight, attempt>>
  BY <1>5 DEF InitializeBatch
<1>6. ASSUME NEW m \in Messages, MarkItem(m) \/ StreamCrash(m)
      PROVE  UNCHANGED <<queued, inflight, attempt>>
  BY <1>6 DEF MarkItem, StreamCrash
<1>7. ASSUME NEW d \in Dispatchers, ReserveAndPush(d) \/ DispatcherCrash(d)
      PROVE  UNCHANGED <<queued, inflight, attempt>>
  BY <1>7 DEF ReserveAndPush, DispatcherCrash
<1>8. CASE ReleaseReclaimed \/ ReclaimFails
  BY <1>1, <1>8 DEF ReleaseReclaimed, ReleaseSlots, ReclaimFails
<1> QED
  BY <1>1, <1>2, <1>3, <1>4, <1>5, <1>6, <1>7, <1>8 DEF ProducerStep, Stream, Dispatch

LEMMA ProducersLoseNothing ==
  ASSUME TypeOK, PlaceInv, SentInv, NoItemLost, ProducerStep \/ UNCHANGED vars
  PROVE  NoItemLost'
<1> SUFFICES ASSUME NEW m \in Messages, attempt'[m] > 0, BatchOf[m] \in meta',
                    recorded'[m] = "none"
             PROVE  m \in queued' \cup inflight'
  BY DEF NoItemLost
<1>1. CASE attempt'[m] # attempt[m]  BY <1>1, ProducersQueue
<1>2. CASE attempt'[m] = attempt[m]
  <2>1. BatchOf[m] \in Batches  OBVIOUS
  <2>2. BatchOf[m] \in meta  BY <1>2, <2>1, ProducersKeep DEF SentInv
  <2>3. m \in queued \cup inflight  BY <1>2, <2>2, ProducersKeep DEF NoItemLost
  <2> QED  BY <2>3, ProducersQueue
<1> QED  BY <1>1, <1>2

LEMMA ConsumersLoseNothing ==
  ASSUME TypeOK, PlaceInv, SentInv, AckInv, NoItemLost, NEW c \in Consumers, ConsumerStep(c)
  PROVE  NoItemLost'
<1> DEFINE m == hand[c].item
<1> USE DEF fqVars, trackerVars
<1> SUFFICES ASSUME NEW x \in Messages, attempt'[x] > 0, BatchOf[x] \in meta',
                    recorded'[x] = "none"
             PROVE  x \in queued' \cup inflight'
  BY DEF NoItemLost
<1>1. BatchOf[x] \in meta /\ recorded[x] = "none"  BY RecordsKept
<1>2. CASE UNCHANGED <<queued, inflight, attempt>>  BY <1>1, <1>2 DEF NoItemLost
<1>3. CASE FailMessage(c)
  <2>1. RetryOrDiscard(m) /\ m \in inflight /\ attempt[m] < MaxAttempts
    BY <1>3, EndEffects DEF FailMessage, Holds, AckInv
  <2>2. x # m => attempt'[x] = attempt[x]  BY <2>1 DEF RetryOrDiscard, TypeOK
  <2> QED  BY <1>1, <2>1, <2>2 DEF RetryOrDiscard, NoItemLost
<1>4. CASE CompleteMessage(c)
  <2>1. hand[c].stage = "complete"  BY <1>4 DEF CompleteMessage, Holds
  <2>2. x # m  BY <1>1, <2>1 DEF AckInv
  <2>3. inflight' = inflight \ {m} /\ UNCHANGED <<queued, attempt>>
    BY <1>4, <2>1, EndEffects
  <2> QED  BY <1>1, <2>2, <2>3 DEF NoItemLost
<1>5. CASE Take(c) \/ ProcessItem(c) \/ RecordItem(c)
  BY <1>2, <1>5, ProcessEffect DEF Take, RecordItem
<1>6. CASE ReleaseConcurrency(c) \/ FinalizeBatch(c) \/ Cleanup(c) \/ CompletionFails(c)
           \/ ConsumerCrash(c)
  BY <1>2, <1>6 DEF ReleaseConcurrency, ReleaseSlots, FinalizeBatch, Cleanup, CompletionFails,
                    ConsumerCrash
<1> QED  BY <1>3, <1>4, <1>5, <1>6 DEF ConsumerStep, Consume

-----------------------------------------------------------------------------
(* Results *)

LEMMA ProducerLast ==
  ASSUME LastInv, ProducerStep \/ UNCHANGED vars
  PROVE  LastInv'
<1>1. UNCHANGED <<hand, runs, row, recorded>>  BY ProducersLeaveHands
<1> QED  BY <1>1 DEF LastInv, AllRecorded

LEMMA ConsumerLast ==
  ASSUME TypeOK, PlaceInv, SentInv, AckInv, LastInv, NEW c \in Consumers, ConsumerStep(c)
  PROVE  LastInv'
<1> USE DEF fqVars, trackerVars
\* Runs are never deleted, and a batch that has its result keeps it.
<1>1. /\ \A m \in Messages : runs[m] > 0 => runs'[m] > 0
      /\ \A b \in Batches : row[b].settled => row'[b].settled
  <2>1. CASE UNCHANGED <<runs, row>>  BY <2>1
  <2>2. CASE ProcessItem(c)
    <3>1. row' = row  BY <2>2, Zenon DEF ProcessItem
    <3>2. CASE runs' = [runs EXCEPT ![hand[c].item] = @ + 1]
      BY <3>1, <3>2 DEF TypeOK
    <3> QED  BY <2>1, <2>2, <3>1, <3>2, ProcessEffect
  <2>3. CASE FinalizeBatch(c)
    BY <2>3 DEF FinalizeBatch, TypeOK
  <2>4. CASE Take(c) \/ RecordItem(c)  BY <2>1, <2>4 DEF Take, RecordItem
  <2>5. CASE FailMessage(c) \/ CompleteMessage(c)
    BY <2>1, <2>5 DEF FailMessage, CompleteMessage
  <2>6. CASE ReleaseConcurrency(c) \/ Cleanup(c) \/ CompletionFails(c) \/ ConsumerCrash(c)
    BY <2>1, <2>6 DEF ReleaseConcurrency, Cleanup, CompletionFails, ConsumerCrash
  <2> QED  BY <2>2, <2>3, <2>4, <2>5, <2>6 DEF ConsumerStep, Consume
\* Records of a batch without result stay.
<1>2. \A b \in Batches, m \in Messages :
        ~row'[b].settled /\ BatchOf[m] = b /\ recorded[m] # "none" => recorded'[m] # "none"
  <2>1. CASE recorded' = recorded  BY <2>1
  <2>2. CASE RecordItem(c)  BY <2>2, RecordEffect DEF Record, TypeOK
  <2>3. CASE Cleanup(c)
    <3>1. row' = row /\ row[BatchOf[hand[c].item]].settled
      BY <2>3 DEF Cleanup, Holds, SentInv
    <3>2. \A m \in Messages : BatchOf[m] # BatchOf[hand[c].item] => recorded'[m] = recorded[m]
      BY <2>3 DEF Cleanup
    <3> QED  BY <3>1, <3>2
  <2>4. CASE Take(c) \/ ProcessItem(c)  BY <2>1, <2>4, ProcessEffect DEF Take
  <2>5. CASE FailMessage(c) \/ CompleteMessage(c)
    BY <2>1, <2>5 DEF FailMessage, CompleteMessage
  <2>6. CASE ReleaseConcurrency(c) \/ FinalizeBatch(c) \/ CompletionFails(c) \/ ConsumerCrash(c)
    BY <2>1, <2>6 DEF ReleaseConcurrency, FinalizeBatch, CompletionFails, ConsumerCrash
  <2> QED  BY <2>2, <2>3, <2>4, <2>5, <2>6 DEF ConsumerStep, Consume
<1>3. \A e \in Consumers : hand[e].stage # "idle" =>
        hand[e].item \in Messages /\ BatchOf[hand[e].item] \in Batches
  BY DEF PlaceInv, HandPlaces
<1> DEFINE Own == /\ hand'[c].last /\ ~row'[BatchOf[hand'[c].item]].settled =>
                       AllRecorded(BatchOf[hand'[c].item], recorded')
                  /\ hand'[c].last => hand'[c].stage # "idle"
                  /\ hand'[c].stage = "finalize" => hand'[c].last
                  /\ hand'[c].stage = "record" /\ hand'[c].outcome = "success" =>
                       runs'[hand'[c].item] > 0
\* A hand that keeps its item, and what it saw.
<1>4. ASSUME hand[c].stage # "idle", hand'[c].item = hand[c].item, hand'[c].last = hand[c].last,
             hand'[c].stage # "idle", hand'[c].stage = "finalize" => hand[c].last,
             hand'[c].stage # "record"
      PROVE  Own
  <2>1. BatchOf[hand[c].item] \in Batches  BY <1>3, <1>4
  <2>2. hand[c].last /\ ~row'[BatchOf[hand[c].item]].settled
          => AllRecorded(BatchOf[hand[c].item], recorded)
    BY <1>1, <2>1 DEF LastInv
  <2>3. hand[c].last /\ ~row'[BatchOf[hand[c].item]].settled
          => AllRecorded(BatchOf[hand[c].item], recorded')
    BY <1>2, <2>1, <2>2 DEF AllRecorded, ItemsOf
  <2> QED  BY <1>4, <2>3
<1>5. ASSUME hand'[c].stage = "idle", ~hand'[c].last PROVE Own  BY <1>5
<1>6. Own /\ OthersRest(c)
  <2>1. CASE Take(c)  BY <2>1, TakeEffect
  <2>2. CASE ProcessItem(c)
    <3>1. hand[c].item \in Messages /\ BatchOf[hand[c].item] \in Batches /\ row' = row
          /\ recorded' = recorded
      BY <1>3, <2>2, ProcessEffect
    <3>2. runs' = [runs EXCEPT ![hand[c].item] = @ + 1] => runs'[hand[c].item] > 0
      BY <3>1 DEF TypeOK
    <3>3. hand[c].last /\ ~row'[BatchOf[hand[c].item]].settled
            => AllRecorded(BatchOf[hand[c].item], recorded')
      BY <3>1 DEF LastInv
    <3> QED  BY <2>2, <3>2, <3>3, ProcessEffect
  <2>3. CASE RecordItem(c)  BY <2>3, RecordEffect
  <2>4. CASE FailMessage(c) \/ CompleteMessage(c)
    <3>1. hand[c].stage # "idle"  BY <2>4 DEF FailMessage, CompleteMessage, Holds
    <3> QED  BY <1>4, <2>4, <3>1, EndEffects DEF Moves
  <2>5. CASE ReleaseConcurrency(c)
    <3>1. hand[c].stage # "idle" /\ FinalizeIfLast(c)  BY <2>5 DEF ReleaseConcurrency, Holds
    <3> QED  BY <1>4, <1>5, <3>1, HandMoves, IdleFields DEF Moves, Drops
  <2>6. CASE Cleanup(c) \/ CompletionFails(c) \/ ConsumerCrash(c)
    <3>1. Done(c)  BY <2>6 DEF Cleanup, CompletionFails, ConsumerCrash
    <3> QED  BY <1>5, <3>1, HandMoves, IdleFields DEF Drops
  <2>7. CASE FinalizeBatch(c)
    <3>1. hand[c].stage # "idle" /\ Goes(c, "cleanup") /\ "cleanup" \in Stages
      BY <2>7 DEF FinalizeBatch, Stages, Holds
    <3> QED  BY <1>4, <3>1, HandMoves DEF Moves
  <2> QED  BY <2>1, <2>2, <2>3, <2>4, <2>5, <2>6, <2>7 DEF ConsumerStep, Consume
<1> HIDE DEF Own
<1>7. \A m \in Messages : recorded'[m] = "success" => runs'[m] > 0
  <2>1. CASE RecordItem(c)
    <3>1. hand[c].item \in Messages /\ (hand[c].outcome = "success" => runs[hand[c].item] > 0)
      BY <1>3, <2>1, RecordEffect DEF LastInv
    <3>2. ASSUME NEW m \in Messages, recorded'[m] = "success" PROVE runs[m] > 0
      BY <2>1, <3>1, <3>2, RecordEffect DEF Record, LastInv, TypeOK
    <3> QED  BY <1>1, <3>2
  <2>2. CASE \A m \in Messages : recorded'[m] \in {recorded[m], "none"}
    BY <1>1, <2>2 DEF LastInv
  <2>3. CASE Cleanup(c)  BY <2>2, <2>3 DEF Cleanup
  <2>4. CASE Take(c) \/ ProcessItem(c)  BY <2>2, <2>4, ProcessEffect DEF Take
  <2>5. CASE FailMessage(c) \/ CompleteMessage(c)
    BY <2>2, <2>5 DEF FailMessage, CompleteMessage
  <2>6. CASE ReleaseConcurrency(c) \/ FinalizeBatch(c) \/ CompletionFails(c) \/ ConsumerCrash(c)
    BY <2>2, <2>6 DEF ReleaseConcurrency, FinalizeBatch, CompletionFails, ConsumerCrash
  <2> QED  BY <2>1, <2>3, <2>4, <2>5, <2>6 DEF ConsumerStep, Consume
<1>8. ASSUME NEW e \in Consumers
      PROVE  /\ hand'[e].last /\ ~row'[BatchOf[hand'[e].item]].settled =>
                  AllRecorded(BatchOf[hand'[e].item], recorded')
             /\ hand'[e].last => hand'[e].stage # "idle"
             /\ hand'[e].stage = "finalize" => hand'[e].last
             /\ hand'[e].stage = "record" /\ hand'[e].outcome = "success" =>
                  runs'[hand'[e].item] > 0
  <2>1. CASE e = c  BY <1>6, <2>1 DEF Own
  <2>2. CASE e # c
    <3>1. hand'[e] = hand[e]  BY <1>6, <2>2 DEF OthersRest
    <3>2. ASSUME hand[e].last, ~row'[BatchOf[hand[e].item]].settled
          PROVE  AllRecorded(BatchOf[hand[e].item], recorded')
      <4>1. BatchOf[hand[e].item] \in Batches  BY <1>3, <3>2 DEF LastInv
      <4>2. AllRecorded(BatchOf[hand[e].item], recorded)
        BY <1>1, <3>2, <4>1 DEF LastInv
      <4> QED  BY <1>2, <3>2, <4>1, <4>2 DEF AllRecorded, ItemsOf
    <3> QED  BY <1>1, <1>3, <3>1, <3>2 DEF LastInv
  <2> QED  BY <2>1, <2>2
<1> QED  BY <1>7, <1>8 DEF LastInv

-----------------------------------------------------------------------------
(* Runs *)

\* Producers bring into the queue only what was never sent before.
LEMMA ProducersQueueNew ==
  ASSUME TypeOK, PlaceInv, SentInv, ProducerStep \/ UNCHANGED vars
  PROVE  \A m \in queued' \cup inflight' : m \in queued \cup inflight \/ attempt[m] = 0
<1> USE DEF fqVars, vars
<1> DEFINE New == \A m \in queued' \cup inflight' : m \in queued \cup inflight \/ attempt[m] = 0
<1>1. CASE UNCHANGED <<queued, inflight>>  BY <1>1
<1>2. ASSUME NEW m \in Messages, EnqueueItem(m) PROVE New
  BY <1>2 DEF EnqueueItem, EnqueueMessage, SentInv
<1>3. ASSUME NEW m \in Messages, Requeue(m) PROVE New
  BY <1>3 DEF Requeue, Abandoned, ReleaseMessages
<1>4. ASSUME NEW d \in Dispatchers, PutBack(d) PROVE New
  BY <1>4 DEF PutBack, ReleaseMessages
<1>5. ASSUME NEW d \in Dispatchers, Claim(d) PROVE New
  BY <1>5 DEF Claim, ClaimMessages
<1>6. ASSUME NEW b \in Batches, InitializeBatch(b) PROVE New
  BY <1>1, <1>6 DEF InitializeBatch
<1>7. ASSUME NEW m \in Messages, MarkItem(m) \/ StreamCrash(m) PROVE New
  BY <1>1, <1>7 DEF MarkItem, StreamCrash
<1>8. ASSUME NEW d \in Dispatchers, ReserveAndPush(d) \/ DispatcherCrash(d) PROVE New
  BY <1>1, <1>8 DEF ReserveAndPush, DispatcherCrash
<1>9. CASE ReleaseReclaimed \/ ReclaimFails
  BY <1>1, <1>9 DEF ReleaseReclaimed, ReleaseSlots, ReclaimFails
<1> QED
  BY <1>1, <1>2, <1>3, <1>4, <1>5, <1>6, <1>7, <1>8, <1>9 DEF ProducerStep, Stream, Dispatch

LEMMA ProducerRuns ==
  ASSUME TypeOK, PlaceInv, SentInv, RunInv, OneRunEach, ProducerStep \/ UNCHANGED vars
  PROVE  (RunInv /\ OneRunEach)'
<1>0. /\ UNCHANGED <<hand, runs>> /\ crashes \in Nat /\ crashes' \in Int
      /\ runs \in [Messages -> Nat] /\ crashes <= crashes'
      /\ queued' \cup inflight' \subseteq Messages
  BY ProducersKeep, TypeStep, StepKinds, ProducerTypes DEF TypeOK, vars, fqVars, bqVars
<1>1. ASSUME NEW m \in queued' \cup inflight', ~Spent(m) PROVE runs[m] <= crashes'
  <2>1. m \in Messages  BY <1>0
  <2>2. runs[m] <= crashes
    BY <1>1, <2>1, <1>0, ProducersQueueNew DEF RunInv
  <2> QED  BY <1>0, <2>1, <2>2
<1>2. ASSUME NEW m \in Messages, attempt'[m] = 0 PROVE runs[m] = 0
  BY <1>2, ProducersKeep DEF RunInv
<1>3. \A m \in Messages : runs[m] <= 1 + crashes'
  BY <1>0 DEF OneRunEach
<1> QED  BY <1>0, <1>1, <1>2, <1>3 DEF RunInv, OneRunEach, Spent

LEMMA ConsumerRuns ==
  ASSUME TypeOK, PlaceInv, SentInv, RunInv, OneRunEach, NEW c \in Consumers, ConsumerStep(c)
  PROVE  (RunInv /\ OneRunEach)'
<1> DEFINE item == hand[c].item
<1> USE DEF fqVars, trackerVars
<1>0. /\ crashes \in Nat /\ runs \in [Messages -> Nat]
      /\ queued \cup inflight \subseteq Messages
  BY DEF TypeOK
\* Steps that create no run and end no delivery in a crash.
<1>1. ASSUME UNCHANGED <<runs, crashes>>,
             queued' \cup inflight' \subseteq queued \cup inflight,
             \A m \in Messages : attempt'[m] = 0 => attempt[m] = 0,
             \A m \in queued' \cup inflight' : Spent(m) => Spent(m)'
      PROVE  (RunInv /\ OneRunEach)'
  BY <1>0, <1>1 DEF RunInv, OneRunEach
<1>2. ASSUME OthersRest(c), NEW m \in Messages, Spent(m),
             ~(item = m /\ (hand[c].stage = "complete" \/
                            (hand[c].stage = "record" /\ hand[c].outcome = "success")))
      PROVE  Spent(m)'
  <2>1. PICK e \in Consumers :
          /\ hand[e].item = m
          /\ hand[e].stage = "complete" \/ (hand[e].stage = "record" /\ hand[e].outcome = "success")
    BY <1>2 DEF Spent
  <2>2. e # c /\ hand'[e] = hand[e]  BY <1>2, <2>1 DEF OthersRest
  <2> QED  BY <2>1, <2>2 DEF Spent
<1>3. CASE Take(c)
  <2>1. UNCHANGED <<runs, crashes, queued, inflight, attempt>>  BY <1>3 DEF Take
  <2> QED  BY <1>0, <1>1, <1>2, <1>3, <2>1, TakeEffect
<1>4. CASE ProcessItem(c)
  <2>1. UNCHANGED <<queued, inflight, attempt, crashes>> /\ OthersRest(c)
    BY <1>4, ProcessEffect
  <2>2. hand[c].stage = "callback"  BY <1>4, ProcessEffect
  <2>3. CASE runs' = runs
    <3>1. \A m \in Messages : Spent(m) => Spent(m)'  BY <1>2, <2>1, <2>2
    <3> QED  BY <1>0, <1>1, <2>1, <2>3, <3>1
  <2>4. CASE /\ hand'[c].stage = "record" /\ hand'[c].outcome = "success"
             /\ runs' = [runs EXCEPT ![item] = @ + 1]
    <3>1. Works(c) /\ item \in Messages \cap inflight
      BY <2>2 DEF Works, Working, PlaceInv, HandPlaces, TypeOK
    <3>2. ~Spent(item)
      <4> SUFFICES ASSUME NEW e \in Consumers, hand[e].item = item,
                          hand[e].stage \in {"complete", "record"}
                   PROVE  FALSE
        BY DEF Spent
      <4>1. Works(e) /\ e # c  BY <2>2 DEF Works, Working
      <4> QED  BY <3>1, <4>1 DEF PlaceInv, HandPlaces
    <3>3. runs[item] <= crashes /\ runs[item] \in Nat  BY <1>0, <3>1, <3>2 DEF RunInv
    <3>4. runs'[item] = runs[item] + 1 /\ \A m \in Messages \ {item} : runs'[m] = runs[m]
      BY <1>0, <2>4, <3>1
    <3>5. OneRunEach'
      BY <1>0, <2>1, <3>3, <3>4 DEF OneRunEach
    <3>6. hand'[c].item = item  BY <1>4, ProcessEffect
    <3>7. ASSUME NEW m \in queued' \cup inflight', ~Spent(m)' PROVE runs'[m] <= crashes'
      <4>1. m # item /\ m \in Messages  BY <1>0, <2>1, <2>4, <3>6, <3>7 DEF Spent
      <4>2. ~Spent(m)  BY <1>2, <2>1, <2>2, <3>7, <4>1
      <4> QED  BY <2>1, <3>4, <4>1, <4>2 DEF RunInv
    <3>8. \A m \in Messages : attempt'[m] = 0 => runs'[m] = 0
      <4>1. attempt[item] > 0  BY <3>1 DEF SentInv
      <4> QED  BY <2>1, <3>4, <4>1 DEF RunInv
    <3> QED  BY <3>5, <3>7, <3>8 DEF RunInv
  <2> QED  BY <1>4, <2>3, <2>4, ProcessEffect
<1>5. CASE RecordItem(c)
  <2>1. UNCHANGED <<runs, crashes, queued, inflight, attempt>>  BY <1>5 DEF RecordItem
  <2>2. hand'[c].item = item /\ hand'[c].stage = "complete" /\ OthersRest(c)
    BY <1>5, RecordEffect
  <2>3. Spent(item)'  BY <2>2 DEF Spent
  <2>4. \A m \in Messages : Spent(m) => Spent(m)'  BY <1>2, <2>2, <2>3
  <2> QED  BY <1>0, <1>1, <2>1, <2>4
<1>6. CASE FailMessage(c)
  <2>1. /\ hand[c].stage = "fail" /\ item \in inflight /\ RetryOrDiscard(item)
        /\ UNCHANGED <<runs, crashes>> /\ OthersRest(c)
    BY <1>6, EndEffects DEF FailMessage, Holds
  <2>2. queued' \cup inflight' \subseteq queued \cup inflight
    BY <2>1 DEF RetryOrDiscard
  <2>3. \A m \in Messages : attempt'[m] = 0 => attempt[m] = 0
    BY <2>1 DEF RetryOrDiscard, TypeOK
  <2>4. \A m \in Messages : Spent(m) => Spent(m)'  BY <1>2, <2>1
  <2> QED  BY <1>0, <1>1, <2>1, <2>2, <2>3, <2>4
<1>7. CASE CompleteMessage(c)
  <2>1. /\ hand[c].stage = "complete" /\ item \in inflight /\ inflight' = inflight \ {item}
        /\ UNCHANGED <<queued, attempt, runs, crashes>> /\ OthersRest(c)
    BY <1>7, EndEffects DEF CompleteMessage, Holds
  <2>2. item \notin queued' \cup inflight'  BY <2>1 DEF PlaceInv, QueuePlaces
  <2>3. \A m \in queued' \cup inflight' : Spent(m) => Spent(m)'
    BY <1>0, <1>2, <2>1, <2>2
  <2> QED  BY <1>1, <2>1, <2>3
<1>8. CASE ReleaseConcurrency(c) \/ FinalizeBatch(c) \/ Cleanup(c)
  <2>1. /\ UNCHANGED <<runs, crashes, queued, inflight, attempt>>
        /\ hand[c].stage \in {"release", "finalize", "cleanup"}
    BY <1>8 DEF ReleaseConcurrency, ReleaseSlots, FinalizeBatch, Cleanup, Holds
  <2>2. OthersRest(c)
    BY <1>8, HandMoves DEF ReleaseConcurrency, FinalizeBatch, Cleanup, Stages
  <2>3. \A m \in Messages : Spent(m) => Spent(m)'  BY <1>2, <2>1, <2>2
  <2> QED  BY <1>0, <1>1, <2>1, <2>3
<1>9. CASE CompletionFails(c) \/ ConsumerCrash(c)
  <2>1. UNCHANGED <<runs, queued, inflight, attempt>> /\ crashes' = crashes + 1
    BY <1>9 DEF CompletionFails, ConsumerCrash
  <2> QED  BY <1>0, <2>1 DEF RunInv, OneRunEach
<1> QED
  BY <1>3, <1>4, <1>5, <1>6, <1>7, <1>8, <1>9 DEF ConsumerStep, Consume

-----------------------------------------------------------------------------
(* Slots *)

SlotInv == ClaimInv /\ NoSlotLeak

LEMMA ProducerSlots ==
  ASSUME TypeOK, PlaceInv, SlotInv, ProducerStep \/ UNCHANGED vars
  PROVE  SlotInv'
<1> USE DEF SlotInv, ClaimInv, NoSlotLeak, PlaceInv, QueuePlaces, fqVars, bqVars, vars
<1>0. UNCHANGED hand /\ Releasing' = Releasing /\ (stranded => stranded')
  BY ProducersKeep DEF Releasing, Holds
<1>1. CASE UNCHANGED <<queued, inflight, slots, holding, reclaiming>>
  BY <1>0, <1>1
<1>2. ASSUME NEW m \in Messages, EnqueueItem(m) PROVE SlotInv'
  <2>1. UNCHANGED <<inflight, slots, holding, reclaiming, stranded>>
    BY <1>2 DEF EnqueueItem, EnqueueMessage
  <2> QED  BY <1>0, <2>1
<1>3. ASSUME NEW m \in Messages, Requeue(m) PROVE SlotInv'
  <2>1. /\ inflight' = inflight \ {m} /\ reclaiming' = reclaiming \cup {m}
        /\ UNCHANGED <<slots, holding, stranded>>
    BY <1>3 DEF Requeue, ReleaseMessages
  <2> QED  BY <1>0, <2>1
<1>4. ASSUME NEW d \in Dispatchers, Claim(d) PROVE SlotInv'
  <2>1. PICK S \in SUBSET queued :
          inflight' = inflight \cup S /\ holding' = [holding EXCEPT ![d] = S]
    BY <1>4 DEF Claim, ClaimMessages
  <2>2. UNCHANGED <<slots, reclaiming, stranded>>
    BY <1>4 DEF Claim, ClaimMessages
  <2>3. holding'[d] = S /\ \A e \in Dispatchers \ {d} : holding'[e] = holding[e]
    BY <2>1 DEF TypeOK
  <2> QED  BY <1>0, <2>1, <2>2, <2>3
<1>5. ASSUME NEW d \in Dispatchers, ReserveAndPush(d) PROVE SlotInv'
  <2>1. PICK m \in holding[d] :
          slots' = slots \cup {m} /\ holding' = [holding EXCEPT ![d] = @ \ {m}]
    BY <1>5 DEF ReserveAndPush, Reserve
  <2>2. UNCHANGED <<inflight, reclaiming, stranded>>  BY <1>5 DEF ReserveAndPush
  <2>3. holding'[d] = holding[d] \ {m} /\ \A e \in Dispatchers \ {d} : holding'[e] = holding[e]
    BY <2>1 DEF TypeOK
  <2> QED  BY <1>0, <2>1, <2>2, <2>3
<1>6. ASSUME NEW d \in Dispatchers, PutBack(d) PROVE SlotInv'
  <2>1. inflight' = inflight \ holding[d] /\ UNCHANGED <<slots, reclaiming, stranded>>
    BY <1>6 DEF PutBack, ReleaseMessages
  <2>2. holding'[d] = {} /\ \A e \in Dispatchers \ {d} : holding'[e] = holding[e]
    BY <1>6 DEF PutBack, TypeOK
  <2> QED  BY <1>0, <2>1, <2>2
<1>7. ASSUME NEW d \in Dispatchers, DispatcherCrash(d) PROVE SlotInv'
  <2>1. UNCHANGED <<inflight, reclaiming, stranded>>  BY <1>7 DEF DispatcherCrash
  <2>2. holding'[d] = {} /\ \A e \in Dispatchers \ {d} : holding'[e] = holding[e]
    BY <1>7 DEF DispatcherCrash, TypeOK
  <2>3. slots' = slots \/ \E m \in holding[d] : slots' = slots \cup {m}
    BY <1>7 DEF DispatcherCrash, Reserve
  <2> QED  BY <1>0, <2>1, <2>2, <2>3
<1>8. ASSUME NEW b \in Batches, InitializeBatch(b) PROVE SlotInv'
  BY <1>1, <1>8 DEF InitializeBatch
<1>9. ASSUME NEW m \in Messages, MarkItem(m) \/ StreamCrash(m) PROVE SlotInv'
  BY <1>1, <1>9 DEF MarkItem, StreamCrash
<1>10. CASE ReleaseReclaimed
  <2>1. slots' = slots \ reclaiming /\ UNCHANGED <<inflight, holding, stranded>>
    BY <1>10 DEF ReleaseReclaimed, ReleaseSlots
  <2> QED  BY <1>0, <2>1
<1>11. CASE ReclaimFails
  BY <1>11 DEF ReclaimFails
<1> QED
  BY <1>1, <1>2, <1>3, <1>4, <1>5, <1>6, <1>7, <1>8, <1>9, <1>10, <1>11
     DEF ProducerStep, Stream, Dispatch

LEMMA ConsumerSlots ==
  ASSUME TypeOK, PlaceInv, SlotInv, NEW c \in Consumers, ConsumerStep(c)
  PROVE  SlotInv'
<1> DEFINE item == hand[c].item
<1> USE DEF SlotInv, ClaimInv, NoSlotLeak, fqVars
<1>1. ASSUME OthersRest(c), hand[c].stage # "release" PROVE Releasing \subseteq Releasing'
  <2> SUFFICES ASSUME NEW e \in Consumers, hand[e].stage = "release"
               PROVE  hand[e].item \in Releasing'
    BY DEF Releasing, Holds
  <2>1. hand'[e] = hand[e]  BY <1>1 DEF OthersRest
  <2> QED  BY <2>1 DEF Releasing, Holds
<1>2. ASSUME UNCHANGED <<inflight, slots, holding, reclaiming>>, stranded => stranded',
             Releasing \subseteq Releasing'
      PROVE  SlotInv'
  BY <1>2
<1>3. CASE Take(c)
  <2>1. UNCHANGED <<inflight, slots, holding, reclaiming, stranded>>  BY <1>3 DEF Take
  <2> QED  BY <1>1, <1>2, <1>3, <2>1, TakeEffect
<1>4. CASE ProcessItem(c) \/ RecordItem(c)
  <2>1. UNCHANGED <<inflight, slots, holding, reclaiming, stranded>>
    BY <1>4, ProcessEffect DEF RecordItem
  <2> QED  BY <1>1, <1>2, <1>4, <2>1, ProcessEffect, RecordEffect
<1>5. CASE FailMessage(c) \/ CompleteMessage(c)
  <2>1. /\ inflight' = inflight \ {item} /\ UNCHANGED <<slots, holding, reclaiming, stranded>>
        /\ OthersRest(c) /\ hand'[c].item = item /\ hand'[c].stage = "release"
    BY <1>5, EndEffects DEF Moves
  <2>2. hand[c].stage # "release"
    BY <1>5 DEF FailMessage, CompleteMessage, Holds
  <2>3. Releasing \subseteq Releasing'  BY <1>1, <2>1, <2>2
  <2>4. item \in Releasing'  BY <2>1 DEF Releasing, Holds
  <2> QED  BY <2>1, <2>3, <2>4
<1>6. CASE ReleaseConcurrency(c)
  <2>1. slots' = slots \ {item} /\ UNCHANGED <<inflight, holding, reclaiming, stranded>>
    BY <1>6 DEF ReleaseConcurrency, ReleaseSlots
  <2>2. OthersRest(c)  BY <1>6, HandMoves DEF ReleaseConcurrency
  <2>3. Releasing \subseteq Releasing' \cup {item}
    <3> SUFFICES ASSUME NEW e \in Consumers, hand[e].stage = "release", e # c
                 PROVE  hand[e].item \in Releasing'
      BY DEF Releasing, Holds
    <3>1. hand'[e] = hand[e]  BY <2>2 DEF OthersRest
    <3> QED  BY <3>1 DEF Releasing, Holds
  <2> QED  BY <2>1, <2>3
<1>7. CASE FinalizeBatch(c) \/ Cleanup(c) \/ CompletionFails(c)
  <2>1. UNCHANGED <<inflight, slots, holding, reclaiming>> /\ (stranded => stranded')
    BY <1>7 DEF FinalizeBatch, Cleanup, CompletionFails
  <2>2. OthersRest(c) /\ hand[c].stage # "release"
    BY <1>7, HandMoves DEF FinalizeBatch, Cleanup, CompletionFails, Stages, Holds
  <2> QED  BY <1>1, <1>2, <2>1, <2>2
<1>8. CASE ConsumerCrash(c)
  <2>1. /\ UNCHANGED <<inflight, slots, holding, reclaiming>>
        /\ stranded' = (stranded \/ hand[c].stage = "release")
    BY <1>8 DEF ConsumerCrash, Holds
  <2>2. CASE hand[c].stage = "release"  BY <2>1, <2>2
  <2>3. CASE hand[c].stage # "release"
    <3>1. OthersRest(c)  BY <1>8, HandMoves DEF ConsumerCrash
    <3>2. Releasing \subseteq Releasing'  BY <1>1, <2>3, <3>1
    <3> QED  BY <2>1, <2>3, <3>2
  <2> QED  BY <2>2, <2>3
<1> QED
  BY <1>3, <1>4, <1>5, <1>6, <1>7, <1>8 DEF ConsumerStep, Consume

-----------------------------------------------------------------------------
(* Invariance *)

LEMMA BInvInit == Init => BInv
<1> SUFFICES ASSUME Init PROVE BInv  OBVIOUS
<1> USE DEF Init, FQInit
<1>1. TypeOK
  <2>1. 0 \in 0..MaxAttempts /\ 0 \in 0..MaxCrashes  OBVIOUS
  <2> QED  BY <2>1 DEF TypeOK, Idle, Stages, Unsettled
<1>2. /\ \A c \in Consumers : hand[c] = Idle
      /\ \A d \in Dispatchers : holding[d] = {}
      /\ \A m \in Messages : attempt[m] = 0 /\ runs[m] = 0 /\ recorded[m] = "none"
  OBVIOUS
<1>3. PlaceInv /\ SentInv
  BY <1>2, IdleFields
     DEF PlaceInv, QueuePlaces, HandPlaces, Works, Working, SentInv
<1>4. AckInv /\ ClaimInv /\ RunInv /\ LastInv /\ NoItemLost /\ NoSlotLeak /\ OneRunEach
  BY <1>2, IdleFields
     DEF AckInv, ClaimInv, RunInv, LastInv, NoItemLost, NoSlotLeak, OneRunEach
<1> QED  BY <1>1, <1>3, <1>4 DEF BInv

LEMMA BInvStep == BInv /\ [Next]_vars => BInv'
<1> SUFFICES ASSUME BInv, [Next]_vars PROVE BInv'  OBVIOUS
<1> USE DEF BInv, SlotInv
<1>1. TypeOK'  BY TypeStep
<1>2. CASE ProducerStep \/ UNCHANGED vars
  BY <1>1, <1>2, ProducerPlaces, ProducerSends, ProducerAcks, ProducersLoseNothing,
     ProducerLast, ProducerRuns, ProducerSlots
<1>3. ASSUME NEW c \in Consumers, ConsumerStep(c) PROVE BInv'
  BY <1>1, <1>3, ConsumerPlaces, ConsumerSends, ConsumerAcks, ConsumersLoseNothing,
     ConsumerLast, ConsumerRuns, ConsumerSlots
<1> QED  BY <1>2, <1>3, StepKinds

\* A batch gets its first result from a consumer that saw every item recorded.
LEMMA FirstResultStep ==
  ASSUME BInv, [Next]_vars, NEW b \in Batches, ~row[b].settled, row'[b].settled
  PROVE  /\ row'[b].ok \cup row'[b].failed = ItemsOf(b)
         /\ \A m \in row'[b].ok : runs[m] > 0
<1> USE DEF BInv
<1>1. PICK c \in Consumers : FinalizeBatch(c)
  <2>1. ~(ProducerStep \/ UNCHANGED vars)  BY ProducersLeaveHands
  <2>2. PICK c \in Consumers : ConsumerStep(c)  BY <2>1, StepKinds
  <2>3. ~Take(c) /\ ~RecordItem(c) /\ ~Cleanup(c) /\ ~CompletionFails(c) /\ ~ConsumerCrash(c)
    BY DEF Take, RecordItem, Cleanup, CompletionFails, ConsumerCrash
  <2>4. ~ProcessItem(c)  BY ProcessEffect
  <2>5. ~FailMessage(c) /\ ~CompleteMessage(c) /\ ~ReleaseConcurrency(c)
    BY DEF FailMessage, CompleteMessage, ReleaseConcurrency
  <2> QED  BY <2>2, <2>3, <2>4, <2>5 DEF ConsumerStep, Consume
<1>2. hand[c].stage = "finalize" /\ hand[c].last /\ BatchOf[hand[c].item] \in Batches
  BY <1>1 DEF FinalizeBatch, Holds, LastInv, PlaceInv, HandPlaces
<1>3. row' = [row EXCEPT ![BatchOf[hand[c].item]] =
               [settled |-> TRUE,
                ok      |-> Outcome(BatchOf[hand[c].item], "success"),
                failed  |-> Outcome(BatchOf[hand[c].item], "failure")]]
  BY <1>1 DEF FinalizeBatch
<1>4. b = BatchOf[hand[c].item]  BY <1>2, <1>3 DEF TypeOK
<1>5. row'[b].ok = Outcome(b, "success") /\ row'[b].failed = Outcome(b, "failure")
  BY <1>3, <1>4 DEF TypeOK
<1>6. \A m \in ItemsOf(b) : recorded[m] \in {"success", "failure"}
  BY <1>2, <1>4 DEF LastInv, AllRecorded, TypeOK, ItemsOf
<1> QED  BY <1>5, <1>6 DEF Outcome, ItemsOf, LastInv

-----------------------------------------------------------------------------
(* Theorems *)

\* Every step writes values of its variables' types; no retry takes an item
\* beyond the attempts that the retry strategy allows.
THEOREM TypeCorrect == Spec => []TypeOK
<1>1. Init => TypeOK  BY BInvInit DEF BInv
<1> QED  BY <1>1, TypeStep, PTL DEF Spec

\* The inductive invariant.
THEOREM Invariance == Spec => []BInv
<1> QED  BY BInvInit, BInvStep, PTL DEF Spec

\* An item enqueued waits or is in flight until its outcome is recorded,
\* whichever process dies at whichever await.
THEOREM ItemsAreKept == Spec => []NoItemLost
<1>1. BInv => NoItemLost  BY DEF BInv
<1> QED  BY <1>1, Invariance, PTL

\* No concurrency slot outlives its message's delivery for longer than the step
\* that releases it takes, but for a failure of exactly that step.
THEOREM SlotsAreReturned == Spec => []NoSlotLeak
<1>1. BInv => NoSlotLeak  BY DEF BInv
<1> QED  BY <1>1, Invariance, PTL

\* No item becomes more runs than one, and one for each loop that died between
\* the run and the acknowledgement, however deliveries are reclaimed.
THEOREM RunsAreBounded == Spec => []OneRunEach
<1>1. BInv => OneRunEach  BY DEF BInv
<1> QED  BY <1>1, Invariance, PTL

\* The first result of a batch accounts for all of its items, however many
\* consumers record the last ones at once.
THEOREM ResultsAreWhole == Spec => FirstResultWhole
<1>1. BInv /\ [Next]_vars =>
        [\A b \in Batches : ~row[b].settled /\ row'[b].settled =>
           /\ row'[b].ok \cup row'[b].failed = ItemsOf(b)
           /\ \A m \in row'[b].ok : runs[m] > 0]_vars
  BY FirstResultStep
<1> QED  BY <1>1, Invariance, PTL DEF Spec, FirstResultWhole

=============================================================================
