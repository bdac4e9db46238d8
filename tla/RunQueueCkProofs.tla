-------------------------- MODULE RunQueueCkProofs --------------------------
(***************************************************************************)
(* Theorems about the concurrency-key queues, for every value of the       *)
(* constants.                                                              *)
(*                                                                         *)
(* Many handlers run few scripts.  Shapes says what a step can do to the   *)
(* sorted sets, the slots and the counters: it is one of the eleven forms  *)
(* defined before it, given that every run has one place at most (Places,  *)
(* proved action by action).  The invariants about the index, the counters *)
(* and the slots, and the refinement, are then proved form by form.        *)
(***************************************************************************)
EXTENDS RunQueueCk, FiniteSetTheorems, WellFoundedInduction, TLAPS

-----------------------------------------------------------------------------
(* Minima and cardinalities *)

Times == {s \in Int : s >= -MaxAge}

\* A nonempty set of scores holds its minimum: what ZRANGE 0 0 returns.
LEMMA MinOfTimes ==
  ASSUME NEW S \in SUBSET Times, S # {}
  PROVE  Min(S) \in S /\ \A s \in S : Min(S) <= s
<1> DEFINE T == {s + MaxAge : s \in S}
<1>1. T \in SUBSET Nat /\ T # {}
  <2>1. \A s \in S : s \in Int /\ s >= -MaxAge
    BY DEF Times
  <2>2. \A s \in S : s + MaxAge \in Nat
    BY <2>1, CkBoundsAssumption
  <2> QED
    BY <2>2
<1>2. \E x \in T : \A y \in T : <<y, x>> \notin OpToRel(<, Nat)
  BY <1>1, NatLessThanWellFounded, WFMin, Zenon
<1>3. PICK x \in T : \A y \in T : ~(y < x)
  BY <1>1, <1>2 DEF OpToRel
<1>4. PICK m \in S : x = m + MaxAge
  BY <1>3
<1>5. \A s \in S : m <= s
  <2>1. SUFFICES ASSUME NEW s \in S PROVE m <= s
    OBVIOUS
  <2>2. s + MaxAge \in T
    OBVIOUS
  <2>3. ~(s + MaxAge < m + MaxAge)
    BY <1>3, <1>4, <2>2
  <2> QED
    BY <2>3, CkBoundsAssumption DEF Times
<1> QED
  BY <1>5 DEF Min

\* The smaller of two numbers.
LEMMA MinOfTwo ==
  ASSUME NEW a \in Int, NEW b \in Int
  PROVE  Min({a, b}) \in {a, b} /\ Min({a, b}) <= a /\ Min({a, b}) <= b
<1>1. \E x \in {a, b} : \A y \in {a, b} : x <= y
  OBVIOUS
<1> QED
  BY <1>1 DEF Min

\* Absent is no score.
LEMMA AbsentIsNoTime == Absent \notin Int
BY CkRunsAssumption

\* The earliest score of the members in D is a score, attained, and a lower
\* bound; there is none when there are no members.
LEMMA EarliestIsFirst ==
  ASSUME NEW X, NEW zset \in [X -> Scores], NEW D \in SUBSET X
  PROVE  /\ Earliest(zset, D) \in Scores
         /\ Earliest(zset, D) = Absent => \A x \in D : zset[x] = Absent
         /\ Earliest(zset, D) # Absent => \E x \in D : zset[x] = Earliest(zset, D)
         /\ \A x \in D : zset[x] # Absent =>
              Earliest(zset, D) # Absent /\ Earliest(zset, D) <= zset[x]
<1> DEFINE M == {x \in D : zset[x] # Absent}
           S == {zset[x] : x \in M}
<1>1. CASE M = {}
  BY <1>1 DEF Earliest, Scores
<1>2. CASE M # {}
  <2>1. S \in SUBSET Times /\ S # {}
    BY <1>2 DEF Scores, Times
  <2>2. Min(S) \in S /\ \A s \in S : Min(S) <= s
    BY <2>1, MinOfTimes
  <2>3. Earliest(zset, D) = Min(S)
    BY <1>2 DEF Earliest
  <2> HIDE DEF S
  <2>4. Min(S) \in Times /\ Min(S) # Absent
    BY <2>1, <2>2, AbsentIsNoTime DEF Times
  <2>5. \A x \in D : zset[x] # Absent => Min(S) <= zset[x]
    BY <2>2 DEF S
  <2>6. \E x \in D : zset[x] = Min(S)
    BY <2>2 DEF S
  <2> QED
    BY <2>3, <2>4, <2>5, <2>6 DEF Scores, Times
<1> QED
  BY <1>1, <1>2

\* A lower bound that is attained is the earliest score.
LEMMA FirstIsEarliest ==
  ASSUME NEW X, NEW zset \in [X -> Scores], NEW D \in SUBSET X,
         NEW x \in D, zset[x] # Absent,
         \A y \in D : zset[y] # Absent => zset[x] <= zset[y]
  PROVE  Earliest(zset, D) = zset[x]
<1>1. Earliest(zset, D) # Absent /\ Earliest(zset, D) <= zset[x]
  BY EarliestIsFirst
<1>2. PICK y \in D : zset[y] = Earliest(zset, D)
  BY <1>1, EarliestIsFirst
<1>3. zset[x] <= Earliest(zset, D)
  BY <1>1, <1>2
<1> QED
  BY <1>1, <1>2, <1>3 DEF Scores

\* The earliest score depends on the members in D only.
LEMMA EarliestCongruent ==
  ASSUME NEW D, NEW z1, NEW z2, \A x \in D : z1[x] = z2[x]
  PROVE  Earliest(z1, D) = Earliest(z2, D)
<1>1. {x \in D : z1[x] # Absent} = {x \in D : z2[x] # Absent}
  OBVIOUS
<1>2. {z1[x] : x \in {y \in D : z1[y] # Absent}}
        = {z2[x] : x \in {y \in D : z2[y] # Absent}}
  OBVIOUS
<1> QED
  BY <1>1, <1>2 DEF Earliest

\* Sets of runs are finite.
LEMMA RunsAreFinite ==
  ASSUME NEW S \in SUBSET Runs
  PROVE  IsFiniteSet(S) /\ Cardinality(S) \in Nat
BY CkRunsAssumption, FS_Subset, FS_CardinalityType

\* A union has at most as many members as its parts together.
LEMMA UnionBound ==
  ASSUME NEW S \in SUBSET Runs, NEW T \in SUBSET Runs
  PROVE  Cardinality(S \cup T) <= Cardinality(S) + Cardinality(T)
<1>1. /\ IsFiniteSet(S) /\ IsFiniteSet(T)
      /\ Cardinality(S) \in Nat /\ Cardinality(T) \in Nat
      /\ Cardinality(S \cap T) \in Nat
  BY RunsAreFinite
<1>2. Cardinality(S \cup T) = Cardinality(S) + Cardinality(T) - Cardinality(S \cap T)
  BY <1>1, FS_Union
<1> QED
  BY <1>1, <1>2

\* SREM takes away what was there.
LEMMA Removed ==
  ASSUME NEW S \in SUBSET Runs, NEW T \in SUBSET Runs
  PROVE  Cardinality(S \ T) = Cardinality(S) - Cardinality(T \cap S)
<1>1. S \cap T = T \cap S
  OBVIOUS
<1>2. IsFiniteSet(S)
  BY RunsAreFinite
<1>3. Cardinality(S \ T) = Cardinality(S) - Cardinality(S \cap T)
  BY <1>2, FS_Difference
<1> QED
  BY <1>1, <1>3

\* A part has no more members.
LEMMA PartBound ==
  ASSUME NEW S \in SUBSET Runs, NEW T \in SUBSET S
  PROVE  Cardinality(T) <= Cardinality(S)
BY RunsAreFinite, FS_Subset, FS_CardinalityType

\* A part of what fits, fits.
LEMMA PartFits ==
  ASSUME NEW S \in SUBSET Runs, NEW T \in SUBSET S, NEW n \in Nat, Cardinality(S) <= n
  PROVE  Cardinality(T) <= n
<1>1. Cardinality(T) <= Cardinality(S)
  BY PartBound
<1>2. Cardinality(S) \in Nat /\ Cardinality(T) \in Nat
  BY RunsAreFinite
<1> QED  BY <1>1, <1>2

\* SADD of a run.
LEMMA Added ==
  ASSUME NEW S \in SUBSET Runs, NEW r \in Runs
  PROVE  Cardinality(S \cup {r}) = Cardinality(S) + (IF r \in S THEN 0 ELSE 1)
<1>1. IsFiniteSet(S) /\ Cardinality(S) \in Nat
  BY RunsAreFinite
<1>2. CASE r \in S
  <2>1. S \cup {r} = S
    BY <1>2
  <2> QED
    BY <1>1, <1>2, <2>1
<1>3. CASE r \notin S
  BY <1>1, <1>3, FS_AddElement
<1> QED
  BY <1>2, <1>3

-----------------------------------------------------------------------------
(* What a step does to the sorted sets, the slots and the counters *)

\* Where a run can be.  It has one place at most between its queue and its
\* worker, none before it is triggered, while it executes, is suspended or is a
\* dead letter, and its slots agree with that place.
PlaceOk(r) ==
  /\ phase[r] = "New" => message[r] = Absent
  /\ phase[r] \in {"New", "Executing", "Suspended"} \/ r \in deadLetterQueue =>
       queue[r] = Absent /\ workerQueue[r] = 0 /\ r \notin delivered
  /\ r \in deadLetterQueue => phase[r] \in {"Queued", "Finished"}
  /\ queue[r] # Absent => workerQueue[r] = 0 /\ r \notin delivered
  /\ r \in delivered => workerQueue[r] = 0
  /\ workerQueue[r] <= 1
  /\ r \in queueCurrentConcurrency => queue[r] = Absent
  /\ r \in queueCurrentDequeued =>
       /\ message[r] # Absent /\ queue[r] = Absent /\ workerQueue[r] = 0
       /\ r \notin deadLetterQueue /\ phase[r] \notin {"New", "Suspended"}

Places == \A r \in Runs : PlaceOk(r)

StillStep == UNCHANGED <<indexes, slots, counters>>

\* The enqueue scripts, slow path.
EnqueueStep(r, score) ==
  /\ r \notin queueCurrentDequeued
  /\ AddToQueue(r, score)
  /\ CountAdded(r)
  /\ ReleaseSlots({r})
  /\ UNCHANGED runningCounter

\* The fast path.
FastStep(r) ==
  /\ queue[r] = Absent /\ EnvAvailable > 0 /\ VariantAvailable(VariantOf[r]) > 0
  /\ ClaimSlots({r})
  /\ UNCHANGED <<indexes, counters>>

\* The nack script.
RequeueStep(r, score) ==
  /\ AddToQueue(r, score)
  /\ CountReleased({r}) /\ CountAdded(r)
  /\ ReleaseSlots({r})

\* The acknowledge and the dead letter script.
RemoveStep(r) ==
  /\ RemoveFromQueue(r)
  /\ CountReleased({r}) /\ CountRemoved({r})
  /\ ReleaseSlots({r})

\* The dequeue script: one run at most of each variant that has a free slot.
TakeStep(open, taken, claimed) ==
  /\ \A r \in taken : VariantOf[r] \in open /\ queue[r] # Absent
  /\ \A r, s \in taken : VariantOf[r] = VariantOf[s] => r = s
  /\ \A v \in open : VariantAvailable(v) > 0
  /\ claimed \subseteq taken /\ Cardinality(claimed) <= EnvAvailable
  /\ queue' = Zrem(queue, taken) /\ envQueue' = Zrem(envQueue, taken)
  /\ Rebalance(Zrem(queue, taken), open)
  /\ CountRemoved(taken)
  /\ ClaimSlots(claimed)
  /\ UNCHANGED runningCounter

\* dequeueMessageFromKeyTracked.
DeliverStep(r) ==
  /\ queueCurrentDequeued' = queueCurrentDequeued \cup {r}
  /\ envCurrentDequeued' = envCurrentDequeued \cup {r}
  /\ CountDequeued(r)
  /\ UNCHANGED <<queueCurrentConcurrency, envCurrentConcurrency, indexes, lengthCounter>>

\* releaseConcurrencyTracked, of a run that does not wait.
FreeStep(r) ==
  /\ queue[r] = Absent
  /\ ReleaseSlots({r})
  /\ CountReleasedSeeding(r)
  /\ UNCHANGED <<indexes, lengthCounter>>

\* The TTL script.
ExpireStep(batch) ==
  /\ queue' = Zrem(queue, batch) /\ envQueue' = Zrem(envQueue, batch)
  /\ ckIndex' = IndexOf(Zrem(queue, batch), {VariantOf[r] : r \in batch})
  /\ UNCHANGED masterQueue
  /\ CountReleased(batch) /\ CountRemoved(batch)
  /\ ReleaseSlots(batch)

\* A counter expires.
ForgetStep ==
  /\ lengthCounter' \in {lengthCounter, Absent}
  /\ runningCounter' \in {runningCounter, Absent}
  /\ UNCHANGED <<indexes, slots>>

\* Time passes.
AgeStep ==
  /\ queue' = [r \in Runs |-> Aged(queue[r])]
  /\ envQueue' = [r \in Runs |-> Aged(envQueue[r])]
  /\ ckIndex' = [v \in Variants |-> Aged(ckIndex[v])]
  /\ masterQueue' = Aged(masterQueue)
  /\ UNCHANGED <<slots, counters>>

RunShape(r) ==
  \/ FastStep(r) \/ RemoveStep(r) \/ DeliverStep(r) \/ FreeStep(r)
  \/ \E score \in Times : EnqueueStep(r, score) \/ RequeueStep(r, score)

Shape ==
  \/ StillStep \/ ForgetStep \/ AgeStep
  \/ \E r \in Runs : RunShape(r)
  \/ \E open \in SUBSET Variants : \E taken, claimed \in SUBSET Runs :
       TakeStep(open, taken, claimed)
  \/ \E batch \in SUBSET Runs : ExpireStep(batch)

USE DEF indexes, slots, counters

\* The slow path of an enqueue, of a run that is not dequeued.
LEMMA EnqueueSlowShape ==
  ASSUME NEW r \in Runs, NEW msg, EnqueueSlow(r, msg), r \notin queueCurrentDequeued
  PROVE  RunShape(r)
<1>1. PICK score \in -MaxAge..0 : AddToQueue(r, score)
  BY DEF EnqueueSlow
<1>2. score \in Times
  BY CkBoundsAssumption DEF Times
<1>3. EnqueueStep(r, score)
  BY <1>1 DEF EnqueueSlow, EnqueueStep
<1> QED
  BY <1>2, <1>3 DEF RunShape

\* The requeue of a nack.
LEMMA RequeueShape ==
  ASSUME NEW r \in Runs, Requeue(r)
  PROVE  RunShape(r)
<1>1. PICK score \in {0} \cup RetryDelays : AddToQueue(r, score)
  BY DEF Requeue
<1>2. score \in Times
  BY CkBoundsAssumption DEF Times
<1>3. RequeueStep(r, score)
  BY <1>1 DEF Requeue, RequeueStep
<1> QED
  BY <1>2, <1>3 DEF RunShape

\* An acknowledgement, with or without a message.
LEMMA AcknowledgeShape ==
  ASSUME NEW r \in Runs, NEW remove, AcknowledgeMessage(r, remove)
  PROVE  RunShape(r) \/ StillStep
BY DEF AcknowledgeMessage, Acknowledge, RemoveStep, RunShape, StillStep

\* A dead letter.
LEMMA DeadLetterShape ==
  ASSUME NEW r \in Runs, MoveToDeadLetterQueue(r)
  PROVE  RunShape(r)
BY DEF MoveToDeadLetterQueue, RemoveStep, RunShape

\* A failed run is acknowledged, or has been before.
LEMMA SystemFailureShape ==
  ASSUME NEW r \in Runs, SystemFailure(r)
  PROVE  RunShape(r) \/ StillStep
<1>1. StillStep \/ AcknowledgeMessage(r, TRUE)
  BY DEF SystemFailure, StillStep
<1> QED
  BY <1>1, AcknowledgeShape

\* A nack of the engine.
LEMMA TryNackShape ==
  ASSUME NEW r \in Runs, TryNackAndRequeue(r)
  PROVE  RunShape(r) \/ StillStep
<1>1. SystemFailure(r) \/ Requeue(r) \/ MoveToDeadLetterQueue(r)
  BY DEF TryNackAndRequeue
<1> QED
  BY <1>1, SystemFailureShape, RequeueShape, DeadLetterShape

\* A nack of the run queue.
LEMMA NackOnlyShape ==
  ASSUME NEW r \in Runs, NackOnly(r)
  PROVE  RunShape(r) \/ StillStep
<1>1. StillStep \/ Requeue(r) \/ MoveToDeadLetterQueue(r)
  BY DEF NackOnly, StillStep
<1> QED
  BY <1>1, RequeueShape, DeadLetterShape

\* Whatever a handler does to its run has one of the forms.
LEMMA RunStepShape ==
  ASSUME Places, NEW r \in Runs, RunStep(r)
  PROVE  RunShape(r) \/ StillStep
<1> USE DEF Places, PlaceOk
<1>1. CASE Trigger(r)
  <2>1. PICK ttl \in {Absent} \cup TtlDelays, fast \in FastPath :
          IF fast /\ FastPathOpen(VariantOf[r])
          THEN EnqueueFast(r, [attempt |-> 0, ttl |-> ttl])
          ELSE EnqueueSlow(r, [attempt |-> 0, ttl |-> ttl])
    BY <1>1 DEF Trigger
  <2>2. queue[r] = Absent /\ r \notin queueCurrentDequeued
    BY <1>1 DEF Trigger
  <2>3. CASE fast /\ FastPathOpen(VariantOf[r])
    BY <2>1, <2>2, <2>3 DEF EnqueueFast, FastPathOpen, FastStep, RunShape
  <2>4. CASE ~(fast /\ FastPathOpen(VariantOf[r]))
    BY <2>1, <2>2, <2>4, EnqueueSlowShape
  <2> QED  BY <2>3, <2>4
<1>2. CASE Resume(r)
  BY <1>2, EnqueueSlowShape DEF Resume
<1>3. CASE RedriveMessage(r)
  BY <1>3, EnqueueSlowShape DEF RedriveMessage
<1>4. CASE DequeueMessageFromWorkerQueue(r)
  BY <1>4 DEF DequeueMessageFromWorkerQueue, DeliverStep, RunShape, StillStep
<1>5. CASE StartRun(r) \/ CrashBeforeAck(r)
  BY <1>5 DEF StartRun, CrashBeforeAck, StillStep
<1>6. CASE RejectDelivery(r)
  BY <1>6, AcknowledgeShape, SystemFailureShape DEF RejectDelivery
<1>7. CASE Nack(r) \/ NackUndelivered(r)
  BY <1>7, TryNackShape DEF Nack, NackUndelivered
<1>8. CASE WorkerMismatch(r)
  BY <1>8, NackOnlyShape DEF WorkerMismatch
<1>9. CASE CompleteRun(r) \/ CancelRun(r) \/ SweepFinishedRun(r)
  BY <1>9, AcknowledgeShape DEF CompleteRun, CancelRun, SweepFinishedRun
<1>10. CASE Suspend(r)
  BY <1>10 DEF Suspend, FreeStep, RunShape, StillStep
<1> QED
  BY <1>1, <1>2, <1>3, <1>4, <1>5, <1>6, <1>7, <1>8, <1>9, <1>10 DEF RunStep

\* At most one run of a variant is among the heads.
LEMMA HeadsAreSingle ==
  ASSUME NEW open \in SUBSET Variants, NEW taken \in HeadChoices(open)
  PROVE  /\ taken \in SUBSET Runs
         /\ \A r \in taken : VariantOf[r] \in open /\ queue[r] # Absent
         /\ \A r, s \in taken : VariantOf[r] = VariantOf[s] => r = s
<1>1. taken \in SUBSET UNION {DueIn(v) : v \in open}
  BY DEF HeadChoices
<1>2. \A r \in taken : r \in Runs /\ VariantOf[r] \in open /\ r \in DueIn(VariantOf[r])
  BY <1>1 DEF DueIn, RunsOf
<1>3. ASSUME NEW r \in taken, NEW s \in taken, VariantOf[r] = VariantOf[s]
      PROVE  r = s
  <2>1. r \in taken \cap RunsOf(VariantOf[r]) /\ s \in taken \cap RunsOf(VariantOf[r])
    BY <1>2, <1>3 DEF RunsOf
  <2>2. PICK h \in DueIn(VariantOf[r]) : taken \cap RunsOf(VariantOf[r]) = {h}
    BY <1>2 DEF HeadChoices
  <2> QED
    BY <2>1, <2>2
<1> QED
  BY <1>2, <1>3 DEF DueIn

\* The capacity of the environment is a number.
LEMMA CapacityType ==
  /\ (EnvLimit * BurstNum) \div BurstDen \in Nat
  /\ VariantCapacity \in Nat
<1>1. EnvLimit \in Nat /\ BurstNum \in Nat /\ BurstDen \in Nat \ {0} /\ QueueLimit \in Nat
  BY CkBoundsAssumption
<1>2. EnvLimit * BurstNum \in Nat
  BY <1>1
<1>3. \A n \in Nat : n \div BurstDen \in Nat
  BY <1>1
<1> QED
  BY <1>1, <1>2, <1>3 DEF VariantCapacity

\* The dequeue script: which runs it takes, and of which variants.
LEMMA DequeueTakes ==
  ASSUME TypeOK, DequeueMessages
  PROVE  \E open \in SUBSET Variants : \E taken \in SUBSET Runs :
           /\ \A r \in taken : VariantOf[r] \in open /\ queue[r] # Absent
           /\ \A r, s \in taken : VariantOf[r] = VariantOf[s] => r = s
           /\ \A v \in open : VariantAvailable(v) > 0
           /\ Claimable(taken) \subseteq taken
           /\ Cardinality(Claimable(taken)) <= EnvAvailable
           /\ Take(open, taken)
<1> DEFINE n == Min({BatchSize, EnvAvailable})
           due == {v \in Indexed : ckIndex[v] <= 0}
           Open(visited) == {v \in visited : VariantAvailable(v) > 0}
<1>a. PICK scan \in FirstOf(ckIndex, due, n * ScanFactor) :
        \E visited \in UNION {FirstOf(ckIndex, scan, k) : k \in 0..Cardinality(scan)} :
        \E taken \in HeadChoices(Open(visited)) :
          LoopEnds(scan, visited, Claimable(taken), n) /\ Take(Open(visited), taken)
  BY DEF DequeueMessages
<1>2. scan \in SUBSET Variants
  BY DEF FirstOf, Indexed
<1>b. PICK visited \in UNION {FirstOf(ckIndex, scan, k) : k \in 0..Cardinality(scan)} :
        \E taken \in HeadChoices(Open(visited)) :
          LoopEnds(scan, visited, Claimable(taken), n) /\ Take(Open(visited), taken)
  BY <1>a
<1>1. PICK taken \in HeadChoices(Open(visited)) :
        LoopEnds(scan, visited, Claimable(taken), n) /\ Take(Open(visited), taken)
  BY <1>b
<1>3. visited \in SUBSET Variants
  BY <1>2 DEF FirstOf
<1>4. Open(visited) \in SUBSET Variants
  BY <1>3
<1>5. /\ taken \in SUBSET Runs
      /\ \A r \in taken : VariantOf[r] \in Open(visited) /\ queue[r] # Absent
      /\ \A r, s \in taken : VariantOf[r] = VariantOf[s] => r = s
  <2> HIDE DEF Open
  <2> QED  BY <1>1, <1>4, HeadsAreSingle
<1>6. Claimable(taken) \subseteq taken /\ Claimable(taken) \in SUBSET Runs
  BY <1>5 DEF Claimable
<1>7. Cardinality(Claimable(taken)) <= EnvAvailable
  <2>1. Cardinality(Claimable(taken)) \in Nat
    BY <1>6, RunsAreFinite
  <2>2. EnvAvailable \in Int
    BY CapacityType, RunsAreFinite DEF EnvAvailable, TypeOK
  <2>3. BatchSize \in Int
    BY CkBoundsAssumption
  <2>4. n <= EnvAvailable /\ n \in Int
    BY <2>2, <2>3, MinOfTwo
  <2> HIDE DEF n
  <2>5. Cardinality(Claimable(taken)) <= n
    BY <1>1, <2>1, <2>4 DEF LoopEnds
  <2> QED
    BY <2>1, <2>2, <2>4, <2>5
<1>8. \A v \in Open(visited) : VariantAvailable(v) > 0
  OBVIOUS
<1>9. Take(Open(visited), taken)
  BY <1>1
<1> HIDE DEF Open
<1> QED
  BY <1>4, <1>5, <1>6, <1>7, <1>8, <1>9

\* Every step has one of the forms.
LEMMA Shapes ==
  ASSUME TypeOK, Places, [Next]_vars
  PROVE  Shape
<1>1. CASE \E r \in Runs : RunStep(r)
  BY <1>1, RunStepShape DEF Shape
<1>2. CASE DequeueMessages
  <2>1. PICK open \in SUBSET Variants, taken \in SUBSET Runs :
           /\ \A r \in taken : VariantOf[r] \in open /\ queue[r] # Absent
           /\ \A r, s \in taken : VariantOf[r] = VariantOf[s] => r = s
           /\ \A v \in open : VariantAvailable(v) > 0
           /\ Claimable(taken) \subseteq taken
           /\ Cardinality(Claimable(taken)) <= EnvAvailable
           /\ Take(open, taken)
    BY <1>2, DequeueTakes
  <2>2. TakeStep(open, taken, Claimable(taken))
    BY <2>1 DEF Take, TakeStep
  <2>3. Claimable(taken) \in SUBSET Runs
    BY <2>1
  <2> QED  BY <2>2, <2>3 DEF Shape
<1>3. CASE ExpireTtlRuns
  <2>1. PICK batch \in SUBSET Runs : ExpireStep(batch)
    BY <1>3 DEF ExpireTtlRuns, FirstOf, ExpireStep
  <2> QED  BY <2>1 DEF Shape
<1>4. CASE ExpireCounter
  BY <1>4 DEF ExpireCounter, ForgetStep, Shape
<1>5. CASE Tick
  BY <1>5 DEF Tick, AgeStep, Shape
<1>6. CASE UNCHANGED vars
  BY <1>6 DEF vars, StillStep, Shape
<1> QED
  BY <1>1, <1>2, <1>3, <1>4, <1>5, <1>6 DEF Next

-----------------------------------------------------------------------------
(* Types *)

StoreTypes ==
  /\ queue \in [Runs -> Scores] /\ envQueue \in [Runs -> Scores]
  /\ ckIndex \in [Variants -> Scores] /\ masterQueue \in Scores
  /\ queueCurrentConcurrency \in SUBSET Runs
  /\ envCurrentConcurrency \in SUBSET Runs
  /\ queueCurrentDequeued \in SUBSET Runs
  /\ envCurrentDequeued \in SUBSET Runs
  /\ lengthCounter \in Nat \cup {Absent}
  /\ runningCounter \in Nat \cup {Absent}

RunTypes ==
  /\ message \in [Runs -> Message \cup {Absent}]
  /\ workerQueue \in [Runs -> Nat]
  /\ ttlQueue \in [Runs -> Scores]
  /\ deadLetterQueue \in SUBSET Runs /\ delivered \in SUBSET Runs
  /\ phase \in [Runs -> Phases]

\* The rebalanced index has scores.
LEMMA IndexTypes ==
  ASSUME NEW zset \in [Runs -> Scores], NEW variants,
         ckIndex \in [Variants -> Scores]
  PROVE  /\ IndexOf(zset, variants) \in [Variants -> Scores]
         /\ Earliest(IndexOf(zset, variants), Variants) \in Scores
<1>1. \A v \in Variants : Earliest(zset, RunsOf(v)) \in Scores
  <2> TAKE v \in Variants
  <2>1. RunsOf(v) \in SUBSET Runs
    BY DEF RunsOf
  <2> QED
    BY <2>1, EarliestIsFirst
<1>2. IndexOf(zset, variants) \in [Variants -> Scores]
  BY <1>1 DEF IndexOf
<1> QED
  BY <1>2, EarliestIsFirst

\* A counter stays a number or absent.
LEMMA FlooredType ==
  ASSUME NEW counter \in Nat \cup {Absent}, NEW k \in Nat
  PROVE  Floored(counter, k) \in Nat \cup {Absent}
BY AbsentIsNoTime DEF Floored

LEMMA CounterTypes ==
  ASSUME StoreTypes
  PROVE  /\ LengthSeed \in Nat
         /\ \A S \in SUBSET Runs :
              /\ Cardinality(S \cap Waiting) \in Nat
              /\ Cardinality(S \cap queueCurrentDequeued) \in Nat
              /\ CountRemoved(S) => lengthCounter' \in Nat \cup {Absent}
              /\ CountReleased(S) => runningCounter' \in Nat \cup {Absent}
         /\ \A r \in Runs :
              /\ CountAdded(r) => lengthCounter' \in Nat
              /\ CountReleasedSeeding(r) => runningCounter' \in Nat
              /\ CountDequeued(r) => runningCounter' \in Nat \cup {Absent}
<1>1. LengthSeed \in Nat
  <2>1. {r \in Waiting : VariantOf[r] \in Indexed} \in SUBSET Runs
    BY DEF Waiting
  <2> QED  BY <2>1, RunsAreFinite DEF LengthSeed
<1>2. ASSUME NEW S \in SUBSET Runs
      PROVE  /\ Cardinality(S \cap Waiting) \in Nat
             /\ Cardinality(S \cap queueCurrentDequeued) \in Nat
  BY RunsAreFinite DEF StoreTypes
<1>3. ASSUME NEW S \in SUBSET Runs
      PROVE  /\ CountRemoved(S) => lengthCounter' \in Nat \cup {Absent}
             /\ CountReleased(S) => runningCounter' \in Nat \cup {Absent}
  BY <1>2, FlooredType DEF CountRemoved, CountReleased, StoreTypes
<1>4. ASSUME NEW r \in Runs, CountAdded(r) PROVE lengthCounter' \in Nat
  <2> DEFINE base == IF lengthCounter = Absent THEN LengthSeed ELSE lengthCounter
             more == IF queue[r] = Absent THEN 1 ELSE 0
  <2>1. base \in Nat /\ more \in Nat
    BY <1>1 DEF StoreTypes
  <2>2. lengthCounter' = base + more
    BY <1>4 DEF CountAdded
  <2> QED  BY <2>1, <2>2
<1>5. ASSUME NEW r \in Runs, CountReleasedSeeding(r) PROVE runningCounter' \in Nat
  <2> DEFINE seed == Cardinality({s \in queueCurrentDequeued : VariantOf[s] \in Indexed})
             base == IF runningCounter = Absent THEN seed ELSE runningCounter
  <2>1. seed \in Nat /\ Cardinality({r} \cap queueCurrentDequeued) \in Nat
    <3>1. {s \in queueCurrentDequeued : VariantOf[s] \in Indexed} \in SUBSET Runs
      BY DEF StoreTypes
    <3> QED  BY <3>1, <1>2, RunsAreFinite
  <2>2. base \in Nat
    BY <2>1 DEF StoreTypes
  <2>3. base # Absent
    BY <2>2, AbsentIsNoTime
  <2>4. runningCounter' = Floored(base, Cardinality({r} \cap queueCurrentDequeued))
    BY <1>5 DEF CountReleasedSeeding
  <2> HIDE DEF seed, base
  <2> QED  BY <2>1, <2>2, <2>3, <2>4 DEF Floored
<1>6. ASSUME NEW r \in Runs, CountDequeued(r)
      PROVE  runningCounter' \in Nat \cup {Absent}
  <2>1. SeenDequeued(r) \in SUBSET Runs
    BY DEF SeenDequeued, StoreTypes
  <2>2. Cardinality(SeenDequeued(r)) \in Nat
    BY <2>1, RunsAreFinite
  <2> QED  BY <1>6, <2>2 DEF CountDequeued, StoreTypes
<1> QED
  BY <1>1, <1>2, <1>3, <1>4, <1>5, <1>6

\* Time keeps scores.
LEMMA AgedType ==
  ASSUME NEW score \in Scores
  PROVE  Aged(score) \in Scores
BY CkBoundsAssumption DEF Aged, Scores

LEMMA AddTypes ==
  ASSUME StoreTypes, NEW r \in Runs, NEW score \in Times, AddToQueue(r, score)
  PROVE  /\ queue' \in [Runs -> Scores] /\ envQueue' \in [Runs -> Scores]
         /\ ckIndex' \in [Variants -> Scores] /\ masterQueue' \in Scores
<1>1. /\ [queue EXCEPT ![r] = score] \in [Runs -> Scores]
      /\ [envQueue EXCEPT ![r] = score] \in [Runs -> Scores]
  BY DEF StoreTypes, Scores, Times
<1> QED
  BY <1>1, IndexTypes DEF AddToQueue, Rebalance, StoreTypes

LEMMA ZremTypes ==
  ASSUME NEW zset \in [Runs -> Scores], NEW S
  PROVE  Zrem(zset, S) \in [Runs -> Scores]
BY DEF Zrem, Scores

LEMMA RebalanceTypes ==
  ASSUME StoreTypes, NEW zset \in [Runs -> Scores], NEW variants, Rebalance(zset, variants)
  PROVE  ckIndex' \in [Variants -> Scores] /\ masterQueue' \in Scores
BY IndexTypes DEF Rebalance, StoreTypes

\* Every form keeps the types of the sorted sets, the slots and the counters.
LEMMA StoreTypesStep ==
  ASSUME StoreTypes, Shape
  PROVE  StoreTypes'
<1>1. CASE StillStep
  BY <1>1 DEF StillStep, StoreTypes
<1>2. CASE ForgetStep
  BY <1>2 DEF ForgetStep, StoreTypes
<1>3. CASE AgeStep
  <2>1. /\ queue' \in [Runs -> Scores] /\ envQueue' \in [Runs -> Scores]
        /\ ckIndex' \in [Variants -> Scores] /\ masterQueue' \in Scores
    BY <1>3, AgedType DEF AgeStep, StoreTypes
  <2> QED  BY <1>3, <2>1 DEF AgeStep, StoreTypes
<1>4. ASSUME NEW r \in Runs, RunShape(r) PROVE StoreTypes'
  <2>1. CASE FastStep(r)
    BY <2>1 DEF FastStep, ClaimSlots, StoreTypes
  <2>2. CASE RemoveStep(r)
    <3>1. /\ queue' \in [Runs -> Scores] /\ envQueue' \in [Runs -> Scores]
          /\ ckIndex' \in [Variants -> Scores] /\ masterQueue' \in Scores
      BY <2>2, ZremTypes, RebalanceTypes DEF RemoveStep, RemoveFromQueue, StoreTypes
    <3> QED
      BY <2>2, <3>1, CounterTypes DEF RemoveStep, ReleaseSlots, StoreTypes
  <2>3. CASE DeliverStep(r)
    BY <2>3, CounterTypes DEF DeliverStep, StoreTypes
  <2>4. CASE FreeStep(r)
    BY <2>4, CounterTypes DEF FreeStep, ReleaseSlots, StoreTypes
  <2>5. ASSUME NEW score \in Times, EnqueueStep(r, score) PROVE StoreTypes'
    BY <2>5, AddTypes, CounterTypes DEF EnqueueStep, ReleaseSlots, StoreTypes
  <2>6. ASSUME NEW score \in Times, RequeueStep(r, score) PROVE StoreTypes'
    <3>1. /\ queue' \in [Runs -> Scores] /\ envQueue' \in [Runs -> Scores]
          /\ ckIndex' \in [Variants -> Scores] /\ masterQueue' \in Scores
      BY <2>6, AddTypes DEF RequeueStep
    <3>2. lengthCounter' \in Nat /\ runningCounter' \in Nat \cup {Absent}
      BY <2>6, CounterTypes DEF RequeueStep
    <3> QED
      BY <2>6, <3>1, <3>2 DEF RequeueStep, ReleaseSlots, StoreTypes
  <2> QED
    BY <1>4, <2>1, <2>2, <2>3, <2>4, <2>5, <2>6 DEF RunShape
<1>5. ASSUME NEW open \in SUBSET Variants, NEW taken \in SUBSET Runs,
             NEW claimed \in SUBSET Runs, TakeStep(open, taken, claimed)
      PROVE  StoreTypes'
  <2>1. /\ queue' \in [Runs -> Scores] /\ envQueue' \in [Runs -> Scores]
        /\ ckIndex' \in [Variants -> Scores] /\ masterQueue' \in Scores
    BY <1>5, ZremTypes, RebalanceTypes DEF TakeStep, StoreTypes
  <2> QED
    BY <1>5, <2>1, CounterTypes DEF TakeStep, ClaimSlots, StoreTypes
<1>6. ASSUME NEW batch \in SUBSET Runs, ExpireStep(batch) PROVE StoreTypes'
  <2>1. /\ queue' \in [Runs -> Scores] /\ envQueue' \in [Runs -> Scores]
        /\ ckIndex' \in [Variants -> Scores]
    BY <1>6, ZremTypes, IndexTypes DEF ExpireStep, StoreTypes
  <2> QED
    BY <1>6, <2>1, CounterTypes DEF ExpireStep, ReleaseSlots, StoreTypes
<1> QED
  BY <1>1, <1>2, <1>3, <1>4, <1>5, <1>6 DEF Shape

\* Messages that the handlers write.
LEMMA MessageTypes ==
  /\ \A ttl \in {Absent} \cup TtlDelays : [attempt |-> 0, ttl |-> ttl] \in Message
  /\ \A m \in Message :
       /\ m.ttl \in Scores
       /\ [m EXCEPT !.attempt = 0] \in Message
       /\ m.attempt + 1 < MaxAttempts => [m EXCEPT !.attempt = m.attempt + 1] \in Message
       /\ [m EXCEPT !.ttl = Aged(m.ttl)] \in Message
<1>1. MaxAttempts \in Nat \ {0} /\ TtlDelays \subseteq Nat /\ MaxAge \in Nat
  BY CkBoundsAssumption
<1>2. ASSUME NEW m \in Message
      PROVE  m.ttl \in Scores /\ Aged(m.ttl) \in Scores
  BY AgedType DEF Message
<1> QED
  BY <1>1, <1>2 DEF Message, Scores

LEMMA MessageIsPresent == Absent \notin Message
<1>1. \A m \in Message : m \in [attempt : Nat, ttl : Int \cup {Absent}]
  BY CkBoundsAssumption DEF Message, Scores
<1> QED
  BY <1>1, CkRunsAssumption

\* What the scripts do to messages and worker queue entries.
LEMMA EnqueueSlowTypes ==
  ASSUME RunTypes, NEW r \in Runs, NEW msg \in Message, EnqueueSlow(r, msg)
  PROVE  /\ message' \in [Runs -> Message \cup {Absent}]
         /\ workerQueue' \in [Runs -> Nat] /\ ttlQueue' \in [Runs -> Scores]
BY MessageTypes DEF EnqueueSlow, RunTypes

LEMMA PushTypes ==
  ASSUME RunTypes, NEW S, PushEntries(S)
  PROVE  workerQueue' \in [Runs -> Nat]
BY DEF PushEntries, RunTypes

LEMMA RequeueTypes ==
  ASSUME RunTypes, NEW r \in Runs, message[r] # Absent, AttemptsLeft(r), Requeue(r)
  PROVE  message' \in [Runs -> Message \cup {Absent}]
<1>1. message[r] \in Message /\ message[r].attempt + 1 < MaxAttempts
  BY DEF RunTypes, AttemptsLeft
<1>2. [message[r] EXCEPT !.attempt = message[r].attempt + 1] \in Message
  BY <1>1, MessageTypes
<1>3. message' = [message EXCEPT ![r] = [message[r] EXCEPT !.attempt = message[r].attempt + 1]]
  BY DEF Requeue
<1> QED
  BY <1>2, <1>3 DEF RunTypes

LEMMA AcknowledgeTypes ==
  ASSUME RunTypes, NEW r \in Runs, NEW remove \in BOOLEAN, AcknowledgeMessage(r, remove)
  PROVE  /\ message' \in [Runs -> Message \cup {Absent}]
         /\ workerQueue' \in [Runs -> Nat]
BY DEF AcknowledgeMessage, Acknowledge, RunTypes

LEMMA SystemFailureTypes ==
  ASSUME RunTypes, NEW r \in Runs, SystemFailure(r)
  PROVE  /\ message' \in [Runs -> Message \cup {Absent}]
         /\ workerQueue' \in [Runs -> Nat]
         /\ phase' \in [Runs -> Phases]
<1>1. CASE phase[r] = "Finished"
  BY <1>1 DEF SystemFailure, RunTypes
<1>2. CASE phase[r] # "Finished"
  <2>1. AcknowledgeMessage(r, TRUE)
    BY <1>2 DEF SystemFailure
  <2>2. phase' \in [Runs -> Phases]
    BY <1>2 DEF SystemFailure, SetPhase, RunTypes, Phases
  <2> QED  BY <2>1, <2>2, AcknowledgeTypes
<1> QED  BY <1>1, <1>2

LEMMA TryNackTypes ==
  ASSUME RunTypes, NEW r \in Runs, TryNackAndRequeue(r)
  PROVE  /\ message' \in [Runs -> Message \cup {Absent}]
         /\ workerQueue' \in [Runs -> Nat]
         /\ phase' \in [Runs -> Phases]
         /\ deadLetterQueue' \in SUBSET Runs
<1>1. CASE message[r] = Absent /\ SystemFailure(r) /\ UNCHANGED deadLetterQueue
  BY <1>1, SystemFailureTypes DEF RunTypes
<1>2. CASE /\ message[r] # Absent /\ AttemptsLeft(r)
           /\ Requeue(r)
           /\ SetPhase(r, "Queued")
           /\ UNCHANGED <<workerQueue, deadLetterQueue>>
  BY <1>2, RequeueTypes DEF RunTypes, SetPhase, Phases
<1>3. CASE /\ MoveToDeadLetterQueue(r)
           /\ IF phase[r] = "Finished" THEN UNCHANGED <<message, workerQueue>>
              ELSE /\ message' = [message EXCEPT ![r] = Absent]
                   /\ workerQueue' = [workerQueue EXCEPT ![r] = 0]
           /\ SetPhase(r, "Finished")
  BY <1>3 DEF RunTypes, SetPhase, Phases, MoveToDeadLetterQueue
<1> QED
  BY <1>1, <1>2, <1>3 DEF TryNackAndRequeue

LEMMA NackOnlyTypes ==
  ASSUME RunTypes, NEW r \in Runs, NackOnly(r)
  PROVE  /\ message' \in [Runs -> Message \cup {Absent}]
         /\ deadLetterQueue' \in SUBSET Runs
<1>1. CASE message[r] # Absent /\ AttemptsLeft(r) /\ Requeue(r) /\ UNCHANGED deadLetterQueue
  BY <1>1, RequeueTypes DEF RunTypes
<1>2. CASE MoveToDeadLetterQueue(r) /\ UNCHANGED message
  BY <1>2 DEF MoveToDeadLetterQueue, RunTypes
<1>3. CASE UNCHANGED <<message, deadLetterQueue>>
  BY <1>3 DEF RunTypes
<1> QED
  BY <1>1, <1>2, <1>3 DEF NackOnly

\* Every action keeps the types of what belongs to single runs.
LEMMA RunTypesStep ==
  ASSUME RunTypes, [Next]_vars
  PROVE  RunTypes'
<1> USE DEF SetPhase, Phases
<1>1. ASSUME NEW r \in Runs, RunStep(r) PROVE RunTypes'
  <2>1. CASE Trigger(r)
    <3>1. PICK ttl \in {Absent} \cup TtlDelays, fast \in FastPath :
            \/ EnqueueFast(r, [attempt |-> 0, ttl |-> ttl])
            \/ EnqueueSlow(r, [attempt |-> 0, ttl |-> ttl])
      BY <2>1 DEF Trigger
    <3>2. [attempt |-> 0, ttl |-> ttl] \in Message
      BY MessageTypes
    <3>3. /\ message' \in [Runs -> Message \cup {Absent}]
          /\ workerQueue' \in [Runs -> Nat] /\ ttlQueue' \in [Runs -> Scores]
      BY <3>1, <3>2, EnqueueSlowTypes, PushTypes DEF EnqueueFast, RunTypes
    <3> QED  BY <2>1, <3>3 DEF Trigger, RunTypes
  <2>2. CASE Resume(r)
    <3>1. [attempt |-> 0, ttl |-> Absent] \in Message
      BY MessageTypes
    <3> QED  BY <2>2, <3>1, EnqueueSlowTypes DEF Resume, RunTypes
  <2>3. CASE RedriveMessage(r)
    <3>1. [message[r] EXCEPT !.attempt = 0] \in Message
      BY <2>3, MessageTypes DEF RedriveMessage, RunTypes
    <3> QED  BY <2>3, <3>1, EnqueueSlowTypes DEF RedriveMessage, RunTypes
  <2>4. CASE DequeueMessageFromWorkerQueue(r)
    <3>1. workerQueue' \in [Runs -> Nat]
      BY <2>4 DEF DequeueMessageFromWorkerQueue, RunTypes
    <3> QED  BY <2>4, <3>1 DEF DequeueMessageFromWorkerQueue, RunTypes
  <2>5. CASE StartRun(r) \/ CrashBeforeAck(r)
    BY <2>5 DEF StartRun, CrashBeforeAck, RunTypes
  <2>6. CASE RejectDelivery(r)
    <3>1. CASE AcknowledgeMessage(r, FALSE) /\ UNCHANGED phase
      BY <2>6, <3>1, AcknowledgeTypes DEF RejectDelivery, RunTypes
    <3>2. CASE SystemFailure(r)
      BY <2>6, <3>2, SystemFailureTypes DEF RejectDelivery, RunTypes
    <3> QED  BY <2>6, <3>1, <3>2 DEF RejectDelivery
  <2>7. CASE Nack(r)
    BY <2>7, TryNackTypes DEF Nack, RunTypes
  <2>8. CASE NackUndelivered(r)
    BY <2>8, TryNackTypes DEF NackUndelivered, RunTypes
  <2>9. CASE WorkerMismatch(r)
    BY <2>9, NackOnlyTypes DEF WorkerMismatch, RunTypes
  <2>10. CASE CompleteRun(r)
    BY <2>10, AcknowledgeTypes DEF CompleteRun, RunTypes
  <2>11. CASE CancelRun(r)
    BY <2>11, AcknowledgeTypes DEF CancelRun, RunTypes
  <2>12. CASE Suspend(r)
    BY <2>12 DEF Suspend, RunTypes
  <2>13. CASE SweepFinishedRun(r)
    BY <2>13, AcknowledgeTypes DEF SweepFinishedRun, RunTypes
  <2> QED
    BY <1>1, <2>1, <2>2, <2>3, <2>4, <2>5, <2>6, <2>7, <2>8, <2>9, <2>10, <2>11,
       <2>12, <2>13 DEF RunStep
<1>2. CASE DequeueMessages
  <2>1. PICK open, taken : Take(open, taken)
    BY <1>2 DEF DequeueMessages
  <2> QED
    BY <2>1, ZremTypes, PushTypes DEF Take, RunTypes
<1>3. CASE ExpireTtlRuns
  <2>1. PICK batch :
          /\ ttlQueue' = Zrem(ttlQueue, batch)
          /\ message' = [r \in Runs |-> IF r \in batch THEN Absent ELSE message[r]]
          /\ phase' = [r \in Runs |-> IF r \in batch /\ phase[r] = "Queued"
                                      THEN "Finished" ELSE phase[r]]
    BY <1>3 DEF ExpireTtlRuns
  <2> QED
    BY <1>3, <2>1, ZremTypes DEF ExpireTtlRuns, RunTypes
<1>4. CASE ExpireCounter
  BY <1>4 DEF ExpireCounter, RunTypes
<1>5. CASE Tick
  <2>1. \A r \in Runs : message[r] # Absent =>
          [message[r] EXCEPT !.ttl = Aged(message[r].ttl)] \in Message
    BY MessageTypes DEF RunTypes
  <2>2. message' \in [Runs -> Message \cup {Absent}]
    BY <1>5, <2>1 DEF Tick
  <2>3. ttlQueue' \in [Runs -> Scores]
    BY <1>5, AgedType DEF Tick, RunTypes
  <2> QED  BY <1>5, <2>2, <2>3 DEF Tick, RunTypes
<1>6. CASE UNCHANGED vars
  BY <1>6 DEF vars, RunTypes
<1> QED
  BY <1>1, <1>2, <1>3, <1>4, <1>5, <1>6 DEF Next

-----------------------------------------------------------------------------
(* Every run has one place at most *)

\* A step leaves a run alone.
SameAt(r) ==
  /\ message'[r] = message[r] /\ queue'[r] = queue[r]
  /\ workerQueue'[r] = workerQueue[r] /\ phase'[r] = phase[r]
  /\ r \in delivered' <=> r \in delivered
  /\ r \in deadLetterQueue' <=> r \in deadLetterQueue
  /\ r \in queueCurrentConcurrency' <=> r \in queueCurrentConcurrency
  /\ r \in queueCurrentDequeued' <=> r \in queueCurrentDequeued

LEMMA SamePlace ==
  ASSUME NEW r, PlaceOk(r), SameAt(r)
  PROVE  PlaceOk(r)'
BY DEF PlaceOk, SameAt

\* The scripts touch the run they are called for.
Touches(r) == \A s \in Runs \ {r} :
  /\ message'[s] = message[s] /\ queue'[s] = queue[s]
  /\ workerQueue'[s] = workerQueue[s]
  /\ s \in queueCurrentConcurrency' <=> s \in queueCurrentConcurrency
  /\ s \in queueCurrentDequeued' <=> s \in queueCurrentDequeued

LEMMA EnqueueSlowTouches ==
  ASSUME TypeOK, NEW r \in Runs, NEW msg, EnqueueSlow(r, msg)
  PROVE  /\ Touches(r)
         /\ message'[r] = msg /\ queue'[r] # Absent
         /\ workerQueue'[r] = workerQueue[r]
         /\ r \notin queueCurrentConcurrency' /\ r \notin queueCurrentDequeued'
BY CkBoundsAssumption, AbsentIsNoTime
   DEF EnqueueSlow, AddToQueue, ReleaseSlots, Touches, TypeOK

LEMMA RequeueTouches ==
  ASSUME TypeOK, NEW r \in Runs, message[r] # Absent, AttemptsLeft(r), Requeue(r),
         UNCHANGED workerQueue
  PROVE  /\ Touches(r)
         /\ message'[r] # Absent /\ queue'[r] # Absent
         /\ r \notin queueCurrentConcurrency' /\ r \notin queueCurrentDequeued'
<1>1. PICK score \in {0} \cup RetryDelays : AddToQueue(r, score)
  BY DEF Requeue
<1>2. score # Absent
  BY CkBoundsAssumption, AbsentIsNoTime
<1>3. /\ message' = [message EXCEPT ![r] = [message[r] EXCEPT !.attempt = message[r].attempt + 1]]
      /\ queue' = [queue EXCEPT ![r] = score]
      /\ queueCurrentConcurrency' = queueCurrentConcurrency \ {r}
      /\ queueCurrentDequeued' = queueCurrentDequeued \ {r}
  BY <1>1 DEF Requeue, AddToQueue, ReleaseSlots
<1>4. [message[r] EXCEPT !.attempt = message[r].attempt + 1] # Absent
  BY MessageTypes, MessageIsPresent DEF TypeOK, AttemptsLeft
<1> QED
  BY <1>2, <1>3, <1>4 DEF Touches, TypeOK

LEMMA AcknowledgeTouches ==
  ASSUME TypeOK, NEW r \in Runs, NEW remove \in BOOLEAN, AcknowledgeMessage(r, remove)
  PROVE  /\ Touches(r)
         /\ message'[r] = Absent
         /\ queue'[r] \in {queue[r], Absent}
         /\ workerQueue'[r] \in {workerQueue[r], 0}
         /\ message[r] # Absent => /\ r \notin queueCurrentConcurrency'
                                   /\ r \notin queueCurrentDequeued'
         /\ r \in queueCurrentConcurrency' => r \in queueCurrentConcurrency
         /\ r \in queueCurrentDequeued' => r \in queueCurrentDequeued
BY DEF AcknowledgeMessage, Acknowledge, RemoveFromQueue, Zrem, ReleaseSlots, Touches, TypeOK

LEMMA DeadLetterTouches ==
  ASSUME TypeOK, NEW r \in Runs, MoveToDeadLetterQueue(r)
  PROVE  /\ \A s \in Runs \ {r} :
              /\ queue'[s] = queue[s]
              /\ s \in queueCurrentConcurrency' <=> s \in queueCurrentConcurrency
              /\ s \in queueCurrentDequeued' <=> s \in queueCurrentDequeued
         /\ queue'[r] = Absent
         /\ r \notin queueCurrentConcurrency' /\ r \notin queueCurrentDequeued'
BY DEF MoveToDeadLetterQueue, RemoveFromQueue, Zrem, ReleaseSlots, TypeOK

\* A run that fails is nowhere but perhaps in a worker's hands.
LEMMA SystemFailureTouches ==
  ASSUME TypeOK, NEW r \in Runs, PlaceOk(r), SystemFailure(r)
  PROVE  /\ Touches(r)
         /\ phase' = [phase EXCEPT ![r] = "Finished"]
         /\ message'[r] \in {message[r], Absent}
         /\ queue'[r] \in {queue[r], Absent}
         /\ workerQueue'[r] \in {workerQueue[r], 0}
         /\ r \in queueCurrentConcurrency' => r \in queueCurrentConcurrency
         /\ r \in queueCurrentDequeued' => r \in queueCurrentDequeued /\ message'[r] # Absent
<1>1. CASE phase[r] = "Finished"
  BY <1>1 DEF SystemFailure, Touches, TypeOK, PlaceOk
<1>2. CASE phase[r] # "Finished"
  BY <1>2, AcknowledgeTouches DEF SystemFailure, SetPhase, PlaceOk
<1> QED  BY <1>1, <1>2

\* A run that is acknowledged when it finished: it may be a dead letter, or in
\* the hands of a worker, but waits nowhere that it was not.
LEMMA FinishPlace ==
  ASSUME TypeOK, NEW r \in Runs, PlaceOk(r), NEW remove \in BOOLEAN,
         AcknowledgeMessage(r, remove), phase[r] # "New",
         phase' = [phase EXCEPT ![r] = "Finished"], UNCHANGED <<deadLetterQueue, delivered>>
  PROVE  PlaceOk(r)' /\ \A s \in Runs \ {r} : SameAt(s)
<1>1. /\ Touches(r)
      /\ message'[r] = Absent
      /\ queue'[r] \in {queue[r], Absent}
      /\ workerQueue'[r] \in {workerQueue[r], 0}
      /\ message[r] # Absent => /\ r \notin queueCurrentConcurrency'
                                /\ r \notin queueCurrentDequeued'
      /\ r \in queueCurrentConcurrency' => r \in queueCurrentConcurrency
      /\ r \in queueCurrentDequeued' => r \in queueCurrentDequeued
  BY AcknowledgeTouches
<1>2. phase'[r] = "Finished" /\ \A s \in Runs \ {r} : phase'[s] = phase[s]
  BY DEF TypeOK
<1>3. \A s \in Runs \ {r} : SameAt(s)
  BY <1>1, <1>2 DEF Touches, SameAt
<1>4. r \notin queueCurrentDequeued'
  BY <1>1 DEF PlaceOk
<1>5. workerQueue[r] \in Nat
  BY DEF TypeOK
<1>6. PlaceOk(r)'
  BY <1>1, <1>2, <1>4, <1>5 DEF PlaceOk
<1> QED  BY <1>3, <1>6

\* A nack of a run that is at its worker: it waits again, is a dead letter, or
\* had no message any more.
LEMMA TryNackPlace ==
  ASSUME TypeOK, NEW r \in Runs, PlaceOk(r), TryNackAndRequeue(r),
         queue[r] = Absent, workerQueue[r] = 0, r \notin deadLetterQueue,
         r \notin delivered', \A s \in Runs \ {r} : s \in delivered' <=> s \in delivered
  PROVE  PlaceOk(r)' /\ \A s \in Runs \ {r} : SameAt(s)
<1>1. CASE message[r] = Absent /\ SystemFailure(r) /\ UNCHANGED deadLetterQueue
  BY <1>1, SystemFailureTouches DEF PlaceOk, Touches, SameAt, TypeOK
<1>2. CASE /\ message[r] # Absent /\ AttemptsLeft(r)
           /\ Requeue(r)
           /\ SetPhase(r, "Queued")
           /\ UNCHANGED <<workerQueue, deadLetterQueue>>
  BY <1>2, RequeueTouches DEF PlaceOk, Touches, SameAt, SetPhase, TypeOK
<1>3. CASE /\ MoveToDeadLetterQueue(r)
           /\ IF phase[r] = "Finished" THEN UNCHANGED <<message, workerQueue>>
              ELSE /\ message' = [message EXCEPT ![r] = Absent]
                   /\ workerQueue' = [workerQueue EXCEPT ![r] = 0]
           /\ SetPhase(r, "Finished")
  <2>1. deadLetterQueue' = deadLetterQueue \cup {r}
    BY <1>3 DEF MoveToDeadLetterQueue
  <2> QED
    BY <1>3, <2>1, DeadLetterTouches DEF PlaceOk, SameAt, SetPhase, TypeOK
<1> QED
  BY <1>1, <1>2, <1>3 DEF TryNackAndRequeue

\* A handler keeps its run in one place, and leaves the others where they are.
LEMMA RunStepPlace ==
  ASSUME TypeOK, NEW r \in Runs, PlaceOk(r), RunStep(r)
  PROVE  PlaceOk(r)' /\ \A s \in Runs \ {r} : SameAt(s)
<1> USE DEF PlaceOk, SameAt, Touches, SetPhase
<1>1. CASE Trigger(r)
  <2>1. PICK ttl \in {Absent} \cup TtlDelays, fast \in FastPath :
          \/ EnqueueFast(r, [attempt |-> 0, ttl |-> ttl])
          \/ EnqueueSlow(r, [attempt |-> 0, ttl |-> ttl])
    BY <1>1 DEF Trigger
  <2>2. [attempt |-> 0, ttl |-> ttl] # Absent
    BY MessageTypes, MessageIsPresent
  <2>3. /\ phase[r] = "New" /\ phase' = [phase EXCEPT ![r] = "Queued"]
        /\ UNCHANGED <<deadLetterQueue, delivered>>
    BY <1>1 DEF Trigger
  <2> DEFINE msg == [attempt |-> 0, ttl |-> ttl]
  <2>4. CASE EnqueueFast(r, msg)
    <3> HIDE DEF msg
    <3>1. /\ message' = [message EXCEPT ![r] = msg] /\ UNCHANGED queue
          /\ workerQueue' = [s \in Runs |-> workerQueue[s] + (IF s \in {r} THEN 1 ELSE 0)]
          /\ queueCurrentConcurrency' = queueCurrentConcurrency \cup {r}
          /\ UNCHANGED queueCurrentDequeued
      BY <2>4 DEF EnqueueFast, PushEntries, ClaimSlots
    <3> QED  BY <2>3, <3>1 DEF TypeOK
  <2>5. CASE EnqueueSlow(r, msg)
    <3>1. msg # Absent
      BY <2>2
    <3> HIDE DEF msg
    <3> QED  BY <2>3, <2>5, <3>1, EnqueueSlowTouches DEF TypeOK
  <2> QED  BY <2>1, <2>4, <2>5
<1>2. CASE Resume(r)
  BY <1>2, EnqueueSlowTouches DEF Resume, TypeOK
<1>3. CASE RedriveMessage(r)
  BY <1>3, EnqueueSlowTouches DEF RedriveMessage, TypeOK
<1>4. CASE DequeueMessageFromWorkerQueue(r)
  BY <1>4 DEF DequeueMessageFromWorkerQueue, TypeOK
<1>5. CASE StartRun(r) \/ CrashBeforeAck(r)
  BY <1>5 DEF StartRun, CrashBeforeAck, TypeOK
<1>6. CASE RejectDelivery(r)
  <2>1. /\ r \in delivered /\ phase[r] # "Queued"
        /\ delivered' = delivered \ {r}
        /\ UNCHANGED <<ttlQueue, deadLetterQueue>>
    BY <1>6 DEF RejectDelivery
  <2>2. SystemFailure(r)
    BY <1>6, <2>1 DEF RejectDelivery
  <2> QED  BY <2>1, <2>2, SystemFailureTouches DEF TypeOK
<1>7. CASE Nack(r)
  BY <1>7, TryNackPlace DEF Nack
<1>8. CASE NackUndelivered(r)
  BY <1>8, TryNackPlace DEF NackUndelivered
<1>9. CASE WorkerMismatch(r)
  <2>1. /\ r \in delivered /\ phase[r] = "Queued"
        /\ delivered' = delivered \ {r}
        /\ UNCHANGED <<workerQueue, ttlQueue, phase>>
        /\ NackOnly(r)
    BY <1>9 DEF WorkerMismatch
  <2>2. CASE message[r] = Absent /\ UNCHANGED <<message, indexes, slots, counters, deadLetterQueue>>
    BY <2>1, <2>2
  <2>3. CASE /\ message[r] # Absent /\ AttemptsLeft(r)
             /\ Requeue(r) /\ UNCHANGED deadLetterQueue
    BY <2>1, <2>3, RequeueTouches
  <2>4. CASE MoveToDeadLetterQueue(r) /\ UNCHANGED message
    <3>1. deadLetterQueue' = deadLetterQueue \cup {r}
      BY <2>4 DEF MoveToDeadLetterQueue
    <3> QED  BY <2>1, <2>4, <3>1, DeadLetterTouches
  <2> QED  BY <2>1, <2>2, <2>3, <2>4 DEF NackOnly
<1>10. CASE CompleteRun(r)
  <2>1. PICK remove \in BOOLEAN : AcknowledgeMessage(r, remove)
    BY <1>10 DEF CompleteRun
  <2>2. /\ phase[r] = "Executing" /\ phase' = [phase EXCEPT ![r] = "Finished"]
        /\ UNCHANGED <<deadLetterQueue, delivered>>
    BY <1>10 DEF CompleteRun
  <2> QED  BY <2>1, <2>2, FinishPlace
<1>11. CASE CancelRun(r)
  <2>1. /\ phase[r] \in {"Queued", "Executing", "Suspended"}
        /\ phase' = [phase EXCEPT ![r] = "Finished"]
        /\ UNCHANGED <<deadLetterQueue, delivered>>
        /\ AcknowledgeMessage(r, TRUE)
    BY <1>11 DEF CancelRun
  <2> QED  BY <2>1, FinishPlace
<1>12. CASE Suspend(r)
  BY <1>12 DEF Suspend, ReleaseSlots, TypeOK
<1>13. CASE SweepFinishedRun(r)
  <2>1. /\ UNCHANGED <<deadLetterQueue, delivered, phase>>
        /\ phase[r] = "Finished"
        /\ AcknowledgeMessage(r, FALSE)
    BY <1>13 DEF SweepFinishedRun
  <2>2. phase' = [phase EXCEPT ![r] = "Finished"]
    BY <2>1 DEF TypeOK
  <2> QED  BY <2>1, <2>2, FinishPlace
<1> QED
  BY <1>1, <1>2, <1>3, <1>4, <1>5, <1>6, <1>7, <1>8, <1>9, <1>10, <1>11, <1>12, <1>13
     DEF RunStep

\* Every step keeps every run in one place at most.
LEMMA PlacesStep ==
  ASSUME TypeOK, Places, [Next]_vars
  PROVE  Places'
<1>1. CASE \E r \in Runs : RunStep(r)
  BY <1>1, RunStepPlace, SamePlace DEF Places
<1>2. CASE DequeueMessages
  <2>1. PICK open \in SUBSET Variants, taken \in SUBSET Runs :
          /\ \A r \in taken : queue[r] # Absent
          /\ Claimable(taken) \subseteq taken
          /\ Take(open, taken)
    BY <1>2, DequeueTakes
  <2>2. \A r \in Claimable(taken) : message[r] # Absent
    BY DEF Claimable
  <2>3. /\ queue' = Zrem(queue, taken)
        /\ queueCurrentConcurrency' = queueCurrentConcurrency \cup Claimable(taken)
        /\ workerQueue' = [r \in Runs |-> workerQueue[r] + (IF r \in Claimable(taken) THEN 1 ELSE 0)]
        /\ UNCHANGED <<queueCurrentDequeued, message, deadLetterQueue, delivered, phase>>
    BY <2>1 DEF Take, ClaimSlots, PushEntries
  <2> QED
    BY <2>1, <2>2, <2>3 DEF Places, PlaceOk, Zrem, TypeOK
<1>3. CASE ExpireTtlRuns
  <2>1. PICK batch :
          /\ message' = [r \in Runs |-> IF r \in batch THEN Absent ELSE message[r]]
          /\ queue' = Zrem(queue, batch)
          /\ ReleaseSlots(batch)
          /\ phase' = [r \in Runs |-> IF r \in batch /\ phase[r] = "Queued"
                                      THEN "Finished" ELSE phase[r]]
    BY <1>3 DEF ExpireTtlRuns
  <2>2. UNCHANGED <<workerQueue, deadLetterQueue, delivered>>
    BY <1>3 DEF ExpireTtlRuns
  <2> QED
    BY <2>1, <2>2 DEF Places, PlaceOk, Zrem, ReleaseSlots, TypeOK
<1>4. CASE ExpireCounter
  BY <1>4 DEF ExpireCounter, Places, PlaceOk
<1>5. CASE Tick
  <2>1. ASSUME NEW r \in Runs
        PROVE  /\ message'[r] = Absent <=> message[r] = Absent
               /\ queue'[r] = Absent <=> queue[r] = Absent
    <3>1. message[r] # Absent => message'[r] # Absent
      BY <1>5, MessageTypes, MessageIsPresent DEF Tick, TypeOK
    <3>2. queue[r] # Absent => queue'[r] # Absent
      BY <1>5, CkBoundsAssumption, AbsentIsNoTime DEF Tick, Aged, TypeOK, Scores
    <3> QED  BY <1>5, <3>1, <3>2 DEF Tick, Aged
  <2> QED  BY <1>5, <2>1 DEF Tick, Places, PlaceOk
<1>6. CASE UNCHANGED vars
  BY <1>6 DEF vars, Places, PlaceOk
<1> QED
  BY <1>1, <1>2, <1>3, <1>4, <1>5, <1>6 DEF Next

-----------------------------------------------------------------------------
(* The index and the wildcard entry *)

\* A rebalance of the variants whose runs changed keeps the index exact.
LEMMA RebalancedIsExact ==
  ASSUME IndexIsExact, NEW zset, NEW variants,
         queue' = zset, ckIndex' = IndexOf(zset, variants),
         \A r \in Runs : VariantOf[r] \notin variants => zset[r] = queue[r]
  PROVE  IndexIsExact'
<1> SUFFICES ASSUME NEW v \in Variants
             PROVE  ckIndex'[v] = Earliest(queue', RunsOf(v))
  BY DEF IndexIsExact
<1>1. CASE v \in variants
  BY <1>1 DEF IndexOf
<1>2. CASE v \notin variants
  <2>1. ckIndex'[v] = ckIndex[v]
    BY <1>2 DEF IndexOf
  <2>2. ckIndex[v] = Earliest(queue, RunsOf(v))
    BY DEF IndexIsExact
  <2>3. \A r \in RunsOf(v) : queue[r] = zset[r]
    BY <1>2 DEF RunsOf
  <2>4. Earliest(queue, RunsOf(v)) = Earliest(zset, RunsOf(v))
    BY <2>3, EarliestCongruent
  <2> QED  BY <2>1, <2>2, <2>4
<1> QED  BY <1>1, <1>2

\* Time keeps the order of scores, and what is absent.
LEMMA AgedKeepsOrder ==
  /\ \A s \in Scores : Aged(s) = Absent <=> s = Absent
  /\ \A s, t \in Times : s <= t => Aged(s) <= Aged(t)
BY CkBoundsAssumption, AbsentIsNoTime DEF Aged, Scores, Times

\* The earliest of the aged scores is the aged earliest score.
LEMMA EarliestAged ==
  ASSUME NEW X, NEW zset \in [X -> Scores], NEW D \in SUBSET X
  PROVE  Earliest([x \in X |-> Aged(zset[x])], D) = Aged(Earliest(zset, D))
<1> DEFINE aged == [x \in X |-> Aged(zset[x])]
<1>1. aged \in [X -> Scores]
  BY AgedType
<1>2. CASE Earliest(zset, D) = Absent
  <2>1. \A x \in D : zset[x] = Absent
    BY <1>2, EarliestIsFirst
  <2>2. \A x \in D : aged[x] = Absent
    BY <2>1 DEF Aged
  <2>3. Earliest(aged, D) = Absent
    <3> HIDE DEF aged
    <3> QED  BY <1>1, <2>2, EarliestIsFirst
  <2> QED  BY <1>2, <2>3 DEF Aged
<1>3. CASE Earliest(zset, D) # Absent
  <2>1. PICK x \in D : zset[x] = Earliest(zset, D)
    BY <1>3, EarliestIsFirst
  <2>2. \A y \in D : zset[y] # Absent => zset[x] <= zset[y]
    BY <2>1, EarliestIsFirst
  <2>3. zset[x] # Absent /\ \A y \in D : zset[y] \in Scores
    BY <1>3, <2>1
  <2>4. aged[x] # Absent
    BY <2>3, AgedKeepsOrder
  <2>5. ASSUME NEW y \in D, aged[y] # Absent PROVE aged[x] <= aged[y]
    <3>1. zset[y] # Absent
      BY <2>5 DEF Aged
    <3>2. zset[x] \in Times /\ zset[y] \in Times
      BY <2>3, <3>1 DEF Scores, Times
    <3> QED  BY <2>2, <3>1, <3>2, AgedKeepsOrder
  <2>6. Earliest(aged, D) = aged[x]
    <3> HIDE DEF aged
    <3> QED  BY <1>1, <2>4, <2>5, FirstIsEarliest
  <2> QED  BY <2>1, <2>6
<1> QED  BY <1>2, <1>3

\* Every form keeps the index exact.
LEMMA IndexStep ==
  ASSUME StoreTypes, IndexIsExact, Shape
  PROVE  IndexIsExact'
<1>1. CASE UNCHANGED <<queue, ckIndex>>
  BY <1>1 DEF IndexIsExact
<1>2. CASE AgeStep
  <2>1. ASSUME NEW v \in Variants
        PROVE  ckIndex'[v] = Earliest(queue', RunsOf(v))
    <3>1. RunsOf(v) \in SUBSET Runs
      BY DEF RunsOf
    <3>2. Earliest(queue', RunsOf(v)) = Aged(Earliest(queue, RunsOf(v)))
      BY <1>2, <3>1, EarliestAged DEF AgeStep, StoreTypes
    <3> QED  BY <1>2, <3>2 DEF AgeStep, IndexIsExact
  <2> QED  BY <2>1 DEF IndexIsExact
<1>3. ASSUME NEW r \in Runs, NEW score, AddToQueue(r, score) PROVE IndexIsExact'
  <2> DEFINE zset == [queue EXCEPT ![r] = score]
  <2>1. queue' = zset /\ ckIndex' = IndexOf(zset, {VariantOf[r]})
    BY <1>3 DEF AddToQueue, Rebalance
  <2>2. \A s \in Runs : VariantOf[s] \notin {VariantOf[r]} => zset[s] = queue[s]
    BY DEF StoreTypes
  <2> HIDE DEF zset
  <2> QED  BY <2>1, <2>2, RebalancedIsExact
<1>4. ASSUME NEW S, NEW variants, \A r \in S : VariantOf[r] \in variants,
             queue' = Zrem(queue, S), ckIndex' = IndexOf(Zrem(queue, S), variants)
      PROVE  IndexIsExact'
  <2>1. \A s \in Runs : VariantOf[s] \notin variants => Zrem(queue, S)[s] = queue[s]
    BY <1>4 DEF Zrem
  <2> QED  BY <1>4, <2>1, RebalancedIsExact
<1>5. ASSUME NEW r \in Runs, RunShape(r) PROVE IndexIsExact'
  <2>1. CASE FastStep(r) \/ DeliverStep(r) \/ FreeStep(r)
    BY <1>1, <2>1 DEF FastStep, DeliverStep, FreeStep
  <2>2. CASE RemoveStep(r)
    BY <1>4, <2>2 DEF RemoveStep, RemoveFromQueue, Rebalance
  <2>3. CASE \E score \in Times : EnqueueStep(r, score) \/ RequeueStep(r, score)
    BY <1>3, <2>3 DEF EnqueueStep, RequeueStep
  <2> QED  BY <1>5, <2>1, <2>2, <2>3 DEF RunShape
<1>6. ASSUME NEW open, NEW taken, NEW claimed, TakeStep(open, taken, claimed)
      PROVE  IndexIsExact'
  BY <1>4, <1>6 DEF TakeStep, Rebalance
<1>7. ASSUME NEW batch, ExpireStep(batch) PROVE IndexIsExact'
  BY <1>4, <1>7 DEF ExpireStep
<1> QED
  BY <1>1, <1>2, <1>5, <1>6, <1>7 DEF Shape, StillStep, ForgetStep

\* A rebalanced wildcard entry covers the messages of an exact index.
LEMMA RebalancedCovers ==
  ASSUME StoreTypes', IndexIsExact', masterQueue' = Earliest(ckIndex', Variants)
  PROVE  MasterCoversIndex'
<1> SUFFICES ASSUME NEW r \in Runs, queue'[r] # Absent
             PROVE  masterQueue' # Absent /\ masterQueue' <= queue'[r]
  BY DEF MasterCoversIndex, Waiting
<1> DEFINE v == VariantOf[r]
<1>1. v \in Variants /\ r \in RunsOf(v) /\ RunsOf(v) \in SUBSET Runs
  BY CkRunsAssumption DEF RunsOf
<1>2. ckIndex'[v] # Absent /\ ckIndex'[v] <= queue'[r]
  <2>1. ckIndex'[v] = Earliest(queue', RunsOf(v))
    BY <1>1 DEF IndexIsExact
  <2>2. queue' \in [Runs -> Scores]
    BY DEF StoreTypes
  <2> QED  BY <1>1, <2>1, <2>2, EarliestIsFirst
<1>3. ckIndex' \in [Variants -> Scores]
  BY DEF StoreTypes
<1>4. Earliest(ckIndex', Variants) # Absent /\ Earliest(ckIndex', Variants) <= ckIndex'[v]
  BY <1>1, <1>2, <1>3, EarliestIsFirst
<1>5. masterQueue' \in Scores /\ ckIndex'[v] \in Scores /\ queue'[r] \in Scores
  BY <1>1 DEF StoreTypes
<1> QED  BY <1>2, <1>4, <1>5 DEF Scores

\* Every form keeps the messages covered.
LEMMA MasterStep ==
  ASSUME StoreTypes, StoreTypes', IndexIsExact', MasterCoversIndex, Shape
  PROVE  MasterCoversIndex'
<1>1. CASE UNCHANGED <<queue, masterQueue>>
  BY <1>1 DEF MasterCoversIndex, Waiting
<1>2. CASE AgeStep
  <2> SUFFICES ASSUME NEW r \in Runs, queue'[r] # Absent
               PROVE  masterQueue' # Absent /\ masterQueue' <= queue'[r]
    BY DEF MasterCoversIndex, Waiting
  <2>1. queue'[r] = Aged(queue[r]) /\ masterQueue' = Aged(masterQueue)
    BY <1>2 DEF AgeStep
  <2>2. queue[r] # Absent
    BY <2>1 DEF Aged
  <2>3. masterQueue # Absent /\ masterQueue <= queue[r]
    BY <2>2 DEF MasterCoversIndex, Waiting
  <2>4. masterQueue \in Times /\ queue[r] \in Times
    BY <2>2, <2>3 DEF StoreTypes, Scores, Times
  <2> QED  BY <2>1, <2>3, <2>4, AgedKeepsOrder DEF Scores, Times
<1>3. ASSUME NEW zset, NEW variants, Rebalance(zset, variants) PROVE MasterCoversIndex'
  BY <1>3, RebalancedCovers DEF Rebalance
<1>4. ASSUME NEW r \in Runs, RunShape(r) PROVE MasterCoversIndex'
  <2>1. CASE FastStep(r) \/ DeliverStep(r) \/ FreeStep(r)
    BY <1>1, <2>1 DEF FastStep, DeliverStep, FreeStep
  <2>2. CASE RemoveStep(r)
    BY <1>3, <2>2 DEF RemoveStep, RemoveFromQueue
  <2>3. CASE \E score \in Times : EnqueueStep(r, score) \/ RequeueStep(r, score)
    BY <1>3, <2>3 DEF EnqueueStep, RequeueStep, AddToQueue
  <2> QED  BY <1>4, <2>1, <2>2, <2>3 DEF RunShape
<1>5. ASSUME NEW open, NEW taken, NEW claimed, TakeStep(open, taken, claimed)
      PROVE  MasterCoversIndex'
  BY <1>3, <1>5 DEF TakeStep
<1>6. ASSUME NEW batch, ExpireStep(batch) PROVE MasterCoversIndex'
  BY <1>6 DEF ExpireStep, Zrem, MasterCoversIndex, Waiting
<1> QED
  BY <1>1, <1>2, <1>4, <1>5, <1>6 DEF Shape, StillStep, ForgetStep

-----------------------------------------------------------------------------
(* The counters, and the sets of the environment *)

\* The seed of the length counter counts every run that waits.
LEMMA SeedIsExact ==
  ASSUME StoreTypes, IndexIsExact
  PROVE  LengthSeed = Cardinality(Waiting)
<1>1. ASSUME NEW r \in Waiting PROVE VariantOf[r] \in Indexed
  <2>1. r \in Runs /\ queue[r] # Absent
    BY DEF Waiting
  <2>2. VariantOf[r] \in Variants /\ r \in RunsOf(VariantOf[r])
        /\ RunsOf(VariantOf[r]) \in SUBSET Runs
    BY <2>1, CkRunsAssumption DEF RunsOf
  <2>3. Earliest(queue, RunsOf(VariantOf[r])) # Absent
    BY <2>1, <2>2, EarliestIsFirst DEF StoreTypes
  <2> QED  BY <2>2, <2>3 DEF IndexIsExact, Indexed
<1>2. {r \in Waiting : VariantOf[r] \in Indexed} = Waiting
  BY <1>1
<1> QED  BY <1>2 DEF LengthSeed

\* What ZADD and ZREM do to the runs that wait.
LEMMA WaitingAfter ==
  ASSUME StoreTypes
  PROVE  /\ \A r \in Runs, score \in Times :
              queue' = [queue EXCEPT ![r] = score] => Waiting' = Waiting \cup {r}
         /\ \A S : queue' = Zrem(queue, S) => Waiting' = Waiting \ S
         /\ queue' = [r \in Runs |-> Aged(queue[r])] => Waiting' = Waiting
         /\ UNCHANGED queue => Waiting' = Waiting
<1>1. ASSUME NEW r \in Runs, NEW score \in Times, queue' = [queue EXCEPT ![r] = score]
      PROVE  Waiting' = Waiting \cup {r}
  <2>1. score # Absent
    BY AbsentIsNoTime DEF Times
  <2> QED  BY <1>1, <2>1 DEF Waiting, StoreTypes
<1>2. ASSUME NEW S, queue' = Zrem(queue, S) PROVE Waiting' = Waiting \ S
  BY <1>2 DEF Waiting, Zrem
<1>3. ASSUME queue' = [r \in Runs |-> Aged(queue[r])] PROVE Waiting' = Waiting
  <2>1. \A r \in Runs : Aged(queue[r]) = Absent <=> queue[r] = Absent
    BY AgedKeepsOrder DEF StoreTypes
  <2> QED  BY <1>3, <2>1 DEF Waiting
<1> QED
  BY <1>1, <1>2, <1>3 DEF Waiting

\* ZREMs of a set of runs, and the DECRs, keep the length counter exact.
LEMMA RemovedIsExact ==
  ASSUME StoreTypes, LengthCounterExact, NEW S \in SUBSET Runs,
         CountRemoved(S), Waiting' = Waiting \ S
  PROVE  LengthCounterExact'
<1> DEFINE k == Cardinality(S \cap Waiting)
<1>1. Waiting \in SUBSET Runs
  BY DEF Waiting
<1>2. Cardinality(Waiting \ S) = Cardinality(Waiting) - k
  BY <1>1, Removed
<1>3. k \in Nat /\ Cardinality(Waiting) \in Nat /\ Cardinality(Waiting \ S) \in Nat
  BY <1>1, RunsAreFinite
<1>4. lengthCounter' = Floored(lengthCounter, k)
  BY DEF CountRemoved
<1>5. lengthCounter = Absent => lengthCounter' = Absent
  BY <1>4 DEF Floored
<1> HIDE DEF k
<1>6. lengthCounter # Absent => lengthCounter' = Cardinality(Waiting \ S)
  BY <1>2, <1>3, <1>4 DEF Floored, LengthCounterExact
<1> QED
  BY <1>5, <1>6 DEF LengthCounterExact

\* A ZADD, and the INCR, keep the length counter exact.
LEMMA AddedIsExact ==
  ASSUME StoreTypes, IndexIsExact, LengthCounterExact, NEW r \in Runs,
         CountAdded(r), Waiting' = Waiting \cup {r}
  PROVE  LengthCounterExact'
<1>1. Waiting \in SUBSET Runs
  BY DEF Waiting
<1>2. (IF lengthCounter = Absent THEN LengthSeed ELSE lengthCounter) = Cardinality(Waiting)
  BY SeedIsExact DEF LengthCounterExact
<1>3. (IF queue[r] = Absent THEN 1 ELSE 0) = (IF r \in Waiting THEN 0 ELSE 1)
  BY DEF Waiting
<1>4. lengthCounter' = Cardinality(Waiting) + (IF r \in Waiting THEN 0 ELSE 1)
  BY <1>2, <1>3 DEF CountAdded
<1>5. Cardinality(Waiting \cup {r}) = Cardinality(Waiting) + (IF r \in Waiting THEN 0 ELSE 1)
  BY <1>1, Added
<1> QED  BY <1>4, <1>5 DEF LengthCounterExact

LEMMA LengthStep ==
  ASSUME StoreTypes, IndexIsExact, LengthCounterExact, Shape
  PROVE  LengthCounterExact'
<1>1. CASE lengthCounter' \in {lengthCounter, Absent} /\ UNCHANGED queue
  BY <1>1 DEF LengthCounterExact, Waiting
<1>2. CASE AgeStep
  BY <1>2, WaitingAfter DEF AgeStep, LengthCounterExact
<1>3. ASSUME NEW r \in Runs, RunShape(r) PROVE LengthCounterExact'
  <2>1. CASE FastStep(r) \/ DeliverStep(r) \/ FreeStep(r)
    BY <1>1, <2>1 DEF FastStep, DeliverStep, FreeStep
  <2>2. CASE RemoveStep(r)
    <3>1. Waiting' = Waiting \ {r}
      BY <2>2, WaitingAfter DEF RemoveStep, RemoveFromQueue
    <3> QED  BY <2>2, <3>1, RemovedIsExact DEF RemoveStep
  <2>3. ASSUME NEW score \in Times, EnqueueStep(r, score) \/ RequeueStep(r, score)
        PROVE  LengthCounterExact'
    <3>1. AddToQueue(r, score) /\ CountAdded(r)
      BY <2>3 DEF EnqueueStep, RequeueStep
    <3>2. Waiting' = Waiting \cup {r}
      BY <3>1, WaitingAfter DEF AddToQueue
    <3> QED  BY <3>1, <3>2, AddedIsExact
  <2> QED  BY <1>3, <2>1, <2>2, <2>3 DEF RunShape
<1>4. ASSUME NEW open, NEW taken \in SUBSET Runs, NEW claimed,
             TakeStep(open, taken, claimed)
      PROVE  LengthCounterExact'
  BY <1>4, WaitingAfter, RemovedIsExact DEF TakeStep
<1>5. ASSUME NEW batch \in SUBSET Runs, ExpireStep(batch) PROVE LengthCounterExact'
  BY <1>5, WaitingAfter, RemovedIsExact DEF ExpireStep
<1> QED
  BY <1>1, <1>2, <1>3, <1>4, <1>5 DEF Shape, StillStep, ForgetStep

\* SREMs of a set of runs, and the DECRs, do not leave the running counter high.
LEMMA ReleasedIsNotOver ==
  ASSUME StoreTypes, RunningNotOvercounted, NEW S \in SUBSET Runs,
         CountReleased(S), queueCurrentDequeued' = queueCurrentDequeued \ S
  PROVE  RunningNotOvercounted'
<1> DEFINE k == Cardinality(S \cap queueCurrentDequeued)
<1>1. Cardinality(queueCurrentDequeued \ S) = Cardinality(queueCurrentDequeued) - k
  BY Removed DEF StoreTypes
<1>2. /\ k \in Nat /\ Cardinality(queueCurrentDequeued) \in Nat
      /\ Cardinality(queueCurrentDequeued \ S) \in Nat
  BY RunsAreFinite DEF StoreTypes
<1>3. runningCounter' = Floored(runningCounter, k)
  BY DEF CountReleased
<1> HIDE DEF k
<1> QED
  BY <1>1, <1>2, <1>3 DEF Floored, RunningNotOvercounted, StoreTypes

LEMMA RunningStep ==
  ASSUME StoreTypes, RunningNotOvercounted, Shape
  PROVE  RunningNotOvercounted'
<1> DEFINE size == Cardinality(queueCurrentDequeued)
<1>1. size \in Nat
  BY RunsAreFinite DEF StoreTypes
<1>2. CASE runningCounter' \in {runningCounter, Absent} /\ UNCHANGED queueCurrentDequeued
  BY <1>2 DEF RunningNotOvercounted
<1>3. ASSUME NEW r \in Runs, RunShape(r) PROVE RunningNotOvercounted'
  <2>1. CASE FastStep(r)
    BY <1>2, <2>1 DEF FastStep, ClaimSlots
  <2>2. CASE RemoveStep(r)
    BY <2>2, ReleasedIsNotOver DEF RemoveStep, ReleaseSlots
  <2>3. CASE DeliverStep(r)
    <3>1. queueCurrentDequeued' = queueCurrentDequeued \cup {r} /\ CountDequeued(r)
      BY <2>3 DEF DeliverStep
    <3>2. CASE r \in queueCurrentDequeued
      <4>1. queueCurrentDequeued \cup {r} = queueCurrentDequeued
        BY <3>2
      <4> QED  BY <1>2, <3>1, <3>2, <4>1 DEF CountDequeued
    <3>3. CASE r \notin queueCurrentDequeued
      <4>1. Cardinality(queueCurrentDequeued \cup {r}) = size + 1
        BY <3>3, Added DEF StoreTypes
      <4>2. SeenDequeued(r) \subseteq queueCurrentDequeued \cup {r}
        BY DEF SeenDequeued
      <4>3. queueCurrentDequeued \cup {r} \in SUBSET Runs
        BY DEF StoreTypes
      <4>4. Cardinality(SeenDequeued(r)) <= Cardinality(queueCurrentDequeued \cup {r})
        BY <4>2, <4>3, PartBound
      <4>5. runningCounter' = IF runningCounter = Absent
                              THEN Cardinality(SeenDequeued(r)) ELSE runningCounter + 1
        BY <3>1, <3>3 DEF CountDequeued
      <4>6. runningCounter # Absent => runningCounter \in Nat /\ runningCounter <= size
        BY DEF RunningNotOvercounted, StoreTypes
      <4> HIDE DEF size
      <4> QED
        BY <1>1, <3>1, <4>1, <4>4, <4>5, <4>6 DEF RunningNotOvercounted
    <3> QED  BY <3>2, <3>3
  <2>4. CASE FreeStep(r)
    <3> DEFINE seen == {s \in queueCurrentDequeued : VariantOf[s] \in Indexed}
               base == IF runningCounter = Absent THEN Cardinality(seen) ELSE runningCounter
               k == Cardinality({r} \cap queueCurrentDequeued)
    <3>1. queueCurrentDequeued' = queueCurrentDequeued \ {r}
      BY <2>4 DEF FreeStep, ReleaseSlots
    <3>2. Cardinality(queueCurrentDequeued \ {r}) = size - k
      BY Removed DEF StoreTypes
    <3>3. k \in Nat /\ Cardinality(queueCurrentDequeued \ {r}) \in Nat
      BY RunsAreFinite DEF StoreTypes
    <3>4. Cardinality(seen) \in Nat /\ Cardinality(seen) <= size
      BY PartBound, RunsAreFinite DEF StoreTypes
    <3>5. base \in Nat /\ base <= size /\ base # Absent
      BY <3>4, AbsentIsNoTime DEF RunningNotOvercounted, StoreTypes
    <3>6. runningCounter' = Floored(base, k)
      BY <2>4 DEF FreeStep, CountReleasedSeeding
    <3> HIDE DEF seen, base, k, size
    <3> QED
      BY <1>1, <3>1, <3>2, <3>3, <3>5, <3>6 DEF Floored, RunningNotOvercounted
  <2>5. ASSUME NEW score, EnqueueStep(r, score) PROVE RunningNotOvercounted'
    <3>1. UNCHANGED <<queueCurrentDequeued, runningCounter>>
      BY <2>5 DEF EnqueueStep, ReleaseSlots
    <3> QED  BY <1>2, <3>1
  <2>6. ASSUME NEW score, RequeueStep(r, score) PROVE RunningNotOvercounted'
    BY <2>6, ReleasedIsNotOver DEF RequeueStep, ReleaseSlots
  <2> QED  BY <1>3, <2>1, <2>2, <2>3, <2>4, <2>5, <2>6 DEF RunShape
<1>4. ASSUME NEW open, NEW taken, NEW claimed, TakeStep(open, taken, claimed)
      PROVE  RunningNotOvercounted'
  BY <1>2, <1>4 DEF TakeStep, ClaimSlots
<1>5. ASSUME NEW batch \in SUBSET Runs, ExpireStep(batch) PROVE RunningNotOvercounted'
  BY <1>5, ReleasedIsNotOver DEF ExpireStep, ReleaseSlots
<1> QED
  BY <1>2, <1>3, <1>4, <1>5 DEF Shape, StillStep, ForgetStep, AgeStep

\* Every form writes the sets of the environment as it writes the variants'.
LEMMA MirrorStep ==
  ASSUME EnvMirrorsVariants, Shape
  PROVE  EnvMirrorsVariants'
<1>1. ASSUME NEW r \in Runs, RunShape(r) PROVE EnvMirrorsVariants'
  <2>1. CASE FastStep(r)
    BY <2>1 DEF FastStep, ClaimSlots, EnvMirrorsVariants
  <2>2. CASE RemoveStep(r)
    BY <2>2 DEF RemoveStep, RemoveFromQueue, ReleaseSlots, EnvMirrorsVariants
  <2>3. CASE DeliverStep(r)
    BY <2>3 DEF DeliverStep, EnvMirrorsVariants
  <2>4. CASE FreeStep(r)
    BY <2>4 DEF FreeStep, ReleaseSlots, EnvMirrorsVariants
  <2>5. CASE \E score \in Times : EnqueueStep(r, score) \/ RequeueStep(r, score)
    BY <2>5 DEF EnqueueStep, RequeueStep, AddToQueue, ReleaseSlots, EnvMirrorsVariants
  <2> QED  BY <1>1, <2>1, <2>2, <2>3, <2>4, <2>5 DEF RunShape
<1>2. ASSUME NEW open, NEW taken, NEW claimed, TakeStep(open, taken, claimed)
      PROVE  EnvMirrorsVariants'
  BY <1>2 DEF TakeStep, ClaimSlots, EnvMirrorsVariants
<1>3. ASSUME NEW batch, ExpireStep(batch) PROVE EnvMirrorsVariants'
  BY <1>3 DEF ExpireStep, ReleaseSlots, EnvMirrorsVariants
<1>4. CASE StillStep \/ ForgetStep \/ AgeStep
  BY <1>4 DEF StillStep, ForgetStep, AgeStep, EnvMirrorsVariants
<1> QED
  BY <1>1, <1>2, <1>3, <1>4 DEF Shape

-----------------------------------------------------------------------------
(* The invariants *)

CkInv ==
  /\ TypeOK /\ Places
  /\ IndexIsExact /\ MasterCoversIndex
  /\ LengthCounterExact /\ RunningNotOvercounted
  /\ EnvMirrorsVariants

LEMMA CkInit == Init => CkInv
<1> SUFFICES ASSUME Init PROVE CkInv
  OBVIOUS
<1> USE DEF Init
<1>1. TypeOK
  BY DEF TypeOK, Scores, Phases
<1>2. Places
  BY DEF Places, PlaceOk
<1>3. IndexIsExact
  BY DEF IndexIsExact, Earliest, RunsOf
<1>4. MasterCoversIndex
  BY DEF MasterCoversIndex, Waiting
<1>5. LengthCounterExact /\ RunningNotOvercounted /\ EnvMirrorsVariants
  BY DEF LengthCounterExact, RunningNotOvercounted, EnvMirrorsVariants
<1> QED
  BY <1>1, <1>2, <1>3, <1>4, <1>5 DEF CkInv

LEMMA CkStep == CkInv /\ [Next]_vars => CkInv'
<1> SUFFICES ASSUME CkInv, [Next]_vars PROVE CkInv'
  OBVIOUS
<1>1. StoreTypes /\ RunTypes /\ Shape
  BY Shapes DEF CkInv, TypeOK, StoreTypes, RunTypes
<1>2. StoreTypes' /\ RunTypes'
  BY <1>1, StoreTypesStep, RunTypesStep
<1>3. TypeOK'
  BY <1>2 DEF TypeOK, StoreTypes, RunTypes
<1>4. Places'
  BY PlacesStep DEF CkInv
<1>5. IndexIsExact'
  BY <1>1, IndexStep DEF CkInv
<1>6. MasterCoversIndex'
  BY <1>1, <1>2, <1>5, MasterStep DEF CkInv
<1>7. LengthCounterExact' /\ RunningNotOvercounted' /\ EnvMirrorsVariants'
  BY <1>1, LengthStep, RunningStep, MirrorStep DEF CkInv
<1> QED
  BY <1>3, <1>4, <1>5, <1>6, <1>7 DEF CkInv

LEMMA CkInvariant == Spec => []CkInv
BY CkInit, CkStep, PTL DEF Spec

\* Every variable keeps its type, whatever the handlers and scripts do.
THEOREM TypesCorrect == Spec => []TypeOK
<1>1. CkInv => TypeOK
  BY DEF CkInv
<1> QED  BY <1>1, CkInvariant, PTL

\* A run is in one place at most: its variant's sorted set, the worker queue, or
\* the hands of one worker, and nowhere while it executes or is suspended.
THEOREM OnePlace == Spec => []Places
<1>1. CkInv => Places
  BY DEF CkInv
<1> QED  BY <1>1, CkInvariant, PTL

\* The index never misses a variant with messages, holds no empty one, and has
\* the score of each one's earliest message.
THEOREM IndexCorrect == Spec => []IndexIsExact
<1>1. CkInv => IndexIsExact
  BY DEF CkInv
<1> QED  BY <1>1, CkInvariant, PTL

\* The wildcard entry of the master queue is never later than a message that
\* waits: no due message is out of the consumers' sight.
THEOREM MasterCorrect == Spec => []MasterCoversIndex
<1>1. CkInv => MasterCoversIndex
  BY DEF CkInv
<1> QED  BY <1>1, CkInvariant, PTL

\* The length counter, whenever it exists, is the number of runs that wait.
THEOREM LengthCorrect == Spec => []LengthCounterExact
<1>1. CkInv => LengthCounterExact
  BY DEF CkInv
<1> QED  BY <1>1, CkInvariant, PTL

\* The running counter never counts a run that is not dequeued.
THEOREM RunningCorrect == Spec => []RunningNotOvercounted
<1>1. CkInv => RunningNotOvercounted
  BY DEF CkInv
<1> QED  BY <1>1, CkInvariant, PTL

\* The sets of the environment are always those of its variants.
THEOREM MirrorsCorrect == Spec => []EnvMirrorsVariants
<1>1. CkInv => EnvMirrorsVariants
  BY DEF CkInv
<1> QED  BY <1>1, CkInvariant, PTL

-----------------------------------------------------------------------------
(* The abstract specification *)

mapped == <<Waiting, envCurrentConcurrency>>

\* SlotQueue counts as the run queue does.
LEMMA SameCardinality == ASSUME NEW S PROVE Slots!Cardinality(S) = Cardinality(S)
BY DEF Slots!Cardinality, Cardinality

\* Runs with a slot each of a variant of its own, and within the capacity of the
\* environment, fit the limits.
LEMMA ClaimFits ==
  ASSUME StoreTypes, EnvMirrorsVariants, NEW S \in SUBSET Runs,
         Cardinality(S) <= EnvAvailable,
         \A r, s \in S : VariantOf[r] = VariantOf[s] => r = s,
         \A r \in S : VariantAvailable(VariantOf[r]) > 0
  PROVE  /\ Slots!FitsEnvironment(envCurrentConcurrency \cup S)
         /\ \A r \in S : Slots!FitsQueue(envCurrentConcurrency \cup S, VariantOf[r])
<1> DEFINE running == envCurrentConcurrency
           cap == (EnvLimit * BurstNum) \div BurstDen
<1>1. running \in SUBSET Runs /\ running = queueCurrentConcurrency
  BY DEF StoreTypes, EnvMirrorsVariants
<1>2. cap \in Nat /\ VariantCapacity \in Nat
  BY CapacityType
<1>3. Slots!FitsEnvironment(running \cup S)
  <2>1. Cardinality(running \cup S) <= Cardinality(running) + Cardinality(S)
    BY <1>1, UnionBound
  <2>2. /\ Cardinality(running \cup S) \in Nat
        /\ Cardinality(running) \in Nat /\ Cardinality(S) \in Nat
    BY <1>1, RunsAreFinite
  <2>3. Cardinality(S) <= cap - Cardinality(running)
    BY DEF EnvAvailable
  <2> HIDE DEF cap
  <2>4. Cardinality(running \cup S) <= cap
    BY <1>2, <2>1, <2>2, <2>3
  <2> QED  BY <2>4, SameCardinality, Zenon DEF Slots!FitsEnvironment, cap
<1>4. ASSUME NEW r \in S PROVE Slots!FitsQueue(running \cup S, VariantOf[r])
  <2> DEFINE v == VariantOf[r]
             had == queueCurrentConcurrency \cap RunsOf(v)
  <2>1. v \in Variants /\ r \in Runs
    BY CkRunsAssumption
  <2>2. Slots!OfQueue(running \cup S, v) = had \cup {r}
    BY <1>1, <1>4 DEF Slots!OfQueue, RunsOf
  <2>3. had \in SUBSET Runs
    BY DEF RunsOf
  <2>4. /\ Cardinality(had) \in Nat
        /\ Cardinality(had \cup {r}) = Cardinality(had) + (IF r \in had THEN 0 ELSE 1)
    BY <2>1, <2>3, RunsAreFinite, Added
  <2>5. VariantCapacity - Cardinality(had) > 0
    BY DEF VariantAvailable
  <2> HIDE DEF had
  <2>6. Cardinality(had \cup {r}) <= VariantCapacity
    BY <1>2, <2>4, <2>5
  <2>7. VariantCapacity <= EnvLimit /\ VariantCapacity <= QueueLimit
    BY CkBoundsAssumption DEF VariantCapacity
  <2>8. Slots!OwnLimit(v) = QueueLimit
    BY <2>1 DEF Slots!OwnLimit
  <2>9. Cardinality(had \cup {r}) <= QueueLimit /\ Cardinality(had \cup {r}) <= EnvLimit
    BY <1>2, <2>4, <2>6, <2>7, CkBoundsAssumption
  <2> QED
    BY <2>2, <2>8, <2>9, SameCardinality, Zenon DEF Slots!FitsQueue
<1> QED  BY <1>3, <1>4

\* The initial states map to initial states.
LEMMA SlotsInit == Init => Slots!Init
BY DEF Init, Slots!Init, Waiting

\* Every form is a step of the abstract specification, or none.
LEMMA SlotsStep ==
  ASSUME StoreTypes, Places, EnvMirrorsVariants, Shape
  PROVE  [Slots!Next]_(Slots!vars)
<1>1. CASE UNCHANGED mapped
  BY <1>1 DEF mapped, Slots!vars
<1>2. ASSUME NEW r \in Runs, Waiting' = Waiting \cup {r},
             envCurrentConcurrency' = envCurrentConcurrency \ {r}
      PROVE  Slots!Next
  BY <1>2 DEF Slots!Next, Slots!Wait
<1>3. ASSUME NEW S \in SUBSET Runs, Waiting' = Waiting \ S,
             envCurrentConcurrency' = envCurrentConcurrency \ S
      PROVE  Slots!Next
  BY <1>3 DEF Slots!Next, Slots!Leave
<1>4. ASSUME NEW S \in SUBSET Runs, S # {}, NEW gone \in SUBSET (Waiting \ S),
             Waiting' = Waiting \ (S \cup gone),
             envCurrentConcurrency' = envCurrentConcurrency \cup S,
             Cardinality(S) <= EnvAvailable,
             \A r, s \in S : VariantOf[r] = VariantOf[s] => r = s,
             \A r \in S : VariantAvailable(VariantOf[r]) > 0
      PROVE  Slots!Next
  <2>1. /\ Slots!FitsEnvironment(envCurrentConcurrency \cup S)
        /\ \A r \in S : Slots!FitsQueue(envCurrentConcurrency \cup S, VariantOf[r])
    BY <1>4, ClaimFits
  <2>2. Slots!Claim(S, gone)
    BY <1>4, <2>1 DEF Slots!Claim
  <2> QED  BY <2>2 DEF Slots!Next
<1>5. ASSUME NEW r \in Runs, RunShape(r) PROVE [Slots!Next]_(Slots!vars)
  <2>1. CASE FastStep(r)
    <3>1. /\ {r} \in SUBSET Runs /\ {} \in SUBSET (Waiting \ {r})
          /\ Waiting' = Waiting \ ({r} \cup {})
      BY <2>1 DEF FastStep, Waiting
    <3>2. envCurrentConcurrency' = envCurrentConcurrency \cup {r}
      BY <2>1 DEF FastStep, ClaimSlots
    <3>3. Cardinality({r}) <= EnvAvailable
      <4>1. Cardinality({r}) = 1
        BY FS_Singleton
      <4>2. EnvAvailable \in Int
        BY CapacityType, RunsAreFinite DEF EnvAvailable, StoreTypes
      <4> QED  BY <2>1, <4>1, <4>2 DEF FastStep
    <3>4. \A s \in {r} : VariantAvailable(VariantOf[s]) > 0
      BY <2>1 DEF FastStep
    <3> QED  BY <1>4, <3>1, <3>2, <3>3, <3>4
  <2>2. CASE RemoveStep(r)
    BY <1>3, <2>2, WaitingAfter DEF RemoveStep, RemoveFromQueue, ReleaseSlots
  <2>3. CASE DeliverStep(r)
    BY <1>1, <2>3 DEF DeliverStep, mapped, Waiting
  <2>4. CASE FreeStep(r)
    <3>1. Waiting' = Waiting \ {r}
      BY <2>4 DEF FreeStep, Waiting
    <3> QED  BY <1>3, <2>4, <3>1 DEF FreeStep, ReleaseSlots
  <2>5. ASSUME NEW score \in Times, EnqueueStep(r, score) \/ RequeueStep(r, score)
        PROVE  [Slots!Next]_(Slots!vars)
    <3>1. AddToQueue(r, score) /\ ReleaseSlots({r})
      BY <2>5 DEF EnqueueStep, RequeueStep
    <3>2. Waiting' = Waiting \cup {r}
      BY <3>1, WaitingAfter DEF AddToQueue
    <3> QED  BY <1>2, <3>1, <3>2 DEF ReleaseSlots
  <2> QED  BY <1>5, <2>1, <2>2, <2>3, <2>4, <2>5 DEF RunShape
<1>6. ASSUME NEW open \in SUBSET Variants, NEW taken \in SUBSET Runs,
             NEW claimed \in SUBSET Runs, TakeStep(open, taken, claimed)
      PROVE  [Slots!Next]_(Slots!vars)
  <2>1. /\ Waiting' = Waiting \ taken
        /\ envCurrentConcurrency' = envCurrentConcurrency \cup claimed
    BY <1>6, WaitingAfter DEF TakeStep, ClaimSlots
  <2>2. /\ claimed \subseteq taken /\ taken \subseteq Waiting
        /\ Cardinality(claimed) <= EnvAvailable
        /\ \A r, s \in claimed : VariantOf[r] = VariantOf[s] => r = s
        /\ \A r \in claimed : VariantAvailable(VariantOf[r]) > 0
    BY <1>6 DEF TakeStep, Waiting
  <2>3. CASE claimed = {}
    \* Stale entries leave: the runs of taken hold no slot.
    <3>1. \A r \in taken : r \notin envCurrentConcurrency
      BY <2>2 DEF Places, PlaceOk, EnvMirrorsVariants, Waiting
    <3>2. envCurrentConcurrency' = envCurrentConcurrency \ taken
      BY <2>1, <2>3, <3>1
    <3> QED  BY <1>3, <2>1, <3>2
  <2>4. CASE claimed # {}
    <3>1. taken \ claimed \in SUBSET (Waiting \ claimed)
      BY <2>2
    <3>2. Waiting' = Waiting \ (claimed \cup (taken \ claimed))
      BY <2>1, <2>2
    <3> QED  BY <1>4, <2>1, <2>2, <2>4, <3>1, <3>2
  <2> QED  BY <2>3, <2>4
<1>7. ASSUME NEW batch \in SUBSET Runs, ExpireStep(batch) PROVE [Slots!Next]_(Slots!vars)
  BY <1>3, <1>7, WaitingAfter DEF ExpireStep, ReleaseSlots
<1>8. CASE StillStep \/ ForgetStep \/ AgeStep
  <2>1. Waiting' = Waiting
    BY <1>8, WaitingAfter DEF StillStep, ForgetStep, AgeStep
  <2> QED  BY <1>1, <1>8, <2>1 DEF StillStep, ForgetStep, AgeStep, mapped
<1> QED
  BY <1>5, <1>6, <1>7, <1>8 DEF Shape

\* The concurrency-key queues implement the slot queue: a run waits or holds a
\* slot, and gets it within the limits of its variant and of the environment.
THEOREM SlotsImplemented == Spec => ImplementsSlotQueue
<1>1. CkInv /\ [Next]_vars => [Slots!Next]_(Slots!vars)
  BY Shapes, SlotsStep DEF CkInv, TypeOK, StoreTypes
<1> QED
  BY <1>1, SlotsInit, CkInvariant, PTL DEF Spec, ImplementsSlotQueue, Slots!Spec

-----------------------------------------------------------------------------
(* A run that executes holds a slot *)

\* Whoever may start the run, or has started it, acts on a message and a slot that
\* exist; so does the entry that its worker will pop, if the message does.  No run
\* that holds a slot can expire, and none that must not be in the TTL set is.
ChargedOk(r) ==
  /\ phase[r] = "Executing" \/ (r \in delivered /\ phase[r] = "Queued") =>
       message[r] # Absent /\ r \in queueCurrentConcurrency
  /\ workerQueue[r] > 0 /\ message[r] # Absent => r \in queueCurrentConcurrency
  /\ r \in queueCurrentConcurrency \/ phase[r] \in {"New", "Suspended"} =>
       ttlQueue[r] = Absent
  /\ ttlQueue[r] # Absent /\ message[r] # Absent => message[r].ttl # Absent

Charged == \A r \in Runs : ChargedOk(r)

LEMMA SameCharge ==
  ASSUME NEW r, ChargedOk(r), SameAt(r), ttlQueue'[r] = ttlQueue[r]
  PROVE  ChargedOk(r)'
BY DEF ChargedOk, SameAt

\* A handler adds its own run to the TTL set, at most.
LEMMA RunStepTtl ==
  ASSUME TypeOK, NEW r \in Runs, RunStep(r)
  PROVE  \A s \in Runs \ {r} : ttlQueue'[s] = ttlQueue[s]
<1>1. ASSUME NEW msg, EnqueueSlow(r, msg)
      PROVE  \A s \in Runs \ {r} : ttlQueue'[s] = ttlQueue[s]
  BY <1>1 DEF EnqueueSlow, TypeOK
<1>2. CASE Trigger(r)
  BY <1>1, <1>2 DEF Trigger, EnqueueFast
<1>3. CASE Resume(r) \/ RedriveMessage(r)
  BY <1>1, <1>3 DEF Resume, RedriveMessage
<1>4. CASE UNCHANGED ttlQueue
  BY <1>4
<1> QED
  BY <1>2, <1>3, <1>4
     DEF RunStep, DequeueMessageFromWorkerQueue, StartRun, RejectDelivery, Nack,
         NackUndelivered, WorkerMismatch, CompleteRun, CancelRun, Suspend,
         CrashBeforeAck, SweepFinishedRun

\* The slow path of an enqueue, of a run that waits at no worker.
LEMMA EnqueueSlowCharge ==
  ASSUME TypeOK, NEW r \in Runs, ChargedOk(r), NEW msg, EnqueueSlow(r, msg),
         workerQueue[r] = 0, r \notin delivered,
         ttlQueue[r] = Absent \/ (message[r] # Absent /\ msg.ttl = message[r].ttl),
         phase'[r] \in {"Queued", "Finished"}, UNCHANGED delivered
  PROVE  ChargedOk(r)'
<1>1. /\ message'[r] = msg /\ workerQueue'[r] = 0
      /\ r \notin queueCurrentConcurrency'
  BY EnqueueSlowTouches
<1>2. ttlQueue'[r] # Absent => msg.ttl # Absent
  BY DEF EnqueueSlow, ChargedOk, TypeOK
<1> QED
  BY <1>1, <1>2 DEF ChargedOk

\* A requeued message keeps its TTL.
LEMMA RequeueKeepsTtl ==
  ASSUME TypeOK, NEW r \in Runs, message[r] # Absent, Requeue(r)
  PROVE  message'[r].ttl = message[r].ttl
<1>1. message[r] \in Message
  BY DEF TypeOK
<1>2. message'[r] = [message[r] EXCEPT !.attempt = message[r].attempt + 1]
  BY DEF Requeue, TypeOK
<1> QED
  BY <1>1, <1>2 DEF Message

\* A run without a message and without a copy is charged nothing.
LEMMA GoneCharge ==
  ASSUME NEW r \in Runs, ChargedOk(r), phase'[r] \in {"Queued", "Finished"},
         message'[r] = Absent \/ workerQueue'[r] = 0,
         phase'[r] = "Queued" => r \notin delivered',
         r \in queueCurrentConcurrency' => r \in queueCurrentConcurrency,
         UNCHANGED ttlQueue,
         message'[r] # Absent => message[r] # Absent /\ message'[r].ttl = message[r].ttl,
         workerQueue'[r] \in Nat
  PROVE  ChargedOk(r)'
BY DEF ChargedOk

\* A run that is acknowledged when it finished.
LEMMA FinishCharge ==
  ASSUME TypeOK, NEW r \in Runs, ChargedOk(r), NEW remove \in BOOLEAN,
         AcknowledgeMessage(r, remove), phase'[r] = "Finished", UNCHANGED ttlQueue
  PROVE  ChargedOk(r)'
<1>1. /\ message'[r] = Absent
      /\ r \in queueCurrentConcurrency' => r \in queueCurrentConcurrency
  BY AcknowledgeTouches
<1> QED
  BY <1>1 DEF ChargedOk

\* A nack of a run that is at its worker.
LEMMA TryNackCharge ==
  ASSUME TypeOK, NEW r \in Runs, PlaceOk(r), ChargedOk(r), TryNackAndRequeue(r),
         workerQueue[r] = 0, r \notin delivered', UNCHANGED ttlQueue
  PROVE  ChargedOk(r)'
<1>1. CASE message[r] = Absent /\ SystemFailure(r)
  <2>1. /\ phase'[r] = "Finished" /\ message'[r] = Absent
        /\ workerQueue'[r] = 0
        /\ r \in queueCurrentConcurrency' => r \in queueCurrentConcurrency
    BY <1>1, SystemFailureTouches DEF TypeOK
  <2> QED  BY <2>1, GoneCharge
<1>2. CASE /\ message[r] # Absent /\ AttemptsLeft(r)
           /\ Requeue(r)
           /\ SetPhase(r, "Queued")
           /\ UNCHANGED <<workerQueue, deadLetterQueue>>
  <2>1. phase'[r] = "Queued" /\ workerQueue'[r] = 0
    BY <1>2 DEF SetPhase, TypeOK
  <2>2. message'[r].ttl = message[r].ttl /\ r \notin queueCurrentConcurrency'
    BY <1>2, RequeueKeepsTtl, RequeueTouches
  <2> QED  BY <1>2, <2>1, <2>2, GoneCharge
<1>3. CASE /\ MoveToDeadLetterQueue(r)
           /\ IF phase[r] = "Finished" THEN UNCHANGED <<message, workerQueue>>
              ELSE /\ message' = [message EXCEPT ![r] = Absent]
                   /\ workerQueue' = [workerQueue EXCEPT ![r] = 0]
           /\ SetPhase(r, "Finished")
  <2>1. /\ phase'[r] = "Finished" /\ workerQueue'[r] = 0
        /\ message'[r] \in {message[r], Absent}
    BY <1>3 DEF SetPhase, TypeOK
  <2>2. r \notin queueCurrentConcurrency'
    BY <1>3, DeadLetterTouches
  <2> QED  BY <2>1, <2>2, GoneCharge
<1> QED
  BY <1>1, <1>2, <1>3 DEF TryNackAndRequeue

\* A handler keeps its run charged while it executes.
LEMMA RunStepCharge ==
  ASSUME TypeOK, NEW r \in Runs, PlaceOk(r), ChargedOk(r), RunStep(r)
  PROVE  ChargedOk(r)'
<1>1. CASE Trigger(r)
  <2>1. PICK ttl \in {Absent} \cup TtlDelays, fast \in FastPath :
          \/ EnqueueFast(r, [attempt |-> 0, ttl |-> ttl])
          \/ EnqueueSlow(r, [attempt |-> 0, ttl |-> ttl])
    BY <1>1 DEF Trigger
  <2> DEFINE msg == [attempt |-> 0, ttl |-> ttl]
  <2>2. /\ phase[r] = "New" /\ phase'[r] = "Queued" /\ UNCHANGED delivered
        /\ workerQueue[r] = 0 /\ r \notin delivered /\ ttlQueue[r] = Absent
    BY <1>1 DEF Trigger, SetPhase, PlaceOk, ChargedOk, TypeOK
  <2>3. CASE EnqueueFast(r, msg)
    <3>1. r \in queueCurrentConcurrency' /\ UNCHANGED ttlQueue
      BY <2>3 DEF EnqueueFast, ClaimSlots
    <3> QED  BY <2>2, <3>1 DEF ChargedOk
  <2>4. CASE EnqueueSlow(r, msg)
    <3> HIDE DEF msg
    <3> QED  BY <2>2, <2>4, EnqueueSlowCharge
  <2> QED  BY <2>1, <2>3, <2>4
<1>2. CASE Resume(r)
  BY <1>2, EnqueueSlowCharge DEF Resume, SetPhase, PlaceOk, ChargedOk, TypeOK
<1>3. CASE RedriveMessage(r)
  <2>1. /\ message[r] # Absent /\ phase'[r] \in {"Queued", "Finished"}
        /\ workerQueue[r] = 0 /\ r \notin delivered /\ UNCHANGED delivered
        /\ EnqueueSlow(r, [message[r] EXCEPT !.attempt = 0])
    BY <1>3 DEF RedriveMessage, PlaceOk
  <2>2. [message[r] EXCEPT !.attempt = 0].ttl = message[r].ttl
    BY <2>1 DEF TypeOK, Message
  <2> QED  BY <2>1, <2>2, EnqueueSlowCharge
<1>4. CASE DequeueMessageFromWorkerQueue(r)
  BY <1>4 DEF DequeueMessageFromWorkerQueue, PlaceOk, ChargedOk, TypeOK
<1>5. CASE StartRun(r) \/ CrashBeforeAck(r)
  BY <1>5 DEF StartRun, CrashBeforeAck, SetPhase, ChargedOk, TypeOK
<1>6. CASE RejectDelivery(r)
  <2>1. /\ workerQueue[r] = 0 /\ UNCHANGED ttlQueue /\ SystemFailure(r)
        /\ r \notin delivered'
    BY <1>6 DEF RejectDelivery, PlaceOk
  <2>2. /\ phase'[r] = "Finished" /\ workerQueue'[r] = 0
        /\ message'[r] \in {message[r], Absent}
        /\ r \in queueCurrentConcurrency' => r \in queueCurrentConcurrency
    BY <2>1, SystemFailureTouches DEF TypeOK
  <2> QED  BY <2>1, <2>2, GoneCharge
<1>7. CASE Nack(r)
  BY <1>7, TryNackCharge DEF Nack, PlaceOk
<1>8. CASE NackUndelivered(r)
  BY <1>8, TryNackCharge DEF NackUndelivered, PlaceOk
<1>9. CASE WorkerMismatch(r)
  <2>1. /\ phase'[r] = "Queued" /\ r \notin delivered' /\ workerQueue'[r] = 0
        /\ UNCHANGED <<workerQueue, ttlQueue>> /\ NackOnly(r)
        /\ message[r] # Absent
    BY <1>9 DEF WorkerMismatch, PlaceOk, ChargedOk
  <2>2. CASE AttemptsLeft(r) /\ Requeue(r) /\ UNCHANGED deadLetterQueue
    <3>1. message'[r].ttl = message[r].ttl /\ r \notin queueCurrentConcurrency'
      BY <2>1, <2>2, RequeueKeepsTtl, RequeueTouches
    <3> QED  BY <2>1, <3>1, GoneCharge
  <2>3. CASE MoveToDeadLetterQueue(r) /\ UNCHANGED message
    <3>1. r \notin queueCurrentConcurrency'
      BY <2>3, DeadLetterTouches
    <3> QED  BY <2>1, <2>3, <3>1, GoneCharge
  <2> QED  BY <2>1, <2>2, <2>3 DEF NackOnly
<1>10. CASE CompleteRun(r)
  BY <1>10, FinishCharge DEF CompleteRun, SetPhase, TypeOK
<1>11. CASE CancelRun(r)
  BY <1>11, FinishCharge DEF CancelRun, SetPhase, TypeOK
<1>12. CASE Suspend(r)
  <2>1. /\ phase'[r] = "Suspended" /\ ttlQueue'[r] = Absent
        /\ workerQueue'[r] = 0
    BY <1>12 DEF Suspend, SetPhase, PlaceOk, ChargedOk, TypeOK
  <2> QED  BY <2>1 DEF ChargedOk
<1>13. CASE SweepFinishedRun(r)
  BY <1>13, FinishCharge DEF SweepFinishedRun
<1> QED
  BY <1>1, <1>2, <1>3, <1>4, <1>5, <1>6, <1>7, <1>8, <1>9, <1>10, <1>11, <1>12, <1>13
     DEF RunStep

\* Every step keeps every run charged while it executes.
LEMMA ChargedStep ==
  ASSUME TypeOK, Places, Charged, [Next]_vars
  PROVE  Charged'
<1>1. CASE \E r \in Runs : RunStep(r)
  BY <1>1, RunStepPlace, RunStepTtl, RunStepCharge, SameCharge DEF Places, Charged
<1>2. CASE DequeueMessages
  <2>1. PICK open \in SUBSET Variants, taken \in SUBSET Runs :
          /\ \A r \in taken : queue[r] # Absent
          /\ Claimable(taken) \subseteq taken
          /\ Take(open, taken)
    BY <1>2, DequeueTakes
  <2>2. \A r \in Claimable(taken) : message[r] # Absent
    BY DEF Claimable
  <2>3. /\ queueCurrentConcurrency' = queueCurrentConcurrency \cup Claimable(taken)
        /\ workerQueue' = [r \in Runs |-> workerQueue[r] + (IF r \in Claimable(taken) THEN 1 ELSE 0)]
        /\ ttlQueue' = Zrem(ttlQueue, {r \in Claimable(taken) : message[r].ttl # Absent})
        /\ UNCHANGED <<message, delivered, phase>>
    BY <2>1 DEF Take, ClaimSlots, PushEntries
  <2>4. ASSUME NEW r \in Runs PROVE ChargedOk(r)'
    <3>1. PlaceOk(r) /\ ChargedOk(r) /\ workerQueue[r] \in Nat
      BY DEF Places, Charged, TypeOK
    <3>2. CASE r \in Claimable(taken)
      <4>1. ttlQueue'[r] = Absent
        BY <2>2, <2>3, <3>1, <3>2 DEF Zrem, ChargedOk
      <4> QED  BY <2>3, <3>1, <3>2, <4>1 DEF ChargedOk
    <3>3. CASE r \notin Claimable(taken)
      <4>1. ttlQueue'[r] = ttlQueue[r] /\ workerQueue'[r] = workerQueue[r]
        BY <2>3, <3>1, <3>3 DEF Zrem
      <4> QED  BY <2>3, <3>1, <3>3, <4>1 DEF ChargedOk
    <3> QED  BY <3>2, <3>3
  <2> QED  BY <2>4 DEF Charged
<1>3. CASE ExpireTtlRuns
  <2>1. PICK batch :
          /\ \A r \in batch : ttlQueue[r] # Absent
          /\ ttlQueue' = Zrem(ttlQueue, batch)
          /\ message' = [r \in Runs |-> IF r \in batch THEN Absent ELSE message[r]]
          /\ ReleaseSlots(batch)
          /\ phase' = [r \in Runs |-> IF r \in batch /\ phase[r] = "Queued"
                                      THEN "Finished" ELSE phase[r]]
    BY <1>3 DEF ExpireTtlRuns, FirstOf
  <2>2. UNCHANGED <<workerQueue, delivered>>
    BY <1>3 DEF ExpireTtlRuns
  <2> QED
    BY <2>1, <2>2 DEF Charged, ChargedOk, Zrem, ReleaseSlots, TypeOK
<1>4. CASE ExpireCounter
  BY <1>4 DEF ExpireCounter, Charged, ChargedOk
<1>5. CASE Tick
  <2>1. ASSUME NEW r \in Runs
        PROVE  /\ message'[r] = Absent <=> message[r] = Absent
               /\ message[r] # Absent => (message'[r].ttl = Absent <=> message[r].ttl = Absent)
               /\ ttlQueue'[r] = Absent <=> ttlQueue[r] = Absent
    <3>1. \A score \in Scores : Aged(score) = Absent <=> score = Absent
      BY CkBoundsAssumption, AbsentIsNoTime DEF Aged, Scores
    <3>2. CASE message[r] # Absent
      <4>1. message[r] \in Message /\ message[r].ttl \in Scores
        BY <3>2, MessageTypes DEF TypeOK
      <4>2. message'[r] = [message[r] EXCEPT !.ttl = Aged(message[r].ttl)]
        BY <1>5, <3>2 DEF Tick
      <4>3. message'[r] # Absent
        BY <4>1, <4>2, MessageTypes, MessageIsPresent
      <4>4. message'[r].ttl = Aged(message[r].ttl)
        BY <4>1, <4>2 DEF Message
      <4> QED  BY <1>5, <3>1, <3>2, <4>1, <4>3, <4>4 DEF Tick, TypeOK
    <3>3. CASE message[r] = Absent
      BY <1>5, <3>1, <3>3 DEF Tick, TypeOK
    <3> QED  BY <3>2, <3>3
  <2>2. UNCHANGED <<slots, workerQueue, delivered, phase>>
    BY <1>5 DEF Tick
  <2> QED  BY <2>1, <2>2 DEF Charged, ChargedOk
<1>6. CASE UNCHANGED vars
  BY <1>6 DEF vars, Charged, ChargedOk
<1> QED
  BY <1>1, <1>2, <1>3, <1>4, <1>5, <1>6 DEF Next

LEMMA ChargedInvariant == Spec => []Charged
<1>1. Init => Charged
  BY DEF Init, Charged, ChargedOk
<1>2. CkInv /\ Charged /\ [Next]_vars => Charged'
  BY ChargedStep DEF CkInv
<1> QED
  BY <1>1, <1>2, CkInvariant, PTL DEF Spec

-----------------------------------------------------------------------------
(* What executes fits the limits *)

\* The slots that are taken fit the limits, those of the environment and those of
\* each variant: the limits of a specification never change.
SlotsFit ==
  /\ Cardinality(envCurrentConcurrency) <= (EnvLimit * BurstNum) \div BurstDen
  /\ \A v \in Variants :
       Cardinality(envCurrentConcurrency \cap RunsOf(v)) <= VariantCapacity

LEMMA SlotsFitInit == Init => SlotsFit
<1> SUFFICES ASSUME Init PROVE SlotsFit
  OBVIOUS
<1>1. envCurrentConcurrency = {} /\ \A v : envCurrentConcurrency \cap RunsOf(v) = {}
  BY DEF Init
<1>2. Cardinality({}) = 0
  BY FS_EmptySet
<1> QED  BY <1>1, <1>2, CapacityType DEF SlotsFit

\* Slots are only taken within the limits.
LEMMA SlotsFitStep ==
  ASSUME StoreTypes, SlotsFit, [Slots!Next]_(Slots!vars)
  PROVE  SlotsFit'
<1> DEFINE running == envCurrentConcurrency
           cap == (EnvLimit * BurstNum) \div BurstDen
<1>1. CASE running' \subseteq running
  <2>1. running \in SUBSET Runs
    BY DEF StoreTypes
  <2>2. cap \in Nat /\ VariantCapacity \in Nat
    BY CapacityType
  <2>4. Cardinality(running') <= cap
    <3> HIDE DEF cap
    <3>1. Cardinality(running) <= cap
      BY DEF SlotsFit, cap
    <3> QED  BY <1>1, <2>1, <2>2, <3>1, PartFits
  <2>5. ASSUME NEW v \in Variants
        PROVE  Cardinality(running' \cap RunsOf(v)) <= VariantCapacity
    <3>1. /\ running \cap RunsOf(v) \in SUBSET Runs
          /\ running' \cap RunsOf(v) \in SUBSET (running \cap RunsOf(v))
      BY <1>1, <2>1
    <3>2. Cardinality(running \cap RunsOf(v)) <= VariantCapacity
      BY DEF SlotsFit
    <3> QED  BY <2>2, <3>1, <3>2, PartFits
  <2> QED  BY <2>4, <2>5 DEF SlotsFit, RunsOf, VariantCapacity
<1>2. ASSUME NEW S \in SUBSET Runs, NEW gone, Slots!Claim(S, gone)
      PROVE  SlotsFit'
  <2>1. /\ running' = running \cup S
        /\ Slots!FitsEnvironment(running \cup S)
        /\ \A r \in S : Slots!FitsQueue(running \cup S, VariantOf[r])
    BY <1>2 DEF Slots!Claim
  <2>2. Cardinality(running') <= cap
    BY <2>1, SameCardinality DEF Slots!FitsEnvironment
  <2>3. ASSUME NEW v \in Variants
        PROVE  Cardinality(running' \cap RunsOf(v)) <= VariantCapacity
    <3>1. CASE \E r \in S : VariantOf[r] = v
      <4>1. Slots!FitsQueue(running \cup S, v)
        BY <2>1, <3>1
      <4>2. Slots!OfQueue(running \cup S, v) = running' \cap RunsOf(v)
        BY <2>1 DEF Slots!OfQueue, RunsOf, StoreTypes
      <4>3. Slots!OwnLimit(v) = QueueLimit
        BY DEF Slots!OwnLimit
      <4>4. /\ Cardinality(running' \cap RunsOf(v)) <= QueueLimit
            /\ Cardinality(running' \cap RunsOf(v)) <= EnvLimit
        BY <4>1, <4>2, <4>3, SameCardinality DEF Slots!FitsQueue
      <4> QED  BY <4>4 DEF VariantCapacity
    <3>2. CASE ~ \E r \in S : VariantOf[r] = v
      <4>1. running' \cap RunsOf(v) = running \cap RunsOf(v)
        BY <2>1, <3>2 DEF RunsOf
      <4> QED  BY <4>1 DEF SlotsFit
    <3> QED  BY <3>1, <3>2
  <2> QED  BY <2>2, <2>3 DEF SlotsFit, RunsOf, VariantCapacity
<1>3. running' \subseteq running \/ \E S \in SUBSET Runs : \E gone : Slots!Claim(S, gone)
  BY DEF Slots!Next, Slots!vars, Slots!Wait, Slots!Leave, Slots!SetLimits
<1> QED
  BY <1>1, <1>2, <1>3

LEMMA SlotsFitInvariant == Spec => []SlotsFit
<1>1. CkInv /\ SlotsFit /\ [Next]_vars => SlotsFit'
  BY Shapes, SlotsStep, SlotsFitStep DEF CkInv, TypeOK, StoreTypes
<1> QED
  BY <1>1, SlotsFitInit, CkInvariant, PTL DEF Spec

\* No more runs execute at once than the environment's limit allows, and of one
\* concurrency key no more than its own, for any number of runs and keys.
THEOREM ExecutionIsBounded == Spec => []ExecutingFitsLimits
<1>1. CkInv /\ Charged /\ SlotsFit => ExecutingFitsLimits
  <2> SUFFICES ASSUME CkInv, Charged, SlotsFit PROVE ExecutingFitsLimits
    OBVIOUS
  <2> DEFINE running == envCurrentConcurrency
             cap == (EnvLimit * BurstNum) \div BurstDen
  <2>1. running \in SUBSET Runs /\ ExecutingRuns \subseteq running
    BY DEF CkInv, TypeOK, EnvMirrorsVariants, Charged, ChargedOk, ExecutingRuns
  <2>2. cap \in Nat /\ VariantCapacity \in Nat
    BY CapacityType
  <2>4. Cardinality(ExecutingRuns) <= cap
    <3> HIDE DEF cap
    <3>1. Cardinality(running) <= cap
      BY DEF SlotsFit, cap
    <3> QED  BY <2>1, <2>2, <3>1, PartFits
  <2>5. ASSUME NEW v \in Variants
        PROVE  Cardinality(ExecutingRuns \cap RunsOf(v)) <= VariantCapacity
    <3>1. /\ running \cap RunsOf(v) \in SUBSET Runs
          /\ ExecutingRuns \cap RunsOf(v) \in SUBSET (running \cap RunsOf(v))
      BY <2>1
    <3>2. Cardinality(running \cap RunsOf(v)) <= VariantCapacity
      BY DEF SlotsFit
    <3> QED  BY <2>2, <3>1, <3>2, PartFits
  <2> QED  BY <2>4, <2>5 DEF ExecutingFitsLimits
<1> QED
  BY <1>1, CkInvariant, ChargedInvariant, SlotsFitInvariant, PTL

=============================================================================
