--------------------------- MODULE JobQueueProofs ---------------------------
(* What is proved of JobQueue for any ids, processes, handlers and bounds. *)
EXTENDS JobQueue, TLAPS

USE JobsAssumption, JobBoundsAssumption, AbsentAssumption

\* nanoid() returns a key that no item and no handler has.
LEMMA FreshKeyIsFresh == HasFreshKey => FreshKey \in Keys /\ ~InUse(FreshKey)
  BY Zenon DEF HasFreshKey, FreshKey

LEMMA NewItemType ==
  ASSUME TypeOK, jobs < MaxJobs, HasFreshKey
  PROVE  NewItem \in Item /\ jobs + 1 \in 1..MaxJobs
<1>1. jobs + 1 \in 1..MaxJobs  BY SMT DEF TypeOK
<1>2. FreshKey \in Keys  BY FreshKeyIsFresh
<1> QED  BY <1>1, <1>2, SMT DEF NewItem, Item

-----------------------------------------------------------------------------
(* Types *)

LEMMA ProducersKeepTypes ==
  ASSUME TypeOK, NEW id \in Ids, ProducerStep(id)
  PROVE  TypeOK'
<1>1. ASSUME NEW scores \in SUBSET Int, Issue(id, scores) PROVE TypeOK'
  <2>1. NewItem \in Item /\ jobs + 1 \in 1..MaxJobs
    BY <1>1, NewItemType DEF Issue
  <2>2. jobs' \in 0..MaxJobs /\ latest' \in [Ids -> 0..MaxJobs]
    BY <1>1, <2>1, SMT DEF Issue, TypeOK
  <2>3. queue' \in [Ids -> Int \cup {Absent}]
    BY <1>1 DEF Issue, EnqueueItem, Zadd, TypeOK
  <2>4. items' \in [Ids -> Item \cup {Absent}]
    BY <1>1, <2>1 DEF Issue, EnqueueItem, Zadd, TypeOK
  <2> QED  BY <1>1, <2>2, <2>3, <2>4 DEF Issue, TypeOK
<1>2. CASE Enqueue(id)  BY <1>1, <1>2 DEF Enqueue
<1>3. CASE EnqueueOnce(id)
  <2>1. (IF queue[id] = Absent THEN Delays ELSE {queue[id]}) \in SUBSET Int
    BY DEF TypeOK
  <2> QED  BY <1>1, <1>3, <2>1 DEF EnqueueOnce
<1>4. CASE Reschedule(id)
  BY <1>4 DEF Reschedule, Zadd, TypeOK, producer
<1>5. CASE RemoveJob(id)
  <2>1. latest' \in [Ids -> 0..MaxJobs]
    BY <1>5, SMT DEF RemoveJob, TypeOK
  <2> QED  BY <1>5, <2>1 DEF RemoveJob, Remove, TypeOK
<1>6. CASE RedriveFromDeadLetterQueue(id)
  <2>1. deadLetters[id] \in Item  BY <1>6 DEF RedriveFromDeadLetterQueue, TypeOK
  <2>2. queue' \in [Ids -> Int \cup {Absent}]
    BY <1>6 DEF RedriveFromDeadLetterQueue, EnqueueItem, Zadd, TypeOK
  <2> QED
    BY <1>6, <2>1, <2>2 DEF RedriveFromDeadLetterQueue, EnqueueItem, TypeOK, producer
<1> QED  BY <1>2, <1>3, <1>4, <1>5, <1>6 DEF ProducerStep

LEMMA HandlersKeepTypes ==
  ASSUME TypeOK, NEW h \in Handlers, HandlerStep(h)
  PROVE  TypeOK'
<1>0. task[h] \in Task /\ task[h].id \in Ids /\ task[h].item \in Item
      /\ task[h].item.work \in 1..MaxJobs /\ task[h].item.attempt \in 0..(MaxAttempts - 1)
  <2>1. task[h] \in Task
    BY DEF TypeOK, HandlerStep, HandlerReturns, HandlerThrows, AckItem, AckRejects,
           RequeueItem, MoveToDeadLetterQueue, RequeueRejects
  <2> QED  BY <2>1 DEF Task, Item
<1>a. ASSUME NEW step \in {"running", "returned", "threw"}, SetStep(h, step)
      PROVE  task' \in [Handlers -> Task \cup {Absent}]
  <2>1. [task[h] EXCEPT !.step = step] \in Task  BY <1>0 DEF Task
  <2> QED  BY <1>a, <2>1 DEF SetStep, TypeOK
<1>b. Finish(h) => task' \in [Handlers -> Task \cup {Absent}]
  BY DEF Finish, TypeOK
<1>c. ASSUME NEW id \in Ids, Remove(id)
      PROVE  queue' \in [Ids -> Int \cup {Absent}] /\ items' \in [Ids -> Item \cup {Absent}]
  BY <1>c DEF Remove, TypeOK
<1>d. ASSUME Ack(task[h].id, task[h].item.key)
      PROVE  queue' \in [Ids -> Int \cup {Absent}] /\ items' \in [Ids -> Item \cup {Absent}]
  BY <1>0, <1>c, <1>d DEF Ack, TypeOK
<1>1. CASE HandlerReturns(h)
  BY <1>1, <1>0, <1>a DEF HandlerReturns, TypeOK, producer
<1>2. CASE HandlerThrows(h)
  BY <1>2, <1>a DEF HandlerThrows, TypeOK, producer
<1>3. CASE AckItem(h)
  BY <1>3, <1>b, <1>d DEF AckItem, TypeOK, producer
<1>4. CASE AckRejects(h)
  BY <1>4, <1>a, <1>d DEF AckRejects, TypeOK, producer
<1>5. CASE RequeueItem(h)
  <2>1. task[h].item.attempt + 1 \in 0..(MaxAttempts - 1)
    BY <1>5, <1>0, SMT DEF RequeueItem, RetriesLeft
  <2>2. FreshKey \in Keys  BY <1>5, FreshKeyIsFresh DEF RequeueItem
  <2>3. [task[h].item EXCEPT !.key = FreshKey, !.attempt = @ + 1] \in Item
    BY <1>0, <2>1, <2>2 DEF Item
  <2>4. queue' \in [Ids -> Int \cup {Absent}] /\ items' \in [Ids -> Item \cup {Absent}]
    BY <1>5, <1>0, <2>3 DEF RequeueItem, EnqueueItem, Zadd, TypeOK
  <2> QED  BY <1>5, <1>b, <2>4 DEF RequeueItem, TypeOK, producer
<1>6. CASE MoveToDeadLetterQueue(h)
  BY <1>6, <1>0, <1>b, <1>c DEF MoveToDeadLetterQueue, TypeOK, producer
<1>7. CASE RequeueRejects(h)
  BY <1>7, <1>b DEF RequeueRejects, TypeOK, producer
<1> QED
  BY <1>1, <1>2, <1>3, <1>4, <1>5, <1>6, <1>7 DEF HandlerStep

\* Whom a batch is delivered to, and with what.
LEMMA DeliverType ==
  ASSUME TypeOK, NEW p \in Processes, NEW live \in SUBSET Ids,
         \A id \in live : items[id] # Absent,
         NEW got \in [Free(p) -> live \cup {Absent}], Deliver(p, got)
  PROVE  task' \in [Handlers -> Task \cup {Absent}]
<1>1. ASSUME NEW h \in Handlers, h \in Free(p), got[h] # Absent
      PROVE  [id |-> got[h], item |-> items[got[h]],
              until |-> VisibilityTimeout, step |-> "running"] \in Task
  <2>1. got[h] \in Ids /\ items[got[h]] \in Item  BY <1>1 DEF TypeOK
  <2> QED  BY <2>1, SMT DEF Task
<1> QED  BY <1>1 DEF Deliver, TypeOK

LEMMA DequeueKeepsTypes ==
  ASSUME TypeOK, NEW p \in Processes, DequeueItems(p)
  PROVE  TypeOK'
<1>1. PICK batch \in DueBatches(Min({DequeueCount, Cardinality(Free(p))})) :
        LET live == {id \in batch : items[id] # Absent} IN
        /\ queue' = [id \in Ids |-> IF id \in batch \ live THEN Absent
                                    ELSE Hide(live)[id]]
        /\ \E got \in Deliveries(p, live) : Deliver(p, got)
  BY DEF DequeueItems
<1> DEFINE live == {id \in batch : items[id] # Absent}
<1>2. batch \subseteq Ids  BY DEF DueBatches, DueIds
<1>3. live \in SUBSET Ids  BY <1>2
<1>4. task' \in [Handlers -> Task \cup {Absent}]
  <2>1. PICK got \in Deliveries(p, live) : Deliver(p, got)  BY <1>1
  <2>2. got \in [Free(p) -> live \cup {Absent}]  BY DEF Deliveries
  <2> QED  BY <1>3, <2>1, <2>2, DeliverType
<1>5. queue' \in [Ids -> Int \cup {Absent}]
  BY <1>1 DEF Hide, TypeOK
<1> QED  BY <1>4, <1>5 DEF DequeueItems, TypeOK, producer

LEMMA TickKeepsTypes == TypeOK /\ Tick => TypeOK'
<1> SUFFICES ASSUME TypeOK, Tick PROVE TypeOK'  OBVIOUS
<1>1. queue' \in [Ids -> Int \cup {Absent}]
  BY DEF Tick, TypeOK
<1>2. ASSUME NEW h \in Handlers, task[h] # Absent, task[h].until # 0
      PROVE  [task[h] EXCEPT !.until = @ - 1] \in Task
  <2>1. task[h] \in Task  BY <1>2 DEF TypeOK
  <2>2. task[h].until - 1 \in 0..VisibilityTimeout  BY <1>2, <2>1, SMT DEF Task
  <2> QED  BY <2>1, <2>2 DEF Task
<1>3. task' \in [Handlers -> Task \cup {Absent}]
  BY <1>2 DEF Tick, TypeOK
<1> QED  BY <1>1, <1>3 DEF Tick, TypeOK, producer

LEMMA CrashKeepsTypes ==
  ASSUME TypeOK, NEW p \in Processes, Crash(p) PROVE TypeOK'
  BY DEF Crash, TypeOK, producer

LEMMA TypeStep == TypeOK /\ [Next]_vars => TypeOK'
<1> SUFFICES ASSUME TypeOK, [Next]_vars PROVE TypeOK'  OBVIOUS
<1>1. CASE UNCHANGED vars  BY <1>1 DEF vars, producer, TypeOK
<1> QED
  BY <1>1, ProducersKeepTypes, HandlersKeepTypes, DequeueKeepsTypes, CrashKeepsTypes,
     TickKeepsTypes DEF Next

\* The variables keep their types: no item is retried past MaxAttempts, no job
\* is completed that was not issued.
THEOREM TypeCorrect == Spec => []TypeOK
<1>1. Init => TypeOK  BY SMT DEF Init, TypeOK
<1> QED  BY <1>1, TypeStep, PTL DEF Spec

-----------------------------------------------------------------------------
(* The sorted set and the hash *)

LEMMA EnqueueItemMatches ==
  ASSUME TypeOK, QueueMatchesItems,
         NEW id \in Ids, NEW item \in Item, NEW score \in Int, EnqueueItem(id, item, score)
  PROVE  QueueMatchesItems'
BY DEF EnqueueItem, Zadd, TypeOK, QueueMatchesItems

LEMMA RemoveMatches ==
  ASSUME TypeOK, QueueMatchesItems, NEW id \in Ids, Remove(id)
  PROVE  QueueMatchesItems'
BY DEF Remove, TypeOK, QueueMatchesItems

LEMMA MatchStep == TypeOK /\ QueueMatchesItems /\ [Next]_vars => QueueMatchesItems'
<1> SUFFICES ASSUME TypeOK, QueueMatchesItems, [Next]_vars PROVE QueueMatchesItems'
  OBVIOUS
<1>1. ASSUME NEW id \in Ids, NEW scores \in SUBSET Int, Issue(id, scores)
      PROVE  QueueMatchesItems'
  <2>1. NewItem \in Item  BY <1>1, NewItemType DEF Issue
  <2> QED  BY <1>1, <2>1, EnqueueItemMatches DEF Issue
<1>2. ASSUME NEW id \in Ids, ProducerStep(id) PROVE QueueMatchesItems'
  <2>1. CASE Enqueue(id)  BY <1>1, <2>1 DEF Enqueue
  <2>2. CASE EnqueueOnce(id)
    <3>1. (IF queue[id] = Absent THEN Delays ELSE {queue[id]}) \in SUBSET Int
      BY DEF TypeOK
    <3> QED  BY <1>1, <2>2, <3>1 DEF EnqueueOnce
  <2>3. CASE Reschedule(id)
    BY <2>3 DEF Reschedule, Zadd, TypeOK, QueueMatchesItems
  <2>4. CASE RemoveJob(id)  BY <2>4, RemoveMatches DEF RemoveJob
  <2>5. CASE RedriveFromDeadLetterQueue(id)
    <3>1. deadLetters[id] \in Item  BY <2>5 DEF RedriveFromDeadLetterQueue, TypeOK
    <3> QED  BY <2>5, <3>1, EnqueueItemMatches, SMT DEF RedriveFromDeadLetterQueue
  <2> QED  BY <1>2, <2>1, <2>2, <2>3, <2>4, <2>5 DEF ProducerStep
<1>3. ASSUME NEW h \in Handlers, HandlerStep(h) PROVE QueueMatchesItems'
  <2>0. task[h].id \in Ids /\ task[h].item \in Item
    <3>1. task[h] \in Task
      BY <1>3 DEF TypeOK, HandlerStep, HandlerReturns, HandlerThrows, AckItem, AckRejects,
                  RequeueItem, MoveToDeadLetterQueue, RequeueRejects
    <3> QED  BY <3>1 DEF Task
  <2>1. UNCHANGED <<queue, items>> => QueueMatchesItems'  BY DEF QueueMatchesItems
  <2>2. Ack(task[h].id, task[h].item.key) => QueueMatchesItems'
    BY <2>0, <2>1, RemoveMatches DEF Ack
  <2>3. CASE RequeueItem(h)
    <3>1. [task[h].item EXCEPT !.key = FreshKey, !.attempt = @ + 1] \in Item
      <4>1. FreshKey \in Keys  BY <2>3, FreshKeyIsFresh DEF RequeueItem
      <4>2. task[h].item.attempt + 1 \in 0..(MaxAttempts - 1)
        BY <2>0, <2>3, SMT DEF RequeueItem, RetriesLeft, Item
      <4> QED  BY <2>0, <4>1, <4>2 DEF Item
    <3> QED  BY <2>0, <2>3, <3>1, EnqueueItemMatches DEF RequeueItem
  <2>4. CASE MoveToDeadLetterQueue(h)
    BY <2>0, <2>1, <2>4, RemoveMatches DEF MoveToDeadLetterQueue
  <2> QED
    BY <1>3, <2>1, <2>2, <2>3, <2>4 DEF HandlerStep, HandlerReturns, HandlerThrows,
       AckItem, AckRejects, RequeueRejects
<1>4. ASSUME NEW p \in Processes, DequeueItems(p) PROVE QueueMatchesItems'
  <2>1. PICK batch \in DueBatches(Min({DequeueCount, Cardinality(Free(p))})) :
          LET live == {id \in batch : items[id] # Absent} IN
            queue' = [id \in Ids |-> IF id \in batch \ live THEN Absent
                                     ELSE Hide(live)[id]]
    BY <1>4 DEF DequeueItems
  <2>2. items' = items  BY <1>4 DEF DequeueItems
  <2> QED  BY <2>1, <2>2 DEF Hide, TypeOK, QueueMatchesItems
<1>5. ASSUME NEW p \in Processes, Crash(p) PROVE QueueMatchesItems'
  BY <1>5 DEF Crash, QueueMatchesItems
<1>6. CASE Tick
  BY <1>6 DEF Tick, TypeOK, QueueMatchesItems
<1>7. CASE UNCHANGED vars
  BY <1>7 DEF vars, QueueMatchesItems
<1> QED  BY <1>2, <1>3, <1>4, <1>5, <1>6, <1>7 DEF Next

\* The sorted set and the hash hold the same ids, whatever producers, operators
\* and failures do and however late a handler comes.
THEOREM QueueMatchesItemsAlways == Spec => []QueueMatchesItems
<1>1. Init => TypeOK /\ QueueMatchesItems
  BY SMT DEF Init, TypeOK, QueueMatchesItems
<1>2. TypeOK /\ QueueMatchesItems /\ [Next]_vars => (TypeOK /\ QueueMatchesItems)'
  BY TypeStep, MatchStep
<1> QED  BY <1>1, <1>2, PTL DEF Spec

-----------------------------------------------------------------------------
(* No job is lost while handlers succeed *)

\* A handler that has the key of an item has its job, and a handler that is about
\* to acknowledge has completed it.
SurvivalInv ==
  /\ \A id \in Ids : deadLetters[id] = Absent
  /\ \A h \in Handlers : task[h] # Absent =>
       /\ task[h].step # "threw"
       /\ task[h].step = "returned" => task[h].item.work \in handled
       /\ items[task[h].id] # Absent /\ items[task[h].id].key = task[h].item.key
          => items[task[h].id].work = task[h].item.work
  /\ LatestJobSurvives

LEMMA IssueKeepsSurvival ==
  ASSUME TypeOK, SurvivalInv, NEW id \in Ids, NEW scores, Issue(id, scores)
  PROVE  SurvivalInv'
<1>1. ~InUse(FreshKey)  BY FreshKeyIsFresh DEF Issue
<1>2. items' = [items EXCEPT ![id] = NewItem]  BY DEF Issue, EnqueueItem
<1>3. NewItem \in Item /\ NewItem # Absent  BY NewItemType DEF Issue
<1>4. NewItem.key = FreshKey /\ NewItem.work = jobs + 1  BY DEF NewItem
<1>5. ASSUME NEW h \in Handlers, task[h] # Absent,
             items'[task[h].id] # Absent, items'[task[h].id].key = task[h].item.key
      PROVE  items'[task[h].id].work = task[h].item.work
  <2>1. task[h].id \in Ids  BY <1>5 DEF TypeOK, Task
  <2>2. task[h].item.key # FreshKey  BY <1>1, <1>5 DEF InUse
  <2>3. task[h].id # id  BY <1>2, <1>4, <1>5, <2>1, <2>2 DEF TypeOK
  <2> QED  BY <1>2, <1>5, <2>1, <2>3 DEF TypeOK, SurvivalInv
<1>6. LatestJobSurvives'
  <2>1. latest' = [latest EXCEPT ![id] = jobs + 1] /\ UNCHANGED <<deadLetters, handled>>
    BY DEF Issue
  <2>2. SUFFICES ASSUME NEW other \in Ids, latest'[other] # 0
                 PROVE  \/ latest'[other] \in handled
                        \/ /\ items'[other] # Absent
                           /\ items'[other].work = latest'[other]
                        \/ /\ deadLetters[other] # Absent
                           /\ deadLetters[other].work = latest'[other]
    BY <2>1 DEF LatestJobSurvives
  <2>3. CASE other = id
    BY <1>2, <1>3, <1>4, <2>1, <2>3 DEF TypeOK
  <2>4. CASE other # id
    BY <1>2, <2>1, <2>2, <2>4 DEF TypeOK, SurvivalInv, LatestJobSurvives
  <2> QED  BY <2>3, <2>4
<1> QED  BY <1>5, <1>6 DEF Issue, SurvivalInv

LEMMA RemoveKeepsKeys ==
  ASSUME TypeOK, SurvivalInv, NEW id \in Ids, items' = [items EXCEPT ![id] = Absent],
         NEW h \in Handlers, task[h] # Absent,
         items'[task[h].id] # Absent, items'[task[h].id].key = task[h].item.key
  PROVE  items'[task[h].id].work = task[h].item.work
<1>1. task[h].id \in Ids  BY DEF TypeOK, Task
<1>2. task[h].id # id  BY <1>1 DEF TypeOK
<1> QED  BY <1>1, <1>2 DEF TypeOK, SurvivalInv

LEMMA ProducersKeepSurvival ==
  ASSUME TypeOK, SurvivalInv, NEW id \in Ids, ProducerStep(id)
  PROVE  SurvivalInv'
<1>1. CASE Enqueue(id)  BY <1>1, IssueKeepsSurvival DEF Enqueue
<1>2. CASE EnqueueOnce(id)  BY <1>2, IssueKeepsSurvival DEF EnqueueOnce
<1>3. CASE Reschedule(id)
  BY <1>3 DEF Reschedule, Zadd, producer, SurvivalInv, LatestJobSurvives
<1>4. CASE RemoveJob(id)
  <2>1. items' = [items EXCEPT ![id] = Absent] /\ UNCHANGED <<deadLetters, task, handled>>
    BY <1>4 DEF RemoveJob, Remove
  <2>2. LatestJobSurvives'
    BY <1>4, <2>1 DEF RemoveJob, TypeOK, SurvivalInv, LatestJobSurvives
  <2> QED  BY <2>1, <2>2, RemoveKeepsKeys DEF SurvivalInv
<1>5. CASE RedriveFromDeadLetterQueue(id)
  BY <1>5 DEF RedriveFromDeadLetterQueue, SurvivalInv
<1> QED  BY <1>1, <1>2, <1>3, <1>4, <1>5 DEF ProducerStep

LEMMA HandlersKeepSurvival ==
  ASSUME TypeOK, SurvivalInv, "throw" \notin Events, "redisError" \notin Events,
         NEW h \in Handlers, HandlerStep(h)
  PROVE  SurvivalInv'
<1>1. CASE HandlerReturns(h)
  <2>1. /\ task' = [task EXCEPT ![h].step = "returned"]
        /\ handled' = handled \cup {task[h].item.work}
        /\ UNCHANGED <<items, deadLetters, latest>>
    BY <1>1 DEF HandlerReturns, SetStep, producer
  <2>2. task[h] \in Task /\ task[h] # Absent  BY <1>1 DEF HandlerReturns, TypeOK
  <2>3. task'[h].id = task[h].id /\ task'[h].item = task[h].item
        /\ task'[h].step = "returned" /\ \A g \in Handlers : g # h => task'[g] = task[g]
    BY <2>1, <2>2 DEF TypeOK, Task
  <2>4. LatestJobSurvives'  BY <2>1 DEF SurvivalInv, LatestJobSurvives
  <2>5. ASSUME NEW g \in Handlers, task'[g] # Absent
        PROVE  /\ task'[g].step # "threw"
               /\ task'[g].step = "returned" => task'[g].item.work \in handled'
               /\ items[task'[g].id] # Absent /\ items[task'[g].id].key = task'[g].item.key
                  => items[task'[g].id].work = task'[g].item.work
    <3>1. CASE g = h  BY <2>1, <2>2, <2>3, <3>1 DEF SurvivalInv
    <3>2. CASE g # h  BY <2>1, <2>3, <2>5, <3>2 DEF SurvivalInv
    <3> QED  BY <3>1, <3>2
  <2> QED  BY <2>1, <2>4, <2>5 DEF SurvivalInv
<1>2. CASE AckItem(h)
  <2>1. /\ task' = [task EXCEPT ![h] = Absent]
        /\ UNCHANGED <<deadLetters, handled, latest>>
        /\ task[h] # Absent /\ task[h].item.work \in handled
    BY <1>2 DEF AckItem, Finish, producer, SurvivalInv
  <2>2. task[h].id \in Ids  BY <2>1 DEF TypeOK, Task
  <2>3. CASE UNCHANGED <<queue, items>>
    BY <2>1, <2>3 DEF TypeOK, SurvivalInv, LatestJobSurvives
  <2>4. CASE Remove(task[h].id) /\ items[task[h].id] # Absent
             /\ items[task[h].id].key = task[h].item.key
    <3>1. items' = [items EXCEPT ![task[h].id] = Absent]  BY <2>4 DEF Remove
    <3>2. items[task[h].id].work \in handled
      BY <2>1, <2>4 DEF SurvivalInv
    <3>3. LatestJobSurvives'
      BY <2>1, <2>2, <3>1, <3>2 DEF TypeOK, SurvivalInv, LatestJobSurvives
    <3>4. \A g \in Handlers : task'[g] # Absent => task[g] # Absent /\ task'[g] = task[g]
      BY <2>1 DEF TypeOK
    <3> QED  BY <2>1, <2>2, <3>1, <3>3, <3>4, RemoveKeepsKeys DEF SurvivalInv
  <2> QED  BY <1>2, <2>3, <2>4 DEF AckItem, Ack
<1>3. ~HandlerThrows(h) /\ ~AckRejects(h) /\ ~RequeueItem(h)
      /\ ~MoveToDeadLetterQueue(h) /\ ~RequeueRejects(h)
  BY DEF SurvivalInv, HandlerThrows, AckRejects, RequeueItem, MoveToDeadLetterQueue,
         RequeueRejects
<1> QED  BY <1>1, <1>2, <1>3 DEF HandlerStep

LEMMA DequeueKeepsSurvival ==
  ASSUME TypeOK, SurvivalInv, NEW p \in Processes, DequeueItems(p)
  PROVE  SurvivalInv'
<1>1. PICK batch \in DueBatches(Min({DequeueCount, Cardinality(Free(p))})) :
        \E got \in Deliveries(p, {id \in batch : items[id] # Absent}) : Deliver(p, got)
  BY DEF DequeueItems
<1>2. PICK got \in Deliveries(p, {id \in batch : items[id] # Absent}) : Deliver(p, got)
  BY <1>1
<1>3. UNCHANGED <<items, deadLetters, latest, handled>>  BY DEF DequeueItems, producer
<1>4. ASSUME NEW h \in Handlers, task'[h] # task[h]
      PROVE  /\ task'[h].step = "running" /\ task'[h].item = items[task'[h].id]
    BY <1>2, <1>4 DEF Deliver
<1>5. LatestJobSurvives'  BY <1>3 DEF SurvivalInv, LatestJobSurvives
<1> QED  BY <1>3, <1>4, <1>5 DEF SurvivalInv

LEMMA SurvivalStep ==
  ASSUME "throw" \notin Events, "redisError" \notin Events,
         TypeOK, SurvivalInv, [Next]_vars
  PROVE  SurvivalInv'
<1>1. ASSUME NEW p \in Processes, Crash(p) PROVE SurvivalInv'
  <2>1. \A h \in Handlers : task'[h] # Absent => task'[h] = task[h]
    BY <1>1 DEF Crash
  <2>2. UNCHANGED <<items, deadLetters, latest, handled>>  BY <1>1 DEF Crash, producer
  <2> QED  BY <2>1, <2>2 DEF SurvivalInv, LatestJobSurvives
<1>2. CASE Tick
  <2>1. UNCHANGED <<items, deadLetters, latest, handled>>  BY <1>2 DEF Tick, producer
  <2>2. ASSUME NEW h \in Handlers, task'[h] # Absent
        PROVE  task[h] # Absent /\ task'[h].id = task[h].id
               /\ task'[h].item = task[h].item /\ task'[h].step = task[h].step
    BY <1>2, <2>2 DEF Tick, TypeOK, Task
  <2> QED  BY <2>1, <2>2 DEF SurvivalInv, LatestJobSurvives
<1>3. CASE UNCHANGED vars
  BY <1>3 DEF vars, producer, SurvivalInv, LatestJobSurvives
<1> QED
  BY <1>1, <1>2, <1>3, ProducersKeepSurvival, HandlersKeepSurvival, DequeueKeepsSurvival
     DEF Next

\* While no handler throws and no ack is rejected, the last job issued for an id
\* is not lost before a handler completed it: neither producers that reuse the
\* id, nor redeliveries, nor late acks, nor crashes drop it.
THEOREM LatestJobSurvivesWithoutFailures ==
  ASSUME "throw" \notin Events, "redisError" \notin Events
  PROVE  Spec => []LatestJobSurvives
<1>1. Init => TypeOK /\ SurvivalInv
  BY SMT DEF Init, TypeOK, SurvivalInv, LatestJobSurvives
<1>2. TypeOK /\ SurvivalInv /\ [Next]_vars => (TypeOK /\ SurvivalInv)'
  BY TypeStep, SurvivalStep
<1>3. SurvivalInv => LatestJobSurvives  BY DEF SurvivalInv
<1> QED  BY <1>1, <1>2, <1>3, PTL DEF Spec

-----------------------------------------------------------------------------
(* No job is lost while producers do not reuse its id *)

\* Whoever has a job of an id, the hash, the dead letters or a handler, has the
\* last one that was issued for it, unless that one was removed.
NoReuseInv ==
  /\ \A id \in Ids : items[id] # Absent => latest[id] \in {0, items[id].work}
  /\ \A id \in Ids : deadLetters[id] # Absent => latest[id] \in {0, deadLetters[id].work}
  /\ \A h \in Handlers : task[h] # Absent =>
       /\ latest[task[h].id] \in {0, task[h].item.work}
       /\ task[h].step = "returned" => task[h].item.work \in handled
  /\ LatestJobSurvives

LEMMA EnqueueKeepsNoReuse ==
  ASSUME TypeOK, NoReuseInv, NEW id \in Ids, "overlap" \notin Events, Enqueue(id)
  PROVE  NoReuseInv'
<1>1. /\ items' = [items EXCEPT ![id] = NewItem] /\ latest' = [latest EXCEPT ![id] = jobs + 1]
      /\ UNCHANGED <<deadLetters, task, handled>>
  BY DEF Enqueue, Issue, EnqueueItem
<1>2. deadLetters[id] = Absent /\ \A h \in Handlers : task[h] # Absent => task[h].id # id
  BY DEF Enqueue, InFlight
<1>3. NewItem # Absent /\ NewItem.work = jobs + 1
  BY NewItemType DEF Enqueue, Issue, NewItem
<1>4. /\ items'[id] = NewItem /\ latest'[id] = jobs + 1
      /\ \A other \in Ids : other # id =>
           items'[other] = items[other] /\ latest'[other] = latest[other]
  BY <1>1 DEF TypeOK
<1>5. \A h \in Handlers : task[h] # Absent => latest'[task[h].id] = latest[task[h].id]
  BY <1>2, <1>4 DEF TypeOK, Task
<1>6. LatestJobSurvives'
  BY <1>1, <1>3, <1>4 DEF NoReuseInv, LatestJobSurvives
<1> QED  BY <1>1, <1>2, <1>3, <1>4, <1>5, <1>6 DEF NoReuseInv

\* Taking the item of an id away loses nothing when its job is over or removed.
LEMMA RemoveKeepsNoReuse ==
  ASSUME TypeOK, NoReuseInv, NEW id \in Ids, Remove(id),
         UNCHANGED <<deadLetters, handled, latest>>,
         latest[id] \in {0} \cup handled,
         \A h \in Handlers : task'[h] # Absent =>
           /\ task[h] # Absent
           /\ task'[h].id = task[h].id /\ task'[h].item = task[h].item
           /\ task'[h].step = "returned" => task[h].step = "returned"
  PROVE  NoReuseInv'
<1>1. items'[id] = Absent /\ \A other \in Ids : other # id => items'[other] = items[other]
  BY DEF Remove, TypeOK
<1> QED  BY <1>1 DEF NoReuseInv, LatestJobSurvives

LEMMA ProducersKeepNoReuse ==
  ASSUME TypeOK, NoReuseInv, "overlap" \notin Events, "enqueueOnce" \notin Events,
         NEW id \in Ids, ProducerStep(id)
  PROVE  NoReuseInv'
<1>1. CASE Enqueue(id)  BY <1>1, EnqueueKeepsNoReuse
<1>2. CASE Reschedule(id)
  BY <1>2 DEF Reschedule, producer, NoReuseInv, LatestJobSurvives
<1>3. CASE RemoveJob(id)
  <2>1. /\ latest' = [latest EXCEPT ![id] = 0] /\ items' = [items EXCEPT ![id] = Absent]
        /\ UNCHANGED <<deadLetters, task, handled>>
    BY <1>3 DEF RemoveJob, Remove
  <2>2. /\ latest'[id] = 0 /\ items'[id] = Absent
        /\ \A other \in Ids : other # id =>
             items'[other] = items[other] /\ latest'[other] = latest[other]
    BY <2>1 DEF TypeOK
  <2>3. \A h \in Handlers : task[h] # Absent => task[h].id \in Ids
    BY DEF TypeOK, Task
  <2> QED  BY <2>1, <2>2, <2>3 DEF NoReuseInv, LatestJobSurvives
<1>4. CASE RedriveFromDeadLetterQueue(id)
  <2>1. /\ items' = [items EXCEPT ![id] = deadLetters[id]]
        /\ deadLetters' = [deadLetters EXCEPT ![id] = Absent]
        /\ deadLetters[id] # Absent /\ UNCHANGED <<latest, task, handled>>
    BY <1>4 DEF RedriveFromDeadLetterQueue, EnqueueItem, producer
  <2>2. /\ items'[id] = deadLetters[id] /\ deadLetters'[id] = Absent
        /\ \A other \in Ids : other # id =>
             items'[other] = items[other] /\ deadLetters'[other] = deadLetters[other]
    BY <2>1 DEF TypeOK
  <2> QED  BY <2>1, <2>2 DEF NoReuseInv, LatestJobSurvives
<1> QED  BY <1>1, <1>2, <1>3, <1>4 DEF ProducerStep, EnqueueOnce

LEMMA HandlersKeepNoReuse ==
  ASSUME TypeOK, NoReuseInv, NEW h \in Handlers, HandlerStep(h)
  PROVE  NoReuseInv'
<1>0. task[h] \in Task /\ task[h] # Absent /\ task[h].id \in Ids
      /\ latest[task[h].id] \in {0, task[h].item.work}
  <2>1. task[h] \in Task /\ task[h] # Absent
    BY DEF TypeOK, HandlerStep, HandlerReturns, HandlerThrows, AckItem, AckRejects,
           RequeueItem, MoveToDeadLetterQueue, RequeueRejects
  <2> QED  BY <2>1 DEF Task, NoReuseInv
<1>a. ASSUME NEW step, SetStep(h, step)
      PROVE  /\ \A g \in Handlers : task'[g] # Absent => task[g] # Absent
                  /\ task'[g].id = task[g].id /\ task'[g].item = task[g].item
             /\ \A g \in Handlers : g # h => task'[g] = task[g]
             /\ task'[h].step = step
  <2>1. task' = [task EXCEPT ![h].step = step]  BY <1>a DEF SetStep
  <2>2. \A g \in Handlers : g # h => task'[g] = task[g]  BY <2>1 DEF TypeOK
  <2>3. task'[h].id = task[h].id /\ task'[h].item = task[h].item /\ task'[h].step = step
    BY <1>0, <2>1 DEF TypeOK, Task
  <2> QED  BY <1>0, <2>2, <2>3
<1>b. Finish(h) => \A g \in Handlers : task'[g] # Absent => g # h /\ task'[g] = task[g]
  BY DEF Finish, TypeOK
<1>1. CASE HandlerReturns(h)
  <2>1. /\ SetStep(h, "returned") /\ handled' = handled \cup {task[h].item.work}
        /\ UNCHANGED <<items, deadLetters, latest>>
    BY <1>1 DEF HandlerReturns, producer
  <2> QED  BY <1>a, <2>1 DEF NoReuseInv, LatestJobSurvives
<1>2. CASE HandlerThrows(h)
  <2>1. SetStep(h, "threw") /\ UNCHANGED <<items, deadLetters, latest, handled>>
    BY <1>2 DEF HandlerThrows, producer
  <2> QED  BY <1>a, <2>1 DEF NoReuseInv, LatestJobSurvives
<1>3. CASE AckItem(h)
  <2>1. Ack(task[h].id, task[h].item.key) /\ Finish(h)
        /\ UNCHANGED <<deadLetters, latest, handled>> /\ latest[task[h].id] \in {0} \cup handled
    BY <1>0, <1>3 DEF AckItem, producer, NoReuseInv
  <2>2. CASE Remove(task[h].id)  BY <1>0, <1>b, <2>1, <2>2, RemoveKeepsNoReuse
  <2>3. CASE UNCHANGED <<queue, items>>
    BY <1>b, <2>1, <2>3 DEF NoReuseInv, LatestJobSurvives
  <2> QED  BY <2>1, <2>2, <2>3 DEF Ack
<1>4. CASE AckRejects(h)
  <2>1. /\ Ack(task[h].id, task[h].item.key) \/ UNCHANGED <<queue, items>>
        /\ SetStep(h, "threw")
        /\ UNCHANGED <<deadLetters, latest, handled>> /\ latest[task[h].id] \in {0} \cup handled
    BY <1>0, <1>4 DEF AckRejects, producer, NoReuseInv
  <2>2. \A g \in Handlers : task'[g] # Absent =>
          /\ task[g] # Absent
          /\ task'[g].id = task[g].id /\ task'[g].item = task[g].item
          /\ task'[g].step = "returned" => task[g].step = "returned"
    BY <1>a, <2>1
  <2>3. CASE Remove(task[h].id)  BY <1>0, <2>1, <2>2, <2>3, RemoveKeepsNoReuse
  <2>4. CASE UNCHANGED <<queue, items>>
    BY <2>1, <2>2, <2>4 DEF NoReuseInv, LatestJobSurvives
  <2> QED  BY <2>1, <2>3, <2>4 DEF Ack
<1>5. CASE RequeueItem(h)
  <2> DEFINE item == [task[h].item EXCEPT !.key = FreshKey, !.attempt = @ + 1]
  <2>1. /\ items' = [items EXCEPT ![task[h].id] = item] /\ Finish(h)
        /\ UNCHANGED <<deadLetters, latest, handled>>
    BY <1>5 DEF RequeueItem, EnqueueItem, producer
  <2>2. item.work = task[h].item.work /\ item # Absent
    <3>1. task[h].item \in Item  BY <1>0 DEF Task
    <3>2. FreshKey \in Keys  BY <1>5, FreshKeyIsFresh DEF RequeueItem
    <3>3. task[h].item.attempt + 1 \in 0..(MaxAttempts - 1)
      BY <1>5, <3>1, SMT DEF RequeueItem, RetriesLeft, Item
    <3>4. item \in Item /\ item.work = task[h].item.work
      BY <3>1, <3>2, <3>3 DEF Item
    <3> QED  BY <3>4
  <2>3. /\ items'[task[h].id] = item
        /\ \A other \in Ids : other # task[h].id => items'[other] = items[other]
    BY <1>0, <2>1 DEF TypeOK
  <2> HIDE DEF item
  <2>4. LatestJobSurvives'
    BY <1>0, <2>1, <2>2, <2>3 DEF NoReuseInv, LatestJobSurvives
  <2> QED  BY <1>0, <1>b, <2>1, <2>2, <2>3, <2>4 DEF NoReuseInv
<1>6. CASE MoveToDeadLetterQueue(h)
  <2>1. Finish(h) /\ UNCHANGED <<latest, handled>>
    BY <1>6 DEF MoveToDeadLetterQueue, producer
  <2>2. CASE items[task[h].id] = Absent
    <3>1. UNCHANGED <<items, deadLetters>>  BY <1>6, <2>2 DEF MoveToDeadLetterQueue
    <3> QED  BY <1>b, <2>1, <3>1 DEF NoReuseInv, LatestJobSurvives
  <2>3. CASE items[task[h].id] # Absent
    <3>1. /\ deadLetters' = [deadLetters EXCEPT ![task[h].id] = items[task[h].id]]
          /\ items' = [items EXCEPT ![task[h].id] = Absent]
      BY <1>6, <2>3 DEF MoveToDeadLetterQueue, Remove
    <3>2. /\ deadLetters'[task[h].id] = items[task[h].id] /\ items'[task[h].id] = Absent
          /\ \A other \in Ids : other # task[h].id =>
               items'[other] = items[other] /\ deadLetters'[other] = deadLetters[other]
      BY <1>0, <3>1 DEF TypeOK
    <3>3. LatestJobSurvives'
      BY <1>0, <2>1, <2>3, <3>2 DEF NoReuseInv, LatestJobSurvives
    <3> QED  BY <1>0, <1>b, <2>1, <2>3, <3>2, <3>3 DEF NoReuseInv
  <2> QED  BY <2>2, <2>3
<1>7. CASE RequeueRejects(h)
  BY <1>7, <1>b DEF RequeueRejects, producer, NoReuseInv, LatestJobSurvives
<1> QED
  BY <1>1, <1>2, <1>3, <1>4, <1>5, <1>6, <1>7 DEF HandlerStep

LEMMA NoReuseStep ==
  ASSUME "overlap" \notin Events, "enqueueOnce" \notin Events,
         TypeOK, NoReuseInv, [Next]_vars
  PROVE  NoReuseInv'
<1>1. ASSUME NEW p \in Processes, DequeueItems(p) PROVE NoReuseInv'
  <2>1. PICK batch \in DueBatches(Min({DequeueCount, Cardinality(Free(p))})) :
          \E got \in Deliveries(p, {id \in batch : items[id] # Absent}) : Deliver(p, got)
    BY <1>1 DEF DequeueItems
  <2>2. PICK got \in Deliveries(p, {id \in batch : items[id] # Absent}) : Deliver(p, got)
    BY <2>1
  <2>3. UNCHANGED <<items, deadLetters, latest, handled>>  BY <1>1 DEF DequeueItems, producer
  <2>4. ASSUME NEW h \in Handlers, task'[h] # task[h]
        PROVE  /\ task'[h].id \in Ids /\ items[task'[h].id] # Absent
               /\ task'[h].step = "running" /\ task'[h].item = items[task'[h].id]
    <3>1. h \in Free(p) /\ got[h] # Absent /\ task'[h].id = got[h]
          /\ task'[h].item = items[got[h]] /\ task'[h].step = "running"
      BY <2>2, <2>4 DEF Deliver
    <3>2. got[h] \in {id \in batch : items[id] # Absent} /\ batch \subseteq Ids
      BY <3>1 DEF Deliveries, DueBatches, DueIds
    <3> QED  BY <3>1, <3>2
  <2> QED  BY <2>3, <2>4 DEF NoReuseInv, LatestJobSurvives
<1>2. ASSUME NEW p \in Processes, Crash(p) PROVE NoReuseInv'
  <2>1. \A h \in Handlers : task'[h] # Absent => task'[h] = task[h]
    BY <1>2 DEF Crash
  <2>2. UNCHANGED <<items, deadLetters, latest, handled>>  BY <1>2 DEF Crash, producer
  <2> QED  BY <2>1, <2>2 DEF NoReuseInv, LatestJobSurvives
<1>3. CASE Tick
  <2>1. UNCHANGED <<items, deadLetters, latest, handled>>  BY <1>3 DEF Tick, producer
  <2>2. ASSUME NEW h \in Handlers, task'[h] # Absent
        PROVE  task[h] # Absent /\ task'[h].id = task[h].id
               /\ task'[h].item = task[h].item /\ task'[h].step = task[h].step
    BY <1>3, <2>2 DEF Tick, TypeOK, Task
  <2> QED  BY <2>1, <2>2 DEF NoReuseInv, LatestJobSurvives
<1>4. CASE UNCHANGED vars
  BY <1>4 DEF vars, producer, NoReuseInv, LatestJobSurvives
<1> QED
  BY <1>1, <1>2, <1>3, <1>4, ProducersKeepNoReuse, HandlersKeepNoReuse DEF Next

\* While producers use an id again only when its last job is over, no job is lost
\* before a handler completed it, although handlers throw or come late, acks and
\* requeues are rejected, processes die, deliveries get lost, and operators
\* reschedule, remove and redrive.
THEOREM LatestJobSurvivesWithoutReuse ==
  ASSUME "overlap" \notin Events, "enqueueOnce" \notin Events
  PROVE  Spec => []LatestJobSurvives
<1>1. Init => TypeOK /\ NoReuseInv
  BY SMT DEF Init, TypeOK, NoReuseInv, LatestJobSurvives
<1>2. TypeOK /\ NoReuseInv /\ [Next]_vars => (TypeOK /\ NoReuseInv)'
  BY TypeStep, NoReuseStep
<1>3. NoReuseInv => LatestJobSurvives  BY DEF NoReuseInv
<1> QED  BY <1>1, <1>2, <1>3, PTL DEF Spec

-----------------------------------------------------------------------------
(* One handler per visibility timeout *)

Holders == {h \in Handlers : task[h] # Absent /\ task[h].until > 0}

\* An item that somebody holds does not become due before his timeout is over.
HoldersAreHidden ==
  \A h \in Holders :
    items[task[h].id] # Absent /\ items[task[h].id].key = task[h].item.key
    => queue[task[h].id] # Absent /\ queue[task[h].id] >= task[h].until

DeliveryInv == HoldersAreHidden /\ OneDelivery

LEMMA OneDeliveryOfHolders ==
  OneDelivery <=> \A h, g \in Holders :
    h # g /\ task[h].id = task[g].id => task[h].item.key # task[g].item.key
BY DEF OneDelivery, Holders

\* A step that takes tasks away, gives no item a key somebody holds and moves no
\* score of a held item keeps the invariant.
LEMMA DeliveryPreserved ==
  ASSUME TypeOK, DeliveryInv,
         \A h \in Handlers : task'[h] = Absent \/
           /\ task[h] # Absent /\ task'[h].id = task[h].id
           /\ task'[h].item = task[h].item /\ task'[h].until = task[h].until,
         \A h \in Handlers :
           /\ task'[h] # Absent /\ items'[task[h].id] # Absent
           /\ items'[task[h].id].key = task[h].item.key
           => items'[task[h].id] = items[task[h].id] /\ queue'[task[h].id] = queue[task[h].id]
  PROVE  DeliveryInv'
<1>1. \A h \in Holders' : h \in Holders /\ task'[h].id = task[h].id
        /\ task'[h].item = task[h].item /\ task'[h].until = task[h].until
  BY DEF Holders
<1>2. HoldersAreHidden'
  <2>1. SUFFICES ASSUME NEW h \in Holders',
                   items'[task'[h].id] # Absent, items'[task'[h].id].key = task'[h].item.key
                 PROVE  queue'[task'[h].id] # Absent /\ queue'[task'[h].id] >= task'[h].until
    BY DEF HoldersAreHidden
  <2>2. h \in Handlers /\ task'[h] # Absent  BY DEF Holders
  <2>3. items'[task[h].id] = items[task[h].id] /\ queue'[task[h].id] = queue[task[h].id]
    BY <1>1, <2>1, <2>2
  <2> QED  BY <1>1, <2>1, <2>3 DEF DeliveryInv, HoldersAreHidden
<1>3. OneDelivery'
  BY <1>1 DEF DeliveryInv, OneDelivery, Holders
<1> QED  BY <1>2, <1>3 DEF DeliveryInv

\* An item under a fresh key is nobody's, an item that is removed neither.
LEMMA FreshItemDelivery ==
  ASSUME TypeOK, DeliveryInv, NEW id \in Ids, NEW item \in Item, NEW score \in Int,
         EnqueueItem(id, item, score), ~InUse(item.key),
         \A h \in Handlers : task'[h] = Absent \/ task'[h] = task[h]
  PROVE  DeliveryInv'
<1>1. ASSUME NEW h \in Handlers, task'[h] # Absent, items'[task[h].id] # Absent,
             items'[task[h].id].key = task[h].item.key
      PROVE  items'[task[h].id] = items[task[h].id] /\ queue'[task[h].id] = queue[task[h].id]
  <2>1. task[h] # Absent /\ task[h].id \in Ids  BY <1>1 DEF TypeOK, Task
  <2>2. task[h].item.key # item.key  BY <2>1 DEF InUse
  <2>3. task[h].id # id  BY <1>1, <2>1, <2>2 DEF EnqueueItem, TypeOK
  <2> QED  BY <2>1, <2>3 DEF EnqueueItem, Zadd, TypeOK
<1>2. \A h \in Handlers : task'[h] = Absent \/
        /\ task[h] # Absent /\ task'[h].id = task[h].id
        /\ task'[h].item = task[h].item /\ task'[h].until = task[h].until
  OBVIOUS
<1> QED  BY <1>1, <1>2, DeliveryPreserved

LEMMA RemoveDelivery ==
  ASSUME TypeOK, DeliveryInv, NEW id \in Ids, Remove(id),
         \A h \in Handlers : task'[h] = Absent \/ task'[h] = task[h]
  PROVE  DeliveryInv'
<1>1. ASSUME NEW h \in Handlers, task'[h] # Absent, items'[task[h].id] # Absent
      PROVE  items'[task[h].id] = items[task[h].id] /\ queue'[task[h].id] = queue[task[h].id]
  <2>1. task[h].id \in Ids  BY <1>1 DEF TypeOK, Task
  <2>2. task[h].id # id  BY <1>1, <2>1 DEF Remove, TypeOK
  <2> QED  BY <2>1, <2>2 DEF Remove, TypeOK
<1>2. \A h \in Handlers : task'[h] = Absent \/
        /\ task[h] # Absent /\ task'[h].id = task[h].id
        /\ task'[h].item = task[h].item /\ task'[h].until = task[h].until
  OBVIOUS
<1> QED  BY <1>1, <1>2, DeliveryPreserved

LEMMA ProducersKeepDelivery ==
  ASSUME TypeOK, DeliveryInv, "reschedule" \notin Events, "redrive" \notin Events,
         NEW id \in Ids, ProducerStep(id)
  PROVE  DeliveryInv'
<1>1. ASSUME NEW scores \in SUBSET Int, Issue(id, scores) PROVE DeliveryInv'
  <2>1. NewItem \in Item /\ NewItem.key = FreshKey /\ ~InUse(FreshKey)
    BY <1>1, NewItemType, FreshKeyIsFresh DEF Issue, NewItem
  <2>2. task' = task  BY <1>1 DEF Issue
  <2> QED  BY <1>1, <2>1, <2>2, FreshItemDelivery DEF Issue
<1>2. CASE Enqueue(id)  BY <1>1, <1>2 DEF Enqueue
<1>3. CASE EnqueueOnce(id)
  <2>1. (IF queue[id] = Absent THEN Delays ELSE {queue[id]}) \in SUBSET Int
    BY DEF TypeOK
  <2> QED  BY <1>1, <1>3, <2>1 DEF EnqueueOnce
<1>4. CASE RemoveJob(id)  BY <1>4, RemoveDelivery DEF RemoveJob
<1> QED  BY <1>2, <1>3, <1>4 DEF ProducerStep, Reschedule, RedriveFromDeadLetterQueue

LEMMA HandlersKeepDelivery ==
  ASSUME TypeOK, DeliveryInv, NEW h \in Handlers, HandlerStep(h)
  PROVE  DeliveryInv'
<1>0. task[h] \in Task /\ task[h] # Absent /\ task[h].id \in Ids /\ task[h].item \in Item
  <2>1. task[h] \in Task /\ task[h] # Absent
    BY DEF TypeOK, HandlerStep, HandlerReturns, HandlerThrows, AckItem, AckRejects,
           RequeueItem, MoveToDeadLetterQueue, RequeueRejects
  <2> QED  BY <2>1 DEF Task
<1>a. ASSUME NEW step, SetStep(h, step)
      PROVE  \A g \in Handlers : task'[g] = Absent \/
               /\ task[g] # Absent /\ task'[g].id = task[g].id
               /\ task'[g].item = task[g].item /\ task'[g].until = task[g].until
  <2>1. task' = [task EXCEPT ![h].step = step]  BY <1>a DEF SetStep
  <2>2. \A g \in Handlers : g # h => task'[g] = task[g]  BY <2>1 DEF TypeOK
  <2>3. /\ task'[h].id = task[h].id /\ task'[h].item = task[h].item
        /\ task'[h].until = task[h].until
    BY <1>0, <2>1 DEF TypeOK, Task
  <2> QED  BY <1>0, <2>2, <2>3
<1>b. Finish(h) => \A g \in Handlers : task'[g] = Absent \/ task'[g] = task[g]
  BY DEF Finish, TypeOK
<1>c. ASSUME UNCHANGED <<queue, items>>, SetStep(h, "returned") \/ SetStep(h, "threw") \/ Finish(h)
      PROVE  DeliveryInv'
  BY <1>a, <1>b, <1>c, DeliveryPreserved
<1>1. CASE HandlerReturns(h)  BY <1>1, <1>c DEF HandlerReturns
<1>2. CASE HandlerThrows(h)  BY <1>2, <1>c DEF HandlerThrows
<1>3. CASE AckItem(h)
  BY <1>0, <1>3, <1>b, <1>c, RemoveDelivery DEF AckItem, Ack
<1>4. CASE AckRejects(h)
  <2>1. CASE UNCHANGED <<queue, items>>  BY <1>4, <2>1, <1>c DEF AckRejects
  <2>2. CASE Remove(task[h].id)
    <3>1. ASSUME NEW g \in Handlers, task'[g] # Absent, items'[task[g].id] # Absent
          PROVE  items'[task[g].id] = items[task[g].id] /\ queue'[task[g].id] = queue[task[g].id]
      <4>1. task[g].id \in Ids  BY <1>4, <1>a, <3>1 DEF AckRejects, TypeOK, Task
      <4>2. task[g].id # task[h].id  BY <2>2, <3>1, <4>1 DEF Remove, TypeOK
      <4> QED  BY <1>0, <2>2, <4>1, <4>2 DEF Remove, TypeOK
    <3> QED  BY <1>4, <1>a, <3>1, DeliveryPreserved DEF AckRejects
  <2> QED  BY <1>4, <2>1, <2>2 DEF AckRejects, Ack
<1>5. CASE RequeueItem(h)
  <2>1. PICK delay \in RetryDelays :
          EnqueueItem(task[h].id, [task[h].item EXCEPT !.key = FreshKey, !.attempt = @ + 1], delay)
    BY <1>5 DEF RequeueItem
  <2> DEFINE item == [task[h].item EXCEPT !.key = FreshKey, !.attempt = @ + 1]
  <2>2. FreshKey \in Keys /\ ~InUse(FreshKey)  BY <1>5, FreshKeyIsFresh DEF RequeueItem
  <2>3. task[h].item.attempt + 1 \in 0..(MaxAttempts - 1)
    BY <1>0, <1>5, SMT DEF RequeueItem, RetriesLeft, Item
  <2>4. item \in Item /\ item.key = FreshKey  BY <1>0, <2>2, <2>3 DEF Item
  <2>5. EnqueueItem(task[h].id, item, delay)  BY <2>1
  <2>6. ~InUse(item.key)  BY <2>2, <2>4
  <2>7. delay \in Int  BY SMT
  <2>8. \A g \in Handlers : task'[g] = Absent \/ task'[g] = task[g]
    BY <1>5, <1>b DEF RequeueItem
  <2> HIDE DEF item
  <2> QED  BY <1>0, <2>4, <2>5, <2>6, <2>7, <2>8, FreshItemDelivery
<1>6. CASE MoveToDeadLetterQueue(h)
  BY <1>0, <1>6, <1>b, <1>c, RemoveDelivery DEF MoveToDeadLetterQueue
<1>7. CASE RequeueRejects(h)  BY <1>7, <1>c DEF RequeueRejects
<1> QED
  BY <1>1, <1>2, <1>3, <1>4, <1>5, <1>6, <1>7 DEF HandlerStep

LEMMA DequeueKeepsDelivery ==
  ASSUME TypeOK, DeliveryInv, NEW p \in Processes, DequeueItems(p)
  PROVE  DeliveryInv'
<1>1. PICK batch \in DueBatches(Min({DequeueCount, Cardinality(Free(p))})) :
        LET live == {id \in batch : items[id] # Absent} IN
        /\ queue' = [id \in Ids |-> IF id \in batch \ live THEN Absent
                                    ELSE Hide(live)[id]]
        /\ \E got \in Deliveries(p, live) : Deliver(p, got)
  BY DEF DequeueItems
<1> DEFINE live == {id \in batch : items[id] # Absent}
<1>2. PICK got \in Deliveries(p, live) : Deliver(p, got)  BY <1>1
<1>3. items' = items  BY DEF DequeueItems
<1>4. /\ got \in [Free(p) -> live \cup {Absent}]
      /\ \A h, g \in Free(p) : got[h] = got[g] /\ h # g => got[h] = Absent
  BY DEF Deliveries
<1>5. /\ \A id \in batch : id \in Ids /\ queue[id] # Absent /\ queue[id] <= 0
      /\ \A id \in live : queue'[id] = VisibilityTimeout
      /\ \A id \in Ids \ batch : queue'[id] = queue[id]
      /\ live \subseteq batch
  BY <1>1 DEF DueBatches, DueIds, Hide
<1> DEFINE New == {h \in Free(p) : got[h] # Absent}
<1>6. /\ \A h \in New : /\ task'[h].id = got[h] /\ task'[h].item = items[got[h]]
                         /\ task'[h].until = VisibilityTimeout /\ got[h] \in live
                         /\ got[h] \in Ids
      /\ \A h \in Handlers \ New : task'[h] = task[h]
  BY <1>2, <1>4, <1>5 DEF Deliver, Free
\* Nobody holds the item of a batch.
<1>7. ASSUME NEW g \in Holders, task[g].id \in batch, items[task[g].id] # Absent
      PROVE  items[task[g].id].key # task[g].item.key
  <2>1. task[g].until \in Nat /\ task[g].until > 0
    BY SMT DEF Holders, TypeOK, Task
  <2>2. queue[task[g].id] <= 0 /\ queue[task[g].id] \in Int
    BY <1>5, <1>7 DEF TypeOK
  <2>3. ~(queue[task[g].id] >= task[g].until)  BY <2>1, <2>2, SMT
  <2> QED  BY <1>7, <2>3 DEF DeliveryInv, HoldersAreHidden
<1>8. \A h \in Holders' : h \in New \/ (h \in Holders /\ task'[h] = task[h])
  BY <1>6 DEF Holders
<1> HIDE DEF New, live
<1>9. HoldersAreHidden'
  <2>1. SUFFICES ASSUME NEW h \in Holders',
                   items[task'[h].id] # Absent, items[task'[h].id].key = task'[h].item.key
                 PROVE  queue'[task'[h].id] # Absent /\ queue'[task'[h].id] >= task'[h].until
    BY <1>3 DEF HoldersAreHidden
  <2>2. CASE h \in New
    <3>1. queue'[task'[h].id] = VisibilityTimeout /\ task'[h].until = VisibilityTimeout
      BY <1>5, <1>6, <2>2
    <3> QED  BY <3>1, SMT
  <2>3. CASE h \in Holders /\ task'[h] = task[h]
    <3>1. task[h].id \notin batch  BY <1>7, <2>1, <2>3
    <3>2. task[h].id \in Ids  BY <2>3 DEF Holders, TypeOK, Task
    <3>3. queue'[task[h].id] = queue[task[h].id]  BY <1>5, <3>1, <3>2
    <3> QED  BY <2>1, <2>3, <3>3 DEF DeliveryInv, HoldersAreHidden
  <2> QED  BY <1>8, <2>2, <2>3
<1>10. OneDelivery'
  <2>1. SUFFICES ASSUME NEW h \in Holders', NEW g \in Holders',
                        h # g, task'[h].id = task'[g].id
                 PROVE  task'[h].item.key # task'[g].item.key
    BY DEF OneDelivery, Holders
  <2>a. ASSUME NEW n \in New, NEW o \in Holders, task'[o] = task[o], task'[n].id = task'[o].id
        PROVE  task'[n].item.key # task'[o].item.key
    <3>1. task[o].id = got[n] /\ got[n] \in live /\ task'[n].item = items[got[n]]
      BY <1>6, <2>a
    <3>2. items[task[o].id] # Absent /\ task[o].id \in batch  BY <1>5, <3>1 DEF live
    <3> QED  BY <1>7, <2>a, <3>1, <3>2
  <2>2. CASE h \in New /\ g \in New
    BY <1>4, <1>6, <2>1, <2>2 DEF New
  <2>3. CASE h \in New /\ g \in Holders /\ task'[g] = task[g]
    BY <2>1, <2>a, <2>3
  <2>4. CASE g \in New /\ h \in Holders /\ task'[h] = task[h]
    BY <2>1, <2>a, <2>4
  <2>5. CASE h \in Holders /\ task'[h] = task[h] /\ g \in Holders /\ task'[g] = task[g]
    BY <2>1, <2>5, OneDeliveryOfHolders DEF DeliveryInv
  <2> QED  BY <1>8, <2>2, <2>3, <2>4, <2>5
<1> QED  BY <1>9, <1>10 DEF DeliveryInv

LEMMA TickKeepsDelivery == TypeOK /\ DeliveryInv /\ Tick => DeliveryInv'
<1> SUFFICES ASSUME TypeOK, DeliveryInv, Tick PROVE DeliveryInv'  OBVIOUS
<1>1. items' = items  BY DEF Tick
<1>2. ASSUME NEW h \in Holders'
      PROVE  /\ h \in Holders /\ task'[h].id = task[h].id /\ task'[h].item = task[h].item
             /\ task'[h].until = task[h].until - 1
             /\ task[h].until \in Nat /\ task[h].id \in Ids
  <2>1. h \in Handlers /\ task'[h] # Absent /\ task'[h].until > 0  BY DEF Holders
  <2>2. task[h] \in Task /\ task[h] # Absent  BY <2>1 DEF Tick, TypeOK
  <2>3. task[h].until # 0  BY <2>1, <2>2, SMT DEF Tick
  <2>4. task'[h] = [task[h] EXCEPT !.until = @ - 1]  BY <2>1, <2>2, <2>3 DEF Tick
  <2>5. task[h].until \in Nat /\ task[h].until > 0  BY <2>2, <2>3, SMT DEF Task
  <2> QED  BY <2>1, <2>2, <2>4, <2>5 DEF Holders, Task
<1>3. HoldersAreHidden'
  <2>1. SUFFICES ASSUME NEW h \in Holders',
                   items[task'[h].id] # Absent, items[task'[h].id].key = task'[h].item.key
                 PROVE  queue'[task'[h].id] # Absent /\ queue'[task'[h].id] >= task'[h].until
    BY <1>1 DEF HoldersAreHidden
  <2> DEFINE id == task[h].id
  <2>2. queue[id] # Absent /\ queue[id] >= task[h].until
    BY <1>2, <2>1 DEF DeliveryInv, HoldersAreHidden
  <2>3. task[h].until > 0 /\ queue[id] \in Int /\ id \in Ids
    BY <1>2, <2>2 DEF Holders, TypeOK
  <2>4. queue[id] > -MaxAge /\ queue[id] - 1 \in Int /\ queue[id] - 1 >= task[h].until - 1
    BY <1>2, <2>2, <2>3, SMT
  <2>5. queue'[id] = queue[id] - 1
    <3>1. ~(queue[id] <= -MaxAge)  BY <2>3, <2>4, SMT
    <3> QED  BY <2>2, <2>3, <3>1 DEF Tick
  <2> QED  BY <1>2, <2>4, <2>5
<1>4. OneDelivery'
  BY <1>2, OneDeliveryOfHolders DEF DeliveryInv, OneDelivery, Holders
<1> QED  BY <1>3, <1>4 DEF DeliveryInv

LEMMA DeliveryStep ==
  ASSUME "reschedule" \notin Events, "redrive" \notin Events,
         TypeOK, DeliveryInv, [Next]_vars
  PROVE  DeliveryInv'
<1>1. ASSUME NEW p \in Processes, Crash(p) PROVE DeliveryInv'
  <2>1. \A h \in Handlers : task'[h] = Absent \/ task'[h] = task[h]
    BY <1>1 DEF Crash
  <2> QED  BY <1>1, <2>1, DeliveryPreserved DEF Crash
<1>2. CASE UNCHANGED vars
  BY <1>2, DeliveryPreserved DEF vars
<1> QED
  BY <1>1, <1>2, ProducersKeepDelivery, HandlersKeepDelivery, DequeueKeepsDelivery,
     TickKeepsDelivery DEF Next

\* While jobs are not rescheduled or redriven, two handlers never hold the same
\* item within its visibility timeout, although the id is enqueued again, handlers
\* are slow or throw, processes die and commands fail.
THEOREM OneDeliveryWithoutReschedule ==
  ASSUME "reschedule" \notin Events, "redrive" \notin Events
  PROVE  Spec => []OneDelivery
<1>1. Init => TypeOK /\ DeliveryInv
  BY SMT DEF Init, TypeOK, DeliveryInv, HoldersAreHidden, Holders, OneDelivery
<1>2. TypeOK /\ DeliveryInv /\ [Next]_vars => (TypeOK /\ DeliveryInv)'
  BY TypeStep, DeliveryStep
<1>3. DeliveryInv => OneDelivery  BY DEF DeliveryInv
<1> QED  BY <1>1, <1>2, <1>3, PTL DEF Spec

-----------------------------------------------------------------------------
(* Dead letters, while handlers are in time and an id has one job at a time *)

Orderly == Events \cap {"overlap", "slow", "reschedule", "enqueueOnce"} = {}

Busy == {h \in Handlers : task[h] # Absent}

\* The visibility timeout of no delivery is over, and its item, if it is still
\* there, is hidden for longer than that and is the one that was delivered.
InTime ==
  \A h \in Busy :
    /\ task[h].until > 0
    /\ items[task[h].id] # Absent =>
         /\ queue[task[h].id] # Absent /\ queue[task[h].id] >= task[h].until
         /\ items[task[h].id].attempt = task[h].item.attempt

SoleHandler == \A h, g \in Busy : h # g => task[h].id # task[g].id

\* A dead-lettered job is in nobody's hands.
DeadIsDead ==
  \A id \in Ids : deadLetters[id] # Absent =>
    /\ deadLetters[id].attempt = MaxAttempts - 1
    /\ items[id] = Absent /\ ~InFlight(id)

SettleInv == InTime /\ SoleHandler /\ DeadIsDead

LEMMA BusyType ==
  ASSUME TypeOK, NEW h \in Busy
  PROVE  /\ h \in Handlers /\ task[h] \in Task /\ task[h] # Absent
         /\ task[h].id \in Ids /\ task[h].item \in Item
         /\ task[h].until \in Nat /\ task[h].item.attempt \in 0..(MaxAttempts - 1)
<1>1. h \in Handlers /\ task[h] \in Task /\ task[h] # Absent  BY DEF Busy, TypeOK
<1>2. task[h].until \in 0..VisibilityTimeout /\ task[h].item \in Item /\ task[h].id \in Ids
  BY <1>1 DEF Task
<1> QED  BY <1>1, <1>2, SMT DEF Item

\* A step that takes tasks away and leaves the items of the others alone.
LEMMA SettlePreserved ==
  ASSUME TypeOK, SettleInv,
         \A h \in Busy' : /\ h \in Busy /\ task'[h].id = task[h].id
                          /\ task'[h].item = task[h].item /\ task'[h].until = task[h].until,
         \A h \in Busy' : items'[task[h].id] # Absent =>
           items'[task[h].id] = items[task[h].id] /\ queue'[task[h].id] = queue[task[h].id],
         DeadIsDead'
  PROVE  SettleInv'
<1>1. InTime'  BY DEF InTime, SettleInv
<1>2. SoleHandler'  BY DEF SoleHandler, SettleInv
<1> QED  BY <1>1, <1>2 DEF SettleInv

\* Nobody else has a job of the id, so that its item may change in any way.
LEMMA OthersPreserved ==
  ASSUME TypeOK, SettleInv, NEW id \in Ids,
         \A h \in Busy' : h \in Busy /\ task'[h] = task[h] /\ task[h].id # id,
         \A other \in Ids \ {id} :
           items'[other] = items[other] /\ queue'[other] = queue[other],
         DeadIsDead'
  PROVE  SettleInv'
BY BusyType, SettlePreserved

\* The dead letters stay, and so do those who could take one up.
LEMMA DeadPreserved ==
  ASSUME SettleInv, UNCHANGED deadLetters,
         \A h \in Busy' : h \in Busy /\ task'[h].id = task[h].id,
         \A id \in Ids : items'[id] # Absent => items[id] # Absent \/ deadLetters[id] = Absent
  PROVE  DeadIsDead'
BY DEF SettleInv, DeadIsDead, InFlight, Busy

LEMMA ProducersKeepSettled ==
  ASSUME TypeOK, SettleInv, Orderly, NEW id \in Ids, ProducerStep(id)
  PROVE  SettleInv'
<1>1. CASE Enqueue(id)
  <2>1. deadLetters[id] = Absent /\ \A h \in Busy : task[h].id # id
    BY <1>1 DEF Enqueue, Orderly, InFlight, Busy
  <2>2. PICK score \in Delays : EnqueueItem(id, NewItem, score)
    BY <1>1 DEF Enqueue, Issue
  <2>3. UNCHANGED <<deadLetters, task>>  BY <1>1 DEF Enqueue, Issue
  <2>4. \A other \in Ids \ {id} : items'[other] = items[other] /\ queue'[other] = queue[other]
    BY <2>2 DEF EnqueueItem, Zadd, TypeOK
  <2>5. Busy' = Busy  BY <2>3 DEF Busy
  <2>6. DeadIsDead'  BY <2>1, <2>3, <2>4, <2>5, DeadPreserved
  <2> QED  BY <2>1, <2>3, <2>4, <2>5, <2>6, OthersPreserved
<1>2. CASE RemoveJob(id)
  <2>1. Remove(id) /\ UNCHANGED <<deadLetters, task>>  BY <1>2 DEF RemoveJob
  <2>2. \A other \in Ids : items'[other] # Absent =>
          items'[other] = items[other] /\ queue'[other] = queue[other]
    BY <2>1 DEF Remove, TypeOK
  <2>3. Busy' = Busy  BY <2>1 DEF Busy
  <2>4. DeadIsDead'  BY <2>1, <2>2, <2>3, DeadPreserved
  <2> QED  BY <2>1, <2>2, <2>3, <2>4, BusyType, SettlePreserved
<1>3. CASE RedriveFromDeadLetterQueue(id)
  <2>1. /\ EnqueueItem(id, deadLetters[id], 0) /\ deadLetters[id] # Absent
        /\ deadLetters' = [deadLetters EXCEPT ![id] = Absent] /\ task' = task
    BY <1>3 DEF RedriveFromDeadLetterQueue
  <2>2. \A other \in Ids \ {id} : items'[other] = items[other] /\ queue'[other] = queue[other]
    BY <2>1 DEF EnqueueItem, Zadd, TypeOK
  <2>3. \A h \in Busy : task[h].id # id
    BY <2>1 DEF SettleInv, DeadIsDead, InFlight, Busy
  <2>4. Busy' = Busy  BY <2>1 DEF Busy
  <2>5. DeadIsDead'
    BY <2>1, <2>2 DEF SettleInv, DeadIsDead, InFlight, TypeOK
  <2> QED  BY <2>1, <2>2, <2>3, <2>4, <2>5, OthersPreserved
<1> QED
  BY <1>1, <1>2, <1>3 DEF ProducerStep, EnqueueOnce, Reschedule, Orderly

LEMMA HandlersKeepSettled ==
  ASSUME TypeOK, SettleInv, NEW h \in Handlers, HandlerStep(h)
  PROVE  SettleInv'
<1>0. h \in Busy
  BY DEF Busy, HandlerStep, HandlerReturns, HandlerThrows, AckItem, AckRejects,
         RequeueItem, MoveToDeadLetterQueue, RequeueRejects
<1>1. task[h] \in Task /\ task[h].id \in Ids /\ task[h].item \in Item
      /\ task[h].item.attempt \in 0..(MaxAttempts - 1)
  BY <1>0, BusyType
<1>2. ASSUME NEW step, SetStep(h, step)
      PROVE  \A g \in Busy' : /\ g \in Busy /\ task'[g].id = task[g].id
                              /\ task'[g].item = task[g].item /\ task'[g].until = task[g].until
  <2>1. task' = [task EXCEPT ![h].step = step]  BY <1>2 DEF SetStep
  <2>2. \A g \in Handlers : g # h => task'[g] = task[g]  BY <2>1 DEF TypeOK
  <2>3. /\ task'[h].id = task[h].id /\ task'[h].item = task[h].item
        /\ task'[h].until = task[h].until
    BY <1>1, <2>1 DEF TypeOK, Task
  <2> QED  BY <1>0, <2>2, <2>3 DEF Busy
<1>3. ASSUME Finish(h)
      PROVE  \A g \in Busy' : g \in Busy /\ task'[g] = task[g] /\ task[g].id # task[h].id
  BY <1>0, <1>3 DEF Finish, Busy, TypeOK, SettleInv, SoleHandler
<1>4. ASSUME UNCHANGED <<queue, items>> \/ Remove(task[h].id)
      PROVE  \A id \in Ids : items'[id] # Absent =>
               items'[id] = items[id] /\ queue'[id] = queue[id]
  BY <1>1, <1>4 DEF Remove, TypeOK
\* Handlers that only take items away.
<1>5. ASSUME UNCHANGED <<queue, items>> \/ Remove(task[h].id), UNCHANGED deadLetters,
             (\E step : SetStep(h, step)) \/ Finish(h)
      PROVE  SettleInv'
  <2>1. \A g \in Busy' : /\ g \in Busy /\ task'[g].id = task[g].id
                         /\ task'[g].item = task[g].item /\ task'[g].until = task[g].until
    BY <1>2, <1>3, <1>5
  <2>2. DeadIsDead'  BY <1>4, <1>5, <2>1, DeadPreserved
  <2>3. \A g \in Busy' : task[g].id \in Ids  BY <2>1, BusyType
  <2>4. \A g \in Busy' : items'[task[g].id] # Absent =>
          items'[task[g].id] = items[task[g].id] /\ queue'[task[g].id] = queue[task[g].id]
    BY <1>4, <1>5, <2>3
  <2> QED  BY <2>1, <2>2, <2>4, SettlePreserved
<1>6. CASE HandlerReturns(h)  BY <1>5, <1>6 DEF HandlerReturns
<1>7. CASE HandlerThrows(h)  BY <1>5, <1>7 DEF HandlerThrows
<1>8. CASE AckItem(h)  BY <1>5, <1>8 DEF AckItem, Ack
<1>9. CASE AckRejects(h)  BY <1>5, <1>9 DEF AckRejects, Ack
<1>10. CASE RequeueRejects(h)  BY <1>5, <1>10 DEF RequeueRejects
<1>11. CASE RequeueItem(h)
  <2>1. /\ UNCHANGED deadLetters /\ Finish(h)
        /\ \E item, delay : EnqueueItem(task[h].id, item, delay)
    BY <1>11 DEF RequeueItem
  <2>2. \A other \in Ids \ {task[h].id} :
          items'[other] = items[other] /\ queue'[other] = queue[other]
    BY <2>1 DEF EnqueueItem, Zadd, TypeOK
  <2>3. deadLetters[task[h].id] = Absent
    BY <1>0, <1>1 DEF Busy, SettleInv, DeadIsDead, InFlight
  <2>4. DeadIsDead'  BY <1>3, <2>1, <2>2, <2>3, DeadPreserved
  <2> QED  BY <1>1, <1>3, <2>1, <2>2, <2>4, OthersPreserved
\* The item is the one that was delivered, and that one has no attempt left.
<1>12. CASE MoveToDeadLetterQueue(h)
  <2>1. CASE items[task[h].id] = Absent
    BY <1>5, <1>12, <2>1 DEF MoveToDeadLetterQueue
  <2>2. CASE items[task[h].id] # Absent
    <3>1. /\ deadLetters' = [deadLetters EXCEPT ![task[h].id] = items[task[h].id]]
          /\ Remove(task[h].id) /\ Finish(h) /\ ~RetriesLeft(task[h].item)
      BY <1>12, <2>2 DEF MoveToDeadLetterQueue
    <3>2. items[task[h].id].attempt = MaxAttempts - 1
      <4>1. items[task[h].id].attempt = task[h].item.attempt
        BY <1>0, <2>2 DEF SettleInv, InTime
      <4> QED  BY <1>1, <3>1, <4>1, SMT DEF RetriesLeft
    <3>3. \A other \in Ids \ {task[h].id} :
            items'[other] = items[other] /\ queue'[other] = queue[other]
      BY <3>1 DEF Remove, TypeOK
    <3>4. items'[task[h].id] = Absent  BY <1>1, <3>1 DEF Remove, TypeOK
    <3>5. DeadIsDead'
      <4>1. ASSUME NEW id \in Ids, InFlight(id)'
            PROVE  id # task[h].id /\ InFlight(id)
        BY <1>3, <3>1, <4>1 DEF InFlight, Busy
      <4>2. ASSUME NEW id \in Ids, deadLetters'[id] # Absent
            PROVE  /\ deadLetters'[id].attempt = MaxAttempts - 1
                   /\ items'[id] = Absent /\ ~InFlight(id)'
        <5>1. CASE id = task[h].id
          BY <1>1, <3>1, <3>2, <3>4, <4>1, <5>1 DEF TypeOK
        <5>2. CASE id # task[h].id
          BY <3>1, <3>3, <4>1, <4>2, <5>2 DEF TypeOK, SettleInv, DeadIsDead
        <5> QED  BY <5>1, <5>2
      <4> QED  BY <4>2 DEF DeadIsDead
    <3> QED  BY <1>1, <1>3, <3>1, <3>3, <3>5, OthersPreserved
  <2> QED  BY <2>1, <2>2
<1> QED
  BY <1>6, <1>7, <1>8, <1>9, <1>10, <1>11, <1>12 DEF HandlerStep

LEMMA DequeueKeepsSettled ==
  ASSUME TypeOK, SettleInv, VisibilityTimeout > 0, NEW p \in Processes, DequeueItems(p)
  PROVE  SettleInv'
<1>1. PICK batch \in DueBatches(Min({DequeueCount, Cardinality(Free(p))})) :
        LET live == {id \in batch : items[id] # Absent} IN
        /\ queue' = [id \in Ids |-> IF id \in batch \ live THEN Absent
                                    ELSE Hide(live)[id]]
        /\ \E got \in Deliveries(p, live) : Deliver(p, got)
  BY DEF DequeueItems
<1> DEFINE live == {id \in batch : items[id] # Absent}
<1>2. PICK got \in Deliveries(p, live) : Deliver(p, got)  BY <1>1
<1>3. UNCHANGED <<items, deadLetters>>  BY DEF DequeueItems
<1>4. /\ got \in [Free(p) -> live \cup {Absent}]
      /\ \A h, g \in Free(p) : got[h] = got[g] /\ h # g => got[h] = Absent
  BY DEF Deliveries
<1>5. /\ \A id \in batch : id \in Ids /\ queue[id] # Absent /\ queue[id] <= 0
      /\ \A id \in live : queue'[id] = VisibilityTimeout
      /\ \A id \in Ids \ batch : queue'[id] = queue[id]
      /\ \A id \in live : id \in batch /\ items[id] # Absent
      /\ \A id \in batch \ live : items[id] = Absent
  BY <1>1 DEF DueBatches, DueIds, Hide
<1> DEFINE New == {h \in Free(p) : got[h] # Absent}
<1>6. /\ \A h \in New : /\ task'[h].id = got[h] /\ task'[h].item = items[got[h]]
                         /\ task'[h].until = VisibilityTimeout /\ got[h] \in live
                         /\ got[h] \in Ids
      /\ \A h \in Handlers \ New : task'[h] = task[h]
      /\ \A h, g \in New : h # g => got[h] # got[g]
  BY <1>2, <1>4, <1>5 DEF Deliver, Free
<1>7. \A h \in Busy' : h \in New \/ (h \in Busy /\ task'[h] = task[h])
  BY <1>6 DEF Busy
<1> HIDE DEF New, live
\* What is due is in nobody's hands.
<1>8. ASSUME NEW g \in Busy PROVE task[g].id \notin live
  <2>1. SUFFICES ASSUME task[g].id \in live PROVE FALSE  OBVIOUS
  <2>2. queue[task[g].id] # Absent /\ queue[task[g].id] >= task[g].until /\ task[g].until > 0
    BY <1>5, <2>1 DEF SettleInv, InTime
  <2>3. queue[task[g].id] <= 0 /\ queue[task[g].id] \in Int /\ task[g].until \in Nat
    BY <1>5, <2>1, <2>2, BusyType DEF TypeOK
  <2> QED  BY <2>2, <2>3, SMT
<1>9. InTime'
  <2>1. SUFFICES ASSUME NEW h \in Busy'
                 PROVE  /\ task'[h].until > 0
                        /\ items'[task'[h].id] # Absent =>
                             /\ queue'[task'[h].id] # Absent
                             /\ queue'[task'[h].id] >= task'[h].until
                             /\ items'[task'[h].id].attempt = task'[h].item.attempt
    BY DEF InTime
  <2>2. CASE h \in New
    <3>1. queue'[task'[h].id] = VisibilityTimeout /\ task'[h].until = VisibilityTimeout
      BY <1>5, <1>6, <2>2
    <3>2. items'[task'[h].id] = task'[h].item  BY <1>3, <1>6, <2>2
    <3>3. VisibilityTimeout >= VisibilityTimeout /\ VisibilityTimeout # Absent  BY SMT
    <3> QED  BY <3>1, <3>2, <3>3
  <2>3. CASE h \in Busy /\ task'[h] = task[h]
    <3>1. items[task[h].id] # Absent => task[h].id \notin batch
      BY <1>5, <1>8, <2>3
    <3>2. items[task[h].id] # Absent => queue'[task[h].id] = queue[task[h].id]
      BY <1>5, <2>3, <3>1, BusyType
    <3> QED  BY <1>3, <2>3, <3>2 DEF SettleInv, InTime
  <2> QED  BY <1>7, <2>2, <2>3
<1>10. SoleHandler'
  <2>1. SUFFICES ASSUME NEW h \in Busy', NEW g \in Busy', h # g
                 PROVE  task'[h].id # task'[g].id
    BY DEF SoleHandler
  <2>2. CASE h \in New /\ g \in New  BY <1>6, <2>1, <2>2
  <2>3. CASE h \in New /\ g \in Busy /\ task'[g] = task[g]  BY <1>6, <1>8, <2>3
  <2>4. CASE g \in New /\ h \in Busy /\ task'[h] = task[h]  BY <1>6, <1>8, <2>4
  <2>5. CASE h \in Busy /\ task'[h] = task[h] /\ g \in Busy /\ task'[g] = task[g]
    BY <2>1, <2>5 DEF SettleInv, SoleHandler
  <2> QED  BY <1>7, <2>2, <2>3, <2>4, <2>5
<1>11. DeadIsDead'
  <2>1. ASSUME NEW id \in Ids, InFlight(id)'
        PROVE  InFlight(id) \/ id \in live
    <3>1. PICK h \in Busy' : task'[h].id = id  BY <2>1 DEF InFlight, Busy
    <3> QED  BY <1>6, <1>7, <3>1 DEF InFlight, Busy
  <2> QED  BY <1>3, <1>5, <2>1 DEF SettleInv, DeadIsDead
<1> QED  BY <1>9, <1>10, <1>11 DEF SettleInv

LEMMA TickKeepsSettled == TypeOK /\ SettleInv /\ Orderly /\ Tick => SettleInv'
<1> SUFFICES ASSUME TypeOK, SettleInv, Orderly, Tick PROVE SettleInv'  OBVIOUS
<1>1. UNCHANGED <<items, deadLetters>>  BY DEF Tick
<1>2. ASSUME NEW h \in Busy'
      PROVE  /\ h \in Busy /\ task'[h].id = task[h].id /\ task'[h].item = task[h].item
             /\ task'[h].until = task[h].until - 1 /\ task[h].until > 1
             /\ task[h].until \in Nat /\ task[h].id \in Ids
  <2>1. h \in Busy  BY DEF Tick, TypeOK, Busy
  <2>2. task[h] \in Task /\ task[h] # Absent /\ task[h].until \in Nat /\ task[h].id \in Ids
    BY <2>1, BusyType
  <2>3. task[h].until > 1  BY <2>1 DEF Tick, Orderly, Busy
  <2>4. task[h].until # 0  BY <2>2, <2>3, SMT
  <2>5. task'[h] = [task[h] EXCEPT !.until = @ - 1]  BY <2>1, <2>2, <2>4 DEF Tick, Busy
  <2> QED  BY <2>1, <2>2, <2>3, <2>5 DEF Task
<1>3. InTime'
  <2>1. SUFFICES ASSUME NEW h \in Busy'
                 PROVE  /\ task'[h].until > 0
                        /\ items'[task'[h].id] # Absent =>
                             /\ queue'[task'[h].id] # Absent
                             /\ queue'[task'[h].id] >= task'[h].until
                             /\ items'[task'[h].id].attempt = task'[h].item.attempt
    BY DEF InTime
  <2>2. task'[h].until > 0  BY <1>2, SMT
  <2>3. ASSUME items[task[h].id] # Absent
        PROVE  /\ queue'[task[h].id] # Absent /\ queue'[task[h].id] >= task'[h].until
               /\ items[task[h].id].attempt = task[h].item.attempt
    <3> DEFINE id == task[h].id
    <3>1. /\ queue[id] # Absent /\ queue[id] >= task[h].until
          /\ items[id].attempt = task[h].item.attempt
      BY <1>2, <2>3 DEF SettleInv, InTime
    <3>2. queue[id] \in Int /\ id \in Ids  BY <1>2, <3>1 DEF TypeOK
    <3>3. ~(queue[id] <= -MaxAge) /\ queue[id] - 1 \in Int /\ queue[id] - 1 >= task[h].until - 1
      BY <1>2, <3>1, <3>2, SMT
    <3>4. queue'[id] = queue[id] - 1  BY <3>1, <3>2, <3>3 DEF Tick
    <3> QED  BY <1>2, <3>1, <3>3, <3>4
  <2> QED  BY <1>1, <1>2, <2>2, <2>3
<1>4. SoleHandler'  BY <1>2 DEF SoleHandler, SettleInv
<1>5. DeadIsDead'  BY <1>1, <1>2, DeadPreserved
<1> QED  BY <1>3, <1>4, <1>5 DEF SettleInv

LEMMA SettleStep ==
  ASSUME Orderly, VisibilityTimeout > 0, TypeOK, SettleInv, [Next]_vars
  PROVE  SettleInv'
<1>1. ASSUME \A h \in Busy' : h \in Busy /\ task'[h] = task[h],
             UNCHANGED <<queue, items, deadLetters>>
      PROVE  SettleInv'
  <2>1. DeadIsDead'  BY <1>1, DeadPreserved
  <2> QED  BY <1>1, <2>1, SettlePreserved
<1>2. ASSUME NEW p \in Processes, Crash(p) PROVE SettleInv'
  BY <1>1, <1>2 DEF Crash, Busy
<1>3. CASE UNCHANGED vars  BY <1>1, <1>3 DEF vars, Busy
<1> QED
  BY <1>2, <1>3, ProducersKeepSettled, HandlersKeepSettled, DequeueKeepsSettled,
     TickKeepsSettled DEF Next

LEMMA SettleInvariance ==
  ASSUME Orderly, VisibilityTimeout > 0 PROVE Spec => [](TypeOK /\ SettleInv)
<1>1. Init => TypeOK /\ SettleInv
  BY SMT DEF Init, TypeOK, SettleInv, InTime, SoleHandler, DeadIsDead, Busy
<1>2. TypeOK /\ SettleInv /\ [Next]_vars => (TypeOK /\ SettleInv)'
  BY TypeStep, SettleStep
<1> QED  BY <1>1, <1>2, PTL DEF Spec

\* While a producer uses an id again only when its last job is over, jobs are not
\* rescheduled and handlers are done within the visibility timeout, a job is
\* dead-lettered only after its last attempt, although handlers throw, processes
\* die, answers get lost, commands fail, and jobs are removed and redriven.
THEOREM DeadLettersAreExhausted ==
  ASSUME Orderly, VisibilityTimeout > 0 PROVE Spec => []DeadLettersExhausted
<1>1. SettleInv => DeadLettersExhausted
  BY DEF SettleInv, DeadIsDead, DeadLettersExhausted
<1> QED  BY <1>1, SettleInvariance, PTL

\* Under the same conditions two handlers do not hold the same item, although
\* dead-lettered jobs are redriven under the key they had.
THEOREM OneDeliveryWithRedrive ==
  ASSUME Orderly, VisibilityTimeout > 0 PROVE Spec => []OneDelivery
<1>1. SettleInv => OneDelivery
  BY DEF SettleInv, SoleHandler, OneDelivery, Busy
<1> QED  BY <1>1, SettleInvariance, PTL

=============================================================================
