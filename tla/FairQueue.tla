------------------------------ MODULE FairQueue ------------------------------
(***************************************************************************)
(* The fair queue of packages/redis-worker/src/fair-queue as one tenant    *)
(* sees it: the messages waiting in its queues, those in flight under a    *)
(* visibility timeout, the tenant's concurrency slots and the worker       *)
(* queue.  An operator stands for one Lua script or Redis pipeline; who    *)
(* calls them, and in which order, is in BatchQueue.                       *)
(*                                                                         *)
(* Left out: the scheduler's choice among queues and the order of messages *)
(* within one (any claimable set may be claimed), the dispatch indexes     *)
(* (every script that adds or removes a message updates them), cooloff and *)
(* the dead-letter queue (both disabled by the batch queue).               *)
(***************************************************************************)
EXTENDS Integers, FiniteSets, FiniteSetsExt

CONSTANTS
  Messages,     \* messages ever enqueued
  Limits,       \* concurrency limits the tenant may have
  BatchClaim,   \* batchClaimSize
  MaxDepth,     \* workerQueueMaxDepth
  MaxAttempts   \* maxAttempts of the retry strategy

ASSUME FairQueueBoundsAssumption ==
  /\ IsFiniteSet(Messages)
  /\ Limits \subseteq Nat \ {0} /\ BatchClaim \in Nat \ {0}
  /\ MaxDepth \in Nat \ {0} /\ MaxAttempts \in Nat \ {0}

VARIABLES
  queued,       \* messages in the queues
  inflight,     \* claimed messages, with their data
  attempt,      \* attempt in the data of each message, 0 before it is enqueued
  limit,        \* the tenant's limit
  slots,        \* its concurrency set
  workerQueue   \* keys pushed for the consumers

fqVars == <<queued, inflight, attempt, limit, slots, workerQueue>>

FQInit ==
  /\ queued = {} /\ inflight = {} /\ slots = {} /\ workerQueue = {}
  /\ attempt = [m \in Messages |-> 0] /\ limit \in Limits

\* enqueueMessageAtomicV2.
EnqueueMessage(m) ==
  /\ queued' = queued \cup {m}
  /\ attempt' = [attempt EXCEPT ![m] = 1]
  /\ UNCHANGED <<inflight, limit, slots, workerQueue>>

\* How many messages a claim may ask for.  What the slots and the depth of the
\* worker queue left was read earlier, and others have claimed since: any
\* number up to the limits themselves.
ClaimCounts == 1..Min({BatchClaim, limit, MaxDepth})

\* claimMessageBatch on a queue with the messages Q: n of them, or all.
ClaimMessages(S, Q, n) ==
  /\ S \subseteq Q /\ Cardinality(S) = Min({n, Cardinality(Q)})
  /\ queued' = queued \ S
  /\ inflight' = inflight \cup S
  /\ UNCHANGED <<attempt, limit, slots, workerQueue>>

\* reserveConcurrency.
Reserve(m) == Cardinality(slots) < limit /\ slots' = slots \cup {m}

\* releaseMessageBatch: messages that are no longer in flight are skipped.
ReleaseMessages(S) ==
  /\ inflight' = inflight \ S
  /\ queued' = queued \cup (S \cap inflight)
  /\ UNCHANGED <<attempt, limit, slots, workerQueue>>

CompleteNothing(m) == UNCHANGED fqVars
\* #removeFromInflight.
CompleteInflight(m) ==
  /\ inflight' = inflight \ {m}
  /\ UNCHANGED <<queued, attempt, limit, slots, workerQueue>>

RetryCountedTwice(m) ==
  /\ inflight' = inflight \ {m}
  /\ queued' = queued \cup {m}
  /\ attempt' = [attempt EXCEPT ![m] = @ + 2]
  /\ UNCHANGED <<limit, slots, workerQueue>>
\* #handleMessageFailure: requeued with the next attempt, or, as there is no
\* dead-letter queue, discarded.
RetryOrDiscard(m) ==
  /\ inflight' = inflight \ {m}
  /\ IF attempt[m] < MaxAttempts
     THEN queued' = queued \cup {m} /\ attempt' = [attempt EXCEPT ![m] = @ + 1]
     ELSE UNCHANGED <<queued, attempt>>
  /\ UNCHANGED <<limit, slots, workerQueue>>

ReleaseNoSlot(S) == UNCHANGED fqVars
\* release and releaseBatch of the concurrency manager.
ReleaseSlots(S) ==
  /\ slots' = slots \ S
  /\ UNCHANGED <<queued, inflight, attempt, limit, workerQueue>>

=============================================================================
