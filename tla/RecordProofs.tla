----------------------------- MODULE RecordProofs -----------------------------
(***************************************************************************)
(* That the records the pipeline keeps of a delivery agree with each other *)
(* and with what was done: request status, batch counters, attempt count,  *)
(* dead-letter stream.                                                     *)
(***************************************************************************)
EXTENDS LifecycleProofs

-----------------------------------------------------------------------------
(* The denormalised columns.  A step leaves them alone, inserts rows, or   *)
(* recomputes the request of the one row it finishes.                      *)

Unfinished == DeliveryStatus \ Terminal

\* The columns stay; rows move between unfinished statuses only, provided
\* that the workers own what they write.
Untouched ==
    /\ UNCHANGED aggregateVars
    /\ \A d \in Deliveries : status'[d] = "NONE" => status[d] = "NONE"
    /\ OwnInv => \A d \in Deliveries :
                    \/ status'[d] = status[d]
                    \/ status[d] \in Unfinished /\ status'[d] \in Unfinished

Finishes(d, st) ==
    /\ status' = [status EXCEPT ![d] = st]
    /\ recomputeRequestStatus(d, st)

Inserts ==
    \/ \E d \in Deliveries : \E wait : CreateNotification(d, wait)
    \/ \E b \in Batches, S \in SUBSET Deliveries : \E wait : CreateBatch(b, S, wait)

\* What a worker does to the columns.
LEMMA WorkerStepKinds ==
    ASSUME TypeOK, NEW w \in Workers, WorkerStep(w)
    PROVE  Untouched \/ \E d \in Deliveries, st \in Terminal : Finishes(d, st)
<1> USE DEF Unfinished, DeliveryStatus, Terminal
<1>1. CASE UNCHANGED storeVars
    BY <1>1 DEF storeVars, rowVars, Untouched
<1>2. CASE Claim(w)
  <2>1. /\ job[w] \in Deliveries /\ Claimable(job[w]) /\ UNCHANGED aggregateVars
        /\ status' = [status EXCEPT ![job[w]] = "PROCESSING"]
      BY <1>2 DEF Claim, ClaimDelivery, TypeOK, WorkersTypeOK
  <2> QED
      BY <2>1 DEF Untouched, Claimable, TypeOK, RowsTypeOK
<1>3. CASE PersistSent(w)
    BY <1>3 DEF PersistSent, MarkSent, Finishes, TypeOK, WorkersTypeOK
<1>4. ASSUME pc[w] = "persist", NEW n, NEW m, MarkRetrying(job[w], n, m)
      PROVE  Untouched
  <2>1. /\ job[w] \in Deliveries /\ UNCHANGED aggregateVars
        /\ status' = [status EXCEPT ![job[w]] = "RETRYING"]
      BY <1>4 DEF MarkRetrying, TypeOK, WorkersTypeOK
  <2>2. OwnInv => status[job[w]] = "PROCESSING"
      BY <1>4 DEF OwnInv, LeaseHeld, InFlight
  <2> QED
      BY <2>1, <2>2 DEF Untouched, TypeOK, RowsTypeOK
<1>5. ASSUME pc[w] = "persist", NEW n, MarkFailed(job[w], n)
      PROVE  \E d \in Deliveries, st \in Terminal : Finishes(d, st)
    BY <1>5 DEF MarkFailed, Finishes, TypeOK, WorkersTypeOK
<1>6. CASE handleFailure(w) \/ requeueWithoutAttempt(w)
    BY <1>4, <1>5, <1>6 DEF handleFailure, requeueWithoutAttempt
<1> QED
    BY <1>1, <1>2, <1>3, <1>6
       DEF WorkerStep, process, ReadMessage, SkipDuplicate, TokenGranted, TokenDenied,
           CallProvider, BreakerOpen, ProviderReturns, publishDLQ, StepFails, Crash, Start

\* What any step does to them.
LEMMA StepKinds ==
    ASSUME TypeOK, [Next]_vars
    PROVE  \/ Untouched
           \/ Inserts
           \/ \E d \in Deliveries, st \in Terminal : Finishes(d, st)
<1> USE DEF Unfinished, DeliveryStatus, Terminal
<1>1. ASSUME NEW d \in Deliveries, Create(d)
      PROVE  Inserts
    BY <1>1 DEF Create, Inserts
<1>2. ASSUME NEW d \in Deliveries, Cancel(d)
      PROVE  \E st \in Terminal : Finishes(d, st)
    BY <1>2 DEF Cancel, CancelRequest, Finishes
<1>3. ASSUME NEW b \in Batches, NEW S \in SUBSET Deliveries, SubmitBatch(b, S)
      PROVE  Inserts
    BY <1>3 DEF SubmitBatch, Inserts
<1>4. CASE promoteDue \/ sweepRetries
  <2>1. \E from \in {"SCHEDULED", "RETRYING"} : transitionAndEnqueue(from)
      BY <1>4 DEF promoteDue, sweepRetries, PromoteDue, SweepRetries
  <2> QED
      BY <2>1 DEF transitionAndEnqueue, Untouched
<1>5. CASE reapStuck
    BY <1>5 DEF reapStuck, ReapStuck, Expired, Untouched
<1>6. CASE UNCHANGED <<status, aggregateVars>>
    BY <1>6 DEF Untouched
<1>7. ASSUME NEW w \in Workers, WorkerStep(w)
      PROVE  Untouched \/ \E d \in Deliveries, st \in Terminal : Finishes(d, st)
    BY <1>7, WorkerStepKinds
<1>8. CASE Next
    BY <1>1, <1>2, <1>3, <1>4, <1>5, <1>6, <1>7, <1>8
       DEF Next, API, Scheduler, reconcile, ReconcilePending, Relay, DropRead, Flush, Tick,
           AgeRows, storeVars, rowVars
<1> QED
    BY <1>6, <1>8 DEF vars, storeVars, rowVars

\* RequestAgrees is inductive when the workers own what they write.
LEMMA RequestStep ==
    ASSUME TypeOK, OwnInv, RequestAgrees, [Next]_vars
    PROVE  RequestAgrees'
<1> USE DEF Unfinished, DeliveryStatus, Terminal, IsTerminal
<1>1. CASE Untouched
    BY <1>1, AggregateOfOne DEF Untouched, aggregateVars, RequestAgrees, TypeOK, RowsTypeOK
<1>2. CASE Inserts
  <2>1. PICK S \in SUBSET Deliveries : \E wait : insertRows(S, wait)
      BY <1>2 DEF Inserts, CreateNotification, CreateBatch
  <2>2. \A d \in S : request'[d] = "PENDING" /\ status'[d] \in {"PENDING", "SCHEDULED"}
      BY <2>1 DEF insertRows
  <2>3. \A d \in Deliveries \ S : request'[d] = request[d] /\ status'[d] = status[d]
      BY <2>1 DEF insertRows
  <2> QED
      BY <2>2, <2>3, AggregateOfOne DEF RequestAgrees
<1>3. ASSUME NEW d \in Deliveries, NEW st \in Terminal, Finishes(d, st)
      PROVE  RequestAgrees'
  <2>1. request' = [request EXCEPT ![d] = AggregateRequestStatus(<<st>>)]
      BY <1>3 DEF Finishes, recomputeRequestStatus
  <2>2. status' = [status EXCEPT ![d] = st]
      BY <1>3 DEF Finishes
  <2> QED
      BY <2>1, <2>2 DEF RequestAgrees, TypeOK, RowsTypeOK, AggregatesTypeOK
<1> QED
    BY <1>1, <1>2, <1>3, StepKinds

\* With a lease that covers the pipeline the stored request status is, in
\* every state, the one its delivery implies, although MarkRetrying,
\* ClaimDelivery and ReapStuck never recompute it.
THEOREM RequestsAgree ==
    ASSUME LeaseCoversPipeline
    PROVE  Spec => []RequestAgrees
<1>1. Init => RequestAgrees
    BY DEF Init, StoreInit, RequestAgrees
<1>2. TypeOK /\ OwnInv /\ RequestAgrees /\ [Next]_vars => RequestAgrees'
    BY RequestStep
<1> QED
    BY <1>1, <1>2, TypeCorrect, OwnCorrect, PTL DEF Spec

-----------------------------------------------------------------------------
(* The batch counters, whatever the lease.  CountersAgree is not inductive *)
(* alone: CreateBatch moves rows into its batch, so these must be in none. *)

InBucket(b, k) ==
    {d \in Deliveries : batchOf[d] = b /\ bucketColumn(request[d]) = k}

FreshInNoBatch == \A d \in Deliveries : status[d] = "NONE" => batchOf[d] = NoBatch

CounterInv == CountersAgree /\ FreshInNoBatch

\* Requests that stay in their batches and in their buckets are counted as
\* they were.
LEMMA BucketsKept ==
    ASSUME CountersAgree, UNCHANGED <<batchOf, counters>>,
           \A d \in Deliveries : batchOf[d] \in Batches => request'[d] = request[d]
    PROVE  CountersAgree'
<1> SUFFICES ASSUME NEW b \in Batches, NEW k \in Buckets
             PROVE  counters'[b][k] = Cardinality(InBucket(b, k)')
    BY DEF CountersAgree, InBucket
<1>1. InBucket(b, k)' = InBucket(b, k)
    BY DEF InBucket
<1> QED
    BY <1>1 DEF CountersAgree, InBucket

\* A new batch holds nothing but the rows inserted with it, all PENDING.
LEMMA BatchCounted ==
    ASSUME TypeOK, CounterInv, NEW b \in Batches, NEW S \in SUBSET Deliveries, NEW wait,
           CreateBatch(b, S, wait)
    PROVE  CountersAgree'
<1> SUFFICES ASSUME NEW c \in Batches, NEW k \in Buckets
             PROVE  counters'[c][k] = Cardinality(InBucket(c, k)')
    BY DEF CountersAgree, InBucket
<1>1. /\ \A d \in S : batchOf[d] = NoBatch /\ request'[d] = "PENDING" /\ batchOf'[d] = b
      /\ \A d \in Deliveries \ S : request'[d] = request[d] /\ batchOf'[d] = batchOf[d]
      /\ \A d \in Deliveries : batchOf[d] # b
    BY DEF CreateBatch, insertRows, CounterInv, FreshInNoBatch
<1>2. counters' = [counters EXCEPT ![b] =
                      [counters[b] EXCEPT !["pending_count"] = Cardinality(S)]]
    BY DEF CreateBatch
<1>3. counters \in [Batches -> [Buckets -> Nat]] /\ counters[b] \in [Buckets -> Nat]
    BY DEF TypeOK, AggregatesTypeOK
<1>4. CASE c # b
  <2>1. InBucket(c, k)' = InBucket(c, k)
      BY <1>1, <1>4, StoreAssumption DEF InBucket
  <2>2. counters'[c][k] = counters[c][k]
      BY <1>2, <1>3, <1>4
  <2> QED
      BY <2>1, <2>2 DEF CounterInv, CountersAgree, InBucket
<1>5. CASE c = b /\ k = "pending_count"
  <2>1. InBucket(b, k)' = S
      BY <1>1, <1>5 DEF InBucket, bucketColumn
  <2>2. counters'[b][k] = Cardinality(S)
      BY <1>2, <1>3, <1>5
  <2> QED
      BY <1>5, <2>1, <2>2
<1>6. CASE c = b /\ k # "pending_count"
  <2>1. InBucket(b, k)' = {} /\ InBucket(b, k) = {}
      BY <1>1, <1>6 DEF InBucket, bucketColumn
  <2>2. counters'[b][k] = counters[b][k]
      BY <1>2, <1>3, <1>6
  <2> QED
      BY <1>6, <2>1, <2>2 DEF CounterInv, CountersAgree, InBucket
<1> QED
    BY <1>4, <1>5, <1>6

\* adjustBatchCounters takes a request out of one bucket and puts it into
\* another; the GREATEST(x, 0) never has to act.
LEMMA RequestMoved ==
    ASSUME TypeOK, CountersAgree, NEW d \in Deliveries, NEW st,
           recomputeRequestStatus(d, st)
    PROVE  CountersAgree'
<1> DEFINE new == AggregateRequestStatus(<<st>>)
           b == batchOf[d]
           x == bucketColumn(request[d])
           y == bucketColumn(new)
<1>1. /\ request' = [request EXCEPT ![d] = new] /\ batchOf' = batchOf
      /\ request'[d] = new
      /\ \A e \in Deliveries \ {d} : request'[e] = request[e]
    BY DEF recomputeRequestStatus, TypeOK, AggregatesTypeOK
<1>2. x \in Buckets /\ y \in Buckets
    BY BucketType
<1>3. counters' = IF new = request[d] \/ b = NoBatch
                  THEN counters ELSE adjustBatchCounters(b, request[d], new)
    BY DEF recomputeRequestStatus
<1>4. CASE new = request[d] \/ b = NoBatch
  <2>1. counters' = counters
      BY <1>3, <1>4
  <2>2. \A e \in Deliveries : batchOf[e] \in Batches => request'[e] = request[e]
      BY <1>1, <1>4, StoreAssumption
  <2> QED
      BY <1>1, <2>1, <2>2, BucketsKept
<1>5. CASE ~(new = request[d] \/ b = NoBatch)
  <2>1. b \in Batches /\ counters' = adjustBatchCounters(b, request[d], new)
      BY <1>3, <1>5 DEF TypeOK, AggregatesTypeOK
  <2>2. CASE x = y
    <3>1. counters' = counters
        BY <2>1, <2>2 DEF adjustBatchCounters
    <3>2. ASSUME NEW c \in Batches, NEW k \in Buckets
          PROVE  InBucket(c, k)' = InBucket(c, k)
        BY <1>1, <2>2 DEF InBucket
    <3> QED
        BY <3>1, <3>2 DEF CountersAgree, InBucket
  <2>3. CASE x # y
    <3>1. counters' = [counters EXCEPT
                          ![b][x] = IF @ > 0 THEN @ - 1 ELSE 0,
                          ![b][y] = @ + 1]
        BY <2>1, <2>3 DEF adjustBatchCounters
    <3>2. counters \in [Batches -> [Buckets -> Nat]] /\ counters[b] \in [Buckets -> Nat]
        BY <2>1 DEF TypeOK, AggregatesTypeOK
    <3>3. \A c \in Batches, k \in Buckets :
              /\ InBucket(c, k) \subseteq Deliveries
              /\ IsFiniteSet(InBucket(c, k)) /\ Cardinality(InBucket(c, k)) \in Nat
        BY QueueAssumption, FS_Subset, FS_CardinalityType DEF InBucket
    <3>4. d \in InBucket(b, x) /\ d \notin InBucket(b, y)
        BY <2>3 DEF InBucket
    <3>5. \A c \in Batches, k \in Buckets : c = b =>
              /\ k = x => InBucket(c, k)' = InBucket(b, x) \ {d}
              /\ k = y => InBucket(c, k)' = InBucket(b, y) \cup {d}
        BY <1>1, <2>3 DEF InBucket
    <3>6. \A c \in Batches, k \in Buckets : c # b \/ k \notin {x, y} =>
              InBucket(c, k)' = InBucket(c, k)
        BY <1>1 DEF InBucket
    <3>7. /\ counters[b][x] = Cardinality(InBucket(b, x))
          /\ counters[b][y] = Cardinality(InBucket(b, y))
        BY <1>2, <2>1 DEF CountersAgree, InBucket
    <3> HIDE DEF b, x, y, new
    <3>8. /\ Cardinality(InBucket(b, x) \ {d}) = Cardinality(InBucket(b, x)) - 1
          /\ Cardinality(InBucket(b, y) \cup {d}) = Cardinality(InBucket(b, y)) + 1
        BY <1>2, <2>1, <3>3, <3>4, FS_RemoveElement, FS_AddElement
    <3>9. Cardinality(InBucket(b, x)) # 0
        BY <1>2, <2>1, <3>3, <3>4, FS_EmptySet
    <3>10. counters' = [counters EXCEPT ![b] =
                           [counters[b] EXCEPT
                               ![x] = IF counters[b][x] > 0 THEN counters[b][x] - 1
                                                            ELSE 0,
                               ![y] = counters[b][y] + 1]]
        BY <1>2, <2>1, <2>3, <3>1, <3>2
    <3>11. /\ counters'[b][x] = counters[b][x] - 1
           /\ counters'[b][y] = counters[b][y] + 1
           /\ \A k \in Buckets \ {x, y} : counters'[b][k] = counters[b][k]
           /\ \A c \in Batches \ {b} : counters'[c] = counters[c]
        BY <1>2, <2>1, <2>3, <3>2, <3>3, <3>7, <3>9, <3>10
    <3> SUFFICES ASSUME NEW c \in Batches, NEW k \in Buckets
                 PROVE  counters'[c][k] = Cardinality(InBucket(c, k)')
        BY DEF CountersAgree, InBucket
    <3>12. CASE c # b \/ k \notin {x, y}
        BY <3>6, <3>11, <3>12 DEF CountersAgree, InBucket
    <3>13. CASE c = b /\ k \in {x, y}
        BY <3>5, <3>7, <3>8, <3>11, <3>13
    <3> QED
        BY <3>12, <3>13
  <2> QED
      BY <2>2, <2>3
<1> QED
    BY <1>4, <1>5

\* CounterInv is inductive.
LEMMA CounterStep == TypeOK /\ CounterInv /\ [Next]_vars => CounterInv'
<1> SUFFICES ASSUME TypeOK, CounterInv, [Next]_vars
             PROVE  CounterInv'
    OBVIOUS
<1>1. CASE Untouched
  <2>1. UNCHANGED aggregateVars /\ FreshInNoBatch'
      BY <1>1 DEF Untouched, aggregateVars, CounterInv, FreshInNoBatch
  <2> QED
      BY <2>1, BucketsKept DEF CounterInv, aggregateVars
<1>2. ASSUME NEW d \in Deliveries, NEW wait, CreateNotification(d, wait)
      PROVE  CounterInv'
  <2>1. /\ batchOf' = batchOf /\ counters' = counters /\ batchOf[d] = NoBatch
        /\ \A e \in Deliveries \ {d} : request'[e] = request[e] /\ status'[e] = status[e]
        /\ status'[d] # "NONE"
      BY <1>2 DEF CreateNotification, insertRows, CounterInv, FreshInNoBatch
  <2>2. \A e \in Deliveries : batchOf[e] \in Batches => request'[e] = request[e]
      BY <2>1, StoreAssumption
  <2>3. FreshInNoBatch'
      BY <2>1 DEF CounterInv, FreshInNoBatch
  <2> QED
      BY <2>1, <2>2, <2>3, BucketsKept DEF CounterInv
<1>3. ASSUME NEW b \in Batches, NEW S \in SUBSET Deliveries, NEW wait,
             CreateBatch(b, S, wait)
      PROVE  CounterInv'
  <2>1. FreshInNoBatch'
      BY <1>3 DEF CreateBatch, insertRows, CounterInv, FreshInNoBatch
  <2> QED
      BY <1>3, <2>1, BatchCounted DEF CounterInv
<1>4. ASSUME NEW d \in Deliveries, NEW st \in Terminal, Finishes(d, st)
      PROVE  CounterInv'
  <2>1. FreshInNoBatch'
      BY <1>4 DEF Finishes, recomputeRequestStatus, CounterInv, FreshInNoBatch, Terminal,
                  TypeOK, RowsTypeOK
  <2> QED
      BY <1>4, <2>1, RequestMoved DEF CounterInv, Finishes
<1> QED
    BY <1>1, <1>2, <1>3, <1>4, StepKinds DEF Inserts

\* Each counter of each batch is the number of its requests in that bucket,
\* whatever the lease: stale writes move a request between two buckets too.
THEOREM CountersExact == Spec => []CountersAgree
<1>1. Init => CounterInv
  <2> SUFFICES ASSUME Init
               PROVE  CounterInv
      OBVIOUS
  <2>1. FreshInNoBatch
      BY DEF Init, StoreInit, FreshInNoBatch
  <2>2. \A b \in Batches, k \in Buckets : InBucket(b, k) = {} /\ counters[b][k] = 0
      BY StoreAssumption DEF Init, StoreInit, InBucket
  <2> QED
      BY <2>1, <2>2, FS_EmptySet DEF CounterInv, CountersAgree, InBucket
<1>2. CounterInv => CountersAgree
    BY DEF CounterInv
<1> QED
    BY <1>1, <1>2, CounterStep, TypeCorrect, PTL DEF Spec

-----------------------------------------------------------------------------
(* What a worker writes, and what everybody else leaves alone.              *)

\* A finished row keeps its status and its count, and no count goes down.
RowsProgress ==
    \A d \in Deliveries :
        /\ attemptCount'[d] >= attemptCount[d]
        /\ IsTerminal(status[d]) => /\ status'[d] = status[d]
                                    /\ attemptCount'[d] = attemptCount[d]

\* The steps that are no worker's leave the workers and the counts alone.
LEMMA Elsewhere ==
    ASSUME TypeOK, [Next]_vars, ~\E w \in Workers : WorkerStep(w)
    PROVE  /\ RowsProgress
           /\ UNCHANGED <<pc, job, attempt, resp, calls, attemptCount>>
           /\ dlq' \subseteq dlq
           /\ faults' >= faults
<1> USE DEF IsTerminal, Terminal
<1>a. \A d \in Deliveries : attemptCount[d] \in Nat
    BY DEF TypeOK, RowsTypeOK
<1>1. UNCHANGED <<pc, job, attempt, resp, calls>>
    BY DEF Next, API, Scheduler, Create, Cancel, SubmitBatch, promoteDue, sweepRetries,
       reapStuck, reconcile, Relay, DropRead, Flush, Tick, AgeWorkers, workerVars, vars
<1>2. UNCHANGED attemptCount
    BY DEF Next, API, Scheduler, Create, Cancel, SubmitBatch, promoteDue, sweepRetries,
       reapStuck, reconcile, Relay, DropRead, Flush, Tick, vars, storeVars, rowVars,
       CreateNotification, CreateBatch, insertRows, CancelRequest, PromoteDue, SweepRetries,
       transitionAndEnqueue, ReapStuck, ReconcilePending, AgeRows
<1>3. \A d \in Deliveries : IsTerminal(status[d]) => status'[d] = status[d]
  <2>1. ASSUME NEW S \in SUBSET Deliveries, NEW wait, insertRows(S, wait)
        PROVE  \A d \in Deliveries : IsTerminal(status[d]) => status'[d] = status[d]
      BY <2>1 DEF insertRows
  <2>2. ASSUME NEW d \in Deliveries, Create(d) \/ Cancel(d)
        PROVE  \A e \in Deliveries : IsTerminal(status[e]) => status'[e] = status[e]
      BY <2>1, <2>2 DEF Create, CreateNotification, Cancel, CancelRequest, TypeOK, RowsTypeOK
  <2>3. ASSUME NEW b \in Batches, NEW S \in SUBSET Deliveries, SubmitBatch(b, S)
        PROVE  \A e \in Deliveries : IsTerminal(status[e]) => status'[e] = status[e]
      BY <2>1, <2>3 DEF SubmitBatch, CreateBatch
  <2>4. CASE promoteDue \/ sweepRetries
    <3>1. \E from \in {"SCHEDULED", "RETRYING"} : transitionAndEnqueue(from)
        BY <2>4 DEF promoteDue, sweepRetries, PromoteDue, SweepRetries
    <3> QED
        BY <3>1 DEF transitionAndEnqueue
  <2>5. CASE reapStuck
      BY <2>5 DEF reapStuck, ReapStuck, Expired
  <2>6. CASE UNCHANGED status
      BY <2>6
  <2> QED
      BY <2>2, <2>3, <2>4, <2>5, <2>6
         DEF Next, API, Scheduler, reconcile, ReconcilePending, Relay, DropRead, Flush,
             Tick, AgeRows, vars, storeVars, rowVars
<1>4. dlq' \subseteq dlq
    BY DEF Next, API, Scheduler, Create, Cancel, SubmitBatch, promoteDue, sweepRetries,
       reapStuck, reconcile, Relay, relayOutbox, FetchUnpublishedOutbox, RelayPublish,
       Publish, RelayPublishFails, MarkOutboxPublished, RelayAborts, DropRead, Read, Flush,
       FlushRedis, Tick, queueVars, vars
<1>5. faults' >= faults
  <2>1. faults \in Nat
      BY FaultsAssumption DEF TypeOK, FaultsTypeOK
  <2>2. faults' = faults \/ faults' = faults + 1
      BY DEF Next, API, Scheduler, Create, Cancel, SubmitBatch, promoteDue, sweepRetries,
         reapStuck, reconcile, Relay, relayOutbox, FetchUnpublishedOutbox, RelayPublish,
         RelayPublishFails, MarkOutboxPublished, RelayAborts, DropRead, Flush, Tick,
         Fault, NoFault, faultVars, vars
  <2> QED
      BY <2>1, <2>2
<1> QED
    BY <1>a, <1>1, <1>2, <1>3, <1>4, <1>5 DEF RowsProgress

\* The step of a worker at its write: the row it holds is sent, counted as
\* failed, or given back uncounted.
Writes(w) ==
    /\ pc[w] = "persist"
    /\ \/ /\ resp[w].kind = "ok"
          /\ status' = [status EXCEPT ![job[w]] = "SENT"]
          /\ UNCHANGED attemptCount
          /\ pc'[w] = "idle"
       \/ /\ resp[w] \in Responses
          /\ attemptCount' = [attemptCount EXCEPT ![job[w]] = attempt[w] + 1]
          /\ \/ /\ status' = [status EXCEPT ![job[w]] = "FAILED"]
                /\ pc'[w] = "dlq"
                /\ job'[w] = job[w]
                /\ attempt'[w] = attempt[w] + 1
             \/ /\ status' = [status EXCEPT ![job[w]] = "RETRYING"]
                /\ pc'[w] = "idle"
       \/ /\ resp[w] = Requeue
          /\ attemptCount' = [attemptCount EXCEPT ![job[w]] = attempt[w]]
          /\ status' = [status EXCEPT ![job[w]] = "RETRYING"]
          /\ pc'[w] = "idle"
    /\ UNCHANGED <<calls, faults, dlq>>

\* The other workers stay where they are.
OthersWait(w) ==
    \A v \in Workers \ {w} : Same(v) /\ resp'[v] = resp[v]

\* What the three writes of a worker come down to.
LEMMA WritesBy ==
    ASSUME TypeOK, NEW w \in Workers,
           PersistSent(w) \/ handleFailure(w) \/ requeueWithoutAttempt(w)
    PROVE  Writes(w) /\ OthersWait(w)
<1>1. /\ pc[w] = "persist" /\ attempt[w] \in Nat
      /\ UNCHANGED <<calls, faults, dlq>>
    BY DEF PersistSent, handleFailure, requeueWithoutAttempt, Done, NoFault, faultVars,
       queueVars, TypeOK, WorkersTypeOK
<1>a. ASSUME Done(w, "idle")
      PROVE  pc'[w] = "idle" /\ OthersWait(w)
    BY <1>a DEF Done, OthersWait, Same, TypeOK, WorkersTypeOK
<1>2. CASE PersistSent(w)
    BY <1>1, <1>2, <1>a DEF PersistSent, MarkSent, Writes
<1>3. CASE requeueWithoutAttempt(w)
    BY <1>1, <1>3, <1>a DEF requeueWithoutAttempt, MarkRetrying, Writes
<1>4. CASE handleFailure(w)
  <2>1. PICK o \in EvaluateFailure(attempt[w], Classify(resp[w])) :
            \/ /\ o.status = "FAILED"
               /\ MarkFailed(job[w], o.attemptCount)
               /\ Enter(w, "dlq", 0)
               /\ attempt' = [attempt EXCEPT ![w] = o.attemptCount]
               /\ UNCHANGED <<job, resp, calls>>
            \/ /\ o.status = "RETRYING"
               /\ MarkRetrying(job[w], o.attemptCount, o.wait)
               /\ Done(w, "idle")
      BY <1>4 DEF handleFailure
  <2>2. resp[w] \in Responses /\ o.attemptCount = attempt[w] + 1
      BY <1>1, <1>4, EvaluateFailureOutcome DEF handleFailure
  <2>3. CASE o.status = "FAILED"
    <3>1. /\ MarkFailed(job[w], attempt[w] + 1)
          /\ pc' = [pc EXCEPT ![w] = "dlq"] /\ left' = [left EXCEPT ![w] = 0]
          /\ attempt' = [attempt EXCEPT ![w] = attempt[w] + 1]
          /\ UNCHANGED <<job, resp>>
        BY <2>1, <2>2, <2>3 DEF Enter
    <3>2. pc'[w] = "dlq" /\ attempt'[w] = attempt[w] + 1 /\ job'[w] = job[w] /\ OthersWait(w)
        BY <3>1 DEF OthersWait, Same, TypeOK, WorkersTypeOK
    <3>3. /\ status' = [status EXCEPT ![job[w]] = "FAILED"]
          /\ attemptCount' = [attemptCount EXCEPT ![job[w]] = attempt[w] + 1]
        BY <3>1 DEF MarkFailed
    <3> QED
        BY <1>1, <2>2, <3>2, <3>3 DEF Writes
  <2>4. CASE o.status = "RETRYING"
    <3>1. MarkRetrying(job[w], attempt[w] + 1, o.wait) /\ Done(w, "idle")
        BY <2>1, <2>2, <2>4
    <3>2. /\ status' = [status EXCEPT ![job[w]] = "RETRYING"]
          /\ attemptCount' = [attemptCount EXCEPT ![job[w]] = attempt[w] + 1]
        BY <3>1 DEF MarkRetrying
    <3> QED
        BY <1>1, <1>a, <2>2, <3>1, <3>2 DEF Writes
  <2> QED
      BY <2>1, <2>3, <2>4
<1> QED
    BY <1>2, <1>3, <1>4

\* A worker that owns its row writes only unfinished rows.
LEMMA WritesProgress ==
    ASSUME TypeOK, OwnInv, NEW w \in Workers, Writes(w)
    PROVE  RowsProgress
<1>1. /\ job[w] \in Deliveries /\ status[job[w]] = "PROCESSING"
      /\ attempt[w] = attemptCount[job[w]]
      /\ attemptCount \in [Deliveries -> Nat]
      /\ status \in [Deliveries -> DeliveryStatus \cup {"NONE"}]
    BY DEF Writes, OwnInv, LeaseHeld, ClaimFresh, InFlight, TypeOK, WorkersTypeOK, RowsTypeOK
<1>2. \A d \in Deliveries : attemptCount'[d] >= attemptCount[d]
    BY <1>1 DEF Writes
<1>3. \A d \in Deliveries \ {job[w]} :
          status'[d] = status[d] /\ attemptCount'[d] = attemptCount[d]
    BY <1>1 DEF Writes
<1> QED
    BY <1>1, <1>2, <1>3 DEF RowsProgress, IsTerminal, Terminal

\* The steps of a worker, by what they write.  Unless it is a claim or one of
\* the three writes, no row changes.
LEMMA WorkerStepWrites ==
    ASSUME TypeOK, OwnInv, NEW w \in Workers, WorkerStep(w)
    PROVE  /\ RowsProgress
           /\ OthersWait(w)
           /\ UNCHANGED <<status, attemptCount>> \/ Claim(w) \/ Writes(w)
<1>a. \A d \in Deliveries : attemptCount[d] \in Nat
    BY DEF TypeOK, RowsTypeOK
<1>b. ASSUME NEW phase, Done(w, phase)
      PROVE  OthersWait(w)
    BY <1>b DEF Done, OthersWait, Same, TypeOK, WorkersTypeOK
<1>1. CASE PersistSent(w) \/ handleFailure(w) \/ requeueWithoutAttempt(w)
    BY <1>1, WritesBy, WritesProgress
<1>2. CASE Claim(w)
  <2>1. /\ job[w] \in Deliveries /\ Claimable(job[w]) /\ attemptCount' = attemptCount
        /\ status' = [status EXCEPT ![job[w]] = "PROCESSING"]
      BY <1>2 DEF Claim, ClaimDelivery, TypeOK, WorkersTypeOK
  <2>2. RowsProgress
      BY <1>a, <2>1 DEF RowsProgress, Claimable, IsTerminal, Terminal, TypeOK, RowsTypeOK
  <2>3. OthersWait(w)
      BY <1>2 DEF Claim, Enter, OthersWait, Same, TypeOK, WorkersTypeOK
  <2> QED
      BY <1>2, <2>2, <2>3
<1>3. CASE (\E d \in Deliveries : ReadMessage(w, d)) \/ TokenGranted(w) \/ TokenDenied(w)
           \/ CallProvider(w) \/ BreakerOpen(w) \/ ProviderReturns(w)
  <2>1. UNCHANGED <<status, attemptCount>>
      BY <1>3 DEF ReadMessage, TokenGranted, TokenDenied, CallProvider, BreakerOpen,
                  ProviderReturns, storeVars, rowVars
  <2>2. OthersWait(w)
      BY <1>3 DEF ReadMessage, TokenGranted, TokenDenied, CallProvider, BreakerOpen,
                  ProviderReturns, Enter, OthersWait, Same, TypeOK, WorkersTypeOK
  <2> QED
      BY <1>a, <2>1, <2>2 DEF RowsProgress
<1>4. CASE SkipDuplicate(w) \/ publishDLQ(w) \/ StepFails(w) \/ Crash(w) \/ Start(w)
  <2>1. UNCHANGED <<status, attemptCount>> /\ \E phase \in {"idle", "down"} : Done(w, phase)
      BY <1>4 DEF SkipDuplicate, publishDLQ, StepFails, Crash, Start, storeVars, rowVars
  <2> QED
      BY <1>a, <1>b, <2>1 DEF RowsProgress
<1> QED
    BY <1>1, <1>2, <1>3, <1>4 DEF WorkerStep, process

-----------------------------------------------------------------------------
(* The dead-letter stream.  Between MarkFailed and publishDLQ the entry    *)
(* exists only in the worker's hands, so DeadLetterIsFailed alone is not   *)
(* inductive.                                                              *)

DeadLetterInHand ==
    \A w \in Workers : pc[w] = "dlq" => /\ status[job[w]] = "FAILED"
                                        /\ attemptCount[job[w]] = attempt[w]

DeadLetterInv == DeadLetterIsFailed /\ DeadLetterInHand

\* DeadLetterInv is inductive when the workers own what they write.
LEMMA DeadLetterStep ==
    ASSUME TypeOK, OwnInv, DeadLetterInv, [Next]_vars
    PROVE  DeadLetterInv'
<1>a. \A e \in dlq : e.delivery \in Deliveries
    BY DEF TypeOK, QueueTypeOK
<1>b. \A w \in Workers : pc[w] = "dlq" => job[w] \in Deliveries
    BY DEF TypeOK, WorkersTypeOK
<1>c. ASSUME RowsProgress, NEW d \in Deliveries, status[d] = "FAILED"
      PROVE  status'[d] = "FAILED" /\ attemptCount'[d] = attemptCount[d]
    BY <1>c DEF RowsProgress, IsTerminal, Terminal
<1>1. CASE ~\E w \in Workers : WorkerStep(w)
  <2>1. RowsProgress /\ UNCHANGED <<pc, job, attempt>> /\ dlq' \subseteq dlq
      BY <1>1, Elsewhere
  <2> QED
      BY <2>1, <1>a, <1>b, <1>c DEF DeadLetterInv, DeadLetterIsFailed, DeadLetterInHand
<1>2. ASSUME NEW w \in Workers, WorkerStep(w)
      PROVE  DeadLetterInv'
  <2>1. RowsProgress /\ OthersWait(w)
      BY <1>2, WorkerStepWrites
  <2>2. \A v \in Workers \ {w} : pc'[v] = "dlq" =>
            /\ status'[job'[v]] = "FAILED"
            /\ attemptCount'[job'[v]] = attempt'[v]
      BY <2>1, <1>b, <1>c DEF DeadLetterInv, DeadLetterInHand, OthersWait, Same
  <2>3. CASE PersistSent(w) \/ handleFailure(w) \/ requeueWithoutAttempt(w)
    <3>1. Writes(w) /\ dlq' = dlq /\ job[w] \in Deliveries
        BY <2>3, WritesBy DEF Writes, TypeOK, WorkersTypeOK
    <3>2. pc'[w] = "dlq" => /\ status'[job'[w]] = "FAILED"
                            /\ attemptCount'[job'[w]] = attempt'[w]
        BY <3>1 DEF Writes, TypeOK, RowsTypeOK
    <3> QED
        BY <2>1, <2>2, <3>1, <3>2, <1>a, <1>c
           DEF DeadLetterInv, DeadLetterIsFailed, DeadLetterInHand
  <2>4. CASE publishDLQ(w)
    <3>1. /\ dlq' = dlq \cup {[delivery |-> job[w], reason |-> dlqReason(attempt[w]),
                               attempts |-> attempt[w]]}
          /\ pc[w] = "dlq" /\ pc'[w] = "idle"
        BY <2>4 DEF publishDLQ, PublishDLQ, Done, TypeOK, WorkersTypeOK
    <3>2. ASSUME NEW e \in dlq'
          PROVE  status'[e.delivery] = "FAILED" /\ attemptCount'[e.delivery] = e.attempts
      <4>1. CASE e \in dlq
          BY <4>1, <2>1, <1>a, <1>c DEF DeadLetterInv, DeadLetterIsFailed
      <4>2. CASE e = [delivery |-> job[w], reason |-> dlqReason(attempt[w]),
                      attempts |-> attempt[w]]
          BY <4>2, <3>1, <2>1, <1>b, <1>c DEF DeadLetterInv, DeadLetterInHand
      <4> QED
          BY <3>1, <4>1, <4>2
    <3> QED
        BY <2>2, <3>1, <3>2 DEF DeadLetterInv, DeadLetterIsFailed, DeadLetterInHand
  <2>5. CASE Claim(w) \/ (\E d \in Deliveries : ReadMessage(w, d)) \/ TokenGranted(w)
             \/ TokenDenied(w) \/ CallProvider(w) \/ BreakerOpen(w) \/ ProviderReturns(w)
             \/ SkipDuplicate(w) \/ StepFails(w) \/ Crash(w) \/ Start(w)
    <3>1. dlq' = dlq
        BY <2>5 DEF Claim, ReadMessage, Read, TokenGranted, TokenDenied, CallProvider,
           BreakerOpen, ProviderReturns, SkipDuplicate, StepFails, Crash, Start,
           EnsureGroup, queueVars
    <3>2. pc'[w] # "dlq"
        BY <2>5 DEF Claim, ReadMessage, TokenGranted, TokenDenied, CallProvider,
           BreakerOpen, ProviderReturns, SkipDuplicate, StepFails, Crash, Start, Enter,
           Done, TypeOK, WorkersTypeOK
    <3> QED
        BY <2>1, <2>2, <3>1, <3>2, <1>a, <1>c
           DEF DeadLetterInv, DeadLetterIsFailed, DeadLetterInHand
  <2> QED
      BY <1>2, <2>3, <2>4, <2>5 DEF WorkerStep, process
<1> QED
    BY <1>1, <1>2

\* With a lease that covers the pipeline everything in the dead-letter stream
\* is FAILED for good, with the attempt count the entry says.
THEOREM DeadLettersFailed ==
    ASSUME LeaseCoversPipeline
    PROVE  Spec => []DeadLetterIsFailed
<1>1. Init => DeadLetterInv
    BY DEF Init, QueueInit, WorkerInit, DeadLetterInv, DeadLetterIsFailed, DeadLetterInHand
<1>2. TypeOK /\ OwnInv /\ DeadLetterInv /\ [Next]_vars => DeadLetterInv'
    BY DeadLetterStep
<1>3. DeadLetterInv => DeadLetterIsFailed
    BY DEF DeadLetterInv
<1> QED
    BY <1>1, <1>2, <1>3, TypeCorrect, OwnCorrect, PTL DEF Spec

-----------------------------------------------------------------------------
(* The calls.  SendsAccounted is inductive relative to OwnInv: a call opens *)
(* an account only the worker that made it can close.                      *)

Open(d) == IF \E w \in Workers : CallOpen(w, d) THEN 1 ELSE 0

Sent(d) == IF status[d] = "SENT" THEN 1 ELSE 0

\* What is known of the calls made for d.
Account(d) == attemptCount[d] + Sent(d) + Open(d) + faults

\* The account is a number.
LEMMA AccountType ==
    ASSUME TypeOK, NEW d \in Deliveries
    PROVE  /\ Account(d) \in Nat /\ Open(d) \in 0..1 /\ Sent(d) \in 0..1
           /\ attemptCount[d] \in Nat /\ faults \in Nat /\ calls[d] \in Nat
<1>1. attemptCount[d] \in Nat /\ faults \in Nat /\ calls[d] \in Nat
    BY FaultsAssumption DEF TypeOK, RowsTypeOK, FaultsTypeOK, WorkersTypeOK
<1>2. Open(d) \in 0..1 /\ Sent(d) \in 0..1
    BY DEF Open, Sent
<1> QED
    BY <1>1, <1>2 DEF Account

\* The call of another worker stays open.
LEMMA OpenKept ==
    ASSUME NEW w \in Workers, OthersWait(w), NEW d,
           CallOpen(w, d) => CallOpen(w, d)'
    PROVE  Open(d)' >= Open(d)
<1>1. \A v \in Workers : CallOpen(v, d) => CallOpen(v, d)'
    BY DEF OthersWait, Same, CallOpen
<1> QED
    BY <1>1 DEF Open

\* Nothing is lost from an account whose call stays open.
LEMMA AccountKept ==
    ASSUME TypeOK, TypeOK', RowsProgress, NEW d \in Deliveries,
           Open(d)' >= Open(d), faults' >= faults
    PROVE  Account(d)' >= Account(d)
<1>1. /\ attemptCount'[d] >= attemptCount[d]
      /\ Sent(d)' >= Sent(d)
    BY DEF RowsProgress, Sent, IsTerminal, Terminal
<1>2. /\ attemptCount[d] \in Nat /\ Sent(d) \in 0..1 /\ Open(d) \in 0..1 /\ faults \in Nat
      /\ attemptCount'[d] \in Nat /\ Sent(d)' \in 0..1 /\ Open(d)' \in 0..1
      /\ faults' \in Nat
    BY AccountType, FaultsAssumption DEF TypeOK, RowsTypeOK, FaultsTypeOK, Sent, Open
<1> QED
    BY <1>1, <1>2 DEF Account

\* A worker's write books the call it closes.
LEMMA WriteBooks ==
    ASSUME TypeOK, TypeOK', OwnInv, NEW w \in Workers, Writes(w), OthersWait(w),
           NEW d \in Deliveries
    PROVE  Account(d)' >= Account(d)
<1>1. RowsProgress /\ faults' = faults /\ faults \in Nat
    BY WritesProgress, AccountType DEF Writes
<1>2. CASE d # job[w]
  <2>1. Open(d)' >= Open(d)
      BY <1>2, OpenKept DEF CallOpen
  <2> QED
      BY <1>1, <2>1, AccountKept
<1>3. CASE d = job[w]
  <2>1. /\ status[d] = "PROCESSING" /\ attempt[w] = attemptCount[d]
        /\ status \in [Deliveries -> DeliveryStatus \cup {"NONE"}]
        /\ attemptCount \in [Deliveries -> Nat]
        /\ \A v \in Workers \ {w} : ~CallOpen(v, d)
      BY <1>3 DEF Writes, CallOpen, OwnInv, LeaseHeld, ClaimFresh, SingleSender, InFlight,
                  TypeOK, RowsTypeOK
  <2>2. CASE resp[w] = Requeue
    <3>1. ~CallOpen(w, d)
        BY <2>2 DEF CallOpen, Writes
    <3>2. Open(d)' >= Open(d)
        BY <3>1, OpenKept
    <3> QED
        BY <1>1, <3>2, AccountKept
  <2>3. CASE resp[w] # Requeue
    <3>1. \/ status'[d] = "SENT" /\ attemptCount'[d] = attemptCount[d]
          \/ status'[d] # "SENT" /\ attemptCount'[d] = attemptCount[d] + 1
        BY <1>3, <2>1, <2>3 DEF Writes
    <3>2. attemptCount'[d] + Sent(d)' >= attemptCount[d] + 1
        BY <3>1, <2>1 DEF Sent
    <3>3. Sent(d) = 0 /\ Open(d) \in 0..1 /\ Open(d)' \in 0..1 /\ Sent(d)' \in 0..1
        BY <2>1 DEF Sent, Open
    <3>4. attemptCount[d] \in Nat /\ attemptCount'[d] \in Nat
        BY <2>1 DEF TypeOK, RowsTypeOK
    <3> QED
        BY <1>1, <3>2, <3>3, <3>4 DEF Account
  <2> QED
      BY <2>2, <2>3
<1> QED
    BY <1>2, <1>3

\* A call is entered in the account when it is made.
LEMMA CallEntered ==
    ASSUME TypeOK, TypeOK', OwnInv, SendsAccounted, NEW w \in Workers, CallProvider(w),
           NEW d \in Deliveries
    PROVE  calls'[d] <= Account(d)'
<1>1. /\ UNCHANGED <<status, attemptCount, faults>>
      /\ pc[w] = "load" /\ job' = job /\ job[w] \in Deliveries
      /\ pc'[w] = "send"
      /\ calls' = [calls EXCEPT ![job[w]] = IF @ < MaxCalls THEN @ + 1 ELSE @]
    BY DEF CallProvider, NoFault, faultVars, storeVars, rowVars, Enter, TypeOK, WorkersTypeOK
<1>2. RowsProgress /\ OthersWait(w)
    BY WorkerStepWrites DEF WorkerStep, process
<1>3. calls[d] <= Account(d) /\ Account(d) \in Nat /\ calls[d] \in Nat
    BY AccountType DEF SendsAccounted, Account, Sent, Open
<1>4. CASE d # job[w]
  <2>1. Open(d)' >= Open(d)
      BY <1>2, <1>4, OpenKept DEF CallOpen
  <2>2. Account(d)' >= Account(d) /\ Account(d)' \in Nat
    <3>1. faults \in Nat
        BY AccountType
    <3>2. Account(d)' >= Account(d)
        BY <1>1, <1>2, <2>1, <3>1, AccountKept
    <3>3. attemptCount[d] \in Nat /\ Sent(d)' \in 0..1 /\ Open(d)' \in 0..1
        BY AccountType DEF Sent, Open
    <3> QED
        BY <1>1, <3>1, <3>2, <3>3 DEF Account
  <2>3. calls'[d] = calls[d]
      BY <1>1, <1>4 DEF TypeOK, WorkersTypeOK
  <2> QED
      BY <1>3, <2>2, <2>3
<1>5. CASE d = job[w]
  <2>1. \A v \in Workers : ~CallOpen(v, d)
      BY <1>1, <1>5 DEF CallOpen, OwnInv, SingleSender, InFlight
  <2>2. Open(d) = 0 /\ Open(d)' = 1
      BY <1>1, <1>5, <2>1 DEF Open, CallOpen
  <2>3. Sent(d)' = Sent(d)
      BY <1>1 DEF Sent
  <2>4. Account(d)' = Account(d) + 1
      BY <1>1, <2>2, <2>3, AccountType DEF Account
  <2>5. calls'[d] <= calls[d] + 1
      BY <1>1, <1>3, <1>5 DEF TypeOK, WorkersTypeOK
  <2>6. calls'[d] \in Nat
      BY DEF TypeOK, WorkersTypeOK
  <2> QED
      BY <1>3, <2>4, <2>5, <2>6
<1> QED
    BY <1>4, <1>5

\* SendsAccounted is inductive when the workers own what they write.
LEMMA SendsStep ==
    ASSUME TypeOK, TypeOK', OwnInv, SendsAccounted, [Next]_vars
    PROVE  SendsAccounted'
<1> SUFFICES ASSUME NEW d \in Deliveries
             PROVE  calls'[d] <= Account(d)'
    BY DEF SendsAccounted, Account, Sent, Open
<1>a. ASSUME calls'[d] = calls[d], Account(d)' >= Account(d)
      PROVE  calls'[d] <= Account(d)'
  <2>1. calls[d] <= Account(d) /\ Account(d) \in Nat /\ calls[d] \in Nat
      BY AccountType DEF SendsAccounted, Account, Sent, Open
  <2>2. Account(d)' \in Nat
    <3>1. attemptCount'[d] \in Nat /\ faults' \in Nat
        BY FaultsAssumption DEF TypeOK, RowsTypeOK, FaultsTypeOK
    <3>2. Open(d)' \in 0..1 /\ Sent(d)' \in 0..1
        BY DEF Open, Sent
    <3> QED
        BY <3>1, <3>2 DEF Account
  <2> QED
      BY <1>a, <2>1, <2>2
<1>1. CASE ~\E w \in Workers : WorkerStep(w)
  <2>1. /\ RowsProgress /\ UNCHANGED <<pc, job, resp, calls>> /\ faults' >= faults
      BY <1>1, Elsewhere
  <2>2. Open(d)' = Open(d) /\ Open(d) \in 0..1
      BY <2>1 DEF Open, CallOpen
  <2>3. Open(d)' >= Open(d)
      BY <2>2
  <2> QED
      BY <1>a, <2>1, <2>3, AccountKept
<1>2. ASSUME NEW w \in Workers, WorkerStep(w)
      PROVE  calls'[d] <= Account(d)'
  <2>1. RowsProgress /\ OthersWait(w) /\ faults \in Nat
      BY <1>2, WorkerStepWrites, AccountType
  <2>2. CASE CallProvider(w)
      BY <2>2, CallEntered
  <2>3. CASE PersistSent(w) \/ handleFailure(w) \/ requeueWithoutAttempt(w)
    <3>1. Writes(w) /\ calls' = calls
        BY <2>3, WritesBy DEF Writes
    <3> QED
        BY <1>a, <2>1, <3>1, WriteBooks
  <2>4. CASE StepFails(w) \/ Crash(w)
    <3>1. /\ faults' = faults + 1 /\ calls' = calls
          /\ UNCHANGED <<status, attemptCount>>
        BY <2>4 DEF StepFails, Crash, Fault, Done, storeVars, rowVars
    <3>2. Open(d)' \in 0..1 /\ Sent(d)' = Sent(d)
        BY <3>1 DEF Open, Sent
    <3>3. Account(d)' >= Account(d)
        BY <3>1, <3>2, AccountType DEF Account
    <3> QED
        BY <1>a, <3>1, <3>3
  <2>5. CASE Claim(w) \/ (\E e \in Deliveries : ReadMessage(w, e)) \/ TokenGranted(w)
             \/ TokenDenied(w) \/ BreakerOpen(w) \/ SkipDuplicate(w) \/ publishDLQ(w)
             \/ Start(w)
    <3>1. faults' = faults /\ calls' = calls /\ ~CallOpen(w, d)
        BY <2>5 DEF Claim, ReadMessage, TokenGranted, TokenDenied, BreakerOpen,
           SkipDuplicate, publishDLQ, Start, NoFault, Refusal, faultVars, Done, CallOpen
    <3>2. Open(d)' >= Open(d)
        BY <2>1, <3>1, OpenKept
    <3> QED
        BY <1>a, <2>1, <3>1, <3>2, AccountKept
  <2>6. CASE ProviderReturns(w)
    <3>1. /\ faults' = faults /\ calls' = calls /\ job' = job
          /\ pc'[w] = "persist" /\ resp'[w] \in Responses
        BY <2>6 DEF ProviderReturns, NoFault, faultVars, Enter, TypeOK, WorkersTypeOK
    <3>2. Requeue \notin Responses
        BY DEF Requeue, Responses, ResponseKinds
    <3>3. CallOpen(w, d) => CallOpen(w, d)'
        BY <3>1, <3>2 DEF CallOpen
    <3>4. Open(d)' >= Open(d)
        BY <2>1, <3>3, OpenKept
    <3> QED
        BY <1>a, <2>1, <3>1, <3>4, AccountKept
  <2> QED
      BY <1>2, <2>2, <2>3, <2>4, <2>5, <2>6 DEF WorkerStep, process
<1> QED
    BY <1>1, <1>2

\* "Effectively exactly-once": with a lease that covers the pipeline every
\* call to the provider is counted in the row, is still open, or is one of
\* those whose record a crash or an error lost.
THEOREM EverySendAccounted ==
    ASSUME LeaseCoversPipeline
    PROVE  Spec => []SendsAccounted
<1>1. Init => SendsAccounted
  <2> SUFFICES ASSUME Init, NEW d \in Deliveries
               PROVE  calls[d] <= Account(d)
      BY DEF SendsAccounted, Account, Sent, Open
  <2>1. calls[d] = 0 /\ attemptCount[d] = 0 /\ faults = 0
      BY DEF Init, StoreInit, WorkerInit, FaultsInit
  <2>2. Open(d) \in 0..1 /\ Sent(d) \in 0..1
      BY DEF Open, Sent
  <2> QED
      BY <2>1, <2>2 DEF Account
<1>2. TypeOK /\ TypeOK' /\ OwnInv /\ SendsAccounted /\ [Next]_vars => SendsAccounted'
    BY SendsStep
<1> QED
    BY <1>1, <1>2, TypeCorrect, OwnCorrect, PTL DEF Spec

-----------------------------------------------------------------------------
(* Retry-After.                                                            *)

\* The wait EvaluateFailure chooses after a 429 that names one is that wait.
LEMMA RetryAfterWait ==
    ASSUME NEW n \in Nat, NEW r \in Responses, r.kind = "tooMany",
           r.retryAfter.form = "seconds", r.retryAfter.value > 0,
           NEW o \in EvaluateFailure(n, Classify(r)), o.status = "RETRYING"
    PROVE  o.wait = r.retryAfter.value
<1> DEFINE waits == {m \in Classify(r).retryAfter : m > 0}
<1>1. waits = {r.retryAfter.value}
    BY DEF Classify, parseRetryAfter
<1>2. o.wait \in waits
    BY <1>1 DEF EvaluateFailure
<1> QED
    BY <1>1, <1>2

\* With a lease that covers the pipeline the write that follows a 429 waits
\* as long as its Retry-After asks: neither the backoff nor the reaper nor
\* another worker puts a wait of its own in the row.
THEOREM RetryAfterKept ==
    ASSUME LeaseCoversPipeline
    PROVE  Spec => RetryAfterHonoured
<1> DEFINE Asked(w) == /\ pc[w] = "persist"
                       /\ resp[w].kind = "tooMany"
                       /\ resp[w].retryAfter.form = "seconds"
                       /\ resp[w].retryAfter.value > 0
                       /\ status[job[w]] # "RETRYING"
           Kept(w) == status'[job[w]] = "RETRYING" => due'[job[w]] = resp[w].retryAfter.value
<1>1. ASSUME TypeOK, OwnInv, Next, NEW w \in Workers, Asked(w)
      PROVE  Kept(w)
  <2>1. /\ InFlight(w) /\ job[w] \in Deliveries /\ Leased(job[w])
        /\ status[job[w]] = "PROCESSING" /\ attempt[w] \in Nat
      BY <1>1, InFlightLeased DEF InFlight, OwnInv, LeaseHeld, TypeOK, WorkersTypeOK
  <2>2. CASE UNCHANGED status
      BY <2>1, <2>2
  <2>3. CASE status' # status /\ \E v \in Workers \ {w} : WorkerStep(v)
    <3>1. PICK v \in Workers \ {w} : WorkerStep(v)
        BY <2>3
    <3>2. Claim(v) \/ Writes(v)
        BY <1>1, <2>3, <3>1, WorkerStepWrites
    <3>3. job[v] \in Deliveries /\ job[v] # job[w]
        BY <1>1, <2>1, <3>2 DEF Claim, ClaimDelivery, Claimable, Writes, InFlight, OwnInv,
           SingleSender, TypeOK, WorkersTypeOK
    <3>4. status'[job[w]] = status[job[w]]
        BY <1>1, <2>1, <3>2, <3>3 DEF Claim, ClaimDelivery, Writes, TypeOK, RowsTypeOK
    <3> QED
        BY <2>1, <3>4
  <2>4. CASE WorkerStep(w)
    <3>1. CASE handleFailure(w)
      <4>1. PICK o \in EvaluateFailure(attempt[w], Classify(resp[w])) :
                \/ o.status = "FAILED" /\ MarkFailed(job[w], o.attemptCount)
                \/ o.status = "RETRYING" /\ MarkRetrying(job[w], o.attemptCount, o.wait)
          BY <3>1 DEF handleFailure
      <4>2. CASE o.status = "FAILED"
          BY <1>1, <2>1, <4>1, <4>2 DEF MarkFailed, TypeOK, RowsTypeOK
      <4>3. CASE o.status = "RETRYING"
        <5>1. o.wait = resp[w].retryAfter.value
            BY <1>1, <2>1, <3>1, <4>3, RetryAfterWait DEF handleFailure
        <5> QED
            BY <1>1, <2>1, <4>1, <4>3, <5>1 DEF MarkRetrying, TypeOK, RowsTypeOK
      <4> QED
          BY <4>1, <4>2, <4>3
    <3>2. CASE ~handleFailure(w)
      <4>1. ~PersistSent(w) /\ ~requeueWithoutAttempt(w)
          BY <1>1 DEF PersistSent, requeueWithoutAttempt, Requeue
      <4>2. UNCHANGED status
          BY <1>1, <2>4, <3>2, <4>1
             DEF WorkerStep, process, ReadMessage, Claim, SkipDuplicate, TokenGranted,
                 TokenDenied, CallProvider, BreakerOpen, ProviderReturns, publishDLQ,
                 StepFails, Crash, Start, storeVars, rowVars
      <4> QED
          BY <4>2, <2>2
    <3> QED
        BY <3>1, <3>2
  <2>5. CASE ~\E v \in Workers : WorkerStep(v)
    <3>1. ASSUME NEW S \in SUBSET Deliveries, NEW wait, insertRows(S, wait)
          PROVE  status'[job[w]] # "RETRYING"
        BY <3>1, <2>1 DEF insertRows
    <3>2. ASSUME NEW d \in Deliveries, Cancel(d)
          PROVE  status'[job[w]] # "RETRYING"
        BY <1>1, <3>2, <2>1 DEF Cancel, CancelRequest, TypeOK, RowsTypeOK
    <3>3. CASE promoteDue \/ sweepRetries
      <4>1. \E from \in {"SCHEDULED", "RETRYING"} : transitionAndEnqueue(from)
          BY <3>3 DEF promoteDue, sweepRetries, PromoteDue, SweepRetries
      <4> QED
          BY <4>1, <2>1 DEF transitionAndEnqueue
    <3>4. CASE reapStuck
      <4>1. lockedUntil[job[w]] \in Int /\ ~Expired(job[w])
          BY <1>1, <2>1, StoreAssumption DEF Leased, Expired, TypeOK, RowsTypeOK
      <4> QED
          BY <2>1, <3>4, <4>1 DEF reapStuck, ReapStuck
    <3> QED
        BY <1>1, <2>2, <2>5, <3>1, <3>2, <3>3, <3>4
           DEF Next, API, Scheduler, Create, CreateNotification, SubmitBatch, CreateBatch,
               reconcile, ReconcilePending, Relay, DropRead, Flush, Tick, AgeRows,
               storeVars, rowVars
  <2> QED
      BY <2>2, <2>3, <2>4, <2>5
<1>2. TypeOK /\ OwnInv /\ [Next]_vars
      => [\A w \in Workers : Asked(w) => Kept(w)]_vars
    BY <1>1
<1>3. [\A w \in Workers : Asked(w) => Kept(w)]_vars
      => [\A w \in Workers :
             /\ pc[w] = "persist"
             /\ resp[w].kind = "tooMany"
             /\ resp[w].retryAfter.form = "seconds"
             /\ resp[w].retryAfter.value > 0
             /\ status[job[w]] # "RETRYING"
             /\ status'[job[w]] = "RETRYING"
             => due'[job[w]] = resp[w].retryAfter.value]_vars
    OBVIOUS
<1> HIDE DEF Asked, Kept
<1> QED
    BY <1>2, <1>3, TypeCorrect, OwnCorrect, PTL DEF Spec, RetryAfterHonoured
=============================================================================
