---------------------------- MODULE PipelineProofs ----------------------------
(***************************************************************************)
(* Proofs about Pipeline for every number of deliveries, workers, relays   *)
(* and batches and every setting of the timeouts.                          *)
(***************************************************************************)
EXTENDS Pipeline, FiniteSetTheorems, TLAPS

-----------------------------------------------------------------------------
(* Facts about the operators the model is built from.                      *)

\* A wait the retry policy chooses is a duration: jitter never makes it negative.
LEMMA JitterType == \A d \in Nat : applyJitter(d) \subseteq Nat
<1> SUFFICES ASSUME NEW d \in Nat, NEW n \in applyJitter(d)
             PROVE  n \in Nat
    OBVIOUS
<1> DEFINE delta == (d * JitterPercent) \div 100
<1>1. delta \in Int
    BY RetryPolicyAssumption
<1>2. PICK o \in (0 - delta)..delta : n = IF d + o < 0 THEN 0 ELSE d + o
    BY DEF applyJitter
<1> QED
    BY <1>1, <1>2

\* backoffFor returns durations, whatever the schedule and the attempt.
LEMMA BackoffType == \A n \in Nat \ {0} : backoffFor(n) \subseteq Nat
<1> SUFFICES ASSUME NEW n \in Nat \ {0}
             PROVE  backoffFor(n) \subseteq Nat
    OBVIOUS
<1>1. CASE Backoff = << >>
    BY <1>1, RetryPolicyAssumption DEF backoffFor
<1>2. CASE Backoff # << >>
  <2> DEFINE i == IF n > Len(Backoff) THEN Len(Backoff) ELSE n
  <2>1. Backoff \in Seq(Nat) /\ Len(Backoff) \in Nat /\ Len(Backoff) # 0
      BY <1>2, RetryPolicyAssumption
  <2>2. i \in 1..Len(Backoff)
      BY <2>1
  <2>3. Backoff[i] \in Nat
      BY <2>1, <2>2
  <2> QED
      BY <1>2, <2>3, JitterType DEF backoffFor
<1> QED
    BY <1>1, <1>2

\* What EvaluateFailure returns: the attempt is counted once, FAILED exactly
\* when it must be, and a retry leaves an attempt to make.
LEMMA EvaluateFailureOutcome ==
    ASSUME NEW n \in Nat, NEW r \in Responses,
           NEW o \in EvaluateFailure(n, Classify(r))
    PROVE  /\ o.status \in {"FAILED", "RETRYING"}
           /\ o.attemptCount = n + 1
           /\ o.wait \in Nat
           /\ o.status = "RETRYING" => n + 1 < MaxAttempts
<1> DEFINE perr == Classify(r)
           waits == {m \in perr.retryAfter : m > 0}
<1>1. MaxAttempts \in Nat
    BY RetryPolicyAssumption
<1>2. CASE perr.permanent \/ n + 1 >= MaxAttempts
  <2>1. o = [status |-> "FAILED", attemptCount |-> n + 1, wait |-> 0]
      BY <1>2 DEF EvaluateFailure
  <2> QED
      BY <2>1
<1>3. CASE ~(perr.permanent \/ n + 1 >= MaxAttempts)
  <2>1. PICK m \in IF waits # {} THEN waits ELSE backoffFor(n + 1) :
            o = [status |-> "RETRYING", attemptCount |-> n + 1, wait |-> m]
      BY <1>3 DEF EvaluateFailure
  <2>2. waits \subseteq Nat
    <3>1. r.retryAfter \in [form : HeaderForms, value : Int]
        BY RetryPolicyAssumption DEF Responses, NoHeader, HeaderForms
    <3>2. parseRetryAfter(r.retryAfter) \subseteq Int
        BY <3>1 DEF parseRetryAfter, HeaderForms
    <3>3. perr.retryAfter \subseteq Int
        BY <3>2 DEF Classify
    <3> QED
        BY <3>3
  <2>3. backoffFor(n + 1) \subseteq Nat
      BY BackoffType
  <2>4. m \in Nat
      BY <2>1, <2>2, <2>3
  <2> QED
      BY <2>1, <2>4, <1>1, <1>3
<1> QED
    BY <1>2, <1>3

\* The aggregate of a single delivery: terminal statuses carry over, any other
\* status leaves the request PENDING.
LEMMA AggregateOfSequence ==
    ASSUME NEW st \in DeliveryStatus, NEW q,
           Len(q) = 1, DOMAIN q = {1}, q[1] = st, q # << >>
    PROVE  AggregateRequestStatus(q) = IF IsTerminal(st) THEN st ELSE "PENDING"
<1>1. \A s : Count(q, s) = IF s = st THEN 1 ELSE 0
  <2> TAKE s
  <2>1. CASE s = st
    <3>1. {i \in DOMAIN q : q[i] = s} = {1}
        BY <2>1
    <3> QED
        BY <3>1, <2>1, FS_Singleton DEF Count
  <2>2. CASE s # st
    <3>1. {i \in DOMAIN q : q[i] = s} = {}
        BY <2>2
    <3> QED
        BY <3>1, <2>2, FS_EmptySet DEF Count
  <2> QED
      BY <2>1, <2>2
<1>2. CASE ~IsTerminal(st)
    BY <1>2 DEF AggregateRequestStatus
<1>3. CASE IsTerminal(st)
  <2>1. ~(q = << >> \/ \E i \in DOMAIN q : ~IsTerminal(q[i]))
      BY <1>3
  <2>2. st \in {"SENT", "FAILED", "CANCELLED"}
      BY <1>3 DEF IsTerminal, Terminal
  <2> QED
      BY <1>1, <1>3, <2>1, <2>2 DEF AggregateRequestStatus
<1> QED
    BY <1>2, <1>3

\* AggregateOfSequence for the one-element sequence a recompute builds.
LEMMA AggregateOfOne ==
    \A st \in DeliveryStatus :
        AggregateRequestStatus(<<st>>) = IF IsTerminal(st) THEN st ELSE "PENDING"
<1> TAKE st \in DeliveryStatus
<1>1. Len(<<st>>) = 1 /\ DOMAIN <<st>> = {1} /\ <<st>>[1] = st /\ <<st>> # << >>
    OBVIOUS
<1> QED
    BY <1>1, AggregateOfSequence

\* Every request status is counted in one of the four counter columns.
LEMMA BucketType == \A s : bucketColumn(s) \in Buckets
    BY DEF bucketColumn, Buckets

\* A recompute keeps the denormalised columns in their types, the GREATEST(x, 0)
\* of the counters included.
LEMMA RecomputeType ==
    ASSUME AggregatesTypeOK, NEW d \in Deliveries, NEW st \in DeliveryStatus,
           recomputeRequestStatus(d, st)
    PROVE  AggregatesTypeOK'
<1> DEFINE new == AggregateRequestStatus(<<st>>)
<1>1. new \in RequestStatus
    BY AggregateOfOne DEF RequestStatus, IsTerminal, Terminal
<1>2. request' \in [Deliveries -> RequestStatus \cup {"NONE"}]
    BY <1>1 DEF recomputeRequestStatus, AggregatesTypeOK
<1>3. batchOf' = batchOf
    BY DEF recomputeRequestStatus
<1>4. counters' \in [Batches -> [Buckets -> Nat]]
  <2>1. CASE counters' = counters
      BY <2>1 DEF AggregatesTypeOK
  <2>2. CASE counters' # counters
    <3> DEFINE b == batchOf[d]
               x == bucketColumn(request[d])
               y == bucketColumn(new)
    <3>1. b \in Batches
        BY <2>2 DEF recomputeRequestStatus, AggregatesTypeOK
    <3>2. x \in Buckets /\ y \in Buckets
        BY BucketType
    <3>3. counters' = adjustBatchCounters(b, request[d], new)
        BY <2>2 DEF recomputeRequestStatus
    <3>4. x # y
        BY <2>2, <3>3 DEF adjustBatchCounters
    <3>5. counters' = [counters EXCEPT
                          ![b][x] = IF @ > 0 THEN @ - 1 ELSE 0,
                          ![b][y] = @ + 1]
        BY <3>3, <3>4 DEF adjustBatchCounters
    <3>6. counters[b] \in [Buckets -> Nat]
        BY <3>1 DEF AggregatesTypeOK
    <3> HIDE DEF b, x, y
    <3>7. counters[b][x] \in Nat /\ counters[b][y] \in Nat
        BY <3>2, <3>6
    <3>8. counters' = [counters EXCEPT ![b] =
                          [counters[b] EXCEPT
                              ![x] = IF counters[b][x] > 0 THEN counters[b][x] - 1
                                                           ELSE 0,
                              ![y] = counters[b][y] + 1]]
        BY <3>1, <3>2, <3>4, <3>5, <3>6 DEF AggregatesTypeOK
    <3>9. [counters[b] EXCEPT
              ![x] = IF counters[b][x] > 0 THEN counters[b][x] - 1 ELSE 0,
              ![y] = counters[b][y] + 1] \in [Buckets -> Nat]
        BY <3>2, <3>6, <3>7
    <3> QED
        BY <3>1, <3>8, <3>9 DEF AggregatesTypeOK
  <2> QED
      BY <2>1, <2>2
<1> QED
    BY <1>2, <1>3, <1>4 DEF AggregatesTypeOK

\* insertOutbox adds rows of the deliveries it is given, and nothing else.
LEMMA InsertOutboxType ==
    ASSUME OutboxTypeOK, NEW S \in SUBSET Deliveries, insertOutbox(S)
    PROVE  OutboxTypeOK'
<1> DEFINE id(d) == CHOOSE n \in FreeIds(d) : TRUE
<1>1. \A d \in S : id(d) \in RowIds
  <2> TAKE d \in S
  <2>1. FreeIds(d) # {}
      BY DEF insertOutbox
  <2>2. id(d) \in FreeIds(d)
      BY <2>1
  <2> QED
      BY <2>2 DEF FreeIds
<1>2. outbox' = outbox \cup {<<d, id(d)>> : d \in S}
    BY DEF insertOutbox
<1> HIDE DEF id
<1>3. outbox' \subseteq Rows
    BY <1>1, <1>2 DEF OutboxTypeOK, Rows
<1> QED
    BY <1>3 DEF insertOutbox, OutboxTypeOK

-----------------------------------------------------------------------------
(* Type correctness of the repository methods, then of every step.         *)

StoreTypeOK == RowsTypeOK /\ AggregatesTypeOK /\ OutboxTypeOK

USE DEF StoreTypeOK

\* The inserts of a request and its delivery, shared by both ways to submit.
LEMMA InsertRowsType ==
    ASSUME RowsTypeOK, OutboxTypeOK, NEW S \in SUBSET Deliveries,
           NEW wait \in [S -> SendDelays], insertRows(S, wait)
    PROVE  /\ RowsTypeOK'
           /\ OutboxTypeOK'
           /\ request \in [Deliveries -> RequestStatus \cup {"NONE"}]
              => request' \in [Deliveries -> RequestStatus \cup {"NONE"}]
<1> DEFINE now == {d \in S : wait[d] = 0}
<1>1. insertOutbox(now)
    BY DEF insertRows
<1>2. OutboxTypeOK'
    BY <1>1, InsertOutboxType
<1>3. RowsTypeOK'
    BY PipelineAssumption DEF insertRows, RowsTypeOK, DeliveryStatus
<1>4. request \in [Deliveries -> RequestStatus \cup {"NONE"}]
      => request' \in [Deliveries -> RequestStatus \cup {"NONE"}]
    BY DEF insertRows, RequestStatus
<1> QED
    BY <1>2, <1>3, <1>4

\* CreateNotification keeps the types of the tables.
LEMMA CreateNotificationType ==
    ASSUME StoreTypeOK, NEW d \in Deliveries, NEW wait \in [{d} -> SendDelays],
           CreateNotification(d, wait)
    PROVE  StoreTypeOK'
    BY InsertRowsType DEF CreateNotification, AggregatesTypeOK

\* CreateBatch keeps them, the initial pending_count included.
LEMMA CreateBatchType ==
    ASSUME StoreTypeOK, NEW b \in Batches, NEW S \in SUBSET Deliveries,
           NEW wait \in [S -> SendDelays], CreateBatch(b, S, wait)
    PROVE  StoreTypeOK'
<1>1. Cardinality(S) \in Nat
    BY FS_Subset, FS_CardinalityType, QueueAssumption
<1>2. counters' \in [Batches -> [Buckets -> Nat]]
  <2>1. counters' = [counters EXCEPT ![b] =
                        [counters[b] EXCEPT !["pending_count"] = Cardinality(S)]]
      BY DEF CreateBatch
  <2>2. counters[b] \in [Buckets -> Nat]
      BY DEF AggregatesTypeOK
  <2>3. [counters[b] EXCEPT !["pending_count"] = Cardinality(S)] \in [Buckets -> Nat]
      BY <1>1, <2>2 DEF Buckets
  <2> QED
      BY <2>1, <2>3 DEF AggregatesTypeOK
<1>3. batchOf' \in [Deliveries -> Batches \cup {NoBatch}]
    BY DEF CreateBatch, AggregatesTypeOK
<1> QED
    BY <1>2, <1>3, InsertRowsType DEF CreateBatch, AggregatesTypeOK

\* CancelRequest keeps the types of the tables.
LEMMA CancelRequestType ==
    ASSUME StoreTypeOK, NEW d \in Deliveries, CancelRequest(d)
    PROVE  StoreTypeOK'
<1>1. AggregatesTypeOK'
    BY RecomputeType DEF CancelRequest, DeliveryStatus
<1>2. RowsTypeOK'
    BY DEF CancelRequest, RowsTypeOK, DeliveryStatus
<1> QED
    BY <1>1, <1>2 DEF CancelRequest, OutboxTypeOK, outboxVars

\* ClaimDelivery keeps them, whatever the skew leaves of the lease.
LEMMA ClaimDeliveryType ==
    ASSUME StoreTypeOK, NEW d \in Deliveries, NEW lease \in 0..LeaseTTL,
           ClaimDelivery(d, lease)
    PROVE  StoreTypeOK'
<1>1. RowsTypeOK'
    BY StoreAssumption DEF ClaimDelivery, RowsTypeOK, DeliveryStatus
<1> QED
    BY <1>1 DEF ClaimDelivery, AggregatesTypeOK, OutboxTypeOK, aggregateVars, outboxVars

\* MarkSent and its recompute keep the types of the tables.
LEMMA MarkSentType ==
    ASSUME StoreTypeOK, NEW d \in Deliveries, MarkSent(d)
    PROVE  StoreTypeOK'
<1>1. AggregatesTypeOK'
    BY RecomputeType DEF MarkSent, DeliveryStatus
<1>2. RowsTypeOK'
    BY StoreAssumption DEF MarkSent, RowsTypeOK, DeliveryStatus
<1> QED
    BY <1>1, <1>2 DEF MarkSent, OutboxTypeOK, outboxVars

\* MarkFailed and its recompute keep the types of the tables.
LEMMA MarkFailedType ==
    ASSUME StoreTypeOK, NEW d \in Deliveries, NEW n \in Nat, MarkFailed(d, n)
    PROVE  StoreTypeOK'
<1>1. AggregatesTypeOK'
    BY RecomputeType DEF MarkFailed, DeliveryStatus
<1>2. RowsTypeOK'
    BY StoreAssumption DEF MarkFailed, RowsTypeOK, DeliveryStatus
<1> QED
    BY <1>1, <1>2 DEF MarkFailed, OutboxTypeOK, outboxVars

\* MarkRetrying keeps the types of the tables.
LEMMA MarkRetryingType ==
    ASSUME StoreTypeOK, NEW d \in Deliveries, NEW n \in Nat, NEW wait \in Nat,
           MarkRetrying(d, n, wait)
    PROVE  StoreTypeOK'
<1>1. RowsTypeOK'
    BY StoreAssumption DEF MarkRetrying, RowsTypeOK, DeliveryStatus
<1> QED
    BY <1>1 DEF MarkRetrying, AggregatesTypeOK, OutboxTypeOK, aggregateVars, outboxVars

\* PromoteDue and SweepRetries keep the types of the tables.
LEMMA TransitionType ==
    ASSUME StoreTypeOK, NEW from, transitionAndEnqueue(from)
    PROVE  StoreTypeOK'
<1>1. PICK S \in SUBSET Deliveries :
          /\ status' = [d \in Deliveries |-> IF d \in S THEN "PENDING" ELSE status[d]]
          /\ idle' = [d \in Deliveries |-> IF d \in S THEN 0 ELSE idle[d]]
          /\ insertOutbox(S)
          /\ UNCHANGED <<attemptCount, due, lockedUntil, aggregateVars>>
    BY DEF transitionAndEnqueue
<1>2. OutboxTypeOK'
    BY <1>1, InsertOutboxType
<1>3. RowsTypeOK'
    BY <1>1 DEF RowsTypeOK, DeliveryStatus
<1> QED
    BY <1>1, <1>2, <1>3 DEF AggregatesTypeOK, aggregateVars

\* ReapStuck keeps the types of the tables.
LEMMA ReapStuckType ==
    ASSUME StoreTypeOK, ReapStuck
    PROVE  StoreTypeOK'
<1>1. RowsTypeOK'
    BY StoreAssumption DEF ReapStuck, RowsTypeOK, DeliveryStatus
<1> QED
    BY <1>1 DEF ReapStuck, AggregatesTypeOK, OutboxTypeOK, aggregateVars, outboxVars

\* ReconcilePending keeps the types of the tables.
LEMMA ReconcileType ==
    ASSUME StoreTypeOK, ReconcilePending
    PROVE  StoreTypeOK'
<1>1. PICK S \in SUBSET Deliveries : insertOutbox(S)
    BY DEF ReconcilePending
<1>2. OutboxTypeOK'
    BY <1>1, InsertOutboxType
<1> QED
    BY <1>2 DEF ReconcilePending, RowsTypeOK, AggregatesTypeOK,
                storeVars, rowVars, aggregateVars

\* The passing of time keeps the ages and delays in their types.
LEMMA AgeRowsType ==
    ASSUME StoreTypeOK, AgeRows
    PROVE  StoreTypeOK'
<1>1. RowsTypeOK'
    BY StoreAssumption DEF AgeRows, RowsTypeOK
<1> QED
    BY <1>1 DEF AgeRows, AggregatesTypeOK, OutboxTypeOK, aggregateVars, outboxVars

\* Every step of relayOutbox keeps the types, its failures included.
LEMMA RelayType ==
    ASSUME TypeOK, NEW r \in Relays, Relay(r)
    PROVE  TypeOK'
<1>1. RowsTypeOK' /\ AggregatesTypeOK' /\ WorkersTypeOK'
    BY DEF TypeOK, Relay, RowsTypeOK, AggregatesTypeOK, WorkersTypeOK, InFlight,
           storeVars, rowVars, aggregateVars, workerVars
<1>2. CASE FetchUnpublishedOutbox(r)
    BY <1>1, <1>2 DEF TypeOK, FetchUnpublishedOutbox, OutboxTypeOK, QueueTypeOK,
                      FaultsTypeOK, queueVars, faultVars
<1>3. CASE RelayPublish(r)
  <2> PICK row \in fetched[r] :
          /\ Publish(row[1])
          /\ fetched' = [fetched EXCEPT ![r] = @ \ {row}]
          /\ published' = [published EXCEPT ![r] = @ \cup {row}]
          /\ NoFault
          /\ UNCHANGED outbox
      BY <1>3 DEF RelayPublish
  <2>1. row \in Rows /\ row[1] \in Deliveries
      BY DEF TypeOK, OutboxTypeOK, Rows
  <2>2. QueueTypeOK'
      BY <2>1, QueueAssumption DEF TypeOK, QueueTypeOK, Publish
  <2>3. OutboxTypeOK'
      BY <2>1 DEF TypeOK, OutboxTypeOK
  <2> QED
      BY <1>1, <2>2, <2>3 DEF TypeOK, NoFault, FaultsTypeOK, faultVars
<1>4. CASE RelayPublishFails(r)
    BY <1>1, <1>4, FaultsAssumption DEF TypeOK, RelayPublishFails, Fault,
        OutboxTypeOK, QueueTypeOK, FaultsTypeOK, queueVars
<1>5. CASE MarkOutboxPublished(r)
    BY <1>1, <1>5 DEF TypeOK, MarkOutboxPublished, OutboxTypeOK, QueueTypeOK,
                      FaultsTypeOK, queueVars, faultVars
<1>6. CASE RelayAborts(r)
    BY <1>1, <1>6, FaultsAssumption DEF TypeOK, RelayAborts, Fault, OutboxTypeOK,
        QueueTypeOK, FaultsTypeOK, queueVars
<1> QED
    BY <1>2, <1>3, <1>4, <1>5, <1>6 DEF Relay, relayOutbox

\* The budgets are never overdrawn.
LEMMA FaultType ==
    ASSUME FaultsTypeOK, Fault \/ Refusal \/ NoFault
    PROVE  FaultsTypeOK'
    BY FaultsAssumption DEF FaultsTypeOK, Fault, Refusal, NoFault, faultVars

\* A step that leaves the tables alone keeps their types.
LEMMA UnchangedStoreType ==
    ASSUME StoreTypeOK, UNCHANGED <<storeVars, outboxVars>>
    PROVE  StoreTypeOK'
    BY DEF RowsTypeOK, AggregatesTypeOK, OutboxTypeOK, storeVars, rowVars,
           aggregateVars, outboxVars

\* A step that leaves Redis alone keeps its types.
LEMMA UnchangedQueueType ==
    ASSUME QueueTypeOK, UNCHANGED queueVars
    PROVE  QueueTypeOK'
    BY DEF QueueTypeOK, queueVars

\* A step that leaves the workers alone keeps their types.
LEMMA UnchangedWorkersType ==
    ASSUME WorkersTypeOK, UNCHANGED workerVars
    PROVE  WorkersTypeOK'
    BY DEF WorkersTypeOK, workerVars

\* A worker whose process call returns holds no job.
LEMMA DoneType ==
    ASSUME WorkersTypeOK, NEW w \in Workers, NEW phase \in {"idle", "down"},
           Done(w, phase)
    PROVE  WorkersTypeOK'
    BY DEF WorkersTypeOK, Done, Phases

\* Entering a phase keeps the program counters and the clocks in their types.
LEMMA EnterType ==
    ASSUME WorkersTypeOK, NEW w \in Workers, NEW phase \in Phases, NEW n \in Nat,
           Enter(w, phase, n)
    PROVE  /\ pc' \in [Workers -> Phases]
           /\ left' \in [Workers -> Nat]
    BY DEF WorkersTypeOK, Enter

\* The bounds of the phases are durations.
LEMMA PhaseBounds ==
    /\ RateWaitMax \in Nat
    /\ RateWaitMax + RateWaitStep \in Nat
    /\ DbMax \in Nat
    /\ ProviderTimeout \in Nat
    BY StoreAssumption, WorkerAssumption DEF RateWaitMax

\* Every step of a worker keeps the types.
LEMMA WorkerStepType ==
    ASSUME TypeOK, NEW w \in Workers, WorkerStep(w)
    PROVE  TypeOK'
<1> USE DEF TypeOK
<1>1. CASE \E d \in Deliveries : ReadMessage(w, d)
  <2> PICK d \in Deliveries : ReadMessage(w, d)
      BY <1>1
  <2>1. QueueTypeOK'
      BY QueueAssumption DEF ReadMessage, Read, QueueTypeOK
  <2>2. WorkersTypeOK'
      BY DEF ReadMessage, Enter, WorkersTypeOK, Phases
  <2> QED
      BY <2>1, <2>2, UnchangedStoreType, FaultType DEF ReadMessage
<1>2. CASE Claim(w)
  <2>1. job[w] \in Deliveries
      BY <1>2 DEF Claim, WorkersTypeOK
  <2> PICK skew \in 0..MaxSkew : ClaimDelivery(job[w], LeaseTTL - skew)
      BY <1>2 DEF Claim
  <2>2. LeaseTTL - skew \in 0..LeaseTTL
      BY StoreAssumption, WorkerAssumption
  <2>3. StoreTypeOK'
      BY <2>1, <2>2, ClaimDeliveryType
  <2>4. WorkersTypeOK'
    <3>1. pc' \in [Workers -> Phases] /\ left' \in [Workers -> Nat]
        BY <1>2, EnterType, PhaseBounds DEF Claim, Phases
    <3>2. attempt' \in [Workers -> Nat]
        BY <1>2, <2>1 DEF Claim, WorkersTypeOK, RowsTypeOK
    <3>3. \A v \in Workers : pc'[v] \notin {"idle", "down"} => job'[v] \in Deliveries
        BY <1>2, <2>1 DEF Claim, Enter, WorkersTypeOK
    <3> QED
        BY <1>2, <3>1, <3>2, <3>3 DEF Claim, WorkersTypeOK
  <2> QED
      BY <1>2, <2>3, <2>4, UnchangedQueueType, FaultType DEF Claim
<1>3. CASE SkipDuplicate(w)
    BY <1>3, DoneType, UnchangedStoreType, UnchangedQueueType, FaultType DEF SkipDuplicate
<1>4. CASE TokenGranted(w)
  <2>1. WorkersTypeOK'
      BY <1>4, PhaseBounds DEF TokenGranted, Enter, WorkersTypeOK, Phases
  <2> QED
      BY <1>4, <2>1, UnchangedStoreType, UnchangedQueueType, FaultType DEF TokenGranted
<1>5. CASE TokenDenied(w)
  <2>1. WorkersTypeOK'
      BY <1>5, PhaseBounds DEF TokenDenied, Enter, WorkersTypeOK, Phases
  <2> QED
      BY <1>5, <2>1, UnchangedStoreType, UnchangedQueueType, FaultType DEF TokenDenied
<1>6. CASE CallProvider(w)
  <2>1. WorkersTypeOK'
    <3>1. pc' \in [Workers -> Phases] /\ left' \in [Workers -> Nat]
        BY <1>6, EnterType, PhaseBounds DEF CallProvider, Phases
    <3>2. job[w] \in Deliveries
        BY <1>6 DEF CallProvider, WorkersTypeOK
    <3>3. calls' \in [Deliveries -> Nat]
        BY <1>6, <3>2 DEF CallProvider, WorkersTypeOK
    <3>4. \A v \in Workers : pc'[v] \notin {"idle", "down"} => job'[v] \in Deliveries
        BY <1>6, <3>2 DEF CallProvider, Enter, WorkersTypeOK
    <3> QED
        BY <1>6, <3>1, <3>3, <3>4 DEF CallProvider, WorkersTypeOK
  <2> QED
      BY <1>6, <2>1, UnchangedStoreType, UnchangedQueueType, FaultType DEF CallProvider
<1>7. CASE BreakerOpen(w)
  <2>1. WorkersTypeOK'
      BY <1>7, PhaseBounds DEF BreakerOpen, Enter, WorkersTypeOK, Phases
  <2> QED
      BY <1>7, <2>1, UnchangedStoreType, UnchangedQueueType, FaultType DEF BreakerOpen
<1>8. CASE ProviderReturns(w)
  <2>1. WorkersTypeOK'
      BY <1>8, PhaseBounds DEF ProviderReturns, Enter, WorkersTypeOK, Phases
  <2> QED
      BY <1>8, <2>1, UnchangedStoreType, UnchangedQueueType, FaultType DEF ProviderReturns
<1>9. CASE PersistSent(w)
  <2>1. job[w] \in Deliveries
      BY <1>9 DEF PersistSent, WorkersTypeOK
  <2> QED
      BY <1>9, <2>1, MarkSentType, DoneType, UnchangedQueueType, FaultType DEF PersistSent
<1>10. CASE handleFailure(w)
  <2>1. job[w] \in Deliveries /\ attempt[w] \in Nat /\ resp[w] \in Responses
      BY <1>10 DEF handleFailure, WorkersTypeOK
  <2> PICK o \in EvaluateFailure(attempt[w], Classify(resp[w])) :
          \/ /\ o.status = "FAILED"
             /\ MarkFailed(job[w], o.attemptCount)
             /\ Enter(w, "dlq", 0)
             /\ attempt' = [attempt EXCEPT ![w] = o.attemptCount]
             /\ UNCHANGED <<job, resp, calls>>
          \/ /\ o.status = "RETRYING"
             /\ MarkRetrying(job[w], o.attemptCount, o.wait)
             /\ Done(w, "idle")
      BY <1>10 DEF handleFailure
  <2>2. o.attemptCount \in Nat /\ o.wait \in Nat
      BY <2>1, EvaluateFailureOutcome
  <2>3. CASE o.status = "FAILED"
    <3>1. MarkFailed(job[w], o.attemptCount)
        BY <2>3
    <3>2. StoreTypeOK'
        BY <2>1, <2>2, <3>1, MarkFailedType
    <3>3. WorkersTypeOK'
        BY <2>1, <2>2, <2>3 DEF Enter, WorkersTypeOK, Phases
    <3> QED
        BY <1>10, <3>2, <3>3, UnchangedQueueType, FaultType DEF handleFailure
  <2>4. CASE o.status = "RETRYING"
    <3>1. MarkRetrying(job[w], o.attemptCount, o.wait) /\ Done(w, "idle")
        BY <2>4
    <3>2. StoreTypeOK' /\ WorkersTypeOK'
        BY <2>1, <2>2, <3>1, MarkRetryingType, DoneType
    <3> QED
        BY <1>10, <3>2, UnchangedQueueType, FaultType DEF handleFailure
  <2> QED
      BY <2>3, <2>4
<1>11. CASE requeueWithoutAttempt(w)
  <2>1. job[w] \in Deliveries /\ attempt[w] \in Nat /\ RateWaitStep \in Nat
      BY <1>11, WorkerAssumption DEF requeueWithoutAttempt, WorkersTypeOK
  <2> QED
      BY <1>11, <2>1, MarkRetryingType, DoneType, UnchangedQueueType, FaultType
          DEF requeueWithoutAttempt
<1>12. CASE publishDLQ(w)
  <2>1. job[w] \in Deliveries /\ attempt[w] \in Nat
      BY <1>12 DEF publishDLQ, WorkersTypeOK
  <2>2. QueueTypeOK'
      BY <1>12, <2>1 DEF publishDLQ, PublishDLQ, QueueTypeOK, dlqReason, DLQReasons
  <2> QED
      BY <1>12, <2>2, DoneType, UnchangedStoreType, FaultType DEF publishDLQ
<1>13. CASE StepFails(w)
    BY <1>13, DoneType, UnchangedStoreType, UnchangedQueueType, FaultType DEF StepFails
<1>14. CASE Crash(w)
    BY <1>14, DoneType, UnchangedStoreType, UnchangedQueueType, FaultType DEF Crash
<1>15. CASE Start(w)
  <2>1. QueueTypeOK'
      BY <1>15 DEF Start, EnsureGroup, QueueTypeOK
  <2> QED
      BY <1>15, <2>1, DoneType, UnchangedStoreType, FaultType DEF Start
<1> QED
    BY <1>1, <1>2, <1>3, <1>4, <1>5, <1>6, <1>7, <1>8, <1>9, <1>10, <1>11, <1>12,
       <1>13, <1>14, <1>15 DEF WorkerStep, process

\* TypeOK is inductive.
LEMMA TypeStep == TypeOK /\ [Next]_vars => TypeOK'
<1> SUFFICES ASSUME TypeOK, [Next]_vars
             PROVE  TypeOK'
    OBVIOUS
<1> USE DEF TypeOK
<1>1. ASSUME NEW d \in Deliveries, Create(d)
      PROVE  TypeOK'
    BY <1>1, CreateNotificationType, UnchangedQueueType, UnchangedWorkersType, FaultType
       DEF Create, NoFault
<1>2. ASSUME NEW d \in Deliveries, Cancel(d)
      PROVE  TypeOK'
    BY <1>2, CancelRequestType, UnchangedQueueType, UnchangedWorkersType, FaultType
       DEF Cancel, NoFault
<1>3. ASSUME NEW b \in Batches, NEW S \in SUBSET Deliveries, SubmitBatch(b, S)
      PROVE  TypeOK'
    BY <1>3, CreateBatchType, UnchangedQueueType, UnchangedWorkersType, FaultType
       DEF SubmitBatch, NoFault
<1>4. CASE promoteDue \/ sweepRetries
    BY <1>4, TransitionType, UnchangedQueueType, UnchangedWorkersType, FaultType
       DEF promoteDue, sweepRetries, PromoteDue, SweepRetries, NoFault
<1>5. CASE reapStuck
    BY <1>5, ReapStuckType, UnchangedQueueType, UnchangedWorkersType, FaultType
       DEF reapStuck, NoFault
<1>6. CASE reconcile
    BY <1>6, ReconcileType, UnchangedQueueType, UnchangedWorkersType, FaultType
       DEF reconcile, NoFault
<1>7. CASE \E r \in Relays : Relay(r)
    BY <1>7, RelayType
<1>8. CASE \E w \in Workers : WorkerStep(w)
    BY <1>8, WorkerStepType
<1>9. ASSUME NEW d \in Deliveries, DropRead(d)
      PROVE  TypeOK'
  <2>1. QueueTypeOK'
      BY <1>9, QueueAssumption DEF DropRead, Read, QueueTypeOK
  <2> QED
      BY <1>9, <2>1, UnchangedStoreType, UnchangedWorkersType, FaultType DEF DropRead
<1>10. CASE Flush
  <2>1. QueueTypeOK'
    <3>1. stream' \in [Deliveries -> 0..MaxStream]
        BY <1>10, QueueAssumption DEF Flush, FlushRedis
    <3>2. group' \in BOOLEAN /\ dlq' = {}
        BY <1>10 DEF Flush, FlushRedis
    <3> QED
        BY <3>1, <3>2 DEF QueueTypeOK
  <2> QED
      BY <1>10, <2>1, UnchangedStoreType, UnchangedWorkersType, FaultType DEF Flush
<1>11. CASE Tick
  <2>1. left' \in [Workers -> Nat]
    <3>1. \A w \in Workers : (IF InFlight(w) THEN left[w] - 1 ELSE 0) \in Nat
        BY <1>11 DEF Tick, MayAge, WorkersTypeOK
    <3> QED
        BY <1>11, <3>1 DEF Tick, AgeWorkers
  <2>2. WorkersTypeOK'
      BY <1>11, <2>1 DEF Tick, AgeWorkers, WorkersTypeOK
  <2> QED
      BY <1>11, <2>2, AgeRowsType, UnchangedQueueType, FaultType DEF Tick, NoFault
<1>12. CASE UNCHANGED vars
    BY <1>12, UnchangedStoreType, UnchangedQueueType, UnchangedWorkersType, FaultType
       DEF vars, NoFault
<1> QED
    BY <1>1, <1>2, <1>3, <1>4, <1>5, <1>6, <1>7, <1>8, <1>9, <1>10, <1>11, <1>12
       DEF Next, API, Scheduler

\* The initial state is well typed.
LEMMA TypeInit == Init => TypeOK
<1> SUFFICES ASSUME Init
             PROVE  TypeOK
    OBVIOUS
<1>1. FaultsTypeOK /\ QueueTypeOK /\ OutboxTypeOK
    BY FaultsAssumption, QueueAssumption DEF Init, FaultsInit, QueueInit, OutboxInit,
       FaultsTypeOK, QueueTypeOK, OutboxTypeOK
<1>2. RowsTypeOK /\ AggregatesTypeOK
    BY StoreAssumption DEF Init, StoreInit, RowsTypeOK, AggregatesTypeOK
<1>3. WorkersTypeOK
    BY DEF Init, WorkerInit, WorkersTypeOK, Phases
<1> QED
    BY <1>1, <1>2, <1>3 DEF TypeOK

\* Every variable of the pipeline keeps its type, whatever the settings.
THEOREM TypeCorrect == Spec => []TypeOK
    BY TypeInit, TypeStep, PTL DEF Spec

-----------------------------------------------------------------------------
(* The lease argument.  NeverReclaimedInFlight is not inductive: nothing in *)
(* it says how much of the lease a worker still has.  LeaseHeld does: what  *)
(* remains of the phase a worker is in, and of the phases after it, fits    *)
(* into what remains of its lease.                                          *)

\* The longest a worker may take after the phase it is in.
Ahead(phase) ==
    IF phase = "rate" THEN 2 * DbMax + ProviderTimeout
    ELSE IF phase = "load" THEN ProviderTimeout + DbMax
    ELSE IF phase = "send" THEN DbMax
    ELSE 0

LeaseHeld ==
    \A w \in Workers : InFlight(w) =>
        /\ status[job[w]] = "PROCESSING"
        /\ left[w] + Ahead(pc[w]) <= lockedUntil[job[w]]

\* The attempt count a worker got from RETURNING is still the row's.
ClaimFresh ==
    \A w \in Workers : InFlight(w) => attempt[w] = attemptCount[job[w]]

OwnInv == LeaseHeld /\ SingleSender /\ ClaimFresh

\* The part of row d that its worker relies on does not change.
RowKept(d) ==
    /\ status'[d] = status[d]
    /\ lockedUntil'[d] = lockedUntil[d]
    /\ attemptCount'[d] = attemptCount[d]

\* Row d is claimed and its lease runs.
Leased(d) == status[d] = "PROCESSING" /\ lockedUntil[d] >= 0

\* v is where it was, with the claim it had.
Same(v) ==
    /\ pc'[v] = pc[v]
    /\ job'[v] = job[v]
    /\ left'[v] = left[v]
    /\ attempt'[v] = attempt[v]

\* What lies ahead of a phase is a duration.
LEMMA AheadType == \A phase : Ahead(phase) \in Nat
    BY WorkerAssumption DEF Ahead

\* The row of a worker in flight is claimed and its lease runs.
LEMMA InFlightLeased ==
    ASSUME TypeOK, LeaseHeld, NEW w \in Workers, InFlight(w)
    PROVE  job[w] \in Deliveries /\ Leased(job[w])
<1>1. job[w] \in Deliveries /\ left[w] \in Nat
    BY DEF TypeOK, WorkersTypeOK, InFlight
<1>2. lockedUntil[job[w]] \in Int
    BY <1>1, StoreAssumption DEF TypeOK, RowsTypeOK
<1> QED
    BY <1>1, <1>2, AheadType DEF LeaseHeld, Leased

\* Nobody's claim moves and leased rows stay as they are.
LEMMA Bystander ==
    ASSUME TypeOK, OwnInv, \A w \in Workers : Same(w),
           \A d \in Deliveries : Leased(d) => RowKept(d)
    PROVE  OwnInv'
<1>1. \A w \in Workers : InFlight(w)' <=> InFlight(w)
    BY DEF Same, InFlight
<1>2. \A w \in Workers : InFlight(w) => RowKept(job[w])
    BY InFlightLeased DEF OwnInv
<1>3. LeaseHeld' /\ ClaimFresh'
    BY <1>1, <1>2 DEF OwnInv, LeaseHeld, ClaimFresh, Same, RowKept
<1>4. SingleSender'
    BY <1>1 DEF OwnInv, SingleSender, Same
<1> QED
    BY <1>3, <1>4 DEF OwnInv

\* w gives up its job; nobody else's row is touched.
LEMMA Leaves ==
    ASSUME TypeOK, OwnInv, NEW w \in Workers,
           pc'[w] \in {"idle", "claim", "dlq", "down"},
           \A v \in Workers \ {w} : Same(v),
           \A d \in Deliveries :
              Leased(d) /\ ~(InFlight(w) /\ d = job[w]) => RowKept(d)
    PROVE  OwnInv'
<1>1. ~InFlight(w)'
    BY DEF InFlight
<1>2. \A v \in Workers \ {w} : InFlight(v)' <=> InFlight(v)
    BY DEF Same, InFlight
<1>3. \A v \in Workers \ {w} : InFlight(v) => RowKept(job[v])
    BY InFlightLeased DEF OwnInv, SingleSender
<1>4. LeaseHeld' /\ ClaimFresh'
    BY <1>1, <1>2, <1>3 DEF OwnInv, LeaseHeld, ClaimFresh, Same, RowKept
<1>5. SingleSender'
    BY <1>1, <1>2 DEF OwnInv, SingleSender, Same
<1> QED
    BY <1>4, <1>5 DEF OwnInv

\* w enters its next phase within the time it had; no row is touched.
LEMMA Advances ==
    ASSUME TypeOK, OwnInv, NEW w \in Workers, InFlight(w),
           pc'[w] \in {"load", "send", "persist"},
           left'[w] + Ahead(pc'[w]) <= left[w] + Ahead(pc[w]),
           left'[w] \in Nat,
           job'[w] = job[w], attempt'[w] = attempt[w],
           \A v \in Workers \ {w} : Same(v),
           \A d \in Deliveries : RowKept(d)
    PROVE  OwnInv'
<1>1. \A v \in Workers : job'[v] = job[v] /\ attempt'[v] = attempt[v]
                         /\ (InFlight(v)' <=> InFlight(v))
    BY DEF Same, InFlight
<1>2. \A v \in Workers : InFlight(v) => RowKept(job[v])
    BY InFlightLeased DEF OwnInv
<1>3. LeaseHeld'
  <2> SUFFICES ASSUME NEW v \in Workers, InFlight(v)'
               PROVE  /\ status'[job'[v]] = "PROCESSING"
                      /\ left'[v] + Ahead(pc'[v]) <= lockedUntil'[job'[v]]
      BY DEF LeaseHeld
  <2>1. InFlight(v) /\ job'[v] = job[v] /\ RowKept(job[v])
      BY <1>1, <1>2
  <2>2. /\ status[job[v]] = "PROCESSING"
        /\ left[v] + Ahead(pc[v]) <= lockedUntil[job[v]]
      BY <2>1 DEF OwnInv, LeaseHeld
  <2>3. left'[v] + Ahead(pc'[v]) <= left[v] + Ahead(pc[v])
    <3>1. CASE v = w
        BY <3>1
    <3>2. CASE v # w
        BY <3>2, AheadType DEF Same, TypeOK, WorkersTypeOK
    <3> QED
        BY <3>1, <3>2
  <2>4. /\ left'[v] \in Nat /\ left[v] \in Nat
        /\ lockedUntil[job[v]] \in Int
      BY <2>1, StoreAssumption DEF TypeOK, WorkersTypeOK, RowsTypeOK, Same, InFlight
  <2> QED
      BY <2>1, <2>2, <2>3, <2>4, AheadType DEF RowKept
<1>4. ClaimFresh'
    BY <1>1, <1>2 DEF OwnInv, ClaimFresh, RowKept
<1>5. SingleSender'
    BY <1>1 DEF OwnInv, SingleSender
<1> QED
    BY <1>3, <1>4, <1>5 DEF OwnInv

\* w claims a row nobody else is in flight with, and its new lease covers
\* everything it may do before its write.
LEMMA ClaimOwn ==
    ASSUME TypeOK, OwnInv, LeaseCoversPipeline, NEW w \in Workers, Claim(w)
    PROVE  OwnInv'
<1>1. /\ pc[w] = "claim" /\ job[w] \in Deliveries
      /\ Claimable(job[w]) /\ job' = job
    BY DEF Claim, ClaimDelivery, TypeOK, WorkersTypeOK
<1>2. PICK skew \in 0..MaxSkew : ClaimDelivery(job[w], LeaseTTL - skew)
    BY DEF Claim
<1>3. /\ pc'[w] = "rate" /\ left'[w] = RateWaitMax + RateWaitStep
      /\ attempt'[w] = attemptCount[job[w]]
      /\ \A v \in Workers \ {w} : Same(v)
    BY DEF Claim, Enter, Same, TypeOK, WorkersTypeOK
<1>4. /\ status'[job[w]] = "PROCESSING" /\ lockedUntil'[job[w]] = LeaseTTL - skew
      /\ attemptCount' = attemptCount
      /\ \A d \in Deliveries \ {job[w]} : RowKept(d)
    BY <1>1, <1>2 DEF ClaimDelivery, RowKept, TypeOK, RowsTypeOK
<1>5. left'[w] + Ahead(pc'[w]) <= lockedUntil'[job[w]]
    BY <1>3, <1>4, PhaseBounds, StoreAssumption, WorkerAssumption
       DEF LeaseCoversPipeline, Ahead
<1>6. \A v \in Workers \ {w} : InFlight(v)' <=> InFlight(v)
    BY <1>3 DEF Same, InFlight
<1>7. \A v \in Workers \ {w} : InFlight(v) =>
          job[v] \in Deliveries \ {job[w]}
    BY <1>1, InFlightLeased DEF OwnInv, Leased, Claimable
<1>8. LeaseHeld' /\ ClaimFresh'
    BY <1>1, <1>3, <1>4, <1>5, <1>6, <1>7
       DEF OwnInv, LeaseHeld, ClaimFresh, Same, RowKept
<1>9. SingleSender'
    BY <1>1, <1>6, <1>7 DEF OwnInv, SingleSender
<1> QED
    BY <1>8, <1>9 DEF OwnInv

\* A tick takes as much from what remains of a phase as from the lease.
LEMMA TickOwn ==
    ASSUME TypeOK, OwnInv, Tick
    PROVE  OwnInv'
<1>1. \A w \in Workers : InFlight(w)' <=> InFlight(w)
    BY DEF Tick, AgeWorkers, InFlight
<1>2. UNCHANGED <<pc, job, attempt, status, attemptCount>>
    BY DEF Tick, AgeWorkers, AgeRows
<1>3. LeaseHeld'
  <2> SUFFICES ASSUME NEW w \in Workers, InFlight(w)'
               PROVE  /\ status'[job'[w]] = "PROCESSING"
                      /\ left'[w] + Ahead(pc'[w]) <= lockedUntil'[job'[w]]
      BY DEF LeaseHeld
  <2>1. InFlight(w)
      BY <1>1
  <2>2. /\ job[w] \in Deliveries
        /\ status[job[w]] = "PROCESSING" /\ lockedUntil[job[w]] >= 0
        /\ left[w] + Ahead(pc[w]) <= lockedUntil[job[w]]
      BY <2>1, InFlightLeased DEF OwnInv, LeaseHeld, Leased
  <2>3. lockedUntil'[job[w]] = lockedUntil[job[w]] - 1
      BY <2>2 DEF Tick, AgeRows
  <2>4. left'[w] = left[w] - 1
      BY <2>1 DEF Tick, AgeWorkers
  <2>5. left[w] \in Nat /\ lockedUntil[job[w]] \in Int /\ Ahead(pc[w]) \in Nat
      BY <2>2, AheadType, StoreAssumption DEF TypeOK, WorkersTypeOK, RowsTypeOK
  <2> QED
      BY <1>2, <2>2, <2>3, <2>4, <2>5
<1>4. ClaimFresh' /\ SingleSender'
    BY <1>1, <1>2 DEF OwnInv, ClaimFresh, SingleSender
<1> QED
    BY <1>3, <1>4 DEF OwnInv

\* Everything a worker does keeps the claims of the others and its own.
LEMMA WorkerStepOwn ==
    ASSUME TypeOK, OwnInv, LeaseCoversPipeline, NEW w \in Workers, WorkerStep(w)
    PROVE  OwnInv'
<1> USE DEF Same, RowKept
<1>a. ASSUME UNCHANGED storeVars
      PROVE  \A d \in Deliveries : RowKept(d)
    BY <1>a DEF storeVars, rowVars
<1>b. ASSUME NEW phase, Done(w, phase)
      PROVE  /\ pc'[w] = phase
             /\ \A v \in Workers \ {w} : Same(v)
    BY <1>b DEF Done, TypeOK, WorkersTypeOK
<1>c. ASSUME NEW phase, NEW n, Enter(w, phase, n)
      PROVE  /\ pc'[w] = phase /\ left'[w] = n
             /\ \A v \in Workers \ {w} : pc'[v] = pc[v] /\ left'[v] = left[v]
    BY <1>c DEF Enter, TypeOK, WorkersTypeOK
<1>d. pc[w] \in {"rate", "load", "send", "persist"} <=> InFlight(w)
    BY DEF InFlight
<1>e. left[w] \in Nat /\ DbMax \in Nat /\ ProviderTimeout \in Nat
    BY PhaseBounds DEF TypeOK, WorkersTypeOK
<1>1. CASE \E d \in Deliveries : ReadMessage(w, d)
  <2> PICK d \in Deliveries : ReadMessage(w, d)
      BY <1>1
  <2>1. /\ pc'[w] = "claim"
        /\ \A v \in Workers \ {w} : Same(v)
        /\ \A e \in Deliveries : RowKept(e)
      BY <1>a, <1>c DEF ReadMessage, TypeOK, WorkersTypeOK
  <2> QED
      BY <2>1, Leaves
<1>2. CASE Claim(w)
    BY <1>2, ClaimOwn
<1>3. CASE SkipDuplicate(w) \/ publishDLQ(w) \/ StepFails(w) \/ Crash(w) \/ Start(w)
  <2>1. UNCHANGED storeVars /\ \E phase \in {"idle", "down"} : Done(w, phase)
      BY <1>3 DEF SkipDuplicate, publishDLQ, StepFails, Crash, Start
  <2>2. PICK phase \in {"idle", "down"} : Done(w, phase)
      BY <2>1
  <2>3. /\ pc'[w] \in {"idle", "claim", "dlq", "down"}
        /\ \A v \in Workers \ {w} : Same(v)
        /\ \A e \in Deliveries : RowKept(e)
      BY <2>1, <2>2, <1>a, <1>b
  <2> QED
      BY <2>3, Leaves
<1>4. CASE TokenGranted(w) \/ TokenDenied(w) \/ CallProvider(w) \/ BreakerOpen(w)
           \/ ProviderReturns(w)
  <2>1. /\ UNCHANGED storeVars /\ job' = job /\ attempt' = attempt
        /\ InFlight(w)
      BY <1>4, <1>d DEF TokenGranted, TokenDenied, CallProvider, BreakerOpen, ProviderReturns
  <2>2. /\ pc'[w] \in {"load", "send", "persist"}
        /\ left'[w] \in Nat
        /\ left'[w] + Ahead(pc'[w]) <= left[w] + Ahead(pc[w])
        /\ \A v \in Workers \ {w} : pc'[v] = pc[v] /\ left'[v] = left[v]
    <3>1. CASE TokenGranted(w)
        BY <3>1, <1>c, <1>e DEF TokenGranted, Ahead
    <3>2. CASE TokenDenied(w)
        BY <3>2, <1>c, <1>e DEF TokenDenied, Ahead
    <3>3. CASE CallProvider(w)
        BY <3>3, <1>c, <1>e DEF CallProvider, Ahead
    <3>4. CASE BreakerOpen(w)
        BY <3>4, <1>c, <1>e DEF BreakerOpen, Ahead
    <3>5. CASE ProviderReturns(w)
        BY <3>5, <1>c, <1>e DEF ProviderReturns, Ahead
    <3> QED
        BY <1>4, <3>1, <3>2, <3>3, <3>4, <3>5
  <2>3. /\ \A v \in Workers \ {w} : Same(v)
        /\ \A e \in Deliveries : RowKept(e)
      BY <2>1, <2>2, <1>a
  <2> QED
      BY <2>1, <2>2, <2>3, Advances
<1>5. CASE PersistSent(w) \/ handleFailure(w) \/ requeueWithoutAttempt(w)
  <2>1. InFlight(w) /\ job[w] \in Deliveries
      BY <1>5, <1>d DEF PersistSent, handleFailure, requeueWithoutAttempt, TypeOK, WorkersTypeOK
  <2>2. /\ pc'[w] \in {"idle", "dlq"}
        /\ \A v \in Workers \ {w} : Same(v)
    <3>1. CASE PersistSent(w) \/ requeueWithoutAttempt(w)
        BY <3>1, <1>b DEF PersistSent, requeueWithoutAttempt
    <3>2. CASE handleFailure(w)
      <4>1. CASE Done(w, "idle")
          BY <4>1, <1>b
      <4>2. CASE Enter(w, "dlq", 0) /\ job' = job /\ \E n : attempt' = [attempt EXCEPT ![w] = n]
          BY <4>2, <1>c DEF TypeOK, WorkersTypeOK
      <4> QED
          BY <3>2, <4>1, <4>2 DEF handleFailure
    <3> QED
        BY <1>5, <3>1, <3>2
  <2>3. \A d \in Deliveries \ {job[w]} : RowKept(d)
    <3>1. CASE PersistSent(w)
        BY <3>1 DEF PersistSent, MarkSent, TypeOK, RowsTypeOK
    <3>2. CASE requeueWithoutAttempt(w)
        BY <3>2 DEF requeueWithoutAttempt, MarkRetrying, TypeOK, RowsTypeOK
    <3>3. CASE handleFailure(w)
      <4>1. (\E n : MarkFailed(job[w], n)) \/ (\E n, m : MarkRetrying(job[w], n, m))
          BY <3>3 DEF handleFailure
      <4> QED
          BY <4>1 DEF MarkFailed, MarkRetrying, TypeOK, RowsTypeOK
    <3> QED
        BY <1>5, <3>1, <3>2, <3>3
  <2> QED
      BY <2>1, <2>2, <2>3, Leaves
<1> QED
    BY <1>1, <1>2, <1>3, <1>4, <1>5 DEF WorkerStep, process

\* OwnInv is inductive when the lease covers the pipeline.
LEMMA OwnStep ==
    ASSUME LeaseCoversPipeline, TypeOK, OwnInv, [Next]_vars
    PROVE  OwnInv'
<1>a. ASSUME UNCHANGED workerVars,
             \A d \in Deliveries : Leased(d) => RowKept(d)
      PROVE  OwnInv'
    BY <1>a, Bystander DEF workerVars, Same
<1>b. ASSUME UNCHANGED <<workerVars, storeVars>>
      PROVE  OwnInv'
    BY <1>a, <1>b DEF storeVars, rowVars, RowKept
<1>1. ASSUME NEW S \in SUBSET Deliveries, NEW wait, insertRows(S, wait), UNCHANGED workerVars
      PROVE  OwnInv'
    BY <1>1, <1>a DEF insertRows, Leased, RowKept
<1>2. ASSUME NEW d \in Deliveries, Create(d) \/ Cancel(d)
      PROVE  OwnInv'
  <2>1. CASE Create(d)
      BY <2>1, <1>1 DEF Create, CreateNotification
  <2>2. CASE Cancel(d)
      BY <2>2, <1>a DEF Cancel, CancelRequest, Leased, RowKept, TypeOK, RowsTypeOK
  <2> QED
      BY <1>2, <2>1, <2>2
<1>3. ASSUME NEW b \in Batches, NEW S \in SUBSET Deliveries, SubmitBatch(b, S)
      PROVE  OwnInv'
    BY <1>3, <1>1 DEF SubmitBatch, CreateBatch
<1>4. CASE promoteDue \/ sweepRetries
  <2>1. /\ UNCHANGED workerVars
        /\ \E from \in {"SCHEDULED", "RETRYING"} : transitionAndEnqueue(from)
      BY <1>4 DEF promoteDue, sweepRetries, PromoteDue, SweepRetries
  <2>2. \A d \in Deliveries : Leased(d) => RowKept(d)
      BY <2>1 DEF transitionAndEnqueue, Leased, RowKept
  <2> QED
      BY <2>1, <2>2, <1>a
<1>5. CASE reapStuck
    BY <1>5, <1>a, StoreAssumption
       DEF reapStuck, ReapStuck, Expired, Leased, RowKept, TypeOK, RowsTypeOK
<1>6. CASE reconcile \/ Flush \/ UNCHANGED vars
    BY <1>6, <1>b DEF reconcile, ReconcilePending, Flush, vars
<1>7. ASSUME NEW r \in Relays, Relay(r)
      PROVE  OwnInv'
    BY <1>7, <1>b DEF Relay
<1>8. ASSUME NEW d \in Deliveries, DropRead(d)
      PROVE  OwnInv'
    BY <1>8, <1>b DEF DropRead
<1>9. ASSUME NEW w \in Workers, WorkerStep(w)
      PROVE  OwnInv'
    BY <1>9, WorkerStepOwn
<1>10. CASE Tick
    BY <1>10, TickOwn
<1> QED
    BY <1>2, <1>3, <1>4, <1>5, <1>6, <1>7, <1>8, <1>9, <1>10 DEF Next, API, Scheduler

\* Nobody is in flight in the initial state.
LEMMA OwnInit == Init => OwnInv
    BY DEF Init, WorkerInit, OwnInv, LeaseHeld, SingleSender, ClaimFresh, InFlight

\* Ownership holds in every state of the pipeline.
LEMMA OwnCorrect ==
    ASSUME LeaseCoversPipeline
    PROVE  Spec => []OwnInv
<1>1. TypeOK /\ OwnInv /\ [Next]_vars => OwnInv'
    BY OwnStep
<1> QED
    BY <1>1, OwnInit, TypeCorrect, PTL DEF Spec

\* With a lease that covers the pipeline the reaper never takes a delivery
\* back from a worker between its claim and its write.
THEOREM NeverReclaimed ==
    ASSUME LeaseCoversPipeline
    PROVE  Spec => []NeverReclaimedInFlight
<1>1. OwnInv => NeverReclaimedInFlight
    BY DEF OwnInv, LeaseHeld, NeverReclaimedInFlight
<1> QED
    BY <1>1, OwnCorrect, PTL

\* With such a lease no two workers are ever in flight with one delivery.
THEOREM OneSender ==
    ASSUME LeaseCoversPipeline
    PROVE  Spec => []SingleSender
<1>1. OwnInv => SingleSender
    BY DEF OwnInv
<1> QED
    BY <1>1, OwnCorrect, PTL
=============================================================================
