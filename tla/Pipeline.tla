------------------------------- MODULE Pipeline -------------------------------
(***************************************************************************)
(* The whole system: the API writes requests, the relays move outbox rows *)
(* to the stream, the workers send, the scheduler's jobs bring deliveries *)
(* back, and the clock runs.  The processes share nothing but Postgres    *)
(* (Store, Outbox) and Redis (Queue).                                     *)
(***************************************************************************)
EXTENDS Worker

CONSTANTS SendDelays,  \* how far ahead send_at may lie; 0 is an immediate send
          MayFlush     \* whether Redis may lose its data

ASSUME PipelineAssumption == SendDelays \subseteq Nat /\ MayFlush \in BOOLEAN

vars == <<faultVars, queueVars, outboxVars, storeVars, workerVars>>

Init ==
    /\ FaultsInit
    /\ QueueInit
    /\ OutboxInit
    /\ StoreInit
    /\ WorkerInit

-----------------------------------------------------------------------------
\* Service.Create, Service.CreateBatch and Service.Cancel.
Create(d) ==
    /\ \E wait \in [{d} -> SendDelays] : CreateNotification(d, wait)
    /\ UNCHANGED <<faultVars, queueVars, workerVars>>

SubmitBatch(b, S) ==
    /\ \E wait \in [S -> SendDelays] : CreateBatch(b, S, wait)
    /\ UNCHANGED <<faultVars, queueVars, workerVars>>

Cancel(d) ==
    /\ CancelRequest(d)
    /\ UNCHANGED <<faultVars, queueVars, workerVars>>

API ==
    \/ \E d \in Deliveries : Create(d) \/ Cancel(d)
    \/ \E b \in Batches, S \in SUBSET Deliveries : S # {} /\ SubmitBatch(b, S)

\* The scheduler's jobs.
promoteDue == PromoteDue /\ UNCHANGED <<faultVars, queueVars, workerVars>>
sweepRetries == SweepRetries /\ UNCHANGED <<faultVars, queueVars, workerVars>>
reapStuck == ReapStuck /\ UNCHANGED <<faultVars, queueVars, workerVars>>
reconcile == ReconcilePending /\ UNCHANGED <<faultVars, queueVars, workerVars>>

Relay(r) == relayOutbox(r) /\ UNCHANGED <<storeVars, workerVars>>

Scheduler ==
    \/ promoteDue
    \/ sweepRetries
    \/ reapStuck
    \/ reconcile
    \/ \E r \in Relays : Relay(r)

\* A worker process: its read loop, its goroutines, its deaths.
WorkerStep(w) ==
    \/ \E d \in Deliveries : ReadMessage(w, d)
    \/ process(w)
    \/ Crash(w)
    \/ Start(w)

Flush ==
    /\ MayFlush
    /\ Fault
    /\ FlushRedis
    /\ UNCHANGED <<outboxVars, storeVars, workerVars>>

Tick ==
    /\ \A w \in Workers : MayAge(w)
    /\ AgeRows
    /\ AgeWorkers
    /\ UNCHANGED <<faultVars, queueVars>>

Next ==
    \/ API
    \/ Scheduler
    \/ \E w \in Workers : WorkerStep(w)
    \/ \E d \in Deliveries : DropRead(d)
    \/ Flush
    \/ Tick

Spec == Init /\ [][Next]_vars

\* Tickers fire again and again, a goroutine with a job runs on, a stopped
\* process is restarted (restart: unless-stopped), and time passes.  Nothing
\* is assumed of the API, and the budgets make faults and refusals finite.
Fairness ==
    /\ WF_vars(Tick)
    /\ WF_vars(promoteDue)
    /\ WF_vars(sweepRetries)
    /\ WF_vars(reapStuck)
    /\ WF_vars(reconcile)
    /\ \A r \in Relays : WF_vars(Relay(r))
    /\ \A w \in Workers : WF_vars(WorkerStep(w))

FairSpec == Spec /\ Fairness
-----------------------------------------------------------------------------
\* When a lease is long enough: everything a worker may do between its claim
\* and its write fits into what is left of the lease after the skew.
LeaseCoversPipeline ==
    LeaseTTL >= MaxSkew + RateWaitMax + RateWaitStep + 2 * DbMax + ProviderTimeout

\* Every variable has the shape the schema and the structs give it, and a
\* goroutine that is processing has a delivery to process.
TypeOK ==
    /\ FaultsTypeOK
    /\ QueueTypeOK
    /\ OutboxTypeOK
    /\ RowsTypeOK
    /\ AggregatesTypeOK
    /\ WorkersTypeOK

\* A worker that acts on a claim finds the row still PROCESSING: the reaper
\* (ReapStuck) never takes a delivery back while its worker is between
\* ClaimDelivery and the write that ends the attempt.
NeverReclaimedInFlight ==
    \A w \in Workers : InFlight(w) => status[job[w]] = "PROCESSING"

\* ClaimDelivery is the idempotency gate: whatever duplicates the stream
\* holds, no two workers are ever in flight with the same delivery.
SingleSender ==
    \A v, w \in Workers : InFlight(v) /\ InFlight(w) /\ v # w => job[v] # job[w]

\* SENT, FAILED and CANCELLED "will not change" (DeliveryStatus.IsTerminal),
\* although the Mark methods write without looking at the row.
TerminalIsFinal ==
    [][\A d \in Deliveries : IsTerminal(status[d]) => status'[d] = status[d]]_vars

\* Once a delivery is finished the provider is never called for it again: no
\* duplicate, no late worker and no retry gets past the claim, and a
\* successful Cancel means the notification is not sent after it.
NoCallAfterTerminal ==
    [][\A d \in Deliveries : IsTerminal(status[d]) => calls'[d] = calls[d]]_vars

\* The denormalised request status is what AggregateRequestStatus derives
\* from the delivery, in every state between two transactions, although
\* MarkRetrying, ClaimDelivery and ReapStuck never recompute it.
RequestAgrees ==
    \A d \in Deliveries :
        status[d] # "NONE" => request[d] = AggregateRequestStatus(<<status[d]>>)

\* Each counter of a batch is the number of its requests in that bucket: the
\* moves of adjustBatchCountersTx neither lose nor invent a request.
CountersAgree ==
    \A b \in Batches, k \in Buckets :
        counters[b][k] = Cardinality({d \in Deliveries :
                             batchOf[d] = b /\ bucketColumn(request[d]) = k})

\* An unfinished delivery has an attempt left, and no delivery has used more
\* than MAX_ATTEMPTS ("Bounded attempts").
AttemptsBounded ==
    \A d \in Deliveries :
        /\ attemptCount[d] <= MaxAttempts
        /\ ~IsTerminal(status[d]) => attemptCount[d] < MaxAttempts

\* w has called the provider for d and not yet written what came of it.
CallOpen(w, d) ==
    /\ job[w] = d
    /\ \/ pc[w] = "send"
       \/ pc[w] = "persist" /\ resp[w] # Requeue

\* "Effectively exactly-once": every provider call is in the row (a counted
\* attempt, or the SENT that ended it), or is still open, or its record was
\* lost to a crash or an error.  Duplicated messages, backpressure and
\* retries add no call of their own.
SendsAccounted ==
    \A d \in Deliveries :
        calls[d] <= attemptCount[d]
                    + (IF status[d] = "SENT" THEN 1 ELSE 0)
                    + (IF \E w \in Workers : CallOpen(w, d) THEN 1 ELSE 0)
                    + faults

\* What is in the dead-letter stream is FAILED, with that attempt count.
DeadLetterIsFailed ==
    \A e \in dlq : /\ status[e.delivery] = "FAILED"
                   /\ attemptCount[e.delivery] = e.attempts

\* How the rows map to the promised life of a delivery.
PhaseOf(st) ==
    CASE st = "NONE"       -> "absent"
      [] st = "PROCESSING" -> "sending"
      [] IsTerminal(st)    -> st
      [] OTHER             -> "waiting"

Lifecycle == INSTANCE DeliveryLifecycle
                WITH phase <- [d \in Deliveries |-> PhaseOf(status[d])],
                     attempts <- attemptCount

\* The pipeline implements DeliveryLifecycle: claims, duplicate messages,
\* crashes, reaping and unguarded writes together only ever move a delivery
\* as its life cycle allows, and count every written attempt exactly once.
ImplementsLifecycle == Lifecycle!Spec

-----------------------------------------------------------------------------
\* Every notification that was accepted is sent, fails or is cancelled: a
\* crash anywhere, a lost or duplicated message, a failed write or backpressure
\* only delays it (outbox, reaper, sweep and reconcile between them).
EventuallyTerminal ==
    \A d \in Deliveries : status[d] # "NONE" ~> IsTerminal(status[d])

\* "a duplicate stream message is dropped harmlessly": a delivery that waits
\* for its backoff is not claimed before next_retry_at.
BackoffRespected ==
    [][\A d \in Deliveries :
          status[d] = "RETRYING" /\ due[d] > 0 => status'[d] # "PROCESSING"]_vars

\* "a 429 ... Retry-After takes precedence over the computed backoff": the write
\* that follows such a response waits as long as the provider asked, jitter,
\* attempt count and reaper notwithstanding.
RetryAfterHonoured ==
    [][\A w \in Workers :
          /\ pc[w] = "persist"
          /\ resp[w].kind = "tooMany"
          /\ resp[w].retryAfter.form = "seconds"
          /\ resp[w].retryAfter.value > 0
          /\ status[job[w]] # "RETRYING"
          /\ status'[job[w]] = "RETRYING"
          => due'[job[w]] = resp[w].retryAfter.value]_vars
=============================================================================
