-------------------------------- MODULE Worker --------------------------------
(***************************************************************************)
(* The worker goroutines: Worker.process, one action per step between two *)
(* points where another process can act.  internal/worker/process.go and  *)
(* worker.go.                                                             *)
(*                                                                        *)
(* pc[w] is where goroutine w stands:                                     *)
(*    idle     waiting for a job        claim    about to claim job[w]    *)
(*    rate     in waitForRateLimit      load     about to read the request *)
(*    send     in the provider call     persist  about to write the result *)
(*    dlq      about to publish to the dead-letter stream                 *)
(*    down     its process is not running                                 *)
(* From the claim to the write every phase has an upper bound on its      *)
(* length; left[w] is what remains of it, and time cannot pass a phase    *)
(* that has none left.                                                    *)
(***************************************************************************)
EXTENDS Store, RetryPolicy

CONSTANTS Workers,
          ProviderTimeout,  \* PROVIDER_TIMEOUT
          RateWaitStep,     \* RATE_LIMIT_WAIT_INTERVAL
          DbMax,            \* bound: how long one statement of a worker takes
          MaxSkew,          \* bound: how much of its lease a claim loses to clock
                            \* skew and to the time the UPDATE takes
          MaxCalls          \* bound: where the history of provider calls saturates

\* Config.validate: the only relation between the timeouts it enforces.
ConfigValid == LeaseTTL > ProviderTimeout

ASSUME WorkerAssumption ==
    /\ ConfigValid
    /\ ProviderTimeout \in Nat
    /\ RateWaitStep \in Nat \ {0}
    /\ DbMax \in Nat
    /\ MaxSkew \in 0..LeaseTTL
    /\ MaxCalls \in Nat

\* Mutant: the whole lease may be spent waiting for a token.
RateWaitMaxWholeLease == LeaseTTL

\* cmd/worker/main.go gives the worker half its lease to wait for a token.
RateWaitMax == LeaseTTL \div 2

VARIABLES pc, job, attempt, resp, left,
          calls     \* history: provider calls made for a delivery

workerVars == <<pc, job, attempt, resp, left, calls>>

Phases == {"idle", "claim", "rate", "load", "send", "persist", "dlq", "down"}

\* The phases in which a worker acts on a claim it made.
InFlight(w) == pc[w] \in {"rate", "load", "send", "persist"}

NoJob == "none"

\* Why a worker is about to write: the response to its call, or backpressure.
Requeue == [kind |-> "requeue", retryAfter |-> NoHeader]

WorkersTypeOK ==
    /\ pc \in [Workers -> Phases]
    /\ job \in [Workers -> Deliveries \cup {NoJob}]
    /\ attempt \in [Workers -> Nat]
    /\ resp \in [Workers -> Responses \cup {Requeue}]
    /\ left \in [Workers -> Nat]
    /\ calls \in [Deliveries -> Nat]
    /\ \A w \in Workers : pc[w] \notin {"idle", "down"} => job[w] \in Deliveries

WorkerInit ==
    /\ pc = [w \in Workers |-> "idle"]
    /\ job = [w \in Workers |-> NoJob]
    /\ attempt = [w \in Workers |-> 0]
    /\ resp = [w \in Workers |-> Requeue]
    /\ left = [w \in Workers |-> 0]
    /\ calls = [d \in Deliveries |-> 0]

\* Enter a phase that lasts at most n ticks.
Enter(w, phase, n) ==
    /\ pc' = [pc EXCEPT ![w] = phase]
    /\ left' = [left EXCEPT ![w] = n]

\* process returns (the deferred Ack changes nothing that is read again).
Done(w, phase) ==
    /\ pc' = [pc EXCEPT ![w] = phase]
    /\ job' = [job EXCEPT ![w] = NoJob]
    /\ attempt' = [attempt EXCEPT ![w] = 0]
    /\ resp' = [resp EXCEPT ![w] = Requeue]
    /\ left' = [left EXCEPT ![w] = 0]
    /\ UNCHANGED calls

-----------------------------------------------------------------------------
\* readLoop hands a message to a goroutine of the pool.
ReadMessage(w, d) ==
    /\ pc[w] = "idle"
    /\ Read(d)
    /\ Enter(w, "claim", 0)
    /\ job' = [job EXCEPT ![w] = d]
    /\ NoFault
    /\ UNCHANGED <<attempt, resp, calls, storeVars, outboxVars>>

\* A message that was read but not yet taken from the channel when the
\* process stops is acknowledged by nobody and read by nobody.
DropRead(d) ==
    /\ Fault
    /\ Read(d)
    /\ UNCHANGED <<workerVars, storeVars, outboxVars>>

\* RETURNING hands the worker the attempt_count of the row it claimed.
Claim(w) ==
    /\ pc[w] = "claim"
    /\ \E skew \in 0..MaxSkew : ClaimDelivery(job[w], LeaseTTL - skew)
    /\ Enter(w, "rate", RateWaitMax + RateWaitStep)
    /\ attempt' = [attempt EXCEPT ![w] = attemptCount[job[w]]]
    /\ NoFault
    /\ UNCHANGED <<job, resp, calls, queueVars>>

\* claimed = false: a duplicate message, or the delivery is finished.
SkipDuplicate(w) ==
    /\ pc[w] = "claim"
    /\ ~Claimable(job[w])
    /\ Done(w, "idle")
    /\ NoFault
    /\ UNCHANGED <<storeVars, outboxVars, queueVars>>

\* waitForRateLimit got its token.
TokenGranted(w) ==
    /\ pc[w] = "rate"
    /\ Enter(w, "load", DbMax)
    /\ NoFault
    /\ UNCHANGED <<job, attempt, resp, calls, storeVars, outboxVars, queueVars>>

\* No token and time.Now().After(deadline): more than RateWaitMax has passed.
TokenDenied(w) ==
    /\ pc[w] = "rate"
    /\ left[w] < RateWaitStep
    /\ Refusal
    /\ Enter(w, "persist", DbMax)
    /\ UNCHANGED <<job, attempt, resp, calls, storeVars, outboxVars, queueVars>>

\* GetRequestByID succeeded and the breaker let the call through.
CallProvider(w) ==
    /\ pc[w] = "load"
    /\ calls' = [calls EXCEPT ![job[w]] = IF @ < MaxCalls THEN @ + 1 ELSE @]
    /\ Enter(w, "send", ProviderTimeout)
    /\ NoFault
    /\ UNCHANGED <<job, attempt, resp, storeVars, outboxVars, queueVars>>

\* Breaker.Send: open, or half-open with its probes taken.
BreakerOpen(w) ==
    /\ pc[w] = "load"
    /\ Refusal
    /\ Enter(w, "persist", DbMax)
    /\ UNCHANGED <<job, attempt, resp, calls, storeVars, outboxVars, queueVars>>

\* The call returned, by its timeout at the latest.
ProviderReturns(w) ==
    /\ pc[w] = "send"
    /\ \E r \in Responses : resp' = [resp EXCEPT ![w] = r]
    /\ Enter(w, "persist", DbMax)
    /\ NoFault
    /\ UNCHANGED <<job, attempt, calls, storeVars, outboxVars, queueVars>>

-----------------------------------------------------------------------------
PersistSent(w) ==
    /\ pc[w] = "persist"
    /\ resp[w].kind = "ok"
    /\ MarkSent(job[w])
    /\ Done(w, "idle")
    /\ NoFault
    /\ UNCHANGED queueVars

\* handleFailure: the outcome is a function of the attempt count the claim
\* returned, not of the row as it is now.
handleFailure(w) ==
    /\ pc[w] = "persist"
    /\ resp[w] \in Responses
    /\ ~Classify(resp[w]).ok
    /\ \E o \in EvaluateFailure(attempt[w], Classify(resp[w])) :
          \/ /\ o.status = "FAILED"
             /\ MarkFailed(job[w], o.attemptCount)
             /\ Enter(w, "dlq", 0)
             /\ attempt' = [attempt EXCEPT ![w] = o.attemptCount]
             /\ UNCHANGED <<job, resp, calls>>
          \/ /\ o.status = "RETRYING"
             /\ MarkRetrying(job[w], o.attemptCount, o.wait)
             /\ Done(w, "idle")
    /\ NoFault
    /\ UNCHANGED queueVars

requeueWithoutAttempt(w) ==
    /\ pc[w] = "persist"
    /\ resp[w] = Requeue
    /\ MarkRetrying(job[w], attempt[w], RateWaitStep)
    /\ Done(w, "idle")
    /\ NoFault
    /\ UNCHANGED queueVars

\* publishDLQ: the reason depends on the attempt count alone.
dlqReason(attempts) == IF attempts > 0 THEN "exhausted_retries"
                                       ELSE "permanent_failure"

publishDLQ(w) ==
    /\ pc[w] = "dlq"
    /\ PublishDLQ([delivery |-> job[w], reason |-> dlqReason(attempt[w]),
                   attempts |-> attempt[w]])
    /\ Done(w, "idle")
    /\ NoFault
    /\ UNCHANGED <<storeVars, outboxVars>>

\* An error of Postgres (at the claim, the read of the request, or the write
\* of the result) or of Redis (the dead-letter entry) makes process return:
\* the row stays as it is.  GetRequestByID reads a replica, so a replica that
\* lags behind the insert is one of these errors.
StepFails(w) ==
    /\ pc[w] \in {"claim", "load", "persist", "dlq"}
    /\ Fault
    /\ Done(w, "idle")
    /\ UNCHANGED <<storeVars, outboxVars, queueVars>>

Crash(w) ==
    /\ pc[w] # "down"
    /\ Fault
    /\ Done(w, "down")
    /\ UNCHANGED <<storeVars, outboxVars, queueVars>>

\* Worker.Run of the restarted process.
Start(w) ==
    /\ pc[w] = "down"
    /\ Done(w, "idle")
    /\ EnsureGroup
    /\ NoFault
    /\ UNCHANGED <<storeVars, outboxVars>>

\* Every way through process from a job to the next state of the goroutine.
process(w) ==
    \/ Claim(w)
    \/ SkipDuplicate(w)
    \/ TokenGranted(w)
    \/ TokenDenied(w)
    \/ CallProvider(w)
    \/ BreakerOpen(w)
    \/ ProviderReturns(w)
    \/ PersistSent(w)
    \/ handleFailure(w)
    \/ requeueWithoutAttempt(w)
    \/ publishDLQ(w)
    \/ StepFails(w)

\* One tick of the clock, as seen by the workers.
MayAge(w) == InFlight(w) => left[w] > 0

AgeWorkers ==
    /\ left' = [w \in Workers |-> IF InFlight(w) THEN left[w] - 1 ELSE 0]
    /\ UNCHANGED <<pc, job, attempt, resp, calls>>
=============================================================================
