-------------------------------- MODULE Store --------------------------------
(***************************************************************************)
(* The Postgres rows that decide what happens to a notification, and one   *)
(* action per repository method that writes them.  A method is one         *)
(* transaction, so it is one step: the recompute of the request status and *)
(* of the batch counters is part of it.  internal/adapters/postgres/.      *)
(*                                                                         *)
(* A request has exactly one delivery (Service.build), so d names both.    *)
(* Times are ticks relative to now: due[d] is how far send_at or           *)
(* next_retry_at lies ahead, lockedUntil[d] how long the lease still runs  *)
(* (-1: locked_until < now()), idle[d] the age of updated_at of a PENDING  *)
(* row.                                                                    *)
(***************************************************************************)
EXTENDS Outbox, Domain, Integers

CONSTANTS Batches,         \* batch ids
          NoBatch,         \* batch_id IS NULL
          LeaseTTL,        \* WORKER_LEASE_TTL
          ReconcileAfter,  \* SCHEDULER_RECONCILE_AFTER
          PromoteBatch     \* LIMIT of the promotion and sweep queries

ASSUME StoreAssumption ==
    /\ NoBatch \notin Batches
    /\ LeaseTTL \in Nat \ {0}
    /\ ReconcileAfter \in Nat
    /\ PromoteBatch \in Nat \ {0}

VARIABLES status,        \* notification_deliveries.status, "NONE" before the insert
          attemptCount,  \* .attempt_count
          due,           \* .send_at / .next_retry_at - now, not below 0
          lockedUntil,   \* .locked_until - now, not below -1; 0 when NULL
          idle,          \* now - .updated_at of a PENDING row
          request,       \* notification_requests.status
          batchOf,       \* notification_requests.batch_id
          counters       \* the counter columns of notification_batches

rowVars == <<status, attemptCount, due, lockedUntil, idle>>
aggregateVars == <<request, batchOf, counters>>
storeVars == <<rowVars, aggregateVars>>

RowsTypeOK ==
    /\ status \in [Deliveries -> DeliveryStatus \cup {"NONE"}]
    /\ attemptCount \in [Deliveries -> Nat]
    /\ due \in [Deliveries -> Nat]
    /\ lockedUntil \in [Deliveries -> -1..LeaseTTL]
    /\ idle \in [Deliveries -> Nat]

AggregatesTypeOK ==
    /\ request \in [Deliveries -> RequestStatus \cup {"NONE"}]
    /\ batchOf \in [Deliveries -> Batches \cup {NoBatch}]
    /\ counters \in [Batches -> [Buckets -> Nat]]

StoreInit ==
    /\ status = [d \in Deliveries |-> "NONE"]
    /\ attemptCount = [d \in Deliveries |-> 0]
    /\ due = [d \in Deliveries |-> 0]
    /\ lockedUntil = [d \in Deliveries |-> 0]
    /\ idle = [d \in Deliveries |-> 0]
    /\ request = [d \in Deliveries |-> "NONE"]
    /\ batchOf = [d \in Deliveries |-> NoBatch]
    /\ counters = [b \in Batches |-> [k \in Buckets |-> 0]]

-----------------------------------------------------------------------------
adjustBatchCounters(b, from, to) ==
    IF bucketColumn(from) = bucketColumn(to)
    THEN counters
    ELSE [counters EXCEPT
            ![b][bucketColumn(from)] = IF @ > 0 THEN @ - 1 ELSE 0,
            ![b][bucketColumn(to)] = @ + 1]

\* Mutant: takes for granted that the request was PENDING until now.
recomputeFromPending(d, st) ==
    LET new == AggregateRequestStatus(<<st>>)
    IN  /\ request' = [request EXCEPT ![d] = new]
        /\ counters' = IF batchOf[d] = NoBatch
                       THEN counters
                       ELSE adjustBatchCounters(batchOf[d], "PENDING", new)
        /\ UNCHANGED batchOf

\* recomputeRequestStatusTx once the delivery's row says st.
recomputeRequestStatus(d, st) ==
    LET old == request[d]
        new == AggregateRequestStatus(<<st>>)
    IN  /\ request' = [request EXCEPT ![d] = new]
        /\ counters' = IF new = old \/ batchOf[d] = NoBatch
                       THEN counters
                       ELSE adjustBatchCounters(batchOf[d], old, new)
        /\ UNCHANGED batchOf

-----------------------------------------------------------------------------
\* insertRequest and insertDelivery for the deliveries of S; wait[d] > 0 means
\* SendAt.After(now): SCHEDULED and no outbox row.
insertRows(S, wait) ==
    LET now == {d \in S : wait[d] = 0}
    IN  /\ \A d \in S : status[d] = "NONE"
        /\ status' = [d \in Deliveries |->
                         IF d \notin S THEN status[d]
                         ELSE IF d \in now THEN "PENDING" ELSE "SCHEDULED"]
        /\ due' = [d \in Deliveries |-> IF d \in S THEN wait[d] ELSE due[d]]
        /\ request' = [d \in Deliveries |-> IF d \in S THEN "PENDING" ELSE request[d]]
        /\ insertOutbox(now)
        /\ UNCHANGED <<attemptCount, lockedUntil, idle>>

CreateNotification(d, wait) ==
    /\ insertRows({d}, wait)
    /\ UNCHANGED <<batchOf, counters>>

\* The batch row, every item that is not a duplicate, then the counters.
CreateBatch(b, S, wait) ==
    /\ \A d \in Deliveries : batchOf[d] # b
    /\ insertRows(S, wait)
    /\ batchOf' = [d \in Deliveries |-> IF d \in S THEN b ELSE batchOf[d]]
    /\ counters' = [counters EXCEPT ![b]["pending_count"] = Cardinality(S)]

\* Mutant: the request status is not recomputed.
CancelRequestNoRecompute(d) ==
    /\ status[d] \in {"SCHEDULED", "PENDING", "RETRYING"}
    /\ status' = [status EXCEPT ![d] = "CANCELLED"]
    /\ idle' = [idle EXCEPT ![d] = 0]
    /\ UNCHANGED <<aggregateVars, attemptCount, due, lockedUntil, outboxVars>>

\* Mutant: any unfinished delivery can be cancelled, a claimed one too.
CancelRequestUnfinished(d) ==
    /\ status[d] # "NONE" /\ ~IsTerminal(status[d])
    /\ status' = [status EXCEPT ![d] = "CANCELLED"]
    /\ idle' = [idle EXCEPT ![d] = 0]
    /\ recomputeRequestStatus(d, "CANCELLED")
    /\ UNCHANGED <<attemptCount, due, lockedUntil, outboxVars>>

CancelRequest(d) ==
    /\ status[d] \in {"SCHEDULED", "PENDING", "RETRYING"}
    /\ status' = [status EXCEPT ![d] = "CANCELLED"]
    /\ idle' = [idle EXCEPT ![d] = 0]
    /\ recomputeRequestStatus(d, "CANCELLED")
    /\ UNCHANGED <<attemptCount, due, lockedUntil, outboxVars>>

-----------------------------------------------------------------------------
\* Mutant: the claim also takes a delivery that is being processed.
ClaimableProcessing(d) == status[d] \in {"PENDING", "RETRYING", "PROCESSING"}

\* Mutant: the claim refuses only a delivery that is being processed.
ClaimableUnlessProcessing(d) == status[d] \notin {"NONE", "PROCESSING"}

Claimable(d) == status[d] \in {"PENDING", "RETRYING"}

ClaimDelivery(d, lease) ==
    /\ Claimable(d)
    /\ status' = [status EXCEPT ![d] = "PROCESSING"]
    /\ lockedUntil' = [lockedUntil EXCEPT ![d] = lease]
    /\ idle' = [idle EXCEPT ![d] = 0]
    /\ UNCHANGED <<attemptCount, due, aggregateVars, outboxVars>>

\* The three writes that end an attempt name the row by its key alone: none
\* of them asks which status the row has by now.
MarkSent(d) ==
    /\ status' = [status EXCEPT ![d] = "SENT"]
    /\ lockedUntil' = [lockedUntil EXCEPT ![d] = 0]
    /\ idle' = [idle EXCEPT ![d] = 0]
    /\ recomputeRequestStatus(d, "SENT")
    /\ UNCHANGED <<attemptCount, due, outboxVars>>

\* Mutant: the last attempt is not counted.
MarkFailedUncounted(d, attempts) ==
    /\ status' = [status EXCEPT ![d] = "FAILED"]
    /\ lockedUntil' = [lockedUntil EXCEPT ![d] = 0]
    /\ idle' = [idle EXCEPT ![d] = 0]
    /\ recomputeRequestStatus(d, "FAILED")
    /\ UNCHANGED <<attemptCount, due, outboxVars>>

MarkFailed(d, attempts) ==
    /\ status' = [status EXCEPT ![d] = "FAILED"]
    /\ attemptCount' = [attemptCount EXCEPT ![d] = attempts]
    /\ lockedUntil' = [lockedUntil EXCEPT ![d] = 0]
    /\ idle' = [idle EXCEPT ![d] = 0]
    /\ recomputeRequestStatus(d, "FAILED")
    /\ UNCHANGED <<due, outboxVars>>

\* Mutant: attempt_count is left as it was.
MarkRetryingUncounted(d, attempts, wait) ==
    /\ status' = [status EXCEPT ![d] = "RETRYING"]
    /\ due' = [due EXCEPT ![d] = wait]
    /\ lockedUntil' = [lockedUntil EXCEPT ![d] = 0]
    /\ idle' = [idle EXCEPT ![d] = 0]
    /\ UNCHANGED <<attemptCount, aggregateVars, outboxVars>>

\* Mutant: SET attempt_count = attempt_count + 1, computed from the row.
MarkRetryingIncrement(d, attempts, wait) ==
    /\ status' = [status EXCEPT ![d] = "RETRYING"]
    /\ attemptCount' = [attemptCount EXCEPT ![d] = @ + 1]
    /\ due' = [due EXCEPT ![d] = wait]
    /\ lockedUntil' = [lockedUntil EXCEPT ![d] = 0]
    /\ idle' = [idle EXCEPT ![d] = 0]
    /\ UNCHANGED <<aggregateVars, outboxVars>>

\* No recompute: "the request stays PENDING".
MarkRetrying(d, attempts, wait) ==
    /\ status' = [status EXCEPT ![d] = "RETRYING"]
    /\ attemptCount' = [attemptCount EXCEPT ![d] = attempts]
    /\ due' = [due EXCEPT ![d] = wait]
    /\ lockedUntil' = [lockedUntil EXCEPT ![d] = 0]
    /\ idle' = [idle EXCEPT ![d] = 0]
    /\ UNCHANGED <<aggregateVars, outboxVars>>

-----------------------------------------------------------------------------
\* SKIP LOCKED may pass over rows, so any part of the due rows is taken.
transitionAndEnqueue(from) ==
    \E S \in SUBSET {d \in Deliveries : status[d] = from /\ due[d] = 0} :
       /\ S # {}
       /\ Cardinality(S) <= PromoteBatch
       /\ status' = [d \in Deliveries |-> IF d \in S THEN "PENDING" ELSE status[d]]
       /\ idle' = [d \in Deliveries |-> IF d \in S THEN 0 ELSE idle[d]]
       /\ insertOutbox(S)
       /\ UNCHANGED <<attemptCount, due, lockedUntil, aggregateVars>>

PromoteDue == transitionAndEnqueue("SCHEDULED")

SweepRetries == transitionAndEnqueue("RETRYING")

\* Mutant: the reaper takes every claimed row, whatever its lease.
ExpiredAlways(d) == status[d] = "PROCESSING"

Expired(d) == status[d] = "PROCESSING" /\ lockedUntil[d] < 0

ReapStuck ==
    LET S == {d \in Deliveries : Expired(d)}
    IN  /\ S # {}
        /\ status' = [d \in Deliveries |-> IF d \in S THEN "RETRYING" ELSE status[d]]
        /\ due' = [d \in Deliveries |-> IF d \in S THEN 0 ELSE due[d]]
        /\ lockedUntil' = [d \in Deliveries |-> IF d \in S THEN 0 ELSE lockedUntil[d]]
        /\ idle' = [d \in Deliveries |-> IF d \in S THEN 0 ELSE idle[d]]
        /\ UNCHANGED <<attemptCount, aggregateVars, outboxVars>>

\* Mutant: EXISTS for NOT EXISTS.
ReconcilePendingInverted ==
    \E S \in SUBSET {d \in Deliveries : /\ status[d] = "PENDING"
                                        /\ idle[d] > ReconcileAfter
                                        /\ HasOutboxRow(d)} :
       /\ S # {}
       /\ Cardinality(S) <= PromoteBatch
       /\ insertOutbox(S)
       /\ UNCHANGED storeVars

\* updated_at is not written: a row stays eligible until it is claimed.
ReconcilePending ==
    \E S \in SUBSET {d \in Deliveries : /\ status[d] = "PENDING"
                                        /\ idle[d] > ReconcileAfter
                                        /\ ~HasOutboxRow(d)} :
       /\ S # {}
       /\ Cardinality(S) <= PromoteBatch
       /\ insertOutbox(S)
       /\ UNCHANGED storeVars

\* One tick of the clock, as seen in the rows.
AgeRows ==
    /\ due' = [d \in Deliveries |-> IF due[d] > 0 THEN due[d] - 1 ELSE 0]
    /\ lockedUntil' = [d \in Deliveries |->
           IF status[d] = "PROCESSING" /\ lockedUntil[d] >= 0
           THEN lockedUntil[d] - 1 ELSE lockedUntil[d]]
    /\ idle' = [d \in Deliveries |->
           IF status[d] = "PENDING" /\ idle[d] <= ReconcileAfter
           THEN idle[d] + 1 ELSE idle[d]]
    /\ UNCHANGED <<status, attemptCount, aggregateVars, outboxVars>>
=============================================================================
