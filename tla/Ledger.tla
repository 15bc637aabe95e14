-------------------------------- MODULE Ledger --------------------------------
(***************************************************************************)
(* The transactions that write a delivery, its request and its batch,      *)
(* statement by statement, with the row locks Postgres takes and what READ *)
(* COMMITTED lets each statement see.  MarkSent and MarkFailed lock the    *)
(* delivery and then the request; CancelRequest the request and then the   *)
(* delivery.  internal/adapters/postgres/{store,delivery,request,batch,    *)
(* scheduler}.go.                                                          *)
(*                                                                         *)
(* The module Store takes each of these methods for one step; the property *)
(* AppearsAtomic is what justifies that.                                   *)
(*                                                                         *)
(* All requests here belong to one batch.  Of a lease only its consequence *)
(* is kept: whether the reaper can take a delivery from a live worker.     *)
(***************************************************************************)
EXTENDS Domain

CONSTANTS Deliveries,
          Workers,    \* goroutines that claim and finish deliveries
          Cancels,    \* calls of CancelRequest
          Scheduler,  \* the scheduler's session
          Nobody      \* no session, no delivery

Sessions == Workers \cup Cancels \cup {Scheduler}

ASSUME LedgerAssumption ==
    /\ IsFiniteSet(Deliveries) /\ Nobody \notin Sessions \cup Deliveries
    /\ Workers \cap Cancels = {} /\ Scheduler \notin Workers \cup Cancels

VARIABLES db,       \* the committed version of each row
          cur,      \* the newest version of each row
          owner,    \* the session whose transaction has locked the row
          pc,       \* the statement each session is at
          target,   \* the delivery it works on
          outcome,  \* the status its transaction writes; a cancel's answer
          old,      \* oldStatus of recomputeRequestStatusTx
          fenced    \* leases are long enough: no live worker is reaped

vars == <<db, cur, owner, pc, target, outcome, old, fenced>>

delivery(d) == <<"delivery", d>>
request(d) == <<"request", d>>
batch == <<"batch">>
Rows == {delivery(d) : d \in Deliveries} \cup {request(d) : d \in Deliveries} \cup {batch}

\* After CreateBatch: every request is PENDING and counted so.
Init ==
    /\ \E st \in [Deliveries -> {"SCHEDULED", "PENDING"}] :
          db = [r \in Rows |->
                  CASE r = batch -> [k \in Buckets |-> IF k = "pending_count"
                                                       THEN Cardinality(Deliveries) ELSE 0]
                    [] r[1] = "request" -> "PENDING"
                    [] OTHER -> st[r[2]]]
    /\ cur = db
    /\ owner = [r \in Rows |-> Nobody]
    /\ pc = [s \in Sessions |-> "idle"]
    /\ target = [s \in Sessions |-> Nobody]
    /\ outcome = [s \in Sessions |-> "NONE"]
    /\ old = [s \in Sessions |-> "NONE"]
    /\ fenced \in BOOLEAN

-----------------------------------------------------------------------------
\* What a statement of session s sees of a row.
Visible(s, r) == IF owner[r] = s THEN cur[r] ELSE db[r]

Free(s, r) == owner[r] \in {Nobody, s}

goto(s, step) == pc' = [pc EXCEPT ![s] = step]

lock(s, r) == owner' = [owner EXCEPT ![r] = s] /\ UNCHANGED <<db, cur>>

write(s, r, v) ==
    /\ owner' = [owner EXCEPT ![r] = s]
    /\ cur' = [cur EXCEPT ![r] = v]
    /\ UNCHANGED db

\* A statement outside a transaction commits by itself.
autocommit(r, v) ==
    /\ db' = [db EXCEPT ![r] = v]
    /\ cur' = [cur EXCEPT ![r] = v]
    /\ UNCHANGED owner

Released(s) == [r \in Rows |-> IF owner[r] = s THEN Nobody ELSE owner[r]]

commitTx(s) ==
    /\ db' = [r \in Rows |-> Visible(s, r)]
    /\ owner' = Released(s)
    /\ UNCHANGED cur

\* Mutant: withTx returns the error and leaves the transaction open.
rollbackTxForgotten(s) == UNCHANGED <<db, cur, owner>>

rollbackTx(s) ==
    /\ cur' = [r \in Rows |-> IF owner[r] = s THEN db[r] ELSE cur[r]]
    /\ owner' = Released(s)
    /\ UNCHANGED db

\* The session is done with its delivery.
finish(s, answer) ==
    /\ goto(s, IF s \in Cancels THEN "done" ELSE "idle")
    /\ target' = [target EXCEPT ![s] = IF s \in Cancels THEN @ ELSE Nobody]
    /\ outcome' = [outcome EXCEPT ![s] = IF s \in Cancels THEN answer ELSE "NONE"]
    /\ old' = [old EXCEPT ![s] = "NONE"]
    /\ UNCHANGED fenced

-----------------------------------------------------------------------------
ClaimDelivery(w, d) ==
    /\ pc[w] = "idle"
    /\ Free(w, delivery(d))
    /\ db[delivery(d)] \in {"PENDING", "RETRYING"}
    /\ autocommit(delivery(d), "PROCESSING")
    /\ goto(w, "claimed")
    /\ target' = [target EXCEPT ![w] = d]
    /\ UNCHANGED <<outcome, old, fenced>>

MarkRetrying(w) ==
    /\ pc[w] = "claimed"
    /\ Free(w, delivery(target[w]))
    /\ autocommit(delivery(target[w]), "RETRYING")
    /\ finish(w, "NONE")

\* Mutant: the statement runs outside the transaction.
MarkDeliveryAlone(w) ==
    /\ pc[w] = "claimed"
    /\ Free(w, delivery(target[w]))
    /\ \E st \in {"SENT", "FAILED"} :
          /\ autocommit(delivery(target[w]), st)
          /\ outcome' = [outcome EXCEPT ![w] = st]
    /\ goto(w, "request")
    /\ UNCHANGED <<target, old, fenced>>

\* The first statement of MarkSent and MarkFailed: the row by its key alone.
MarkDelivery(w) ==
    /\ pc[w] = "claimed"
    /\ Free(w, delivery(target[w]))
    /\ \E st \in {"SENT", "FAILED"} :
          /\ write(w, delivery(target[w]), st)
          /\ outcome' = [outcome EXCEPT ![w] = st]
    /\ goto(w, "request")
    /\ UNCHANGED <<target, old, fenced>>

\* CancelRequest: SELECT ... FOR UPDATE of the request.
CancelLock(c, d) ==
    /\ pc[c] = "idle"
    /\ target' = [target EXCEPT ![c] = d]
    /\ outcome' = [outcome EXCEPT ![c] = "CANCELLED"]
    /\ goto(c, "lock")
    /\ UNCHANGED <<db, cur, owner, old, fenced>>

\* Mutant: cancels are serialised on the batch instead of the request.
CancelLockedBatch(c) ==
    /\ pc[c] = "lock"
    /\ Free(c, batch)
    /\ lock(c, batch)
    /\ goto(c, "deliveries")
    /\ UNCHANGED <<target, outcome, old, fenced>>

CancelLocked(c) ==
    /\ pc[c] = "lock"
    /\ Free(c, request(target[c]))
    /\ lock(c, request(target[c]))
    /\ goto(c, "deliveries")
    /\ UNCHANGED <<target, outcome, old, fenced>>

Cancellable(st) == st \in {"SCHEDULED", "PENDING", "RETRYING"}

\* UPDATE ... WHERE status IN (...): the rows are those of the statement's
\* snapshot; a row another transaction has locked is waited for.
CancelDeliveries(c) ==
    LET r == delivery(target[c])
    IN  /\ pc[c] = "deliveries"
        /\ \/ /\ ~Cancellable(db[r])
              /\ rollbackTx(c)
              /\ finish(c, "ErrCancelNotAllowed")
           \/ /\ Cancellable(db[r])
              /\ owner[r] # Nobody
              /\ goto(c, "recheck")
              /\ UNCHANGED <<db, cur, owner, target, outcome, old, fenced>>
           \/ /\ Cancellable(db[r])
              /\ owner[r] = Nobody
              /\ write(c, r, "CANCELLED")
              /\ goto(c, "request")
              /\ UNCHANGED <<target, outcome, old, fenced>>

\* Mutant: the row that was waited for is written without a second look.
CancelRecheckBlind(c) ==
    LET r == delivery(target[c])
    IN  /\ pc[c] = "recheck"
        /\ Free(c, r)
        /\ write(c, r, "CANCELLED")
        /\ goto(c, "request")
        /\ UNCHANGED <<target, outcome, old, fenced>>

\* The row is free again: the condition is evaluated on its newest version.
CancelRecheck(c) ==
    LET r == delivery(target[c])
    IN  /\ pc[c] = "recheck"
        /\ Free(c, r)
        /\ \/ /\ ~Cancellable(db[r])
              /\ rollbackTx(c)
              /\ finish(c, "ErrCancelNotAllowed")
           \/ /\ Cancellable(db[r])
              /\ write(c, r, "CANCELLED")
              /\ goto(c, "request")
              /\ UNCHANGED <<target, outcome, old, fenced>>

-----------------------------------------------------------------------------
\* recomputeRequestStatusTx, first statement.
loadRequest(s) ==
    LET r == request(target[s])
    IN  /\ pc[s] = "request"
        /\ Free(s, r)
        /\ lock(s, r)
        /\ old' = [old EXCEPT ![s] = cur[r]]
        /\ goto(s, "recompute")
        /\ UNCHANGED <<target, outcome, fenced>>

NewStatus(s) == AggregateRequestStatus(<<Visible(s, delivery(target[s]))>>)

\* The statuses are read and the request is written, when it changes.
recompute(s) ==
    /\ pc[s] = "recompute"
    /\ IF NewStatus(s) = old[s]
       THEN goto(s, "commit") /\ UNCHANGED <<db, cur, owner>>
       ELSE goto(s, "batch") /\ write(s, request(target[s]), NewStatus(s))
    /\ UNCHANGED <<target, outcome, old, fenced>>

\* The counters once a request has gone from one status to another.
Adjusted(c, from, to) ==
    IF bucketColumn(from) = bucketColumn(to) THEN c
    ELSE [c EXCEPT ![bucketColumn(from)] = IF @ > 0 THEN @ - 1 ELSE 0,
                   ![bucketColumn(to)] = @ + 1]

\* Mutant: the counters are computed from a plain read of the batch.
adjustBatchCountersPlainRead(s) ==
    /\ pc[s] = "batch"
    /\ write(s, batch, Adjusted(db[batch], old[s], cur[request(target[s])]))
    /\ goto(s, "commit")
    /\ UNCHANGED <<target, outcome, old, fenced>>

\* SET col = col + 1 is evaluated on the newest version once the row is free.
adjustBatchCounters(s) ==
    /\ pc[s] = "batch"
    /\ IF bucketColumn(old[s]) = bucketColumn(cur[request(target[s])])
       THEN UNCHANGED <<db, cur, owner>>
       ELSE /\ Free(s, batch)
            /\ write(s, batch, Adjusted(cur[batch], old[s], cur[request(target[s])]))
    /\ goto(s, "commit")
    /\ UNCHANGED <<target, outcome, old, fenced>>

\* The answer of COMMIT may be lost.
commit(s) ==
    /\ pc[s] = "commit"
    /\ commitTx(s)
    /\ \E answer \in {"ok", "error"} : finish(s, answer)

-----------------------------------------------------------------------------
\* PromoteDue and SweepRetries: locked rows are skipped; the outbox row is
\* inserted between this statement and the commit.
transitionAndEnqueue(d) ==
    /\ pc[Scheduler] = "idle"
    /\ Free(Scheduler, delivery(d))
    /\ db[delivery(d)] \in {"SCHEDULED", "RETRYING"}
    /\ write(Scheduler, delivery(d), "PENDING")
    /\ goto(Scheduler, "commit")
    /\ UNCHANGED <<target, outcome, old, fenced>>

ReapStuck(d) ==
    /\ pc[Scheduler] = "idle"
    /\ Free(Scheduler, delivery(d))
    /\ db[delivery(d)] = "PROCESSING"
    /\ fenced => \A w \in Workers : target[w] # d
    /\ autocommit(delivery(d), "RETRYING")
    /\ UNCHANGED <<pc, target, outcome, old, fenced>>

\* A statement fails, the process dies, or Postgres aborts the transaction to
\* break a deadlock: withTx rolls back.  A worker leaves its delivery to the
\* reaper, a cancel answers with an error.
fail(s) ==
    /\ pc[s] \notin {"idle", "done"}
    /\ rollbackTx(s)
    /\ finish(s, "error")

work(s) ==
    \/ MarkDelivery(s) \/ MarkRetrying(s)
    \/ CancelLocked(s) \/ CancelDeliveries(s) \/ CancelRecheck(s)
    \/ loadRequest(s) \/ recompute(s) \/ adjustBatchCounters(s) \/ commit(s)

Next ==
    \/ \E d \in Deliveries :
          \/ \E w \in Workers : ClaimDelivery(w, d)
          \/ \E c \in Cancels : CancelLock(c, d)
          \/ transitionAndEnqueue(d)
          \/ ReapStuck(d)
    \/ \E s \in Sessions : work(s) \/ fail(s)

Spec == Init /\ [][Next]_vars

-----------------------------------------------------------------------------
InTx(s) == \E r \in Rows : owner[r] = s

\* Rows hold what their columns can hold, a version differs from the committed
\* one only under a lock, and a session that has ended holds no lock.
TypeOK ==
    /\ \A d \in Deliveries : {db[delivery(d)], cur[delivery(d)]} \subseteq DeliveryStatus
    /\ \A d \in Deliveries : {db[request(d)], cur[request(d)]} \subseteq RequestStatus
    /\ {db[batch], cur[batch]} \subseteq [Buckets -> 0..Cardinality(Deliveries)]
    /\ owner \in [Rows -> Sessions \cup {Nobody}]
    /\ \A r \in Rows : owner[r] = Nobody => cur[r] = db[r]
    /\ \A s \in Sessions : pc[s] \in {"idle", "done"} => ~InTx(s)

\* Whatever interleaves, the committed rows change as if each method were one
\* step: a delivery moves alone, or it ends together with its request and the
\* two counters of its batch.  Lost updates of the counters and a recompute
\* from a stale request status are excluded, with or without fenced leases.
AppearsAtomic ==
    [][\/ db' = db
       \/ \E d \in Deliveries, st \in DeliveryStatus :
            \/ /\ ~IsTerminal(st)
               /\ db' = [db EXCEPT ![delivery(d)] = st]
            \/ /\ IsTerminal(st)
               /\ db' = [db EXCEPT
                           ![delivery(d)] = st,
                           ![request(d)] = AggregateRequestStatus(<<st>>),
                           ![batch] = Adjusted(@, db[request(d)],
                                               AggregateRequestStatus(<<st>>))]]_db

\* Each counter of the batch is the number of its requests in that bucket.
CountersAgree ==
    \A k \in Buckets :
        db[batch][k] = Cardinality({d \in Deliveries : bucketColumn(db[request(d)]) = k})

\* The row whose lock the session's next statement needs.
Wants(s) ==
    CASE pc[s] \in {"lock", "request"}     -> request(target[s])
      [] pc[s] \in {"claimed", "recheck"}  -> delivery(target[s])
      [] pc[s] = "batch"                   -> batch
      [] OTHER                             -> <<>>

WaitsFor(s) ==
    IF Wants(s) \in Rows THEN {owner[Wants(s)]} \ {Nobody, s} ELSE {}

LockCycle(S) ==
    /\ S # {}
    /\ \A s \in S : WaitsFor(s) # {} /\ WaitsFor(s) \subseteq S
    /\ \A s \in S : \E t \in S : s \in WaitsFor(t)

\* Opposite lock orders: the worker has the delivery and needs the request, the
\* cancel has the request and needs the delivery.
Crossed(w, c) ==
    /\ target[w] = target[c]
    /\ pc[w] = "request" /\ pc[c] = "recheck"
    /\ fenced => db[delivery(target[w])] = "PROCESSING"

\* MarkSent, MarkFailed and CancelRequest can deadlock, but in one way only: a
\* cancel that found the delivery locked still waits when a worker has marked it.
\* No circle runs over the batch row, over two workers or over two cancels, so one
\* victim of Postgres frees all others; and with fenced leases the cancel has
\* lost by then, for it waits for a delivery that is PROCESSING.
DeadlocksAreCrossed ==
    \A S \in SUBSET Sessions : LockCycle(S) =>
        \A s \in S : \E w \in S \cap Workers, c \in S \cap Cancels :
            s \in {w, c} /\ Crossed(w, c)

\* "It is atomic and races safely against worker claims": a cancel that was
\* answered with success stays true, whatever workers and the scheduler do
\* after it, and one that was refused has cancelled nothing.
CancelDecides ==
    fenced =>
      /\ \A c \in Cancels :
            outcome[c] = "ok" => db[delivery(target[c])] = "CANCELLED"
      /\ \A d \in Deliveries :
            db[delivery(d)] = "CANCELLED" =>
              \E c \in Cancels : target[c] = d /\ outcome[c] \in {"ok", "error"}

\* The rules above AggregateRequestStatus (internal/domain/status.go), read as
\* statements about which statuses occur, for the delivery each request has
\* and up to two more of any status: every mix of terminal statuses, and
\* independent of the order of the cases.
AggregateFollowsRules ==
    \A d \in Deliveries, n \in 0..2 : \A more \in [1..n -> DeliveryStatus] :
        LET result == AggregateRequestStatus(<<db[delivery(d)]>> \o more)
            occur == {db[delivery(d)]} \cup {more[i] : i \in 1..n}
        IN  /\ result = "PENDING" <=> ~(occur \subseteq Terminal)
            /\ result = "SENT" <=> occur = {"SENT"}
            /\ result = "CANCELLED" <=> occur = {"CANCELLED"}
            /\ result = "FAILED" <=> occur \in {{"FAILED"}, {"FAILED", "CANCELLED"}}
            /\ result = "PARTIAL" <=> /\ occur \subseteq Terminal
                                      /\ "SENT" \in occur
                                      /\ occur # {"SENT"}
=============================================================================
