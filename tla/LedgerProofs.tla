----------------------------- MODULE LedgerProofs -----------------------------
(***************************************************************************)
(* Proofs about Ledger for every number of deliveries, workers and calls   *)
(* of CancelRequest.                                                       *)
(***************************************************************************)
EXTENDS Ledger, FiniteSetTheorems, TLAPS

-----------------------------------------------------------------------------
(* The pure functions, for any number of deliveries per request.           *)

\* Count is the length exactly when every delivery has the status, and zero
\* exactly when none has.
LEMMA CountExtremes ==
    ASSUME NEW q \in Seq(DeliveryStatus), NEW s
    PROVE  /\ Count(q, s) \in Nat
           /\ Count(q, s) = Len(q) <=> \A i \in DOMAIN q : q[i] = s
           /\ Count(q, s) = 0 <=> \A i \in DOMAIN q : q[i] # s
<1> DEFINE I == {i \in DOMAIN q : q[i] = s}
<1>1. Len(q) \in Nat /\ DOMAIN q = 1..Len(q)
    OBVIOUS
<1>2. IsFiniteSet(1..Len(q)) /\ Cardinality(1..Len(q)) = Len(q)
    BY <1>1, FS_Interval
<1>3. I \in SUBSET (1..Len(q))
    BY <1>1
<1>4. IsFiniteSet(I) /\ Cardinality(I) \in Nat
    BY <1>2, <1>3, FS_Subset, FS_CardinalityType
<1>5. Cardinality(I) = Len(q) <=> I = 1..Len(q)
    BY <1>2, <1>3, FS_Subset
<1>6. Cardinality(I) = 0 <=> I = {}
    BY <1>4, FS_EmptySet
<1>7. Count(q, s) = Cardinality(I)
    BY DEF Count
<1> QED
    BY <1>1, <1>4, <1>5, <1>6, <1>7

\* What AggregateRequestStatus computes for a request with any number of
\* deliveries, in terms of the statuses that occur.
LEMMA AggregateRules ==
    ASSUME NEW q \in Seq(DeliveryStatus), q # << >>, NEW occur,
           occur = {q[i] : i \in DOMAIN q}
    PROVE  LET result == AggregateRequestStatus(q)
           IN  /\ result = "PENDING" <=> ~(occur \subseteq Terminal)
               /\ result = "SENT" <=> occur = {"SENT"}
               /\ result = "CANCELLED" <=> occur = {"CANCELLED"}
               /\ result = "FAILED" <=> occur \in {{"FAILED"}, {"FAILED", "CANCELLED"}}
               /\ result = "PARTIAL" <=> /\ occur \subseteq Terminal
                                         /\ "SENT" \in occur
                                         /\ occur # {"SENT"}
<1>1. Len(q) \in Nat /\ Len(q) > 0 /\ 1 \in DOMAIN q
    OBVIOUS
<1>2. occur # {} /\ occur \subseteq DeliveryStatus
    BY <1>1
<1>3. \A s \in Terminal :
          /\ Count(q, s) \in Nat
          /\ Count(q, s) = Len(q) <=> occur = {s}
          /\ Count(q, s) = 0 <=> s \notin occur
  <2> TAKE s \in Terminal
  <2>1. /\ (\A i \in DOMAIN q : q[i] = s) <=> occur = {s}
        /\ (\A i \in DOMAIN q : q[i] # s) <=> s \notin occur
      BY <1>1
  <2> QED
      BY <2>1, CountExtremes
<1>4. (\E i \in DOMAIN q : ~IsTerminal(q[i])) <=> ~(occur \subseteq Terminal)
    BY DEF IsTerminal
<1> DEFINE result == AggregateRequestStatus(q)
<1>5. CASE ~(occur \subseteq Terminal)
  <2>1. result = "PENDING"
      BY <1>4, <1>5 DEF AggregateRequestStatus
  <2> QED
      BY <1>5, <2>1 DEF Terminal
<1>6. CASE occur \subseteq Terminal
  <2>1. result = IF occur = {"SENT"} THEN "SENT"
                 ELSE IF occur = {"CANCELLED"} THEN "CANCELLED"
                 ELSE IF "SENT" \notin occur /\ "FAILED" \in occur THEN "FAILED"
                 ELSE "PARTIAL"
    <3>1. /\ Count(q, "SENT") \in Nat /\ Count(q, "FAILED") \in Nat
          /\ Count(q, "SENT") = Len(q) <=> occur = {"SENT"}
          /\ Count(q, "CANCELLED") = Len(q) <=> occur = {"CANCELLED"}
          /\ Count(q, "SENT") = 0 <=> "SENT" \notin occur
          /\ Count(q, "FAILED") = 0 <=> "FAILED" \notin occur
        BY <1>3 DEF Terminal
    <3>2. ~(q = << >> \/ \E i \in DOMAIN q : ~IsTerminal(q[i]))
        BY <1>4, <1>6
    <3>3. result = IF Count(q, "SENT") = Len(q) THEN "SENT"
                   ELSE IF Count(q, "CANCELLED") = Len(q) THEN "CANCELLED"
                   ELSE IF Count(q, "SENT") = 0 /\ Count(q, "FAILED") > 0 THEN "FAILED"
                   ELSE "PARTIAL"
        BY <3>2, Zenon DEF AggregateRequestStatus
    <3>4. Count(q, "FAILED") > 0 <=> "FAILED" \in occur
        BY <3>1
    <3> HIDE DEF result
    <3> QED
        BY <3>1, <3>3, <3>4
  <2>2. occur \subseteq {"SENT", "FAILED", "CANCELLED"}
      BY <1>6 DEF Terminal
  <2>3. /\ "SENT" \notin occur /\ "FAILED" \in occur
           <=> occur \in {{"FAILED"}, {"FAILED", "CANCELLED"}}
        /\ "SENT" \notin occur /\ "FAILED" \notin occur => occur = {"CANCELLED"}
      BY <1>2, <2>2
  <2> HIDE DEF result
  <2>4. CASE occur = {"SENT"}
    <3>1. result = "SENT" /\ "FAILED" \notin occur /\ occur # {"CANCELLED"}
        BY <2>1, <2>4
    <3> QED
        BY <1>6, <2>3, <2>4, <3>1 DEF result
  <2>5. CASE occur = {"CANCELLED"}
    <3>1. result = "CANCELLED" /\ "SENT" \notin occur /\ "FAILED" \notin occur
        BY <2>1, <2>5
    <3> QED
        BY <1>6, <2>3, <2>5, <3>1 DEF result
  <2>6. CASE "SENT" \notin occur /\ "FAILED" \in occur
    <3>1. result = "FAILED" /\ occur # {"SENT"} /\ occur # {"CANCELLED"}
        BY <2>1, <2>6
    <3> QED
        BY <1>6, <2>3, <2>6, <3>1 DEF result
  <2>7. CASE "SENT" \in occur /\ occur # {"SENT"}
    <3>1. result = "PARTIAL" /\ occur # {"CANCELLED"}
        BY <2>1, <2>7
    <3> QED
        BY <1>6, <2>3, <2>7, <3>1 DEF result
  <2> QED
      BY <2>3, <2>4, <2>5, <2>6, <2>7
<1> QED
    BY <1>5, <1>6

\* A request with one delivery.
LEMMA AggregateOfOne ==
    \A st \in DeliveryStatus :
        AggregateRequestStatus(<<st>>) = IF IsTerminal(st) THEN st ELSE "PENDING"
<1> TAKE st \in DeliveryStatus
<1> DEFINE q == <<st>>
<1>1. q \in Seq(DeliveryStatus) /\ q # << >> /\ {st} = {q[i] : i \in DOMAIN q}
    OBVIOUS
<1> HIDE DEF q
<1>2. /\ AggregateRequestStatus(q) = "PENDING" <=> ~({st} \subseteq Terminal)
      /\ AggregateRequestStatus(q) = "SENT" <=> {st} = {"SENT"}
      /\ AggregateRequestStatus(q) = "CANCELLED" <=> {st} = {"CANCELLED"}
      /\ AggregateRequestStatus(q) = "FAILED"
         <=> {st} \in {{"FAILED"}, {"FAILED", "CANCELLED"}}
    BY <1>1, AggregateRules
<1>3. AggregateRequestStatus(q) = IF IsTerminal(st) THEN st ELSE "PENDING"
    BY <1>2 DEF IsTerminal, Terminal, DeliveryStatus
<1> QED
    BY <1>3 DEF q

\* Every request status is counted in one of the four counter columns.
LEMMA BucketType == \A s : bucketColumn(s) \in Buckets
    BY DEF bucketColumn, Buckets

\* The requests of f that are counted in k.
Bucket(f, k) == {e \in Deliveries : bucketColumn(f[e]) = k}

\* Adjusted turns the counts before a request changes into the counts after
\* it; the GREATEST(x, 0) never has to act.
LEMMA AdjustedCounts ==
    ASSUME NEW f, NEW g, NEW d \in Deliveries,
           \A e \in Deliveries \ {d} : g[e] = f[e],
           NEW c \in [Buckets -> Nat],
           \A k \in Buckets : c[k] = Cardinality(Bucket(f, k))
    PROVE  /\ Adjusted(c, f[d], g[d]) \in [Buckets -> Nat]
           /\ \A k \in Buckets : Adjusted(c, f[d], g[d])[k] = Cardinality(Bucket(g, k))
<1> DEFINE x == bucketColumn(f[d])
           y == bucketColumn(g[d])
<1>1. x \in Buckets /\ y \in Buckets
    BY BucketType
<1>2. CASE x = y
  <2>1. \A k \in Buckets : Bucket(g, k) = Bucket(f, k)
      BY <1>2 DEF Bucket
  <2>2. Adjusted(c, f[d], g[d]) = c
      BY <1>2 DEF Adjusted
  <2> QED
      BY <2>1, <2>2
<1>3. CASE x # y
  <2>1. Adjusted(c, f[d], g[d]) =
            [c EXCEPT ![x] = IF c[x] > 0 THEN c[x] - 1 ELSE 0, ![y] = c[y] + 1]
      BY <1>1, <1>3 DEF Adjusted
  <2>2. d \in Bucket(f, x) /\ d \notin Bucket(f, y)
      BY <1>3 DEF Bucket
  <2>3. Bucket(g, x) = Bucket(f, x) \ {d} /\ Bucket(g, y) = Bucket(f, y) \cup {d}
      BY <1>3 DEF Bucket
  <2>4. \A k \in Buckets \ {x, y} : Bucket(g, k) = Bucket(f, k)
      BY DEF Bucket
  <2> HIDE DEF x, y
  <2>5. \A k \in Buckets : /\ Bucket(f, k) \in SUBSET Deliveries
                           /\ IsFiniteSet(Bucket(f, k))
    <3> TAKE k \in Buckets
    <3>1. Bucket(f, k) \in SUBSET Deliveries
        BY DEF Bucket
    <3> QED
        BY <3>1, LedgerAssumption, FS_Subset
  <2>6. /\ Cardinality(Bucket(f, x) \ {d}) = c[x] - 1
        /\ Cardinality(Bucket(f, y) \cup {d}) = c[y] + 1
    <3>1. Cardinality(Bucket(f, x) \ {d}) = Cardinality(Bucket(f, x)) - 1
        BY <1>1, <2>2, <2>5, FS_RemoveElement
    <3>2. Cardinality(Bucket(f, y) \cup {d}) = Cardinality(Bucket(f, y)) + 1
        BY <1>1, <2>2, <2>5, FS_AddElement
    <3> QED
        BY <1>1, <3>1, <3>2
  <2>7. c[x] # 0 /\ c[x] \in Nat /\ c[y] \in Nat
      BY <1>1, <2>2, <2>5, FS_EmptySet
  <2>8. [c EXCEPT ![x] = IF c[x] > 0 THEN c[x] - 1 ELSE 0, ![y] = c[y] + 1]
        \in [Buckets -> Nat]
      BY <1>1, <2>7
  <2>9. \A k \in Buckets : Adjusted(c, f[d], g[d])[k] =
            IF k = x THEN c[x] - 1 ELSE IF k = y THEN c[y] + 1 ELSE c[k]
      BY <1>1, <1>3, <2>1, <2>7
  <2> QED
      BY <2>1, <2>3, <2>4, <2>6, <2>8, <2>9
<1> QED
    BY <1>2, <1>3

-----------------------------------------------------------------------------
(* Rows and sessions.                                                      *)

\* The rows are what they seem: different tables, one row per key.
LEMMA RowFacts ==
    /\ \A d \in Deliveries : delivery(d) \in Rows /\ request(d) \in Rows
    /\ batch \in Rows
    /\ \A d, e : delivery(d) = delivery(e) => d = e
    /\ \A d, e : request(d) = request(e) => d = e
    /\ \A d, e : delivery(d) # request(e)
    /\ \A d : delivery(d) # batch /\ request(d) # batch
    /\ \A r \in Rows : \/ r = batch
                       \/ \E d \in Deliveries : r = delivery(d) \/ r = request(d)
<1>1. \A d : delivery(d) # batch /\ request(d) # batch
  <2> TAKE d
  <2>1. Len(delivery(d)) = 2 /\ Len(request(d)) = 2 /\ Len(batch) = 1
      BY DEF delivery, request, batch
  <2> QED
      BY <2>1
<1> QED
    BY <1>1 DEF delivery, request, Rows

\* A worker, a cancel and the scheduler are different sessions.
LEMMA SessionFacts ==
    /\ \A s \in Sessions : s # Nobody
    /\ Nobody \notin Deliveries
    /\ Workers \cap Cancels = {} /\ Scheduler \notin Workers \cup Cancels
    /\ Workers \subseteq Sessions /\ Cancels \subseteq Sessions /\ Scheduler \in Sessions
    BY LedgerAssumption DEF Sessions

-----------------------------------------------------------------------------
(* The inductive invariant: which rows each session has locked, and what   *)
(* the versions it has not committed yet contain.                          *)

Clients == Workers \cup Cancels

WorkerSteps == {"idle", "claimed", "request", "recompute", "batch", "commit"}

CancelSteps == {"idle", "lock", "deliveries", "recheck", "request", "recompute",
                "batch", "commit", "done"}

Answers == {"ok", "error", "ErrCancelNotAllowed"}

\* A row nobody has locked has no version but the committed one.
Clean == \A r \in Rows : owner[r] = Nobody => cur[r] = db[r]

RowShape ==
    /\ db = [r \in Rows |-> db[r]]
    /\ cur = [r \in Rows |-> cur[r]]
    /\ owner \in [Rows -> Sessions \cup {Nobody}]
    /\ Clean

LocalShape ==
    /\ pc \in [Sessions -> WorkerSteps \cup CancelSteps]
    /\ target \in [Sessions -> Deliveries \cup {Nobody}]
    /\ outcome \in [Sessions -> Terminal \cup Answers \cup {"NONE"}]
    /\ old \in [Sessions -> RequestStatus \cup {"NONE"}]

\* The committed values.
Values ==
    /\ \A d \in Deliveries : db[delivery(d)] \in DeliveryStatus
    /\ \A d \in Deliveries : db[request(d)] \in RequestStatus

\* Where a session can be, and that it has a delivery while it is anywhere.
Place(s) ==
    /\ s \in Workers => pc[s] \in WorkerSteps
    /\ s \in Cancels => pc[s] \in CancelSteps
    /\ pc[s] = "idle" <=> target[s] = Nobody
    /\ s \in Cancels => (pc[s] = "done" <=> outcome[s] \in Answers)

\* The session has written its delivery and not yet committed.
Writing(s) == pc[s] \in {"request", "recompute", "batch", "commit"}

\* The session has locked its request: a cancel first, a worker last.
HasRequest(s) ==
    \/ pc[s] \in {"recompute", "batch", "commit"}
    \/ s \in Cancels /\ pc[s] \in {"deliveries", "recheck", "request"}

Locks(s) ==
    /\ \A d \in Deliveries : owner[delivery(d)] = s <=> target[s] = d /\ Writing(s)
    /\ \A d \in Deliveries : owner[request(d)] = s <=> target[s] = d /\ HasRequest(s)
    /\ owner[batch] = s => pc[s] = "commit"

\* What the session has written.  The old status it remembers is still the
\* committed one, and at its commit the counters are those that the committed
\* ones become when its request changes.
Work(s) ==
    /\ Writing(s) =>
          /\ cur[delivery(target[s])] = outcome[s]
          /\ s \in Workers => outcome[s] \in {"SENT", "FAILED"}
          /\ s \in Cancels => /\ outcome[s] = "CANCELLED"
                              /\ Cancellable(db[delivery(target[s])])
    /\ s \in Cancels /\ pc[s] \in {"lock", "deliveries", "recheck"}
          => outcome[s] = "CANCELLED"
    /\ HasRequest(s) =>
          cur[request(target[s])] = IF pc[s] \in {"batch", "commit"}
                                    THEN outcome[s] ELSE db[request(target[s])]
    /\ pc[s] \in {"recompute", "batch"} => old[s] = db[request(target[s])]
    /\ pc[s] = "commit" =>
          \/ /\ owner[batch] = s
             /\ cur[batch] = Adjusted(db[batch], db[request(target[s])], outcome[s])
          \/ /\ owner[batch] # s
             /\ bucketColumn(db[request(target[s])]) = bucketColumn(outcome[s])

SessionInv(s) == Place(s) /\ Locks(s) /\ Work(s)

\* The scheduler has locked at most one row, a delivery it makes PENDING.
SchedulerInv ==
    /\ pc[Scheduler] \in {"idle", "commit"}
    /\ owner[batch] # Scheduler
    /\ \A d \in Deliveries : owner[request(d)] # Scheduler
    /\ \A d \in Deliveries : owner[delivery(d)] = Scheduler =>
          /\ pc[Scheduler] = "commit"
          /\ cur[delivery(d)] = "PENDING"
          /\ db[delivery(d)] \in {"SCHEDULED", "RETRYING"}
          /\ \A e \in Deliveries : owner[delivery(e)] = Scheduler => e = d

\* With fenced leases: a worker's delivery is PROCESSING in every snapshot and
\* no other worker's.
Claims ==
    /\ \A w \in Workers : target[w] # Nobody => db[delivery(target[w])] = "PROCESSING"
    /\ \A v, w \in Workers : v # w /\ target[v] # Nobody => target[v] # target[w]

\* The two halves of CancelDecides.
Decided ==
    /\ \A c \in Cancels : outcome[c] = "ok" => db[delivery(target[c])] = "CANCELLED"
    /\ \A d \in Deliveries :
          db[delivery(d)] = "CANCELLED" =>
            \E c \in Cancels : target[c] = d /\ outcome[c] \in {"ok", "error"}

LockInv ==
    /\ RowShape
    /\ LocalShape
    /\ Values
    /\ \A s \in Clients : SessionInv(s)
    /\ SchedulerInv

FenceInv == fenced => Claims /\ Decided

-----------------------------------------------------------------------------
(* A step of session s touches no row another session has locked.          *)

RowsFrame(s) ==
    /\ \A r \in Rows : owner[r] \notin {Nobody, s} =>
          owner'[r] = owner[r] /\ cur'[r] = cur[r] /\ db'[r] = db[r]
    /\ \A r \in Rows : owner[r] \in {Nobody, s} => owner'[r] \in {Nobody, s}
    /\ RowShape'

LocalsFrame(s) ==
    \A u \in Sessions \ {s} :
        pc'[u] = pc[u] /\ target'[u] = target[u] /\ outcome'[u] = outcome[u] /\ old'[u] = old[u]

\* A locking read takes a free row.
LEMMA LockFrame ==
    ASSUME RowShape, NEW s \in Sessions, NEW r \in Rows, Free(s, r), lock(s, r)
    PROVE  /\ RowsFrame(s) /\ db' = db /\ cur' = cur /\ owner'[r] = s
           /\ \A q \in Rows \ {r} : owner'[q] = owner[q]
    BY SessionFacts DEF RowShape, RowsFrame, Clean, Free, lock

\* An UPDATE in a transaction takes a free row and makes a version of it.
LEMMA WriteFrame ==
    ASSUME RowShape, NEW s \in Sessions, NEW r \in Rows, Free(s, r), NEW v, write(s, r, v)
    PROVE  /\ RowsFrame(s) /\ db' = db /\ owner'[r] = s /\ cur'[r] = v
           /\ \A q \in Rows \ {r} : owner'[q] = owner[q] /\ cur'[q] = cur[q]
<1>1. /\ db' = db /\ cur' = [cur EXCEPT ![r] = v] /\ owner' = [owner EXCEPT ![r] = s]
    BY DEF write
<1>2. /\ owner'[r] = s /\ cur'[r] = v
      /\ \A q \in Rows \ {r} : owner'[q] = owner[q] /\ cur'[q] = cur[q]
    BY <1>1 DEF RowShape
<1>3. cur' = [q \in Rows |-> cur'[q]] /\ owner' \in [Rows -> Sessions \cup {Nobody}]
    BY <1>1 DEF RowShape
<1> QED
    BY <1>1, <1>2, <1>3, SessionFacts DEF RowShape, RowsFrame, Clean, Free

\* An UPDATE outside a transaction changes the row for everybody.
LEMMA AutocommitFrame ==
    ASSUME RowShape, NEW s \in Sessions, NEW r \in Rows, Free(s, r), NEW v, autocommit(r, v)
    PROVE  /\ RowsFrame(s) /\ owner' = owner /\ db'[r] = v /\ cur'[r] = v
           /\ \A q \in Rows \ {r} : db'[q] = db[q] /\ cur'[q] = cur[q]
<1>1. /\ owner' = owner /\ cur' = [cur EXCEPT ![r] = v] /\ db' = [db EXCEPT ![r] = v]
    BY DEF autocommit
<1>2. /\ db'[r] = v /\ cur'[r] = v
      /\ \A q \in Rows \ {r} : db'[q] = db[q] /\ cur'[q] = cur[q]
    BY <1>1 DEF RowShape
<1>3. cur' = [q \in Rows |-> cur'[q]] /\ db' = [q \in Rows |-> db'[q]]
    BY <1>1 DEF RowShape
<1> QED
    BY <1>1, <1>2, <1>3, SessionFacts DEF RowShape, RowsFrame, Clean, Free

\* A COMMIT publishes what the session has locked and frees it.
LEMMA CommitFrame ==
    ASSUME RowShape, NEW s \in Sessions, commitTx(s)
    PROVE  /\ RowsFrame(s) /\ cur' = cur
           /\ \A r \in Rows : owner'[r] # s
           /\ \A r \in Rows : db'[r] = IF owner[r] = s THEN cur[r] ELSE db[r]
<1>1. /\ cur' = cur
      /\ db' = [r \in Rows |-> IF owner[r] = s THEN cur[r] ELSE db[r]]
      /\ owner' = [r \in Rows |-> IF owner[r] = s THEN Nobody ELSE owner[r]]
    BY DEF commitTx, Visible, Released
<1>2. db' = [r \in Rows |-> db'[r]] /\ owner' \in [Rows -> Sessions \cup {Nobody}]
    BY <1>1 DEF RowShape
<1> QED
    BY <1>1, <1>2, SessionFacts DEF RowShape, RowsFrame, Clean

\* A ROLLBACK forgets what the session has written and frees it.
LEMMA RollbackFrame ==
    ASSUME RowShape, NEW s \in Sessions, rollbackTx(s)
    PROVE  /\ RowsFrame(s) /\ db' = db
           /\ \A r \in Rows : owner'[r] # s
<1>1. /\ db' = db
      /\ cur' = [r \in Rows |-> IF owner[r] = s THEN db[r] ELSE cur[r]]
      /\ owner' = [r \in Rows |-> IF owner[r] = s THEN Nobody ELSE owner[r]]
    BY DEF rollbackTx, Released
<1>2. cur' = [r \in Rows |-> cur'[r]] /\ owner' \in [Rows -> Sessions \cup {Nobody}]
    BY <1>1 DEF RowShape
<1> QED
    BY <1>1, <1>2, SessionFacts DEF RowShape, RowsFrame, Clean

\* A step without a statement.
LEMMA NoRowFrame ==
    ASSUME RowShape, NEW s \in Sessions, UNCHANGED <<db, cur, owner>>
    PROVE  RowsFrame(s)
    BY DEF RowShape, RowsFrame, Clean

\* The sessions that do not take the step keep what they rely on.
LEMMA BystanderInv ==
    ASSUME LockInv, NEW s \in Sessions, RowsFrame(s), LocalsFrame(s),
           NEW u \in Clients \ {s}
    PROVE  SessionInv(u)'
<1>1. u \in Sessions /\ u # Nobody /\ SessionInv(u)
    BY SessionFacts DEF LockInv, Clients
<1>2. /\ pc'[u] = pc[u] /\ target'[u] = target[u] /\ outcome'[u] = outcome[u]
      /\ old'[u] = old[u]
    BY <1>1 DEF LocalsFrame
<1>3. \A r \in Rows : /\ owner'[r] = u <=> owner[r] = u
                      /\ owner[r] = u => cur'[r] = cur[r] /\ db'[r] = db[r]
    BY <1>1 DEF RowsFrame
<1>4. Place(u)' /\ (Writing(u)' <=> Writing(u)) /\ (HasRequest(u)' <=> HasRequest(u))
    BY <1>1, <1>2 DEF SessionInv, Place, Writing, HasRequest
<1>5. Locks(u)'
    BY <1>1, <1>2, <1>3, <1>4, RowFacts DEF SessionInv, Locks
<1>6. Writing(u) \/ HasRequest(u) => target[u] \in Deliveries
    BY <1>1, SessionFacts DEF SessionInv, Place, Writing, HasRequest, LockInv, LocalShape
<1>7. /\ Writing(u) => /\ cur'[delivery(target[u])] = cur[delivery(target[u])]
                       /\ db'[delivery(target[u])] = db[delivery(target[u])]
      /\ HasRequest(u) => /\ cur'[request(target[u])] = cur[request(target[u])]
                          /\ db'[request(target[u])] = db[request(target[u])]
      /\ owner[batch] = u => cur'[batch] = cur[batch] /\ db'[batch] = db[batch]
      /\ owner'[batch] = u <=> owner[batch] = u
    BY <1>1, <1>3, <1>6, RowFacts DEF SessionInv, Locks
<1>8. pc[u] \in {"recompute", "batch", "commit"} => HasRequest(u)
    BY DEF HasRequest
<1>9. Work(u)'
    BY <1>1, <1>2, <1>4, <1>7, <1>8 DEF SessionInv, Work, Cancellable
<1> QED
    BY <1>4, <1>5, <1>9 DEF SessionInv

\* So does the scheduler.
LEMMA SchedulerBystander ==
    ASSUME LockInv, NEW s \in Sessions \ {Scheduler}, RowsFrame(s), LocalsFrame(s)
    PROVE  SchedulerInv'
<1>1. Scheduler # Nobody /\ Scheduler \in Sessions
    BY SessionFacts
<1>2. \A r \in Rows : /\ owner'[r] = Scheduler <=> owner[r] = Scheduler
                      /\ owner[r] = Scheduler => cur'[r] = cur[r] /\ db'[r] = db[r]
    BY <1>1 DEF RowsFrame
<1> QED
    BY <1>1, <1>2, RowFacts DEF LockInv, SchedulerInv, LocalsFrame

-----------------------------------------------------------------------------
(* What each statement does for the session that runs it.                  *)

\* The end of a transaction: the session has let go of everything.
LEMMA Finished ==
    ASSUME LocalShape, NEW s \in Sessions, NEW answer \in Answers \cup {"NONE"},
           finish(s, answer)
    PROVE  /\ LocalsFrame(s) /\ LocalShape'
           /\ pc'[s] = IF s \in Cancels THEN "done" ELSE "idle"
           /\ target'[s] = IF s \in Cancels THEN target[s] ELSE Nobody
           /\ outcome'[s] = IF s \in Cancels THEN answer ELSE "NONE"
           /\ fenced' = fenced
<1>1. /\ pc' = [pc EXCEPT ![s] = IF s \in Cancels THEN "done" ELSE "idle"]
      /\ target' = [target EXCEPT ![s] = IF s \in Cancels THEN target[s] ELSE Nobody]
      /\ outcome' = [outcome EXCEPT ![s] = IF s \in Cancels THEN answer ELSE "NONE"]
      /\ old' = [old EXCEPT ![s] = "NONE"]
      /\ fenced' = fenced
    BY DEF finish, goto, LocalShape
<1> QED
    BY <1>1 DEF LocalsFrame, LocalShape, WorkerSteps, CancelSteps

\* A client that has finished and owns nothing.
LEMMA Gone ==
    ASSUME LockInv, NEW s \in Clients, pc[s] # "idle",
           NEW answer \in Answers \cup {"NONE"}, s \in Cancels => answer \in Answers,
           finish(s, answer), \A r \in Rows : owner'[r] # s
    PROVE  SessionInv(s)'
<1>1. s \in Sessions /\ LocalShape
    BY SessionFacts DEF Clients, LockInv
<1>2. /\ pc'[s] = IF s \in Cancels THEN "done" ELSE "idle"
      /\ target'[s] = IF s \in Cancels THEN target[s] ELSE Nobody
      /\ outcome'[s] = IF s \in Cancels THEN answer ELSE "NONE"
    BY <1>1, Finished
<1>3. s \in Workers \/ s \in Cancels
    BY DEF Clients
<1>4. ~(s \in Workers /\ s \in Cancels)
    BY SessionFacts
<1>5. target[s] # Nobody
    BY DEF LockInv, SessionInv, Place
<1>6. Place(s)'
    BY <1>2, <1>3, <1>4, <1>5 DEF Place, WorkerSteps, CancelSteps
<1>7. ~Writing(s)' /\ ~HasRequest(s)'
    BY <1>2 DEF Writing, HasRequest
<1>8. Locks(s)'
    BY <1>7, RowFacts DEF Locks
<1>9. Work(s)'
    BY <1>2, <1>7 DEF Work
<1> QED
    BY <1>6, <1>8, <1>9 DEF SessionInv

\* A client's step keeps the invariant once it does so for the client itself.
LEMMA ClientStep ==
    ASSUME LockInv, NEW s \in Clients, RowsFrame(s), LocalsFrame(s), LocalShape', Values',
           SessionInv(s)'
    PROVE  LockInv'
<1>1. s \in Sessions \ {Scheduler}
    BY SessionFacts DEF Clients
<1>2. \A u \in Clients : SessionInv(u)'
    BY <1>1, BystanderInv
<1>3. SchedulerInv'
    BY <1>1, SchedulerBystander
<1> QED
    BY <1>2, <1>3 DEF LockInv, RowsFrame

\* The session goes from one step to the next with the same delivery.
LEMMA Goes ==
    ASSUME LocalShape, NEW s \in Sessions, NEW step \in WorkerSteps \cup CancelSteps,
           goto(s, step), UNCHANGED <<target, outcome, old>>
    PROVE  LocalsFrame(s) /\ LocalShape' /\ pc'[s] = step
    BY DEF goto, LocalsFrame, LocalShape

\* What is known of a client that is not idle.
LEMMA ClientFacts ==
    ASSUME LockInv, NEW s \in Clients, pc[s] # "idle"
    PROVE  /\ s \in Sessions \ {Scheduler} /\ target[s] \in Deliveries
           /\ delivery(target[s]) \in Rows /\ request(target[s]) \in Rows
           /\ s \in Workers <=> s \notin Cancels
           /\ SessionInv(s)
<1>1. target[s] # Nobody /\ SessionInv(s)
    BY DEF LockInv, SessionInv, Place
<1>2. s \in Sessions \ {Scheduler} /\ (s \in Workers <=> s \notin Cancels)
    BY SessionFacts DEF Clients
<1> QED
    BY <1>1, <1>2, RowFacts DEF LockInv, LocalShape

\* Committed values stay while nothing is committed.
LEMMA ValuesKept == ASSUME LockInv, db' = db PROVE Values'
    BY DEF LockInv, Values

\* ClaimDelivery: the worker has its delivery and no lock.
LEMMA ClaimInv ==
    ASSUME LockInv, NEW w \in Workers, NEW d \in Deliveries, ClaimDelivery(w, d)
    PROVE  LockInv'
<1>1. w \in Clients /\ w \in Sessions /\ w \notin Cancels /\ delivery(d) \in Rows
    BY SessionFacts, RowFacts DEF Clients
<1>2. /\ RowsFrame(w) /\ owner' = owner /\ db'[delivery(d)] = "PROCESSING"
      /\ \A q \in Rows \ {delivery(d)} : db'[q] = db[q]
    BY <1>1, AutocommitFrame DEF LockInv, ClaimDelivery
<1>3. /\ LocalsFrame(w) /\ LocalShape' /\ pc'[w] = "claimed" /\ target'[w] = d
    BY <1>1 DEF ClaimDelivery, goto, LockInv, LocalShape, LocalsFrame, WorkerSteps
<1>4. Values'
    BY <1>2, RowFacts DEF LockInv, Values, DeliveryStatus
<1>5. SessionInv(w)'
  <2>1. Place(w)'
      BY <1>1, <1>3, SessionFacts DEF Place, WorkerSteps
  <2>2. ~Writing(w)' /\ ~HasRequest(w)' /\ ~Writing(w) /\ ~HasRequest(w)
      BY <1>1, <1>3 DEF Writing, HasRequest, ClaimDelivery
  <2>3. Locks(w)'
      BY <1>1, <1>2, <2>2 DEF Locks, LockInv, SessionInv, ClaimDelivery
  <2>4. Work(w)'
      BY <1>1, <1>3, <2>2 DEF Work
  <2> QED
      BY <2>1, <2>3, <2>4 DEF SessionInv
<1> QED
    BY <1>1, <1>2, <1>3, <1>4, <1>5, ClientStep

\* MarkRetrying: one statement, and the worker is done.
LEMMA MarkRetryingInv ==
    ASSUME LockInv, NEW w \in Clients, MarkRetrying(w)
    PROVE  LockInv'
<1>1. /\ pc[w] = "claimed" /\ w \in Sessions /\ delivery(target[w]) \in Rows
      /\ SessionInv(w) /\ w \notin Cancels
  <2>1. w \in Cancels => pc[w] \in CancelSteps
      BY DEF LockInv, SessionInv, Place
  <2> QED
      BY <2>1, ClientFacts DEF MarkRetrying, CancelSteps
<1>2. /\ RowsFrame(w) /\ owner' = owner /\ db'[delivery(target[w])] = "RETRYING"
      /\ \A q \in Rows \ {delivery(target[w])} : db'[q] = db[q]
    BY <1>1, AutocommitFrame DEF LockInv, MarkRetrying
<1>3. finish(w, "NONE") /\ LocalsFrame(w) /\ LocalShape'
    BY <1>1, Finished DEF MarkRetrying, LockInv
<1>4. Values'
    BY <1>2, RowFacts DEF LockInv, Values, DeliveryStatus
<1>5. \A r \in Rows : owner'[r] # w
    BY <1>1, <1>2, RowFacts DEF SessionInv, Locks, Writing, HasRequest
<1> QED
    BY <1>1, <1>2, <1>3, <1>4, <1>5, Gone, ClientStep

\* MarkDelivery: the worker has a version of its delivery, locked.
LEMMA MarkDeliveryInv ==
    ASSUME LockInv, NEW w \in Clients, MarkDelivery(w)
    PROVE  LockInv'
<1> DEFINE d == target[w]
<1>1. /\ pc[w] = "claimed" /\ w \in Sessions /\ delivery(d) \in Rows /\ d \in Deliveries
      /\ SessionInv(w) /\ w \notin Cancels /\ w \in Workers
  <2>1. w \in Cancels => pc[w] \in CancelSteps
      BY DEF LockInv, SessionInv, Place
  <2> QED
      BY <2>1, ClientFacts DEF MarkDelivery, CancelSteps
<1>2. PICK st \in {"SENT", "FAILED"} :
          write(w, delivery(d), st) /\ outcome' = [outcome EXCEPT ![w] = st]
    BY DEF MarkDelivery
<1>3. /\ RowsFrame(w) /\ db' = db /\ owner'[delivery(d)] = w /\ cur'[delivery(d)] = st
      /\ \A q \in Rows \ {delivery(d)} : owner'[q] = owner[q]
    BY <1>1, <1>2, WriteFrame DEF LockInv, MarkDelivery
<1>4. /\ LocalsFrame(w) /\ LocalShape'
      /\ pc'[w] = "request" /\ target'[w] = d /\ outcome'[w] = st
    BY <1>1, <1>2 DEF MarkDelivery, goto, LockInv, LocalShape, LocalsFrame, WorkerSteps, Terminal
<1>5. SessionInv(w)'
  <2>1. Place(w)'
      BY <1>1, <1>4, SessionFacts DEF Place, WorkerSteps
  <2>2. Writing(w)' /\ ~HasRequest(w)' /\ ~Writing(w) /\ ~HasRequest(w)
      BY <1>1, <1>4 DEF Writing, HasRequest
  <2>3. Locks(w)'
      BY <1>1, <1>3, <1>4, <2>2, RowFacts DEF Locks, SessionInv
  <2>4. Work(w)'
      BY <1>1, <1>3, <1>4, <2>2 DEF Work
  <2> QED
      BY <2>1, <2>3, <2>4 DEF SessionInv
<1> QED
    BY <1>3, <1>4, <1>5, ValuesKept, ClientStep

\* CancelLock: the cancel has its delivery and waits for the request.
LEMMA CancelLockInv ==
    ASSUME LockInv, NEW c \in Cancels, NEW d \in Deliveries, CancelLock(c, d)
    PROVE  LockInv'
<1>1. c \in Clients /\ c \in Sessions /\ c \notin Workers
    BY SessionFacts DEF Clients
<1>2. RowsFrame(c) /\ db' = db /\ owner' = owner
    BY <1>1, NoRowFrame DEF LockInv, CancelLock
<1>3. /\ LocalsFrame(c) /\ LocalShape'
      /\ pc'[c] = "lock" /\ target'[c] = d /\ outcome'[c] = "CANCELLED"
    BY <1>1 DEF CancelLock, goto, LockInv, LocalShape, LocalsFrame, CancelSteps, Terminal
<1>4. SessionInv(c)'
  <2>1. Place(c)'
      BY <1>1, <1>3, SessionFacts DEF Place, CancelSteps, Answers
  <2>2. ~Writing(c)' /\ ~HasRequest(c)' /\ ~Writing(c) /\ ~HasRequest(c)
      BY <1>1, <1>3 DEF Writing, HasRequest, CancelLock
  <2>3. Locks(c)'
      BY <1>1, <1>2, <2>2 DEF Locks, LockInv, SessionInv, CancelLock
  <2>4. Work(c)'
      BY <1>1, <1>3, <2>2 DEF Work
  <2> QED
      BY <2>1, <2>3, <2>4 DEF SessionInv
<1> QED
    BY <1>1, <1>2, <1>3, <1>4, ValuesKept, ClientStep

\* What is known of a session in the steps only a cancel goes through.
LEMMA CancelFacts ==
    ASSUME LockInv, NEW c \in Clients, pc[c] \in {"lock", "deliveries", "recheck"}
    PROVE  /\ c \in Cancels /\ c \notin Workers /\ c \in Sessions
           /\ target[c] \in Deliveries
           /\ delivery(target[c]) \in Rows /\ request(target[c]) \in Rows
           /\ SessionInv(c) /\ outcome[c] = "CANCELLED"
<1>1. c \in Workers => pc[c] \in WorkerSteps
    BY DEF LockInv, SessionInv, Place
<1>2. c \in Cancels
    BY <1>1, ClientFacts DEF WorkerSteps
<1>3. SessionInv(c)
    BY DEF LockInv
<1> QED
    BY <1>2, <1>3, ClientFacts DEF SessionInv, Work

\* CancelLocked: the cancel has locked its request.
LEMMA CancelLockedInv ==
    ASSUME LockInv, NEW c \in Clients, CancelLocked(c)
    PROVE  LockInv'
<1> DEFINE d == target[c]
<1>1. /\ pc[c] = "lock" /\ c \in Cancels /\ c \notin Workers /\ c \in Sessions
      /\ d \in Deliveries /\ request(d) \in Rows
      /\ SessionInv(c) /\ outcome[c] = "CANCELLED"
    BY CancelFacts DEF CancelLocked
<1>2. /\ RowsFrame(c) /\ db' = db /\ cur' = cur /\ owner'[request(d)] = c
      /\ \A q \in Rows \ {request(d)} : owner'[q] = owner[q]
    BY <1>1, LockFrame DEF LockInv, CancelLocked
<1>3. LocalsFrame(c) /\ LocalShape' /\ pc'[c] = "deliveries"
    BY <1>1, Goes DEF CancelLocked, LockInv, CancelSteps
<1>4. UNCHANGED <<target, outcome, old>>
    BY DEF CancelLocked
<1>5. SessionInv(c)'
  <2>1. Place(c)'
      BY <1>1, <1>3, <1>4 DEF SessionInv, Place, CancelSteps, Answers
  <2>2. ~Writing(c)' /\ HasRequest(c)' /\ ~Writing(c) /\ ~HasRequest(c)
      BY <1>1, <1>3 DEF Writing, HasRequest
  <2>3. Locks(c)'
      BY <1>1, <1>2, <1>4, <2>2, RowFacts DEF Locks, SessionInv
  <2>4. cur[request(d)] = db[request(d)]
    <3>1. owner[request(d)] \in {Nobody, c} /\ owner[request(d)] # c
        BY <1>1, <2>2 DEF CancelLocked, Free, SessionInv, Locks
    <3> QED
        BY <1>1, <3>1 DEF LockInv, RowShape, Clean
  <2>5. Work(c)'
      BY <1>1, <1>2, <1>3, <1>4, <2>2, <2>4 DEF Work
  <2> QED
      BY <2>1, <2>3, <2>5 DEF SessionInv
<1> QED
    BY <1>2, <1>3, <1>5, ValuesKept, ClientStep

\* The cancel's UPDATE finds the row free and cancellable.
LEMMA CancelWriteInv ==
    ASSUME LockInv, NEW c \in Clients, pc[c] \in {"deliveries", "recheck"},
           Free(c, delivery(target[c])), Cancellable(db[delivery(target[c])]),
           write(c, delivery(target[c]), "CANCELLED"),
           goto(c, "request"), UNCHANGED <<target, outcome, old>>
    PROVE  LockInv'
<1> DEFINE d == target[c]
<1>1. /\ c \in Cancels /\ c \notin Workers /\ c \in Sessions
      /\ d \in Deliveries /\ delivery(d) \in Rows /\ request(d) \in Rows
      /\ SessionInv(c) /\ outcome[c] = "CANCELLED"
    BY CancelFacts
<1>2. /\ RowsFrame(c) /\ db' = db /\ owner'[delivery(d)] = c
      /\ cur'[delivery(d)] = "CANCELLED"
      /\ \A q \in Rows \ {delivery(d)} : owner'[q] = owner[q] /\ cur'[q] = cur[q]
    BY <1>1, WriteFrame DEF LockInv
<1>3. LocalsFrame(c) /\ LocalShape' /\ pc'[c] = "request"
    BY <1>1, Goes DEF LockInv, CancelSteps
<1>4. SessionInv(c)'
  <2>1. Place(c)'
      BY <1>1, <1>3 DEF SessionInv, Place, CancelSteps, Answers
  <2>2. Writing(c)' /\ HasRequest(c)' /\ ~Writing(c) /\ HasRequest(c)
      BY <1>1, <1>3 DEF Writing, HasRequest
  <2>3. Locks(c)'
      BY <1>1, <1>2, <2>2, RowFacts DEF Locks, SessionInv
  <2>4. Work(c)'
      BY <1>1, <1>2, <1>3, <2>2, RowFacts DEF Work, SessionInv
  <2> QED
      BY <2>1, <2>3, <2>4 DEF SessionInv
<1> QED
    BY <1>2, <1>3, <1>4, ValuesKept, ClientStep

\* A client rolls back and is done.
LEMMA RollbackInv ==
    ASSUME LockInv, NEW s \in Clients, pc[s] # "idle", NEW answer \in Answers,
           rollbackTx(s), finish(s, answer)
    PROVE  LockInv' /\ db' = db /\ LocalsFrame(s)
<1>1. s \in Sessions
    BY ClientFacts
<1>2. RowsFrame(s) /\ db' = db /\ \A r \in Rows : owner'[r] # s
    BY <1>1, RollbackFrame DEF LockInv
<1>3. LocalsFrame(s) /\ LocalShape'
    BY <1>1, Finished DEF LockInv
<1>4. SessionInv(s)'
    BY <1>2, Gone
<1> QED
    BY <1>2, <1>3, <1>4, ValuesKept, ClientStep

\* CancelDeliveries and CancelRecheck: refused, waiting, or written.
LEMMA CancelDeliveriesInv ==
    ASSUME LockInv, NEW c \in Clients, CancelDeliveries(c) \/ CancelRecheck(c)
    PROVE  LockInv'
<1> DEFINE r == delivery(target[c])
<1>1. /\ pc[c] \in {"deliveries", "recheck"} /\ c \in Cancels /\ c \notin Workers
      /\ c \in Sessions /\ SessionInv(c) /\ outcome[c] = "CANCELLED"
    BY CancelFacts DEF CancelDeliveries, CancelRecheck
<1>2. CASE rollbackTx(c) /\ finish(c, "ErrCancelNotAllowed")
    BY <1>1, <1>2, RollbackInv DEF Answers
<1>3. CASE /\ Cancellable(db[r]) /\ Free(c, r) /\ write(c, r, "CANCELLED")
           /\ goto(c, "request") /\ UNCHANGED <<target, outcome, old>>
    BY <1>1, <1>3, CancelWriteInv
<1>4. CASE /\ pc[c] = "deliveries" /\ goto(c, "recheck")
           /\ UNCHANGED <<db, cur, owner, target, outcome, old>>
  <2>1. RowsFrame(c)
      BY <1>1, <1>4, NoRowFrame DEF LockInv
  <2>2. LocalsFrame(c) /\ LocalShape' /\ pc'[c] = "recheck"
      BY <1>1, <1>4, Goes DEF LockInv, CancelSteps
  <2>3. ~Writing(c)' /\ HasRequest(c)' /\ ~Writing(c) /\ HasRequest(c)
      BY <1>1, <1>4, <2>2 DEF Writing, HasRequest
  <2>4. Place(c)'
      BY <1>1, <1>4, <2>2 DEF SessionInv, Place, CancelSteps, Answers
  <2>5. Locks(c)'
      BY <1>1, <1>4, <2>3 DEF SessionInv, Locks
  <2>6. Work(c)'
      BY <1>1, <1>4, <2>2, <2>3 DEF SessionInv, Work
  <2> QED
      BY <1>4, <2>1, <2>2, <2>4, <2>5, <2>6, ValuesKept, ClientStep DEF SessionInv
<1> QED
    BY <1>2, <1>3, <1>4 DEF CancelDeliveries, CancelRecheck, Free

\* loadRequest: what it remembers is the committed status.
LEMMA LoadRequestInv ==
    ASSUME LockInv, NEW s \in Clients, loadRequest(s)
    PROVE  LockInv'
<1> DEFINE d == target[s]
<1>1. /\ pc[s] = "request" /\ s \in Sessions /\ d \in Deliveries /\ request(d) \in Rows
      /\ s \in Workers <=> s \notin Cancels
      /\ SessionInv(s)
    BY ClientFacts DEF loadRequest
<1>2. /\ RowsFrame(s) /\ db' = db /\ cur' = cur /\ owner'[request(d)] = s
      /\ \A q \in Rows \ {request(d)} : owner'[q] = owner[q]
    BY <1>1, LockFrame DEF LockInv, loadRequest
<1>3. cur[request(d)] = db[request(d)]
  <2>1. CASE owner[request(d)] = s
    <3>1. HasRequest(s)
        BY <1>1, <2>1 DEF SessionInv, Locks
    <3> QED
        BY <1>1, <3>1 DEF SessionInv, Work
  <2>2. CASE owner[request(d)] = Nobody
      BY <1>1, <2>2 DEF LockInv, RowShape, Clean
  <2> QED
      BY <2>1, <2>2 DEF loadRequest, Free
<1>4. db[request(d)] \in RequestStatus
    BY <1>1 DEF LockInv, Values
<1>5. /\ LocalsFrame(s) /\ LocalShape'
      /\ pc'[s] = "recompute" /\ target' = target /\ outcome' = outcome
      /\ old'[s] = db[request(d)]
    BY <1>1, <1>3, <1>4 DEF loadRequest, goto, LockInv, LocalShape, LocalsFrame, WorkerSteps
<1>6. SessionInv(s)'
  <2>1. Place(s)'
      BY <1>1, <1>5 DEF SessionInv, Place, WorkerSteps, CancelSteps, Answers
  <2>2. Writing(s)' /\ HasRequest(s)' /\ Writing(s)
      BY <1>1, <1>5 DEF Writing, HasRequest
  <2>3. Locks(s)'
      BY <1>1, <1>2, <1>5, <2>2, RowFacts DEF Locks, SessionInv
  <2>4. Work(s)'
      BY <1>1, <1>2, <1>3, <1>5, <2>2 DEF Work, SessionInv
  <2> QED
      BY <2>1, <2>3, <2>4 DEF SessionInv
<1> QED
    BY <1>2, <1>5, <1>6, ValuesKept, ClientStep

\* recompute: the session sees its own version of the delivery, so the new
\* status of the request is the outcome.
LEMMA RecomputeInv ==
    ASSUME LockInv, NEW s \in Clients, recompute(s)
    PROVE  LockInv' /\ db' = db
<1> DEFINE d == target[s]
<1>1. /\ pc[s] = "recompute" /\ s \in Sessions /\ d \in Deliveries
      /\ delivery(d) \in Rows /\ request(d) \in Rows
      /\ s \in Workers <=> s \notin Cancels
      /\ SessionInv(s)
    BY ClientFacts DEF recompute
<1>2. Writing(s) /\ HasRequest(s) /\ owner[delivery(d)] = s /\ owner[request(d)] = s
    BY <1>1 DEF Writing, HasRequest, SessionInv, Locks
<1>3. /\ outcome[s] \in Terminal /\ outcome[s] \in DeliveryStatus
      /\ old[s] = db[request(d)] /\ cur[request(d)] = db[request(d)]
      /\ cur[delivery(d)] = outcome[s]
    BY <1>1, <1>2 DEF SessionInv, Work, Terminal, DeliveryStatus
<1>4. NewStatus(s) = outcome[s]
  <2>1. Visible(s, delivery(d)) = outcome[s]
      BY <1>2, <1>3 DEF Visible
  <2> QED
      BY <1>3, <2>1, AggregateOfOne DEF NewStatus, IsTerminal
<1>5. UNCHANGED <<target, outcome, old>>
    BY DEF recompute
<1>6. owner[batch] # s
    BY <1>1 DEF SessionInv, Locks
<1>7. CASE outcome[s] = old[s]
  <2>1. goto(s, "commit") /\ UNCHANGED <<db, cur, owner>>
      BY <1>4, <1>7 DEF recompute
  <2>2. RowsFrame(s)
      BY <1>1, <2>1, NoRowFrame DEF LockInv
  <2>3. LocalsFrame(s) /\ LocalShape' /\ pc'[s] = "commit"
      BY <1>1, <1>5, <2>1, Goes DEF LockInv, WorkerSteps
  <2>4. Writing(s)' /\ HasRequest(s)'
      BY <2>3 DEF Writing, HasRequest
  <2>5. Place(s)'
      BY <1>1, <1>5, <2>3 DEF SessionInv, Place, WorkerSteps, CancelSteps, Answers
  <2>6. Locks(s)'
      BY <1>1, <1>2, <1>5, <2>1, <2>3, <2>4 DEF SessionInv, Locks
  <2>7. Work(s)'
      BY <1>1, <1>2, <1>3, <1>5, <1>6, <1>7, <2>1, <2>3, <2>4 DEF SessionInv, Work
  <2> QED
      BY <2>1, <2>2, <2>3, <2>5, <2>6, <2>7, ValuesKept, ClientStep DEF SessionInv
<1>8. CASE outcome[s] # old[s]
  <2>1. goto(s, "batch") /\ write(s, request(d), outcome[s])
      BY <1>4, <1>8 DEF recompute
  <2>2. Free(s, request(d))
      BY <1>2 DEF Free
  <2>3. /\ RowsFrame(s) /\ db' = db /\ owner'[request(d)] = s
        /\ cur'[request(d)] = outcome[s]
        /\ \A q \in Rows \ {request(d)} : owner'[q] = owner[q] /\ cur'[q] = cur[q]
      BY <1>1, <2>1, <2>2, WriteFrame DEF LockInv
  <2>4. LocalsFrame(s) /\ LocalShape' /\ pc'[s] = "batch"
      BY <1>1, <1>5, <2>1, Goes DEF LockInv, WorkerSteps
  <2>5. Writing(s)' /\ HasRequest(s)'
      BY <2>4 DEF Writing, HasRequest
  <2>6. Place(s)'
      BY <1>1, <1>5, <2>4 DEF SessionInv, Place, WorkerSteps, CancelSteps, Answers
  <2>7. Locks(s)'
      BY <1>1, <1>2, <1>5, <1>6, <2>3, <2>4, <2>5, RowFacts DEF SessionInv, Locks
  <2>8. cur'[delivery(d)] = outcome[s]
      BY <1>1, <1>3, <2>3, RowFacts
  <2>9. Work(s)'
      BY <1>1, <1>2, <1>3, <1>5, <2>3, <2>4, <2>5, <2>8 DEF SessionInv, Work
  <2> QED
      BY <2>3, <2>4, <2>6, <2>7, <2>9, ValuesKept, ClientStep DEF SessionInv
<1> QED
    BY <1>7, <1>8

\* adjustBatchCounters: the batch row is free, so its newest version is the
\* committed one.
LEMMA AdjustBatchInv ==
    ASSUME LockInv, NEW s \in Clients, adjustBatchCounters(s)
    PROVE  LockInv' /\ db' = db
<1> DEFINE d == target[s]
<1>1. /\ pc[s] = "batch" /\ s \in Sessions /\ d \in Deliveries
      /\ delivery(d) \in Rows /\ request(d) \in Rows
      /\ s \in Workers <=> s \notin Cancels
      /\ SessionInv(s)
    BY ClientFacts DEF adjustBatchCounters
<1>2. Writing(s) /\ HasRequest(s) /\ owner[delivery(d)] = s /\ owner[request(d)] = s
    BY <1>1 DEF Writing, HasRequest, SessionInv, Locks
<1>3. /\ old[s] = db[request(d)] /\ cur[request(d)] = outcome[s]
      /\ cur[delivery(d)] = outcome[s]
    BY <1>1, <1>2 DEF SessionInv, Work
<1>4. goto(s, "commit") /\ UNCHANGED <<target, outcome, old>>
    BY DEF adjustBatchCounters
<1>5. owner[batch] # s /\ batch \in Rows
    BY <1>1, RowFacts DEF SessionInv, Locks
<1>6. LocalsFrame(s) /\ LocalShape' /\ pc'[s] = "commit"
    BY <1>1, <1>4, Goes DEF LockInv, WorkerSteps
<1>7. Writing(s)' /\ HasRequest(s)'
    BY <1>6 DEF Writing, HasRequest
<1>8. Place(s)'
    BY <1>1, <1>4, <1>6 DEF SessionInv, Place, WorkerSteps, CancelSteps, Answers
<1>9. CASE bucketColumn(old[s]) = bucketColumn(outcome[s])
  <2>1. UNCHANGED <<db, cur, owner>>
      BY <1>3, <1>9 DEF adjustBatchCounters
  <2>2. RowsFrame(s)
      BY <1>1, <2>1, NoRowFrame DEF LockInv
  <2>3. Locks(s)'
      BY <1>1, <1>4, <1>5, <1>6, <1>7, <1>2, <2>1 DEF SessionInv, Locks
  <2>4. Work(s)'
      BY <1>1, <1>2, <1>3, <1>4, <1>5, <1>6, <1>7, <1>9, <2>1 DEF SessionInv, Work
  <2> QED
      BY <1>6, <1>8, <2>1, <2>2, <2>3, <2>4, ValuesKept, ClientStep DEF SessionInv
<1>10. CASE bucketColumn(old[s]) # bucketColumn(outcome[s])
  <2>1. /\ Free(s, batch)
        /\ write(s, batch, Adjusted(cur[batch], db[request(d)], outcome[s]))
      BY <1>3, <1>10 DEF adjustBatchCounters
  <2>2. cur[batch] = db[batch]
      BY <1>5, <2>1 DEF Free, LockInv, RowShape, Clean
  <2>3. /\ RowsFrame(s) /\ db' = db /\ owner'[batch] = s
        /\ cur'[batch] = Adjusted(db[batch], db[request(d)], outcome[s])
        /\ \A q \in Rows \ {batch} : owner'[q] = owner[q] /\ cur'[q] = cur[q]
      BY <1>1, <1>5, <2>1, <2>2, WriteFrame DEF LockInv
  <2>4. Locks(s)'
      BY <1>1, <1>2, <1>4, <1>6, <1>7, <2>3, RowFacts DEF SessionInv, Locks
  <2>5. cur'[delivery(d)] = outcome[s] /\ cur'[request(d)] = outcome[s]
      BY <1>1, <1>3, <2>3, RowFacts
  <2>6. Work(s)'
      BY <1>1, <1>2, <1>4, <1>6, <1>7, <2>3, <2>5 DEF SessionInv, Work
  <2> QED
      BY <1>6, <1>8, <2>3, <2>4, <2>6, ValuesKept, ClientStep DEF SessionInv
<1> QED
    BY <1>9, <1>10

\* commit of a client: the delivery, its request and the two counters change
\* together, and nothing else does.
LEMMA CommitInv ==
    ASSUME LockInv, NEW s \in Clients, commit(s)
    PROVE  /\ LockInv'
           /\ target[s] \in Deliveries /\ outcome[s] \in Terminal
           /\ db'[delivery(target[s])] = outcome[s]
           /\ db'[request(target[s])] = outcome[s]
           /\ db'[batch] = Adjusted(db[batch], db[request(target[s])], outcome[s])
           /\ \A r \in Rows \ {delivery(target[s]), request(target[s]), batch} :
                 db'[r] = db[r]
<1> DEFINE d == target[s]
<1>1. /\ pc[s] = "commit" /\ s \in Sessions /\ d \in Deliveries
      /\ delivery(d) \in Rows /\ request(d) \in Rows /\ batch \in Rows
      /\ s \in Workers <=> s \notin Cancels
      /\ SessionInv(s)
    BY ClientFacts, RowFacts DEF commit
<1>2. Writing(s) /\ HasRequest(s) /\ owner[delivery(d)] = s /\ owner[request(d)] = s
    BY <1>1 DEF Writing, HasRequest, SessionInv, Locks
<1>3. /\ cur[request(d)] = outcome[s] /\ cur[delivery(d)] = outcome[s]
      /\ outcome[s] \in Terminal
    BY <1>1, <1>2 DEF SessionInv, Work, Terminal
<1>4. /\ RowsFrame(s) /\ cur' = cur
      /\ \A r \in Rows : owner'[r] # s
      /\ \A r \in Rows : db'[r] = IF owner[r] = s THEN cur[r] ELSE db[r]
    BY <1>1, CommitFrame DEF LockInv, commit
<1>5. db'[delivery(d)] = outcome[s] /\ db'[request(d)] = outcome[s]
    BY <1>1, <1>2, <1>3, <1>4
<1>6. db'[batch] = Adjusted(db[batch], db[request(d)], outcome[s])
  <2>1. CASE owner[batch] = s
      BY <1>1, <1>4, <2>1 DEF SessionInv, Work
  <2>2. CASE owner[batch] # s
    <3>1. bucketColumn(db[request(d)]) = bucketColumn(outcome[s])
        BY <1>1, <2>2 DEF SessionInv, Work
    <3>2. Adjusted(db[batch], db[request(d)], outcome[s]) = db[batch]
        BY <3>1 DEF Adjusted
    <3> QED
        BY <1>1, <1>4, <2>2, <3>2
  <2> QED
      BY <2>1, <2>2
<1>7. \A r \in Rows \ {delivery(d), request(d), batch} : db'[r] = db[r]
    BY <1>1, <1>4, RowFacts DEF SessionInv, Locks
<1>8. PICK answer \in {"ok", "error"} : finish(s, answer)
    BY DEF commit
<1>9. answer \in Answers
    BY DEF Answers
<1>10. LocalsFrame(s) /\ LocalShape'
    BY <1>1, <1>8, <1>9, Finished DEF LockInv
<1>11. SessionInv(s)'
    BY <1>1, <1>4, <1>8, <1>9, Gone
<1>12. Values'
  <2>1. outcome[s] \in DeliveryStatus /\ outcome[s] \in RequestStatus
      BY <1>3 DEF Terminal, DeliveryStatus, RequestStatus
  <2> QED
      BY <1>5, <1>7, <2>1, RowFacts DEF LockInv, Values
<1>13. LockInv'
    BY <1>4, <1>10, <1>11, <1>12, ClientStep
<1> QED
    BY <1>1, <1>3, <1>5, <1>6, <1>7, <1>13

\* A step of the scheduler keeps the invariant once it does so for itself.
LEMMA SchedulerStep ==
    ASSUME LockInv, RowsFrame(Scheduler), LocalsFrame(Scheduler), LocalShape', Values',
           SchedulerInv'
    PROVE  LockInv'
<1>1. Scheduler \in Sessions /\ Scheduler \notin Clients
    BY SessionFacts DEF Clients
<1>2. \A u \in Clients : SessionInv(u)'
    BY <1>1, BystanderInv
<1> QED
    BY <1>2 DEF LockInv, RowsFrame

\* transitionAndEnqueue: one row, free and due.
LEMMA TransitionInv ==
    ASSUME LockInv, NEW d \in Deliveries, transitionAndEnqueue(d)
    PROVE  LockInv' /\ db' = db
<1>1. /\ Scheduler \in Sessions /\ delivery(d) \in Rows /\ pc[Scheduler] = "idle"
      /\ batch \in Rows
    BY SessionFacts, RowFacts DEF transitionAndEnqueue
<1>2. \A r \in Rows : owner[r] # Scheduler
    BY <1>1, RowFacts DEF LockInv, SchedulerInv
<1>3. /\ RowsFrame(Scheduler) /\ db' = db /\ owner'[delivery(d)] = Scheduler
      /\ cur'[delivery(d)] = "PENDING"
      /\ \A q \in Rows \ {delivery(d)} : owner'[q] = owner[q] /\ cur'[q] = cur[q]
    BY <1>1, WriteFrame DEF LockInv, transitionAndEnqueue
<1>4. LocalsFrame(Scheduler) /\ LocalShape' /\ pc'[Scheduler] = "commit"
    BY <1>1, Goes DEF LockInv, transitionAndEnqueue, WorkerSteps
<1>5. db[delivery(d)] \in {"SCHEDULED", "RETRYING"}
    BY DEF transitionAndEnqueue
<1>6. SchedulerInv'
    BY <1>1, <1>2, <1>3, <1>4, <1>5, RowFacts DEF SchedulerInv
<1> QED
    BY <1>3, <1>4, <1>6, ValuesKept, SchedulerStep

\* ReapStuck: one statement on a row nobody has locked.
LEMMA ReapInv ==
    ASSUME LockInv, NEW d \in Deliveries, ReapStuck(d)
    PROVE  /\ LockInv' /\ db'[delivery(d)] = "RETRYING"
           /\ \A q \in Rows \ {delivery(d)} : db'[q] = db[q]
<1>1. Scheduler \in Sessions /\ delivery(d) \in Rows /\ pc[Scheduler] = "idle"
    BY SessionFacts, RowFacts DEF ReapStuck
<1>2. /\ RowsFrame(Scheduler) /\ owner' = owner /\ db'[delivery(d)] = "RETRYING"
      /\ \A q \in Rows \ {delivery(d)} : db'[q] = db[q] /\ cur'[q] = cur[q]
    BY <1>1, AutocommitFrame DEF LockInv, ReapStuck
<1>3. LocalsFrame(Scheduler) /\ LocalShape' /\ pc' = pc
    BY DEF ReapStuck, LocalsFrame, LockInv, LocalShape
<1>4. Values'
    BY <1>2, RowFacts DEF LockInv, Values, DeliveryStatus
<1>5. SchedulerInv'
    BY <1>1, <1>2, <1>3, RowFacts DEF LockInv, SchedulerInv
<1> QED
    BY <1>2, <1>3, <1>4, <1>5, SchedulerStep

\* The scheduler has ended its transaction.
LEMMA SchedulerGone ==
    ASSUME LockInv, RowsFrame(Scheduler), \A r \in Rows : owner'[r] # Scheduler,
           NEW answer \in Answers, finish(Scheduler, answer), Values'
    PROVE  LockInv' /\ LocalsFrame(Scheduler) /\ pc'[Scheduler] = "idle"
<1>1. Scheduler \in Sessions /\ Scheduler \notin Cancels
    BY SessionFacts
<1>2. LocalsFrame(Scheduler) /\ LocalShape' /\ pc'[Scheduler] = "idle"
    BY <1>1, Finished DEF LockInv
<1>3. SchedulerInv'
    BY <1>2, RowFacts DEF SchedulerInv
<1> QED
    BY <1>2, <1>3, SchedulerStep

\* commit of the scheduler: at most one delivery, due, becomes PENDING.
LEMMA SchedulerCommitInv ==
    ASSUME LockInv, commit(Scheduler)
    PROVE  /\ LockInv'
           /\ \A d \in Deliveries :
                 db'[delivery(d)] = IF owner[delivery(d)] = Scheduler
                                    THEN "PENDING" ELSE db[delivery(d)]
           /\ \A d \in Deliveries : db'[request(d)] = db[request(d)]
           /\ db'[batch] = db[batch]
<1>1. Scheduler \in Sessions
    BY SessionFacts
<1>2. /\ RowsFrame(Scheduler) /\ cur' = cur
      /\ \A r \in Rows : owner'[r] # Scheduler
      /\ \A r \in Rows : db'[r] = IF owner[r] = Scheduler THEN cur[r] ELSE db[r]
    BY <1>1, CommitFrame DEF LockInv, commit
<1>3. /\ \A d \in Deliveries :
            db'[delivery(d)] = IF owner[delivery(d)] = Scheduler
                               THEN "PENDING" ELSE db[delivery(d)]
      /\ \A d \in Deliveries : db'[request(d)] = db[request(d)]
      /\ db'[batch] = db[batch]
    BY <1>2, RowFacts DEF LockInv, SchedulerInv
<1>4. Values'
    BY <1>3 DEF LockInv, Values, DeliveryStatus
<1>5. PICK answer \in {"ok", "error"} : finish(Scheduler, answer)
    BY DEF commit
<1>6. answer \in Answers
    BY DEF Answers
<1> QED
    BY <1>2, <1>3, <1>4, <1>5, <1>6, SchedulerGone

\* fail: a rollback, whoever's transaction it was.
LEMMA FailInv ==
    ASSUME LockInv, NEW s \in Sessions, fail(s)
    PROVE  /\ LockInv' /\ db' = db /\ LocalsFrame(s)
           /\ RowsFrame(s) /\ (\A r \in Rows : owner'[r] # s) /\ finish(s, "error")
<1>1. /\ pc[s] # "idle" /\ rollbackTx(s) /\ finish(s, "error")
      /\ "error" \in Answers
    BY DEF fail, Answers
<1>2. RowsFrame(s) /\ db' = db /\ \A r \in Rows : owner'[r] # s
    BY <1>1, RollbackFrame DEF LockInv
<1>3. CASE s \in Clients
    BY <1>1, <1>2, <1>3, RollbackInv
<1>4. CASE s = Scheduler
    BY <1>1, <1>2, <1>4, ValuesKept, SchedulerGone
<1> QED
    BY <1>3, <1>4 DEF Sessions, Clients

\* The other steps are not the scheduler's.
LEMMA SchedulerWork ==
    ASSUME LockInv, work(Scheduler)
    PROVE  commit(Scheduler)
<1>1. pc[Scheduler] \in {"idle", "commit"}
    BY DEF LockInv, SchedulerInv
<1> QED
    BY <1>1 DEF work, MarkDelivery, MarkRetrying, CancelLocked, CancelDeliveries,
                CancelRecheck, loadRequest, recompute, adjustBatchCounters

-----------------------------------------------------------------------------
(* Every step keeps the invariant, and publishes one method's work or      *)
(* nothing.                                                                *)

\* A delivery moves alone.
Moves(d, st) ==
    /\ d \in Deliveries /\ st \in DeliveryStatus \ Terminal
    /\ db'[delivery(d)] = st
    /\ \A r \in Rows \ {delivery(d)} : db'[r] = db[r]

\* A delivery ends, with its request and its batch.
Ends(d, st) ==
    /\ d \in Deliveries /\ st \in Terminal
    /\ db'[delivery(d)] = st /\ db'[request(d)] = st
    /\ db'[batch] = Adjusted(db[batch], db[request(d)], st)
    /\ \A r \in Rows \ {delivery(d), request(d), batch} : db'[r] = db[r]

Published == db' = db \/ \E d, st : Moves(d, st) \/ Ends(d, st)

LEMMA WorkStep ==
    ASSUME LockInv, NEW s \in Clients, work(s)
    PROVE  LockInv' /\ Published
<1>1. CASE MarkDelivery(s)
  <2>1. db' = db
      BY <1>1 DEF MarkDelivery, write
  <2> QED
      BY <1>1, <2>1, MarkDeliveryInv DEF Published
<1>2. CASE MarkRetrying(s)
  <2>1. /\ target[s] \in Deliveries /\ s \in Sessions /\ delivery(target[s]) \in Rows
      BY <1>2, ClientFacts DEF MarkRetrying
  <2>2. /\ db'[delivery(target[s])] = "RETRYING"
        /\ \A q \in Rows \ {delivery(target[s])} : db'[q] = db[q]
      BY <1>2, <2>1, AutocommitFrame DEF LockInv, MarkRetrying
  <2>3. Moves(target[s], "RETRYING")
      BY <2>1, <2>2 DEF Moves, DeliveryStatus, Terminal
  <2> QED
      BY <1>2, <2>3, MarkRetryingInv DEF Published
<1>3. CASE CancelLocked(s)
  <2>1. db' = db
      BY <1>3 DEF CancelLocked, lock
  <2> QED
      BY <1>3, <2>1, CancelLockedInv DEF Published
<1>4. CASE CancelDeliveries(s) \/ CancelRecheck(s)
  <2>1. db' = db
      BY <1>4 DEF CancelDeliveries, CancelRecheck, write, rollbackTx
  <2> QED
      BY <1>4, <2>1, CancelDeliveriesInv DEF Published
<1>5. CASE loadRequest(s)
  <2>1. db' = db
      BY <1>5 DEF loadRequest, lock
  <2> QED
      BY <1>5, <2>1, LoadRequestInv DEF Published
<1>6. CASE recompute(s)
    BY <1>6, RecomputeInv DEF Published
<1>7. CASE adjustBatchCounters(s)
    BY <1>7, AdjustBatchInv DEF Published
<1>8. CASE commit(s)
  <2>1. Ends(target[s], outcome[s]) /\ LockInv'
      BY <1>8, CommitInv DEF Ends
  <2> QED
      BY <2>1 DEF Published
<1> QED
    BY <1>1, <1>2, <1>3, <1>4, <1>5, <1>6, <1>7, <1>8 DEF work

LEMMA SchedulerCommitPublishes ==
    ASSUME LockInv, commit(Scheduler)
    PROVE  LockInv' /\ Published
<1>1. /\ LockInv'
      /\ \A d \in Deliveries :
            db'[delivery(d)] = IF owner[delivery(d)] = Scheduler
                               THEN "PENDING" ELSE db[delivery(d)]
      /\ \A d \in Deliveries : db'[request(d)] = db[request(d)]
      /\ db'[batch] = db[batch]
    BY SchedulerCommitInv
<1>2. CASE \E d \in Deliveries : owner[delivery(d)] = Scheduler
  <2>1. PICK d \in Deliveries : owner[delivery(d)] = Scheduler
      BY <1>2
  <2>2. \A e \in Deliveries : owner[delivery(e)] = Scheduler => e = d
      BY <2>1 DEF LockInv, SchedulerInv
  <2>3. Moves(d, "PENDING")
      BY <1>1, <2>1, <2>2, RowFacts DEF Moves, DeliveryStatus, Terminal
  <2> QED
      BY <1>1, <2>3 DEF Published
<1>3. CASE \A d \in Deliveries : owner[delivery(d)] # Scheduler
  <2>1. \A r \in Rows : db'[r] = db[r]
      BY <1>1, <1>3, RowFacts
  <2>2. db = [r \in Rows |-> db[r]] /\ db' = [r \in Rows |-> db'[r]]
      BY <1>1 DEF LockInv, RowShape
  <2>3. db' = db
      BY <2>1, <2>2
  <2> QED
      BY <1>1, <2>3 DEF Published
<1> QED
    BY <1>2, <1>3

LEMMA LedgerStep ==
    ASSUME LockInv, [Next]_vars
    PROVE  LockInv' /\ Published
<1>1. CASE \E d \in Deliveries, w \in Workers : ClaimDelivery(w, d)
  <2>1. PICK d \in Deliveries, w \in Workers : ClaimDelivery(w, d)
      BY <1>1
  <2>2. w \in Sessions /\ delivery(d) \in Rows
      BY SessionFacts, RowFacts
  <2>3. /\ db'[delivery(d)] = "PROCESSING"
        /\ \A q \in Rows \ {delivery(d)} : db'[q] = db[q]
      BY <2>1, <2>2, AutocommitFrame DEF LockInv, ClaimDelivery
  <2>4. Moves(d, "PROCESSING")
      BY <2>1, <2>3 DEF Moves, DeliveryStatus, Terminal
  <2> QED
      BY <2>1, <2>4, ClaimInv DEF Published
<1>2. CASE \E d \in Deliveries, c \in Cancels : CancelLock(c, d)
  <2>1. db' = db
      BY <1>2 DEF CancelLock
  <2> QED
      BY <1>2, <2>1, CancelLockInv DEF Published
<1>3. CASE \E d \in Deliveries : transitionAndEnqueue(d)
    BY <1>3, TransitionInv DEF Published
<1>4. CASE \E d \in Deliveries : ReapStuck(d)
  <2>1. PICK d \in Deliveries : ReapStuck(d)
      BY <1>4
  <2>2. Moves(d, "RETRYING") /\ LockInv'
      BY <2>1, ReapInv DEF Moves, DeliveryStatus, Terminal
  <2> QED
      BY <2>2 DEF Published
<1>5. CASE \E s \in Clients : work(s)
    BY <1>5, WorkStep
<1>6. CASE work(Scheduler)
    BY <1>6, SchedulerWork, SchedulerCommitPublishes
<1>7. CASE \E s \in Sessions : fail(s)
    BY <1>7, FailInv DEF Published
<1>8. CASE UNCHANGED vars
  <2>1. db' = db
      BY <1>8 DEF vars
  <2>2. LockInv'
    <3>1. RowShape' /\ LocalShape' /\ Values'
        BY <1>8 DEF vars, LockInv, RowShape, Clean, LocalShape, Values
    <3>2. SchedulerInv'
        BY <1>8 DEF vars, LockInv, SchedulerInv
    <3>3. RowsFrame(Scheduler) /\ LocalsFrame(Scheduler) /\ Scheduler \in Sessions
        BY <1>8, NoRowFrame, SessionFacts DEF vars, LockInv, LocalsFrame
    <3> QED
        BY <3>1, <3>2, <3>3, SchedulerStep
  <2> QED
      BY <2>1, <2>2 DEF Published
<1>9. \A s \in Sessions : s \in Clients \/ s = Scheduler
    BY DEF Sessions, Clients
<1> QED
    BY <1>1, <1>2, <1>3, <1>4, <1>5, <1>6, <1>7, <1>8, <1>9 DEF Next

\* Init: nothing is locked, nobody works.
LEMMA InitialRows ==
    ASSUME Init
    PROVE  /\ db = [r \in Rows |-> db[r]]
           /\ \A d \in Deliveries : /\ db[delivery(d)] \in {"SCHEDULED", "PENDING"}
                                    /\ db[request(d)] = "PENDING"
           /\ db[batch] = [k \in Buckets |-> IF k = "pending_count"
                                             THEN Cardinality(Deliveries) ELSE 0]
<1> DEFINE C == [k \in Buckets |-> IF k = "pending_count" THEN Cardinality(Deliveries) ELSE 0]
<1>1. PICK st \in [Deliveries -> {"SCHEDULED", "PENDING"}] :
          db = [r \in Rows |-> CASE r = batch -> C
                                 [] r[1] = "request" -> "PENDING"
                                 [] OTHER -> st[r[2]]]
    BY DEF Init
<1> HIDE DEF C
<1>2. db = [r \in Rows |-> db[r]]
    BY <1>1
<1>3. batch[1] # "request"
    BY DEF batch
<1>4. db[batch] = C
    BY <1>1, <1>3, RowFacts
<1>5. ASSUME NEW d \in Deliveries
      PROVE  db[delivery(d)] = st[d] /\ db[request(d)] = "PENDING"
  <2>1. /\ delivery(d)[1] = "delivery" /\ delivery(d)[2] = d /\ request(d)[1] = "request"
      BY DEF delivery, request
  <2>2. /\ delivery(d) \in Rows /\ request(d) \in Rows
        /\ delivery(d) # batch /\ request(d) # batch
      BY RowFacts
  <2>3. db[delivery(d)] = st[d]
      BY <1>1, <2>1, <2>2
  <2>4. db[request(d)] = "PENDING"
      BY <1>1, <2>1, <2>2
  <2> QED
      BY <2>3, <2>4
<1> QED
    BY <1>2, <1>4, <1>5 DEF C

LEMMA InitLock == Init => LockInv
<1> SUFFICES ASSUME Init PROVE LockInv
    OBVIOUS
<1>1. /\ cur = db /\ owner = [r \in Rows |-> Nobody]
      /\ pc = [s \in Sessions |-> "idle"] /\ target = [s \in Sessions |-> Nobody]
      /\ outcome = [s \in Sessions |-> "NONE"] /\ old = [s \in Sessions |-> "NONE"]
    BY DEF Init
<1>2. RowShape
    BY <1>1, InitialRows DEF RowShape, Clean
<1>3. LocalShape
    BY <1>1 DEF LocalShape, WorkerSteps
<1>4. Values
    BY InitialRows DEF Values, DeliveryStatus, RequestStatus
<1>5. \A r \in Rows : owner[r] = Nobody
    BY <1>1
<1>6. ASSUME NEW s \in Clients PROVE SessionInv(s)
  <2>1. s \in Sessions /\ s # Nobody
      BY SessionFacts DEF Clients
  <2>2. pc[s] = "idle" /\ target[s] = Nobody /\ outcome[s] = "NONE"
      BY <1>1, <2>1
  <2>3. ~Writing(s) /\ ~HasRequest(s)
      BY <2>2 DEF Writing, HasRequest
  <2>4. Place(s)
      BY <2>2 DEF Place, WorkerSteps, CancelSteps, Answers
  <2>5. Locks(s)
      BY <1>5, <2>1, <2>3, RowFacts DEF Locks
  <2>6. Work(s)
      BY <2>2, <2>3 DEF Work
  <2> QED
      BY <2>4, <2>5, <2>6 DEF SessionInv
<1>7. SchedulerInv
    BY <1>1, <1>5, SessionFacts, RowFacts DEF SchedulerInv
<1> QED
    BY <1>2, <1>3, <1>4, <1>6, <1>7 DEF LockInv

-----------------------------------------------------------------------------
(* The theorems.                                                           *)

\* The locks of MarkSent, MarkFailed, CancelRequest and the scheduler's jobs
\* protect every version that has not been committed.
THEOREM LocksHold == Spec => []LockInv
<1>1. LockInv /\ [Next]_vars => LockInv'
    BY LedgerStep
<1> QED
    BY <1>1, InitLock, PTL DEF Spec

\* A published step is one of the two that AppearsAtomic allows.
LEMMA PublishedAtomic ==
    ASSUME LockInv, LockInv', Published
    PROVE  \/ db' = db
           \/ \E d \in Deliveries, st \in DeliveryStatus :
                \/ /\ ~IsTerminal(st)
                   /\ db' = [db EXCEPT ![delivery(d)] = st]
                \/ /\ IsTerminal(st)
                   /\ db' = [db EXCEPT
                               ![delivery(d)] = st,
                               ![request(d)] = AggregateRequestStatus(<<st>>),
                               ![batch] = Adjusted(@, db[request(d)],
                                                   AggregateRequestStatus(<<st>>))]
<1>1. db = [r \in Rows |-> db[r]] /\ db' = [r \in Rows |-> db'[r]]
    BY DEF LockInv, RowShape
<1>2. ASSUME NEW d, NEW st, Moves(d, st)
      PROVE  /\ d \in Deliveries /\ st \in DeliveryStatus /\ ~IsTerminal(st)
             /\ db' = [db EXCEPT ![delivery(d)] = st]
  <2>1. /\ d \in Deliveries /\ st \in DeliveryStatus /\ ~IsTerminal(st)
        /\ delivery(d) \in Rows
      BY <1>2, RowFacts DEF Moves, IsTerminal
  <2>2. [db EXCEPT ![delivery(d)] = st] = [r \in Rows |-> IF r = delivery(d) THEN st ELSE db[r]]
      BY <1>1, <2>1
  <2>3. \A r \in Rows : db'[r] = IF r = delivery(d) THEN st ELSE db[r]
      BY <1>2 DEF Moves
  <2> QED
      BY <1>1, <2>1, <2>2, <2>3
<1>3. ASSUME NEW d, NEW st, Ends(d, st)
      PROVE  /\ d \in Deliveries /\ st \in DeliveryStatus /\ IsTerminal(st)
             /\ db' = [db EXCEPT
                         ![delivery(d)] = st,
                         ![request(d)] = AggregateRequestStatus(<<st>>),
                         ![batch] = Adjusted(@, db[request(d)],
                                             AggregateRequestStatus(<<st>>))]
  <2>1. d \in Deliveries /\ st \in DeliveryStatus /\ IsTerminal(st)
      BY <1>3 DEF Ends, IsTerminal, DeliveryStatus, Terminal
  <2>2. AggregateRequestStatus(<<st>>) = st
      BY <2>1, AggregateOfOne
  <2> DEFINE b == Adjusted(db[batch], db[request(d)], st)
             f == [db EXCEPT ![delivery(d)] = st, ![request(d)] = st, ![batch] = b]
  <2>3. /\ delivery(d) \in Rows /\ request(d) \in Rows /\ batch \in Rows
        /\ delivery(d) # request(d) /\ delivery(d) # batch /\ request(d) # batch
      BY <2>1, RowFacts
  <2>4. [db EXCEPT
           ![delivery(d)] = st, ![request(d)] = st,
           ![batch] = Adjusted(@, db[request(d)], st)] = f
      BY <1>1, <2>3
  <2>5. \A r \in Rows : db'[r] = IF r = batch THEN b
                                 ELSE IF r = request(d) THEN st
                                 ELSE IF r = delivery(d) THEN st ELSE db[r]
      BY <1>3 DEF Ends
  <2> HIDE DEF b
  <2>6. f = [r \in Rows |-> IF r = batch THEN b
                            ELSE IF r = request(d) THEN st
                            ELSE IF r = delivery(d) THEN st ELSE db[r]]
      BY <1>1, <2>3
  <2>7. db' = f
      BY <1>1, <2>5, <2>6
  <2> QED
      BY <2>1, <2>2, <2>4, <2>7
<1> QED
    BY <1>2, <1>3 DEF Published

\* Whatever interleaves, the committed rows change as if each method were one
\* step, with or without fenced leases, for any number of sessions: the step
\* of the module Store is what the statements of the module Ledger amount to.
THEOREM MethodsAppearAtomic == Spec => AppearsAtomic
<1>1. LockInv /\ [Next]_vars =>
        [\/ db' = db
         \/ \E d \in Deliveries, st \in DeliveryStatus :
              \/ /\ ~IsTerminal(st)
                 /\ db' = [db EXCEPT ![delivery(d)] = st]
              \/ /\ IsTerminal(st)
                 /\ db' = [db EXCEPT
                             ![delivery(d)] = st,
                             ![request(d)] = AggregateRequestStatus(<<st>>),
                             ![batch] = Adjusted(@, db[request(d)],
                                                 AggregateRequestStatus(<<st>>))]]_db
    BY LedgerStep, PublishedAtomic, Zenon
<1> QED
    BY <1>1, LocksHold, PTL DEF Spec, AppearsAtomic

\* The status of every request.
requests == [d \in Deliveries |-> db[request(d)]]

\* The counters count: the inductive form of CountersAgree.
Counting ==
    /\ db[batch] \in [Buckets -> Nat]
    /\ \A k \in Buckets : db[batch][k] = Cardinality(Bucket(requests, k))

LEMMA CountingMeans == Counting => CountersAgree
<1>1. \A k \in Buckets :
          Bucket(requests, k) = {d \in Deliveries : bucketColumn(db[request(d)]) = k}
    BY DEF Bucket, requests
<1> QED
    BY <1>1 DEF Counting, CountersAgree

LEMMA InitCounting == Init => Counting
<1> SUFFICES ASSUME Init PROVE Counting
    OBVIOUS
<1>1. \A d \in Deliveries : requests[d] = "PENDING"
    BY InitialRows DEF requests
<1>2. bucketColumn("PENDING") = "pending_count"
    BY DEF bucketColumn
<1>3. \A k \in Buckets : Bucket(requests, k) = IF k = "pending_count" THEN Deliveries ELSE {}
    BY <1>1, <1>2 DEF Bucket
<1>4. Cardinality(Deliveries) \in Nat /\ Cardinality({}) = 0
    BY LedgerAssumption, FS_CardinalityType, FS_EmptySet
<1>5. db[batch] = [k \in Buckets |-> IF k = "pending_count"
                                     THEN Cardinality(Deliveries) ELSE 0]
    BY InitialRows
<1>6. db[batch] \in [Buckets -> Nat]
    BY <1>4, <1>5
<1>7. ASSUME NEW k \in Buckets PROVE db[batch][k] = Cardinality(Bucket(requests, k))
  <2>1. db[batch][k] = IF k = "pending_count" THEN Cardinality(Deliveries) ELSE 0
      BY <1>5
  <2> QED
      BY <1>3, <1>4, <2>1
<1> QED
    BY <1>6, <1>7 DEF Counting

LEMMA CountingStep ==
    ASSUME LockInv, Counting, Published
    PROVE  Counting'
<1>1. CASE db' = db
    BY <1>1 DEF Counting, requests, Bucket
<1>2. ASSUME NEW d, NEW st, Moves(d, st) PROVE Counting'
  <2>1. db'[batch] = db[batch] /\ \A e \in Deliveries : db'[request(e)] = db[request(e)]
      BY <1>2, RowFacts DEF Moves
  <2>2. requests' = requests
      BY <2>1 DEF requests
  <2>3. \A k \in Buckets : Bucket(requests, k)' = Bucket(requests, k)
      BY <2>2 DEF Bucket
  <2> QED
      BY <2>1, <2>3 DEF Counting
<1>3. ASSUME NEW d, NEW st, Ends(d, st) PROVE Counting'
  <2>1. /\ d \in Deliveries /\ db'[batch] = Adjusted(db[batch], db[request(d)], st)
        /\ db'[request(d)] = st
        /\ \A e \in Deliveries \ {d} : db'[request(e)] = db[request(e)]
      BY <1>3, RowFacts DEF Ends
  <2> DEFINE f == requests
             g == requests'
             c == db[batch]
  <2>2. /\ \A e \in Deliveries \ {d} : g[e] = f[e]
        /\ f[d] = db[request(d)] /\ g[d] = st
      BY <2>1 DEF requests
  <2>3. c \in [Buckets -> Nat] /\ \A k \in Buckets : c[k] = Cardinality(Bucket(f, k))
      BY DEF Counting
  <2>4. \A k \in Buckets : Bucket(requests, k)' = Bucket(g, k)
      BY DEF Bucket
  <2> HIDE DEF f, g, c
  <2>5. /\ Adjusted(c, f[d], g[d]) \in [Buckets -> Nat]
        /\ \A k \in Buckets : Adjusted(c, f[d], g[d])[k] = Cardinality(Bucket(g, k))
      BY <2>1, <2>2, <2>3, AdjustedCounts
  <2>6. db'[batch] = Adjusted(c, f[d], g[d])
      BY <2>1, <2>2 DEF c
  <2>7. \A k \in Buckets : Cardinality(Bucket(requests, k))' = Cardinality(Bucket(g, k))
      BY <2>4
  <2> QED
      BY <2>5, <2>6, <2>7 DEF Counting
<1> QED
    BY <1>1, <1>2, <1>3 DEF Published

\* Each counter of the batch is the number of its requests in that bucket, in
\* every committed state, for any number of concurrent transactions.
THEOREM BatchCountersExact == Spec => []CountersAgree
<1>1. Init => LockInv /\ Counting
    BY InitLock, InitCounting
<1>2. LockInv /\ Counting /\ [Next]_vars => (LockInv /\ Counting)'
    BY LedgerStep, CountingStep
<1> QED
    BY <1>1, <1>2, CountingMeans, PTL DEF Spec

\* What a row holds, committed or not, by who has locked it.
LEMMA VersionTypes ==
    ASSUME LockInv, Counting
    PROVE  TypeOK
<1>1. /\ \A d \in Deliveries : db[delivery(d)] \in DeliveryStatus
      /\ \A d \in Deliveries : db[request(d)] \in RequestStatus
      /\ owner \in [Rows -> Sessions \cup {Nobody}] /\ Clean
    BY DEF LockInv, Values, RowShape
<1>2. \A r \in Rows : owner[r] = Nobody \/ owner[r] \in Clients \/ owner[r] = Scheduler
    BY <1>1 DEF Sessions, Clients
<1>3. ASSUME NEW s \in Clients, Writing(s) PROVE outcome[s] \in Terminal
  <2>1. s \in Workers \/ s \in Cancels
      BY DEF Clients
  <2> QED
      BY <1>3, <2>1 DEF LockInv, SessionInv, Work, Terminal
<1>4. ASSUME NEW d \in Deliveries PROVE cur[delivery(d)] \in DeliveryStatus
  <2>1. CASE owner[delivery(d)] = Nobody
      BY <1>1, <2>1, RowFacts DEF Clean
  <2>2. CASE owner[delivery(d)] = Scheduler
      BY <2>2 DEF LockInv, SchedulerInv, DeliveryStatus
  <2>3. CASE owner[delivery(d)] \in Clients
    <3> DEFINE s == owner[delivery(d)]
    <3>1. target[s] = d /\ Writing(s)
        BY <2>3 DEF LockInv, SessionInv, Locks
    <3>2. cur[delivery(d)] = outcome[s]
        BY <2>3, <3>1 DEF LockInv, SessionInv, Work
    <3> QED
        BY <1>3, <2>3, <3>1, <3>2 DEF Terminal, DeliveryStatus
  <2> QED
      BY <1>2, <2>1, <2>2, <2>3, RowFacts
<1>5. ASSUME NEW d \in Deliveries PROVE cur[request(d)] \in RequestStatus
  <2>1. CASE owner[request(d)] = Nobody
      BY <1>1, <2>1, RowFacts DEF Clean
  <2>2. owner[request(d)] # Scheduler
      BY DEF LockInv, SchedulerInv
  <2>3. CASE owner[request(d)] \in Clients
    <3> DEFINE s == owner[request(d)]
    <3>1. target[s] = d /\ HasRequest(s)
        BY <2>3 DEF LockInv, SessionInv, Locks
    <3>2. cur[request(d)] = IF pc[s] \in {"batch", "commit"} THEN outcome[s]
                            ELSE db[request(d)]
        BY <2>3, <3>1 DEF LockInv, SessionInv, Work
    <3>3. pc[s] \in {"batch", "commit"} => outcome[s] \in RequestStatus
        BY <1>3, <2>3 DEF Writing, Terminal, RequestStatus
    <3> QED
        BY <1>1, <3>2, <3>3
  <2> QED
      BY <1>2, <2>1, <2>2, <2>3, RowFacts
<1>6. ASSUME NEW f \in [Buckets -> Nat], NEW g,
             \A k \in Buckets : f[k] = Cardinality(Bucket(g, k))
      PROVE  f \in [Buckets -> 0..Cardinality(Deliveries)]
  <2>1. ASSUME NEW k \in Buckets PROVE f[k] \in 0..Cardinality(Deliveries)
    <3>1. Bucket(g, k) \in SUBSET Deliveries
        BY DEF Bucket
    <3>2. /\ Cardinality(Deliveries) \in Nat
          /\ Cardinality(Bucket(g, k)) <= Cardinality(Deliveries)
        BY <3>1, LedgerAssumption, FS_Subset, FS_CardinalityType
    <3> QED
        BY <1>6, <3>2
  <2> QED
      BY <2>1
<1>7. db[batch] \in [Buckets -> 0..Cardinality(Deliveries)]
    BY <1>6 DEF Counting
<1>8. cur[batch] \in [Buckets -> 0..Cardinality(Deliveries)]
  <2>1. CASE owner[batch] = Nobody
      BY <1>1, <1>7, <2>1, RowFacts DEF Clean
  <2>2. owner[batch] # Scheduler
      BY DEF LockInv, SchedulerInv
  <2>3. CASE owner[batch] \in Clients
    <3> DEFINE s == owner[batch]
               d == target[s]
               f == requests
               g == [requests EXCEPT ![d] = outcome[s]]
               c == db[batch]
    <3>1. pc[s] = "commit"
        BY <2>3 DEF LockInv, SessionInv, Locks
    <3>2. cur[batch] = Adjusted(db[batch], db[request(d)], outcome[s])
        BY <2>3, <3>1 DEF LockInv, SessionInv, Work
    <3>3. d \in Deliveries
        BY <2>3, <3>1, ClientFacts
    <3>4. /\ \A e \in Deliveries \ {d} : g[e] = f[e]
          /\ f[d] = db[request(d)] /\ g[d] = outcome[s]
        BY <3>3 DEF requests
    <3>5. c \in [Buckets -> Nat] /\ \A k \in Buckets : c[k] = Cardinality(Bucket(f, k))
        BY DEF Counting
    <3>6. cur[batch] = Adjusted(c, f[d], g[d])
        BY <3>2, <3>4
    <3> HIDE DEF s, d, f, g, c
    <3>7. /\ Adjusted(c, f[d], g[d]) \in [Buckets -> Nat]
          /\ \A k \in Buckets : Adjusted(c, f[d], g[d])[k] = Cardinality(Bucket(g, k))
        BY <3>3, <3>4, <3>5, AdjustedCounts
    <3> QED
        BY <1>6, <3>6, <3>7
  <2> QED
      BY <1>2, <2>1, <2>2, <2>3, RowFacts
<1>9. ASSUME NEW s \in Sessions, pc[s] \in {"idle", "done"} PROVE ~InTx(s)
  <2>1. CASE s = Scheduler
      BY <1>9, <2>1, RowFacts DEF LockInv, SchedulerInv, InTx
  <2>2. CASE s \in Clients
    <3>1. ~Writing(s) /\ ~HasRequest(s) /\ pc[s] # "commit"
        BY <1>9 DEF Writing, HasRequest
    <3> QED
        BY <2>2, <3>1, RowFacts DEF LockInv, SessionInv, Locks, InTx
  <2> QED
      BY <2>1, <2>2 DEF Sessions, Clients
<1> QED
    BY <1>1, <1>4, <1>5, <1>7, <1>8, <1>9 DEF TypeOK, Clean

\* Every version of every row, committed or not, is one its column can hold.
THEOREM LedgerTypes == Spec => []TypeOK
<1>1. Init => LockInv /\ Counting
    BY InitLock, InitCounting
<1>2. LockInv /\ Counting /\ [Next]_vars => (LockInv /\ Counting)'
    BY LedgerStep, CountingStep
<1> QED
    BY <1>1, <1>2, VersionTypes, PTL DEF Spec

-----------------------------------------------------------------------------
(* With fenced leases.                                                     *)

\* No step changes whether leases are long enough.
LEMMA FencedKept ==
    ASSUME [Next]_vars PROVE fenced' = fenced
<1>1. CASE Next
    BY <1>1, Zenon DEF Next, work, ClaimDelivery, CancelLock, transitionAndEnqueue, ReapStuck,
           MarkDelivery, MarkRetrying, CancelLocked, CancelDeliveries, CancelRecheck,
           loadRequest, recompute, adjustBatchCounters, commit, fail, finish
<1>2. CASE UNCHANGED vars
    BY <1>2 DEF vars
<1> QED
    BY <1>1, <1>2

\* Committed deliveries stay, and s claims nothing and answers no success.
LEMMA QuietStep ==
    ASSUME LockInv, Claims, Decided, NEW s \in Sessions, LocalsFrame(s),
           \A d \in Deliveries : db'[delivery(d)] = db[delivery(d)],
           s \in Workers => target'[s] \in {target[s], Nobody},
           s \in Cancels => outcome[s] \notin Answers /\ outcome'[s] # "ok"
    PROVE  Claims' /\ Decided'
<1>1. \A u \in Sessions \ {s} : target'[u] = target[u] /\ outcome'[u] = outcome[u]
    BY DEF LocalsFrame
<1>2. \A u \in Sessions : target[u] \in Deliveries \cup {Nobody}
    BY DEF LockInv, LocalShape
<1>3. \A w \in Workers : target'[w] \in {target[w], Nobody} /\ w \in Sessions
    BY <1>1, SessionFacts
<1>4. Claims'
  <2>1. ASSUME NEW w \in Workers, target'[w] # Nobody
        PROVE  db'[delivery(target'[w])] = "PROCESSING"
      BY <1>2, <1>3, <2>1 DEF Claims
  <2>2. ASSUME NEW v \in Workers, NEW w \in Workers, v # w, target'[v] # Nobody
        PROVE  target'[v] # target'[w]
      BY <1>3, <2>2 DEF Claims
  <2> QED
      BY <2>1, <2>2 DEF Claims
<1>5. ASSUME NEW c \in Cancels, outcome'[c] = "ok"
      PROVE  db'[delivery(target'[c])] = "CANCELLED"
  <2>1. c # s /\ c \in Sessions
      BY <1>5, SessionFacts
  <2>2. c \in Clients /\ outcome[c] \in Answers /\ target'[c] = target[c]
      BY <1>1, <1>5, <2>1 DEF Clients, Answers
  <2>3. pc[c] = "done"
      BY <2>2 DEF LockInv, SessionInv, Place
  <2>4. target[c] \in Deliveries
      BY <2>2, <2>3, ClientFacts
  <2> QED
      BY <1>1, <1>5, <2>1, <2>2, <2>4 DEF Decided
<1>6. ASSUME NEW d \in Deliveries, db'[delivery(d)] = "CANCELLED"
      PROVE  \E c \in Cancels : target'[c] = d /\ outcome'[c] \in {"ok", "error"}
  <2>1. PICK c \in Cancels : target[c] = d /\ outcome[c] \in {"ok", "error"}
      BY <1>6 DEF Decided
  <2>2. c # s /\ c \in Sessions
      BY <2>1, SessionFacts DEF Answers
  <2> QED
      BY <1>1, <2>1, <2>2
<1> QED
    BY <1>4, <1>5, <1>6 DEF Decided

\* The request's lock keeps two cancels of one request apart.
LEMMA OneCancel ==
    ASSUME LockInv, NEW b \in Cancels, NEW c \in Cancels, HasRequest(b), HasRequest(c),
           target[b] = target[c], target[b] \in Deliveries
    PROVE  b = c
    BY DEF LockInv, SessionInv, Locks, Clients

\* A delivery that is not cancelled moves, and cancels hear nothing of it.
LEMMA DecidedMove ==
    ASSUME LockInv, Decided, NEW d \in Deliveries,
           db[delivery(d)] # "CANCELLED", db'[delivery(d)] # "CANCELLED",
           \A e \in Deliveries \ {d} : db'[delivery(e)] = db[delivery(e)],
           \A c \in Cancels : target'[c] = target[c] /\ outcome'[c] = outcome[c]
    PROVE  Decided'
<1>1. ASSUME NEW c \in Cancels, outcome'[c] = "ok"
      PROVE  db'[delivery(target'[c])] = "CANCELLED"
  <2>1. db[delivery(target[c])] = "CANCELLED" /\ outcome[c] \in Answers /\ c \in Clients
      BY <1>1 DEF Decided, Answers, Clients
  <2>2. pc[c] = "done"
      BY <2>1 DEF LockInv, SessionInv, Place
  <2>3. target[c] \in Deliveries /\ target[c] # d
      BY <2>1, <2>2, ClientFacts
  <2> QED
      BY <2>1, <2>3
<1>2. ASSUME NEW e \in Deliveries, db'[delivery(e)] = "CANCELLED"
      PROVE  \E c \in Cancels : target'[c] = e /\ outcome'[c] \in {"ok", "error"}
  <2>1. e # d /\ db[delivery(e)] = "CANCELLED"
      BY <1>2
  <2> QED
      BY <2>1 DEF Decided
<1> QED
    BY <1>1, <1>2 DEF Decided

\* A delivery that no worker keeps moves.
LEMMA ClaimsMove ==
    ASSUME LockInv, Claims, NEW d \in Deliveries,
           \A e \in Deliveries \ {d} : db'[delivery(e)] = db[delivery(e)],
           \A w \in Workers : target'[w] \in {target[w], Nobody} /\ target'[w] # d
    PROVE  Claims'
<1>1. \A w \in Workers : target[w] \in Deliveries \cup {Nobody}
    BY SessionFacts DEF LockInv, LocalShape
<1>2. ASSUME NEW w \in Workers, target'[w] # Nobody
      PROVE  db'[delivery(target'[w])] = "PROCESSING"
    BY <1>1, <1>2 DEF Claims
<1>3. ASSUME NEW v \in Workers, NEW w \in Workers, v # w, target'[v] # Nobody
      PROVE  target'[v] # target'[w]
    BY <1>3 DEF Claims
<1> QED
    BY <1>2, <1>3 DEF Claims

LEMMA ClaimFence ==
    ASSUME LockInv, Claims, Decided,
           NEW w \in Workers, NEW d \in Deliveries, ClaimDelivery(w, d)
    PROVE  Claims' /\ Decided'
<1>1. w \in Sessions /\ w \notin Cancels /\ delivery(d) \in Rows
    BY SessionFacts, RowFacts
<1>2. /\ RowsFrame(w) /\ owner' = owner /\ db'[delivery(d)] = "PROCESSING"
      /\ \A q \in Rows \ {delivery(d)} : db'[q] = db[q]
    BY <1>1, AutocommitFrame DEF LockInv, ClaimDelivery
<1>3. LocalsFrame(w) /\ target'[w] = d /\ outcome' = outcome
    BY <1>1 DEF ClaimDelivery, goto, LockInv, LocalShape, LocalsFrame
<1>4. db[delivery(d)] \in {"PENDING", "RETRYING"}
    BY DEF ClaimDelivery
<1>5. \A v \in Workers : target[v] # d
    BY <1>4, SessionFacts DEF Claims
<1>6. \A u \in Sessions \ {w} : target'[u] = target[u]
    BY <1>3 DEF LocalsFrame
<1>7. \A v \in Workers \ {w} : target'[v] = target[v] /\ v \in Sessions
    BY <1>6, SessionFacts
<1>8. \A u \in Sessions : target[u] \in Deliveries \cup {Nobody}
    BY DEF LockInv, LocalShape
<1>9. Claims'
  <2>1. ASSUME NEW v \in Workers, target'[v] # Nobody
        PROVE  db'[delivery(target'[v])] = "PROCESSING"
    <3>1. CASE v = w
        BY <1>2, <1>3, <3>1
    <3>2. CASE v # w
        BY <1>2, <1>5, <1>7, <1>8, <2>1, <3>2, RowFacts DEF Claims
    <3> QED
        BY <3>1, <3>2
  <2>2. ASSUME NEW v \in Workers, NEW u \in Workers, v # u, target'[v] # Nobody
        PROVE  target'[v] # target'[u]
      BY <1>3, <1>5, <1>7, <2>2 DEF Claims
  <2> QED
      BY <2>1, <2>2 DEF Claims
<1>10. \A c \in Cancels : target'[c] = target[c] /\ c \in Sessions
    BY <1>1, <1>6, SessionFacts
<1>11. Decided'
    BY <1>2, <1>3, <1>4, <1>10, RowFacts, DecidedMove
<1> QED
    BY <1>9, <1>11

LEMMA MarkRetryingFence ==
    ASSUME LockInv, Claims, Decided, NEW w \in Clients, MarkRetrying(w)
    PROVE  Claims' /\ Decided'
<1> DEFINE d == target[w]
<1>1. /\ pc[w] = "claimed" /\ w \in Sessions /\ d \in Deliveries /\ delivery(d) \in Rows
      /\ w \notin Cancels /\ w \in Workers
  <2>1. w \in Cancels => pc[w] \in CancelSteps
      BY DEF LockInv, SessionInv, Place
  <2> QED
      BY <2>1, ClientFacts DEF MarkRetrying, CancelSteps
<1>2. /\ RowsFrame(w) /\ owner' = owner /\ db'[delivery(d)] = "RETRYING"
      /\ \A q \in Rows \ {delivery(d)} : db'[q] = db[q]
    BY <1>1, AutocommitFrame DEF LockInv, MarkRetrying
<1>3. LocalsFrame(w) /\ target'[w] = Nobody /\ pc'[w] = "idle"
    BY <1>1, Finished DEF MarkRetrying, LockInv
<1>4. \A e \in Deliveries \ {d} : db'[delivery(e)] = db[delivery(e)]
    BY <1>2, RowFacts
<1>5. \A u \in Sessions \ {w} : target'[u] = target[u] /\ outcome'[u] = outcome[u]
    BY <1>3 DEF LocalsFrame
<1>6. db[delivery(d)] = "PROCESSING" /\ \A v \in Workers \ {w} : target[v] # d
    BY <1>1, SessionFacts DEF Claims
<1>7. \A v \in Workers : target'[v] \in {target[v], Nobody} /\ target'[v] # d
    BY <1>1, <1>3, <1>5, <1>6, SessionFacts
<1>8. \A c \in Cancels : target'[c] = target[c] /\ outcome'[c] = outcome[c]
    BY <1>1, <1>5, SessionFacts
<1> QED
    BY <1>1, <1>2, <1>4, <1>6, <1>7, <1>8, ClaimsMove, DecidedMove

LEMMA ReapFence ==
    ASSUME LockInv, Claims, Decided, fenced, NEW d \in Deliveries, ReapStuck(d)
    PROVE  Claims' /\ Decided'
<1>1. Scheduler \in Sessions /\ delivery(d) \in Rows /\ Scheduler \notin Cancels
    BY SessionFacts, RowFacts
<1>2. /\ owner' = owner /\ db'[delivery(d)] = "RETRYING"
      /\ \A q \in Rows \ {delivery(d)} : db'[q] = db[q]
    BY <1>1, AutocommitFrame DEF LockInv, ReapStuck
<1>3. UNCHANGED <<pc, target, outcome>> /\ db[delivery(d)] = "PROCESSING"
      /\ \A w \in Workers : target[w] # d
    BY DEF ReapStuck
<1>4. \A e \in Deliveries \ {d} : db'[delivery(e)] = db[delivery(e)]
    BY <1>2, RowFacts
<1> QED
    BY <1>2, <1>3, <1>4, ClaimsMove, DecidedMove

\* A worker's commit: its delivery was PROCESSING.
LEMMA WorkerCommitFence ==
    ASSUME LockInv, Claims, Decided, NEW w \in Workers, commit(w)
    PROVE  Claims' /\ Decided'
<1> DEFINE d == target[w]
<1>1. w \in Clients /\ w \in Sessions /\ w \notin Cancels /\ pc[w] = "commit"
    BY SessionFacts DEF Clients, commit
<1>2. /\ d \in Deliveries /\ db'[delivery(d)] = outcome[w]
      /\ \A r \in Rows \ {delivery(d), request(d), batch} : db'[r] = db[r]
    BY <1>1, CommitInv
<1>3. outcome[w] \in {"SENT", "FAILED"}
    BY <1>1 DEF LockInv, SessionInv, Work, Writing
<1>4. PICK answer \in {"ok", "error"} : finish(w, answer)
    BY DEF commit
<1>5. LocalsFrame(w) /\ target'[w] = Nobody
    BY <1>1, <1>4, Finished DEF LockInv, Answers
<1>6. \A e \in Deliveries \ {d} : db'[delivery(e)] = db[delivery(e)]
    BY <1>2, RowFacts
<1>7. \A u \in Sessions \ {w} : target'[u] = target[u] /\ outcome'[u] = outcome[u]
    BY <1>5 DEF LocalsFrame
<1>8. db[delivery(d)] = "PROCESSING" /\ \A v \in Workers \ {w} : target[v] # d
    BY <1>2, SessionFacts DEF Claims
<1>9. \A v \in Workers : target'[v] \in {target[v], Nobody} /\ target'[v] # d
    BY <1>2, <1>5, <1>7, <1>8, SessionFacts
<1>10. \A c \in Cancels : target'[c] = target[c] /\ outcome'[c] = outcome[c]
    BY <1>1, <1>7, SessionFacts
<1> QED
    BY <1>2, <1>3, <1>6, <1>8, <1>9, <1>10, ClaimsMove, DecidedMove

\* The scheduler's commit: its delivery was due.
LEMMA SchedulerCommitFence ==
    ASSUME LockInv, Claims, Decided, commit(Scheduler)
    PROVE  Claims' /\ Decided'
<1>1. Scheduler \in Sessions /\ Scheduler \notin Workers /\ Scheduler \notin Cancels
    BY SessionFacts
<1>2. /\ LockInv'
      /\ \A d \in Deliveries :
            db'[delivery(d)] = IF owner[delivery(d)] = Scheduler
                               THEN "PENDING" ELSE db[delivery(d)]
    BY SchedulerCommitInv
<1>3. PICK answer \in {"ok", "error"} : finish(Scheduler, answer)
    BY DEF commit
<1>4. LocalsFrame(Scheduler) /\ pc'[Scheduler] = "idle"
    BY <1>1, <1>3, Finished DEF LockInv, Answers
<1>5. /\ \A w \in Workers : target'[w] = target[w]
      /\ \A c \in Cancels : target'[c] = target[c] /\ outcome'[c] = outcome[c]
    BY <1>1, <1>4, SessionFacts DEF LocalsFrame
<1>6. CASE \E d \in Deliveries : owner[delivery(d)] = Scheduler
  <2>1. PICK d \in Deliveries : owner[delivery(d)] = Scheduler
      BY <1>6
  <2>2. /\ db[delivery(d)] \in {"SCHEDULED", "RETRYING"}
        /\ \A e \in Deliveries : owner[delivery(e)] = Scheduler => e = d
      BY <2>1 DEF LockInv, SchedulerInv
  <2>3. /\ db'[delivery(d)] = "PENDING"
        /\ \A e \in Deliveries \ {d} : db'[delivery(e)] = db[delivery(e)]
      BY <1>2, <2>1, <2>2
  <2>4. \A w \in Workers : target'[w] \in {target[w], Nobody} /\ target'[w] # d
      BY <1>5, <2>2, SessionFacts DEF Claims
  <2> QED
      BY <1>5, <2>2, <2>3, <2>4, ClaimsMove, DecidedMove
<1>7. CASE \A d \in Deliveries : owner[delivery(d)] # Scheduler
  <2>1. \A d \in Deliveries : db'[delivery(d)] = db[delivery(d)]
      BY <1>2, <1>7
  <2> QED
      BY <1>1, <1>4, <2>1, QuietStep
<1> QED
    BY <1>6, <1>7

\* A cancel's commit: its delivery was no worker's and no earlier cancel's.
LEMMA CancelCommitFence ==
    ASSUME LockInv, Claims, Decided, NEW c \in Cancels, commit(c)
    PROVE  Claims' /\ Decided'
<1> DEFINE d == target[c]
<1>1. c \in Clients /\ c \in Sessions /\ c \notin Workers /\ pc[c] = "commit"
    BY SessionFacts DEF Clients, commit
<1>2. /\ d \in Deliveries /\ db'[delivery(d)] = outcome[c]
      /\ \A r \in Rows \ {delivery(d), request(d), batch} : db'[r] = db[r]
    BY <1>1, CommitInv
<1>3. outcome[c] = "CANCELLED" /\ Cancellable(db[delivery(d)])
    BY <1>1 DEF LockInv, SessionInv, Work, Writing
<1>4. PICK answer \in {"ok", "error"} : finish(c, answer)
    BY DEF commit
<1>5. /\ LocalsFrame(c) /\ target'[c] = d /\ pc'[c] = "done"
      /\ outcome'[c] \in {"ok", "error"}
    BY <1>1, <1>4, Finished DEF LockInv, Answers
<1>6. \A e \in Deliveries \ {d} : db'[delivery(e)] = db[delivery(e)]
    BY <1>2, RowFacts
<1>7. \A u \in Sessions \ {c} : target'[u] = target[u] /\ outcome'[u] = outcome[u]
    BY <1>5 DEF LocalsFrame
<1>8. \A w \in Workers : target'[w] = target[w] /\ target[w] # d
    BY <1>1, <1>2, <1>3, <1>7, SessionFacts DEF Claims, Cancellable
<1>9. Claims'
    BY <1>2, <1>6, <1>8, ClaimsMove
<1>10. ASSUME NEW b \in Cancels, outcome'[b] = "ok"
       PROVE  db'[delivery(target'[b])] = "CANCELLED"
  <2>1. CASE b = c
      BY <1>2, <1>3, <1>5, <2>1
  <2>2. CASE b # c
    <3>1. outcome[b] \in Answers /\ target'[b] = target[b] /\ b \in Clients
          /\ db[delivery(target[b])] = "CANCELLED"
        BY <1>7, <1>10, <2>2, SessionFacts DEF Answers, Clients, Decided
    <3>2. pc[b] = "done"
        BY <3>1 DEF LockInv, SessionInv, Place
    <3>3. target[b] \in Deliveries /\ target[b] # d
        BY <1>3, <3>1, <3>2, ClientFacts DEF Cancellable
    <3> QED
        BY <1>6, <3>1, <3>3
  <2> QED
      BY <2>1, <2>2
<1>11. ASSUME NEW e \in Deliveries, db'[delivery(e)] = "CANCELLED"
       PROVE  \E b \in Cancels : target'[b] = e /\ outcome'[b] \in {"ok", "error"}
  <2>1. CASE e = d
      BY <1>5, <2>1
  <2>2. CASE e # d
    <3>1. PICK b \in Cancels : target[b] = e /\ outcome[b] \in {"ok", "error"}
        BY <1>6, <1>11, <2>2 DEF Decided
    <3> QED
        BY <1>7, <2>2, <3>1, SessionFacts
  <2> QED
      BY <2>1, <2>2
<1> QED
    BY <1>9, <1>10, <1>11 DEF Decided

\* The first statement of a mark commits nothing.
LEMMA MarkDeliveryFence ==
    ASSUME LockInv, Claims, Decided, NEW w \in Clients, MarkDelivery(w)
    PROVE  Claims' /\ Decided'
<1> DEFINE d == target[w]
<1>1. /\ pc[w] = "claimed" /\ w \in Sessions /\ delivery(d) \in Rows /\ d \in Deliveries
      /\ w \notin Cancels
  <2>1. w \in Cancels => pc[w] \in CancelSteps
      BY DEF LockInv, SessionInv, Place
  <2> QED
      BY <2>1, ClientFacts DEF MarkDelivery, CancelSteps
<1>2. PICK st \in {"SENT", "FAILED"} :
          write(w, delivery(d), st) /\ outcome' = [outcome EXCEPT ![w] = st]
    BY DEF MarkDelivery
<1>3. /\ RowsFrame(w) /\ db' = db
      /\ \A q \in Rows \ {delivery(d)} : owner'[q] = owner[q]
    BY <1>1, <1>2, WriteFrame DEF LockInv, MarkDelivery
<1>4. LocalsFrame(w) /\ target' = target
    BY <1>1, <1>2 DEF MarkDelivery, goto, LockInv, LocalShape, LocalsFrame
<1> QED
    BY <1>1, <1>3, <1>4, QuietStep

\* The cancel's UPDATE: refused, waiting, or written.
LEMMA CancelDeliveriesFence ==
    ASSUME LockInv, Claims, Decided,
           NEW c \in Clients, CancelDeliveries(c) \/ CancelRecheck(c)
    PROVE  Claims' /\ Decided'
<1> DEFINE d == target[c]
           r == delivery(d)
<1>1. /\ pc[c] \in {"deliveries", "recheck"} /\ c \in Cancels /\ c \notin Workers
      /\ c \in Sessions /\ SessionInv(c) /\ outcome[c] = "CANCELLED"
      /\ d \in Deliveries /\ r \in Rows
    BY CancelFacts DEF CancelDeliveries, CancelRecheck
<1>2. outcome[c] \notin Answers /\ HasRequest(c) /\ ~Writing(c)
    BY <1>1 DEF Answers, HasRequest, Writing
<1>3. CASE rollbackTx(c) /\ finish(c, "ErrCancelNotAllowed")
  <2>1. RowsFrame(c) /\ db' = db /\ \A q \in Rows : owner'[q] # c
      BY <1>1, <1>3, RollbackFrame DEF LockInv
  <2>2. LocalsFrame(c) /\ pc'[c] = "done" /\ outcome'[c] = "ErrCancelNotAllowed"
      BY <1>1, <1>3, Finished DEF LockInv, Answers
  <2> QED
      BY <1>1, <1>2, <2>1, <2>2, QuietStep
<1>4. CASE /\ Cancellable(db[r]) /\ Free(c, r) /\ write(c, r, "CANCELLED")
           /\ goto(c, "request") /\ UNCHANGED <<target, outcome, old>>
  <2>1. /\ RowsFrame(c) /\ db' = db
        /\ \A q \in Rows \ {r} : owner'[q] = owner[q]
      BY <1>1, <1>4, WriteFrame DEF LockInv
  <2>2. LocalsFrame(c) /\ pc'[c] = "request"
      BY <1>1, <1>4, Goes DEF LockInv, CancelSteps
  <2> QED
      BY <1>1, <1>2, <1>4, <2>1, <2>2, QuietStep
<1>5. CASE /\ Cancellable(db[r]) /\ owner[r] # Nobody /\ goto(c, "recheck")
           /\ UNCHANGED <<db, cur, owner, target, outcome, old>>
  <2>1. LocalsFrame(c) /\ pc'[c] = "recheck" /\ pc' = [pc EXCEPT ![c] = "recheck"]
      BY <1>1, <1>5, Goes DEF LockInv, CancelSteps, goto
  <2> QED
      BY <1>1, <1>2, <1>5, <2>1, QuietStep
<1> QED
    BY <1>3, <1>4, <1>5 DEF CancelDeliveries, CancelRecheck, Free

\* A statement on the request or the batch.
LEMMA QuietStatement ==
    ASSUME LockInv, Claims, Decided, NEW s \in Clients, pc[s] \notin {"idle", "done"},
           UNCHANGED <<db, target, outcome>>, LocalsFrame(s)
    PROVE  Claims' /\ Decided'
<1>1. s \in Sessions
    BY ClientFacts
<1>2. s \in Cancels => outcome[s] \notin Answers
    BY DEF LockInv, SessionInv, Place
<1> QED
    BY <1>1, <1>2, QuietStep DEF Answers

\* The statements of work, one by one.
LEMMA WorkFence ==
    ASSUME LockInv, Claims, Decided, NEW s \in Clients, work(s)
    PROVE  Claims' /\ Decided'
<1>1. CASE MarkDelivery(s)
    BY <1>1, MarkDeliveryFence
<1>2. CASE MarkRetrying(s)
    BY <1>2, MarkRetryingFence
<1>3. CASE CancelDeliveries(s) \/ CancelRecheck(s)
    BY <1>3, CancelDeliveriesFence
<1>4. CASE commit(s)
    BY <1>4, WorkerCommitFence, CancelCommitFence DEF Clients
<1>5. CASE CancelLocked(s) \/ loadRequest(s)
  <2>1. /\ pc[s] \in {"lock", "request"} /\ UNCHANGED <<db, target, outcome>>
        /\ s \in Sessions
      BY <1>5, ClientFacts DEF CancelLocked, loadRequest, lock
  <2>2. LocalsFrame(s)
      BY <1>5, <2>1 DEF CancelLocked, loadRequest, goto, LocalsFrame, LockInv, LocalShape
  <2> QED
      BY <2>1, <2>2, QuietStatement
<1>6. CASE recompute(s)
  <2>1. /\ pc[s] = "recompute" /\ UNCHANGED <<db, target, outcome, old>>
        /\ goto(s, "commit") \/ goto(s, "batch")
      BY <1>6 DEF recompute, write
  <2>2. s \in Sessions
      BY <2>1, ClientFacts
  <2>3. LocalsFrame(s)
      BY <2>1, <2>2, Goes DEF LockInv, WorkerSteps
  <2> QED
      BY <2>1, <2>3, QuietStatement
<1>7. CASE adjustBatchCounters(s)
  <2>1. pc[s] = "batch" /\ UNCHANGED <<db, target, outcome, old>> /\ goto(s, "commit")
      BY <1>7 DEF adjustBatchCounters, write
  <2>2. s \in Sessions
      BY <2>1, ClientFacts
  <2>3. LocalsFrame(s)
      BY <2>1, <2>2, Goes DEF LockInv, WorkerSteps
  <2> QED
      BY <2>1, <2>3, QuietStatement
<1> QED
    BY <1>1, <1>2, <1>3, <1>4, <1>5, <1>6, <1>7 DEF work

\* The calls that begin, the scheduler's UPDATE and a failure.
LEMMA CancelLockFence ==
    ASSUME LockInv, Claims, Decided, NEW c \in Cancels, NEW d \in Deliveries,
           CancelLock(c, d)
    PROVE  Claims' /\ Decided'
<1>1. c \in Sessions /\ c \notin Workers /\ c \in Clients /\ pc[c] = "idle"
    BY SessionFacts DEF Clients, CancelLock
<1>2. LocalsFrame(c) /\ pc'[c] = "lock" /\ outcome'[c] = "CANCELLED"
    BY <1>1 DEF CancelLock, goto, LockInv, LocalShape, LocalsFrame
<1>3. outcome[c] \notin Answers
    BY <1>1 DEF LockInv, SessionInv, Place
<1>4. RowsFrame(c) /\ UNCHANGED <<db, owner>>
    BY <1>1, NoRowFrame DEF LockInv, CancelLock
<1> QED
    BY <1>1, <1>2, <1>3, <1>4, QuietStep

LEMMA TransitionFence ==
    ASSUME LockInv, Claims, Decided, NEW d \in Deliveries, transitionAndEnqueue(d)
    PROVE  Claims' /\ Decided'
<1>1. /\ Scheduler \in Sessions /\ Scheduler \notin Workers /\ Scheduler \notin Cancels
      /\ delivery(d) \in Rows
    BY SessionFacts, RowFacts
<1>2. RowsFrame(Scheduler) /\ db' = db
    BY <1>1, WriteFrame DEF LockInv, transitionAndEnqueue
<1>3. LocalsFrame(Scheduler)
    BY <1>1, Goes DEF LockInv, transitionAndEnqueue, WorkerSteps
<1> QED
    BY <1>1, <1>2, <1>3, QuietStep

LEMMA FailFence ==
    ASSUME LockInv, Claims, Decided, NEW s \in Sessions, fail(s)
    PROVE  Claims' /\ Decided'
<1>1. /\ db' = db /\ LocalsFrame(s) /\ RowsFrame(s)
      /\ (\A r \in Rows : owner'[r] # s) /\ finish(s, "error")
    BY FailInv
<1>2. pc[s] \notin {"idle", "done"}
    BY DEF fail
<1>3. /\ pc'[s] # "recheck"
      /\ s \in Workers => target'[s] = Nobody
      /\ s \in Cancels => outcome'[s] = "error"
    BY <1>1, SessionFacts, Finished DEF LockInv, Answers
<1>4. s \in Cancels => outcome[s] \notin Answers
    BY <1>2 DEF LockInv, SessionInv, Place, Clients
<1> QED
    BY <1>1, <1>3, <1>4, QuietStep

LEMMA FenceStep ==
    ASSUME LockInv, FenceInv, [Next]_vars
    PROVE  FenceInv'
<1>1. SUFFICES ASSUME fenced PROVE Claims' /\ Decided'
  <2>1. fenced' = fenced
      BY FencedKept
  <2> QED
      BY <2>1, Zenon DEF FenceInv
<1>2. Claims /\ Decided
    BY <1>1, Zenon DEF FenceInv
<1>3. CASE \E d \in Deliveries, w \in Workers : ClaimDelivery(w, d)
    BY <1>2, <1>3, ClaimFence
<1>4. CASE \E d \in Deliveries, c \in Cancels : CancelLock(c, d)
    BY <1>2, <1>4, CancelLockFence
<1>5. CASE \E d \in Deliveries : transitionAndEnqueue(d)
    BY <1>2, <1>5, TransitionFence
<1>6. CASE \E d \in Deliveries : ReapStuck(d)
    BY <1>1, <1>2, <1>6, ReapFence
<1>7. CASE \E s \in Clients : work(s)
    BY <1>2, <1>7, WorkFence
<1>8. CASE work(Scheduler)
    BY <1>2, <1>8, SchedulerWork, SchedulerCommitFence
<1>9. CASE \E s \in Sessions : fail(s)
    BY <1>2, <1>9, FailFence
<1>10. CASE UNCHANGED vars
    BY <1>2, <1>10 DEF vars, Claims, Decided
<1>11. \A s \in Sessions : s \in Clients \/ s = Scheduler
    BY DEF Sessions, Clients
<1> QED
    BY <1>3, <1>4, <1>5, <1>6, <1>7, <1>8, <1>9, <1>10, <1>11 DEF Next

LEMMA InitFence == Init => FenceInv
<1> SUFFICES ASSUME Init PROVE Claims /\ Decided
    BY Zenon DEF FenceInv
<1>1. /\ \A s \in Sessions : pc[s] = "idle" /\ target[s] = Nobody /\ outcome[s] = "NONE"
    BY DEF Init
<1>2. \A d \in Deliveries : db[delivery(d)] # "CANCELLED"
    BY InitialRows
<1> QED
    BY <1>1, <1>2, SessionFacts DEF Claims, Decided

\* A cancel answered with success stays true and one that was refused has
\* cancelled nothing, for any number of workers and concurrent cancels.
THEOREM CancelsDecide == Spec => []CancelDecides
<1>1. Init => LockInv /\ FenceInv
    BY InitLock, InitFence
<1>2. LockInv /\ FenceInv /\ [Next]_vars => (LockInv /\ FenceInv)'
    BY LedgerStep, FenceStep
<1>3. FenceInv => CancelDecides
    BY Zenon DEF FenceInv, Decided, CancelDecides
<1> QED
    BY <1>1, <1>2, <1>3, PTL DEF Spec

\* The row a session waits for, by its statement.
LEMMA WantsCases ==
    ASSUME NEW s
    PROVE  /\ pc[s] \in {"lock", "request"} => Wants(s) = request(target[s])
           /\ pc[s] \in {"claimed", "recheck"} => Wants(s) = delivery(target[s])
           /\ pc[s] = "batch" => Wants(s) = batch
           /\ pc[s] \notin {"lock", "request", "claimed", "recheck", "batch"}
                => WaitsFor(s) = {}
<1>1. /\ pc[s] \in {"lock", "request"} => Wants(s) = request(target[s])
      /\ pc[s] \in {"claimed", "recheck"} => Wants(s) = delivery(target[s])
      /\ pc[s] = "batch" => Wants(s) = batch
      /\ pc[s] \notin {"lock", "request", "claimed", "recheck", "batch"} => Wants(s) = << >>
    BY DEF Wants
<1>2. << >> \notin Rows
  <2>1. Len(<< >>) = 0
      OBVIOUS
  <2>2. Len(batch) = 1 /\ \A d : Len(delivery(d)) = 2 /\ Len(request(d)) = 2
      BY DEF batch, delivery, request
  <2>3. << >> # batch /\ \A d : << >> # delivery(d) /\ << >> # request(d)
      BY <2>1, <2>2
  <2> QED
      BY <2>3, RowFacts
<1> QED
    BY <1>1, <1>2 DEF WaitsFor

\* A session that another one waits for has locked a row.
LEMMA WaitedForHolds ==
    ASSUME LockInv, NEW s \in Sessions, NEW t \in WaitsFor(s), WaitsFor(t) # {}
    PROVE  t \in Clients /\ pc[t] \in {"request", "recheck", "batch"} /\ SessionInv(t)
           /\ target[t] \in Deliveries
<1>1. Wants(s) \in Rows /\ t = owner[Wants(s)] /\ t # Nobody
    BY DEF WaitsFor
<1>2. t \in Clients \/ t = Scheduler
    BY <1>1 DEF LockInv, RowShape, Sessions, Clients
<1>3. pc[t] \in {"lock", "request", "claimed", "recheck", "batch"}
    BY WantsCases
<1>4. t \in Clients
    BY <1>2, <1>3 DEF LockInv, SchedulerInv
<1>5. SessionInv(t) /\ target[t] \in Deliveries
    BY <1>3, <1>4, ClientFacts
<1>6. CASE Wants(s) = batch
    BY <1>1, <1>5, <1>3, <1>6 DEF SessionInv, Locks
<1>7. CASE \E d \in Deliveries : Wants(s) = delivery(d)
  <2>1. PICK d \in Deliveries : Wants(s) = delivery(d)
      BY <1>7
  <2>2. Writing(t)
      BY <1>1, <1>5, <2>1 DEF SessionInv, Locks
  <2> QED
      BY <1>3, <1>4, <1>5, <2>2 DEF Writing
<1>8. CASE \E d \in Deliveries : Wants(s) = request(d)
  <2>1. PICK d \in Deliveries : Wants(s) = request(d)
      BY <1>8
  <2>2. HasRequest(t)
      BY <1>1, <1>5, <2>1 DEF SessionInv, Locks
  <2> QED
      BY <1>3, <1>4, <1>5, <2>2 DEF HasRequest
<1> QED
    BY <1>1, <1>6, <1>7, <1>8, RowFacts

\* What a session that holds a lock waits for in vain.
LEMMA CrossedWaits ==
    ASSUME LockInv, NEW s \in Clients, NEW t \in Clients, t \in WaitsFor(s),
           pc[s] \in {"request", "recheck", "batch"},
           pc[t] \in {"request", "recheck", "batch"}
    PROVE  /\ target[s] = target[t]
           /\ \/ s \in Workers /\ pc[s] = "request" /\ t \in Cancels /\ pc[t] = "recheck"
              \/ t \in Workers /\ pc[t] = "request" /\ s \in Cancels /\ pc[s] = "recheck"
<1>1. t = owner[Wants(s)] /\ t # s
    BY DEF WaitsFor
<1>2. /\ SessionInv(s) /\ target[s] \in Deliveries /\ (s \in Workers <=> s \notin Cancels)
      /\ SessionInv(t) /\ target[t] \in Deliveries /\ (t \in Workers <=> t \notin Cancels)
    BY ClientFacts
<1>3. CASE pc[s] = "batch"
    BY <1>1, <1>2, <1>3, WantsCases DEF SessionInv, Locks
<1>4. CASE pc[s] = "recheck"
  <2>1. s \in Cancels /\ HasRequest(s)
      BY <1>4, CancelFacts DEF HasRequest
  <2>2. t = owner[delivery(target[s])]
      BY <1>1, <1>4, WantsCases
  <2>3. target[t] = target[s] /\ Writing(t)
      BY <1>2, <2>2 DEF SessionInv, Locks
  <2>4. ~HasRequest(t)
      BY <1>1, <1>2, <2>1, <2>3 DEF SessionInv, Locks
  <2> QED
      BY <1>2, <1>4, <2>1, <2>3, <2>4 DEF HasRequest, Writing
<1>5. CASE pc[s] = "request"
  <2>1. t = owner[request(target[s])] /\ Writing(s)
      BY <1>1, <1>5, WantsCases DEF Writing
  <2>2. target[t] = target[s] /\ HasRequest(t)
      BY <1>2, <2>1 DEF SessionInv, Locks
  <2>3. ~Writing(t)
      BY <1>1, <1>2, <2>1, <2>2 DEF SessionInv, Locks
  <2>4. ~HasRequest(s)
      BY <1>1, <1>2, <2>1, <2>2 DEF SessionInv, Locks
  <2> QED
      BY <1>2, <1>5, <2>2, <2>3, <2>4 DEF HasRequest, Writing
<1> QED
    BY <1>3, <1>4, <1>5

\* A deadlock is a worker that marks a delivery and a cancel of its request,
\* each waiting for the other, for any number of workers, cancels and
\* deliveries, whether leases are fenced or not.
THEOREM OneKindOfDeadlock == Spec => []DeadlocksAreCrossed
<1>1. Init => LockInv /\ FenceInv
    BY InitLock, InitFence
<1>2. LockInv /\ FenceInv /\ [Next]_vars => (LockInv /\ FenceInv)'
    BY LedgerStep, FenceStep
<1>3. LockInv /\ FenceInv => DeadlocksAreCrossed
  <2> SUFFICES ASSUME LockInv, FenceInv, NEW S \in SUBSET Sessions, LockCycle(S), NEW s \in S
               PROVE  \E w \in S \cap Workers, c \in S \cap Cancels :
                         s \in {w, c} /\ Crossed(w, c)
      BY DEF DeadlocksAreCrossed
  <2>1. \A u \in S : u \in Sessions /\ WaitsFor(u) # {} /\ \E t \in S : t \in WaitsFor(u)
      BY DEF LockCycle
  <2>2. \A u \in S : \E t \in S : u \in WaitsFor(t)
      BY DEF LockCycle
  <2>3. \A u \in S : u \in Clients /\ pc[u] \in {"request", "recheck", "batch"}
                     /\ target[u] \in Deliveries
      BY <2>1, <2>2, WaitedForHolds
  <2>4. PICK t \in S : t \in WaitsFor(s)
      BY <2>1
  <2>5. /\ target[s] = target[t]
        /\ \/ s \in Workers /\ pc[s] = "request" /\ t \in Cancels /\ pc[t] = "recheck"
           \/ t \in Workers /\ pc[t] = "request" /\ s \in Cancels /\ pc[s] = "recheck"
      BY <2>3, <2>4, CrossedWaits
  <2>6. ASSUME NEW w \in Workers, target[w] \in Deliveries, fenced
        PROVE  db[delivery(target[w])] = "PROCESSING"
    <3>1. Claims
        BY <2>6, Zenon DEF FenceInv
    <3> QED
        BY <2>6, <3>1, SessionFacts DEF Claims
  <2>7. CASE s \in Workers /\ pc[s] = "request" /\ t \in Cancels /\ pc[t] = "recheck"
    <3>1. Crossed(s, t)
        BY <2>3, <2>5, <2>6, <2>7 DEF Crossed
    <3> QED
        BY <2>4, <2>7, <3>1
  <2>8. CASE t \in Workers /\ pc[t] = "request" /\ s \in Cancels /\ pc[s] = "recheck"
    <3>1. Crossed(t, s)
        BY <2>3, <2>5, <2>6, <2>8 DEF Crossed
    <3> QED
        BY <2>4, <2>8, <3>1
  <2> QED
      BY <2>5, <2>7, <2>8
<1> QED
    BY <1>1, <1>2, <1>3, PTL DEF Spec

\* The rules of AggregateRequestStatus, on the deliveries the ledger holds and
\* any two more.
THEOREM AggregateIsItsRules == Spec => []AggregateFollowsRules
<1>1. LockInv => AggregateFollowsRules
  <2> SUFFICES ASSUME LockInv, NEW d \in Deliveries, NEW n \in 0..2,
                      NEW more \in [1..n -> DeliveryStatus]
               PROVE  LET result == AggregateRequestStatus(<<db[delivery(d)]>> \o more)
                          occur == {db[delivery(d)]} \cup {more[i] : i \in 1..n}
                      IN  /\ result = "PENDING" <=> ~(occur \subseteq Terminal)
                          /\ result = "SENT" <=> occur = {"SENT"}
                          /\ result = "CANCELLED" <=> occur = {"CANCELLED"}
                          /\ result = "FAILED" <=> occur \in {{"FAILED"}, {"FAILED", "CANCELLED"}}
                          /\ result = "PARTIAL" <=> /\ occur \subseteq Terminal
                                                    /\ "SENT" \in occur
                                                    /\ occur # {"SENT"}
      BY Zenon DEF AggregateFollowsRules
  <2> DEFINE st == db[delivery(d)]
             q == <<st>> \o more
             occur == {st} \cup {more[i] : i \in 1..n}
  <2>1. st \in DeliveryStatus
      BY DEF LockInv, Values
  <2>2. more \in Seq(DeliveryStatus) /\ Len(more) = n /\ n \in Nat
      OBVIOUS
  <2> HIDE DEF st
  <2>3. q \in Seq(DeliveryStatus) /\ Len(q) = n + 1 /\ q # << >> /\ DOMAIN q = 1..(n + 1)
      BY <2>1, <2>2
  <2>4. q[1] = st /\ \A i \in 1..n : q[i + 1] = more[i]
      BY <2>1, <2>2
  <2>5. \A j \in 2..(n + 1) : j - 1 \in 1..n /\ q[j] = more[j - 1]
    <3> TAKE j \in 2..(n + 1)
    <3>1. j - 1 \in 1..n /\ (j - 1) + 1 = j
        BY <2>2
    <3> HIDE DEF q
    <3> QED
        BY <2>4, <3>1
  <2> HIDE DEF q
  <2>6. occur = {q[j] : j \in DOMAIN q}
    <3>1. ASSUME NEW x \in occur PROVE x \in {q[j] : j \in DOMAIN q}
      <4>1. CASE x = st
          BY <2>2, <2>3, <2>4, <4>1
      <4>2. CASE \E i \in 1..n : x = more[i]
        <5>1. PICK i \in 1..n : x = more[i]
            BY <4>2
        <5>2. i + 1 \in DOMAIN q /\ q[i + 1] = x
            BY <2>2, <2>3, <2>4, <5>1
        <5> QED
            BY <5>2
      <4> QED
          BY <3>1, <4>1, <4>2
    <3>2. ASSUME NEW x \in {q[j] : j \in DOMAIN q} PROVE x \in occur
      <4>1. PICK j \in 1..(n + 1) : x = q[j]
          BY <2>3, <3>2
      <4>2. j = 1 \/ j \in 2..(n + 1)
          BY <2>2
      <4> QED
          BY <2>4, <2>5, <4>1, <4>2
    <3> QED
        BY <3>1, <3>2
  <2> HIDE DEF occur
  <2> QED
      BY <2>3, <2>6, AggregateRules DEF q, st, occur
<1> QED
    BY <1>1, LocksHold, PTL
=============================================================================
