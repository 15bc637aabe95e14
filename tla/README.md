# A verification project for notification.system

TLA+ modules that model `notification.system` from the HTTP call to the dropped
partition, TLC configurations that check them on small instances, and TLAPS proofs
for every instance. Source paths are relative to the repository root.

## 1. Inventory

The system accepts notifications over HTTP, stores them in Postgres, moves them
through Redis streams to workers, and sends them to an HTTP provider. Three
programs (API, scheduler, worker) share nothing but Postgres and Redis.

| Component | State | Operations | Interacts with |
| --- | --- | --- | --- |
| HTTP API, authentication (`internal/transport/http`, `platform/auth`) | none of its own | create, create batch, get, list, cancel, get batch | notification service |
| Notification service, templates (`internal/notification`, `internal/template`) | none of its own | `Create`, `CreateBatch`, `Cancel`, `Get`, `List`, `GetBatch`, `Render` | writes requests, deliveries and outbox rows in one transaction; reads from a replica |
| Store (`internal/adapters/postgres`) | `notification_deliveries`, `notification_requests`, `notification_batches`, `templates` | `ClaimDelivery`, `MarkSent`, `MarkRetrying`, `MarkFailed`, `CancelRequest`, `PromoteDue`, `SweepRetries`, `ReapStuck`, `ReconcilePending`, inserts, reads | everyone |
| Outbox and relay (`postgres/outbox.go`, `scheduler/jobs.go`) | unpublished rows; the batch a relay holds in memory | fetch, publish, mark published | Postgres to Redis |
| Queue (`internal/adapters/redis`) | stream entries, consumer group, pending list, `notifications.dlq` | `Publish`, `Read`, `Ack`, `EnsureGroup`, `DLQ.Publish` | relay, workers |
| Worker (`internal/worker`, `cmd/worker`) | reader, channel, goroutines; per goroutine the message, the claimed row as it was, the provider's answer | `Run`, `readLoop`, `process`, `handleFailure`, `requeueWithoutAttempt`, `publishDLQ`, `waitForRateLimit` | queue, store, limiter, breaker, provider |
| Scheduler (`internal/scheduler`) | none between ticks | relay, promotion, retry sweep, reaper, reconciliation, partition maintenance | store, queue |
| Partitions (`migrations/000002`, `000004`) | daily partitions, the default one, the archive | create, archive and drop | scheduler |
| Retry policy (`internal/delivery`) | none | `EvaluateFailure` | worker |
| Provider client, breaker, limiter | breaker counts, tokens | `Send`, `Allow` | worker |
| Metrics, tracing, logging, config, bootstrap | nothing that is read back | | |

What is hard here:

* *Ownership by lease.* A claim is a status and a `locked_until`. The worker that
  made it is not asked when the reaper takes it back, and the writes that end an
  attempt do not ask whether the claim is still its own.
* *At-least-once everywhere.* The relay publishes before it marks, two relays can
  hold one row, reconciliation re-publishes what is merely slow, and messages read
  into memory are lost with the process.
* *Crashes between any two steps* of `process`, of `relayOutbox`, of a submission.
* *Transactions that meet.* Submissions with one key, finishing requests of one batch,
  a cancel against a worker that locks in the opposite order.
* *Denormalised state*: request status and batch counters are maintained by some
  writes and not by others.
* *Two databases*: reads go to a replica that lags, writes to the primary.
* *Time*: leases, backoff, token waits, provider timeout, two clocks, days.

What makes each part correct: one row per idempotency key and the same answer for all
callers; at most one sender per delivery; a terminal status is final and nothing is
sent after it; attempts are bounded and every provider call is accounted for; request
status and counters agree with the deliveries; what is dead-lettered is FAILED; every
accepted notification ends; lists neither skip nor repeat; shutdown drains; retention
loses nothing. `PROJECT.json` lists the hazards at their lines with the properties
that would catch each.

## 2. Modules

| Module | Models | Notes |
| --- | --- | --- |
| `Domain` | statuses, `AggregateRequestStatus`, `bucketColumn` | pure |
| `RetryPolicy` | response classification, `Retry-After`, `EvaluateFailure`, backoff, jitter | a random result is the set of its values |
| `Faults` | budgets for faults and refusals | the environment |
| `Queue` | streams, group, dead-letter stream | a stream is the number of undelivered entries per delivery |
| `Outbox` | outbox rows and relays | extends `Queue`, `Faults` |
| `Store` | the rows and one action per repository method | extends `Outbox`, `Domain` |
| `Worker` | goroutines of the worker, step by step | extends `Store`, `RetryPolicy` |
| `Pipeline` | API, scheduler, workers, faults and the clock together | extends `Worker` |
| `DeliveryLifecycle` | the abstract promise: a delivery waits, is worked on by one sender, is counted, ends | refined by `Pipeline` |
| `Submission` | the two POST calls: authentication, decoding, validation, key look-up, rendering, the inserting transaction by statements | unique indexes, waits, deadlocks |
| `Ledger` | the transactions on deliveries, requests and a batch by statements | row locks, READ COMMITTED; extends `Domain` |
| `Reads` | get, list, cancel and get batch against a replica | keyset pagination; extends `Domain` |
| `Pool` | one worker process: reader, channel, goroutines, shutdown | poison entries, pending list |
| `Retention` | partitions over the days and the maintenance job | |
| `MC*` | instances for TLC | |
| `PipelineProofs`, `LifecycleProofs`, `RecordProofs` | theorems about `Pipeline`: types and ownership, life cycle, records | each extends the one before |
| `LedgerProofs`, `SubmissionProofs`, `PoolProofs`, `ReadsProofs`, `RetentionProofs` | theorems about the module of that name | |

`Pipeline` composes the parts a delivery passes through. The other five modules zoom
into what `Pipeline` takes for one step or for granted: `Submission` into
`CreateNotification` and `CreateBatch`, `Ledger` into the methods of `Store`, `Pool`
into where a worker's message comes from, `Reads` and `Retention` into what the rest of
the system does with the rows. `Ledger`'s `AppearsAtomic` is what justifies one action
per method in `Store`.

How state and actions correspond to the code:

`Pipeline` and the modules below it
* A request has exactly one delivery (`Service.build`), so one index names both.
* A repository method is one transaction and one action, the recompute of the request
  status and the counters included. `process` is cut wherever another process can act:
  claim, token wait, load, provider call, write, dead-letter entry.
* Times are ticks relative to now. `lockedUntil` is what remains of the lease; `left`
  is what remains of the phase a worker is in. Each phase has an upper bound
  (`RateWaitMax + RateWaitStep`, `DbMax`, `ProviderTimeout`, `DbMax`) and time cannot
  pass a phase that has used its bound up. `MaxSkew` is what a claim loses of its lease
  to clock skew and to the time of the `UPDATE`.
* A `Fault` is a crash, a failing call or lost data; a `Refusal` is a missing token or
  an open breaker. Both are bounded by budgets and may strike at any point.
* A call that fails after Postgres committed it is the same as the call followed by a
  crash or an error of the next step, which the model has.
* Entries handed out and not acknowledged are never read again (`Read` asks for `>`
  only), so `Ack` changes nothing here; `Pool` has it.
* `calls` counts provider calls as history and saturates at `MaxCalls`.

`Submission`
* `pc` is the statement a handler is at, `tx` what its open transaction has written.
  `<<c, i>>` names the request, delivery and outbox row of item `i` of call `c`,
  `<<c, 0>>` the batch row. A repeated submission is another call with the same input.
* An insert of a key that another open transaction holds waits for that transaction
  (`WaitsFor`); a circle of such waits is broken by `deadlockDetected`.
* The look-ups run on the primary, as `GetRequestByIdempotencyKey` and
  `GetBatchByIdempotencyKey` do.

`Ledger`
* `db` is the committed version of a row, `cur` the newest, `owner` the transaction that
  has it locked. A statement sees `cur` of its own rows and `db` of all others. An
  `UPDATE` finds its rows in `db`, waits for locked ones and evaluates its condition
  again (`CancelRecheck`).
* Of a lease only its consequence is kept: with `fenced` the reaper never takes a
  delivery from a live worker.
* Who waits for a row is not queued: when it is free, any session may have it, as in
  Postgres, where a waiter that has been woken competes with newcomers. A deadlock is a
  state in which sessions wait in a circle; the victim Postgres picks is one of the
  sessions that `fail`.

`Reads`
* `wal` holds the databases the replica has not passed: its head is what the replica
  shows, its last element the primary. Without a replica `Replay` follows every commit.
* A cursor is `created_at` in nanoseconds and the id; the column has microseconds.

`Pool`
* The history variables `published`, `swallowed` and `processed` are only for the
  properties. `select` picks either case when both are ready.

`Retention`
* A partition is its day, `place` where the row of a delivery is. The two halves of
  `archive_and_drop_partition` are two actions, between which deliveries end and days
  pass. `Horizon` is the number of days all retries take.

## 3. Runs

| Run | Instance | What it shows |
| --- | --- | --- |
| `fenced` | 1 delivery, 2 workers, 1 relay, 2 faults (a flush among them), 1 refusal, 2 attempts, jitter ratio 2, `Retry-After` present and absent; lease 9 = exactly skew 1 + wait 4 + step 1 + 2 statements + timeout 1 | ownership (`NeverReclaimedInFlight`, `SingleSender`), finality (`TerminalIsFinal`, `NoCallAfterTerminal`), counting (`AttemptsBounded`, `SendsAccounted`), agreement (`RequestAgrees`, `DeadLetterIsFailed`), pace (`RetryAfterHonoured`), refinement (`ImplementsLifecycle`), types |
| `short_lease` | 1 delivery in a batch; lease 3, timeout 2: accepted by `Config.validate`, does not cover the pipeline | `CountersAgree` and `AttemptsBounded` survive stale writes |
| `progress` | 1 worker, 2 relays, 1 fault, 1 refusal, `FairSpec` | `EventuallyTerminal` |
| `submission` | 3 concurrent calls, each any of 10 inputs: singles and batches of 2, two users, two keys in header and body, a template, repeated and crossed item keys, an oversized batch; 1 failure; `FairSpec` | one row per key and user for all callers (`AnswersAgree`), the loser finds the winner (`ConflictFindsWinner`), no half requests (`RequestsComplete`), `TotalsAgree`, no call hangs (`EveryCallAnswered`) |
| `ledger` | 2 requests of one batch, 2 workers, 2 cancels, the scheduler; leases fenced or not; any transaction may fail | `AppearsAtomic`, `CountersAgree`, `DeadlocksAreCrossed`, `CancelDecides`; `AggregateFollowsRules` for up to 3 deliveries of a request |
| `retention` | 2 deliveries, window 2 days, 1 day ahead, 6 days, sends up to 1 day ahead, 1 day of retries | `NoneLost`, `AgedAreDropped`, `CreatedAhead` |
| `reads` | 3 notifications of 2 users with 2 timestamps, page sizes 1 and 2, replica 1 commit behind | `PagesComplete`, `NewestFirst`, `ViewCoherent`, `OwnersOnly` |
| `pool` | 2 streams, 5 entries, 1 of them poison, 2 goroutines, batches of 2 | `Drained`, `AckedAfterProcess`, `FedIsProcessed`, `StopExits` |

Why the bounds are enough. `fenced`: one delivery and two workers give every race the
lease and the claim are about, since deliveries only meet in a batch; two faults allow
a fault during the recovery from another; two attempts make both outcomes of the retry
policy occur; the lease is the smallest that satisfies `LeaseCoversPipeline`, so any
step that takes longer breaks it; two entries and two outbox rows per delivery make
duplicates. `submission`: a race needs two calls and a third that comes after or between
them; two keys in two orders make a deadlock; three items exceed `MaxBatchSize`.
`ledger`: counters are lost between two requests of a batch, locks cross on one request;
the second worker and cancel give the bystander, and
the deadlock occurs with and without fenced leases. `reads`: three rows and pages of one
put a page boundary between equal timestamps, with a row committed on either side
between two pages. `pool`: a read of four messages overfills a channel of two while both
goroutines work. `retention`: three drops happen within the six days. Workers, deliveries
and cancels are symmetric where `Symmetry` says so.

`RowIds`, `MaxStream`, `MaxFaults`, `MaxRefusals`, `MaxCalls`, `MaxErrors`, `MaxLag` and
`LastDay` are bounds of the model. `RowIds` and `MaxStream` disable inserts and publishes
at the limit; they only remove behaviours in which even more duplicates exist.

Deadlock is not checked where the system may stop: when all calls are answered
(`submission`), all cancels done and deliveries finished (`ledger`), the days are over
(`retention`), all ids used up (`reads`), the process has exited (`pool`).

Violation runs, each a disagreement between the code and what it says of itself (the
quotations are in `PROJECT.json`):

* `lease_overrun`: the startup check `LeaseTTL > ProviderTimeout` does not keep the
  reaper away from a delivery in flight, because half the lease may go into the wait
  for a token. What does is `LeaseCoversPipeline`; the theorems are stated under it.
  After such an overrun a late write may even replace a terminal status.
* `early_retry`: a duplicate message makes a worker claim a RETRYING delivery before
  its `next_retry_at`.
* `redis_flush`: after a flush, running workers read nothing until one is restarted.
* `retention_drop`: the run drops a partition with a notification in it that is
  scheduled further ahead than the retention window; it is neither archived nor sent.
  `NoneLost` says what holds instead: nothing is lost when the window covers sends and
  retries.

Fairness.
* `Pipeline` (`FairSpec`): weak fairness of the clock, of each scheduler job and relay (a
  ticker fires again and again, `runLoop`), and of each worker (`process` runs under
  `context.WithoutCancel`; a stopped process is restarted by the `restart:
  unless-stopped` of `docker-compose.yml`). Nothing is assumed of the API. Faults and
  refusals are finite by their budgets: an outage that never ends is not recovered from.
  Weak fairness suffices because every job stays enabled until it or a rival has acted.
* `Submission` (`FairSpec`): weak fairness of each handler goroutine and of Postgres'
  deadlock detector. A handler that waits for a key is not enabled, so the property
  rests on every transaction ending.
* `Pool` (`Spec`): weak fairness of the reader and of each goroutine, that is of the Go
  scheduler, and of `process` returning: its token wait and its provider call have time
  limits. Nothing is assumed of the signal or the relay.

## 4. Proofs

All theorems hold for any sets of deliveries, workers, relays and batches and any
settings that satisfy the named assumptions of the modules (`...Assumption`), which TLC
evaluates in every run.

`PipelineProofs`
: `TypeCorrect`: `Spec => []TypeOK`, one lemma per repository method and one case per
  action. `JitterType` and `EvaluateFailureOutcome` carry the retry policy,
  `RecomputeType` the counters.
: `NeverReclaimed`, `OneSender`: under `LeaseCoversPipeline`. `NeverReclaimedInFlight`
  is not inductive, it says nothing about time. The invariant `OwnInv` adds
  `LeaseHeld` (what remains of the worker's phase plus the longest it may take after
  it fits into what remains of its lease) and `ClaimFresh` (the attempt count it holds
  is the row's). A claim establishes it by `LeaseCoversPipeline`; entering the next
  phase never needs more than was reserved (`Advances`); a tick takes one from both
  sides (`TickOwn`); everything else leaves leased rows alone (`Bystander`, `Leaves`).

`LifecycleProofs`
: `AttemptsNeverExceeded`: without any condition on the lease. The strengthening is
  that the copy of the attempt count a worker holds is below `MaxAttempts`, since that
  copy is what even a stale worker writes.
: `Refinement`: `Spec => ImplementsLifecycle` under `LeaseCoversPipeline`; every step
  is a `Move`, an `Attempted` or a stutter of `DeliveryLifecycle`, by `OwnInv` and the
  attempt invariant.
: `TerminalFinal` follows from the refinement: no step of the life cycle leaves a final
  phase. `NoLateCall` follows from ownership.

`RecordProofs`
: `RequestsAgree`, `DeadLettersFailed`, `EverySendAccounted`, `RetryAfterKept`: under
  `LeaseCoversPipeline`, since a stale worker's write may break each of them.
  `RequestAgrees` and `SendsAccounted` are inductive relative to `OwnInv`: a step leaves
  the denormalised columns alone, inserts rows, or recomputes the request of the one row
  it finishes (`Untouched`, `Inserts`, `Finishes`), and what a worker writes comes down
  to three cases (`Writes`). Between `MarkFailed` and `publishDLQ` a dead letter exists
  only in the worker's hands; `DeadLetterInHand` speaks of it. `RetryAfterHonoured` is an
  action property: the write of a 429 is the owner's, so it is the worker that holds the
  answer.
: `CountersExact`: without any condition on the lease. The strengthening says that a
  delivery that does not exist yet is in no batch; `RequestMoved` (in
  `LedgerProofs`: `AdjustedCounts`) turns the clamped `+1`/`-1` into cardinalities and
  shows that the clamp at zero never acts.

`LedgerProofs`
: `LocksHold`: `Spec => []LockInv`. A session holds exactly the locks its statement
  implies (`Locks`), a row nobody has locked has no version but the committed one
  (`Clean`), and what a session has written or remembers is what its commit needs
  (`Work`): the old request status it read is still the committed one, and its counters
  are the committed ones adjusted. A step of one session touches no row of another
  (`RowsFrame`, `LocalsFrame`).
: `MethodsAppearAtomic` follows: at its commit a transaction replaces the committed rows
  by those of an atomic method. `BatchCountersExact` and `LedgerTypes` add `Counting`.
  None of the three needs fenced leases.
: `CancelsDecide`: `FenceInv` says that with fenced leases a worker's delivery is
  PROCESSING in every snapshot and no other worker's (`Claims`), so that a cancel that
  commits takes it from nobody.
: `OneKindOfDeadlock`: whoever is waited for and waits holds a lock (`WaitedForHolds`), so
  it is at its request, at the batch, or a cancel in its second look. The owner of the
  batch is about to commit and waits for nobody. Of two clients with the same request one
  has the delivery and the other the request (`CrossedWaits`): a worker and a cancel. No
  condition on leases is needed but for the last conjunct, which is `Claims`.
: `AggregateIsItsRules` rests on the lemma `AggregateRules`, which is about any number
  of deliveries; the run enumerates up to three.

`SubmissionProofs`
: `SubmissionHolds`: `Spec => []SubmissionInv`. What makes `AnswersAgree` inductive is
  `KeysUnique`, the unique indexes stated over committed *and* open transactions (`Made`,
  `MadeBatches`): an insert waits for an open transaction with its key, so two open
  transactions never hold one key and either may commit. `TxRows` says which rows a
  transaction has at each statement, so that a commit brings complete requests and the
  right total; `Told` says that whoever was told of a row was told of the one its key
  stands for, and that a call looking up after a conflict has something to find.
: `SubmissionTypes`, `DuplicatesAgree`, `LoserFindsWinner`, `SubmissionsComplete`,
  `BatchTotals` follow. The only assumption about the inputs is that the items of each
  are a sequence.

`PoolProofs`
: `PoolHolds`: `Spec => []PoolInv`. `Drained` is about the moment `Run` has returned; the
  invariant says all along where a message that was handed out and not processed is
  (`InFlight`: with the reader, in the channel, with a goroutine, or swallowed by a failed
  read), what the place of the reader says about its batch and the channel (`ReaderInv`),
  and that a goroutine returns only from a closed and empty channel (`ReturnedInv`).
: `PoolTypes`, `RunDrains` and `AtLeastOnce` follow, for any number of goroutines and
  streams.

`ReadsProofs`
: `ReadsHold`: `Spec => []ReadsInv`. `WalOK`: from each database to every later one rows
  stay, `user_id` and `created_at` never change and only a PENDING status does (`Later`).
  `SeenInv`: all pages so far are in order and the cursor is the last row shown.
  `CoverInv`: what matched when the list began and still does was seen or lies behind the
  cursor; it is kept while the replica moves because a status other than PENDING is
  settled in all databases to come (`BeforeInv`), so nothing can stop matching and match
  again. `SessionMoves` is that argument, once for commits and replay together.
: `PagesSkipNothing`, `PagesNewestFirst`, `ViewsCoherent`, `OwnersOnlyHold`, `ReadsTypes`
  follow, for every page size, lag and order of commits. They rest on lemmas about the
  operators: a finite set of rows can be listed newest first and in one way complete
  (`ListExists`, `NewestLists`, `ListsAll`), a page is the front of that list
  (`ListPage`), and a cursor comes back as the row it was made of at any resolution of
  the column (`CursorRoundTrip`).

`RetentionProofs`
: `RetentionTypes`, `NothingLost`, `AgedDropped`, `PartitionsAhead`, from one inductive
  invariant `Inv`. `NoneLost` alone is not inductive: `RowInv` says how long a row can
  be live, `JobInv` that the job's date is not ahead of the calendar, so that by
  `AgedTerminal` everything in the partition it drops is terminal; `CopyInv` keeps the
  copy complete between the two halves of the function. `RhythmInv` bounds how far a run
  can fall behind while no day is missed; `AheadInv` speaks of all days from today on,
  of the last loop without an error and of the loop that is going on.

Facts that need an induction over data (what the fold over the streams of one read
contains, that a finite set can be sorted) are proved by least counterexamples: the set
of sizes at which the fact fails is a set of naturals, and if it is not empty its least
element (`LeastNumber`) is refuted. `Decoded` in `Pool` and `Newest` in `Reads` are written
with a fold and a `CHOOSE` for that reason; the library's filter and sort are opaque to
the prover.

Only model-checked: liveness (`EventuallyTerminal`, `EveryCallAnswered`,
`FedIsProcessed`, `StopExits`), since the prover has neither fairness nor `ENABLED`. Every
invariant and every action property of the passing runs is a theorem.

## 5. Smaller disagreements between code and documentation

Met while modelling, each plain from one line of code, so no run is spent on them:

* A 503's `Retry-After` is ignored (`webhook.go:107`); `README.md:261` promises it.
  `RetryAfterHonoured` is therefore about the 429.
* The dead-letter reason is always `exhausted_retries`: `process.go:142` looks at an
  attempt count that has been incremented.
* `FetchUnpublishedOutbox` runs `FOR UPDATE SKIP LOCKED` outside a transaction
  (`outbox.go:32`), so two relays can fetch the same rows. The claim absorbs it.
* A crash between `MarkFailed` and `publishDLQ` (`process.go:117-154`), or a failing
  publish, leaves a FAILED delivery that never reaches the dead-letter stream, to which
  `README.md:367` says terminal failures are published.
* `maintainPartitions` "archives+drops aged ones" (`jobs.go:115`), but a run names the one
  partition that is `RetentionDays + 1` days old (`jobs.go:127`): a day without a finished
  run leaves its partition behind for good. `AgedAreDropped` is about days without a gap.
* The created metric counts the duplicate items of a batch (`notification/batch.go:72-74`).
* `maxContentLength` is called the "maximum rendered content length" (`input.go:12`), but
  content rendered from a template is not checked (`input.go:48-52`).
* `OldestDueLagSeconds` says "Zero when nothing is overdue" and returns an error then
  (`postgres/scheduler.go:182-205`), so the gauge keeps its last value.
* Reads after writes go to the replica: a notification that was just accepted may be
  answered with 404, and one that was just cancelled shown as PENDING. `ViewCoherent` and
  `OwnersOnly` are what holds with any lag.

One thing the code says nothing of: `MarkSent` or `MarkFailed` and `CancelRequest` can
deadlock. The scheduler has a due delivery locked, the cancel's `UPDATE` waits for it
with the request locked, the scheduler commits, and before the cancel has the row a
worker claims it, sends, and marks it; now each waits for the other. Postgres aborts one.
If it is the cancel, its caller gets an error; if it is the worker, the notification was
sent, is not recorded, and is sent again after the lease. `DeadlocksAreCrossed` says that
this is the only shape a deadlock has, `AppearsAtomic` and, with fenced leases,
`CancelDecides` that either victim leaves the rows and the answers true.

## 6. Plan

Done: the pipeline, submission, ledger, reads, worker pool and retention, each with its
runs and with theorems for all its safety properties. Left, in this order:

1. The refinement of `Store` by `Ledger` as such: `AppearsAtomic` says that the committed
   rows change as if each method were one step; an abstract module of the methods alone,
   instantiated by `Ledger` with `db`, would say so in one formula.
2. An abstract specification of idempotent submission (a key is bound at most once) that
   `Submission` implements.
3. The findings of the violation runs from the other side: the weakest condition on the
   lease, and on the window of `retention`, under which each theorem holds.

## 7. Not modelled

* Metrics, tracing, logging, bootstrap: output and wiring, never read back.
* Parsing of the environment; of the configuration only what `validate` relates.
* What redis_rate, x/time/rate and gobreaker compute: nondeterministic grants and
  refusals. The breaker's counting window and half-open probes are theirs.
* The text of messages, templates and errors, and which of several validation messages
  is returned.
* Signing and expiry of tokens.
* Which priority is served first under load: `Pool` has the order within one read; the
  code gives no guarantee across reads.
* The relay's tight loop over a full batch while Redis is down (a spin without
  progress), a torn state of the shared `rand.Rand` (the jitter is any value of its
  range already), and durations beyond 292 years.
* The purge of published outbox rows: no code reads them.
