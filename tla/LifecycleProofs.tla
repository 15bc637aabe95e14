--------------------------- MODULE LifecycleProofs ---------------------------
(***************************************************************************)
(* That Pipeline implements DeliveryLifecycle, and what follows from it.   *)
(* The bound on the attempts holds whatever the lease; the refinement and  *)
(* its consequences need a lease that covers the pipeline.                 *)
(***************************************************************************)
EXTENDS PipelineProofs

-----------------------------------------------------------------------------
(* AttemptsBounded is not inductive: a worker writes the attempt count it  *)
(* was given at its claim, so that copy has to be bounded too.             *)

ClaimHasAttempt == \A w \in Workers : InFlight(w) => attempt[w] < MaxAttempts

AttemptInv == AttemptsBounded /\ ClaimHasAttempt

\* The count of row d stays, and a finished row does not come back.
CountKept(d) ==
    /\ attemptCount'[d] = attemptCount[d]
    /\ ~IsTerminal(status'[d]) => ~IsTerminal(status[d])

\* A step that counts nothing and hands out no claim keeps the bound.
LEMMA NothingCounted ==
    ASSUME AttemptInv, \A d \in Deliveries : CountKept(d),
           \A w \in Workers : InFlight(w)' => InFlight(w) /\ attempt'[w] = attempt[w]
    PROVE  AttemptInv'
    BY DEF AttemptInv, AttemptsBounded, ClaimHasAttempt, CountKept

\* The write that ends an attempt keeps the bound if the count it writes does.
LEMMA OneCounted ==
    ASSUME TypeOK, AttemptInv, NEW w \in Workers, NEW n \in Nat, n <= MaxAttempts,
           job[w] \in Deliveries,
           attemptCount'[job[w]] = n,
           ~IsTerminal(status'[job[w]]) => n < MaxAttempts,
           \A d \in Deliveries \ {job[w]} : CountKept(d),
           ~InFlight(w)',
           \A v \in Workers \ {w} :
              InFlight(v)' => InFlight(v) /\ attempt'[v] = attempt[v]
    PROVE  AttemptInv'
    BY DEF AttemptInv, AttemptsBounded, ClaimHasAttempt, CountKept

\* AttemptInv is kept by everything a worker does, stale writes included.
LEMMA WorkerStepAttempts ==
    ASSUME TypeOK, AttemptInv, NEW w \in Workers, WorkerStep(w)
    PROVE  AttemptInv'
<1>a. MaxAttempts \in Nat
    BY RetryPolicyAssumption
<1>b. ASSUME NEW phase \in {"idle", "down"}, Done(w, phase)
      PROVE  /\ ~InFlight(w)'
             /\ \A v \in Workers \ {w} :
                   InFlight(v)' => InFlight(v) /\ attempt'[v] = attempt[v]
    BY <1>b DEF Done, InFlight, TypeOK, WorkersTypeOK
<1>c. ASSUME UNCHANGED storeVars
      PROVE  \A d \in Deliveries : CountKept(d)
    BY <1>c DEF storeVars, rowVars, CountKept
<1>1. CASE (\E d \in Deliveries : ReadMessage(w, d)) \/ TokenGranted(w) \/ TokenDenied(w)
           \/ CallProvider(w) \/ BreakerOpen(w) \/ ProviderReturns(w)
  <2>1. UNCHANGED storeVars /\ attempt' = attempt
      BY <1>1 DEF ReadMessage, TokenGranted, TokenDenied, CallProvider, BreakerOpen,
                  ProviderReturns
  <2>2. \A v \in Workers : InFlight(v)' => InFlight(v)
      BY <1>1 DEF ReadMessage, TokenGranted, TokenDenied, CallProvider, BreakerOpen,
                  ProviderReturns, Enter, InFlight, TypeOK, WorkersTypeOK
  <2> QED
      BY <2>1, <2>2, <1>c, NothingCounted
<1>2. CASE Claim(w)
  <2>1. job[w] \in Deliveries /\ Claimable(job[w]) /\ attemptCount' = attemptCount
      BY <1>2 DEF Claim, ClaimDelivery, TypeOK, WorkersTypeOK
  <2>2. status' = [status EXCEPT ![job[w]] = "PROCESSING"]
      BY <1>2 DEF Claim, ClaimDelivery
  <2>3. \A d \in Deliveries : CountKept(d)
      BY <2>1, <2>2 DEF CountKept, Claimable, IsTerminal, Terminal, TypeOK, RowsTypeOK
  <2>4. attempt'[w] = attemptCount[job[w]] /\ attemptCount[job[w]] < MaxAttempts
      BY <1>2, <2>1 DEF Claim, Claimable, AttemptInv, AttemptsBounded, IsTerminal,
                        Terminal, TypeOK, WorkersTypeOK
  <2>5. \A v \in Workers \ {w} : InFlight(v)' => InFlight(v) /\ attempt'[v] = attempt[v]
      BY <1>2 DEF Claim, Enter, InFlight, TypeOK, WorkersTypeOK
  <2> QED
      BY <2>3, <2>4, <2>5 DEF AttemptInv, AttemptsBounded, ClaimHasAttempt, CountKept
<1>3. CASE SkipDuplicate(w) \/ publishDLQ(w) \/ StepFails(w) \/ Crash(w) \/ Start(w)
  <2>1. UNCHANGED storeVars /\ \E phase \in {"idle", "down"} : Done(w, phase)
      BY <1>3 DEF SkipDuplicate, publishDLQ, StepFails, Crash, Start
  <2> QED
      BY <2>1, <1>b, <1>c, NothingCounted
<1>4. CASE PersistSent(w) \/ requeueWithoutAttempt(w) \/ handleFailure(w)
  <2>1. /\ job[w] \in Deliveries /\ attempt[w] \in Nat /\ attempt[w] < MaxAttempts
        /\ attemptCount[job[w]] \in Nat /\ attemptCount[job[w]] <= MaxAttempts
      BY <1>4 DEF PersistSent, requeueWithoutAttempt, handleFailure, InFlight, AttemptInv,
                  AttemptsBounded, ClaimHasAttempt, TypeOK, WorkersTypeOK, RowsTypeOK
  <2> USE DEF TypeOK, RowsTypeOK, CountKept, IsTerminal, Terminal
  <2>2. CASE PersistSent(w)
    <3>1. /\ attemptCount' = attemptCount /\ status'[job[w]] = "SENT"
          /\ \A d \in Deliveries \ {job[w]} : CountKept(d)
        BY <2>1, <2>2 DEF PersistSent, MarkSent
    <3> QED
        BY <2>1, <2>2, <3>1, <1>b, OneCounted DEF PersistSent
  <2>3. ASSUME NEW n \in Nat, NEW m, n < MaxAttempts, MarkRetrying(job[w], n, m),
               Done(w, "idle")
        PROVE  AttemptInv'
    <3>1. /\ attemptCount'[job[w]] = n
          /\ \A d \in Deliveries \ {job[w]} : CountKept(d)
        BY <2>1, <2>3 DEF MarkRetrying
    <3> QED
        BY <2>1, <2>3, <3>1, <1>a, <1>b, OneCounted
  <2>4. CASE requeueWithoutAttempt(w)
      BY <2>1, <2>3, <2>4 DEF requeueWithoutAttempt
  <2>5. CASE handleFailure(w)
    <3> PICK o \in EvaluateFailure(attempt[w], Classify(resp[w])) :
            \/ /\ o.status = "FAILED"
               /\ MarkFailed(job[w], o.attemptCount)
               /\ Enter(w, "dlq", 0)
               /\ attempt' = [attempt EXCEPT ![w] = o.attemptCount]
            \/ /\ o.status = "RETRYING"
               /\ MarkRetrying(job[w], o.attemptCount, o.wait)
               /\ Done(w, "idle")
        BY <2>5 DEF handleFailure
    <3>1. /\ o.attemptCount = attempt[w] + 1
          /\ o.status = "RETRYING" => attempt[w] + 1 < MaxAttempts
        BY <2>1, <2>5, EvaluateFailureOutcome DEF handleFailure
    <3>2. CASE o.status = "RETRYING"
        BY <2>1, <2>3, <3>1, <3>2
    <3>3. CASE o.status = "FAILED"
      <4>1. MarkFailed(job[w], attempt[w] + 1) /\ Enter(w, "dlq", 0)
          BY <3>1, <3>3
      <4>2. /\ attemptCount'[job[w]] = attempt[w] + 1 /\ status'[job[w]] = "FAILED"
            /\ \A d \in Deliveries \ {job[w]} : CountKept(d)
          BY <2>1, <4>1 DEF MarkFailed
      <4>3. /\ ~InFlight(w)'
            /\ \A v \in Workers \ {w} :
                  InFlight(v)' => InFlight(v) /\ attempt'[v] = attempt[v]
          BY <3>3, <4>1 DEF Enter, InFlight, WorkersTypeOK
      <4> QED
          BY <2>1, <4>2, <4>3, <1>a, OneCounted
    <3> QED
        BY <3>2, <3>3
  <2> QED
      BY <1>4, <2>2, <2>4, <2>5
<1> QED
    BY <1>1, <1>2, <1>3, <1>4 DEF WorkerStep, process

\* AttemptInv is inductive.
LEMMA AttemptStep == TypeOK /\ AttemptInv /\ [Next]_vars => AttemptInv'
<1> SUFFICES ASSUME TypeOK, AttemptInv, [Next]_vars
             PROVE  AttemptInv'
    OBVIOUS
<1> USE DEF CountKept, IsTerminal, Terminal
<1>a. ASSUME UNCHANGED workerVars, \A d \in Deliveries : CountKept(d)
      PROVE  AttemptInv'
    BY <1>a, NothingCounted DEF workerVars, InFlight
<1>b. ASSUME UNCHANGED <<workerVars, storeVars>>
      PROVE  AttemptInv'
    BY <1>a, <1>b DEF storeVars, rowVars
<1>1. ASSUME NEW S \in SUBSET Deliveries, NEW wait, insertRows(S, wait), UNCHANGED workerVars
      PROVE  AttemptInv'
    BY <1>1, <1>a DEF insertRows
<1>2. ASSUME NEW d \in Deliveries, Create(d) \/ Cancel(d)
      PROVE  AttemptInv'
  <2>1. CASE Create(d)
      BY <2>1, <1>1 DEF Create, CreateNotification
  <2>2. CASE Cancel(d)
      BY <2>2, <1>a DEF Cancel, CancelRequest, TypeOK, RowsTypeOK
  <2> QED
      BY <1>2, <2>1, <2>2
<1>3. ASSUME NEW b \in Batches, NEW S \in SUBSET Deliveries, SubmitBatch(b, S)
      PROVE  AttemptInv'
    BY <1>3, <1>1 DEF SubmitBatch, CreateBatch
<1>4. CASE promoteDue \/ sweepRetries
  <2>1. /\ UNCHANGED workerVars
        /\ \E from \in {"SCHEDULED", "RETRYING"} : transitionAndEnqueue(from)
      BY <1>4 DEF promoteDue, sweepRetries, PromoteDue, SweepRetries
  <2>2. \A d \in Deliveries : CountKept(d)
      BY <2>1 DEF transitionAndEnqueue
  <2> QED
      BY <2>1, <2>2, <1>a
<1>5. CASE reapStuck
    BY <1>5, <1>a DEF reapStuck, ReapStuck, Expired
<1>6. CASE reconcile \/ Flush \/ UNCHANGED vars
    BY <1>6, <1>b DEF reconcile, ReconcilePending, Flush, vars
<1>7. ASSUME NEW r \in Relays, Relay(r)
      PROVE  AttemptInv'
    BY <1>7, <1>b DEF Relay
<1>8. ASSUME NEW d \in Deliveries, DropRead(d)
      PROVE  AttemptInv'
    BY <1>8, <1>b DEF DropRead
<1>9. ASSUME NEW w \in Workers, WorkerStep(w)
      PROVE  AttemptInv'
    BY <1>9, WorkerStepAttempts
<1>10. CASE Tick
    BY <1>10, NothingCounted DEF Tick, AgeRows, AgeWorkers, InFlight
<1> QED
    BY <1>2, <1>3, <1>4, <1>5, <1>6, <1>7, <1>8, <1>9, <1>10 DEF Next, API, Scheduler

\* No attempt has been made in the initial state.
LEMMA AttemptInit == Init => AttemptInv
    BY RetryPolicyAssumption
       DEF Init, StoreInit, WorkerInit, AttemptInv, AttemptsBounded, ClaimHasAttempt, InFlight

\* No delivery uses more than MAX_ATTEMPTS, and an unfinished one has an
\* attempt left, even when leases expire under their workers.
THEOREM AttemptsNeverExceeded == Spec => []AttemptsBounded
<1>1. AttemptInv => AttemptsBounded
    BY DEF AttemptInv
<1>2. Spec => []AttemptInv
    BY TypeCorrect, AttemptInit, AttemptStep, PTL DEF Spec
<1> QED
    BY <1>1, <1>2, PTL

-----------------------------------------------------------------------------
(* The refinement: every step of the pipeline moves the phases of the      *)
(* deliveries as a step of the life cycle, or not at all.                  *)

\* The phase each status stands for.
LEMMA Phase ==
    /\ PhaseOf("NONE") = "absent"
    /\ PhaseOf("PROCESSING") = "sending"
    /\ \A st \in {"SCHEDULED", "PENDING", "RETRYING"} : PhaseOf(st) = "waiting"
    /\ \A st \in {"SENT", "FAILED", "CANCELLED"} : PhaseOf(st) = st
    BY DEF PhaseOf, IsTerminal, Terminal

\* Rows whose phases move together, uncounted, are a Move of the life cycle.
LEMMA MoveBy ==
    ASSUME NEW S \in SUBSET Deliveries, NEW from, NEW to,
           \A d \in S : PhaseOf(status[d]) = from /\ PhaseOf(status'[d]) = to,
           \A d \in Deliveries \ S : PhaseOf(status'[d]) = PhaseOf(status[d]),
           attemptCount' = attemptCount
    PROVE  Lifecycle!Move(S, from, to)
    BY DEF Lifecycle!Move

\* A counted write is an Attempted step of the life cycle.
LEMMA AttemptedBy ==
    ASSUME NEW d \in Deliveries, NEW to,
           PhaseOf(status[d]) = "sending",
           PhaseOf(status'[d]) = to,
           \A e \in Deliveries \ {d} : PhaseOf(status'[e]) = PhaseOf(status[e]),
           attemptCount' = [attemptCount EXCEPT ![d] = attemptCount[d] + 1],
           attemptCount[d] + 1 <= MaxAttempts,
           to = "waiting" => attemptCount[d] + 1 < MaxAttempts
    PROVE  Lifecycle!Attempted(d, to)
    BY DEF Lifecycle!Attempted

\* Rows and counts that do not move leave the life cycle where it is.
LEMMA NoMove ==
    ASSUME \A d \in Deliveries : PhaseOf(status'[d]) = PhaseOf(status[d]),
           attemptCount' = attemptCount
    PROVE  UNCHANGED Lifecycle!lifecycleVars
    BY DEF Lifecycle!lifecycleVars

\* What a worker writes, it writes to the row it owns: a step of its life.
LEMMA WorkerStepSimulates ==
    ASSUME TypeOK, OwnInv, AttemptInv, NEW w \in Workers, WorkerStep(w)
    PROVE  [Lifecycle!Next]_(Lifecycle!lifecycleVars)
<1>1. CASE UNCHANGED storeVars
    BY <1>1, NoMove DEF storeVars, rowVars
<1>2. CASE Claim(w)
  <2>1. /\ job[w] \in Deliveries /\ Claimable(job[w]) /\ attemptCount' = attemptCount
        /\ status' = [status EXCEPT ![job[w]] = "PROCESSING"]
      BY <1>2 DEF Claim, ClaimDelivery, TypeOK, WorkersTypeOK
  <2>2. Lifecycle!Move({job[w]}, "waiting", "sending")
      BY <2>1, Phase, MoveBy DEF Claimable, TypeOK, RowsTypeOK
  <2> QED
      BY <2>1, <2>2 DEF Lifecycle!Next, Lifecycle!Begin
<1>3. CASE PersistSent(w) \/ requeueWithoutAttempt(w) \/ handleFailure(w)
  <2>1. /\ job[w] \in Deliveries /\ InFlight(w) /\ attempt[w] \in Nat
        /\ MaxAttempts \in Nat
      BY <1>3, RetryPolicyAssumption
         DEF PersistSent, requeueWithoutAttempt, handleFailure, InFlight, TypeOK, WorkersTypeOK
  <2>2. /\ status[job[w]] = "PROCESSING" /\ attempt[w] = attemptCount[job[w]]
        /\ attempt[w] < MaxAttempts
      BY <2>1 DEF OwnInv, LeaseHeld, ClaimFresh, AttemptInv, ClaimHasAttempt
  <2>3. CASE PersistSent(w)
    <3>1. attemptCount' = attemptCount /\ status' = [status EXCEPT ![job[w]] = "SENT"]
        BY <2>3 DEF PersistSent, MarkSent
    <3>2. Lifecycle!Move({job[w]}, "sending", "SENT")
        BY <2>1, <2>2, <3>1, Phase, MoveBy DEF TypeOK, RowsTypeOK
    <3> QED
        BY <2>1, <3>2 DEF Lifecycle!Next, Lifecycle!Succeed
  <2>4. CASE requeueWithoutAttempt(w)
    <3>1. attemptCount' = attemptCount /\ status' = [status EXCEPT ![job[w]] = "RETRYING"]
        BY <2>1, <2>2, <2>4 DEF requeueWithoutAttempt, MarkRetrying, TypeOK, RowsTypeOK
    <3>2. Lifecycle!Move({job[w]}, "sending", "waiting")
        BY <2>1, <2>2, <3>1, Phase, MoveBy DEF TypeOK, RowsTypeOK
    <3> QED
        BY <2>1, <3>2 DEF Lifecycle!Next, Lifecycle!GiveBack
  <2>5. CASE handleFailure(w)
    <3> PICK o \in EvaluateFailure(attempt[w], Classify(resp[w])) :
            \/ o.status = "FAILED" /\ MarkFailed(job[w], o.attemptCount)
            \/ o.status = "RETRYING" /\ MarkRetrying(job[w], o.attemptCount, o.wait)
        BY <2>5 DEF handleFailure
    <3>1. /\ o.attemptCount = attempt[w] + 1
          /\ o.status = "RETRYING" => attempt[w] + 1 < MaxAttempts
        BY <2>1, <2>5, EvaluateFailureOutcome DEF handleFailure
    <3>2. /\ attemptCount' = [attemptCount EXCEPT ![job[w]] = attemptCount[job[w]] + 1]
          /\ status' = [status EXCEPT ![job[w]] = o.status]
          /\ o.status \in {"FAILED", "RETRYING"}
        BY <2>2, <3>1 DEF MarkFailed, MarkRetrying
    <3>3. /\ PhaseOf(status[job[w]]) = "sending"
          /\ PhaseOf(status'[job[w]]) = PhaseOf(o.status)
          /\ \A e \in Deliveries \ {job[w]} : PhaseOf(status'[e]) = PhaseOf(status[e])
        BY <2>1, <2>2, <3>2, Phase DEF TypeOK, RowsTypeOK
    <3>4. CASE o.status = "FAILED"
      <4>1. /\ attemptCount[job[w]] + 1 <= MaxAttempts
            /\ "FAILED" = "waiting" => attemptCount[job[w]] + 1 < MaxAttempts
            /\ PhaseOf(status'[job[w]]) = "FAILED"
          BY <2>1, <2>2, <3>3, <3>4, Phase
      <4>2. Lifecycle!Attempted(job[w], "FAILED")
          BY <2>1, <3>2, <3>3, <4>1, AttemptedBy, Zenon
      <4> QED
          BY <2>1, <4>2 DEF Lifecycle!Next
    <3>5. CASE o.status = "RETRYING"
      <4>1. /\ attemptCount[job[w]] + 1 <= MaxAttempts
            /\ attemptCount[job[w]] + 1 < MaxAttempts
            /\ PhaseOf(status'[job[w]]) = "waiting"
          BY <2>1, <2>2, <3>1, <3>3, <3>5, Phase
      <4>2. Lifecycle!Attempted(job[w], "waiting")
          BY <2>1, <3>2, <3>3, <4>1, AttemptedBy, Zenon
      <4> QED
          BY <2>1, <4>2 DEF Lifecycle!Next
    <3> QED
        BY <3>2, <3>4, <3>5
  <2> QED
      BY <1>3, <2>3, <2>4, <2>5
<1> QED
    BY <1>1, <1>2, <1>3
       DEF WorkerStep, process, ReadMessage, SkipDuplicate, TokenGranted, TokenDenied,
           CallProvider, BreakerOpen, ProviderReturns, publishDLQ, StepFails, Crash, Start

\* Every step of the pipeline is a step of the life cycle or leaves it alone.
LEMMA Simulates ==
    ASSUME TypeOK, OwnInv, AttemptInv, [Next]_vars
    PROVE  [Lifecycle!Next]_(Lifecycle!lifecycleVars)
<1>a. CASE UNCHANGED <<status, attemptCount>>
    BY <1>a, NoMove
<1>1. ASSUME NEW S \in SUBSET Deliveries, NEW wait, insertRows(S, wait)
      PROVE  Lifecycle!Next
  <2>1. /\ \A d \in S : status[d] = "NONE" /\ status'[d] \in {"PENDING", "SCHEDULED"}
        /\ \A d \in Deliveries \ S : status'[d] = status[d]
        /\ attemptCount' = attemptCount
      BY <1>1 DEF insertRows
  <2>2. Lifecycle!Move(S, "absent", "waiting")
      BY <2>1, Phase, MoveBy
  <2> QED
      BY <2>2 DEF Lifecycle!Next, Lifecycle!Accept
<1>2. ASSUME NEW d \in Deliveries, Create(d) \/ Cancel(d)
      PROVE  Lifecycle!Next
  <2>1. CASE Create(d)
      BY <2>1, <1>1 DEF Create, CreateNotification
  <2>2. CASE Cancel(d)
    <3>1. /\ status[d] \in {"SCHEDULED", "PENDING", "RETRYING"}
          /\ status' = [status EXCEPT ![d] = "CANCELLED"]
          /\ attemptCount' = attemptCount
        BY <2>2 DEF Cancel, CancelRequest
    <3>2. Lifecycle!Move({d}, "waiting", "CANCELLED")
        BY <3>1, Phase, MoveBy DEF TypeOK, RowsTypeOK
    <3> QED
        BY <3>2 DEF Lifecycle!Next, Lifecycle!Cancel
  <2> QED
      BY <1>2, <2>1, <2>2
<1>3. ASSUME NEW b \in Batches, NEW S \in SUBSET Deliveries, SubmitBatch(b, S)
      PROVE  Lifecycle!Next
    BY <1>3, <1>1 DEF SubmitBatch, CreateBatch
<1>4. CASE promoteDue \/ sweepRetries
  <2>1. \E from \in {"SCHEDULED", "RETRYING"} : transitionAndEnqueue(from)
      BY <1>4 DEF promoteDue, sweepRetries, PromoteDue, SweepRetries
  <2>2. /\ \A d \in Deliveries :
              \/ status'[d] = status[d]
              \/ /\ status[d] \in {"SCHEDULED", "RETRYING"}
                 /\ status'[d] = "PENDING"
        /\ attemptCount' = attemptCount
      BY <2>1 DEF transitionAndEnqueue
  <2> QED
      BY <2>2, Phase, NoMove
<1>5. CASE reapStuck
  <2> DEFINE S == {d \in Deliveries : Expired(d)}
  <2>1. /\ \A d \in S : status[d] = "PROCESSING" /\ status'[d] = "RETRYING"
        /\ \A d \in Deliveries \ S : status'[d] = status[d]
        /\ attemptCount' = attemptCount
      BY <1>5 DEF reapStuck, ReapStuck, Expired
  <2>2. Lifecycle!Move(S, "sending", "waiting")
      BY <2>1, Phase, MoveBy
  <2> QED
      BY <2>2 DEF Lifecycle!Next, Lifecycle!GiveBack
<1>6. CASE reconcile \/ Flush \/ UNCHANGED vars \/ Tick
           \/ (\E r \in Relays : Relay(r)) \/ (\E d \in Deliveries : DropRead(d))
    BY <1>6, <1>a DEF reconcile, ReconcilePending, Flush, vars, Tick, AgeRows, Relay,
                      DropRead, storeVars, rowVars
<1>7. ASSUME NEW w \in Workers, WorkerStep(w)
      PROVE  [Lifecycle!Next]_(Lifecycle!lifecycleVars)
    BY <1>7, WorkerStepSimulates
<1> QED
    BY <1>2, <1>3, <1>4, <1>5, <1>6, <1>7 DEF Next, API, Scheduler

\* The initial rows are the initial state of the life cycle.
LEMMA InitSimulates == Init => Lifecycle!Init
    BY Phase DEF Init, StoreInit, Lifecycle!Init

\* With a lease that covers the pipeline, Pipeline implements
\* DeliveryLifecycle: claims, duplicates, crashes, reaping and unguarded
\* writes only move a delivery as its life cycle allows, and every written
\* attempt is counted exactly once.
THEOREM Refinement ==
    ASSUME LeaseCoversPipeline
    PROVE  Spec => ImplementsLifecycle
<1>1. TypeOK /\ OwnInv /\ AttemptInv /\ [Next]_vars
      => [Lifecycle!Next]_(Lifecycle!lifecycleVars)
    BY Simulates
<1>2. Spec => []AttemptInv
    BY TypeCorrect, AttemptInit, AttemptStep, PTL DEF Spec
<1> QED
    BY <1>1, <1>2, InitSimulates, TypeCorrect, OwnCorrect, PTL
       DEF Spec, ImplementsLifecycle, Lifecycle!Spec

-----------------------------------------------------------------------------
(* Consequences of the refinement and of the ownership of a claim.         *)

\* The life cycle never leaves a final phase.
LEMMA LifecycleKeepsFinal ==
    ASSUME [Lifecycle!Next]_(Lifecycle!lifecycleVars),
           NEW d \in Deliveries, PhaseOf(status[d]) \in Terminal
    PROVE  PhaseOf(status'[d]) = PhaseOf(status[d])
<1>1. ASSUME NEW S, NEW from \in {"absent", "waiting", "sending"}, NEW to,
             Lifecycle!Move(S, from, to)
      PROVE  PhaseOf(status'[d]) = PhaseOf(status[d])
  <2>1. d \notin S
      BY <1>1 DEF Lifecycle!Move, Terminal
  <2>2. [e \in Deliveries |-> PhaseOf(status'[e])][d]
        = [e \in Deliveries |-> PhaseOf(status[e])][d]
      BY <1>1, <2>1 DEF Lifecycle!Move
  <2> QED
      BY <2>2
<1>2. ASSUME NEW e \in Deliveries, NEW to, Lifecycle!Attempted(e, to)
      PROVE  PhaseOf(status'[d]) = PhaseOf(status[d])
  <2>1. d # e
      BY <1>2 DEF Lifecycle!Attempted, Terminal
  <2>2. [f \in Deliveries |-> PhaseOf(status'[f])][d]
        = [f \in Deliveries |-> PhaseOf(status[f])][d]
      BY <1>2, <2>1 DEF Lifecycle!Attempted
  <2> QED
      BY <2>2
<1>3. CASE UNCHANGED Lifecycle!lifecycleVars
  <2>1. [f \in Deliveries |-> PhaseOf(status'[f])][d]
        = [f \in Deliveries |-> PhaseOf(status[f])][d]
      BY <1>3 DEF Lifecycle!lifecycleVars
  <2> QED
      BY <2>1
<1>4. CASE Lifecycle!Next
    BY <1>1, <1>2, <1>4 DEF Lifecycle!Next, Lifecycle!Accept, Lifecycle!GiveBack,
       Lifecycle!Begin, Lifecycle!Cancel, Lifecycle!Succeed
<1> QED
    BY <1>3, <1>4

\* A terminal status of a row is a final phase, and no other status is.
LEMMA FinalPhase ==
    ASSUME TypeOK, NEW d \in Deliveries
    PROVE  /\ IsTerminal(status[d]) <=> PhaseOf(status[d]) \in Terminal
           /\ IsTerminal(status[d]) => PhaseOf(status[d]) = status[d]
<1>1. status[d] \in {"NONE", "SCHEDULED", "PENDING", "PROCESSING", "RETRYING",
                     "SENT", "FAILED", "CANCELLED"}
    BY DEF TypeOK, RowsTypeOK, DeliveryStatus
<1> QED
    BY <1>1, Phase DEF IsTerminal, Terminal

\* With a lease that covers the pipeline, SENT, FAILED and CANCELLED are
\* final, although MarkSent, MarkRetrying and MarkFailed never look.
THEOREM TerminalFinal ==
    ASSUME LeaseCoversPipeline
    PROVE  Spec => TerminalIsFinal
<1>1. ASSUME TypeOK, TypeOK', OwnInv, AttemptInv, [Next]_vars
      PROVE  \A d \in Deliveries : IsTerminal(status[d]) => status'[d] = status[d]
  <2> SUFFICES ASSUME NEW d \in Deliveries, IsTerminal(status[d])
               PROVE  status'[d] = status[d]
      OBVIOUS
  <2>1. [Lifecycle!Next]_(Lifecycle!lifecycleVars)
      BY <1>1, Simulates
  <2>2. PhaseOf(status[d]) = status[d] /\ status[d] \in Terminal
      BY <1>1, FinalPhase DEF IsTerminal
  <2>3. PhaseOf(status'[d]) = status[d]
      BY <2>1, <2>2, LifecycleKeepsFinal
  <2>4. status'[d] \in {"NONE", "SCHEDULED", "PENDING", "PROCESSING", "RETRYING",
                        "SENT", "FAILED", "CANCELLED"}
      BY <1>1 DEF TypeOK, RowsTypeOK, DeliveryStatus
  <2> QED
      BY <2>2, <2>3, <2>4, Phase DEF Terminal
<1>2. TypeOK /\ TypeOK' /\ OwnInv /\ AttemptInv /\ [Next]_vars
      => [\A d \in Deliveries : IsTerminal(status[d]) => status'[d] = status[d]]_vars
    BY <1>1
<1>3. Spec => []AttemptInv
    BY TypeCorrect, AttemptInit, AttemptStep, PTL DEF Spec
<1> QED
    BY <1>2, <1>3, TypeCorrect, OwnCorrect, PTL DEF Spec, TerminalIsFinal

\* With such a lease the provider is never called for a finished delivery:
\* the only step that calls it is taken by a worker that holds the row.
THEOREM NoLateCall ==
    ASSUME LeaseCoversPipeline
    PROVE  Spec => NoCallAfterTerminal
<1>1. ASSUME TypeOK, OwnInv, Next
      PROVE  \A d \in Deliveries : IsTerminal(status[d]) => calls'[d] = calls[d]
  <2>1. CASE UNCHANGED calls
      BY <2>1
  <2>2. ASSUME NEW w \in Workers, CallProvider(w)
        PROVE  \A d \in Deliveries : IsTerminal(status[d]) => calls'[d] = calls[d]
    <3>1. status[job[w]] = "PROCESSING" /\ job[w] \in Deliveries
        BY <1>1, <2>2 DEF CallProvider, OwnInv, LeaseHeld, InFlight, TypeOK, WorkersTypeOK
    <3>2. \A d \in Deliveries \ {job[w]} : calls'[d] = calls[d]
        BY <1>1, <2>2, <3>1 DEF CallProvider, TypeOK, WorkersTypeOK
    <3> QED
        BY <3>1, <3>2 DEF IsTerminal, Terminal
  <2>3. ASSUME NEW w \in Workers, WorkerStep(w)
        PROVE  UNCHANGED calls \/ CallProvider(w)
      BY <2>3 DEF WorkerStep, process, ReadMessage, Claim, SkipDuplicate, TokenGranted,
         TokenDenied, BreakerOpen, ProviderReturns, PersistSent, handleFailure,
         requeueWithoutAttempt, publishDLQ, StepFails, Crash, Start, Done
  <2>4. ASSUME ~\E w \in Workers : WorkerStep(w)
        PROVE  UNCHANGED calls
      BY <1>1, <2>4 DEF Next, API, Scheduler, Create, Cancel, SubmitBatch, promoteDue,
         sweepRetries, reapStuck, reconcile, Relay, DropRead, Flush, Tick, AgeWorkers,
         workerVars
  <2> QED
      BY <2>1, <2>2, <2>3, <2>4
<1>2. TypeOK /\ OwnInv /\ [Next]_vars
      => [\A d \in Deliveries : IsTerminal(status[d]) => calls'[d] = calls[d]]_vars
    BY <1>1
<1> QED
    BY <1>2, TypeCorrect, OwnCorrect, PTL DEF Spec, NoCallAfterTerminal
=============================================================================
