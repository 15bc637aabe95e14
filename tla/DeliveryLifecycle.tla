-------------------------- MODULE DeliveryLifecycle --------------------------
(***************************************************************************)
(* What the system promises of a delivery, without workers, queues,       *)
(* leases or clocks: it waits, one sender at a time works on it, every    *)
(* finished attempt is counted once, and the way it ends is final.  The   *)
(* statuses are those of internal/domain/enums.go; SCHEDULED, PENDING and *)
(* RETRYING are ways to wait.  Pipeline is shown to implement it.         *)
(***************************************************************************)
EXTENDS Naturals

CONSTANTS Deliveries, MaxAttempts

VARIABLES phase, attempts

lifecycleVars == <<phase, attempts>>

Init ==
    /\ phase = [d \in Deliveries |-> "absent"]
    /\ attempts = [d \in Deliveries |-> 0]

\* Deliveries of S move together from one phase to another, uncounted.
Move(S, from, to) ==
    /\ \A d \in S : phase[d] = from
    /\ phase' = [d \in Deliveries |-> IF d \in S THEN to ELSE phase[d]]
    /\ UNCHANGED attempts

\* A request, or all new items of a batch, is recorded.
Accept(S) == Move(S, "absent", "waiting")

\* Only a delivery nobody works on can be claimed or cancelled.
Begin(d) == Move({d}, "waiting", "sending")
Cancel(d) == Move({d}, "waiting", "CANCELLED")

\* Work that came to nothing: backpressure, or a worker that is gone.
GiveBack(S) == Move(S, "sending", "waiting")

Succeed(d) == Move({d}, "sending", "SENT")

\* A failed attempt is counted and leads to another one or to the end.
Attempted(d, to) ==
    /\ phase[d] = "sending"
    /\ phase' = [phase EXCEPT ![d] = to]
    /\ attempts' = [attempts EXCEPT ![d] = @ + 1]
    /\ attempts[d] + 1 <= MaxAttempts
    /\ to = "waiting" => attempts[d] + 1 < MaxAttempts

Next ==
    \/ \E S \in SUBSET Deliveries : Accept(S) \/ GiveBack(S)
    \/ \E d \in Deliveries :
          \/ Begin(d)
          \/ Cancel(d)
          \/ Succeed(d)
          \/ Attempted(d, "waiting")
          \/ Attempted(d, "FAILED")

Spec == Init /\ [][Next]_lifecycleVars
=============================================================================
