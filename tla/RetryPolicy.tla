----------------------------- MODULE RetryPolicy -----------------------------
(***************************************************************************)
(* What the provider adapter makes of an HTTP exchange, and what the       *)
(* retry policy makes of a failed one.  internal/adapters/provider/        *)
(* webhook.go and internal/delivery/retry.go.                              *)
(*                                                                         *)
(* Durations are natural numbers of ticks.  A result that is random in the *)
(* code (the jitter) is the set of values it can take; a *time.Duration    *)
(* that may be nil is the empty set or a singleton.                        *)
(***************************************************************************)
EXTENDS Integers, Sequences

CONSTANTS MaxAttempts,      \* MAX_ATTEMPTS
          Backoff,          \* RETRY_BACKOFF, a sequence of durations
          JitterPercent,    \* 100 * RETRY_JITTER_RATIO
          DefaultBackoff,   \* the minute used when Backoff is empty
          RetryAfterHeaders \* the Retry-After headers the provider may send

HeaderForms == {"absent", "seconds", "date", "garbage"}

ASSUME RetryPolicyAssumption ==
    /\ MaxAttempts \in Nat \ {0}
    /\ Backoff \in Seq(Nat)
    /\ JitterPercent \in Nat
    /\ DefaultBackoff \in Nat
    /\ RetryAfterHeaders \subseteq [form : HeaderForms, value : Int]

\* What comes back from one HTTP call: 2xx, 429, another 4xx, 5xx (503 the
\* case that carries a Retry-After), or no response (network error, timeout).
ResponseKinds == {"ok", "tooMany", "clientError", "unavailable", "network"}

NoHeader == [form |-> "absent", value |-> 0]

Responses ==
    {r \in [kind : ResponseKinds, retryAfter : RetryAfterHeaders \cup {NoHeader}] :
        r.retryAfter = NoHeader \/ r.kind \in {"tooMany", "unavailable"}}

parseRetryAfter(h) ==
    CASE h.form = "seconds" -> {h.value}
      [] h.form = "date"    -> {IF h.value < 0 THEN 0 ELSE h.value}
      [] OTHER              -> {}

\* WebhookClient.Send: how a response is classified.  Only the 429 branch
\* reads the Retry-After header.
Classify(r) ==
    [ok         |-> r.kind = "ok",
     permanent  |-> r.kind = "clientError",
     retryAfter |-> IF r.kind = "tooMany" THEN parseRetryAfter(r.retryAfter)
                                          ELSE {}]

\* Mutant: the jittered value is not clamped at zero.
applyJitterUnclamped(d) ==
    LET delta == (d * JitterPercent) \div 100
    IN  {d + o : o \in (0 - delta)..delta}

applyJitter(d) ==
    LET delta == (d * JitterPercent) \div 100
    IN  {IF d + o < 0 THEN 0 ELSE d + o : o \in (0 - delta)..delta}

backoffFor(attempt) ==
    IF Backoff = << >>
    THEN {DefaultBackoff}
    ELSE applyJitter(Backoff[IF attempt > Len(Backoff) THEN Len(Backoff)
                                                       ELSE attempt])

\* Mutant: one attempt too many.
EvaluateFailureOffByOne(currentAttempts, perr) ==
    LET attempts == currentAttempts + 1
    IN  IF perr.permanent \/ attempts > MaxAttempts
        THEN {[status |-> "FAILED", attemptCount |-> attempts, wait |-> 0]}
        ELSE {[status |-> "RETRYING", attemptCount |-> attempts, wait |-> n] :
                  n \in backoffFor(attempts)}

\* Mutant: the provider's Retry-After is not used.
EvaluateFailureOwnPace(currentAttempts, perr) ==
    LET attempts == currentAttempts + 1
    IN  IF perr.permanent \/ attempts >= MaxAttempts
        THEN {[status |-> "FAILED", attemptCount |-> attempts, wait |-> 0]}
        ELSE {[status |-> "RETRYING", attemptCount |-> attempts, wait |-> n] :
                  n \in backoffFor(attempts)}

\* The outcomes Policy.EvaluateFailure can return for a failed send.
EvaluateFailure(currentAttempts, perr) ==
    LET attempts == currentAttempts + 1
        waits    == {n \in perr.retryAfter : n > 0}
    IN  IF perr.permanent \/ attempts >= MaxAttempts
        THEN {[status |-> "FAILED", attemptCount |-> attempts, wait |-> 0]}
        ELSE {[status |-> "RETRYING", attemptCount |-> attempts, wait |-> n] :
                  n \in IF waits # {} THEN waits ELSE backoffFor(attempts)}
=============================================================================
