------------------------------- MODULE Domain -------------------------------
(***************************************************************************)
(* The status vocabulary of the notification system and the two pure      *)
(* functions every transaction that finishes a delivery goes through: the *)
(* status of a request as a function of the statuses of its deliveries,   *)
(* and the batch counter a request status is counted in.                  *)
(* internal/domain/enums.go, internal/domain/status.go,                   *)
(* internal/adapters/postgres/batch.go.                                   *)
(***************************************************************************)
EXTENDS Naturals, Sequences, FiniteSets

DeliveryStatus == {"SCHEDULED", "PENDING", "PROCESSING", "RETRYING",
                   "SENT", "FAILED", "CANCELLED"}

RequestStatus == {"PENDING", "PARTIAL", "SENT", "FAILED", "CANCELLED"}

Terminal == {"SENT", "FAILED", "CANCELLED"}

IsTerminal(s) == s \in Terminal

\* How many of the deliveries have status s.
Count(deliveries, s) == Cardinality({i \in DOMAIN deliveries : deliveries[i] = s})

\* Mutant: a request with any failed delivery is FAILED.
AggregateAnyFailed(deliveries) ==
    IF deliveries = << >> \/ \E i \in DOMAIN deliveries : ~IsTerminal(deliveries[i])
    THEN "PENDING"
    ELSE IF Count(deliveries, "SENT") = Len(deliveries) THEN "SENT"
    ELSE IF Count(deliveries, "CANCELLED") = Len(deliveries) THEN "CANCELLED"
    ELSE IF Count(deliveries, "FAILED") > 0 THEN "FAILED"
    ELSE "PARTIAL"

AggregateRequestStatus(deliveries) ==
    LET sent      == Count(deliveries, "SENT")
        failed    == Count(deliveries, "FAILED")
        cancelled == Count(deliveries, "CANCELLED")
        total     == Len(deliveries)
    IN  IF deliveries = << >> \/ \E i \in DOMAIN deliveries : ~IsTerminal(deliveries[i])
        THEN "PENDING"
        ELSE IF sent = total THEN "SENT"
        ELSE IF cancelled = total THEN "CANCELLED"
        ELSE IF sent = 0 /\ failed > 0 THEN "FAILED"
        ELSE "PARTIAL"

\* The counter columns of notification_batches.
Buckets == {"pending_count", "sent_count", "failed_count", "cancelled_count"}

bucketColumn(s) ==
    CASE s \in {"SENT", "PARTIAL"} -> "sent_count"
      [] s = "FAILED"              -> "failed_count"
      [] s = "CANCELLED"           -> "cancelled_count"
      [] OTHER                     -> "pending_count"
=============================================================================
