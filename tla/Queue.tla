-------------------------------- MODULE Queue --------------------------------
(***************************************************************************)
(* The Redis side: the stream a delivery's messages travel on, the        *)
(* consumer group that reads it and the dead-letter stream.               *)
(* internal/adapters/redis/queue.go and dlq.go.                           *)
(*                                                                        *)
(* A message only names its delivery, so a stream is the number of        *)
(* entries per delivery that the group has not handed out.  Entries that  *)
(* were handed out but not acknowledged stay in the group's pending list, *)
(* which no code reads back (Read asks for ">" only, there is no XCLAIM): *)
(* they are gone as far as the program is concerned, so Ack changes       *)
(* nothing here.                                                          *)
(***************************************************************************)
EXTENDS Naturals, FiniteSets

CONSTANTS Deliveries,
          MaxStream      \* bound: undelivered stream entries per delivery

ASSUME QueueAssumption == IsFiniteSet(Deliveries) /\ MaxStream \in Nat

VARIABLES stream,   \* [Deliveries -> 0..MaxStream]
          group,    \* the consumer group exists
          dlq       \* what has been published to notifications.dlq

queueVars == <<stream, group, dlq>>

DLQReasons == {"permanent_failure", "exhausted_retries"}

QueueTypeOK ==
    /\ stream \in [Deliveries -> 0..MaxStream]
    /\ group \in BOOLEAN
    /\ dlq \subseteq [delivery : Deliveries, reason : DLQReasons, attempts : Nat]

QueueInit ==
    /\ stream = [d \in Deliveries |-> 0]
    /\ group = TRUE          \* EnsureGroup ran when the workers started
    /\ dlq = {}

\* XGROUP CREATE ... 0 MKSTREAM: a group made after a flush starts at the
\* head of the stream, so nothing published in between is skipped.
EnsureGroup == group' = TRUE /\ UNCHANGED <<stream, dlq>>

Publish(d) ==
    /\ stream[d] < MaxStream
    /\ stream' = [stream EXCEPT ![d] = @ + 1]
    /\ UNCHANGED <<group, dlq>>

\* XREADGROUP fails with NOGROUP while the group does not exist.
Read(d) ==
    /\ group
    /\ stream[d] > 0
    /\ stream' = [stream EXCEPT ![d] = @ - 1]
    /\ UNCHANGED <<group, dlq>>

PublishDLQ(entry) == dlq' = dlq \cup {entry} /\ UNCHANGED <<stream, group>>

\* FLUSHALL, or a Redis that restarts empty: entries and group are gone.
FlushRedis ==
    /\ stream' = [d \in Deliveries |-> 0]
    /\ group' = FALSE
    /\ dlq' = {}
=============================================================================
