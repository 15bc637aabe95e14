-------------------------------- MODULE Outbox --------------------------------
(***************************************************************************)
(* The transactional outbox and the relays that drain it into the stream. *)
(* internal/adapters/postgres/outbox.go, relayOutbox of                    *)
(* internal/scheduler/jobs.go.                                             *)
(*                                                                         *)
(* Of the outbox table only the rows with published_at IS NULL matter;     *)
(* published rows are read by nothing and purged later.  A row is a pair   *)
(* <<delivery, id>>.  Ids are random UUIDs in the code; here they are      *)
(* reused once neither the table nor a relay knows them.                   *)
(***************************************************************************)
EXTENDS Queue, Faults, FiniteSets

CONSTANTS Relays,           \* concurrent relayOutbox loops (scheduler replicas)
          OutboxBatchSize,  \* OUTBOX_BATCH_SIZE
          RowIds            \* bound: outbox rows alive per delivery

ASSUME OutboxAssumption == OutboxBatchSize \in Nat \ {0}

VARIABLES outbox,      \* unpublished rows
          fetched,     \* per relay: rows of the current batch still to publish
          published    \* per relay: rows of the current batch that were published

outboxVars == <<outbox, fetched, published>>

Rows == Deliveries \X RowIds

OutboxTypeOK ==
    /\ outbox \subseteq Rows
    /\ fetched \in [Relays -> SUBSET Rows]
    /\ published \in [Relays -> SUBSET Rows]

OutboxInit ==
    /\ outbox = {}
    /\ fetched = [r \in Relays |-> {}]
    /\ published = [r \in Relays |-> {}]

Held == UNION {fetched[r] \cup published[r] : r \in Relays}

FreeIds(d) == {n \in RowIds : <<d, n>> \notin outbox \cup Held}

\* insertOutbox for every delivery of S, in the caller's transaction.
insertOutbox(S) ==
    /\ \A d \in S : FreeIds(d) # {}
    /\ outbox' = outbox \cup {<<d, CHOOSE n \in FreeIds(d) : TRUE>> : d \in S}
    /\ UNCHANGED <<fetched, published>>

HasOutboxRow(d) == \E n \in RowIds : <<d, n>> \in outbox

-----------------------------------------------------------------------------
Resting(r) == fetched[r] = {} /\ published[r] = {}

\* SELECT ... LIMIT n FOR UPDATE SKIP LOCKED outside a transaction: the row
\* locks end with the statement, so two relays may hold the same row.
FetchUnpublishedOutbox(r) ==
    /\ Resting(r)
    /\ \E S \in (SUBSET outbox) \ {{}} :
          /\ Cardinality(S) <= OutboxBatchSize
          /\ Cardinality(S) = OutboxBatchSize \/ S = outbox
          /\ fetched' = [fetched EXCEPT ![r] = S]
    /\ UNCHANGED <<outbox, published, queueVars, faultVars>>

RelayPublish(r) ==
    \E row \in fetched[r] :
       /\ Publish(row[1])
       /\ fetched' = [fetched EXCEPT ![r] = @ \ {row}]
       /\ published' = [published EXCEPT ![r] = @ \cup {row}]
       /\ NoFault
       /\ UNCHANGED outbox

\* Publish returned an error: the row is skipped and stays unpublished.
RelayPublishFails(r) ==
    \E row \in fetched[r] :
       /\ Fault
       /\ fetched' = [fetched EXCEPT ![r] = @ \ {row}]
       /\ UNCHANGED <<outbox, published, queueVars>>

\* One UPDATE for the whole batch.  The loop then fetches again or waits for
\* the next tick, which is the same step from here.
MarkOutboxPublished(r) ==
    /\ fetched[r] = {}
    /\ published[r] # {}
    /\ outbox' = outbox \ published[r]
    /\ published' = [published EXCEPT ![r] = {}]
    /\ UNCHANGED <<fetched, queueVars, faultVars>>

\* The UPDATE fails, or the scheduler dies anywhere between its fetch and its
\* UPDATE: what was published stays unpublished in the table.
RelayAborts(r) ==
    /\ ~Resting(r)
    /\ Fault
    /\ fetched' = [fetched EXCEPT ![r] = {}]
    /\ published' = [published EXCEPT ![r] = {}]
    /\ UNCHANGED <<outbox, queueVars>>

relayOutbox(r) ==
    \/ FetchUnpublishedOutbox(r)
    \/ RelayPublish(r)
    \/ RelayPublishFails(r)
    \/ MarkOutboxPublished(r)
    \/ RelayAborts(r)
=============================================================================
