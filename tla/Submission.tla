------------------------------ MODULE Submission ------------------------------
(***************************************************************************)
(* POST /notifications and POST /notifications/batch from concurrent       *)
(* callers: authentication, decoding, validation, the look-up of the       *)
(* idempotency key, rendering, and the inserting transaction statement by  *)
(* statement, against the partial unique indexes on (user_id,              *)
(* idempotency_key).  internal/transport/http, internal/notification,      *)
(* internal/template, internal/adapters/postgres.                          *)
(*                                                                         *)
(* A single call is a call with one item.  <<c, i>> names the request row  *)
(* built from item i of call c, and its delivery and outbox row; <<c, 0>>  *)
(* names the batch row of c.  A client that repeats a submission is another*)
(* call with the same input.                                               *)
(***************************************************************************)
EXTENDS Naturals, Sequences, FiniteSets, FiniteSetsExt

CONSTANTS Calls,        \* HTTP calls
          NoUser,       \* no bearer token, or one ParseToken refuses
          NoKey,        \* key absent or ""
          Template,     \* the templates table: id -> [channel, required]
          NoTemplate,   \* template_id absent or ""
          Inputs,       \* what a call may carry
          MaxBatchSize, \* maxBatchSize
          MaxErrors     \* bound: failing statements

\* What the field checks of validate and toInput can find wrong with an item.
Defects == {"template_id", "recipient", "channel", "priority", "content",
            "length", "idempotency_key"}

ASSUME SubmissionAssumption ==
    /\ MaxBatchSize \in Nat /\ MaxErrors \in Nat
    /\ \A in \in Inputs :
          /\ in.kind \in {"single", "batch"}
          /\ in.decodes \in BOOLEAN
          /\ Len(in.items) \in Nat /\ DOMAIN in.items = 1..Len(in.items)
          /\ in.kind = "single" => Len(in.items) = 1
          /\ \A i \in DOMAIN in.items :
                /\ in.items[i].defects \subseteq Defects
                /\ in.items[i].future \in BOOLEAN

VARIABLES input,       \* the HTTP request of each call
          pc,          \* the statement each handler is at
          answer,      \* the response of each call
          tx,          \* what the open transaction of each call has written
          requests,    \* committed rows of notification_requests
          deliveries,  \* committed rows of notification_deliveries
          outbox,      \* committed rows of outbox
          batches,     \* committed rows of notification_batches
          total,       \* notification_batches.total_count
          errors       \* failed statements so far

tableVars == <<requests, deliveries, outbox, batches, total>>
vars == <<input, pc, answer, tx, tableVars, errors>>

NoTx == [batch |-> FALSE, requests |-> {}, deliveries |-> {}, outbox |-> {},
         total |-> 0, item |-> 1]
NoRow == <<>>
NoAnswer == [status |-> 0, row |-> NoRow]

Init ==
    /\ input \in [Calls -> Inputs]
    /\ pc = [c \in Calls |-> "receive"]
    /\ answer = [c \in Calls |-> NoAnswer]
    /\ tx = [c \in Calls |-> NoTx]
    /\ requests = {} /\ deliveries = {} /\ outbox = {} /\ batches = {}
    /\ total = [c \in Calls |-> 0]
    /\ errors = 0

-----------------------------------------------------------------------------
Single(c) == input[c].kind = "single"
Item(c, i) == input[c].items[i]
userID(c) == input[c].token

\* The key in the body, else the one in the Idempotency-Key header.
toInput(body, header) == IF body # NoKey THEN body ELSE header

\* The key of the submission, and of one of its items: toInput("") for the
\* items of a batch, so the header is the batch's alone.
CallKey(c) ==
    toInput(IF Single(c) THEN Item(c, 1).key ELSE input[c].key, input[c].header)
ItemKey(c, i) == IF Single(c) THEN CallKey(c) ELSE toInput(Item(c, i).key, NoKey)

\* The length limit is for content given directly, not for rendered content.
validateItem(item) ==
    item.defects \cap ({"recipient", "channel", "priority", "idempotency_key"}
                       \cup IF item.template = NoTemplate THEN {"content", "length"} ELSE {})
    = {}

\* Mutant: a batch may have any size.
validateUnbounded(in) ==
    /\ in.items # <<>>
    /\ \A i \in DOMAIN in.items : validateItem(in.items[i])

validate(in) ==
    /\ Len(in.items) \in 1..MaxBatchSize
    /\ \A i \in DOMAIN in.items : validateItem(in.items[i])

\* A template_id that is no UUID fails in toInput, before validate.
decodeJSON(in) ==
    in.decodes /\ \A i \in DOMAIN in.items : "template_id" \notin in.items[i].defects

\* template.Service.Render; item.variables are the variables that are not blank.
Render(item) ==
    CASE item.template = NoTemplate             -> "ok"
      [] item.template \notin DOMAIN Template   -> "ErrNotFound"
      [] Template[item.template].channel # item.channel -> "ErrValidation"
      [] ~(Template[item.template].required \subseteq item.variables)
                                                -> "ErrTemplateVariablesMissing"
      [] OTHER                                  -> "ok"

writeError(err) ==
    CASE err \in {"ErrValidation", "ErrTemplateVariablesMissing"} -> 400
      [] err = "ErrNotFound"                                      -> 404
      [] err \in {"ErrConflict", "ErrCancelNotAllowed"}           -> 409
      [] OTHER                                                    -> 500

-----------------------------------------------------------------------------
\* The committed row a key stands for, in the table of the call's kind.
RequestsWith(user, key) ==
    {r \in requests : userID(r[1]) = user /\ ItemKey(r[1], r[2]) = key}
BatchesWith(user, key) ==
    {b \in batches : userID(b) = user /\ CallKey(b) = key}

\* Mutant: the key is looked up without its user.
ExistingAnyUser(c) ==
    IF Single(c) THEN {r \in requests : ItemKey(r[1], r[2]) = CallKey(c)}
                 ELSE {<<b, 0>> : b \in {e \in batches : CallKey(e) = CallKey(c)}}

\* GetRequestByIdempotencyKey and GetBatchByIdempotencyKey, on the primary.
Existing(c) ==
    IF Single(c) THEN RequestsWith(userID(c), CallKey(c))
                 ELSE {<<b, 0>> : b \in BatchesWith(userID(c), CallKey(c))}

\* Calls whose open transaction has inserted that key already.
RequestHolders(c, key) ==
    {e \in Calls : userID(e) = userID(c)
                   /\ \E i \in tx[e].requests : ItemKey(e, i) = key}
BatchHolders(c) ==
    {e \in Calls : ~Single(e) /\ userID(e) = userID(c)
                   /\ tx[e].batch /\ CallKey(e) = CallKey(c)}

RequestKeyTaken(c, key) ==
    key # NoKey /\ (RequestsWith(userID(c), key) # {} \/ c \in RequestHolders(c, key))
BatchKeyTaken(c) == CallKey(c) # NoKey /\ BatchesWith(userID(c), CallKey(c)) # {}

\* An insert waits while another open transaction holds its key: until that
\* one ends, Postgres cannot tell whether there is a conflict.
WaitsFor(c) ==
    CASE pc[c] = "request" ->
           LET key == ItemKey(c, tx[c].item)
           IN  IF key = NoKey \/ RequestKeyTaken(c, key) THEN {}
               ELSE RequestHolders(c, key)
      [] pc[c] = "batch" ->
           IF CallKey(c) = NoKey \/ BatchKeyTaken(c) THEN {} ELSE BatchHolders(c)
      [] OTHER -> {}

-----------------------------------------------------------------------------
goto(c, step) == pc' = [pc EXCEPT ![c] = step]

reply(c, status, row) ==
    /\ goto(c, "done")
    /\ answer' = [answer EXCEPT ![c] = [status |-> status, row |-> row]]

\* Mutant: withTx returns the error and leaves the transaction open.
rollbackForgotten(c) == UNCHANGED tx

rollback(c) == tx' = [tx EXCEPT ![c] = NoTx]

\* authMiddleware, decodeJSON, toInput and validate: nothing is read yet.
receive(c) ==
    /\ pc[c] = "receive"
    /\ IF userID(c) = NoUser THEN reply(c, 401, NoRow)
       ELSE IF ~decodeJSON(input[c]) \/ ~validate(input[c])
            THEN reply(c, writeError("ErrValidation"), NoRow)
       ELSE /\ goto(c, IF CallKey(c) = NoKey THEN "build" ELSE "lookup")
            /\ UNCHANGED answer
    /\ UNCHANGED <<input, tx, tableVars, errors>>

lookup(c) ==
    /\ pc[c] = "lookup"
    /\ \/ \E row \in Existing(c) : reply(c, 200, row)
       \/ Existing(c) = {} /\ goto(c, "build") /\ UNCHANGED answer
    /\ UNCHANGED <<input, tx, tableVars, errors>>

\* Items are rendered in order; the first error ends the call.
build(c) ==
    LET bad == {i \in DOMAIN input[c].items : Render(Item(c, i)) # "ok"}
    IN  /\ pc[c] = "build"
        /\ IF bad # {} THEN reply(c, writeError(Render(Item(c, Min(bad)))), NoRow)
           ELSE /\ goto(c, IF Single(c) THEN "request" ELSE "batch")
                /\ UNCHANGED answer
        /\ UNCHANGED <<input, tx, tableVars, errors>>

\* A unique violation is ErrConflict: roll back and look the winner up.
insertBatch(c) ==
    /\ pc[c] = "batch"
    /\ WaitsFor(c) = {}
    /\ IF BatchKeyTaken(c) THEN rollback(c) /\ goto(c, "relookup")
       ELSE tx' = [tx EXCEPT ![c].batch = TRUE] /\ goto(c, "request")
    /\ UNCHANGED <<input, answer, tableVars, errors>>

\* What follows item i: the next item, the counts, or the commit.
AfterItem(c, i) ==
    IF i < Len(input[c].items) THEN "request"
    ELSE IF Single(c) THEN "commit" ELSE "counts"

\* Mutant: the insert does not wait for another transaction, it conflicts.
insertRequestNoWait(c) ==
    LET i == tx[c].item
    IN  /\ pc[c] = "request" /\ Single(c)
        /\ IF WaitsFor(c) # {} \/ RequestKeyTaken(c, ItemKey(c, i))
           THEN rollback(c) /\ goto(c, "relookup")
           ELSE /\ tx' = [tx EXCEPT ![c].requests = @ \cup {i}]
                /\ goto(c, "delivery")
        /\ UNCHANGED <<input, answer, tableVars, errors>>

insertRequest(c) ==
    LET i == tx[c].item
    IN  /\ pc[c] = "request" /\ Single(c)
        /\ WaitsFor(c) = {}
        /\ IF RequestKeyTaken(c, ItemKey(c, i))
           THEN rollback(c) /\ goto(c, "relookup")
           ELSE /\ tx' = [tx EXCEPT ![c].requests = @ \cup {i}]
                /\ goto(c, "delivery")
        /\ UNCHANGED <<input, answer, tableVars, errors>>

\* Mutant: a duplicate item goes on to its delivery.
insertRequestOnConflictNoSkip(c) ==
    LET i == tx[c].item
    IN  /\ pc[c] = "request" /\ ~Single(c)
        /\ WaitsFor(c) = {}
        /\ tx' = IF RequestKeyTaken(c, ItemKey(c, i)) THEN tx
                 ELSE [tx EXCEPT ![c].requests = @ \cup {i}]
        /\ goto(c, "delivery")
        /\ UNCHANGED <<input, answer, tableVars, errors>>

\* ON CONFLICT DO NOTHING: a duplicate item is skipped, whoever inserted it.
insertRequestOnConflict(c) ==
    LET i == tx[c].item
    IN  /\ pc[c] = "request" /\ ~Single(c)
        /\ WaitsFor(c) = {}
        /\ IF RequestKeyTaken(c, ItemKey(c, i))
           THEN /\ goto(c, AfterItem(c, i))
                /\ tx' = [tx EXCEPT ![c].item = @ + 1]
           ELSE /\ tx' = [tx EXCEPT ![c].requests = @ \cup {i}]
                /\ goto(c, "delivery")
        /\ UNCHANGED <<input, answer, tableVars, errors>>

\* SCHEDULED deliveries get no outbox row.
insertDelivery(c) ==
    LET i == tx[c].item
    IN  /\ pc[c] = "delivery"
        /\ IF Item(c, i).future
           THEN /\ goto(c, AfterItem(c, i))
                /\ tx' = [tx EXCEPT ![c].deliveries = @ \cup {i}, ![c].item = @ + 1]
           ELSE /\ goto(c, "outbox")
                /\ tx' = [tx EXCEPT ![c].deliveries = @ \cup {i}]
        /\ UNCHANGED <<input, answer, tableVars, errors>>

insertOutbox(c) ==
    LET i == tx[c].item
    IN  /\ pc[c] = "outbox"
        /\ goto(c, AfterItem(c, i))
        /\ tx' = [tx EXCEPT ![c].outbox = @ \cup {i}, ![c].item = @ + 1]
        /\ UNCHANGED <<input, answer, tableVars, errors>>

\* Mutant: every item is counted, duplicates too.
CreatedCountAll(c) == Len(input[c].items)

CreatedCount(c) == Cardinality(tx[c].requests)

updateCounts(c) ==
    /\ pc[c] = "counts"
    /\ goto(c, "commit")
    /\ tx' = [tx EXCEPT ![c].total = CreatedCount(c)]
    /\ UNCHANGED <<input, answer, tableVars, errors>>

RowsOf(c, items) == {<<c, i>> : i \in items}

\* The transaction's rows become visible, all at once.
applyTx(c) ==
    /\ requests' = requests \cup RowsOf(c, tx[c].requests)
    /\ deliveries' = deliveries \cup RowsOf(c, tx[c].deliveries)
    /\ outbox' = outbox \cup RowsOf(c, tx[c].outbox)
    /\ batches' = batches \cup IF tx[c].batch THEN {c} ELSE {}
    /\ total' = [total EXCEPT ![c] = tx[c].total]
    /\ rollback(c)

commit(c) ==
    /\ pc[c] = "commit"
    /\ applyTx(c)
    /\ reply(c, 202, IF Single(c) THEN <<c, 1>> ELSE <<c, 0>>)
    /\ UNCHANGED <<input, errors>>

\* The second look-up, after a conflict.
relookup(c) ==
    /\ pc[c] = "relookup"
    /\ \/ \E row \in Existing(c) : reply(c, 200, row)
       \/ Existing(c) = {} /\ reply(c, writeError("ErrNotFound"), NoRow)
    /\ UNCHANGED <<input, tx, tableVars, errors>>

handle(c) ==
    \/ receive(c) \/ lookup(c) \/ build(c) \/ relookup(c)
    \/ insertBatch(c) \/ insertRequest(c) \/ insertRequestOnConflict(c)
    \/ insertDelivery(c) \/ insertOutbox(c) \/ updateCounts(c) \/ commit(c)

-----------------------------------------------------------------------------
Failing == errors < MaxErrors /\ errors' = errors + 1

\* A statement fails, the client goes away or the API dies: the transaction is
\* rolled back and the client has no answer it can use.
statementFails(c) ==
    /\ pc[c] \notin {"receive", "done"}
    /\ Failing
    /\ rollback(c)
    /\ reply(c, writeError("other"), NoRow)
    /\ UNCHANGED <<input, tableVars>>

\* The same after Postgres has committed: the rows are there all the same.
commitAnswerLost(c) ==
    /\ pc[c] = "commit"
    /\ Failing
    /\ applyTx(c)
    /\ reply(c, writeError("other"), NoRow)
    /\ UNCHANGED input

\* Calls that wait in a circle.
Deadlocked(S) ==
    /\ S # {}
    /\ \A c \in S : WaitsFor(c) # {} /\ WaitsFor(c) \subseteq S
    /\ \A c \in S : \E e \in S : c \in WaitsFor(e)

\* Postgres aborts one transaction of a circle.
deadlockDetected ==
    \E S \in SUBSET Calls : \E c \in S :
       /\ Deadlocked(S)
       /\ rollback(c)
       /\ reply(c, writeError("other"), NoRow)
       /\ UNCHANGED <<input, tableVars, errors>>

Next ==
    \/ \E c \in Calls : handle(c) \/ statementFails(c) \/ commitAnswerLost(c)
    \/ deadlockDetected

Spec == Init /\ [][Next]_vars

\* A handler goroutine runs on, and Postgres looks for deadlocks.
FairSpec == Spec /\ (\A c \in Calls : WF_vars(handle(c))) /\ WF_vars(deadlockDetected)

-----------------------------------------------------------------------------
Rows == {<<c, i>> : c \in Calls, i \in 1..MaxBatchSize}

\* Every variable has the shape its table or struct gives it, and no batch
\* makes more rows than maxBatchSize.
TypeOK ==
    /\ pc \in [Calls -> {"receive", "lookup", "build", "batch", "request", "delivery",
                         "outbox", "counts", "commit", "relookup", "done"}]
    /\ requests \subseteq Rows /\ deliveries \subseteq Rows /\ outbox \subseteq Rows
    /\ batches \subseteq Calls
    /\ errors \in 0..MaxErrors

Accepted(c) == answer[c].status \in {200, 202}

\* "Duplicate idempotency keys return the existing notification": all callers
\* of one user who use one key and are told 200 or 202 are told of the same
\* committed row, which belongs to that user, and only one of them made it.
AnswersAgree ==
    \A c, e \in Calls :
        Accepted(c) =>
          /\ userID(answer[c].row[1]) = userID(c)
          /\ answer[c].row \in requests \cup {<<b, 0>> : b \in batches}
          /\ (Accepted(e) /\ userID(c) = userID(e) /\ input[c].kind = input[e].kind
              /\ CallKey(c) # NoKey /\ CallKey(c) = CallKey(e)) =>
                /\ answer[c].row = answer[e].row
                /\ c # e => {answer[c].status, answer[e].status} # {202}

\* The loser of an idempotency race always finds the winner: no call is told
\* 409, and 404 only speaks of a template.
ConflictFindsWinner ==
    \A c \in Calls :
        /\ answer[c].status # 409
        /\ answer[c].status = 404 =>
              \E i \in DOMAIN input[c].items : Render(Item(c, i)) = "ErrNotFound"

\* Whatever fails in between, a committed request has its delivery, and an
\* outbox row exactly if it is to be sent now; no delivery is without request.
RequestsComplete ==
    /\ deliveries = requests
    /\ outbox = {r \in requests : ~Item(r[1], r[2]).future}

\* total_count of a batch is the number of its requests, whichever of its items
\* were duplicates of each other, of another batch's or of a single call's.
TotalsAgree ==
    \A b \in batches : total[b] = Cardinality({r \in requests : r[1] = b})

\* Every submission is answered: waiting for another transaction's key ends,
\* because every error path of withTx ends its transaction.
EveryCallAnswered == \A c \in Calls : <>(pc[c] = "done")
=============================================================================
