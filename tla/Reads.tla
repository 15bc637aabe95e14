--------------------------------- MODULE Reads ---------------------------------
(***************************************************************************)
(* The API calls that read: get, list, cancel and get batch, against a     *)
(* reader pool that may be a replica behind the primary.                   *)
(* internal/transport/http/handlers.go and cursor.go,                      *)
(* internal/notification/service.go, internal/adapters/postgres.           *)
(*                                                                         *)
(* A database is the two tables the calls read, each a function on the ids *)
(* it has rows for.  wal holds the databases the replica has not passed:   *)
(* its head is what the replica shows, its last element the primary.       *)
(* session is one client's call, or its walk through the pages of a list.  *)
(***************************************************************************)
EXTENDS Domain, Integers, SequencesExt

CONSTANTS Users, Ids, Times,
          BatchOwner,     \* the owner of the one batch there is
          Filters,        \* the filters clients use
          Limits,         \* the values of ?limit; 0 stands for none
          DefaultLimit, MaxLimit,
          TickNanos,      \* nanoseconds in a tick of created_at
          SecondTicks,    \* ticks in a second
          MaxLag          \* bound: commits the replica may be behind

ASSUME ReadsAssumption ==
    /\ Ids \subseteq Nat /\ Times \subseteq Nat /\ BatchOwner \in Users
    /\ Filters # {} /\ Limits \subseteq Int
    /\ DefaultLimit \in Nat \ {0} /\ MaxLimit \in Nat /\ DefaultLimit <= MaxLimit
    /\ TickNanos \in Nat \ {0} /\ SecondTicks \in Nat \ {0} /\ MaxLag \in Nat \ {0}

VARIABLES wal, session
vars == <<wal, session>>

Primary == Last(wal)
Replica == Head(wal)

Idle == [kind |-> "idle", user |-> BatchOwner, id |-> 0, code |-> 0,
         filter |-> CHOOSE f \in Filters : TRUE, cursor |-> {}, page |-> <<>>,
         seen |-> <<>>, before |-> {}, request |-> {}, deliveries |-> {}]

Init ==
    /\ wal = <<[req |-> <<>>, del |-> <<>>]>>
    /\ session = Idle

-----------------------------------------------------------------------------
(* What the writers commit meanwhile.                                      *)

\* Without a replica every commit is followed by Replay at once.
Commit(db) == Len(wal) <= MaxLag /\ wal' = Append(wal, db)

\* A table with one row more.
WithRow(table, id, row) ==
    [x \in DOMAIN table \cup {id} |-> IF x = id THEN row ELSE table[x]]

\* created_at is the API's clock before the transaction, so commits do not
\* follow its order.
insertRequest(id, u, at) ==
    /\ id \notin DOMAIN Primary.req
    /\ Commit([req |-> WithRow(Primary.req, id,
                               [user |-> u, at |-> at, status |-> "PENDING"]),
               del |-> WithRow(Primary.del, id, "PENDING")])
    /\ UNCHANGED session

\* The transaction of a worker or a cancel: the delivery and its request.
Finished(db, id, s) ==
    [req |-> [db.req EXCEPT ![id].status = AggregateRequestStatus(<<s>>)],
     del |-> [db.del EXCEPT ![id] = s]]

MarkSent(id) ==
    /\ id \in DOMAIN Primary.del
    /\ Primary.del[id] = "PENDING"
    /\ Commit(Finished(Primary, id, "SENT"))
    /\ UNCHANGED session

Replay ==
    /\ Len(wal) > 1
    /\ wal' = Tail(wal)
    /\ UNCHANGED session

-----------------------------------------------------------------------------
(* GET /notifications: pages of a list.                                    *)

\* Mutant: the limit is not capped.
NormalizeUncapped(limit) == IF limit <= 0 THEN DefaultLimit ELSE limit

Normalize(limit) ==
    IF limit <= 0 THEN DefaultLimit ELSE IF limit > MaxLimit THEN MaxLimit ELSE limit

\* Mutant: the cursor keeps whole seconds.
encodeCursorSeconds(id, at) ==
    [ts |-> (at \div SecondTicks) * SecondTicks * TickNanos, id |-> id]

\* UnixNano and the id; base64 adds nothing.
encodeCursor(id, at) == [ts |-> at * TickNanos, id |-> id]

\* The parameter is cut to the resolution of the column.
decodeCursor(c) == [at |-> c.ts \div TickNanos, id |-> c.id]

\* parseListFilter and the validity checks of its parameters.
parseListFilter(f) == f.wellFormed /\ f.from <= f.to

\* Mutant: (created_at, id) <= the cursor.
BeforeInclusive(at, id, c) == at < c.at \/ (at = c.at /\ id <= c.id)

\* (created_at, id) < the cursor, as Postgres compares rows.
Before(at, id, c) == at < c.at \/ (at = c.at /\ id < c.id)

\* The WHERE clause without the cursor.  channel is left out: like user_id it
\* is an equality on a column that never changes.
Matching(db, u, f) ==
    {id \in DOMAIN db.req :
        LET r == db.req[id]
        IN  /\ r.user = u
            /\ f.status # "any" => r.status = f.status
            /\ r.at >= f.from /\ r.at <= f.to}

\* ORDER BY created_at DESC, id DESC.
Newer(db, a, b) == Before(db.req[b].at, b, [at |-> db.req[a].at, id |-> a])

Newest(db, S) ==
    CHOOSE q \in SetToSeqs(S) : \A i, j \in DOMAIN q : i < j => Newer(db, q[i], q[j])

ListRequests(db, u, f, limit, cursor) ==
    LET found == {id \in Matching(db, u, f) :
                    \A c \in cursor : Before(db.req[id].at, id, decodeCursor(c))}
        items == SubSeq(Newest(db, found), 1, Min({limit + 1, Cardinality(found)}))
    IN  IF Len(items) > limit
        THEN [items |-> SubSeq(items, 1, limit),
              next  |-> {encodeCursor(items[limit], db.req[items[limit]].at)}]
        ELSE [items |-> items, next |-> {}]

\* The answer to one page, added to what the walk has seen.
Listed(s, limit) ==
    LET p == ListRequests(Replica, s.user, s.filter, Normalize(limit), s.cursor)
    IN  [s EXCEPT !.code = 200, !.page = p.items, !.seen = @ \o p.items, !.cursor = p.next]

\* The first page.  before remembers what the list should contain.
listNotifications(u, f, limit) ==
    /\ session.kind = "idle"
    /\ LET s == [Idle EXCEPT !.kind = "list", !.user = u, !.filter = f]
       IN  session' = IF parseListFilter(f)
                      THEN Listed([s EXCEPT !.before = Matching(Replica, u, f)], limit)
                      ELSE [s EXCEPT !.code = 400]
    /\ UNCHANGED wal

nextPage(limit) ==
    /\ session.kind = "list"
    /\ session.cursor # {}
    /\ session' = Listed(session, limit)
    /\ UNCHANGED wal

-----------------------------------------------------------------------------
(* GET /notifications/{id}, POST .../cancel and GET /batches/{id}.         *)

Begin(kind, u, id) == [Idle EXCEPT !.kind = kind, !.user = u, !.id = id]
NotFound(s) == [s EXCEPT !.kind = "answered", !.code = 404]

\* Mutant: the primary answers, the deliveries still come from the replica.
GetRequestByIDPrimary(id) ==
    IF id \in DOMAIN Primary.req THEN {Primary.req[id]} ELSE {}

GetRequestByID(id) == IF id \in DOMAIN Replica.req THEN {Replica.req[id]} ELSE {}

\* Mutant: the row alone is looked up.
OwnedIfFound(u, id) == GetRequestByID(id) # {}

\* The check of Get and Cancel; ErrNotFound in both cases.
Owned(u, id) == \E r \in GetRequestByID(id) : r.user = u

\* Service.Get, first statement.
getNotification(u, id) ==
    /\ session.kind = "idle"
    /\ session' = IF Owned(u, id)
                  THEN [Begin("get", u, id) EXCEPT !.request = GetRequestByID(id)]
                  ELSE NotFound(Begin("get", u, id))
    /\ UNCHANGED wal

\* Second statement.
GetDeliveriesByRequest ==
    /\ session.kind = "get"
    /\ session' = [session EXCEPT !.kind = "answered", !.code = 200,
                       !.deliveries = IF session.id \in DOMAIN Replica.del
                                      THEN {Replica.del[session.id]} ELSE {}]
    /\ UNCHANGED wal

cancelNotification(u, id) ==
    /\ session.kind = "idle"
    /\ session' = IF Owned(u, id) THEN Begin("cancel", u, id)
                                  ELSE NotFound(Begin("cancel", u, id))
    /\ UNCHANGED wal

\* The transaction on the primary, which does not look at the owner again.
\* Requests are never deleted, so it finds what the replica had.
CancelRequest ==
    LET id == session.id
    IN  /\ session.kind = "cancel"
        /\ \/ /\ Primary.del[id] # "PENDING"
              /\ session' = [session EXCEPT !.kind = "answered", !.code = 409]
              /\ UNCHANGED wal
           \/ /\ Primary.del[id] = "PENDING"
              /\ Commit(Finished(Primary, id, "CANCELLED"))
              /\ session' = [session EXCEPT !.kind = "answered", !.code = 200,
                                 !.request = {Last(wal').req[id]}]

\* GetBatchByID and the owner's check.
getBatch(u) ==
    /\ session.kind = "idle"
    /\ session' = [Idle EXCEPT !.kind = "batch", !.user = u,
                               !.code = IF BatchOwner = u THEN 200 ELSE 404]
    /\ UNCHANGED wal

\* The client has its answer, or stops asking for pages.
NextCall ==
    /\ session.kind \in {"answered", "list", "batch"}
    /\ session' = Idle
    /\ UNCHANGED wal

Next ==
    \/ \E id \in Ids, u \in Users, at \in Times : insertRequest(id, u, at)
    \/ \E id \in Ids : MarkSent(id)
    \/ Replay
    \/ \E u \in Users, f \in Filters, n \in Limits : listNotifications(u, f, n)
    \/ \E n \in Limits : nextPage(n)
    \/ \E u \in Users, id \in Ids : getNotification(u, id)
    \/ GetDeliveriesByRequest
    \/ \E u \in Users, id \in Ids : cancelNotification(u, id)
    \/ CancelRequest
    \/ \E u \in Users : getBatch(u)
    \/ NextCall

Spec == Init /\ [][Next]_vars

-----------------------------------------------------------------------------
\* A database has a delivery for every request, and a page is never longer
\* than Normalize allows.
TypeOK ==
    /\ \A i \in DOMAIN wal : DOMAIN wal[i].req = DOMAIN wal[i].del
    /\ Len(wal) \in 1..(MaxLag + 1)
    /\ session.kind \in {"idle", "list", "get", "cancel", "batch", "answered"}
    /\ session.code \in {0, 200, 400, 404, 409}
    /\ Len(session.page) <= MaxLimit

\* Nothing is skipped: a walk that reached its last page has shown every
\* notification that matched when it began and still does, although others are
\* committed between the pages with older and newer created_at.
PagesComplete ==
    session.kind = "list" /\ session.code = 200 /\ session.cursor = {} =>
        session.before \cap Matching(Replica, session.user, session.filter)
            \subseteq ToSet(session.seen)

\* Over all its pages a list is strictly newest first, so nothing is shown
\* twice, whatever is committed meanwhile.
NewestFirst ==
    \A i, j \in DOMAIN session.seen : i < j =>
        LET a == Primary.req[session.seen[i]]
            b == Primary.req[session.seen[j]]
        IN  \/ b.at < a.at
            \/ b.at = a.at /\ session.seen[j] < session.seen[i]

\* A view is not torn: a request shown as finished comes with the delivery
\* that finished it, although the two are read by two statements on a replica
\* that moves in between.
ViewCoherent ==
    session.kind = "answered" /\ session.deliveries # {} =>
        \A r \in session.request, d \in session.deliveries :
            r.status \in {"PENDING", AggregateRequestStatus(<<d>>)}

\* A user learns nothing of another's notifications: every call about one is
\* answered like a call about nothing, and no list shows one.
OwnersOnly ==
    /\ session.kind = "answered" /\ session.id \in DOMAIN Primary.req =>
           Primary.req[session.id].user = session.user \/ session.code = 404
    /\ \A i \in DOMAIN session.seen : Primary.req[session.seen[i]].user = session.user
=============================================================================
