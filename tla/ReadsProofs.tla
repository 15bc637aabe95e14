------------------------------ MODULE ReadsProofs ------------------------------
(***************************************************************************)
(* Proofs about Reads for every set of users, ids, filters and page sizes, *)
(* every resolution of created_at and every lag of the replica.            *)
(***************************************************************************)
EXTENDS Reads, FiniteSetTheorems, SequenceTheorems, TLAPS

-----------------------------------------------------------------------------
(* Lists in order.                                                         *)

LEMMA LeastNumber ==
    ASSUME NEW S \in SUBSET Nat, S # {}
    PROVE  \E x \in S : \A y \in S : x <= y
<1>1. IsWellFoundedOn(OpToRel(<, Nat), Nat)
    BY NatLessThanWellFounded
<1>2. PICK x \in S : \A y \in S : <<y, x>> \notin OpToRel(<, Nat)
    BY <1>1, WFMin
<1>3. \A y \in S : x <= y
  <2> TAKE y \in S
  <2>1. <<y, x>> \notin OpToRel(<, Nat)
      BY <1>2
  <2>2. ~(y < x)
      BY <2>1 DEF OpToRel
  <2> QED
      BY <2>2
<1> QED
    BY <1>3

\* The ids of S are numbers and have a created_at.
Dated(db, S) == S \subseteq Nat /\ \A x \in S : db.req[x].at \in Nat

\* (created_at, id) is a strict total order.
LEMMA NewerOrder ==
    ASSUME NEW db, NEW S, Dated(db, S)
    PROVE  /\ \A a \in S : ~Newer(db, a, a)
           /\ \A a, b \in S : a # b => Newer(db, a, b) \/ Newer(db, b, a)
           /\ \A a, b, c \in S : Newer(db, a, b) /\ Newer(db, b, c) => Newer(db, a, c)
<1>1. \A a, b \in S : Newer(db, a, b) <=>
          db.req[b].at < db.req[a].at \/ (db.req[b].at = db.req[a].at /\ b < a)
    BY DEF Newer, Before
<1> QED
    BY <1>1 DEF Dated

\* Every set of notifications has an oldest.
LEMMA OldestExists ==
    ASSUME NEW db, NEW S, Dated(db, S), S # {}
    PROVE  \E m \in S : \A x \in S \ {m} : Newer(db, x, m)
<1> DEFINE Ats == {db.req[x].at : x \in S}
<1>1. Ats \in SUBSET Nat /\ Ats # {}
    BY DEF Dated
<1>2. PICK t \in Ats : \A y \in Ats : t <= y
    BY <1>1, LeastNumber
<1> DEFINE First == {x \in S : db.req[x].at = t}
<1>3. First \in SUBSET Nat /\ First # {}
    BY <1>2 DEF Dated
<1>4. PICK m \in First : \A y \in First : m <= y
    BY <1>3, LeastNumber
<1>5. ASSUME NEW x \in S \ {m} PROVE Newer(db, x, m)
  <2>1. t <= db.req[x].at /\ db.req[m].at = t /\ t \in Nat /\ db.req[x].at \in Nat
      BY <1>1, <1>2, <1>4, <1>5 DEF Dated
  <2>2. db.req[x].at = t => m <= x
      BY <1>4, <1>5
  <2>3. m \in Nat /\ x \in Nat
      BY <1>3, <1>4, <1>5 DEF Dated
  <2> QED
      BY <1>5, <2>1, <2>2, <2>3 DEF Newer, Before
<1> QED
    BY <1>4, <1>5

\* q lists T once each, newest first.
Lists(db, T, q) ==
    /\ q \in [1..Cardinality(T) -> T]
    /\ \A i, j \in 1..Cardinality(T) : i # j => q[i] # q[j]
    /\ \A i, j \in 1..Cardinality(T) : i < j => Newer(db, q[i], q[j])

\* A list with an older notification at its end.
LEMMA ListMore ==
    ASSUME NEW db, NEW T, IsFiniteSet(T), NEW m \in T, \A x \in T \ {m} : Newer(db, x, m),
           NEW q, Lists(db, T \ {m}, q)
    PROVE  \E p : Lists(db, T, p)
<1>1. PICK n \in Nat : /\ Cardinality(T) = n + 1 /\ Cardinality(T \ {m}) = n
  <2>1. /\ Cardinality(T) \in Nat /\ Cardinality(T \ {m}) = Cardinality(T) - 1
        /\ Cardinality(T \ {m}) \in Nat
      BY FS_CardinalityType, FS_RemoveElement
  <2> QED
      BY <2>1
<1>2. /\ q \in [1..n -> T \ {m}] /\ \A i, j \in 1..n : i # j => q[i] # q[j]
      /\ \A i, j \in 1..n : i < j => Newer(db, q[i], q[j])
    BY <1>1 DEF Lists
<1> DEFINE p == [i \in 1..(n + 1) |-> IF i = n + 1 THEN m ELSE q[i]]
<1>3. \A i \in 1..(n + 1) : i = n + 1 \/ i \in 1..n
    OBVIOUS
<1>4. p \in [1..(n + 1) -> T]
    BY <1>2, <1>3
<1>5. p[n + 1] = m /\ \A i \in 1..n : p[i] = q[i] /\ q[i] \in T \ {m}
    BY <1>2
<1> HIDE DEF p
<1>6. \A i, j \in 1..(n + 1) : i # j => p[i] # p[j]
    BY <1>2, <1>3, <1>5
<1>7. \A i, j \in 1..(n + 1) : i < j => Newer(db, p[i], p[j])
  <2> TAKE i, j \in 1..(n + 1)
  <2> HAVE i < j
  <2>1. i \in 1..n
      OBVIOUS
  <2>2. CASE j = n + 1
      BY <1>5, <2>1, <2>2
  <2>3. CASE j # n + 1
    <3>1. j \in 1..n
        BY <2>3
    <3> QED
        BY <1>2, <1>5, <2>1, <3>1
  <2> QED
      BY <2>2, <2>3
<1>8. Lists(db, T, p)
    BY <1>1, <1>4, <1>6, <1>7 DEF Lists
<1> QED
    BY <1>8

\* Every finite set of notifications can be listed.
LEMMA ListExists ==
    ASSUME NEW db, NEW S, Dated(db, S), IsFiniteSet(S)
    PROVE  \E q : Lists(db, S, q)
<1> DEFINE Bad == {n \in Nat : \E T \in SUBSET S : Cardinality(T) = n /\ ~\E q : Lists(db, T, q)}
<1>1. Cardinality(S) \in Nat
    BY FS_CardinalityType
<1> SUFFICES ASSUME Bad # {} PROVE FALSE
    BY <1>1
<1>2. PICK n \in Bad : \A y \in Bad : n <= y
    BY LeastNumber
<1>3. PICK T \in SUBSET S : Cardinality(T) = n /\ ~\E q : Lists(db, T, q)
    BY <1>2
<1>4. IsFiniteSet(T) /\ Dated(db, T) /\ n \in Nat
    BY <1>2, FS_Subset DEF Dated
<1>5. CASE T = {}
  <2>1. Cardinality(T) = 0
      BY <1>5, FS_EmptySet
  <2>2. Lists(db, T, [i \in 1..0 |-> 0])
      BY <2>1 DEF Lists
  <2> QED
      BY <1>3, <2>2
<1>6. CASE T # {}
  <2>1. PICK m \in T : \A x \in T \ {m} : Newer(db, x, m)
      BY <1>4, <1>6, OldestExists
  <2>2. Cardinality(T \ {m}) = n - 1 /\ Cardinality(T \ {m}) \in Nat
      BY <1>3, <1>4, <2>1, FS_RemoveElement, FS_CardinalityType
  <2>3. n - 1 \notin Bad /\ n - 1 \in Nat
      BY <1>2, <1>4, <2>2
  <2>4. \E q : Lists(db, T \ {m}, q)
    <3>1. T \ {m} \in SUBSET S
        OBVIOUS
    <3> QED
        BY <2>2, <2>3, <3>1
  <2>5. \E p : Lists(db, T, p)
      BY <1>4, <2>1, <2>4, ListMore
  <2> QED
      BY <1>3, <2>5
<1> QED
    BY <1>5, <1>6

\* Newest is such a list.
LEMMA NewestLists ==
    ASSUME NEW db, NEW S, Dated(db, S), IsFiniteSet(S)
    PROVE  Lists(db, S, Newest(db, S))
<1> DEFINE n == Cardinality(S)
<1>1. PICK p : Lists(db, S, p)
    BY ListExists
<1>2. SetToSeqs(S) = {f \in [1..n -> S] : \A i, j \in 1..n : i # j => f[i] # f[j]}
    BY DEF SetToSeqs
<1>3. p \in SetToSeqs(S) /\ DOMAIN p = 1..n
    BY <1>1, <1>2 DEF Lists
<1>4. \A i, j \in DOMAIN p : i < j => Newer(db, p[i], p[j])
    BY <1>1, <1>3 DEF Lists
<1>5. PICK q \in SetToSeqs(S) :
          /\ q = Newest(db, S)
          /\ \A i, j \in DOMAIN q : i < j => Newer(db, q[i], q[j])
    BY <1>3, <1>4 DEF Newest
<1>6. q \in [1..n -> S] /\ (\A i, j \in 1..n : i # j => q[i] # q[j]) /\ DOMAIN q = 1..n
    BY <1>2, <1>5
<1> QED
    BY <1>5, <1>6 DEF Lists

\* A list leaves nothing out.
LEMMA ListsAll ==
    ASSUME NEW db, NEW S, IsFiniteSet(S), NEW q, Lists(db, S, q)
    PROVE  \A x \in S : \E i \in 1..Cardinality(S) : q[i] = x
<1> DEFINE n == Cardinality(S)
<1>1. n \in Nat
    BY FS_CardinalityType
<1>2. IsFiniteSet(1..n) /\ Cardinality(1..n) = n
    BY <1>1, FS_Interval
<1>3. q \in Injection(1..n, S)
    BY DEF Lists, Injection, IsInjective
<1>4. q \in Surjection(1..n, S)
    BY <1>2, <1>3, FS_Injection
<1> QED
    BY <1>4 DEF Surjection

\* items is a page of S, and next the cursor of the page that follows it.
PageOf(db, S, limit, items, next) ==
    LET last == items[Len(items)]
    IN  /\ items \in Seq(S) /\ Len(items) <= limit
        /\ \A i, j \in 1..Len(items) : i < j => Newer(db, items[i], items[j])
        /\ \/ /\ next = {}
              /\ \A x \in S : \E i \in 1..Len(items) : items[i] = x
           \/ /\ Len(items) > 0
              /\ next = {encodeCursor(last, db.req[last].at)}
              /\ \A x \in S : (\E i \in 1..Len(items) : items[i] = x) \/ Newer(db, last, x)

Found(db, u, f, cursor) ==
    {id \in Matching(db, u, f) : \A c \in cursor : Before(db.req[id].at, id, decodeCursor(c))}

\* The first limit rows of more than limit, or all of them.
LEMMA ListPage ==
    ASSUME NEW db, NEW u, NEW f, NEW cursor, NEW limit \in Nat \ {0},
           NEW S, S = Found(db, u, f, cursor), Dated(db, S), IsFiniteSet(S),
           NEW p, p = ListRequests(db, u, f, limit, cursor)
    PROVE  PageOf(db, S, limit, p.items, p.next)
<1> DEFINE n == Cardinality(S)
           q == Newest(db, S)
           k == Min({limit + 1, n})
           items == SubSeq(q, 1, k)
<1>1. n \in Nat /\ Lists(db, S, q)
    BY NewestLists, FS_CardinalityType
<1>2. p = IF Len(items) > limit
          THEN [items |-> SubSeq(items, 1, limit),
                next  |-> {encodeCursor(items[limit], db.req[items[limit]].at)}]
          ELSE [items |-> items, next |-> {}]
    BY DEF ListRequests, Found
<1>3. \A x \in S : \E i \in 1..n : q[i] = x
    BY <1>1, ListsAll
<1> HIDE DEF q
<1>4. /\ q \in [1..n -> S] /\ \A i, j \in 1..n : i < j => Newer(db, q[i], q[j])
      /\ \A x \in S : \E i \in 1..n : q[i] = x
    BY <1>1, <1>3 DEF Lists
<1> HIDE DEF n
<1>5. k \in {limit + 1, n} /\ k <= limit + 1 /\ k <= n
  <2>1. \E x \in {limit + 1, n} : \A y \in {limit + 1, n} : x <= y
      BY <1>1
  <2>2. k \in {limit + 1, n} /\ \A y \in {limit + 1, n} : k <= y
      BY <2>1 DEF Min
  <2> QED
      BY <2>2
<1>6. q \in Seq(S) /\ Len(q) = n
    BY <1>1, <1>4
<1> HIDE DEF k
<1>7. items \in Seq(S) /\ Len(items) = k /\ \A i \in 1..k : items[i] = q[i]
    BY <1>1, <1>5, <1>6
<1> HIDE DEF items
<1>8. CASE n > limit
  <2>1. k = limit + 1 /\ Len(items) > limit
      BY <1>1, <1>5, <1>7, <1>8
  <2> DEFINE page == SubSeq(items, 1, limit)
  <2>2. p.items = page /\ p.next = {encodeCursor(items[limit], db.req[items[limit]].at)}
      BY <1>2, <2>1
  <2>3. page \in Seq(S) /\ Len(page) = limit /\ \A i \in 1..limit : page[i] = items[i]
      BY <1>7, <2>1
  <2> HIDE DEF page
  <2>4. \A i \in 1..limit : page[i] = q[i] /\ i \in 1..n
      BY <1>1, <1>7, <1>8, <2>1, <2>3
  <2>5. items[limit] = page[limit] /\ page[limit] = q[limit] /\ limit \in 1..n
      BY <2>3, <2>4
  <2>6. ASSUME NEW x \in S
        PROVE  (\E i \in 1..limit : page[i] = x) \/ Newer(db, page[limit], x)
    <3>1. PICK i \in 1..n : q[i] = x
        BY <1>4
    <3>2. CASE i <= limit
      <4>1. i \in 1..limit
          BY <3>2
      <4> QED
          BY <2>4, <3>1, <4>1
    <3>3. CASE limit < i
        BY <1>4, <2>5, <3>1, <3>3
    <3> QED
        BY <1>1, <3>2, <3>3
  <2>7. \A i, j \in 1..limit : i < j => Newer(db, page[i], page[j])
      BY <1>4, <2>4
  <2>8. PageOf(db, S, limit, page, {encodeCursor(page[limit], db.req[page[limit]].at)})
      BY <2>3, <2>6, <2>7 DEF PageOf
  <2> QED
      BY <2>2, <2>5, <2>8
<1>9. CASE ~(n > limit)
  <2>1. k = n /\ ~(Len(items) > limit)
      BY <1>1, <1>5, <1>7, <1>9
  <2>2. p.items = items /\ p.next = {}
      BY <1>2, <2>1
  <2>3. \A i, j \in 1..Len(items) : i < j => Newer(db, items[i], items[j])
      BY <1>4, <1>7, <2>1
  <2>4. \A x \in S : \E i \in 1..Len(items) : items[i] = x
      BY <1>4, <1>7, <2>1
  <2>5. Len(items) <= limit
      BY <1>1, <1>7, <1>9, <2>1
  <2> QED
      BY <1>7, <2>2, <2>3, <2>4, <2>5 DEF PageOf
<1> QED
    BY <1>8, <1>9

-----------------------------------------------------------------------------
(* The inductive invariant.                                                *)

\* The statuses a delivery has here; its request has the same.
Stages == {"PENDING", "SENT", "CANCELLED"}

Row == [user : Users, at : Nat, status : Stages]

\* A table on some of the ids.
Table(R) == UNION {[D -> R] : D \in SUBSET Ids}

Databases == [req : Table(Row), del : Table(Stages)]

\* A request has the status of its delivery.
Coherent(db) ==
    /\ DOMAIN db.req = DOMAIN db.del /\ IsFiniteSet(DOMAIN db.req)
    /\ \A id \in DOMAIN db.req : db.req[id].status = db.del[id]

\* What commits do to a database: rows stay, and only a PENDING one changes.
Later(a, b) ==
    /\ DOMAIN a.req \subseteq DOMAIN b.req
    /\ \A id \in DOMAIN a.req :
          /\ b.req[id].user = a.req[id].user /\ b.req[id].at = a.req[id].at
          /\ a.req[id].status = "PENDING" \/ b.req[id].status = a.req[id].status

\* w is a history of commits the replica has not passed.
WalOK(w) ==
    /\ w \in Seq(Databases) /\ Len(w) \in 1..(MaxLag + 1)
    /\ \A i \in 1..Len(w) : Coherent(w[i])
    /\ \A i, j \in 1..Len(w) : i <= j => Later(w[i], w[j])

Kinds == {"idle", "list", "get", "cancel", "batch", "answered"}
Codes == {0, 200, 400, 404, 409}

SessionType ==
    [kind : Kinds, user : Users, id : Nat, code : Codes, filter : Filters,
     cursor : SUBSET [ts : Nat, id : Nat], page : Seq(Ids), seen : Seq(Ids),
     before : SUBSET Ids, request : SUBSET Row, deliveries : SUBSET Stages]

\* The notification exists, wherever one looks, and is the user's.
Own(w, s, id) == id \in DOMAIN w[1].req /\ w[1].req[id].user = s.user

\* Every database that is still to be shown has it in this status.
Settled(w, id, status) == \A i \in 1..Len(w) : w[i].req[id].status = status

\* What was seen is the user's and in order, and the cursor is its end.
SeenInv(w, s) ==
    LET last == s.seen[Len(s.seen)]
    IN  /\ \A i \in 1..Len(s.seen) : Own(w, s, s.seen[i])
        /\ \A i, j \in 1..Len(s.seen) : i < j => Newer(w[1], s.seen[i], s.seen[j])
        /\ s.cursor # {} =>
              Len(s.seen) > 0 /\ s.cursor = {encodeCursor(last, w[1].req[last].at)}

\* What matched at first will keep a status other than PENDING.
BeforeInv(w, s) ==
    \A id \in s.before :
        /\ id \in DOMAIN w[1].req
        /\ s.filter.status \in {"any", "PENDING"} \/ Settled(w, id, s.filter.status)

\* What matched at first and still does was seen or lies behind the cursor.
CoverInv(w, s) ==
    s.code = 200 => \A id \in s.before \cap Matching(w[1], s.user, s.filter) :
        \/ \E i \in 1..Len(s.seen) : s.seen[i] = id
        \/ \E c \in s.cursor : Before(w[1].req[id].at, id, decodeCursor(c))

\* A call about one notification.
CallInv(w, s) ==
    /\ s.kind \in {"get", "cancel"} => Own(w, s, s.id)
    /\ s.kind = "cancel" => s.deliveries = {}
    /\ s.kind = "get" =>
          \A r \in s.request : r.status = "PENDING" \/ Settled(w, s.id, r.status)
    /\ s.kind = "answered" =>
          /\ s.code = 404 \/ Own(w, s, s.id)
          /\ \A r \in s.request, d \in s.deliveries : r.status \in {"PENDING", d}

SessionInv(w, s) ==
    /\ s \in SessionType /\ Len(s.page) <= MaxLimit
    /\ s.kind # "list" =>
          s.page = <<>> /\ s.seen = <<>> /\ s.cursor = {} /\ s.before = {}
    /\ s.cursor # {} => s.code = 200
    /\ SeenInv(w, s) /\ BeforeInv(w, s) /\ CoverInv(w, s) /\ CallInv(w, s)

ReadsInv == WalOK(wal) /\ SessionInv(wal, session)

-----------------------------------------------------------------------------
(* What commits and the replay do.                                         *)

LEMMA RowOf ==
    ASSUME NEW db \in Databases, NEW id \in DOMAIN db.req
    PROVE  /\ id \in Ids /\ id \in Nat /\ db.req[id] \in Row /\ db.req[id].at \in Nat
           /\ db.req[id].status \in Stages /\ db.req[id].user \in Users
<1>1. PICK D \in SUBSET Ids : db.req \in [D -> Row]
    BY DEF Databases, Table
<1> QED
    BY <1>1, ReadsAssumption DEF Row

LEMMA LaterOrder ==
    /\ \A a : Later(a, a)
    /\ \A a, b, c : Later(a, b) /\ Later(b, c) => Later(a, c)
    BY DEF Later

LEMMA WalEnds ==
    ASSUME NEW w, WalOK(w)
    PROVE  /\ Len(w) \in Nat /\ Len(w) >= 1 /\ 1 \in 1..Len(w) /\ Len(w) \in 1..Len(w)
           /\ Head(w) = w[1] /\ Last(w) = w[Len(w)]
           /\ \A i \in 1..Len(w) : w[i] \in Databases /\ Coherent(w[i]) /\ Later(w[1], w[i])
    BY ReadsAssumption DEF WalOK, Last

\* A commit.
LEMMA CommitWal ==
    ASSUME NEW w, WalOK(w), NEW db \in Databases, Coherent(db), Later(w[Len(w)], db),
           Len(w) <= MaxLag
    PROVE  /\ WalOK(Append(w, db)) /\ Append(w, db)[1] = w[1]
           /\ \A i \in 1..Len(Append(w, db)) :
                  (i \in 1..Len(w) /\ Append(w, db)[i] = w[i]) \/ Append(w, db)[i] = db
<1> DEFINE v == Append(w, db)
           n == Len(w)
<1>1. /\ w \in Seq(Databases) /\ n \in Nat /\ n >= 1 /\ n \in 1..n
      /\ \A i \in 1..n : Coherent(w[i])
      /\ \A i, j \in 1..n : i <= j => Later(w[i], w[j])
    BY WalEnds DEF WalOK
<1>2. /\ v \in Seq(Databases) /\ Len(v) = n + 1 /\ v[n + 1] = db
      /\ \A i \in 1..n : v[i] = w[i]
    BY <1>1
<1> HIDE DEF v, n
<1>3. \A i \in 1..(n + 1) : i \in 1..n \/ i = n + 1
    BY <1>1
<1>4. \A i \in 1..(n + 1) : Coherent(v[i])
    BY <1>1, <1>2, <1>3
<1>5. ASSUME NEW i \in 1..(n + 1), NEW j \in 1..(n + 1), i <= j PROVE Later(v[i], v[j])
  <2>1. CASE j \in 1..n
    <3>1. i \in 1..n
        BY <1>1, <1>5, <2>1
    <3> QED
        BY <1>1, <1>2, <1>5, <2>1, <3>1
  <2>2. CASE j = n + 1 /\ i \in 1..n
    <3>1. Later(w[i], w[n]) /\ Later(w[n], db)
        BY <1>1, <2>2 DEF n
    <3> QED
        BY <1>2, <2>2, <3>1, LaterOrder
  <2>3. CASE j = n + 1 /\ i = n + 1
      BY <2>3, LaterOrder
  <2> QED
      BY <1>3, <2>1, <2>2, <2>3
<1>6. n + 1 \in 1..(MaxLag + 1)
    BY <1>1, ReadsAssumption DEF n
<1>7. WalOK(v)
    BY <1>2, <1>4, <1>5, <1>6 DEF WalOK
<1> QED
    BY <1>1, <1>2, <1>3, <1>7 DEF v, n

\* The replica shows the next database.
LEMMA ReplayWal ==
    ASSUME NEW w, WalOK(w), Len(w) > 1
    PROVE  /\ WalOK(Tail(w)) /\ Tail(w)[1] = w[2] /\ Later(w[1], w[2])
           /\ \A i \in 1..Len(Tail(w)) : \E j \in 1..Len(w) : Tail(w)[i] = w[j]
<1> DEFINE v == Tail(w)
           n == Len(w)
<1>1. /\ w \in Seq(Databases) /\ n \in Nat /\ n > 1 /\ n <= MaxLag + 1 /\ w # <<>>
      /\ \A i \in 1..n : Coherent(w[i])
      /\ \A i, j \in 1..n : i <= j => Later(w[i], w[j])
    BY WalEnds, ReadsAssumption, EmptySeq DEF WalOK
<1>2. /\ v \in Seq(Databases) /\ Len(v) = n - 1
      /\ \A i \in 1..(n - 1) : v[i] = w[i + 1]
    BY <1>1, HeadTailProperties
<1> HIDE DEF v, n
<1>3. \A i \in 1..(n - 1) : i + 1 \in 1..n
    BY <1>1
<1>4. \A i \in 1..(n - 1) : Coherent(v[i])
    BY <1>1, <1>2, <1>3
<1>5. \A i, j \in 1..(n - 1) : i <= j => Later(v[i], v[j])
  <2> TAKE i, j \in 1..(n - 1)
  <2> HAVE i <= j
  <2>1. i + 1 \in 1..n /\ j + 1 \in 1..n /\ i + 1 <= j + 1
      BY <1>1
  <2>2. Later(w[i + 1], w[j + 1])
      BY <1>1, <2>1
  <2> QED
      BY <1>2, <2>2
<1>6. n - 1 \in 1..(MaxLag + 1)
    BY <1>1, ReadsAssumption
<1>7. WalOK(v)
    BY <1>2, <1>4, <1>5, <1>6 DEF WalOK
<1>8. v[1] = w[2] /\ Later(w[1], w[2])
  <2>1. 1 \in 1..(n - 1) /\ 1 + 1 = 2 /\ 1 \in 1..n /\ 2 \in 1..n
      BY <1>1
  <2> QED
      BY <1>1, <1>2, <2>1
<1> QED
    BY <1>2, <1>3, <1>7, <1>8 DEF v, n

\* Own follows the replica.
LEMMA OwnMoves ==
    ASSUME NEW w, NEW v, NEW s, Later(w[1], v[1]), NEW id, Own(w, s, id)
    PROVE  Own(v, s, id) /\ v[1].req[id].at = w[1].req[id].at
    BY DEF Own, Later

\* A status other than PENDING stays.
LEMMA SettledMoves ==
    ASSUME NEW w, WalOK(w), NEW v, NEW id, id \in DOMAIN w[1].req, NEW status,
           status # "PENDING", Settled(w, id, status),
           \A i \in 1..Len(v) : \E j \in 1..Len(w) : Later(w[j], v[i])
    PROVE  Settled(v, id, status)
<1> SUFFICES ASSUME NEW i \in 1..Len(v) PROVE v[i].req[id].status = status
    BY DEF Settled
<1>1. PICK j \in 1..Len(w) : Later(w[j], v[i])
    OBVIOUS
<1>2. id \in DOMAIN w[j].req
    BY WalEnds DEF Later
<1>3. w[j].req[id].status = status
    BY DEF Settled
<1> QED
    BY <1>1, <1>2, <1>3 DEF Later

\* What a client has been told stays true while the databases move on.
LEMMA SessionMoves ==
    ASSUME NEW w, WalOK(w), NEW v, WalOK(v), NEW s, SessionInv(w, s),
           Later(w[1], v[1]), \A i \in 1..Len(v) : \E j \in 1..Len(w) : Later(w[j], v[i])
    PROVE  SessionInv(v, s)
<1>1. SeenInv(w, s) /\ BeforeInv(w, s) /\ CoverInv(w, s) /\ CallInv(w, s)
    BY DEF SessionInv
<1>2. SeenInv(v, s)
  <2>1. Len(s.seen) \in Nat
      BY DEF SessionInv, SessionType
  <2>2. \A i \in 1..Len(s.seen) :
            Own(v, s, s.seen[i]) /\ v[1].req[s.seen[i]].at = w[1].req[s.seen[i]].at
      BY <1>1, OwnMoves DEF SeenInv
  <2>3. \A i, j \in 1..Len(s.seen) : i < j => Newer(v[1], s.seen[i], s.seen[j])
      BY <1>1, <2>2 DEF SeenInv, Newer
  <2>4. ASSUME s.cursor # {}
        PROVE  /\ Len(s.seen) > 0
               /\ s.cursor = {encodeCursor(s.seen[Len(s.seen)], v[1].req[s.seen[Len(s.seen)]].at)}
    <3>1. Len(s.seen) > 0
        BY <1>1, <2>4 DEF SeenInv
    <3>2. Len(s.seen) \in 1..Len(s.seen)
        BY <2>1, <3>1
    <3>3. s.cursor = {encodeCursor(s.seen[Len(s.seen)], w[1].req[s.seen[Len(s.seen)]].at)}
        BY <1>1, <2>4 DEF SeenInv
    <3> QED
        BY <2>2, <3>1, <3>2, <3>3
  <2> QED
      BY <2>2, <2>3, <2>4 DEF SeenInv
<1>3. BeforeInv(v, s)
  <2> SUFFICES ASSUME NEW id \in s.before
               PROVE  /\ id \in DOMAIN v[1].req
                      /\ s.filter.status \in {"any", "PENDING"} \/ Settled(v, id, s.filter.status)
      BY DEF BeforeInv
  <2>1. id \in DOMAIN w[1].req
      BY <1>1 DEF BeforeInv
  <2>2. CASE s.filter.status \in {"any", "PENDING"}
      BY <2>1, <2>2 DEF Later
  <2>3. CASE s.filter.status \notin {"any", "PENDING"}
    <3>1. Settled(w, id, s.filter.status)
        BY <1>1, <2>3 DEF BeforeInv
    <3>2. Settled(v, id, s.filter.status)
        BY <2>1, <2>3, <3>1, SettledMoves
    <3> QED
        BY <2>1, <3>2 DEF Later
  <2> QED
      BY <2>2, <2>3
<1>4. CoverInv(v, s)
  <2> SUFFICES ASSUME s.code = 200, NEW id \in s.before, id \in Matching(v[1], s.user, s.filter)
               PROVE  \/ \E i \in 1..Len(s.seen) : s.seen[i] = id
                      \/ \E c \in s.cursor : Before(v[1].req[id].at, id, decodeCursor(c))
      BY DEF CoverInv
  <2>1. id \in DOMAIN w[1].req /\ 1 \in 1..Len(w)
      BY <1>1, WalEnds DEF BeforeInv
  <2>2. v[1].req[id].user = w[1].req[id].user /\ v[1].req[id].at = w[1].req[id].at
      BY <2>1 DEF Later
  <2>3. s.filter.status # "any" => w[1].req[id].status = s.filter.status
    <3>1. CASE s.filter.status = "PENDING"
        BY <2>1, <3>1 DEF Later, Matching
    <3>2. CASE s.filter.status \notin {"any", "PENDING"}
        BY <1>1, <2>1, <3>2 DEF BeforeInv, Settled
    <3> QED
        BY <3>1, <3>2
  <2>4. id \in Matching(w[1], s.user, s.filter)
      BY <2>1, <2>2, <2>3 DEF Matching
  <2> QED
      BY <1>1, <2>2, <2>4 DEF CoverInv
<1>5. CallInv(v, s)
  <2>1. ASSUME s.kind = "get", NEW r \in s.request
        PROVE  r.status = "PENDING" \/ Settled(v, s.id, r.status)
    <3>1. Own(w, s, s.id) /\ (r.status = "PENDING" \/ Settled(w, s.id, r.status))
        BY <1>1, <2>1 DEF CallInv
    <3> QED
        BY <3>1, SettledMoves DEF Own
  <2>2. s.kind \in {"get", "cancel"} => Own(v, s, s.id)
      BY <1>1, OwnMoves DEF CallInv
  <2>3. s.kind = "answered" => s.code = 404 \/ Own(v, s, s.id)
      BY <1>1, OwnMoves DEF CallInv
  <2> QED
      BY <1>1, <2>1, <2>2, <2>3 DEF CallInv
<1> QED
    BY <1>2, <1>3, <1>4, <1>5 DEF SessionInv

\* After a commit the session is as it was.
LEMMA CommitSession ==
    ASSUME NEW w, WalOK(w), NEW db \in Databases, Coherent(db), Later(w[Len(w)], db),
           Len(w) <= MaxLag, NEW s, SessionInv(w, s)
    PROVE  WalOK(Append(w, db)) /\ SessionInv(Append(w, db), s)
<1> DEFINE v == Append(w, db)
<1>1. /\ WalOK(v) /\ v[1] = w[1]
      /\ \A i \in 1..Len(v) : (i \in 1..Len(w) /\ v[i] = w[i]) \/ v[i] = db
    BY CommitWal
<1> HIDE DEF v
<1>2. \A i \in 1..Len(v) : \E j \in 1..Len(w) : Later(w[j], v[i])
    BY <1>1, WalEnds, LaterOrder
<1>3. Later(w[1], v[1])
    BY <1>1, LaterOrder
<1>4. SessionInv(v, s)
    BY <1>1, <1>2, <1>3, SessionMoves
<1> QED
    BY <1>1, <1>4 DEF v

LEMMA ReplaySession ==
    ASSUME NEW w, WalOK(w), Len(w) > 1, NEW s, SessionInv(w, s)
    PROVE  WalOK(Tail(w)) /\ SessionInv(Tail(w), s)
<1> DEFINE v == Tail(w)
<1>1. /\ WalOK(v) /\ v[1] = w[2] /\ Later(w[1], w[2])
      /\ \A i \in 1..Len(v) : \E j \in 1..Len(w) : v[i] = w[j]
    BY ReplayWal
<1> HIDE DEF v
<1>2. \A i \in 1..Len(v) : \E j \in 1..Len(w) : Later(w[j], v[i])
    BY <1>1, LaterOrder
<1>3. SessionInv(v, s)
    BY <1>1, <1>2, SessionMoves
<1> QED
    BY <1>1, <1>3 DEF v

\* The status of a request with one delivery is that of the delivery.
LEMMA AggregateOne ==
    ASSUME NEW d \in Stages
    PROVE  AggregateRequestStatus(<<d>>) = d
<1> DEFINE q == <<d>>
<1>1. q # <<>> /\ Len(q) = 1 /\ DOMAIN q = {1} /\ q[1] = d
    OBVIOUS
<1> HIDE DEF q
<1>2. (\E i \in DOMAIN q : ~IsTerminal(q[i])) <=> d = "PENDING"
    BY <1>1 DEF IsTerminal, Terminal, Stages
<1>3. \A st : Count(q, st) = IF d = st THEN 1 ELSE 0
  <2> TAKE st
  <2>1. CASE d = st
    <3>1. {i \in DOMAIN q : q[i] = st} = {1}
        BY <1>1, <2>1
    <3> QED
        BY <2>1, <3>1, FS_Singleton DEF Count
  <2>2. CASE d # st
    <3>1. {i \in DOMAIN q : q[i] = st} = {}
        BY <1>1, <2>2
    <3> QED
        BY <2>2, <3>1, FS_EmptySet DEF Count
  <2> QED
      BY <2>1, <2>2
<1>4. AggregateRequestStatus(q) = d
    BY <1>1, <1>2, <1>3 DEF AggregateRequestStatus, Stages
<1> QED
    BY <1>4 DEF q

LEMMA TableType ==
    ASSUME NEW R, NEW f
    PROVE  f \in Table(R) <=> DOMAIN f \subseteq Ids /\ f \in [DOMAIN f -> R]
    BY DEF Table

\* A new request has its delivery, and what was there is unchanged.
LEMMA InsertedRow ==
    ASSUME NEW old \in Databases, Coherent(old), NEW id \in Ids, id \notin DOMAIN old.req,
           NEW u \in Users, NEW at \in Times, NEW db,
           db = [req |-> WithRow(old.req, id, [user |-> u, at |-> at, status |-> "PENDING"]),
                 del |-> WithRow(old.del, id, "PENDING")]
    PROVE  db \in Databases /\ Coherent(db) /\ Later(old, db)
<1> DEFINE row == [user |-> u, at |-> at, status |-> "PENDING"]
           D == DOMAIN old.req
<1>1. row \in Row /\ row.status = "PENDING"
    BY ReadsAssumption DEF Row, Stages
<1> HIDE DEF row
<1>2. /\ D \subseteq Ids /\ old.req \in [D -> Row] /\ old.del \in [D -> Stages]
      /\ DOMAIN old.del = D /\ IsFiniteSet(D)
    BY TableType DEF Databases, Coherent
<1>3. /\ db.req = [x \in D \cup {id} |-> IF x = id THEN row ELSE old.req[x]]
      /\ db.del = [x \in D \cup {id} |-> IF x = id THEN "PENDING" ELSE old.del[x]]
      /\ db = [req |-> db.req, del |-> db.del]
    BY <1>2 DEF WithRow, row
<1> HIDE DEF D
<1>4. db.req \in [D \cup {id} -> Row] /\ db.del \in [D \cup {id} -> Stages]
    BY <1>1, <1>2, <1>3 DEF Stages
<1>5. DOMAIN db.req = D \cup {id} /\ DOMAIN db.del = D \cup {id}
    BY <1>4
<1>6. db.req \in Table(Row) /\ db.del \in Table(Stages)
    BY <1>2, <1>4, <1>5, TableType
<1>7. db \in Databases
    BY <1>3, <1>6 DEF Databases
<1>8. IsFiniteSet(D \cup {id})
    BY <1>2, FS_AddElement
<1>9. \A x \in D \cup {id} : db.req[x].status = db.del[x]
    BY <1>1, <1>2, <1>3 DEF Coherent, D
<1>10. \A x \in D : db.req[x] = old.req[x]
    BY <1>3 DEF D
<1>11. Coherent(db)
    BY <1>5, <1>8, <1>9 DEF Coherent
<1>12. Later(old, db)
    BY <1>5, <1>10 DEF Later, D
<1> QED
    BY <1>7, <1>11, <1>12

\* A delivery and its request are finished together.
LEMMA FinishedRow ==
    ASSUME NEW old \in Databases, Coherent(old), NEW id, id \in DOMAIN old.del,
           old.del[id] = "PENDING", NEW st \in Stages, NEW db, db = Finished(old, id, st)
    PROVE  db \in Databases /\ Coherent(db) /\ Later(old, db)
<1> DEFINE D == DOMAIN old.req
<1>1. /\ D \subseteq Ids /\ old.req \in [D -> Row] /\ old.del \in [D -> Stages]
      /\ DOMAIN old.del = D /\ IsFiniteSet(D)
    BY TableType DEF Databases, Coherent
<1>2. id \in D /\ old.req[id].status = "PENDING" /\ old.req[id] \in Row
    BY <1>1 DEF Coherent
<1> DEFINE row == [old.req[id] EXCEPT !.status = st]
<1>3. row \in Row /\ row.status = st /\ row.user = old.req[id].user /\ row.at = old.req[id].at
    BY <1>2 DEF Row
<1>4. /\ db.req = [old.req EXCEPT ![id] = row] /\ db.del = [old.del EXCEPT ![id] = st]
      /\ db = [req |-> db.req, del |-> db.del]
    BY AggregateOne DEF Finished
<1> HIDE DEF row, D
<1>5. db.req \in [D -> Row] /\ db.del \in [D -> Stages]
    BY <1>1, <1>2, <1>3, <1>4
<1>6. db.req[id] = row /\ db.del[id] = st
    BY <1>1, <1>2, <1>4
<1>7. \A x \in D \ {id} : db.req[x] = old.req[x] /\ db.del[x] = old.del[x]
    BY <1>1, <1>2, <1>4
<1>8. DOMAIN db.req = D /\ DOMAIN db.del = D
    BY <1>5
<1>9. db.req \in Table(Row) /\ db.del \in Table(Stages)
    BY <1>1, <1>5, <1>8, TableType
<1>10. db \in Databases
    BY <1>4, <1>9 DEF Databases
<1>11. \A x \in D : db.req[x].status = db.del[x]
    BY <1>3, <1>6, <1>7 DEF Coherent, D
<1>12. Coherent(db)
    BY <1>1, <1>8, <1>11 DEF Coherent
<1>13. Later(old, db)
    BY <1>2, <1>3, <1>6, <1>7, <1>8 DEF Later, D
<1> QED
    BY <1>10, <1>12, <1>13

-----------------------------------------------------------------------------
(* The pages of a list.                                                    *)

LEMMA LimitType ==
    ASSUME NEW n \in Limits
    PROVE  Normalize(n) \in Nat \ {0} /\ Normalize(n) <= MaxLimit
    BY ReadsAssumption DEF Normalize

\* The cursor that comes back is the row it was made of.
LEMMA CursorRoundTrip ==
    ASSUME NEW at \in Nat, NEW id \in Nat
    PROVE  /\ encodeCursor(id, at) \in [ts : Nat, id : Nat]
           /\ decodeCursor(encodeCursor(id, at)) = [at |-> at, id |-> id]
<1>1. TickNanos \in Nat \ {0}
    BY ReadsAssumption
<1>2. at * TickNanos \in Nat /\ (at * TickNanos) \div TickNanos = at
    BY <1>1
<1> QED
    BY <1>2 DEF encodeCursor, decodeCursor

\* What lies behind the cursor of a row is older than the row.
LEMMA BehindCursor ==
    ASSUME NEW db, NEW a \in Nat, db.req[a].at \in Nat, NEW b
    PROVE  Before(db.req[b].at, b, decodeCursor(encodeCursor(a, db.req[a].at)))
               <=> Newer(db, a, b)
    BY CursorRoundTrip DEF Newer

LEMMA FoundType ==
    ASSUME NEW db \in Databases, Coherent(db), NEW u, NEW f, NEW cursor, NEW S,
           S = Found(db, u, f, cursor)
    PROVE  /\ S \subseteq DOMAIN db.req /\ S \subseteq Ids /\ Dated(db, S) /\ IsFiniteSet(S)
           /\ \A x \in S : db.req[x].user = u
<1>1. S \subseteq DOMAIN db.req /\ \A x \in S : db.req[x].user = u
    BY DEF Found, Matching
<1>2. IsFiniteSet(S)
    BY <1>1, FS_Subset DEF Coherent
<1> QED
    BY <1>1, <1>2, RowOf DEF Dated

\* The next page follows what was seen.
LEMMA BehindSeen ==
    ASSUME NEW w, WalOK(w), NEW s, SessionInv(w, s),
           s.cursor # {} \/ s.seen = <<>>
    PROVE  \A id \in Found(w[1], s.user, s.filter, s.cursor), i \in 1..Len(s.seen) :
               Newer(w[1], s.seen[i], id)
<1>1. w[1] \in Databases /\ Coherent(w[1]) /\ SeenInv(w, s) /\ Len(s.seen) \in Nat
    BY WalEnds DEF SessionInv, SessionType
<1> SUFFICES ASSUME NEW id \in Found(w[1], s.user, s.filter, s.cursor),
                    NEW i \in 1..Len(s.seen)
             PROVE  Newer(w[1], s.seen[i], id)
    OBVIOUS
<1> DEFINE n == Len(s.seen)
           last == s.seen[n]
<1>2. s.cursor = {encodeCursor(last, w[1].req[last].at)} /\ n \in 1..n
  <2>1. s.seen # <<>>
      BY <1>1
  <2> QED
      BY <1>1, <2>1 DEF SeenInv
<1>3. \A j \in 1..n : s.seen[j] \in DOMAIN w[1].req
    BY <1>1 DEF SeenInv, Own
<1>4. /\ id \in DOMAIN w[1].req
      /\ Before(w[1].req[id].at, id, decodeCursor(encodeCursor(last, w[1].req[last].at)))
    BY <1>2 DEF Found, Matching
<1>5. Newer(w[1], last, id)
    BY <1>1, <1>2, <1>3, <1>4, RowOf, BehindCursor
<1>6. s.seen[i] = last \/ Newer(w[1], s.seen[i], last)
  <2>1. CASE i = n
      BY <2>1
  <2>2. CASE i < n
      BY <1>1, <1>2, <2>2 DEF SeenInv
  <2> QED
      BY <1>1, <2>1, <2>2
<1>7. Dated(w[1], DOMAIN w[1].req)
    BY <1>1, RowOf DEF Dated
<1> QED
    BY <1>2, <1>3, <1>4, <1>5, <1>6, <1>7, NewerOrder

\* The fields a page changes.
Paged(s, items, q, next) ==
    [s EXCEPT !.code = 200, !.page = items, !.seen = q, !.cursor = next]

LEMMA PageFields ==
    ASSUME NEW s \in SessionType, NEW items \in Seq(Ids), NEW q \in Seq(Ids),
           NEW next \in SUBSET [ts : Nat, id : Nat],
           NEW t, t = Paged(s, items, q, next)
    PROVE  /\ t \in SessionType
           /\ t.code = 200 /\ t.page = items /\ t.seen = q /\ t.cursor = next
           /\ t.kind = s.kind /\ t.user = s.user /\ t.filter = s.filter
           /\ t.before = s.before
<1>1. 200 \in Codes
    BY DEF Codes
<1>2. t \in SessionType
    BY <1>1 DEF SessionType, Paged
<1> QED
    BY <1>2 DEF SessionType, Paged

\* One page more: everything seen is still in order, and what is left of the
\* list lies behind the new cursor.
LEMMA ListedSession ==
    ASSUME NEW w, WalOK(w), NEW s, SessionInv(w, s), s.kind = "list",
           s.cursor # {} \/ s.seen = <<>>, NEW n \in Limits,
           NEW S, S = Found(w[1], s.user, s.filter, s.cursor),
           \A id \in s.before \cap Matching(w[1], s.user, s.filter) :
               (\E i \in 1..Len(s.seen) : s.seen[i] = id) \/ id \in S,
           NEW items, NEW next, PageOf(w[1], S, Normalize(n), items, next)
    PROVE  SessionInv(w, Paged(s, items, s.seen \o items, next))
<1>1. /\ w[1] \in Databases /\ Coherent(w[1]) /\ SeenInv(w, s)
      /\ s \in SessionType /\ s.seen \in Seq(Ids)
    BY WalEnds DEF SessionInv, SessionType
<1>2. /\ S \subseteq DOMAIN w[1].req /\ S \subseteq Ids /\ Dated(w[1], S) /\ IsFiniteSet(S)
      /\ \A x \in S : w[1].req[x].user = s.user
    BY <1>1, FoundType
<1>3. PICK k \in Nat : k = Len(s.seen)
    BY <1>1
<1>4. \A id \in S, i \in 1..k : Newer(w[1], s.seen[i], id)
    BY <1>3, BehindSeen
<1>5. \A id \in s.before \cap Matching(w[1], s.user, s.filter) :
          (\E i \in 1..k : s.seen[i] = id) \/ id \in S
    BY <1>3
<1>6. items \in Seq(S) /\ Len(items) <= Normalize(n)
    BY DEF PageOf
<1>7. PICK m \in Nat : m = Len(items)
    BY <1>6
<1>8. items \in Seq(Ids) /\ m <= Normalize(n) /\ \A i \in 1..m : items[i] \in S
    BY <1>2, <1>6, <1>7
<1>9. PICK q \in Seq(Ids) :
          /\ q = s.seen \o items /\ Len(q) = k + m
          /\ \A i \in 1..k : q[i] = s.seen[i]
          /\ \A i \in 1..m : q[k + i] = items[i]
  <2>1. s.seen \o items \in Seq(Ids) /\ Len(s.seen \o items) = k + m
      BY <1>1, <1>3, <1>7, <1>8
  <2>2. /\ \A i \in 1..k : (s.seen \o items)[i] = s.seen[i]
        /\ \A i \in 1..m : (s.seen \o items)[k + i] = items[i]
      BY <1>1, <1>3, <1>7, <1>8
  <2> QED
      BY <2>1, <2>2
<1>10. /\ \A i \in 1..(k + m) : i \in 1..k \/ \E j \in 1..m : i = k + j
      /\ \A i \in 1..k : i \in 1..(k + m)
      /\ \A j \in 1..m : k + j \in 1..(k + m)
  <2>1. ASSUME NEW i \in 1..(k + m), i \notin 1..k PROVE \E j \in 1..m : i = k + j
    <3>1. i - k \in 1..m /\ i = k + (i - k)
        BY <1>1, <1>8, <2>1
    <3> QED
        BY <3>1
  <2> QED
      BY <1>1, <1>8, <2>1
<1>11. \A i \in 1..(k + m) : q[i] \in DOMAIN w[1].req /\ w[1].req[q[i]].user = s.user
  <2>1. \A i \in 1..k : Own(w, s, s.seen[i])
      BY <1>1, <1>3 DEF SeenInv
  <2>2. \A i \in 1..k : q[i] \in DOMAIN w[1].req /\ w[1].req[q[i]].user = s.user
      BY <1>9, <2>1 DEF Own
  <2>3. \A j \in 1..m : q[k + j] \in DOMAIN w[1].req /\ w[1].req[q[k + j]].user = s.user
      BY <1>2, <1>8, <1>9
  <2> QED
      BY <1>10, <2>2, <2>3
<1>12. ASSUME NEW i \in 1..(k + m), NEW j \in 1..(k + m), i < j
       PROVE  Newer(w[1], q[i], q[j])
  <2>1. CASE i \in 1..k /\ j \in 1..k
      BY <1>1, <1>3, <1>9, <1>12, <2>1 DEF SeenInv
  <2>2. CASE i \in 1..k /\ j \notin 1..k
    <3>1. PICK b \in 1..m : j = k + b
        BY <1>10, <2>2
    <3> QED
        BY <1>4, <1>8, <1>9, <2>2, <3>1
  <2>3. CASE i \notin 1..k
    <3>1. PICK a \in 1..m : i = k + a
        BY <1>10, <2>3
    <3>2. PICK b \in 1..m : j = k + b
        BY <1>1, <1>8, <1>10, <1>12, <2>3
    <3>3. a < b
        BY <1>1, <1>8, <1>12, <3>1, <3>2
    <3>4. Newer(w[1], items[a], items[b])
        BY <1>7, <3>3 DEF PageOf
    <3> QED
        BY <1>9, <3>1, <3>2, <3>4
  <2> QED
      BY <2>1, <2>2, <2>3
<1> DEFINE last == items[m]
<1>13. \/ next = {} /\ \A x \in S : \E i \in 1..m : items[i] = x
       \/ /\ m > 0 /\ next = {encodeCursor(last, w[1].req[last].at)}
          /\ \A x \in S : (\E i \in 1..m : items[i] = x) \/ Newer(w[1], last, x)
    BY <1>7 DEF PageOf
<1>14. m > 0 => last \in Nat /\ w[1].req[last].at \in Nat /\ last = q[k + m] /\ k + m > 0
  <2> HAVE m > 0
  <2>1. m \in 1..m /\ k + m > 0
      OBVIOUS
  <2>2. last \in S
      BY <1>8, <2>1
  <2>3. last = q[k + m]
      BY <1>9, <2>1
  <2> QED
      BY <1>2, <2>1, <2>2, <2>3 DEF Dated
<1> HIDE DEF last
<1>15. next \in SUBSET [ts : Nat, id : Nat]
  <2>1. CASE next = {}
      BY <2>1
  <2>2. CASE m > 0 /\ next = {encodeCursor(last, w[1].req[last].at)}
    <3>1. encodeCursor(last, w[1].req[last].at) \in [ts : Nat, id : Nat]
        BY <1>14, <2>2, CursorRoundTrip
    <3> QED
        BY <2>2, <3>1
  <2> QED
      BY <1>13, <2>1, <2>2
<1>16. ASSUME NEW x \in S
       PROVE  \/ \E i \in 1..(k + m) : q[i] = x
              \/ \E c \in next : Before(w[1].req[x].at, x, decodeCursor(c))
  <2>1. CASE \E i \in 1..m : items[i] = x
    <3>1. PICK i \in 1..m : items[i] = x
        BY <2>1
    <3>2. k + i \in 1..(k + m)
        OBVIOUS
    <3>3. q[k + i] = items[i]
        BY <1>9
    <3> QED
        BY <3>1, <3>2, <3>3
  <2>2. CASE ~\E i \in 1..m : items[i] = x
    <3>1. m > 0 /\ next = {encodeCursor(last, w[1].req[last].at)} /\ Newer(w[1], last, x)
        BY <1>13, <2>2
    <3>2. Before(w[1].req[x].at, x, decodeCursor(encodeCursor(last, w[1].req[last].at)))
        BY <1>14, <3>1, BehindCursor
    <3> QED
        BY <3>1, <3>2
  <2> QED
      BY <2>1, <2>2
<1>17. \A id \in s.before \cap Matching(w[1], s.user, s.filter) :
          \/ \E i \in 1..(k + m) : q[i] = id
          \/ \E c \in next : Before(w[1].req[id].at, id, decodeCursor(c))
  <2> TAKE id \in s.before \cap Matching(w[1], s.user, s.filter)
  <2>1. CASE \E i \in 1..k : s.seen[i] = id
      BY <1>9, <1>10, <2>1
  <2>2. CASE id \in S
      BY <1>16, <2>2
  <2> QED
      BY <1>5, <2>1, <2>2
<1> SUFFICES ASSUME NEW t, t = Paged(s, items, q, next)
             PROVE  SessionInv(w, t)
    BY <1>9
<1>18. /\ t \in SessionType /\ t.code = 200 /\ t.page = items /\ t.seen = q /\ t.cursor = next
       /\ t.kind = s.kind /\ t.user = s.user /\ t.filter = s.filter /\ t.before = s.before
  <2>1. s \in SessionType /\ items \in Seq(Ids) /\ q \in Seq(Ids)
      BY <1>1, <1>8, <1>9
  <2> QED
      BY <1>15, <2>1, PageFields
<1>19. SeenInv(w, t)
  <2>1. \A i \in 1..Len(q) : Own(w, t, q[i])
      BY <1>9, <1>11, <1>18 DEF Own
  <2>2. \A i, j \in 1..Len(q) : i < j => Newer(w[1], q[i], q[j])
      BY <1>9, <1>12
  <2>3. next # {} => Len(q) > 0 /\ next = {encodeCursor(q[Len(q)], w[1].req[q[Len(q)]].at)}
      BY <1>9, <1>13, <1>14
  <2> QED
      BY <1>18, <2>1, <2>2, <2>3 DEF SeenInv
<1>20. BeforeInv(w, t)
  <2>1. BeforeInv(w, s)
      BY DEF SessionInv
  <2> QED
      BY <1>18, <2>1 DEF BeforeInv
<1>21. CoverInv(w, t)
  <2> SUFFICES ASSUME NEW id \in t.before, id \in Matching(w[1], t.user, t.filter)
               PROVE  \/ \E i \in 1..Len(t.seen) : t.seen[i] = id
                      \/ \E c \in t.cursor : Before(w[1].req[id].at, id, decodeCursor(c))
      BY DEF CoverInv
  <2>1. id \in s.before \cap Matching(w[1], s.user, s.filter)
      BY <1>18
  <2>2. \/ \E i \in 1..(k + m) : q[i] = id
        \/ \E c \in next : Before(w[1].req[id].at, id, decodeCursor(c))
      BY <1>17, <2>1
  <2>3. t.seen = q /\ Len(q) = k + m /\ t.cursor = next
      BY <1>9, <1>18
  <2> QED
      BY <2>2, <2>3
<1>22. CallInv(w, t)
    BY <1>18 DEF CallInv
<1>23. Len(t.page) <= MaxLimit
  <2>1. m <= Normalize(n) /\ Normalize(n) <= MaxLimit /\ Normalize(n) \in Nat /\ MaxLimit \in Nat
      BY <1>8, LimitType, ReadsAssumption
  <2> QED
      BY <1>7, <1>18, <2>1
<1> QED
    BY <1>18, <1>19, <1>20, <1>21, <1>22, <1>23 DEF SessionInv

-----------------------------------------------------------------------------
(* The calls.                                                              *)

LEMMA IdleSession ==
    ASSUME NEW w
    PROVE  SessionInv(w, Idle)
<1>1. PICK f \in Filters : f = CHOOSE g \in Filters : TRUE
    BY ReadsAssumption
<1>2. Idle = [kind |-> "idle", user |-> BatchOwner, id |-> 0, code |-> 0, filter |-> f,
              cursor |-> {}, page |-> <<>>, seen |-> <<>>, before |-> {}, request |-> {},
              deliveries |-> {}]
    BY <1>1 DEF Idle
<1>3. "idle" \in Kinds /\ 0 \in Codes /\ BatchOwner \in Users /\ <<>> \in Seq(Ids)
    BY ReadsAssumption DEF Kinds, Codes
<1>4. Idle \in SessionType
    BY <1>2, <1>3 DEF SessionType
<1>5. /\ Idle.kind = "idle" /\ Idle.seen = <<>> /\ Idle.page = <<>> /\ Idle.cursor = {}
      /\ Idle.before = {}
    BY <1>2
<1>6. Len(Idle.page) <= MaxLimit /\ 1..Len(Idle.seen) = {}
    BY <1>5, ReadsAssumption
<1> QED
    BY <1>4, <1>5, <1>6 DEF SessionInv, SeenInv, BeforeInv, CoverInv, CallInv

\* A call that shows no list.
Plain(s) ==
    /\ s \in SessionType /\ s.page = <<>> /\ s.seen = <<>> /\ s.cursor = {} /\ s.before = {}

LEMMA PlainSession ==
    ASSUME NEW w, NEW s, Plain(s), CallInv(w, s)
    PROVE  SessionInv(w, s)
<1>1. Len(s.page) <= MaxLimit /\ 1..Len(s.seen) = {}
    BY ReadsAssumption DEF Plain
<1> QED
    BY <1>1 DEF Plain, SessionInv, SeenInv, BeforeInv, CoverInv

LEMMA IdlePlain == Plain(Idle) /\ Idle.request = {} /\ Idle.deliveries = {}
<1>1. Idle \in SessionType
    BY IdleSession DEF SessionInv
<1> QED
    BY <1>1 DEF Plain, Idle

\* A call other than a list shows none.
LEMMA OtherPlain ==
    ASSUME NEW w, NEW s, SessionInv(w, s), s.kind # "list"
    PROVE  Plain(s)
    BY DEF SessionInv, Plain

\* A step of such a call.
Stepped(s, kind, user, id, code, request, deliveries) ==
    [s EXCEPT !.kind = kind, !.user = user, !.id = id, !.code = code,
              !.request = request, !.deliveries = deliveries]

LEMMA PlainStep ==
    ASSUME NEW s, Plain(s), NEW kind \in Kinds, NEW user \in Users, NEW id \in Nat,
           NEW code \in Codes, NEW request \in SUBSET Row, NEW deliveries \in SUBSET Stages, NEW t,
           t = Stepped(s, kind, user, id, code, request, deliveries)
    PROVE  /\ Plain(t) /\ t.kind = kind /\ t.user = user /\ t.id = id /\ t.code = code
           /\ t.request = request /\ t.deliveries = deliveries
<1>1. t \in SessionType
    BY DEF SessionType, Plain, Stepped
<1> QED
    BY <1>1 DEF SessionType, Plain, Stepped

\* The steps the calls take.
Answer(s, kind, code) == [s EXCEPT !.kind = kind, !.code = code]
BatchCall(s, user, code) == [s EXCEPT !.kind = "batch", !.user = user, !.code = code]

LEMMA StepForms ==
    ASSUME NEW s \in SessionType, NEW kind, NEW user, NEW code
    PROVE  /\ Answer(s, kind, code)
                  = Stepped(s, kind, s.user, s.id, code, s.request, s.deliveries)
           /\ BatchCall(s, user, code)
                  = Stepped(s, "batch", user, s.id, code, s.request, s.deliveries)
<1>1. Answer(s, kind, code) = Stepped(s, kind, s.user, s.id, code, s.request, s.deliveries)
    BY DEF SessionType, Stepped, Answer
<1>2. BatchCall(s, user, code)
          = Stepped(s, "batch", user, s.id, code, s.request, s.deliveries)
    BY DEF SessionType, Stepped, BatchCall
<1> QED
    BY <1>1, <1>2

LEMMA BeginCall ==
    ASSUME NEW kind \in Kinds, NEW u \in Users, NEW id \in Nat, NEW s, s = Begin(kind, u, id)
    PROVE  /\ Plain(s) /\ s.kind = kind /\ s.user = u /\ s.id = id /\ s.code = 0
           /\ s.request = {} /\ s.deliveries = {}
<1>1. Plain(Idle) /\ Idle \in SessionType /\ Idle.request = {} /\ Idle.deliveries = {}
    BY IdlePlain DEF Plain
<1>2. Idle.code = 0
    BY DEF Idle
<1>3. s \in SessionType
    BY <1>1 DEF Begin, SessionType
<1>4. /\ s.kind = kind /\ s.user = u /\ s.id = id /\ s.code = 0
      /\ s.request = {} /\ s.deliveries = {}
    BY <1>1, <1>2 DEF Begin, SessionType
<1>5. s.page = <<>> /\ s.seen = <<>> /\ s.cursor = {} /\ s.before = {}
    BY <1>1 DEF Begin, SessionType, Plain
<1> QED
    BY <1>3, <1>4, <1>5 DEF Plain

\* The call of a list, and what its walk should show.
ListCall(u, f, before) ==
    [Idle EXCEPT !.kind = "list", !.user = u, !.filter = f, !.before = before]

LEMMA ListCallFields ==
    ASSUME NEW u \in Users, NEW f \in Filters, NEW before \in SUBSET Ids, NEW s,
           s = ListCall(u, f, before)
    PROVE  /\ s \in SessionType /\ s.kind = "list" /\ s.user = u /\ s.filter = f
           /\ s.before = before /\ s.code = 0 /\ s.page = <<>> /\ s.seen = <<>> /\ s.cursor = {}
<1>1. Idle \in SessionType /\ Idle.code = 0 /\ Plain(Idle)
    BY IdlePlain DEF Plain, Idle
<1>2. "list" \in Kinds
    BY DEF Kinds
<1>3. s \in SessionType
    BY <1>1, <1>2 DEF SessionType, ListCall
<1> QED
    BY <1>1, <1>3 DEF SessionType, ListCall, Plain

\* A list begins with all of it to show.
LEMMA ListCallSession ==
    ASSUME NEW w, WalOK(w), NEW u \in Users, NEW f \in Filters, NEW s,
           s = ListCall(u, f, Matching(w[1], u, f))
    PROVE  /\ SessionInv(w, s) /\ s.kind = "list" /\ s.user = u /\ s.filter = f
           /\ s.before = Matching(w[1], u, f) /\ s.seen = <<>> /\ s.cursor = {}
<1>1. w[1] \in Databases /\ \A i \in 1..Len(w) : Later(w[1], w[i])
    BY WalEnds
<1>2. PICK M \in SUBSET Ids : M = Matching(w[1], u, f)
    BY <1>1, RowOf DEF Matching
<1>3. /\ s \in SessionType /\ s.kind = "list" /\ s.user = u /\ s.filter = f
      /\ s.before = M /\ s.code = 0 /\ s.page = <<>> /\ s.seen = <<>> /\ s.cursor = {}
    BY <1>2, ListCallFields
<1>4. BeforeInv(w, s)
  <2> SUFFICES ASSUME NEW id \in M
               PROVE  /\ id \in DOMAIN w[1].req
                      /\ f.status \in {"any", "PENDING"} \/ Settled(w, id, f.status)
      BY <1>3 DEF BeforeInv
  <2>1. id \in DOMAIN w[1].req /\ (f.status # "any" => w[1].req[id].status = f.status)
      BY <1>2 DEF Matching
  <2>2. CASE f.status \notin {"any", "PENDING"}
    <3>1. \A i \in 1..Len(w) : w[i].req[id].status = f.status
        BY <1>1, <2>1, <2>2 DEF Later
    <3> QED
        BY <2>1, <3>1 DEF Settled
  <2> QED
      BY <2>1, <2>2
<1>5. Len(s.page) <= MaxLimit /\ 1..Len(s.seen) = {}
    BY <1>3, ReadsAssumption
<1>6. SeenInv(w, s) /\ CoverInv(w, s) /\ CallInv(w, s)
    BY <1>3, <1>5 DEF SeenInv, CoverInv, CallInv
<1> QED
    BY <1>2, <1>3, <1>4, <1>5, <1>6 DEF SessionInv

\* What follows from the invariant for every action.
LEMMA Ends ==
    ASSUME ReadsInv
    PROVE  /\ WalOK(wal) /\ SessionInv(wal, session)
           /\ Replica = wal[1] /\ Primary = wal[Len(wal)]
           /\ wal[1] \in Databases /\ Coherent(wal[1])
           /\ Primary \in Databases /\ Coherent(Primary)
           /\ \A i \in 1..Len(wal) : Later(wal[1], wal[i])
           /\ Later(wal[1], Primary)
    BY WalEnds DEF ReadsInv, Replica, Primary

LEMMA CommitStep ==
    ASSUME ReadsInv, NEW db, Commit(db), db \in Databases, Coherent(db), Later(Primary, db)
    PROVE  /\ WalOK(wal') /\ \A s : SessionInv(wal, s) => SessionInv(wal', s)
           /\ Last(wal') = db
<1>1. Len(wal) <= MaxLag /\ wal' = Append(wal, db)
    BY DEF Commit
<1>2. WalOK(wal) /\ SessionInv(wal, session) /\ Later(wal[Len(wal)], db) /\ wal \in Seq(Databases)
    BY Ends DEF WalOK
<1>3. \A s : SessionInv(wal, s) => SessionInv(Append(wal, db), s)
    BY <1>1, <1>2, CommitSession
<1>4. WalOK(Append(wal, db))
    BY <1>1, <1>2, CommitSession
<1>5. Last(Append(wal, db)) = db
    BY <1>2 DEF Last
<1> QED
    BY <1>1, <1>3, <1>4, <1>5

LEMMA InsertStep ==
    ASSUME ReadsInv, NEW id \in Ids, NEW u \in Users, NEW at \in Times, insertRequest(id, u, at)
    PROVE  ReadsInv'
<1>1. PICK db : /\ db = [req |-> WithRow(Primary.req, id,
                                         [user |-> u, at |-> at, status |-> "PENDING"]),
                         del |-> WithRow(Primary.del, id, "PENDING")]
                /\ Commit(db) /\ session' = session /\ id \notin DOMAIN Primary.req
    BY DEF insertRequest
<1>2. db \in Databases /\ Coherent(db) /\ Later(Primary, db)
    BY <1>1, Ends, InsertedRow
<1> QED
    BY <1>1, <1>2, Ends, CommitStep DEF ReadsInv

LEMMA SentStep ==
    ASSUME ReadsInv, NEW id \in Ids, MarkSent(id)
    PROVE  ReadsInv'
<1>1. PICK db : /\ db = Finished(Primary, id, "SENT") /\ Commit(db) /\ session' = session
                /\ id \in DOMAIN Primary.del /\ Primary.del[id] = "PENDING"
    BY DEF MarkSent
<1>2. "SENT" \in Stages
    BY DEF Stages
<1>3. db \in Databases /\ Coherent(db) /\ Later(Primary, db)
    BY <1>1, <1>2, Ends, FinishedRow
<1> QED
    BY <1>1, <1>3, Ends, CommitStep DEF ReadsInv

LEMMA ReplayStep ==
    ASSUME ReadsInv, Replay
    PROVE  ReadsInv'
    BY Ends, ReplaySession DEF ReadsInv, Replay

\* A page of the list the session walks.
LEMMA PageStep ==
    ASSUME ReadsInv, NEW s, SessionInv(wal, s), s.kind = "list", NEW n \in Limits,
           s.cursor # {} \/ s.seen = <<>>,
           \A id \in s.before \cap Matching(wal[1], s.user, s.filter) :
               \/ \E i \in 1..Len(s.seen) : s.seen[i] = id
               \/ id \in Found(wal[1], s.user, s.filter, s.cursor)
    PROVE  SessionInv(wal, Listed(s, n))
<1>1. PICK S : S = Found(wal[1], s.user, s.filter, s.cursor)
    OBVIOUS
<1>2. PICK p : p = ListRequests(wal[1], s.user, s.filter, Normalize(n), s.cursor)
    OBVIOUS
<1>3. Dated(wal[1], S) /\ IsFiniteSet(S)
    BY <1>1, Ends, FoundType
<1>4. Normalize(n) \in Nat \ {0}
    BY LimitType
<1>5. PageOf(wal[1], S, Normalize(n), p.items, p.next)
    BY <1>1, <1>2, <1>3, <1>4, ListPage
<1>6. WalOK(wal)
    BY Ends
<1>7. SessionInv(wal, Paged(s, p.items, s.seen \o p.items, p.next))
    BY <1>1, <1>5, <1>6, ListedSession
<1>8. Listed(s, n) = Paged(s, p.items, s.seen \o p.items, p.next)
    BY <1>2, Ends DEF Listed, Paged
<1> QED
    BY <1>7, <1>8

LEMMA NextPageStep ==
    ASSUME ReadsInv, NEW n \in Limits, nextPage(n)
    PROVE  ReadsInv'
<1>1. /\ session.kind = "list" /\ session.cursor # {} /\ session' = Listed(session, n)
      /\ wal' = wal
    BY DEF nextPage
<1>2. WalOK(wal) /\ SessionInv(wal, session)
    BY Ends
<1>3. session.code = 200 /\ CoverInv(wal, session) /\ SeenInv(wal, session)
    BY <1>1, <1>2 DEF SessionInv
<1>4. PICK c : session.cursor = {c}
    BY <1>1, <1>3 DEF SeenInv
<1>5. ASSUME NEW id \in session.before \cap Matching(wal[1], session.user, session.filter)
      PROVE  \/ \E i \in 1..Len(session.seen) : session.seen[i] = id
             \/ id \in Found(wal[1], session.user, session.filter, session.cursor)
  <2>1. \/ \E i \in 1..Len(session.seen) : session.seen[i] = id
        \/ \E d \in session.cursor : Before(wal[1].req[id].at, id, decodeCursor(d))
      BY <1>3 DEF CoverInv
  <2>2. CASE \E d \in session.cursor : Before(wal[1].req[id].at, id, decodeCursor(d))
      BY <1>4, <2>2 DEF Found
  <2> QED
      BY <2>1, <2>2
<1>6. SessionInv(wal, Listed(session, n))
    BY <1>1, <1>2, <1>5, PageStep
<1> QED
    BY <1>1, <1>2, <1>6 DEF ReadsInv

LEMMA ListStep ==
    ASSUME ReadsInv, NEW u \in Users, NEW f \in Filters, NEW n \in Limits, listNotifications(u, f, n)
    PROVE  ReadsInv'
<1>1. WalOK(wal) /\ Replica = wal[1] /\ wal' = wal
    BY Ends DEF listNotifications
<1>2. CASE parseListFilter(f)
  <2>1. PICK s : s = ListCall(u, f, Matching(wal[1], u, f))
      OBVIOUS
  <2>2. session' = Listed(s, n)
      BY <1>1, <1>2, <2>1 DEF listNotifications, ListCall
  <2>3. /\ SessionInv(wal, s) /\ s.kind = "list" /\ s.user = u /\ s.filter = f
        /\ s.before = Matching(wal[1], u, f) /\ s.seen = <<>> /\ s.cursor = {}
      BY <1>1, <2>1, ListCallSession
  <2>4. \A id \in s.before \cap Matching(wal[1], s.user, s.filter) :
            id \in Found(wal[1], s.user, s.filter, s.cursor)
      BY <2>3 DEF Found
  <2>5. SessionInv(wal, Listed(s, n))
      BY <2>3, <2>4, PageStep
  <2> QED
      BY <1>1, <2>2, <2>5 DEF ReadsInv
<1>3. CASE ~parseListFilter(f)
  <2>1. PICK s : s = ListCall(u, f, {})
      OBVIOUS
  <2>2. /\ s \in SessionType /\ s.kind = "list" /\ s.before = {} /\ s.code = 0
        /\ s.page = <<>> /\ s.seen = <<>> /\ s.cursor = {}
      BY <2>1, ListCallFields
  <2>3. PICK t : t = [s EXCEPT !.code = 400]
      OBVIOUS
  <2>4. session' = t
    <3>1. session' = [[Idle EXCEPT !.kind = "list", !.user = u, !.filter = f] EXCEPT !.code = 400]
        BY <1>3 DEF listNotifications
    <3>2. Idle.before = {}
        BY DEF Idle
    <3>3. [Idle EXCEPT !.kind = "list", !.user = u, !.filter = f] = s
        BY <2>1, <3>2 DEF ListCall, Idle
    <3> QED
        BY <2>3, <3>1, <3>3
  <2>5. t \in SessionType /\ Plain(t) /\ t.kind = "list"
      BY <2>2, <2>3 DEF SessionType, Plain, Codes
  <2>6. CallInv(wal, t)
      BY <2>5 DEF CallInv
  <2> QED
      BY <1>1, <2>4, <2>5, <2>6, PlainSession DEF ReadsInv
<1> QED
    BY <1>2, <1>3

\* The owner's check, and what it found.
LEMMA OwnedRow ==
    ASSUME ReadsInv, NEW u, NEW id, Owned(u, id)
    PROVE  /\ id \in DOMAIN wal[1].req /\ wal[1].req[id].user = u /\ wal[1].req[id] \in Row
           /\ GetRequestByID(id) = {wal[1].req[id]} /\ id \in Nat
<1>1. Replica = wal[1] /\ wal[1] \in Databases
    BY Ends
<1>2. id \in DOMAIN wal[1].req /\ GetRequestByID(id) = {wal[1].req[id]}
    BY <1>1 DEF Owned, GetRequestByID
<1> QED
    BY <1>1, <1>2, RowOf DEF Owned

\* The answer 404.
LEMMA NotFoundFields ==
    ASSUME NEW s, Plain(s), NEW t, t = NotFound(s)
    PROVE  Plain(t) /\ t.kind = "answered" /\ t.code = 404 /\ t.request = s.request
<1>1. "answered" \in Kinds /\ 404 \in Codes
    BY DEF Kinds, Codes
<1>2. /\ s \in SessionType
      /\ s.page = <<>> /\ s.seen = <<>> /\ s.cursor = {} /\ s.before = {}
    BY DEF Plain
<1>3. PICK k \in Kinds, c \in Codes : k = "answered" /\ c = 404
    BY <1>1
<1>4. t = [s EXCEPT !.kind = k, !.code = c]
    BY <1>3 DEF NotFound
<1>5. t \in SessionType
    BY <1>2, <1>4 DEF SessionType
<1>6. t.kind = k /\ t.code = c /\ t.request = s.request
    BY <1>2, <1>4 DEF SessionType
<1>7. t.page = s.page /\ t.seen = s.seen /\ t.cursor = s.cursor /\ t.before = s.before
    BY <1>2, <1>4 DEF SessionType
<1> QED
    BY <1>2, <1>3, <1>5, <1>6, <1>7 DEF Plain

LEMMA NotFoundStep ==
    ASSUME ReadsInv, NEW u \in Users, NEW id \in Ids, NEW kind \in Kinds
    PROVE  SessionInv(wal, NotFound(Begin(kind, u, id)))
<1>1. id \in Nat
    BY ReadsAssumption
<1>2. PICK s : s = Begin(kind, u, id)
    OBVIOUS
<1>3. Plain(s) /\ s.request = {}
    BY <1>1, <1>2, BeginCall
<1>4. PICK t : t = NotFound(s)
    OBVIOUS
<1>5. Plain(t) /\ t.kind = "answered" /\ t.code = 404 /\ t.request = {}
    BY <1>3, <1>4, NotFoundFields
<1>6. CallInv(wal, t)
    BY <1>5 DEF CallInv
<1> QED
    BY <1>2, <1>4, <1>5, <1>6, PlainSession

LEMMA GetStep ==
    ASSUME ReadsInv, NEW u \in Users, NEW id \in Ids, getNotification(u, id)
    PROVE  ReadsInv'
<1>1. WalOK(wal) /\ wal' = wal
    BY Ends DEF getNotification
<1>2. CASE Owned(u, id)
  <2>1. PICK row \in Row : row = wal[1].req[id]
      BY <1>2, OwnedRow
  <2>2. /\ id \in DOMAIN wal[1].req /\ row.user = u
        /\ GetRequestByID(id) = {row} /\ id \in Nat
      BY <1>2, <2>1, OwnedRow
  <2>3. "get" \in Kinds /\ 0 \in Codes
      BY DEF Kinds, Codes
  <2>4. PICK s : s = Begin("get", u, id)
      OBVIOUS
  <2>5. /\ Plain(s) /\ s.kind = "get" /\ s.user = u /\ s.id = id /\ s.code = 0
         /\ s.deliveries = {} /\ s \in SessionType
      BY <2>2, <2>3, <2>4, BeginCall DEF Plain
  <2>6. session' = [s EXCEPT !.request = {row}]
      BY <1>2, <2>2, <2>4 DEF getNotification
  <2>7. PICK t : t = Stepped(s, s.kind, s.user, s.id, s.code, {row}, s.deliveries)
      OBVIOUS
  <2>8. session' = t
      BY <2>6, <2>7, <2>5 DEF SessionType, Stepped
  <2>9. /\ Plain(t) /\ t.kind = "get" /\ t.user = u /\ t.id = id /\ t.request = {row}
        /\ t.deliveries = {}
      BY <2>2, <2>7, <2>3, <2>5, PlainStep
  <2>10. row.status = "PENDING" \/ Settled(wal, id, row.status)
    <3>1. \A i \in 1..Len(wal) : Later(wal[1], wal[i])
        BY Ends
    <3> QED
        BY <2>1, <2>2, <3>1 DEF Later, Settled
  <2>11. CallInv(wal, t)
      BY <2>1, <2>2, <2>9, <2>10 DEF CallInv, Own
  <2> QED
      BY <1>1, <2>8, <2>9, <2>11, PlainSession DEF ReadsInv
<1>3. CASE ~Owned(u, id)
  <2>1. session' = NotFound(Begin("get", u, id)) /\ "get" \in Kinds
      BY <1>3 DEF getNotification, Kinds
  <2> QED
      BY <1>1, <2>1, NotFoundStep DEF ReadsInv
<1> QED
    BY <1>2, <1>3

LEMMA CancelCallStep ==
    ASSUME ReadsInv, NEW u \in Users, NEW id \in Ids, cancelNotification(u, id)
    PROVE  ReadsInv'
<1>1. WalOK(wal) /\ wal' = wal
    BY Ends DEF cancelNotification
<1>2. CASE Owned(u, id)
  <2>1. id \in DOMAIN wal[1].req /\ wal[1].req[id].user = u /\ id \in Nat
      BY <1>2, OwnedRow
  <2>2. PICK t : t = Begin("cancel", u, id)
      OBVIOUS
  <2>3. session' = t
      BY <1>2, <2>2 DEF cancelNotification
  <2>4. "cancel" \in Kinds
      BY DEF Kinds
  <2>5. Plain(t) /\ t.kind = "cancel" /\ t.user = u /\ t.id = id /\ t.deliveries = {}
      BY <2>1, <2>2, <2>4, BeginCall
  <2>6. CallInv(wal, t)
      BY <2>1, <2>5 DEF CallInv, Own
  <2> QED
      BY <1>1, <2>3, <2>5, <2>6, PlainSession DEF ReadsInv
<1>3. CASE ~Owned(u, id)
  <2>1. session' = NotFound(Begin("cancel", u, id)) /\ "cancel" \in Kinds
      BY <1>3 DEF cancelNotification, Kinds
  <2> QED
      BY <1>1, <2>1, NotFoundStep DEF ReadsInv
<1> QED
    BY <1>2, <1>3

LEMMA BatchStep ==
    ASSUME ReadsInv, NEW u \in Users, getBatch(u)
    PROVE  ReadsInv'
<1>1. WalOK(wal) /\ wal' = wal
    BY Ends DEF getBatch
<1>2. PICK c \in Codes : c = IF BatchOwner = u THEN 200 ELSE 404
    BY DEF Codes
<1>3. PICK t : t = Stepped(Idle, "batch", u, Idle.id, c, Idle.request, Idle.deliveries)
    OBVIOUS
<1>4. /\ Plain(Idle) /\ Idle \in SessionType /\ Idle.request = {} /\ Idle.deliveries = {}
      /\ Idle.id \in Nat
    BY IdlePlain DEF Plain, SessionType
<1>5. session' = t
  <2>1. session' = BatchCall(Idle, u, c)
      BY <1>2 DEF getBatch, BatchCall
  <2> QED
      BY <1>3, <1>4, <2>1, StepForms
<1>6. "batch" \in Kinds
    BY DEF Kinds
<1>7. Plain(t) /\ t.kind = "batch"
    BY <1>3, <1>4, <1>6, PlainStep
<1>8. CallInv(wal, t)
    BY <1>7 DEF CallInv
<1> QED
    BY <1>1, <1>5, <1>7, <1>8, PlainSession DEF ReadsInv

LEMMA NextCallStep ==
    ASSUME ReadsInv, NextCall
    PROVE  ReadsInv'
    BY Ends, IdleSession DEF ReadsInv, NextCall

\* The second statement of a get finds the delivery the request agrees with.
LEMMA DeliveriesStep ==
    ASSUME ReadsInv, GetDeliveriesByRequest
    PROVE  ReadsInv'
<1>1. WalOK(wal) /\ SessionInv(wal, session) /\ Replica = wal[1] /\ wal' = wal
    BY Ends DEF GetDeliveriesByRequest
<1>2. session.kind = "get"
    BY DEF GetDeliveriesByRequest
<1>3. Plain(session) /\ CallInv(wal, session)
    BY <1>1, <1>2, OtherPlain DEF SessionInv
<1>4. session.id \in DOMAIN wal[1].req /\ wal[1].req[session.id].user = session.user
    BY <1>2, <1>3 DEF CallInv, Own
<1>5. /\ wal[1] \in Databases /\ DOMAIN wal[1].del = DOMAIN wal[1].req
      /\ wal[1].del[session.id] = wal[1].req[session.id].status
    BY <1>4, Ends DEF Coherent
<1>6. PICK d \in Stages : d = wal[1].del[session.id]
    BY <1>4, <1>5, RowOf
<1>7. /\ session.user \in Users /\ session.id \in Nat /\ session.request \in SUBSET Row
      /\ session \in SessionType
    BY <1>3 DEF Plain, SessionType
<1>8. PICK t : t = Stepped(session, "answered", session.user, session.id, 200, session.request, {d})
    OBVIOUS
<1>9. session' = t
  <2>1. session' = [session EXCEPT !.kind = "answered", !.code = 200, !.deliveries = {d}]
      BY <1>1, <1>4, <1>5, <1>6 DEF GetDeliveriesByRequest
  <2> QED
      BY <1>7, <1>8, <2>1 DEF Stepped, SessionType
<1>10. "answered" \in Kinds /\ 200 \in Codes
    BY DEF Kinds, Codes
<1>11. /\ Plain(t) /\ t.kind = "answered" /\ t.user = session.user /\ t.id = session.id
       /\ t.request = session.request /\ t.deliveries = {d}
    BY <1>3, <1>7, <1>8, <1>10, PlainStep
<1>12. \A r \in session.request : r.status \in {"PENDING", d}
  <2>1. 1 \in 1..Len(wal)
      BY <1>1, WalEnds
  <2> QED
      BY <1>2, <1>3, <1>5, <1>6, <2>1 DEF CallInv, Settled
<1>13. CallInv(wal, t)
    BY <1>4, <1>11, <1>12 DEF CallInv, Own
<1> QED
    BY <1>1, <1>9, <1>11, <1>13, PlainSession DEF ReadsInv

LEMMA CancelStep ==
    ASSUME ReadsInv, CancelRequest
    PROVE  ReadsInv'
<1>1. WalOK(wal) /\ SessionInv(wal, session) /\ session.kind = "cancel"
    BY Ends DEF CancelRequest
<1>2. Plain(session) /\ CallInv(wal, session)
    BY <1>1, OtherPlain DEF SessionInv
<1>3. PICK id : id = session.id
    OBVIOUS
<1>4. Own(wal, session, id) /\ session.deliveries = {}
    BY <1>1, <1>2, <1>3 DEF CallInv
<1>5. id \in DOMAIN Primary.req /\ id \in DOMAIN Primary.del
    BY <1>4, Ends DEF Own, Later, Coherent
<1>6. /\ session.user \in Users /\ session.id \in Nat /\ session.request \in SUBSET Row
      /\ session \in SessionType
    BY <1>2 DEF Plain, SessionType
<1>7. "answered" \in Kinds /\ 200 \in Codes /\ 409 \in Codes
    BY DEF Kinds, Codes
<1>8. CASE Primary.del[id] # "PENDING"
  <2>1. PICK t : t = Stepped(session, "answered", session.user, session.id, 409, session.request, {})
      OBVIOUS
  <2>2. session' = [session EXCEPT !.kind = "answered", !.code = 409] /\ wal' = wal
      BY <1>3, <1>8 DEF CancelRequest
  <2>3. session' = t
    <3>1. session' = Answer(session, "answered", 409)
        BY <2>2 DEF Answer
    <3>2. Answer(session, "answered", 409)
              = Stepped(session, "answered", session.user, session.id, 409, session.request,
                        session.deliveries)
        BY <1>6, StepForms
    <3> QED
        BY <1>4, <2>1, <3>1, <3>2
  <2>4. /\ Plain(t) /\ t.kind = "answered" /\ t.user = session.user /\ t.id = session.id
        /\ t.deliveries = {}
      BY <1>2, <1>6, <1>7, <2>1, PlainStep
  <2>5. CallInv(wal, t)
      BY <1>3, <1>4, <2>4 DEF CallInv, Own
  <2> QED
      BY <1>1, <2>2, <2>3, <2>4, <2>5, PlainSession DEF ReadsInv
<1>9. CASE Primary.del[id] = "PENDING"
  <2>1. PICK db : db = Finished(Primary, id, "CANCELLED")
      OBVIOUS
  <2>2. Commit(db) /\ session' = [session EXCEPT !.kind = "answered", !.code = 200,
                                      !.request = {Last(wal').req[id]}]
      BY <1>3, <1>9, <2>1 DEF CancelRequest
  <2>3. "CANCELLED" \in Stages
      BY DEF Stages
  <2>4. db \in Databases /\ Coherent(db) /\ Later(Primary, db)
      BY <1>5, <1>9, <2>1, <2>3, Ends, FinishedRow
  <2>5. WalOK(wal') /\ SessionInv(wal', session) /\ Last(wal') = db
      BY <1>1, <2>2, <2>4, CommitStep
  <2>6. PICK row \in Row : row = Last(wal').req[id]
      BY <1>5, <2>4, <2>5, RowOf DEF Later
  <2>7. PICK t : t = Stepped(session, "answered", session.user, session.id, 200, {row}, {})
      OBVIOUS
  <2>8. session' = t
    <3>1. session' = [session EXCEPT !.kind = "answered", !.code = 200, !.request = {row}]
        BY <2>2, <2>6
    <3> QED
        BY <1>4, <1>6, <2>7, <3>1 DEF Stepped, SessionType
  <2>9. /\ Plain(t) /\ t.kind = "answered" /\ t.user = session.user /\ t.id = session.id
        /\ t.deliveries = {}
      BY <1>2, <1>6, <1>7, <2>7, PlainStep
  <2>10. Own(wal', session, session.id)
      BY <1>1, <2>5 DEF SessionInv, CallInv
  <2>11. CallInv(wal', t)
      BY <2>9, <2>10 DEF CallInv, Own
  <2>12. SessionInv(wal', t)
      BY <2>9, <2>11, PlainSession
  <2> QED
      BY <2>5, <2>8, <2>12 DEF ReadsInv
<1> QED
    BY <1>8, <1>9

-----------------------------------------------------------------------------
(* The theorems.                                                           *)

LEMMA ReadsInit == Init => ReadsInv
<1> SUFFICES ASSUME Init PROVE ReadsInv
    OBVIOUS
<1>1. PICK db : db = [req |-> <<>>, del |-> <<>>] /\ wal = <<db>>
    BY DEF Init
<1>2. db.req = <<>> /\ db.del = <<>> /\ DOMAIN db.req = {} /\ DOMAIN db.del = {}
    BY <1>1
<1>3. db.req \in Table(Row) /\ db.del \in Table(Stages)
  <2>1. <<>> \in [{} -> Row] /\ <<>> \in [{} -> Stages]
      OBVIOUS
  <2> QED
      BY <1>2, <2>1 DEF Table
<1>4. db \in Databases /\ Coherent(db)
    BY <1>1, <1>2, <1>3, FS_EmptySet DEF Databases, Coherent
<1>5. wal \in Seq(Databases) /\ Len(wal) = 1 /\ wal[1] = db /\ 1 \in 1..(MaxLag + 1)
    BY <1>1, <1>4, ReadsAssumption
<1>6. \A i \in 1..1 : i = 1
    OBVIOUS
<1>7. WalOK(wal)
    BY <1>4, <1>5, <1>6, LaterOrder DEF WalOK
<1> QED
    BY <1>7, IdleSession DEF Init, ReadsInv

LEMMA ReadsStep == ReadsInv /\ [Next]_vars => ReadsInv'
<1> SUFFICES ASSUME ReadsInv, [Next]_vars PROVE ReadsInv'
    OBVIOUS
<1>1. CASE \E id \in Ids, u \in Users, at \in Times : insertRequest(id, u, at)
    BY <1>1, InsertStep
<1>2. CASE \E id \in Ids : MarkSent(id)
    BY <1>2, SentStep
<1>3. CASE Replay
    BY <1>3, ReplayStep
<1>4. CASE \E u \in Users, f \in Filters, n \in Limits : listNotifications(u, f, n)
    BY <1>4, ListStep
<1>5. CASE \E n \in Limits : nextPage(n)
    BY <1>5, NextPageStep
<1>6. CASE \E u \in Users, id \in Ids : getNotification(u, id)
    BY <1>6, GetStep
<1>7. CASE GetDeliveriesByRequest
    BY <1>7, DeliveriesStep
<1>8. CASE \E u \in Users, id \in Ids : cancelNotification(u, id)
    BY <1>8, CancelCallStep
<1>9. CASE CancelRequest
    BY <1>9, CancelStep
<1>10. CASE \E u \in Users : getBatch(u)
    BY <1>10, BatchStep
<1>11. CASE NextCall
    BY <1>11, NextCallStep
<1>12. CASE UNCHANGED vars
    BY <1>12 DEF vars, ReadsInv
<1> QED
    BY <1>1, <1>2, <1>3, <1>4, <1>5, <1>6, <1>7, <1>8, <1>9, <1>10, <1>11, <1>12 DEF Next

\* The databases only move forward, and what a client was shown stays in
\* order, complete up to its cursor and its own.
THEOREM ReadsHold == Spec => []ReadsInv
<1> QED
    BY ReadsInit, ReadsStep, PTL DEF Spec

\* Every database has a delivery for every request, the replica is never
\* further behind than MaxLag commits, and Normalize caps every page.
THEOREM ReadsTypes == Spec => []TypeOK
<1>1. ReadsInv => TypeOK
  <2> SUFFICES ASSUME ReadsInv PROVE TypeOK
      OBVIOUS
  <2>1. DOMAIN wal = 1..Len(wal) /\ Len(wal) \in 1..(MaxLag + 1)
      BY Ends DEF WalOK
  <2>2. \A i \in DOMAIN wal : DOMAIN wal[i].req = DOMAIN wal[i].del
      BY <2>1, Ends DEF WalOK, Coherent
  <2>3. session.kind \in Kinds /\ session.code \in Codes /\ Len(session.page) <= MaxLimit
      BY Ends DEF SessionInv, SessionType
  <2> QED
      BY <2>1, <2>2, <2>3 DEF TypeOK, Kinds, Codes
<1> QED
    BY <1>1, ReadsHold, PTL

\* Nothing is skipped: when the last page of a list has been given, every
\* notification that matched when the list began and still does was on one of
\* its pages, whatever was committed or replayed between the pages.
THEOREM PagesSkipNothing == Spec => []PagesComplete
<1>1. ReadsInv => PagesComplete
  <2> SUFFICES ASSUME ReadsInv, session.kind = "list", session.code = 200, session.cursor = {},
                      NEW id \in session.before,
                      id \in Matching(Replica, session.user, session.filter)
               PROVE  id \in ToSet(session.seen)
      BY DEF PagesComplete
  <2>1. CoverInv(wal, session) /\ Replica = wal[1] /\ session.seen \in Seq(Ids)
      BY Ends DEF SessionInv, SessionType
  <2>2. \E i \in 1..Len(session.seen) : session.seen[i] = id
      BY <2>1 DEF CoverInv
  <2> QED
      BY <2>1, <2>2 DEF ToSet
<1> QED
    BY <1>1, ReadsHold, PTL

\* All the pages of a list together are strictly newest first, by the rows of
\* the primary: nothing is shown twice.
THEOREM PagesNewestFirst == Spec => []NewestFirst
<1>1. ReadsInv => NewestFirst
  <2> SUFFICES ASSUME ReadsInv, NEW i \in DOMAIN session.seen, NEW j \in DOMAIN session.seen, i < j
               PROVE  \/ Primary.req[session.seen[j]].at < Primary.req[session.seen[i]].at
                      \/ /\ Primary.req[session.seen[j]].at = Primary.req[session.seen[i]].at
                         /\ session.seen[j] < session.seen[i]
      BY DEF NewestFirst
  <2>1. SeenInv(wal, session) /\ DOMAIN session.seen = 1..Len(session.seen)
      BY Ends DEF SessionInv, SessionType
  <2>2. Newer(wal[1], session.seen[i], session.seen[j])
      BY <2>1 DEF SeenInv
  <2>3. \A x \in DOMAIN session.seen : Primary.req[session.seen[x]].at = wal[1].req[session.seen[x]].at
    <3>1. \A x \in DOMAIN session.seen : session.seen[x] \in DOMAIN wal[1].req
        BY <2>1 DEF SeenInv, Own
    <3>2. Later(wal[1], Primary)
        BY Ends
    <3> QED
        BY <3>1, <3>2 DEF Later
  <2> QED
      BY <2>2, <2>3 DEF Newer, Before
<1> QED
    BY <1>1, ReadsHold, PTL

\* A get that reads a finished request reads the delivery that finished it,
\* wherever the replica moved between the two statements.
THEOREM ViewsCoherent == Spec => []ViewCoherent
<1>1. ReadsInv => ViewCoherent
  <2> SUFFICES ASSUME ReadsInv, session.kind = "answered", NEW r \in session.request,
                      NEW d \in session.deliveries
               PROVE  r.status \in {"PENDING", AggregateRequestStatus(<<d>>)}
      BY DEF ViewCoherent
  <2>1. d \in Stages /\ r.status \in {"PENDING", d}
      BY Ends DEF SessionInv, SessionType, CallInv
  <2> QED
      BY <2>1, AggregateOne
<1> QED
    BY <1>1, ReadsHold, PTL

\* A call about a notification of another user is answered like a call about
\* none, although the owner is looked up on the replica and the cancel runs on
\* the primary; no page shows another user's row.
THEOREM OwnersOnlyHold == Spec => []OwnersOnly
<1>1. ReadsInv => OwnersOnly
  <2> SUFFICES ASSUME ReadsInv PROVE OwnersOnly
      OBVIOUS
  <2>1. \A id : Own(wal, session, id) => Primary.req[id].user = session.user
      BY Ends DEF Own, Later
  <2>2. /\ SeenInv(wal, session) /\ CallInv(wal, session)
        /\ DOMAIN session.seen = 1..Len(session.seen)
      BY Ends DEF SessionInv, SessionType
  <2>3. session.kind = "answered" => session.code = 404 \/ Own(wal, session, session.id)
      BY <2>2 DEF CallInv
  <2>4. \A i \in DOMAIN session.seen : Own(wal, session, session.seen[i])
      BY <2>2 DEF SeenInv
  <2> QED
      BY <2>1, <2>3, <2>4 DEF OwnersOnly
<1> QED
    BY <1>1, ReadsHold, PTL
=============================================================================
