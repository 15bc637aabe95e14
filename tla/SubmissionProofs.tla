--------------------------- MODULE SubmissionProofs ---------------------------
(***************************************************************************)
(* Proofs about Submission for every set of calls, users, keys and inputs. *)
(***************************************************************************)
EXTENDS Submission, FiniteSetTheorems, TLAPS

-----------------------------------------------------------------------------
(* Facts about numbers and rows.                                           *)

\* A set of numbers that is not empty has a least element, so Min is in it.
LEMMA MinIn ==
    ASSUME NEW S \in SUBSET Nat, S # {}
    PROVE  Min(S) \in S
<1>1. IsWellFoundedOn(OpToRel(<, Nat), Nat)
    BY NatLessThanWellFounded
<1>2. PICK x \in S : \A y \in S : <<y, x>> \notin OpToRel(<, Nat)
    BY <1>1, WFMin
<1>3. \A y \in S : x <= y
  <2> TAKE y \in S
  <2>1. <<y, x>> \notin OpToRel(<, Nat)
      BY <1>2
  <2>2. ~(y < x)
      BY <2>1 DEF OpToRel
  <2> QED
      BY <2>2
<1> QED
    BY <1>2, <1>3 DEF Min

\* RowsOf makes one row per item.
LEMMA RowsCount ==
    ASSUME NEW c, NEW items, IsFiniteSet(items)
    PROVE  Cardinality(RowsOf(c, items)) = Cardinality(items)
<1> DEFINE f == [i \in items |-> <<c, i>>]
<1>1. f \in [items -> RowsOf(c, items)]
    BY DEF RowsOf
<1>2. \A i, j \in items : f[i] = f[j] => i = j
    OBVIOUS
<1>3. \A r \in RowsOf(c, items) : \E i \in items : f[i] = r
    BY DEF RowsOf
<1>4. f \in Bijection(items, RowsOf(c, items))
    BY <1>1, <1>2, <1>3 DEF Bijection, Injection, Surjection, IsInjective
<1>5. ExistsBijection(items, RowsOf(c, items))
    BY <1>4 DEF ExistsBijection
<1> QED
    BY <1>5, FS_Bijection

-----------------------------------------------------------------------------
(* The inductive invariant.                                                *)

Steps == {"receive", "lookup", "build", "batch", "request", "delivery",
          "outbox", "counts", "commit", "relookup", "done"}

\* The steps inside the transaction, after its first insert for a batch.
Inserting == {"request", "delivery", "outbox", "counts", "commit"}

TxType == [batch : BOOLEAN, requests : SUBSET Nat, deliveries : SUBSET Nat,
           outbox : SUBSET Nat, total : Nat, item : Nat]

FewErrors == errors \in 0..MaxErrors

AnswerType == [status : Nat, row : {NoRow} \cup (Calls \X Nat)]

Shape ==
    /\ input \in [Calls -> Inputs]
    /\ pc \in [Calls -> Steps]
    /\ answer \in [Calls -> AnswerType]
    /\ tx \in [Calls -> TxType]
    /\ total \in [Calls -> Nat]
    /\ FewErrors

Items(c) == Len(input[c].items)

\* The items of I that are to be sent now.
Now(c, I) == {i \in I : ~Item(c, i).future}

\* What the open transaction has written, statement by statement.
TxRows(c) ==
    /\ pc[c] \notin Inserting => tx[c] = NoTx
    /\ pc[c] \notin {"receive", "done"} => Items(c) \in 1..MaxBatchSize
    /\ pc[c] \in {"batch", "counts"} => ~Single(c)
    /\ pc[c] \in Inserting =>
          /\ tx[c].batch <=> ~Single(c)
          /\ tx[c].requests \subseteq 1..Items(c)
          /\ \A i \in tx[c].requests : i <= tx[c].item
          /\ tx[c].item >= 1
    /\ pc[c] \in {"request", "delivery", "outbox"} => tx[c].item <= Items(c)
    /\ pc[c] \in {"request", "counts", "commit"} =>
          /\ tx[c].item \notin tx[c].requests
          /\ tx[c].deliveries = tx[c].requests
          /\ tx[c].outbox = Now(c, tx[c].requests)
    /\ pc[c] = "delivery" =>
          /\ tx[c].item \in tx[c].requests
          /\ tx[c].deliveries = tx[c].requests \ {tx[c].item}
          /\ tx[c].outbox = Now(c, tx[c].deliveries)
    /\ pc[c] = "outbox" =>
          /\ tx[c].item \in tx[c].requests /\ ~Item(c, tx[c].item).future
          /\ tx[c].deliveries = tx[c].requests
          /\ tx[c].outbox = Now(c, tx[c].requests \ {tx[c].item})
    /\ pc[c] = "commit" =>
          /\ Single(c) => tx[c].requests = {1}
          /\ ~Single(c) => tx[c].total = Cardinality(tx[c].requests)

\* Committed rows are of calls that have ended.
TableRows ==
    /\ requests \subseteq Rows
    /\ \A r \in requests : pc[r[1]] = "done"
    /\ batches \subseteq Calls
    /\ \A b \in batches : ~Single(b) /\ pc[b] = "done"

\* Rows that are committed or may still be.
Made == requests \cup {r \in Calls \X Nat : r[2] \in tx[r[1]].requests}
MadeBatches == batches \cup {c \in Calls : tx[c].batch}

\* The unique indexes, over open transactions too.
KeysUnique ==
    /\ \A q, r \in Made :
          /\ userID(q[1]) = userID(r[1])
          /\ ItemKey(q[1], q[2]) # NoKey
          /\ ItemKey(q[1], q[2]) = ItemKey(r[1], r[2])
          => q = r
    /\ \A b, c \in MadeBatches :
          userID(b) = userID(c) /\ CallKey(b) # NoKey /\ CallKey(b) = CallKey(c) => b = c

\* The row a call that made one is told of.
OwnRow(c) == IF Single(c) THEN <<c, 1>> ELSE <<c, 0>>

\* A call that was accepted was told of a row its key stands for, and after a
\* conflict there is such a row.
Told(c) ==
    /\ Accepted(c) => answer[c].row \in Existing(c)
    /\ answer[c].status = 202 => answer[c].row = OwnRow(c)
    /\ pc[c] = "relookup" => Existing(c) # {}
    /\ answer[c].status # 409
    /\ answer[c].status = 404 =>
          \E i \in DOMAIN input[c].items : Render(Item(c, i)) = "ErrNotFound"

SubmissionInv ==
    /\ Shape /\ TableRows /\ KeysUnique
    /\ \A c \in Calls : TxRows(c) /\ Told(c)
    /\ RequestsComplete
    /\ TotalsAgree

-----------------------------------------------------------------------------
(* Steps of one call.                                                      *)

\* The other calls are where they were.
CallFrame(c) ==
    /\ input' = input
    /\ \A e \in Calls \ {c} :
          pc'[e] = pc[e] /\ tx'[e] = tx[e] /\ answer'[e] = answer[e]

\* Nobody's input changes, nor what is computed from it.
LEMMA SameInput ==
    ASSUME input' = input
    PROVE  /\ \A c : /\ Single(c)' <=> Single(c)
                     /\ userID(c)' = userID(c)
                     /\ CallKey(c)' = CallKey(c)
                     /\ Items(c)' = Items(c)
                     /\ OwnRow(c)' = OwnRow(c)
           /\ \A c, i : Item(c, i)' = Item(c, i) /\ ItemKey(c, i)' = ItemKey(c, i)
           /\ \A c, I : Now(c, I)' = Now(c, I)
<1>1. \A c : /\ Single(c)' <=> Single(c)
             /\ userID(c)' = userID(c)
             /\ Items(c)' = Items(c)
    BY DEF Single, userID, Items
<1>2. \A c, i : Item(c, i)' = Item(c, i)
    BY DEF Item
<1>3. \A c : CallKey(c)' = CallKey(c)
    BY DEF CallKey, toInput, Single, Item
<1>4. \A c, i : ItemKey(c, i)' = ItemKey(c, i)
    BY DEF ItemKey, CallKey, toInput, Single, Item
<1>5. \A c : OwnRow(c)' = OwnRow(c)
    BY <1>1 DEF OwnRow
<1>6. \A c, I : Now(c, I)' = Now(c, I)
    BY <1>2 DEF Now
<1> QED
    BY <1>1, <1>2, <1>3, <1>4, <1>5, <1>6

\* The tables only grow, and so does what a key stands for.
LEMMA ExistingGrows ==
    ASSUME input' = input, requests \subseteq requests', batches \subseteq batches'
    PROVE  \A c : Existing(c) \subseteq Existing(c)'
<1> TAKE c
<1>1. \A user, key : RequestsWith(user, key) \subseteq RequestsWith(user, key)'
    BY SameInput DEF RequestsWith
<1>2. \A user, key : BatchesWith(user, key) \subseteq BatchesWith(user, key)'
    BY SameInput DEF BatchesWith
<1>3. CASE Single(c)
  <2>1. Existing(c) = RequestsWith(userID(c), CallKey(c))
      BY <1>3 DEF Existing
  <2>2. \A u, k : u = userID(c) /\ k = CallKey(c) => Existing(c)' = RequestsWith(u, k)'
      BY <1>3, SameInput DEF Existing, RequestsWith
  <2> QED
      BY <1>1, <2>1, <2>2
<1>4. CASE ~Single(c)
  <2>1. Existing(c) = {<<b, 0>> : b \in BatchesWith(userID(c), CallKey(c))}
      BY <1>4 DEF Existing
  <2>2. \A u, k : u = userID(c) /\ k = CallKey(c) =>
            Existing(c)' = {<<b, 0>> : b \in BatchesWith(u, k)'}
      BY <1>4, SameInput DEF Existing, BatchesWith
  <2> QED
      BY <1>2, <2>1, <2>2
<1> QED
    BY <1>3, <1>4

\* A call that does not take the step.
LEMMA CallBystander ==
    ASSUME NEW c \in Calls, CallFrame(c), NEW e \in Calls \ {c}, TxRows(e), Told(e),
           requests \subseteq requests', batches \subseteq batches'
    PROVE  TxRows(e)' /\ Told(e)'
<1>1. pc'[e] = pc[e] /\ tx'[e] = tx[e] /\ answer'[e] = answer[e] /\ input' = input
    BY DEF CallFrame
<1>2. \A I, i : Now(e, I)' = Now(e, I) /\ Item(e, i)' = Item(e, i)
    BY <1>1, SameInput
<1>3. (Single(e)' <=> Single(e)) /\ Items(e)' = Items(e)
    BY <1>1, SameInput
<1>4. TxRows(e)'
  <2>1. /\ Now(e, tx[e].requests)' = Now(e, tx[e].requests)
        /\ Now(e, tx[e].deliveries)' = Now(e, tx[e].deliveries)
        /\ Now(e, tx[e].requests \ {tx[e].item})' = Now(e, tx[e].requests \ {tx[e].item})
        /\ Item(e, tx[e].item)' = Item(e, tx[e].item)
      BY <1>1 DEF Now, Item
  <2> QED
      BY <1>1, <1>3, <2>1 DEF TxRows
<1>5. Told(e)'
  <2>1. Existing(e) \subseteq Existing(e)'
      BY <1>1, ExistingGrows
  <2>2. OwnRow(e)' = OwnRow(e) /\ (Accepted(e)' <=> Accepted(e))
      BY <1>1, SameInput DEF Accepted
  <2>3. \A i : Render(Item(e, i))' = Render(Item(e, i))
      BY <1>1 DEF Render, Item
  <2> QED
      BY <1>1, <2>1, <2>2, <2>3 DEF Told
<1> QED
    BY <1>4, <1>5

\* Nothing new is made.
LEMMA KeysShrink ==
    ASSUME KeysUnique, input' = input, Made' \subseteq Made, MadeBatches' \subseteq MadeBatches
    PROVE  KeysUnique'
    BY SameInput DEF KeysUnique

\* A step that commits nothing.
LEMMA NoTableStep ==
    ASSUME SubmissionInv, NEW c \in Calls, CallFrame(c), UNCHANGED tableVars,
           pc[c] # "done", Shape', KeysUnique', TxRows(c)', Told(c)'
    PROVE  SubmissionInv'
<1>1. UNCHANGED <<input, requests, deliveries, outbox, batches, total>>
    BY DEF CallFrame, tableVars
<1>2. \A e \in Calls : TxRows(e)' /\ Told(e)'
    BY <1>1, CallBystander DEF SubmissionInv
<1>3. TableRows'
  <2>1. \A r \in requests : r[1] \in Calls /\ r[1] # c
      BY DEF SubmissionInv, TableRows, Rows
  <2>2. \A b \in batches : b \in Calls /\ b # c
      BY DEF SubmissionInv, TableRows
  <2>3. \A r \in requests : pc'[r[1]] = "done"
      BY <2>1 DEF CallFrame, SubmissionInv, TableRows
  <2>4. \A b \in batches : pc'[b] = "done" /\ ~Single(b)'
      BY <1>1, <2>2, SameInput DEF CallFrame, SubmissionInv, TableRows
  <2> QED
      BY <1>1, <2>3, <2>4 DEF SubmissionInv, TableRows, Rows
<1>4. RequestsComplete'
    BY <1>1 DEF SubmissionInv, RequestsComplete, Item
<1>5. TotalsAgree'
    BY <1>1 DEF SubmissionInv, TotalsAgree
<1> QED
    BY <1>2, <1>3, <1>4, <1>5 DEF SubmissionInv

\* What a rolled back or unchanged transaction leaves.
LEMMA LessMade ==
    ASSUME Shape, NEW c \in Calls, CallFrame(c), requests' = requests, batches' = batches,
           tx'[c] = NoTx
    PROVE  Made' \subseteq Made /\ MadeBatches' \subseteq MadeBatches
<1>1. \A e \in Calls : tx'[e] = tx[e] \/ (tx'[e].requests = {} /\ tx'[e].batch = FALSE)
    BY DEF CallFrame, NoTx
<1> QED
    BY <1>1 DEF Made, MadeBatches

\* The parts of Shape that a step of one call changes.
LEMMA PcShape ==
    ASSUME Shape, NEW c \in Calls, NEW step \in Steps, goto(c, step)
    PROVE  /\ pc' \in [Calls -> Steps] /\ pc'[c] = step
           /\ \A e \in Calls \ {c} : pc'[e] = pc[e]
    BY DEF Shape, goto

LEMMA TxShape ==
    ASSUME Shape, NEW c \in Calls, NEW t \in TxType, tx' = [tx EXCEPT ![c] = t]
    PROVE  /\ tx' \in [Calls -> TxType] /\ tx'[c] = t
           /\ \A e \in Calls \ {c} : tx'[e] = tx[e]
    BY DEF Shape

LEMMA AnswerShape ==
    ASSUME Shape, NEW c \in Calls, NEW status \in Nat,
           NEW row \in {NoRow} \cup (Calls \X Nat), reply(c, status, row)
    PROVE  /\ answer' \in [Calls -> AnswerType]
           /\ answer'[c].status = status /\ answer'[c].row = row
           /\ \A e \in Calls \ {c} : answer'[e] = answer[e]
<1>1. PICK a \in AnswerType :
          /\ a.status = status /\ a.row = row
          /\ answer' = [answer EXCEPT ![c] = a]
    BY DEF AnswerType, reply
<1> QED
    BY <1>1 DEF Shape

LEMMA NoTxType == NoTx \in TxType
    BY DEF NoTx, TxType

\* A call is answered and its transaction, if any, rolled back.
LEMMA ReplyStep ==
    ASSUME SubmissionInv, NEW c \in Calls, pc[c] # "done",
           UNCHANGED <<input, tableVars>>, FewErrors',
           NEW status \in Nat \ {202, 409}, NEW row \in {NoRow} \cup (Calls \X Nat),
           reply(c, status, row), rollback(c) \/ (tx' = tx /\ tx[c] = NoTx),
           status = 200 => row \in Existing(c),
           status = 404 =>
               \E i \in DOMAIN input[c].items : Render(Item(c, i)) = "ErrNotFound"
    PROVE  SubmissionInv'
<1>1. Shape /\ status \in Nat /\ "done" \in Steps
    BY DEF SubmissionInv, Steps
<1>2. goto(c, "done")
    BY DEF reply
<1>3. UNCHANGED <<requests, deliveries, outbox, batches, total>>
    BY DEF tableVars
<1>4. /\ Shape' /\ CallFrame(c) /\ pc'[c] = "done" /\ tx'[c] = NoTx
  <2>1. /\ pc' \in [Calls -> Steps] /\ pc'[c] = "done"
        /\ \A e \in Calls \ {c} : pc'[e] = pc[e]
      BY <1>1, <1>2, PcShape
  <2>2. /\ tx' \in [Calls -> TxType] /\ tx'[c] = NoTx
        /\ \A e \in Calls \ {c} : tx'[e] = tx[e]
    <3>1. CASE rollback(c)
        BY <1>1, <3>1, TxShape, NoTxType DEF rollback
    <3>2. CASE tx' = tx /\ tx[c] = NoTx
        BY <1>1, <3>2 DEF Shape
    <3> QED
        BY <3>1, <3>2
  <2>3. answer' \in [Calls -> AnswerType] /\ \A e \in Calls \ {c} : answer'[e] = answer[e]
      BY <1>1, AnswerShape
  <2> QED
      BY <1>1, <1>3, <2>1, <2>2, <2>3 DEF Shape, CallFrame
<1>5. answer'[c].status = status /\ answer'[c].row = row
    BY <1>1, AnswerShape
<1>6. KeysUnique'
    BY <1>3, <1>4, LessMade, KeysShrink DEF SubmissionInv
<1>7. TxRows(c)'
    BY <1>4 DEF TxRows, Inserting
<1>8. Told(c)'
  <2>1. Existing(c) \subseteq Existing(c)'
      BY <1>3, ExistingGrows
  <2>2. Accepted(c)' => status = 200
      BY <1>5 DEF Accepted
  <2>3. \A i : Render(Item(c, i))' = Render(Item(c, i))
      BY DEF Render, Item
  <2> QED
      BY <1>4, <1>5, <2>1, <2>2, <2>3 DEF Told
<1> QED
    BY <1>4, <1>6, <1>7, <1>8, NoTableStep

\* A call goes on to its next statement.
LEMMA MoveStep ==
    ASSUME SubmissionInv, NEW c \in Calls, pc[c] # "done",
           UNCHANGED <<input, answer, tableVars, errors>>,
           NEW step \in Steps, goto(c, step),
           NEW t \in TxType, tx' = tx \/ tx' = [tx EXCEPT ![c] = t],
           TxRows(c)', KeysUnique', step = "relookup" => Existing(c) # {}
    PROVE  SubmissionInv'
<1>1. UNCHANGED <<requests, deliveries, outbox, batches, total>>
    BY DEF tableVars
<1>2. /\ pc' \in [Calls -> Steps] /\ pc'[c] = step
      /\ \A e \in Calls \ {c} : pc'[e] = pc[e]
    BY PcShape DEF SubmissionInv
<1>3. Shape' /\ CallFrame(c) /\ pc'[c] = step
  <2>1. tx' \in [Calls -> TxType] /\ \A e \in Calls \ {c} : tx'[e] = tx[e]
    <3>1. CASE tx' = tx
        BY <3>1 DEF SubmissionInv, Shape
    <3>2. CASE tx' = [tx EXCEPT ![c] = t]
        BY <3>2, TxShape DEF SubmissionInv
    <3> QED
        BY <3>1, <3>2
  <2> QED
      BY <1>1, <1>2, <2>1 DEF SubmissionInv, Shape, FewErrors, CallFrame
<1>4. Told(c)'
  <2>1. Existing(c) \subseteq Existing(c)' /\ OwnRow(c)' = OwnRow(c)
      BY <1>1, ExistingGrows, SameInput
  <2>2. \A i : Render(Item(c, i))' = Render(Item(c, i))
      BY DEF Render, Item
  <2>3. Accepted(c)' <=> Accepted(c)
      BY DEF Accepted
  <2> QED
      BY <1>3, <2>1, <2>2, <2>3 DEF Told, SubmissionInv
<1> QED
    BY <1>3, <1>4, NoTableStep

-----------------------------------------------------------------------------
(* Before the transaction and after a conflict.                            *)

LEMMA ErrorStatus ==
    /\ writeError("ErrValidation") = 400 /\ writeError("other") = 500
    /\ \A item : Render(item) # "ok" =>
          /\ writeError(Render(item)) \in {400, 404}
          /\ writeError(Render(item)) = 404 => Render(item) = "ErrNotFound"
<1>1. /\ writeError("ErrValidation") = 400 /\ writeError("other") = 500
      /\ writeError("ErrNotFound") = 404 /\ writeError("ErrTemplateVariablesMissing") = 400
    BY DEF writeError
<1>2. \A item : Render(item) \in
          {"ok", "ErrNotFound", "ErrValidation", "ErrTemplateVariablesMissing"}
    BY DEF Render
<1> QED
    BY <1>1, <1>2

\* A call outside its transaction goes on outside of it.
LEMMA OutsideStep ==
    ASSUME SubmissionInv, NEW c \in Calls, pc[c] # "done",
           UNCHANGED <<input, answer, tableVars, errors>>,
           NEW step \in {"lookup", "build", "relookup", "batch"}, goto(c, step),
           rollback(c) \/ (tx' = tx /\ tx[c] = NoTx),
           Items(c) \in 1..MaxBatchSize, step = "batch" => ~Single(c),
           step = "relookup" => Existing(c) # {}
    PROVE  SubmissionInv'
<1>1. Shape /\ step \in Steps /\ input' = input
    BY DEF SubmissionInv, Steps
<1>2. /\ tx'[c] = NoTx /\ \A e \in Calls \ {c} : tx'[e] = tx[e]
    BY <1>1, TxShape, NoTxType DEF rollback
<1>3. pc'[c] = step /\ \A e \in Calls \ {c} : pc'[e] = pc[e]
    BY <1>1, PcShape
<1>4. TxRows(c)'
  <2>1. Items(c)' = Items(c) /\ (Single(c)' <=> Single(c))
      BY <1>1, SameInput
  <2> QED
      BY <1>2, <1>3, <2>1 DEF TxRows, Inserting
<1>5. KeysUnique'
  <2>1. CallFrame(c) /\ requests' = requests /\ batches' = batches
      BY <1>2, <1>3 DEF CallFrame, tableVars
  <2> QED
      BY <1>1, <1>2, <2>1, LessMade, KeysShrink DEF SubmissionInv
<1> QED
    BY <1>1, <1>4, <1>5, MoveStep, NoTxType DEF rollback

\* receive: only a call that validates goes on.
LEMMA ReceiveInv ==
    ASSUME SubmissionInv, NEW c \in Calls, receive(c)
    PROVE  SubmissionInv'
<1>1. /\ pc[c] = "receive" /\ UNCHANGED <<input, tx, tableVars, errors>>
      /\ FewErrors /\ FewErrors'
    BY DEF receive, SubmissionInv, Shape, FewErrors
<1>2. tx[c] = NoTx
    BY <1>1 DEF SubmissionInv, TxRows, Inserting
<1>3. CASE reply(c, 401, NoRow) \/ reply(c, writeError("ErrValidation"), NoRow)
  <2>1. PICK status \in {401, 400} : reply(c, status, NoRow)
      BY <1>3, ErrorStatus
  <2>2. /\ status \in Nat \ {202, 409} /\ status # 200 /\ status # 404
        /\ UNCHANGED <<input, tableVars>>
      BY <1>1
  <2> QED
      BY <1>1, <1>2, <2>1, <2>2, ReplyStep
<1>4. CASE /\ validate(input[c]) /\ UNCHANGED answer
           /\ goto(c, IF CallKey(c) = NoKey THEN "build" ELSE "lookup")
  <2>1. Items(c) \in 1..MaxBatchSize
      BY <1>4 DEF validate, Items
  <2>2. PICK step \in {"lookup", "build"} : goto(c, step)
      BY <1>4
  <2>3. UNCHANGED <<input, answer, tableVars, errors>>
      BY <1>1, <1>4
  <2> QED
      BY <1>1, <1>2, <2>1, <2>2, <2>3, OutsideStep
<1> QED
    BY <1>3, <1>4 DEF receive

\* What a key stands for is a row.
LEMMA ExistingRows ==
    ASSUME SubmissionInv, NEW c \in Calls
    PROVE  Existing(c) \subseteq Calls \X Nat
<1>1. RequestsWith(userID(c), CallKey(c)) \subseteq Calls \X Nat
  <2>1. Rows \subseteq Calls \X Nat
      BY SubmissionAssumption DEF Rows
  <2> QED
      BY <2>1 DEF SubmissionInv, TableRows, RequestsWith
<1>2. BatchesWith(userID(c), CallKey(c)) \subseteq Calls
    BY DEF SubmissionInv, TableRows, BatchesWith
<1> QED
    BY <1>1, <1>2 DEF Existing

\* lookup and relookup: a row that is found is the answer.
LEMMA LookupInv ==
    ASSUME SubmissionInv, NEW c \in Calls, lookup(c) \/ relookup(c)
    PROVE  SubmissionInv'
<1>1. /\ pc[c] \in {"lookup", "relookup"} /\ UNCHANGED <<input, tx, tableVars, errors>>
      /\ FewErrors'
    BY DEF lookup, relookup, SubmissionInv, Shape, FewErrors
<1>2. tx[c] = NoTx /\ Items(c) \in 1..MaxBatchSize
    BY <1>1 DEF SubmissionInv, TxRows, Inserting
<1>3. CASE \E row \in Existing(c) : reply(c, 200, row)
  <2>1. PICK row \in Existing(c) : reply(c, 200, row)
      BY <1>3
  <2>2. row \in {NoRow} \cup (Calls \X Nat) /\ UNCHANGED <<input, tableVars>>
      BY <1>1, <2>1, ExistingRows
  <2> QED
      BY <1>1, <1>2, <2>1, <2>2, ReplyStep
<1>4. CASE pc[c] = "lookup" /\ goto(c, "build") /\ UNCHANGED answer
  <2>1. UNCHANGED <<input, answer, tableVars, errors>>
      BY <1>1, <1>4
  <2> QED
      BY <1>1, <1>2, <1>4, <2>1, OutsideStep
<1>5. CASE pc[c] = "relookup" /\ Existing(c) = {}
    BY <1>5 DEF SubmissionInv, Told
<1> QED
    BY <1>1, <1>3, <1>4, <1>5 DEF lookup, relookup

\* The items of a call are numbered from one.
LEMMA ItemNumbers ==
    ASSUME SubmissionInv, NEW c \in Calls
    PROVE  /\ Items(c) \in Nat /\ DOMAIN input[c].items = 1..Items(c)
           /\ Single(c) => Items(c) = 1
           /\ \A i \in 1..Items(c) : Item(c, i).future \in BOOLEAN
    BY SubmissionAssumption DEF SubmissionInv, Shape, Items, Single, Item

\* build: the first error is an item's, or the transaction begins.
LEMMA BuildInv ==
    ASSUME SubmissionInv, NEW c \in Calls, build(c)
    PROVE  SubmissionInv'
<1> DEFINE bad == {i \in DOMAIN input[c].items : Render(Item(c, i)) # "ok"}
<1>1. /\ pc[c] = "build" /\ UNCHANGED <<input, tx, tableVars, errors>>
      /\ FewErrors'
    BY DEF build, SubmissionInv, Shape, FewErrors
<1>2. tx[c] = NoTx /\ Items(c) \in 1..MaxBatchSize
    BY <1>1 DEF SubmissionInv, TxRows, Inserting
<1>3. CASE bad # {}
  <2>1. bad \in SUBSET Nat
      BY ItemNumbers
  <2>2. PICK i \in bad : i = Min(bad)
      BY <1>3, <2>1, MinIn
  <2>3. reply(c, writeError(Render(Item(c, i))), NoRow)
      BY <1>3, <2>2 DEF build
  <2>4. /\ i \in DOMAIN input[c].items
        /\ writeError(Render(Item(c, i))) \in {400, 404}
        /\ writeError(Render(Item(c, i))) = 404 => Render(Item(c, i)) = "ErrNotFound"
      BY ErrorStatus
  <2>5. PICK status \in {400, 404} : status = writeError(Render(Item(c, i)))
      BY <2>4
  <2>6. /\ status \in Nat \ {202, 409} /\ status # 200 /\ UNCHANGED <<input, tableVars>>
        /\ reply(c, status, NoRow)
      BY <1>1, <2>3, <2>5
  <2>7. status = 404 => \E k \in DOMAIN input[c].items : Render(Item(c, k)) = "ErrNotFound"
      BY <2>4, <2>5
  <2> QED
      BY <1>1, <1>2, <2>6, <2>7, ReplyStep
<1>4. CASE bad = {}
  <2>1. /\ goto(c, IF Single(c) THEN "request" ELSE "batch")
        /\ UNCHANGED <<input, answer, tableVars, errors>>
      BY <1>1, <1>4 DEF build
  <2>2. CASE ~Single(c)
      BY <1>1, <1>2, <2>1, <2>2, OutsideStep
  <2>3. CASE Single(c)
    <3>1. goto(c, "request") /\ "request" \in Steps /\ Shape
        BY <2>1, <2>3 DEF Steps, SubmissionInv
    <3>2. pc'[c] = "request" /\ tx'[c] = NoTx /\ \A e \in Calls \ {c} : pc'[e] = pc[e]
        BY <1>1, <1>2, <3>1, PcShape
    <3>3. TxRows(c)'
      <4>1. Items(c)' = Items(c) /\ Single(c)' /\ Now(c, {})' = {}
          BY <1>1, <2>3, SameInput DEF Now
      <4> QED
          BY <1>2, <3>2, <4>1 DEF TxRows, Inserting, NoTx
    <3>4. KeysUnique'
      <4>1. CallFrame(c) /\ requests' = requests /\ batches' = batches
          BY <1>1, <2>1, <3>2 DEF CallFrame, tableVars
      <4> QED
          BY <3>1, <3>2, <4>1, LessMade, KeysShrink DEF SubmissionInv, CallFrame
    <3> QED
        BY <1>1, <2>1, <3>1, <3>3, <3>4, MoveStep, NoTxType
  <2> QED
      BY <2>2, <2>3
<1> QED
    BY <1>3, <1>4

-----------------------------------------------------------------------------
(* The statements of the transaction.                                      *)

\* Nobody else has, or may still get, the key of the batch.
LEMMA BatchKeyFree ==
    ASSUME SubmissionInv, NEW c \in Calls, pc[c] = "batch", WaitsFor(c) = {},
           ~BatchKeyTaken(c), NEW b \in MadeBatches,
           userID(b) = userID(c), CallKey(c) # NoKey, CallKey(b) = CallKey(c)
    PROVE  FALSE
<1>1. WaitsFor(c) = IF CallKey(c) = NoKey \/ BatchKeyTaken(c) THEN {} ELSE BatchHolders(c)
    BY DEF WaitsFor
<1>2. BatchHolders(c) = {}
    BY <1>1
<1>3. CASE b \in batches
    BY <1>3 DEF BatchKeyTaken, BatchesWith
<1>4. CASE b \in Calls /\ tx[b].batch
  <2>1. pc[b] \in Inserting
    <3>1. NoTx.batch = FALSE
        BY DEF NoTx
    <3>2. pc[b] \notin Inserting => tx[b] = NoTx
        BY <1>4 DEF SubmissionInv, TxRows
    <3> QED
        BY <1>4, <3>1, <3>2
  <2>2. ~Single(b)
      BY <1>4, <2>1 DEF SubmissionInv, TxRows
  <2> QED
      BY <1>2, <1>4, <2>2 DEF BatchHolders
<1> QED
    BY <1>3, <1>4 DEF MadeBatches

\* insertBatch: the key was free, or its row is committed.
LEMMA InsertBatchInv ==
    ASSUME SubmissionInv, NEW c \in Calls, insertBatch(c)
    PROVE  SubmissionInv'
<1>1. /\ pc[c] = "batch" /\ UNCHANGED <<input, answer, tableVars, errors>>
      /\ WaitsFor(c) = {} /\ input' = input
    BY DEF insertBatch
<1>2. /\ tx[c] = NoTx /\ Items(c) \in 1..MaxBatchSize /\ ~Single(c) /\ Shape
    BY <1>1 DEF SubmissionInv, TxRows, Inserting
<1>3. CASE BatchKeyTaken(c)
  <2>1. rollback(c) /\ goto(c, "relookup")
      BY <1>3 DEF insertBatch
  <2>2. Existing(c) # {}
      BY <1>2, <1>3 DEF BatchKeyTaken, Existing
  <2> QED
      BY <1>1, <1>2, <2>1, <2>2, OutsideStep
<1>4. CASE ~BatchKeyTaken(c)
  <2> DEFINE t == [NoTx EXCEPT !.batch = TRUE]
  <2>1. /\ t \in TxType /\ t.batch = TRUE /\ t.requests = {} /\ t.deliveries = {}
        /\ t.outbox = {} /\ t.item = 1
      BY DEF NoTx, TxType
  <2>2. tx' = [tx EXCEPT ![c] = t] /\ goto(c, "request")
      BY <1>2, <1>4 DEF insertBatch
  <2> HIDE DEF t
  <2>3. tx'[c] = t /\ \A e \in Calls \ {c} : tx'[e] = tx[e]
      BY <1>2, <2>1, <2>2, TxShape
  <2>4. pc'[c] = "request" /\ "request" \in Steps
      BY <1>2, <2>2, PcShape DEF Steps
  <2>5. TxRows(c)'
    <3>1. Items(c)' = Items(c) /\ ~Single(c)' /\ Now(c, {})' = {}
        BY <1>1, <1>2, SameInput DEF Now
    <3> QED
        BY <1>2, <2>1, <2>3, <2>4, <3>1 DEF TxRows, Inserting
  <2>6. KeysUnique'
    <3>1. requests' = requests /\ batches' = batches
        BY <1>1 DEF tableVars
    <3>2. Made' \subseteq Made
        BY <2>1, <2>3, <3>1 DEF Made
    <3>3. MadeBatches' \subseteq MadeBatches \cup {c}
        BY <2>3, <3>1 DEF MadeBatches
    <3>4. \A b \in MadeBatches :
              ~(userID(b) = userID(c) /\ CallKey(c) # NoKey /\ CallKey(b) = CallKey(c))
        BY <1>1, <1>4, BatchKeyFree
    <3> QED
        BY <1>1, <3>2, <3>3, <3>4, SameInput DEF KeysUnique, SubmissionInv
  <2> QED
      BY <1>1, <2>1, <2>2, <2>4, <2>5, <2>6, MoveStep
<1> QED
    BY <1>3, <1>4

\* Nobody else has, or may still get, the key of the item.
LEMMA RequestKeyFree ==
    ASSUME SubmissionInv, NEW c \in Calls, pc[c] = "request", WaitsFor(c) = {},
           NEW key, key = ItemKey(c, tx[c].item), ~RequestKeyTaken(c, key), NEW r \in Made,
           userID(r[1]) = userID(c), key # NoKey, ItemKey(r[1], r[2]) = key
    PROVE  FALSE
<1>1. WaitsFor(c) = IF key = NoKey \/ RequestKeyTaken(c, key) THEN {}
                    ELSE RequestHolders(c, key)
    BY Zenon DEF WaitsFor
<1>2. RequestHolders(c, key) = {}
    BY <1>1
<1>3. CASE r \in requests
    BY <1>3 DEF RequestKeyTaken, RequestsWith
<1>4. CASE r \in Calls \X Nat /\ r[2] \in tx[r[1]].requests
    BY <1>2, <1>4 DEF RequestHolders
<1> QED
    BY <1>3, <1>4 DEF Made

\* The insert of a request whose key is free.
LEMMA InsertRowInv ==
    ASSUME SubmissionInv, NEW c \in Calls, pc[c] = "request", WaitsFor(c) = {},
           ~RequestKeyTaken(c, ItemKey(c, tx[c].item)),
           tx' = [tx EXCEPT ![c].requests = @ \cup {tx[c].item}],
           goto(c, "delivery"), UNCHANGED <<input, answer, tableVars, errors>>
    PROVE  SubmissionInv'
<1> DEFINE s == tx[c]
           i == tx[c].item
           t == [tx[c] EXCEPT !.requests = @ \cup {i}]
<1>1. Shape /\ s \in TxType /\ "delivery" \in Steps /\ input' = input
    BY DEF SubmissionInv, Shape, Steps
<1>2. i \in Nat /\ s.requests \in SUBSET Nat
    BY <1>1 DEF TxType
<1>3. /\ t \in TxType /\ t.batch = s.batch /\ t.requests = s.requests \cup {i}
      /\ t.deliveries = s.deliveries /\ t.outbox = s.outbox /\ t.item = i
    BY <1>1, <1>2 DEF TxType
<1>4. tx' = [tx EXCEPT ![c] = t]
    BY <1>1 DEF Shape
<1> HIDE DEF t
<1>5. tx'[c] = t /\ \A e \in Calls \ {c} : tx'[e] = tx[e]
    BY <1>1, <1>3, <1>4, TxShape
<1>6. pc'[c] = "delivery"
    BY <1>1, PcShape
<1>7. /\ Items(c) \in 1..MaxBatchSize /\ (s.batch <=> ~Single(c))
      /\ s.requests \subseteq 1..Items(c) /\ (\A k \in s.requests : k <= i) /\ i >= 1
      /\ i <= Items(c) /\ i \notin s.requests
      /\ s.deliveries = s.requests /\ s.outbox = Now(c, s.requests)
    BY DEF SubmissionInv, TxRows, Inserting
<1>8. TxRows(c)'
  <2>1. /\ Items(c)' = Items(c) /\ (Single(c)' <=> Single(c))
        /\ \A I : Now(c, I)' = Now(c, I)
      BY <1>1, SameInput
  <2>2. /\ t.requests \subseteq 1..Items(c) /\ (\A k \in t.requests : k <= i)
        /\ t.deliveries = t.requests \ {i} /\ i \in t.requests
      BY <1>2, <1>3, <1>7
  <2>3. \A I : I = tx'[c].deliveries => Now(c, I)' = t.outbox
      BY <1>3, <1>5, <1>7, <2>1
  <2>4. Now(c, tx[c].deliveries)' = t.outbox
      BY <2>3 DEF Now
  <2> QED
      BY <1>3, <1>5, <1>6, <1>7, <2>1, <2>2, <2>4 DEF TxRows, Inserting
<1>9. KeysUnique'
  <2>1. requests' = requests /\ batches' = batches
      BY DEF tableVars
  <2>2. Made' \subseteq Made \cup {<<c, i>>}
    <3> SUFFICES ASSUME NEW r \in Made', r \notin Made PROVE r = <<c, i>>
        OBVIOUS
    <3>1. r \in Calls \X Nat /\ r[2] \in tx'[r[1]].requests
        BY <2>1 DEF Made
    <3>2. r[2] \notin tx[r[1]].requests
        BY <3>1 DEF Made
    <3>3. r[1] = c
        BY <1>5, <3>1, <3>2
    <3>4. r[2] = i
        BY <1>3, <1>5, <3>1, <3>2, <3>3
    <3> QED
        BY <3>1, <3>3, <3>4
  <2>3. MadeBatches' \subseteq MadeBatches
      BY <1>3, <1>5, <2>1 DEF MadeBatches
  <2>4. \A r \in Made :
            ~(/\ userID(r[1]) = userID(c) /\ ItemKey(c, i) # NoKey
              /\ ItemKey(r[1], r[2]) = ItemKey(c, i))
      BY RequestKeyFree
  <2>5. \A q, r \in Made \cup {<<c, i>>} :
          /\ userID(q[1]) = userID(r[1])
          /\ ItemKey(q[1], q[2]) # NoKey
          /\ ItemKey(q[1], q[2]) = ItemKey(r[1], r[2])
          => q = r
    <3>1. <<c, i>>[1] = c /\ <<c, i>>[2] = i
        OBVIOUS
    <3> QED
        BY <2>4, <3>1 DEF SubmissionInv, KeysUnique
  <2>6. \A b, e \in MadeBatches :
          userID(b) = userID(e) /\ CallKey(b) # NoKey /\ CallKey(b) = CallKey(e) => b = e
      BY DEF SubmissionInv, KeysUnique
  <2> QED
      BY <1>1, <2>2, <2>3, <2>5, <2>6, SameInput DEF KeysUnique
<1> QED
    BY <1>1, <1>3, <1>4, <1>8, <1>9, MoveStep

\* The transaction of a call writes no request.
LEMMA SameMade ==
    ASSUME SubmissionInv, NEW c \in Calls, UNCHANGED <<input, answer, tableVars, errors>>,
           NEW t \in TxType, tx' = [tx EXCEPT ![c] = t],
           t.requests = tx[c].requests, t.batch = tx[c].batch
    PROVE  KeysUnique'
<1>1. Shape /\ input' = input /\ requests' = requests /\ batches' = batches
    BY DEF SubmissionInv, tableVars
<1>2. tx'[c] = t /\ \A e \in Calls \ {c} : tx'[e] = tx[e]
    BY <1>1, TxShape
<1>3. \A e \in Calls : tx'[e].requests = tx[e].requests /\ tx'[e].batch = tx[e].batch
    BY <1>2
<1>4. Made' \subseteq Made /\ MadeBatches' \subseteq MadeBatches
    BY <1>1, <1>3 DEF Made, MadeBatches
<1> QED
    BY <1>1, <1>4, KeysShrink DEF SubmissionInv

\* The last statement of an item.
LEMMA ItemDone ==
    ASSUME SubmissionInv, NEW c \in Calls, pc[c] \in {"request", "delivery", "outbox"},
           UNCHANGED <<input, answer, tableVars, errors>>,
           goto(c, AfterItem(c, tx[c].item)),
           NEW t \in TxType, tx' = [tx EXCEPT ![c] = t],
           t.requests = tx[c].requests, t.batch = tx[c].batch,
           t.item = tx[c].item + 1, t.deliveries = t.requests,
           t.outbox = Now(c, t.requests), Single(c) => tx[c].item \in t.requests
    PROVE  SubmissionInv'
<1> DEFINE i == tx[c].item
<1>1. Shape /\ input' = input /\ i \in Nat /\ t.requests \in SUBSET Nat
    BY DEF SubmissionInv, Shape, TxType
<1>2. tx'[c] = t
    BY <1>1, TxShape
<1>3. PICK step \in {"request", "commit", "counts"} :
          /\ step = AfterItem(c, i) /\ goto(c, step)
          /\ step = "request" => i < Items(c)
          /\ step = "commit" => Single(c) /\ ~(i < Items(c))
          /\ step = "counts" => ~Single(c)
    BY DEF AfterItem, Items
<1>4. pc'[c] = step /\ step \in Steps
    BY <1>1, <1>3, PcShape DEF Steps
<1>5. /\ Items(c) \in 1..MaxBatchSize /\ (t.batch <=> ~Single(c))
      /\ t.requests \subseteq 1..Items(c) /\ (\A k \in t.requests : k <= i) /\ i >= 1
      /\ i <= Items(c)
    BY DEF SubmissionInv, TxRows, Inserting
<1>6. /\ \A k \in t.requests : k <= t.item
      /\ t.item >= 1 /\ t.item \notin t.requests
      /\ step = "request" => t.item <= Items(c)
  <2>1. Items(c) \in Nat /\ t.item = i + 1
      BY ItemNumbers
  <2> QED
      BY <1>1, <1>3, <1>5, <2>1
<1>7. step = "commit" => Single(c) /\ t.requests = {1}
  <2>1. Single(c) => Items(c) = 1
      BY ItemNumbers
  <2> QED
      BY <1>1, <1>3, <1>5, <2>1
<1>8. TxRows(c)'
  <2>1. /\ Items(c)' = Items(c) /\ (Single(c)' <=> Single(c))
        /\ \A I : Now(c, I)' = Now(c, I)
      BY <1>1, SameInput
  <2>2. \A I : I = tx'[c].requests => Now(c, I)' = t.outbox
      BY <1>2, <2>1
  <2>3. Now(c, tx[c].requests)' = t.outbox
      BY <2>2 DEF Now
  <2> QED
      BY <1>2, <1>3, <1>4, <1>5, <1>6, <1>7, <2>1, <2>3 DEF TxRows, Inserting
<1>9. KeysUnique'
    BY SameMade
<1> QED
    BY <1>3, <1>4, <1>8, <1>9, MoveStep

\* insertRequest: the key was free, or its row is committed.
LEMMA InsertRequestInv ==
    ASSUME SubmissionInv, NEW c \in Calls, insertRequest(c)
    PROVE  SubmissionInv'
<1> DEFINE i == tx[c].item
<1>1. /\ pc[c] = "request" /\ UNCHANGED <<input, answer, tableVars, errors>>
      /\ WaitsFor(c) = {} /\ Single(c)
    BY DEF insertRequest
<1>2. CASE RequestKeyTaken(c, ItemKey(c, i))
  <2>1. rollback(c) /\ goto(c, "relookup")
      BY <1>2 DEF insertRequest
  <2>2. /\ Items(c) = 1 /\ Items(c) \in 1..MaxBatchSize /\ i \in Nat /\ i <= Items(c)
        /\ i >= 1 /\ i \notin tx[c].requests /\ tx[c].requests \subseteq 1..Items(c)
      BY <1>1, ItemNumbers DEF SubmissionInv, Shape, TxType, TxRows, Inserting
  <2>3. i = 1 /\ tx[c].requests = {}
      BY <2>2
  <2>4. ItemKey(c, i) = CallKey(c)
      BY <1>1 DEF ItemKey
  <2>5. RequestsWith(userID(c), CallKey(c)) # {}
      BY <1>2, <2>3, <2>4 DEF RequestKeyTaken, RequestHolders
  <2>6. Existing(c) # {}
      BY <1>1, <2>5 DEF Existing
  <2> QED
      BY <1>1, <2>1, <2>2, <2>6, OutsideStep
<1>3. CASE ~RequestKeyTaken(c, ItemKey(c, i))
  <2>1. /\ tx' = [tx EXCEPT ![c].requests = @ \cup {tx[c].item}]
        /\ goto(c, "delivery")
      BY <1>3 DEF insertRequest
  <2> QED
      BY <1>1, <1>3, <2>1, InsertRowInv
<1> QED
    BY <1>2, <1>3

\* insertRequestOnConflict: an item whose key is taken is skipped.
LEMMA InsertOnConflictInv ==
    ASSUME SubmissionInv, NEW c \in Calls, insertRequestOnConflict(c)
    PROVE  SubmissionInv'
<1> DEFINE i == tx[c].item
<1>1. /\ pc[c] = "request" /\ UNCHANGED <<input, answer, tableVars, errors>>
      /\ WaitsFor(c) = {} /\ ~Single(c)
    BY DEF insertRequestOnConflict
<1>2. CASE RequestKeyTaken(c, ItemKey(c, i))
  <2> DEFINE t == [tx[c] EXCEPT !.item = @ + 1]
  <2>1. tx[c] \in TxType /\ i \in Nat
      BY DEF SubmissionInv, Shape, TxType
  <2>2. /\ t \in TxType /\ t.batch = tx[c].batch /\ t.requests = tx[c].requests
        /\ t.deliveries = tx[c].deliveries /\ t.outbox = tx[c].outbox /\ t.item = i + 1
      BY <2>1 DEF TxType
  <2>3. tx' = [tx EXCEPT ![c] = t] /\ goto(c, AfterItem(c, i))
      BY <1>2 DEF insertRequestOnConflict, SubmissionInv, Shape
  <2>4. tx[c].deliveries = tx[c].requests /\ tx[c].outbox = Now(c, tx[c].requests)
      BY <1>1 DEF SubmissionInv, TxRows
  <2> HIDE DEF t
  <2> QED
      BY <1>1, <2>2, <2>3, <2>4, ItemDone
<1>3. CASE ~RequestKeyTaken(c, ItemKey(c, i))
  <2>1. /\ tx' = [tx EXCEPT ![c].requests = @ \cup {tx[c].item}]
        /\ goto(c, "delivery")
      BY <1>3 DEF insertRequestOnConflict
  <2> QED
      BY <1>1, <1>3, <2>1, InsertRowInv
<1> QED
    BY <1>2, <1>3

\* The record updates of the two statements that can end an item.
LEMMA DeliveryFields ==
    ASSUME NEW s \in TxType, NEW t,
           t = [s EXCEPT !.deliveries = @ \cup {s.item}, !.item = @ + 1]
    PROVE  /\ t \in TxType /\ t.batch = s.batch /\ t.requests = s.requests
           /\ t.deliveries = s.deliveries \cup {s.item} /\ t.outbox = s.outbox
           /\ t.item = s.item + 1
<1>1. PICK D \in SUBSET Nat : D = s.deliveries \cup {s.item}
    BY DEF TxType
<1>2. PICK n \in Nat : n = s.item + 1
    BY DEF TxType
<1>3. t = [s EXCEPT !.deliveries = D, !.item = n]
    BY <1>1, <1>2
<1>4. t \in TxType
    BY <1>3 DEF TxType
<1>5. /\ t.batch = s.batch /\ t.requests = s.requests
      /\ t.deliveries = D /\ t.outbox = s.outbox /\ t.item = n
    BY <1>3 DEF TxType
<1> QED
    BY <1>1, <1>2, <1>4, <1>5

LEMMA OutboxFields ==
    ASSUME NEW s \in TxType, NEW t,
           t = [s EXCEPT !.outbox = @ \cup {s.item}, !.item = @ + 1]
    PROVE  /\ t \in TxType /\ t.batch = s.batch /\ t.requests = s.requests
           /\ t.deliveries = s.deliveries /\ t.outbox = s.outbox \cup {s.item}
           /\ t.item = s.item + 1
<1>1. PICK O \in SUBSET Nat : O = s.outbox \cup {s.item}
    BY DEF TxType
<1>2. PICK n \in Nat : n = s.item + 1
    BY DEF TxType
<1>3. t = [s EXCEPT !.outbox = O, !.item = n]
    BY <1>1, <1>2
<1>4. t \in TxType
    BY <1>3 DEF TxType
<1>5. /\ t.batch = s.batch /\ t.requests = s.requests
      /\ t.deliveries = s.deliveries /\ t.outbox = O /\ t.item = n
    BY <1>3 DEF TxType
<1> QED
    BY <1>1, <1>2, <1>4, <1>5

\* insertDelivery: the item is done, or its outbox row comes next.
LEMMA InsertDeliveryInv ==
    ASSUME SubmissionInv, NEW c \in Calls, insertDelivery(c)
    PROVE  SubmissionInv'
<1> DEFINE s == tx[c]
           i == tx[c].item
<1>1. /\ pc[c] = "delivery" /\ UNCHANGED <<input, answer, tableVars, errors>>
      /\ Shape /\ input' = input /\ s \in TxType /\ i \in Nat /\ s.requests \in SUBSET Nat
    BY DEF insertDelivery, SubmissionInv, Shape, TxType
<1>2. /\ Items(c) \in 1..MaxBatchSize /\ (s.batch <=> ~Single(c))
      /\ s.requests \subseteq 1..Items(c) /\ (\A k \in s.requests : k <= i) /\ i >= 1
      /\ i <= Items(c) /\ i \in s.requests
      /\ s.deliveries = s.requests \ {i} /\ s.outbox = Now(c, s.deliveries)
    BY <1>1 DEF SubmissionInv, TxRows, Inserting
<1>3. s.deliveries \cup {i} = s.requests
    BY <1>2
<1>4. CASE Item(c, i).future
  <2>t. PICK t : t = [s EXCEPT !.deliveries = @ \cup {i}, !.item = @ + 1]
      OBVIOUS
  <2>1. /\ t \in TxType /\ t.batch = s.batch /\ t.requests = s.requests
        /\ t.deliveries = s.deliveries \cup {i} /\ t.outbox = s.outbox /\ t.item = i + 1
      BY <1>1, <2>t, DeliveryFields, Zenon
  <2>2. tx' = [tx EXCEPT ![c] = t] /\ goto(c, AfterItem(c, i))
      BY <1>1, <1>4, <2>t DEF insertDelivery, Shape
  <2>3. Now(c, s.deliveries) = Now(c, s.requests)
      BY <1>2, <1>4 DEF Now
  <2> QED
      BY <1>1, <1>2, <1>3, <2>1, <2>2, <2>3, ItemDone
<1>5. CASE ~Item(c, i).future
  <2> DEFINE t == [tx[c] EXCEPT !.deliveries = @ \cup {i}]
  <2>1. /\ t \in TxType /\ t.batch = s.batch /\ t.requests = s.requests
        /\ t.deliveries = s.deliveries \cup {i} /\ t.outbox = s.outbox /\ t.item = i
      BY <1>1 DEF TxType
  <2>2. tx' = [tx EXCEPT ![c] = t] /\ goto(c, "outbox")
      BY <1>1, <1>5 DEF insertDelivery, Shape
  <2> HIDE DEF t
  <2>3. tx'[c] = t
      BY <1>1, <2>1, <2>2, TxShape
  <2>4. pc'[c] = "outbox" /\ "outbox" \in Steps
      BY <1>1, <2>2, PcShape DEF Steps
  <2>5. TxRows(c)'
    <3>1. /\ Items(c)' = Items(c) /\ (Single(c)' <=> Single(c))
          /\ \A I : Now(c, I)' = Now(c, I)
          /\ \A k : Item(c, k)' = Item(c, k)
        BY <1>1, SameInput
    <3>2. \A I : I = tx'[c].requests \ {tx'[c].item} => Now(c, I)' = t.outbox
        BY <1>2, <2>1, <2>3, <3>1
    <3>3. Now(c, tx[c].requests \ {tx[c].item})' = t.outbox
        BY <3>2 DEF Now
    <3>4. Item(c, tx[c].item)' = Item(c, i)
      <4>1. tx'[c].item = i
          BY <2>1, <2>3
      <4> QED
          BY <1>1, <4>1 DEF Item
    <3> QED
        BY <1>2, <1>3, <1>5, <2>1, <2>3, <2>4, <3>1, <3>3, <3>4 DEF TxRows, Inserting
  <2>6. KeysUnique'
      BY <1>1, <2>1, <2>2, SameMade
  <2> QED
      BY <1>1, <2>1, <2>2, <2>4, <2>5, <2>6, MoveStep
<1> QED
    BY <1>4, <1>5

\* insertOutbox: the item is done.
LEMMA InsertOutboxInv ==
    ASSUME SubmissionInv, NEW c \in Calls, insertOutbox(c)
    PROVE  SubmissionInv'
<1> DEFINE s == tx[c]
           i == tx[c].item
<1>t. PICK t : t = [s EXCEPT !.outbox = @ \cup {i}, !.item = @ + 1]
    OBVIOUS
<1>1. /\ pc[c] = "outbox" /\ UNCHANGED <<input, answer, tableVars, errors>>
      /\ s \in TxType /\ i \in Nat
    BY DEF insertOutbox, SubmissionInv, Shape, TxType
<1>2. /\ i \in s.requests /\ ~Item(c, i).future
      /\ s.deliveries = s.requests /\ s.outbox = Now(c, s.requests \ {i})
    BY <1>1 DEF SubmissionInv, TxRows
<1>3. s.outbox \cup {i} = Now(c, s.requests)
    BY <1>2 DEF Now
<1>4. /\ t \in TxType /\ t.batch = s.batch /\ t.requests = s.requests
      /\ t.deliveries = s.deliveries /\ t.outbox = s.outbox \cup {i} /\ t.item = i + 1
    BY <1>1, <1>t, OutboxFields, Zenon
<1>5. tx' = [tx EXCEPT ![c] = t] /\ goto(c, AfterItem(c, i))
    BY <1>1, <1>t DEF insertOutbox, SubmissionInv, Shape
<1> QED
    BY <1>1, <1>2, <1>3, <1>4, <1>5, ItemDone

\* The items a transaction may insert are finitely many.
LEMMA InsertedFinite ==
    ASSUME SubmissionInv, NEW c \in Calls, pc[c] \in Inserting
    PROVE  IsFiniteSet(tx[c].requests) /\ Cardinality(tx[c].requests) \in Nat
<1>1. tx[c].requests \subseteq 1..Items(c) /\ Items(c) \in Nat
    BY ItemNumbers DEF SubmissionInv, TxRows
<1>2. IsFiniteSet(1..Items(c))
    BY <1>1, FS_Interval
<1> QED
    BY <1>1, <1>2, FS_Subset, FS_CardinalityType

\* updateCounts.
LEMMA UpdateCountsInv ==
    ASSUME SubmissionInv, NEW c \in Calls, updateCounts(c)
    PROVE  SubmissionInv'
<1> DEFINE s == tx[c]
           t == [tx[c] EXCEPT !.total = Cardinality(tx[c].requests)]
<1>1. /\ pc[c] = "counts" /\ UNCHANGED <<input, answer, tableVars, errors>>
      /\ Shape /\ input' = input /\ s \in TxType
    BY DEF updateCounts, SubmissionInv, Shape
<1>2. Cardinality(s.requests) \in Nat
    BY <1>1, InsertedFinite DEF Inserting
<1>3. /\ t \in TxType /\ t.batch = s.batch /\ t.requests = s.requests
      /\ t.deliveries = s.deliveries /\ t.outbox = s.outbox /\ t.item = s.item
      /\ t.total = Cardinality(s.requests)
    BY <1>1, <1>2 DEF TxType
<1>4. tx' = [tx EXCEPT ![c] = t] /\ goto(c, "commit")
    BY <1>1 DEF updateCounts, CreatedCount, Shape
<1> HIDE DEF t
<1>5. tx'[c] = t
    BY <1>1, <1>3, <1>4, TxShape
<1>6. pc'[c] = "commit" /\ "commit" \in Steps
    BY <1>1, <1>4, PcShape DEF Steps
<1>7. /\ Items(c) \in 1..MaxBatchSize /\ (s.batch <=> ~Single(c))
      /\ s.requests \subseteq 1..Items(c) /\ (\A k \in s.requests : k <= s.item)
      /\ s.item >= 1 /\ s.item \notin s.requests /\ ~Single(c)
      /\ s.deliveries = s.requests /\ s.outbox = Now(c, s.requests)
    BY <1>1 DEF SubmissionInv, TxRows, Inserting
<1>8. TxRows(c)'
  <2>1. /\ Items(c)' = Items(c) /\ (Single(c)' <=> Single(c))
        /\ \A I : Now(c, I)' = Now(c, I)
      BY <1>1, SameInput
  <2>2. \A I : I = tx'[c].requests => Now(c, I)' = t.outbox
      BY <1>3, <1>5, <1>7, <2>1
  <2>3. Now(c, tx[c].requests)' = t.outbox
      BY <2>2 DEF Now
  <2> QED
      BY <1>3, <1>5, <1>6, <1>7, <2>1, <2>3 DEF TxRows, Inserting
<1>9. KeysUnique'
    BY <1>1, <1>3, <1>4, SameMade
<1> QED
    BY <1>1, <1>3, <1>4, <1>6, <1>8, <1>9, MoveStep

-----------------------------------------------------------------------------
(* The end of the transaction.                                             *)

\* What the committing transaction holds.
LEMMA CommitHolds ==
    ASSUME SubmissionInv, NEW c \in Calls, pc[c] = "commit"
    PROVE  /\ Items(c) \in 1..MaxBatchSize /\ (tx[c].batch <=> ~Single(c))
           /\ tx[c].requests \subseteq 1..Items(c)
           /\ tx[c].deliveries = tx[c].requests
           /\ tx[c].outbox = Now(c, tx[c].requests)
           /\ Single(c) => tx[c].requests = {1}
           /\ ~Single(c) => tx[c].total = Cardinality(tx[c].requests)
           /\ tx[c].total \in Nat
<1>1. tx[c].total \in Nat
    BY DEF SubmissionInv, Shape, TxType
<1> QED
    BY <1>1 DEF SubmissionInv, TxRows, Inserting

\* The tables after the commit.
LEMMA CommitTables ==
    ASSUME SubmissionInv, NEW c \in Calls, pc[c] = "commit", applyTx(c), input' = input,
           pc'[c] = "done", \A e \in Calls \ {c} : pc'[e] = pc[e]
    PROVE  TableRows' /\ RequestsComplete'
<1> DEFINE R == tx[c].requests
<1>1. /\ requests' = requests \cup RowsOf(c, R)
      /\ deliveries' = deliveries \cup RowsOf(c, R)
      /\ outbox' = outbox \cup RowsOf(c, Now(c, R))
      /\ batches' = batches \cup IF tx[c].batch THEN {c} ELSE {}
    BY CommitHolds DEF applyTx
<1>2. \A r \in RowsOf(c, R) : r \in Rows /\ r[1] = c /\ r[2] \in R /\ r = <<c, r[2]>>
  <2>1. Items(c) \in Nat /\ R \subseteq 1..Items(c) /\ Items(c) \in 1..MaxBatchSize
      BY ItemNumbers, CommitHolds
  <2>2. R \subseteq 1..MaxBatchSize
      BY <2>1, SubmissionAssumption
  <2> QED
      BY <2>2 DEF RowsOf, Rows
<1>3. \A b \in batches' : b \in batches \/ (b = c /\ ~Single(c))
    BY <1>1, CommitHolds
<1>4. TableRows'
  <2>1. requests' \subseteq Rows
      BY <1>1, <1>2 DEF SubmissionInv, TableRows
  <2>2. \A e \in Calls : pc[e] = "done" => pc'[e] = "done"
      OBVIOUS
  <2>3. \A r \in requests' : pc'[r[1]] = "done"
    <3>1. \A r \in requests : r[1] \in Calls /\ pc[r[1]] = "done"
        BY DEF SubmissionInv, TableRows, Rows
    <3> QED
        BY <1>1, <1>2, <2>2, <3>1
  <2>4. \A b \in batches' : b \in Calls /\ ~Single(b)' /\ pc'[b] = "done"
      BY <1>3, <2>2, SameInput DEF SubmissionInv, TableRows
  <2>5. Rows' = Rows
      BY DEF Rows
  <2> QED
      BY <2>1, <2>3, <2>4, <2>5 DEF TableRows
<1>5. RequestsComplete'
  <2>1. deliveries' = requests'
      BY <1>1 DEF SubmissionInv, RequestsComplete
  <2>2. outbox = {r \in requests : ~Item(r[1], r[2]).future}
      BY DEF SubmissionInv, RequestsComplete
  <2>3. \A r : r \in RowsOf(c, Now(c, R)) <=> r \in RowsOf(c, R) /\ ~Item(r[1], r[2]).future
    <3>1. \A i : <<c, i>>[1] = c /\ <<c, i>>[2] = i
        OBVIOUS
    <3> QED
        BY <3>1 DEF RowsOf, Now
  <2>4. \A i, e : Item(e, i)' = Item(e, i)
      BY SameInput
  <2>5. \A r : r \in outbox' <=> r \in requests' /\ ~Item(r[1], r[2])'.future
      BY <1>1, <2>2, <2>3, <2>4
  <2> QED
      BY <2>1, <2>5 DEF RequestsComplete
<1> QED
    BY <1>4, <1>5

\* The count of a batch is set with its rows.
LEMMA CommitTotals ==
    ASSUME SubmissionInv, NEW c \in Calls, pc[c] = "commit", applyTx(c)
    PROVE  TotalsAgree' /\ total' \in [Calls -> Nat]
<1> DEFINE R == tx[c].requests
<1>1. /\ requests' = requests \cup RowsOf(c, R)
      /\ batches' = batches \cup IF tx[c].batch THEN {c} ELSE {}
      /\ total' = [total EXCEPT ![c] = tx[c].total]
    BY CommitHolds DEF applyTx
<1>2. total \in [Calls -> Nat] /\ tx[c].total \in Nat
    BY CommitHolds DEF SubmissionInv, Shape
<1>3. \A r \in RowsOf(c, R) : r[1] = c
    BY DEF RowsOf
<1>4. \A r \in requests : r[1] # c
    BY DEF SubmissionInv, TableRows
<1>5. ASSUME NEW b \in batches'
      PROVE  total'[b] = Cardinality({r \in requests' : r[1] = b})
  <2>1. CASE b = c
    <3>1. ~Single(c)
        BY <1>1, <1>5, <2>1, CommitHolds DEF SubmissionInv, TableRows
    <3>2. {r \in requests' : r[1] = b} = RowsOf(c, R)
        BY <1>1, <1>3, <1>4, <2>1
    <3>3. Cardinality(RowsOf(c, R)) = Cardinality(R)
        BY InsertedFinite, RowsCount DEF Inserting
    <3>4. total'[c] = Cardinality(R)
        BY <1>1, <1>2, <3>1, CommitHolds
    <3> QED
        BY <2>1, <3>2, <3>3, <3>4
  <2>2. CASE b # c
    <3>1. b \in batches /\ b \in Calls
        BY <1>1, <1>5, <2>2 DEF SubmissionInv, TableRows
    <3>2. {r \in requests' : r[1] = b} = {r \in requests : r[1] = b}
        BY <1>1, <1>3, <2>2
    <3>3. total'[b] = total[b]
        BY <1>1, <1>2, <2>2, <3>1
    <3> QED
        BY <3>1, <3>2, <3>3 DEF SubmissionInv, TotalsAgree
  <2> QED
      BY <2>1, <2>2
<1> QED
    BY <1>1, <1>2, <1>5 DEF TotalsAgree

\* The rows stay those that were made, and the caller's own row is found.
LEMMA CommitKeys ==
    ASSUME SubmissionInv, NEW c \in Calls, pc[c] = "commit", applyTx(c), input' = input
    PROVE  /\ KeysUnique' /\ OwnRow(c) \in Existing(c)'
           /\ requests \subseteq requests' /\ batches \subseteq batches'
<1> DEFINE R == tx[c].requests
<1>1. /\ requests' = requests \cup RowsOf(c, R)
      /\ batches' = batches \cup IF tx[c].batch THEN {c} ELSE {}
      /\ tx' = [tx EXCEPT ![c] = NoTx]
    BY CommitHolds DEF applyTx, rollback
<1>2. tx'[c] = NoTx /\ \A e \in Calls \ {c} : tx'[e] = tx[e]
    BY <1>1, TxShape, NoTxType DEF SubmissionInv
<1>3. NoTx.requests = {} /\ NoTx.batch = FALSE
    BY DEF NoTx
<1>4. R \subseteq Nat
    BY DEF SubmissionInv, Shape, TxType
<1>5. Made' \subseteq Made
  <2>1. RowsOf(c, R) \subseteq Made
      BY <1>4 DEF RowsOf, Made
  <2>2. \A r \in Calls \X Nat : r[2] \in tx'[r[1]].requests => r[2] \in tx[r[1]].requests
      BY <1>2, <1>3
  <2> QED
      BY <1>1, <2>1, <2>2 DEF Made
<1>6. MadeBatches' \subseteq MadeBatches
  <2>1. \A e \in Calls : tx'[e].batch => tx[e].batch
      BY <1>2, <1>3
  <2> QED
      BY <1>1, <2>1 DEF MadeBatches
<1>7. KeysUnique'
    BY <1>5, <1>6, KeysShrink DEF SubmissionInv
<1>8. OwnRow(c) \in Existing(c)'
  <2>1. CASE Single(c)
    <3>1. OwnRow(c) = <<c, 1>> /\ ItemKey(c, 1) = CallKey(c)
        BY <2>1 DEF OwnRow, ItemKey
    <3>2. <<c, 1>> \in requests'
        BY <1>1, <2>1, CommitHolds DEF RowsOf
    <3>3. Single(c)' /\ Existing(c)' = RequestsWith(userID(c), CallKey(c))'
        BY <2>1, SameInput DEF Existing
    <3>4. userID(c)' = userID(c) /\ ItemKey(c, 1)' = CallKey(c) /\ CallKey(c)' = CallKey(c)
        BY <3>1, SameInput
    <3> QED
        BY <3>1, <3>2, <3>3, <3>4 DEF RequestsWith
  <2>2. CASE ~Single(c)
    <3>1. OwnRow(c) = <<c, 0>> /\ c \in batches'
        BY <1>1, <2>2, CommitHolds DEF OwnRow
    <3>2. ~Single(c)' /\ Existing(c)' = {<<b, 0>> : b \in BatchesWith(userID(c), CallKey(c))'}
        BY <2>2, SameInput DEF Existing
    <3> QED
        BY <3>1, <3>2 DEF BatchesWith
  <2> QED
      BY <2>1, <2>2
<1> QED
    BY <1>1, <1>7, <1>8

\* commit and commitAnswerLost.
LEMMA CommitInv ==
    ASSUME SubmissionInv, NEW c \in Calls, pc[c] = "commit", applyTx(c), input' = input,
           FewErrors', NEW status \in {202, 500}, NEW row \in {NoRow, OwnRow(c)},
           reply(c, status, row), status = 202 => row = OwnRow(c)
    PROVE  SubmissionInv'
<1>1. Shape /\ "done" \in Steps /\ goto(c, "done") /\ tx' = [tx EXCEPT ![c] = NoTx]
    BY DEF SubmissionInv, Steps, reply, applyTx, rollback
<1>2. /\ pc' \in [Calls -> Steps] /\ pc'[c] = "done"
      /\ \A e \in Calls \ {c} : pc'[e] = pc[e]
    BY <1>1, PcShape
<1>3. /\ tx' \in [Calls -> TxType] /\ tx'[c] = NoTx
      /\ \A e \in Calls \ {c} : tx'[e] = tx[e]
    BY <1>1, TxShape, NoTxType
<1>4. /\ answer' \in [Calls -> AnswerType] /\ answer'[c].status = status
      /\ answer'[c].row = row /\ \A e \in Calls \ {c} : answer'[e] = answer[e]
  <2>1. row \in {NoRow} \cup (Calls \X Nat) /\ status \in Nat
      BY DEF OwnRow
  <2> QED
      BY <1>1, <2>1, AnswerShape
<1>5. TotalsAgree' /\ total' \in [Calls -> Nat]
    BY CommitTotals
<1>6. Shape'
    BY <1>1, <1>2, <1>3, <1>4, <1>5 DEF Shape
<1>7. TableRows' /\ RequestsComplete'
    BY <1>2, CommitTables
<1>8. /\ KeysUnique' /\ OwnRow(c) \in Existing(c)'
      /\ requests \subseteq requests' /\ batches \subseteq batches'
    BY CommitKeys
<1>9. \A e \in Calls \ {c} : TxRows(e)' /\ Told(e)'
  <2>1. CallFrame(c)
      BY <1>2, <1>3, <1>4 DEF CallFrame
  <2> QED
      BY <1>8, <2>1, CallBystander DEF SubmissionInv
<1>10. TxRows(c)'
    BY <1>2, <1>3 DEF TxRows, Inserting
<1>11. Told(c)'
  <2>1. OwnRow(c)' = OwnRow(c)
      BY SameInput
  <2> QED
      BY <1>2, <1>4, <1>8, <2>1 DEF Told, Accepted
<1> QED
    BY <1>5, <1>6, <1>7, <1>8, <1>9, <1>10, <1>11 DEF SubmissionInv

\* commit and commitAnswerLost as steps of a call.
LEMMA CommitStepInv ==
    ASSUME SubmissionInv, NEW c \in Calls, commit(c) \/ commitAnswerLost(c)
    PROVE  SubmissionInv'
<1>1. /\ pc[c] = "commit" /\ applyTx(c) /\ input' = input /\ FewErrors
    BY DEF commit, commitAnswerLost, SubmissionInv, Shape
<1>2. CASE commit(c)
  <2>1. reply(c, 202, OwnRow(c)) /\ FewErrors'
      BY <1>1, <1>2 DEF commit, OwnRow, FewErrors
  <2> QED
      BY <1>1, <2>1, CommitInv
<1>3. CASE commitAnswerLost(c)
  <2>1. reply(c, 500, NoRow)
      BY <1>3, ErrorStatus DEF commitAnswerLost
  <2>2. FewErrors'
      BY <1>1, <1>3, SubmissionAssumption DEF commitAnswerLost, Failing, FewErrors
  <2> QED
      BY <1>1, <2>1, <2>2, CommitInv
<1> QED
    BY <1>2, <1>3

\* statementFails and the victim of a deadlock.
LEMMA AbortInv ==
    ASSUME SubmissionInv, NEW c \in Calls, pc[c] # "done", UNCHANGED <<input, tableVars>>,
           FewErrors', rollback(c), reply(c, writeError("other"), NoRow)
    PROVE  SubmissionInv'
<1>1. reply(c, 500, NoRow) /\ 500 \in Nat \ {202, 409}
    BY ErrorStatus
<1> QED
    BY <1>1, ReplyStep

LEMMA StatementFailsInv ==
    ASSUME SubmissionInv, NEW c \in Calls, statementFails(c)
    PROVE  SubmissionInv'
<1>1. FewErrors'
    BY SubmissionAssumption DEF statementFails, Failing, FewErrors, SubmissionInv, Shape
<1> QED
    BY <1>1, AbortInv DEF statementFails

LEMMA DeadlockInv ==
    ASSUME SubmissionInv, deadlockDetected
    PROVE  SubmissionInv'
<1>1. PICK S \in SUBSET Calls : \E c \in S :
         /\ Deadlocked(S) /\ rollback(c) /\ reply(c, writeError("other"), NoRow)
         /\ UNCHANGED <<input, tableVars, errors>>
    BY DEF deadlockDetected
<1>2. PICK c \in S :
         /\ Deadlocked(S) /\ rollback(c) /\ reply(c, writeError("other"), NoRow)
         /\ UNCHANGED <<input, tableVars, errors>>
    BY <1>1
<1>3. WaitsFor(c) # {}
    BY <1>2 DEF Deadlocked
<1>4. pc[c] # "done"
    BY <1>3, Zenon DEF WaitsFor
<1>5. FewErrors'
    BY <1>2 DEF FewErrors, SubmissionInv, Shape
<1> QED
    BY <1>2, <1>4, <1>5, AbortInv

-----------------------------------------------------------------------------
(* The theorems.                                                           *)

LEMMA SubmissionInit ==
    ASSUME Init
    PROVE  SubmissionInv
<1>1. FewErrors /\ NoAnswer \in AnswerType
    BY SubmissionAssumption DEF Init, FewErrors, NoAnswer, AnswerType
<1>2. Shape
    BY <1>1, NoTxType DEF Init, Shape, Steps
<1>3. TableRows /\ RequestsComplete /\ TotalsAgree
    BY DEF Init, TableRows, RequestsComplete, TotalsAgree
<1>4. \A c \in Calls : tx[c] = NoTx /\ pc[c] = "receive" /\ answer[c] = NoAnswer
    BY DEF Init
<1>5. \A c \in Calls : TxRows(c)
    BY <1>4 DEF TxRows, Inserting
<1>6. \A c \in Calls : Told(c)
    BY <1>4 DEF Told, Accepted, NoAnswer
<1>7. KeysUnique
  <2>1. NoTx.requests = {} /\ NoTx.batch = FALSE
      BY DEF NoTx
  <2>2. Made = {} /\ MadeBatches = {}
      BY <1>4, <2>1 DEF Init, Made, MadeBatches
  <2> QED
      BY <2>2 DEF KeysUnique
<1> QED
    BY <1>2, <1>3, <1>5, <1>6, <1>7 DEF SubmissionInv

LEMMA SubmissionStutter ==
    ASSUME SubmissionInv, UNCHANGED vars
    PROVE  SubmissionInv'
<1>1. UNCHANGED <<input, pc, answer, tx, requests, deliveries, outbox, batches, total, errors>>
    BY DEF vars, tableVars
<1>2. Shape' /\ TableRows' /\ RequestsComplete' /\ TotalsAgree'
    BY <1>1 DEF SubmissionInv, Shape, FewErrors, TableRows, Single, RequestsComplete, Item,
                TotalsAgree
<1>3. KeysUnique'
  <2>1. Made' \subseteq Made /\ MadeBatches' \subseteq MadeBatches
      BY <1>1 DEF Made, MadeBatches
  <2> QED
      BY <1>1, <2>1, KeysShrink DEF SubmissionInv
<1>4. \A e \in Calls : TxRows(e)'
    BY <1>1 DEF SubmissionInv, TxRows, Items, Single, Item, Now
<1>5. \A e \in Calls : Told(e)'
  <2>1. \A e : Existing(e) \subseteq Existing(e)' /\ OwnRow(e)' = OwnRow(e)
      BY <1>1, ExistingGrows, SameInput
  <2>2. \A e, i : Render(Item(e, i))' = Render(Item(e, i))
      BY <1>1 DEF Render, Item
  <2> QED
      BY <1>1, <2>1, <2>2 DEF SubmissionInv, Told, Accepted
<1> QED
    BY <1>2, <1>3, <1>4, <1>5 DEF SubmissionInv

LEMMA SubmissionStep == SubmissionInv /\ [Next]_vars => SubmissionInv'
<1> SUFFICES ASSUME SubmissionInv, [Next]_vars PROVE SubmissionInv'
    OBVIOUS
<1>1. ASSUME NEW c \in Calls, handle(c) PROVE SubmissionInv'
    BY <1>1, ReceiveInv, LookupInv, BuildInv, InsertBatchInv, InsertRequestInv,
       InsertOnConflictInv, InsertDeliveryInv, InsertOutboxInv, UpdateCountsInv,
       CommitStepInv DEF handle
<1>2. ASSUME NEW c \in Calls, statementFails(c) PROVE SubmissionInv'
    BY <1>2, StatementFailsInv
<1>3. ASSUME NEW c \in Calls, commitAnswerLost(c) PROVE SubmissionInv'
    BY <1>3, CommitStepInv
<1>4. CASE deadlockDetected
    BY <1>4, DeadlockInv
<1>5. CASE UNCHANGED vars
    BY <1>5, SubmissionStutter
<1> QED
    BY <1>1, <1>2, <1>3, <1>4, <1>5 DEF Next

\* The transaction of every handler holds what its statements wrote, keys are
\* unique over committed and open transactions, and the tables are complete.
THEOREM SubmissionHolds == Spec => []SubmissionInv
<1>1. Init => SubmissionInv
    BY SubmissionInit
<1> QED
    BY <1>1, SubmissionStep, PTL DEF Spec

\* Every variable keeps the shape its table or struct gives it, and no call
\* makes more than maxBatchSize rows.
THEOREM SubmissionTypes == Spec => []TypeOK
<1>1. SubmissionInv => TypeOK
  <2> SUFFICES ASSUME SubmissionInv PROVE TypeOK
      OBVIOUS
  <2>1. requests \subseteq Rows /\ batches \subseteq Calls /\ pc \in [Calls -> Steps]
        /\ FewErrors
      BY DEF SubmissionInv, TableRows, Shape
  <2>2. deliveries \subseteq Rows /\ outbox \subseteq Rows
      BY <2>1 DEF SubmissionInv, RequestsComplete
  <2> QED
      BY <2>1, <2>2 DEF TypeOK, Steps, FewErrors
<1> QED
    BY <1>1, SubmissionHolds, PTL

\* "Duplicate idempotency keys return the existing notification": what any two
\* accepted calls of one user and key are told of is one committed row.
THEOREM DuplicatesAgree == Spec => []AnswersAgree
<1>1. SubmissionInv => AnswersAgree
  <2> SUFFICES ASSUME SubmissionInv, NEW c \in Calls, NEW e \in Calls, Accepted(c)
               PROVE  /\ userID(answer[c].row[1]) = userID(c)
                      /\ answer[c].row \in requests \cup {<<b, 0>> : b \in batches}
                      /\ (/\ Accepted(e) /\ userID(c) = userID(e)
                          /\ input[c].kind = input[e].kind
                          /\ CallKey(c) # NoKey /\ CallKey(c) = CallKey(e)) =>
                            /\ answer[c].row = answer[e].row
                            /\ c # e => {answer[c].status, answer[e].status} # {202}
      BY Zenon DEF AnswersAgree
  <2>1. \A d \in Calls : Accepted(d) => answer[d].row \in Existing(d)
      BY DEF SubmissionInv, Told
  <2>2. \A d \in Calls : \A r \in Existing(d) :
            /\ userID(r[1]) = userID(d)
            /\ r \in requests \cup {<<b, 0>> : b \in batches}
    <3> TAKE d \in Calls
    <3>1. CASE Single(d)
        BY <3>1 DEF Existing, RequestsWith
    <3>2. CASE ~Single(d)
      <4> TAKE r \in Existing(d)
      <4>1. PICK b \in batches : r = <<b, 0>> /\ userID(b) = userID(d)
          BY <3>2 DEF Existing, BatchesWith
      <4>2. r[1] = b
          BY <4>1
      <4> QED
          BY <4>1, <4>2
    <3> QED
        BY <3>1, <3>2
  <2>3. ASSUME Accepted(e), userID(c) = userID(e), input[c].kind = input[e].kind,
               CallKey(c) # NoKey, CallKey(c) = CallKey(e)
        PROVE  /\ answer[c].row = answer[e].row
               /\ c # e => {answer[c].status, answer[e].status} # {202}
    <3>1. answer[c].row \in Existing(c) /\ answer[e].row \in Existing(e)
        BY <2>1, <2>3
    <3>2. Single(c) <=> Single(e)
        BY <2>3 DEF Single
    <3>3. answer[c].row = answer[e].row
      <4>1. CASE Single(c)
        <5>1. \A q, r \in RequestsWith(userID(c), CallKey(c)) : q = r
            BY <2>3 DEF RequestsWith, SubmissionInv, KeysUnique, Made
        <5>2. Existing(c) = RequestsWith(userID(c), CallKey(c)) /\ Existing(e) = Existing(c)
            BY <2>3, <3>2, <4>1 DEF Existing
        <5> QED
            BY <3>1, <5>1, <5>2
      <4>2. CASE ~Single(c)
        <5>1. \A a, b \in BatchesWith(userID(c), CallKey(c)) : a = b
            BY <2>3 DEF BatchesWith, SubmissionInv, KeysUnique, MadeBatches
        <5>2. /\ Existing(c) = {<<b, 0>> : b \in BatchesWith(userID(c), CallKey(c))}
              /\ Existing(e) = Existing(c)
            BY <2>3, <3>2, <4>2 DEF Existing
        <5> QED
            BY <3>1, <5>1, <5>2
      <4> QED
          BY <4>1, <4>2
    <3>4. ASSUME c # e, {answer[c].status, answer[e].status} = {202} PROVE FALSE
      <4>1. answer[c].status = 202 /\ answer[e].status = 202
          BY <3>4
      <4>2. answer[c].row = OwnRow(c) /\ answer[e].row = OwnRow(e)
          BY <4>1 DEF SubmissionInv, Told
      <4>3. OwnRow(c)[1] = c /\ OwnRow(e)[1] = e
          BY DEF OwnRow
      <4> QED
          BY <3>3, <3>4, <4>2, <4>3
    <3> QED
        BY <3>3, <3>4
  <2> QED
      BY <2>1, <2>2, <2>3
<1> QED
    BY <1>1, SubmissionHolds, PTL

\* After ErrConflict the second look-up finds the winner: its transaction was
\* committed when the unique index refused the insert.
THEOREM LoserFindsWinner == Spec => []ConflictFindsWinner
<1>1. SubmissionInv => ConflictFindsWinner
    BY DEF SubmissionInv, Told, ConflictFindsWinner
<1> QED
    BY <1>1, SubmissionHolds, PTL

\* A committed request has its delivery, and its outbox row if it is due.
THEOREM SubmissionsComplete == Spec => []RequestsComplete
<1>1. SubmissionInv => RequestsComplete
    BY DEF SubmissionInv
<1> QED
    BY <1>1, SubmissionHolds, PTL

\* total_count is the number of requests of the batch.
THEOREM BatchTotals == Spec => []TotalsAgree
<1>1. SubmissionInv => TotalsAgree
    BY DEF SubmissionInv
<1> QED
    BY <1>1, SubmissionHolds, PTL
=============================================================================
