------------------------------ MODULE PoolProofs ------------------------------
(***************************************************************************)
(* Proofs about Pool for every set of messages, streams and goroutines and *)
(* every batch size.                                                       *)
(***************************************************************************)
EXTENDS Pool, FiniteSetTheorems, SequenceTheorems, TLAPS

-----------------------------------------------------------------------------
(* The elements of sequences.                                              *)

LEMMA ElementsOf ==
    ASSUME NEW M, NEW s \in Seq(M)
    PROVE  /\ ToSet(s) \subseteq M
           /\ \A x : x \in ToSet(s) <=> \E i \in 1..Len(s) : x = s[i]
    BY DEF ToSet

LEMMA AppendElements ==
    ASSUME NEW M, NEW s \in Seq(M), NEW m \in M
    PROVE  Append(s, m) \in Seq(M) /\ ToSet(Append(s, m)) = ToSet(s) \cup {m}
<1> DEFINE u == Append(s, m)
<1>1. /\ u \in Seq(M) /\ Len(u) = Len(s) + 1
      /\ \A i \in 1..Len(s) : u[i] = s[i]
      /\ u[Len(s) + 1] = m
    OBVIOUS
<1> HIDE DEF u
<1>2. Len(s) \in Nat
    OBVIOUS
<1>3. ASSUME NEW x PROVE x \in ToSet(u) <=> x \in ToSet(s) \/ x = m
  <2>1. x \in ToSet(u) => x \in ToSet(s) \/ x = m
      BY <1>1, <1>2, ElementsOf
  <2>2. x \in ToSet(s) => x \in ToSet(u)
    <3> SUFFICES ASSUME NEW i \in 1..Len(s), x = s[i]
                 PROVE  \E k \in 1..Len(u) : x = u[k]
        BY <1>1, ElementsOf
    <3>1. i \in 1..Len(u) /\ x = u[i]
        BY <1>1, <1>2
    <3> QED
        BY <3>1
  <2>3. m \in ToSet(u)
    <3>1. Len(s) + 1 \in 1..Len(u)
        BY <1>1, <1>2
    <3> QED
        BY <1>1, <3>1, ElementsOf
  <2> QED
      BY <2>1, <2>2, <2>3
<1> QED
    BY <1>1, <1>3 DEF u

LEMMA HeadTailElements ==
    ASSUME NEW M, NEW s \in Seq(M), s # <<>>
    PROVE  /\ Head(s) \in M /\ Tail(s) \in Seq(M) /\ Len(Tail(s)) = Len(s) - 1
           /\ ToSet(s) = {Head(s)} \cup ToSet(Tail(s))
<1> DEFINE u == Tail(s)
<1>1. /\ Head(s) = s[1] /\ u \in Seq(M) /\ Len(u) = Len(s) - 1
      /\ \A i \in 1..Len(u) : u[i] = s[i + 1]
      /\ Len(s) \in Nat /\ Len(s) > 0
    BY EmptySeq, HeadTailProperties
<1> HIDE DEF u
<1>2. 1 \in 1..Len(s)
    BY <1>1
<1>3. ASSUME NEW x PROVE x \in ToSet(s) <=> x = Head(s) \/ x \in ToSet(u)
  <2>1. ASSUME x \in ToSet(s), x # Head(s) PROVE x \in ToSet(u)
    <3>1. PICK i \in 1..Len(s) : x = s[i]
        BY <2>1, ElementsOf
    <3>2. i - 1 \in 1..Len(u) /\ i = (i - 1) + 1
        BY <1>1, <2>1, <3>1
    <3>3. x = u[i - 1]
        BY <1>1, <3>1, <3>2
    <3> QED
        BY <1>1, <3>2, <3>3, ElementsOf
  <2>2. ASSUME x \in ToSet(u) PROVE x \in ToSet(s)
    <3>1. PICK i \in 1..Len(u) : x = u[i]
        BY <1>1, <2>2, ElementsOf
    <3>2. i + 1 \in 1..Len(s) /\ x = s[i + 1]
        BY <1>1, <3>1
    <3> QED
        BY <3>2, ElementsOf
  <2>3. Head(s) \in ToSet(s)
      BY <1>1, <1>2, ElementsOf
  <2> QED
      BY <2>1, <2>2, <2>3
<1>4. Head(s) \in M
    BY <1>1, <1>2
<1> QED
    BY <1>1, <1>3, <1>4 DEF u

LEMMA ConcatElements ==
    ASSUME NEW M, NEW s \in Seq(M), NEW t \in Seq(M)
    PROVE  s \o t \in Seq(M) /\ ToSet(s \o t) = ToSet(s) \cup ToSet(t)
<1> DEFINE u == s \o t
<1>1. /\ u \in Seq(M) /\ Len(u) = Len(s) + Len(t)
      /\ \A i \in 1..Len(s) : u[i] = s[i]
      /\ \A i \in 1..Len(t) : u[Len(s) + i] = t[i]
      /\ Len(s) \in Nat /\ Len(t) \in Nat
    BY ConcatProperties
<1> HIDE DEF u
<1>2. ASSUME NEW x PROVE x \in ToSet(u) <=> x \in ToSet(s) \/ x \in ToSet(t)
  <2>1. ASSUME x \in ToSet(u) PROVE x \in ToSet(s) \/ x \in ToSet(t)
    <3>1. PICK i \in 1..Len(u) : x = u[i]
        BY <1>1, <2>1, ElementsOf
    <3>2. CASE i <= Len(s)
      <4>1. i \in 1..Len(s)
          BY <1>1, <3>2
      <4> QED
          BY <1>1, <3>1, <4>1, ElementsOf
    <3>3. CASE ~(i <= Len(s))
      <4>1. i - Len(s) \in 1..Len(t) /\ i = Len(s) + (i - Len(s))
          BY <1>1, <3>3
      <4>2. x = t[i - Len(s)]
          BY <1>1, <3>1, <4>1
      <4> QED
          BY <4>1, <4>2, ElementsOf
    <3> QED
        BY <3>2, <3>3
  <2>2. ASSUME x \in ToSet(s) PROVE x \in ToSet(u)
    <3>1. PICK i \in 1..Len(s) : x = s[i]
        BY <2>2, ElementsOf
    <3>2. i \in 1..Len(u) /\ x = u[i]
        BY <1>1, <3>1
    <3> QED
        BY <1>1, <3>2, ElementsOf
  <2>3. ASSUME x \in ToSet(t) PROVE x \in ToSet(u)
    <3>1. PICK i \in 1..Len(t) : x = t[i]
        BY <2>3, ElementsOf
    <3>2. Len(s) + i \in 1..Len(u) /\ x = u[Len(s) + i]
        BY <1>1, <3>1
    <3> QED
        BY <1>1, <3>2, ElementsOf
  <2> QED
      BY <2>1, <2>2, <2>3
<1> QED
    BY <1>1, <1>2 DEF u

\* A sequence cut in two.
LEMMA SplitElements ==
    ASSUME NEW M, NEW s \in Seq(M), NEW n \in 0..Len(s)
    PROVE  /\ SubSeq(s, 1, n) \in Seq(M) /\ SubSeq(s, n + 1, Len(s)) \in Seq(M)
           /\ Len(SubSeq(s, 1, n)) = n
           /\ ToSet(s) = ToSet(SubSeq(s, 1, n)) \cup ToSet(SubSeq(s, n + 1, Len(s)))
<1> DEFINE a == SubSeq(s, 1, n)
           b == SubSeq(s, n + 1, Len(s))
<1>1. /\ a \in Seq(M) /\ Len(a) = n /\ \A i \in 1..n : a[i] = s[i]
    OBVIOUS
<1>2. /\ b \in Seq(M) /\ Len(b) = Len(s) - n
      /\ \A i \in 1..(Len(s) - n) : b[i] = s[n + i]
    OBVIOUS
<1> HIDE DEF a, b
<1>3. ASSUME NEW x PROVE x \in ToSet(s) <=> x \in ToSet(a) \/ x \in ToSet(b)
  <2>1. ASSUME x \in ToSet(s) PROVE x \in ToSet(a) \/ x \in ToSet(b)
    <3>1. PICK i \in 1..Len(s) : x = s[i]
        BY <2>1, ElementsOf
    <3>2. CASE i <= n
      <4>1. i \in 1..n
          BY <3>2
      <4> QED
          BY <1>1, <3>1, <4>1, ElementsOf
    <3>3. CASE ~(i <= n)
      <4>1. i - n \in 1..(Len(s) - n) /\ i = n + (i - n)
          BY <3>3
      <4>2. x = b[i - n]
          BY <1>2, <3>1, <4>1
      <4> QED
          BY <1>2, <4>1, <4>2, ElementsOf
    <3> QED
        BY <3>2, <3>3
  <2>2. ASSUME x \in ToSet(a) PROVE x \in ToSet(s)
    <3>1. PICK i \in 1..n : x = a[i]
        BY <1>1, <2>2, ElementsOf
    <3>2. i \in 1..Len(s) /\ x = s[i]
        BY <1>1, <3>1
    <3> QED
        BY <3>2, ElementsOf
  <2>3. ASSUME x \in ToSet(b) PROVE x \in ToSet(s)
    <3>1. PICK i \in 1..(Len(s) - n) : x = b[i]
        BY <1>2, <2>3, ElementsOf
    <3>2. n + i \in 1..Len(s) /\ x = s[n + i]
        BY <1>2, <3>1
    <3> QED
        BY <3>2, ElementsOf
  <2> QED
      BY <2>1, <2>2, <2>3
<1> QED
    BY <1>1, <1>2, <1>3 DEF a, b

-----------------------------------------------------------------------------
(* FlattenSeq, by least counterexamples.                                   *)

LEMMA LeastNumber ==
    ASSUME NEW S \in SUBSET Nat, S # {}
    PROVE  \E x \in S : \A y \in S : x <= y
<1>1. IsWellFoundedOn(OpToRel(<, Nat), Nat)
    BY NatLessThanWellFounded
<1>2. PICK x \in S : \A y \in S : <<y, x>> \notin OpToRel(<, Nat)
    BY <1>1, WFMin
<1>3. \A y \in S : x <= y
  <2> TAKE y \in S
  <2>1. <<y, x>> \notin OpToRel(<, Nat)
      BY <1>2
  <2>2. ~(y < x)
      BY <2>1 DEF OpToRel
  <2> QED
      BY <2>2
<1> QED
    BY <1>3

\* g is the recursive function of FlattenSeq, up to n.
Flattens(g, ss, n) == g = [i \in 1..n |-> IF i = 1 THEN ss[i] ELSE g[i - 1] \o ss[i]]

LEMMA FlattenMore ==
    ASSUME NEW ss, NEW n \in Nat, NEW g, Flattens(g, ss, n)
    PROVE  \E h : Flattens(h, ss, n + 1)
<1> DEFINE h == [i \in 1..(n + 1) |-> IF i = 1 THEN ss[i] ELSE g[i - 1] \o ss[i]]
<1>1. \A i \in 1..(n + 1) : h[i] = IF i = 1 THEN ss[i] ELSE g[i - 1] \o ss[i]
    OBVIOUS
<1>2. \A i \in 1..n : g[i] = IF i = 1 THEN ss[i] ELSE g[i - 1] \o ss[i]
    BY DEF Flattens
<1>3. \A i \in 1..n : h[i] = g[i]
  <2> TAKE i \in 1..n
  <2>1. i \in 1..(n + 1)
      OBVIOUS
  <2> QED
      BY <1>1, <1>2, <2>1
<1>4. \A i \in 1..(n + 1) :
          (IF i = 1 THEN ss[i] ELSE g[i - 1] \o ss[i])
              = (IF i = 1 THEN ss[i] ELSE h[i - 1] \o ss[i])
  <2> TAKE i \in 1..(n + 1)
  <2>1. CASE i = 1
      BY <2>1
  <2>2. CASE i # 1
    <3>1. i - 1 \in 1..n
        BY <2>2
    <3>2. h[i - 1] = g[i - 1]
        BY <1>3, <3>1
    <3> QED
        BY <2>2, <3>2
  <2> QED
      BY <2>1, <2>2
<1>5. Flattens(h, ss, n + 1)
    BY <1>4 DEF Flattens
<1> QED
    BY <1>5

LEMMA FlattenExists ==
    ASSUME NEW ss, NEW n \in Nat
    PROVE  \E g : Flattens(g, ss, n)
<1> DEFINE Bad == {k \in Nat : ~\E g : Flattens(g, ss, k)}
<1> SUFFICES ASSUME Bad # {} PROVE FALSE
    OBVIOUS
<1>1. PICK k \in Bad : \A y \in Bad : k <= y
    BY LeastNumber
<1>2. CASE k = 0
  <2>1. Flattens([i \in 1..0 |-> ss[i]], ss, 0)
      BY DEF Flattens
  <2> QED
      BY <1>1, <1>2, <2>1
<1>3. CASE k # 0
  <2>1. k - 1 \in Nat /\ (k - 1) + 1 = k
      BY <1>3
  <2>2. \E g : Flattens(g, ss, k - 1)
      BY <1>1, <2>1
  <2>3. \E g : Flattens(g, ss, (k - 1) + 1)
      BY <2>1, <2>2, FlattenMore
  <2> QED
      BY <1>1, <2>1, <2>3
<1> QED
    BY <1>2, <1>3

\* FlattenSeq has the elements of all its sequences and no others.
LEMMA FlattenElements ==
    ASSUME NEW M, NEW ss \in Seq(Seq(M))
    PROVE  /\ FlattenSeq(ss) \in Seq(M)
           /\ \A x : x \in ToSet(FlattenSeq(ss)) <=> \E i \in 1..Len(ss) : x \in ToSet(ss[i])
<1>1. CASE Len(ss) = 0
  <2>1. ss = <<>> /\ FlattenSeq(ss) = ss
      BY <1>1, EmptySeq DEF FlattenSeq
  <2>2. <<>> \in Seq(M) /\ ToSet(<<>>) = {}
      BY DEF ToSet
  <2>3. FlattenSeq(ss) \in Seq(M) /\ ToSet(FlattenSeq(ss)) = {}
      BY <2>1, <2>2
  <2>4. ~\E i \in 1..Len(ss) : TRUE
      BY <1>1
  <2> QED
      BY <2>3, <2>4
<1>2. CASE Len(ss) # 0
  <2> DEFINE n == Len(ss)
             f == CHOOSE g : g = [i \in 1..Len(ss) |->
                                     IF i = 1 THEN ss[i] ELSE g[i - 1] \o ss[i]]
  <2>1. n \in Nat /\ n >= 1 /\ \A i \in 1..n : ss[i] \in Seq(M)
      BY <1>2
  <2>2. FlattenSeq(ss) = f[n]
      BY <1>2 DEF FlattenSeq
  <2>3. \E g : g = [i \in 1..Len(ss) |-> IF i = 1 THEN ss[i] ELSE g[i - 1] \o ss[i]]
      BY <2>1, FlattenExists DEF Flattens
  <2>4. f = [i \in 1..Len(ss) |-> IF i = 1 THEN ss[i] ELSE f[i - 1] \o ss[i]]
      BY <2>3
  <2> HIDE DEF f
  <2>5. \A i \in 1..n : f[i] = IF i = 1 THEN ss[i] ELSE f[i - 1] \o ss[i]
      BY <2>4
  <2> DEFINE Good(k) == /\ f[k] \in Seq(M)
                        /\ \A x : x \in ToSet(f[k]) <=> \E i \in 1..k : x \in ToSet(ss[i])
             Bad == {k \in 1..n : ~Good(k)}
  <2>6. Good(1)
    <3>1. f[1] = ss[1] /\ 1..1 = {1}
        BY <2>1, <2>5
    <3> QED
        BY <2>1, <3>1
  <2>7. ASSUME NEW k \in 1..n, k # 1, Good(k - 1) PROVE Good(k)
    <3>1. f[k] = f[k - 1] \o ss[k] /\ ss[k] \in Seq(M) /\ f[k - 1] \in Seq(M)
        BY <2>1, <2>5, <2>7
    <3>2. f[k] \in Seq(M) /\ ToSet(f[k]) = ToSet(f[k - 1]) \cup ToSet(ss[k])
        BY <3>1, ConcatElements
    <3>3. 1..k = (1..(k - 1)) \cup {k}
        BY <2>7
    <3> QED
        BY <2>7, <3>2, <3>3
  <2> HIDE DEF Good
  <2>8. Bad = {}
    <3> SUFFICES ASSUME Bad # {} PROVE FALSE
        OBVIOUS
    <3>0. Bad \in SUBSET Nat
        BY <2>1
    <3>1. PICK k \in Bad : \A y \in Bad : k <= y
        BY <3>0, LeastNumber
    <3>2. k # 1
        BY <2>6, <3>1
    <3>3. k - 1 \in 1..n /\ k - 1 \notin Bad
        BY <3>1, <3>2
    <3> QED
        BY <2>7, <3>1, <3>2, <3>3
  <2>9. Good(n)
      BY <2>1, <2>8
  <2> QED
      BY <2>2, <2>9 DEF Good
<1> QED
    BY <1>1, <1>2

-----------------------------------------------------------------------------
(* The inductive invariant.                                                *)

Places == {"ensure", "check", "read", "backoff", "feed", "close", "wait", "stopped", "exited"}

Few == Len(jobs) <= ChannelSize

Shape ==
    /\ stop \in BOOLEAN /\ closed \in BOOLEAN /\ pc \in Places
    /\ unread \in [ToSet(Streams) -> Seq(Messages)]
    /\ pending \subseteq Messages /\ dead \subseteq Messages /\ published \subseteq Messages
    /\ swallowed \subseteq Messages /\ processed \subseteq Messages
    /\ held \in Seq(Messages) /\ jobs \in Seq(Messages) /\ Few
    /\ working \in [Goroutines -> SUBSET Messages]
    /\ \A g \in Goroutines : working[g] = {} \/ \E m \in Messages : working[g] = {m}
    /\ returned \subseteq Goroutines

\* The worker has done nothing yet, and never will if it has no groups.
Untouched ==
    /\ jobs = <<>> /\ pending = {} /\ ~closed
    /\ \A g \in Goroutines : working[g] = {}

\* Where the reader stands tells what it holds and what is closed.
ReaderInv ==
    /\ pc \in {"ensure", "check", "read", "backoff"} => held = <<>>
    /\ closed => pc \in {"wait", "stopped", "exited"}
    /\ pc = "ensure" => Untouched
    /\ pc \in {"stopped", "exited"} => returned = Goroutines \/ Untouched

\* A goroutine that returned found the channel closed and drained.
ReturnedInv == \A g \in returned : working[g] = {} /\ closed /\ jobs = <<>>

\* Every handed out entry that decodes and was not processed is somewhere.
InFlight ==
    \A m \in pending \ (processed \cup Poison) :
        \/ m \in ToSet(held) \/ m \in ToSet(jobs) \/ m \in swallowed
        \/ \E g \in Goroutines : m \in working[g]

PoolInv == Shape /\ ReaderInv /\ ReturnedInv /\ InFlight /\ AckedAfterProcess

-----------------------------------------------------------------------------
(* Steps of the reader that only move on, and the signal.                  *)

LEMMA MoveOn ==
    ASSUME PoolInv, UNCHANGED <<held, queueVars, poolVars>>,
           stop' \in BOOLEAN, pc' \in Places, ReaderInv'
    PROVE  PoolInv'
<1>1. UNCHANGED <<held, unread, pending, dead, published, swallowed, jobs, closed, working,
                  returned, processed>>
    BY DEF queueVars, poolVars
<1>2. Shape'
    BY <1>1 DEF PoolInv, Shape, Few
<1>3. ReturnedInv' /\ InFlight' /\ AckedAfterProcess'
    BY <1>1 DEF PoolInv, ReturnedInv, InFlight, AckedAfterProcess
<1> QED
    BY <1>2, <1>3 DEF PoolInv

LEMMA SameTouch ==
    ASSUME UNCHANGED poolVars, pending' = pending
    PROVE  Untouched' <=> Untouched
<1>1. UNCHANGED <<jobs, closed, working, pending>>
    BY DEF poolVars
<1> QED
    BY <1>1 DEF Untouched

LEMMA SignalInv ==
    ASSUME PoolInv, Signal
    PROVE  PoolInv'
<1>1. /\ UNCHANGED <<held, queueVars, poolVars>> /\ stop' \in BOOLEAN /\ pc' = pc
      /\ closed' = closed /\ returned' = returned /\ pending' = pending
    BY DEF Signal, readerVars, poolVars, queueVars
<1>2. ReaderInv'
    BY <1>1, SameTouch DEF PoolInv, ReaderInv
<1> QED
    BY <1>1, <1>2, MoveOn DEF PoolInv, Shape

\* The steps of the main goroutine other than those that read, feed and close.
LEMMA MovesInv ==
    ASSUME PoolInv, EnsureGroups \/ CheckContext \/ Backoff \/ Fed \/ Abandon \/ Wait \/ Exit
    PROVE  PoolInv'
<1>1. /\ UNCHANGED <<held, queueVars, poolVars>> /\ stop' = stop
      /\ held' = held /\ closed' = closed /\ returned' = returned /\ pending' = pending
    BY DEF EnsureGroups, CheckContext, Backoff, Fed, Abandon, Wait, Exit, Goto, poolVars,
           queueVars
<1>2. stop' \in BOOLEAN
    BY <1>1 DEF PoolInv, Shape
<1>3. Untouched' <=> Untouched
    BY <1>1, SameTouch
<1>4. CASE EnsureGroups
  <2>1. pc = "ensure" /\ pc' \in {"check", "stopped"}
      BY <1>4 DEF EnsureGroups, Goto
  <2>2. held = <<>> /\ Untouched /\ ~closed
      BY <2>1 DEF PoolInv, ReaderInv, Untouched
  <2>3. ReaderInv' /\ pc' \in Places
      BY <1>1, <1>3, <2>1, <2>2 DEF ReaderInv, Places
  <2> QED
      BY <1>1, <1>2, <2>3, MoveOn
<1>5. CASE CheckContext \/ Backoff
  <2>1. pc \in {"check", "backoff"} /\ pc' \in {"check", "read", "close"}
      BY <1>5 DEF CheckContext, Backoff, Goto
  <2>2. held = <<>> /\ ~closed
      BY <2>1 DEF PoolInv, ReaderInv
  <2>3. ReaderInv' /\ pc' \in Places
      BY <1>1, <2>1, <2>2 DEF ReaderInv, Places
  <2> QED
      BY <1>1, <1>2, <2>3, MoveOn
<1>6. CASE Fed
  <2>1. pc = "feed" /\ pc' = "check" /\ held = <<>>
      BY <1>6 DEF Fed, Goto
  <2>2. ~closed
      BY <2>1 DEF PoolInv, ReaderInv
  <2>3. ReaderInv' /\ pc' \in Places
      BY <1>1, <2>1, <2>2 DEF ReaderInv, Places
  <2> QED
      BY <1>1, <1>2, <2>3, MoveOn
<1>7. CASE Abandon
  <2>1. pc = "feed" /\ pc' = "close"
      BY <1>7 DEF Abandon, Goto
  <2>2. ~closed
      BY <2>1 DEF PoolInv, ReaderInv
  <2>3. ReaderInv' /\ pc' \in Places
      BY <1>1, <2>1, <2>2 DEF ReaderInv, Places
  <2> QED
      BY <1>1, <1>2, <2>3, MoveOn
<1>8. CASE Wait
  <2>1. pc = "wait" /\ pc' = "stopped" /\ returned = Goroutines
      BY <1>8 DEF Wait, AllReturned, Goto
  <2>2. ReaderInv' /\ pc' \in Places
      BY <1>1, <2>1 DEF ReaderInv, Places
  <2> QED
      BY <1>1, <1>2, <2>2, MoveOn
<1>9. CASE Exit
  <2>1. pc = "stopped" /\ pc' = "exited"
      BY <1>9 DEF Exit, Goto
  <2>2. returned = Goroutines \/ Untouched
      BY <2>1 DEF PoolInv, ReaderInv
  <2>3. ReaderInv' /\ pc' \in Places
      BY <1>1, <1>3, <2>1, <2>2 DEF ReaderInv, Places
  <2> QED
      BY <1>1, <1>2, <2>3, MoveOn
<1> QED
    BY <1>4, <1>5, <1>6, <1>7, <1>8, <1>9

\* close(jobs).
LEMMA CloseInv ==
    ASSUME PoolInv, CloseJobs
    PROVE  PoolInv'
<1>1. /\ pc = "close" /\ pc' = "wait" /\ closed' = TRUE
      /\ UNCHANGED <<held, unread, pending, dead, published, swallowed, jobs, working,
                     returned, processed, stop>>
    BY DEF CloseJobs, Goto, queueVars
<1>2. Shape'
    BY <1>1 DEF PoolInv, Shape, Few, Places
<1>3. ReaderInv'
    BY <1>1 DEF ReaderInv
<1>4. ReturnedInv' /\ InFlight' /\ AckedAfterProcess'
    BY <1>1 DEF PoolInv, ReturnedInv, InFlight, AckedAfterProcess
<1> QED
    BY <1>2, <1>3, <1>4 DEF PoolInv

\* XADD by the relay.
LEMMA PublishInv ==
    ASSUME PoolInv, NEW m \in Messages, Publish(m)
    PROVE  PoolInv'
<1> DEFINE s == StreamOf[m]
<1>1. /\ published' = published \cup {m}
      /\ unread' = [unread EXCEPT ![s] = Append(@, m)]
      /\ UNCHANGED <<held, pc, pending, dead, swallowed, jobs, working, closed, returned,
                     processed, stop>>
    BY DEF Publish, readerVars, poolVars
<1>2. s \in ToSet(Streams) /\ unread \in [ToSet(Streams) -> Seq(Messages)]
    BY PoolAssumption DEF PoolInv, Shape
<1>3. /\ Append(unread[s], m) \in Seq(Messages)
      /\ ToSet(Append(unread[s], m)) = ToSet(unread[s]) \cup {m}
    BY <1>2, AppendElements
<1>4. /\ unread' \in [ToSet(Streams) -> Seq(Messages)]
      /\ \A t \in ToSet(Streams) : ToSet(unread[t]) \subseteq ToSet(unread'[t])
      /\ m \in ToSet(unread'[s])
    BY <1>1, <1>2, <1>3
<1>5. Shape'
    BY <1>1, <1>4 DEF PoolInv, Shape, Few
<1>6. ReaderInv' /\ ReturnedInv' /\ InFlight'
    BY <1>1 DEF PoolInv, ReaderInv, Untouched, ReturnedInv, InFlight
<1>7. AckedAfterProcess'
  <2>1. \A k \in Messages : StreamOf[k] \in ToSet(Streams)
      BY PoolAssumption
  <2>2. published' \subseteq Messages
      BY <1>1 DEF PoolInv, Shape
  <2> QED
      BY <1>1, <1>4, <2>1, <2>2 DEF PoolInv, AckedAfterProcess
<1> QED
    BY <1>5, <1>6, <1>7 DEF PoolInv

-----------------------------------------------------------------------------
(* XREADGROUP.                                                             *)

\* What is handed out and what is left make up what was there.
LEMMA TakenElements ==
    ASSUME Shape, NEW s \in ToSet(Streams)
    PROVE  /\ Taken(s) \in Seq(Messages)
           /\ SubSeq(unread[s], Len(Taken(s)) + 1, Len(unread[s])) \in Seq(Messages)
           /\ ToSet(unread[s]) = ToSet(Taken(s))
                  \cup ToSet(SubSeq(unread[s], Len(Taken(s)) + 1, Len(unread[s])))
<1>1. unread[s] \in Seq(Messages) /\ Len(unread[s]) \in Nat /\ BatchSize \in Nat
    BY PoolAssumption DEF Shape
<1>2. PICK n \in 0..Len(unread[s]) : n = Min({BatchSize, Len(unread[s])})
  <2>1. \E x \in {BatchSize, Len(unread[s])} :
            x = Min({BatchSize, Len(unread[s])}) /\ x <= Len(unread[s])
      BY <1>1 DEF Min
  <2> QED
      BY <1>1, <2>1
<1>3. Taken(s) = SubSeq(unread[s], 1, n)
    BY <1>2 DEF Taken
<1>4. /\ SubSeq(unread[s], 1, n) \in Seq(Messages)
      /\ SubSeq(unread[s], n + 1, Len(unread[s])) \in Seq(Messages)
      /\ Len(SubSeq(unread[s], 1, n)) = n
      /\ ToSet(unread[s]) = ToSet(SubSeq(unread[s], 1, n))
             \cup ToSet(SubSeq(unread[s], n + 1, Len(unread[s])))
    BY <1>1, SplitElements
<1> QED
    BY <1>3, <1>4

\* A read delivers the entries of every stream.
LEMMA BatchElements ==
    ASSUME Shape
    PROVE  /\ Batch \in Seq(Messages)
           /\ \A s \in ToSet(Streams) : ToSet(Taken(s)) \subseteq ToSet(Batch)
<1> DEFINE ss == [i \in DOMAIN Streams |-> Taken(Streams[i])]
<1>1. DOMAIN Streams = 1..Len(Streams) /\ Len(Streams) \in Nat
    BY PoolAssumption
<1>2. \A i \in 1..Len(Streams) : Streams[i] \in ToSet(Streams)
    BY <1>1 DEF ToSet
<1>3. ss \in [1..Len(Streams) -> Seq(Messages)]
    BY <1>1, <1>2, TakenElements
<1>4. ss \in Seq(Seq(Messages)) /\ Len(ss) = Len(Streams)
    BY <1>1, <1>3
<1>5. /\ FlattenSeq(ss) \in Seq(Messages)
      /\ \A x : x \in ToSet(FlattenSeq(ss)) <=> \E i \in 1..Len(ss) : x \in ToSet(ss[i])
    BY <1>4, FlattenElements
<1>6. Batch = FlattenSeq(ss)
    BY DEF Batch
<1>7. ASSUME NEW s \in ToSet(Streams) PROVE ToSet(Taken(s)) \subseteq ToSet(Batch)
  <2>1. PICK i \in 1..Len(Streams) : s = Streams[i]
      BY <1>1, <1>7 DEF ToSet
  <2>2. i \in 1..Len(ss) /\ ss[i] = Taken(s)
      BY <1>1, <1>4, <2>1
  <2> HIDE DEF ss
  <2> QED
      BY <1>5, <1>6, <2>2
<1> QED
    BY <1>5, <1>6, <1>7

\* Decoding drops the poison entries and nothing else.
LEMMA DecodedElements ==
    ASSUME NEW b \in Seq(Messages)
    PROVE  Decoded(b) \in Seq(Messages) /\ ToSet(Decoded(b)) = ToSet(b) \ Poison
<1> DEFINE ss == [i \in DOMAIN b |-> IF b[i] \in Poison THEN <<>> ELSE <<b[i]>>]
<1>1. DOMAIN b = 1..Len(b) /\ Len(b) \in Nat /\ \A i \in 1..Len(b) : b[i] \in Messages
    OBVIOUS
<1>2. \A i \in 1..Len(b) : ss[i] = IF b[i] \in Poison THEN <<>> ELSE <<b[i]>>
    BY <1>1
<1>3. ss \in Seq(Seq(Messages)) /\ Len(ss) = Len(b)
  <2>1. \A i \in 1..Len(b) : ss[i] \in Seq(Messages)
    <3> TAKE i \in 1..Len(b)
    <3>1. <<>> \in Seq(Messages) /\ <<b[i]>> \in Seq(Messages)
        BY <1>1
    <3> QED
        BY <1>2, <3>1
  <2>2. ss \in [1..Len(b) -> Seq(Messages)]
      BY <1>1, <2>1
  <2> QED
      BY <1>1, <2>2
<1>4. Decoded(b) = FlattenSeq(ss)
    BY DEF Decoded
<1> HIDE DEF ss
<1>5. /\ Decoded(b) \in Seq(Messages)
      /\ \A x : x \in ToSet(Decoded(b)) <=> \E i \in 1..Len(b) : x \in ToSet(ss[i])
    BY <1>3, <1>4, FlattenElements
<1>6. \A x : \A i \in 1..Len(b) : x \in ToSet(ss[i]) <=> x = b[i] /\ x \notin Poison
  <2> TAKE x
  <2> TAKE i \in 1..Len(b)
  <2>1. ToSet(<<>>) = {} /\ ToSet(<<b[i]>>) = {b[i]}
      BY DEF ToSet
  <2> QED
      BY <1>2, <2>1
<1>7. \A x : x \in ToSet(b) <=> \E i \in 1..Len(b) : x = b[i]
    BY ElementsOf
<1>8. \A x : x \in ToSet(Decoded(b)) <=> x \in ToSet(b) /\ x \notin Poison
    BY <1>5, <1>6, <1>7
<1> QED
    BY <1>5, <1>8

\* The entries leave their streams for the batch.
LEMMA HandOutInv ==
    ASSUME Shape, HandOut
    PROVE  /\ unread' \in [ToSet(Streams) -> Seq(Messages)]
           /\ \A s \in ToSet(Streams) :
                  ToSet(unread[s]) \subseteq ToSet(unread'[s]) \cup ToSet(Batch)
<1>1. DOMAIN unread = ToSet(Streams)
    BY DEF Shape
<1>2. \A s \in ToSet(Streams) :
          unread'[s] = SubSeq(unread[s], Len(Taken(s)) + 1, Len(unread[s]))
    BY <1>1 DEF HandOut
<1>3. unread' \in [ToSet(Streams) -> Seq(Messages)]
    BY <1>1, TakenElements DEF HandOut
<1>4. ASSUME NEW s \in ToSet(Streams)
      PROVE  ToSet(unread[s]) \subseteq ToSet(unread'[s]) \cup ToSet(Batch)
    BY <1>2, <1>4, TakenElements, BatchElements
<1> QED
    BY <1>3, <1>4

\* No entry that decodes is lost by a hand-out: it is pending afterwards.
LEMMA HandedOut ==
    ASSUME PoolInv, HandOut, published' = published, processed' = processed,
           pending \subseteq pending', ToSet(Batch) \ Poison \subseteq pending'
    PROVE  AckedAfterProcess'
<1> SUFFICES ASSUME NEW m \in published \ Poison, m \notin pending', m \notin processed
             PROVE  m \in ToSet(unread'[StreamOf[m]])
    BY DEF AckedAfterProcess
<1>1. StreamOf[m] \in ToSet(Streams)
    BY PoolAssumption DEF PoolInv, Shape
<1>2. m \in ToSet(unread[StreamOf[m]]) /\ m \notin ToSet(Batch)
    BY DEF PoolInv, AckedAfterProcess
<1> QED
    BY <1>1, <1>2, HandOutInv DEF PoolInv

LEMMA ReadInv ==
    ASSUME PoolInv, Read
    PROVE  PoolInv'
<1>1. /\ pc = "read" /\ HandOut /\ held' = Decoded(Batch) /\ pc' = "feed"
      /\ UNCHANGED <<stop, published, swallowed, jobs, closed, working, returned, processed>>
    BY DEF Read, poolVars
<1>2. held = <<>> /\ ~closed /\ Shape
    BY <1>1 DEF PoolInv, ReaderInv
<1>3. PICK parked \in SUBSET (Poison \cap ToSet(Batch)),
           unacked \in SUBSET (Poison \cap ToSet(Batch)) :
          /\ dead' = dead \cup parked
          /\ pending' = pending \cup (ToSet(Batch) \ Poison) \cup unacked
    BY DEF Read, dropPoison
<1>4. /\ Batch \in Seq(Messages) /\ ToSet(Batch) \subseteq Messages
      /\ held' \in Seq(Messages) /\ ToSet(held') = ToSet(Batch) \ Poison
    BY <1>1, <1>2, BatchElements, DecodedElements, ElementsOf
<1>5. Shape'
    BY <1>1, <1>2, <1>3, <1>4, HandOutInv DEF Shape, Few, Places
<1>6. ReaderInv' /\ ReturnedInv'
    BY <1>1, <1>2 DEF PoolInv, ReaderInv, ReturnedInv
<1>7. InFlight'
  <2>1. ToSet(held) = {}
      BY <1>2 DEF ToSet
  <2> QED
      BY <1>1, <1>3, <1>4, <2>1 DEF PoolInv, InFlight
<1>8. AckedAfterProcess'
    BY <1>1, <1>3, HandedOut
<1> QED
    BY <1>5, <1>6, <1>7, <1>8 DEF PoolInv

LEMMA ReadFailsInv ==
    ASSUME PoolInv, ReadFails
    PROVE  PoolInv'
<1>1. /\ pc = "read" /\ held' = held /\ pc' \in {"close", "backoff"}
      /\ UNCHANGED <<stop, dead, published, jobs, closed, working, returned, processed>>
    BY DEF ReadFails, Goto, poolVars
<1>2. held = <<>> /\ ~closed /\ Shape
    BY <1>1 DEF PoolInv, ReaderInv
<1>3. ReaderInv' /\ ReturnedInv'
    BY <1>1, <1>2 DEF PoolInv, ReaderInv, ReturnedInv
<1>4. CASE HandOut /\ pending' = pending \cup ToSet(Batch)
           /\ swallowed' = swallowed \cup ToSet(Batch)
  <2>1. ToSet(Batch) \subseteq Messages
      BY <1>2, BatchElements, ElementsOf
  <2>2. Shape'
      BY <1>1, <1>2, <1>4, <2>1, HandOutInv DEF Shape, Few, Places
  <2>3. InFlight'
      BY <1>1, <1>4 DEF PoolInv, InFlight
  <2>4. AckedAfterProcess'
      BY <1>1, <1>4, HandedOut
  <2> QED
      BY <1>3, <2>2, <2>3, <2>4 DEF PoolInv
<1>5. CASE UNCHANGED <<unread, pending, swallowed>>
  <2>1. Shape' /\ InFlight' /\ AckedAfterProcess'
      BY <1>1, <1>5 DEF PoolInv, Shape, Few, Places, InFlight, AckedAfterProcess
  <2> QED
      BY <1>3, <2>1 DEF PoolInv
<1> QED
    BY <1>4, <1>5 DEF ReadFails

-----------------------------------------------------------------------------
(* The channel and the goroutines.                                         *)

LEMMA SendInv ==
    ASSUME PoolInv, Send
    PROVE  PoolInv'
<1>1. /\ pc = "feed" /\ held # <<>> /\ Len(jobs) < ChannelSize
      /\ jobs' = Append(jobs, Head(held)) /\ held' = Tail(held)
      /\ UNCHANGED <<stop, pc, unread, pending, dead, published, swallowed, closed, working,
                     returned, processed>>
    BY DEF Send, queueVars
<1>2. Shape /\ held \in Seq(Messages) /\ jobs \in Seq(Messages) /\ ~closed
    BY <1>1 DEF PoolInv, Shape, ReaderInv
<1>3. /\ Head(held) \in Messages /\ held' \in Seq(Messages)
      /\ ToSet(held) = {Head(held)} \cup ToSet(held')
    BY <1>1, <1>2, HeadTailElements
<1>4. jobs' \in Seq(Messages) /\ ToSet(jobs') = ToSet(jobs) \cup {Head(held)}
    BY <1>1, <1>2, <1>3, AppendElements
<1>5. Len(jobs') <= ChannelSize
  <2>1. ChannelSize \in Nat
      BY PoolAssumption, FS_CardinalityType DEF ChannelSize
  <2>2. Len(jobs') = Len(jobs) + 1 /\ Len(jobs) \in Nat
      BY <1>1, <1>2, <1>3
  <2> QED
      BY <1>1, <2>1, <2>2
<1>6. Shape'
    BY <1>1, <1>2, <1>3, <1>4, <1>5 DEF Shape, Few
<1>7. ReaderInv' /\ ReturnedInv'
    BY <1>1, <1>2 DEF PoolInv, ReaderInv, ReturnedInv
<1>8. InFlight' /\ AckedAfterProcess'
    BY <1>1, <1>3, <1>4 DEF PoolInv, InFlight, AckedAfterProcess
<1> QED
    BY <1>6, <1>7, <1>8 DEF PoolInv

LEMMA TakeInv ==
    ASSUME PoolInv, NEW g \in Goroutines, Take(g)
    PROVE  PoolInv'
<1>1. /\ working[g] = {} /\ g \notin returned /\ jobs # <<>>
      /\ working' = [working EXCEPT ![g] = {Head(jobs)}] /\ jobs' = Tail(jobs)
      /\ UNCHANGED <<stop, pc, held, unread, pending, dead, published, swallowed, closed,
                     returned, processed>>
    BY DEF Take, queueVars, readerVars
<1>2. Shape /\ jobs \in Seq(Messages)
    BY <1>1 DEF PoolInv, Shape
<1>3. /\ Head(jobs) \in Messages /\ jobs' \in Seq(Messages) /\ Len(jobs') = Len(jobs) - 1
      /\ ToSet(jobs) = {Head(jobs)} \cup ToSet(jobs')
    BY <1>1, <1>2, HeadTailElements
<1>4. /\ working' \in [Goroutines -> SUBSET Messages] /\ working'[g] = {Head(jobs)}
      /\ \A e \in Goroutines \ {g} : working'[e] = working[e]
    BY <1>1, <1>2, <1>3 DEF Shape
<1>5. Len(jobs') <= ChannelSize
  <2>1. ChannelSize \in Nat
      BY PoolAssumption, FS_CardinalityType DEF ChannelSize
  <2>2. Len(jobs) \in Nat /\ Len(jobs) <= ChannelSize
      BY <1>2 DEF Shape, Few
  <2> QED
      BY <1>3, <2>1, <2>2
<1>6. \A e \in Goroutines : working'[e] = {} \/ \E m \in Messages : working'[e] = {m}
    BY <1>2, <1>3, <1>4 DEF Shape
<1>7. Shape'
    BY <1>1, <1>2, <1>3, <1>4, <1>5, <1>6 DEF Shape, Few
<1>8. returned = {}
    BY <1>1 DEF PoolInv, ReturnedInv
<1>9. pc \notin {"ensure", "stopped", "exited"}
  <2>1. ~Untouched /\ returned # Goroutines
      BY <1>1 DEF Untouched
  <2> QED
      BY <2>1 DEF PoolInv, ReaderInv
<1>10. ReaderInv' /\ ReturnedInv'
    BY <1>1, <1>8, <1>9 DEF PoolInv, ReaderInv, ReturnedInv
<1>11. InFlight'
  <2> SUFFICES ASSUME NEW m \in pending \ (processed \cup Poison), m \notin ToSet(held),
                      m \notin ToSet(jobs'), m \notin swallowed
               PROVE  \E e \in Goroutines : m \in working'[e]
      BY <1>1 DEF InFlight
  <2>1. m \in ToSet(jobs) \/ \E e \in Goroutines : m \in working[e]
      BY DEF PoolInv, InFlight
  <2> QED
      BY <1>1, <1>3, <1>4, <2>1
<1>12. AckedAfterProcess'
    BY <1>1 DEF PoolInv, AckedAfterProcess
<1> QED
    BY <1>7, <1>10, <1>11, <1>12 DEF PoolInv

LEMMA ProcessInv ==
    ASSUME PoolInv, NEW g \in Goroutines, process(g)
    PROVE  PoolInv'
<1>1. /\ working[g] # {} /\ processed' = processed \cup working[g]
      /\ pending' \in {pending \ working[g], pending}
      /\ working' = [working EXCEPT ![g] = {}]
      /\ UNCHANGED <<stop, pc, held, unread, dead, published, swallowed, jobs, closed,
                     returned>>
    BY DEF process, readerVars
<1>2. Shape /\ working[g] \subseteq Messages
    BY <1>1 DEF PoolInv, Shape
<1>3. /\ working' \in [Goroutines -> SUBSET Messages] /\ working'[g] = {}
      /\ \A e \in Goroutines \ {g} : working'[e] = working[e]
    BY <1>1, <1>2 DEF Shape
<1>4. pending' \subseteq pending /\ \A m \in pending : m \in pending' \/ m \in working[g]
    BY <1>1
<1>5. Shape'
    BY <1>1, <1>2, <1>3, <1>4 DEF Shape, Few
<1>6. pc \notin {"ensure", "stopped", "exited"} /\ g \notin returned
  <2>1. ~Untouched /\ g \notin returned
      BY <1>1 DEF Untouched, PoolInv, ReturnedInv
  <2> QED
      BY <2>1 DEF PoolInv, ReaderInv
<1>7. ReaderInv' /\ ReturnedInv'
  <2>1. \A e \in returned : working'[e] = working[e]
      BY <1>2, <1>3, <1>6 DEF Shape
  <2> QED
      BY <1>1, <1>6, <2>1 DEF PoolInv, ReaderInv, ReturnedInv
<1>8. InFlight'
  <2> SUFFICES ASSUME NEW m \in pending' \ (processed' \cup Poison), m \notin ToSet(held),
                      m \notin ToSet(jobs), m \notin swallowed
               PROVE  \E e \in Goroutines : m \in working'[e]
      BY <1>1 DEF InFlight
  <2>1. PICK e \in Goroutines : m \in working[e]
      BY <1>1, <1>4 DEF PoolInv, InFlight
  <2>2. e # g
      BY <1>1, <2>1
  <2> QED
      BY <1>3, <2>1, <2>2
<1>9. AckedAfterProcess'
    BY <1>1, <1>4 DEF PoolInv, AckedAfterProcess
<1> QED
    BY <1>5, <1>7, <1>8, <1>9 DEF PoolInv

LEMMA ReturnInv ==
    ASSUME PoolInv, NEW g \in Goroutines, Return(g)
    PROVE  PoolInv'
<1>1. /\ working[g] = {} /\ closed /\ jobs = <<>> /\ returned' = returned \cup {g}
      /\ UNCHANGED <<stop, pc, held, unread, pending, dead, published, swallowed, jobs,
                     closed, working, processed>>
    BY DEF Return, readerVars, queueVars
<1>2. Shape'
    BY <1>1 DEF PoolInv, Shape, Few
<1>3. pc \in {"wait", "stopped", "exited"} /\ ~Untouched
    BY <1>1 DEF PoolInv, ReaderInv, Untouched
<1>4. pc \in {"stopped", "exited"} => returned = Goroutines
    BY <1>3 DEF PoolInv, ReaderInv
<1>5. ReaderInv'
    BY <1>1, <1>3, <1>4 DEF ReaderInv
<1>6. ReturnedInv' /\ InFlight' /\ AckedAfterProcess'
    BY <1>1 DEF PoolInv, ReturnedInv, InFlight, AckedAfterProcess
<1> QED
    BY <1>2, <1>5, <1>6 DEF PoolInv

-----------------------------------------------------------------------------
(* The theorems.                                                           *)

LEMMA PoolInit == Init => PoolInv
<1> SUFFICES ASSUME Init PROVE PoolInv
    OBVIOUS
<1>1. ChannelSize \in Nat /\ Len(<<>>) = 0 /\ <<>> \in Seq(Messages)
    BY PoolAssumption, FS_CardinalityType DEF ChannelSize
<1>2. Few
    BY <1>1 DEF Init, Few
<1>3. Shape
    BY <1>1, <1>2 DEF Init, Shape, Places
<1>4. ReaderInv /\ ReturnedInv
    BY DEF Init, ReaderInv, Untouched, ReturnedInv
<1>5. InFlight /\ AckedAfterProcess
    BY DEF Init, InFlight, AckedAfterProcess
<1> QED
    BY <1>3, <1>4, <1>5 DEF PoolInv

LEMMA PoolStep == PoolInv /\ [Next]_vars => PoolInv'
<1> SUFFICES ASSUME PoolInv, [Next]_vars PROVE PoolInv'
    OBVIOUS
<1>1. CASE Reader
    BY <1>1, MovesInv, ReadInv, ReadFailsInv, SendInv, CloseInv DEF Reader
<1>2. ASSUME NEW g \in Goroutines, Goroutine(g) PROVE PoolInv'
    BY <1>2, TakeInv, ProcessInv, ReturnInv DEF Goroutine
<1>3. ASSUME NEW m \in Messages, Publish(m) PROVE PoolInv'
    BY <1>3, PublishInv
<1>4. CASE Signal
    BY <1>4, SignalInv
<1>5. CASE UNCHANGED vars
  <2>1. UNCHANGED <<stop, pc, held, unread, pending, dead, published, swallowed, jobs,
                    closed, working, returned, processed>>
      BY <1>5 DEF vars, readerVars, queueVars, poolVars
  <2>2. Shape' /\ ReaderInv' /\ ReturnedInv'
      BY <2>1 DEF PoolInv, Shape, Few, ReaderInv, Untouched, ReturnedInv
  <2>3. InFlight' /\ AckedAfterProcess'
      BY <2>1 DEF PoolInv, InFlight, AckedAfterProcess
  <2> QED
      BY <2>2, <2>3 DEF PoolInv
<1> QED
    BY <1>1, <1>2, <1>3, <1>4, <1>5 DEF Next

\* Where the reader stands tells what it holds, and every handed out entry is
\* held, in the channel, being processed, swallowed by a failed read or done.
THEOREM PoolHolds == Spec => []PoolInv
    BY PoolInit, PoolStep, PTL DEF Spec

\* The channel never holds more than Config.Concurrency messages, and a
\* goroutine of Run never more than one.
THEOREM PoolTypes == Spec => []TypeOK
<1>1. PoolInv => TypeOK
  <2> SUFFICES ASSUME PoolInv PROVE TypeOK
      OBVIOUS
  <2>1. Shape
      BY DEF PoolInv
  <2>2. Len(jobs) <= Cardinality(Goroutines)
      BY <2>1 DEF Shape, Few, ChannelSize
  <2>3. ASSUME NEW g \in Goroutines PROVE Cardinality(working[g]) <= 1
    <3>1. CASE working[g] = {}
        BY <3>1, FS_EmptySet
    <3>2. CASE \E m \in Messages : working[g] = {m}
        BY <3>2, FS_Singleton
    <3> QED
        BY <2>1, <2>3, <3>1, <3>2 DEF Shape
  <2>4. UNION {pending, dead, published, swallowed, processed} \subseteq Messages
      BY <2>1 DEF Shape
  <2> QED
      BY <2>1, <2>2, <2>3, <2>4 DEF TypeOK, Shape, Places
<1> QED
    BY <1>1, PoolHolds, PTL

\* "drains in-flight work and returns": Run returns with an empty channel and
\* idle goroutines, and leaves only entries that were never offered.
THEOREM RunDrains == Spec => []Drained
<1>1. PoolInv => Drained
  <2> SUFFICES ASSUME PoolInv, pc \in {"stopped", "exited"}
               PROVE  /\ jobs = <<>> /\ \A g \in Goroutines : working[g] = {}
                      /\ pending \ (processed \cup Poison) \subseteq ToSet(held) \cup swallowed
      BY DEF Drained
  <2>1. returned = Goroutines \/ Untouched
      BY DEF PoolInv, ReaderInv
  <2>2. jobs = <<>> /\ \A g \in Goroutines : working[g] = {}
      BY <2>1, PoolAssumption DEF PoolInv, ReturnedInv, Untouched
  <2>3. ToSet(jobs) = {}
      BY <2>2 DEF ToSet
  <2> QED
      BY <2>2, <2>3 DEF PoolInv, InFlight
<1> QED
    BY <1>1, PoolHolds, PTL

\* At least once: an entry that decodes leaves the pending list only after
\* process has returned from it.
THEOREM AtLeastOnce == Spec => []AckedAfterProcess
<1>1. PoolInv => AckedAfterProcess
    BY DEF PoolInv
<1> QED
    BY <1>1, PoolHolds, PTL
=============================================================================
