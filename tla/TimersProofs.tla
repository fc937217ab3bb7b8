------------------------------ MODULE TimersProofs ------------------------------
(***************************************************************************)
(* The theorems about Timers: for any number of timers, any intervals and  *)
(* any interleaving of the loop, its callbacks, user code and the clock    *)
(* the array of timer.c is a heap, and implements the queue of timer.h.    *)
(***************************************************************************)
EXTENDS Timers, SequenceTheorems, FiniteSetTheorems, NaturalsInduction, TLAPS

Timer == [id : Nat, tic : Nat, num : Nat, exp : Int, q : BOOLEAN]

Ent(h) == {h[k] : k \in DOMAIN h}

(* No id twice.                                                               *)
Distinct(h) == \A j, k \in DOMAIN h : h[j].id = h[k].id => j = k

(* Place c is in order with its parent.                                       *)
Edge(h, c) == heap_less(At(h, Parent(c)), At(h, c))
Heap(h) == \A c \in 1..(Len(h) - 1) : Edge(h, c)

(* The entry at j may be earlier than its parent, which is earlier than the   *)
(* entries below j;                                                           *)
Bridged(h, j) ==
  \A c \in 1..(Len(h) - 1) : Parent(c) = j /\ j > 0 => heap_less(At(h, Parent(j)), At(h, c))
ButUp(h, j) == Bridged(h, j) /\ \A c \in 1..(Len(h) - 1) : c # j => Edge(h, c)
(* or later than those below it as well.                                      *)
ButDown(h, j) ==
  Bridged(h, j) /\ \A c \in 1..(Len(h) - 1) : c # j /\ Parent(c) # j => Edge(h, c)

-------------------------------------------------------------------------------
(* The order, the tree and sequences.                                         *)

LEMMA LessOrder ==
  ASSUME NEW a \in Timer, NEW b \in Timer
  PROVE  /\ a.id # b.id => heap_less(a, b) \/ heap_less(b, a)
         /\ ~(heap_less(a, b) /\ heap_less(b, a))
         /\ \A c \in Timer : heap_less(a, b) /\ heap_less(b, c) => heap_less(a, c)
  BY DEF heap_less, Timer

LEMMA Tree ==
  /\ \A c \in Nat \ {0} : Parent(c) \in Nat /\ Parent(c) < c
  /\ \A c \in Nat, k \in Nat : c > 0 /\ Parent(c) = k <=> c = 2 * k + 1 \/ c = 2 * k + 2
  BY DEF Parent

(* A set of naturals that is not empty has a least element.                   *)
LEMMA Least ==
  ASSUME NEW S \in SUBSET Nat, S # {}
  PROVE  \E m \in S : \A k \in S : m <= k
<1>1. \E m \in S : \A k \in S : ~(<<k, m>> \in OpToRel(<, Nat))
  BY NatLessThanWellFounded, WFMin
<1>2. PICK m \in S : \A k \in S : ~(<<k, m>> \in OpToRel(<, Nat))
  BY <1>1
<1>3. \A k \in S : ~(k < m)
  BY <1>2 DEF OpToRel
<1>4. QED BY <1>3

LEMMA Array ==
  ASSUME NEW h \in Seq(Timer)
  PROVE  /\ Len(h) \in Nat /\ DOMAIN h = 1..Len(h)
         /\ \A j \in 0..(Len(h) - 1) : At(h, j) \in Timer /\ j + 1 \in DOMAIN h
         /\ \A k \in DOMAIN h : k - 1 \in 0..(Len(h) - 1) /\ h[k] \in Timer
<1>1. Len(h) \in Nat /\ DOMAIN h = 1..Len(h)
  BY LenProperties
<1>2. \A k \in 1..Len(h) : h[k] \in Timer
  BY ElementOfSeq
<1> HIDE DEF Timer
<1>3. QED BY <1>1, <1>2 DEF At

(* Two arrays show the same entries.                                          *)
LEMMA SameEnt ==
  ASSUME NEW h, NEW u, NEW n \in Nat, DOMAIN h = 1..n, DOMAIN u = 1..n,
         \A k \in 0..(n - 1) : \E l \in 0..(n - 1) : At(u, k) = At(h, l),
         \A k \in 0..(n - 1) : \E l \in 0..(n - 1) : At(u, l) = At(h, k)
  PROVE  Ent(u) = Ent(h)
<1>1. \A k \in 1..n : k - 1 \in 0..(n - 1)
  OBVIOUS
<1>2. \A k \in 0..(n - 1) : k + 1 \in 1..n
  OBVIOUS
<1>3. ASSUME NEW e \in Ent(u) PROVE e \in Ent(h)
  <2>1. PICK k \in 1..n : e = u[k]
    BY DEF Ent
  <2>2. e = At(u, k - 1)
    BY <2>1 DEF At
  <2>3. PICK l \in 0..(n - 1) : e = At(h, l)
    BY <1>1, <2>2
  <2>4. QED BY <1>2, <2>3 DEF At, Ent
<1>4. ASSUME NEW e \in Ent(h) PROVE e \in Ent(u)
  <2>1. PICK k \in 1..n : e = h[k]
    BY DEF Ent
  <2>2. e = At(h, k - 1)
    BY <2>1 DEF At
  <2>3. PICK l \in 0..(n - 1) : e = At(u, l)
    BY <1>1, <2>2
  <2>4. QED BY <1>2, <2>3 DEF At, Ent
<1>5. QED BY <1>3, <1>4

(* An array that shows the same entries in as many places shows each once.    *)
LEMMA Permuted ==
  ASSUME NEW h \in Seq(Timer), NEW u \in Seq(Timer), Len(u) = Len(h), Distinct(h), Ent(u) = Ent(h)
  PROVE  Distinct(u)
<1> DEFINE n == Len(h)
           E == Ent(h)
<1>1. n \in Nat /\ DOMAIN h = 1..n /\ DOMAIN u = 1..n
  BY Array
<1>2. h \in [1..n -> E] /\ u \in [1..n -> E]
  <2>1. h = [k \in 1..n |-> h[k]] /\ u = [k \in 1..n |-> u[k]]
    BY <1>1, SeqDef
  <2>2. QED BY <1>1, <2>1 DEF Ent
<1>3. h \in Surjection(1..n, E) /\ u \in Surjection(1..n, E)
  BY <1>1, <1>2 DEF Surjection, Ent
<1>4. h \in Injection(1..n, E)
  <2>1. \A a, b \in 1..n : h[a] = h[b] => a = b
    BY <1>1 DEF Distinct
  <2>2. QED BY <1>2, <2>1 DEF Injection, IsInjective
<1>5. IsFiniteSet(1..n)
  BY <1>1, FS_Interval
<1> HIDE DEF n, E
<1>6. Cardinality(E) = Cardinality(1..n)
  BY <1>3, <1>4, <1>5, FS_Surjection
<1>7. u \in Injection(1..n, E)
  BY <1>3, <1>5, <1>6, FS_SurjSameCardinalityImpliesInj
<1>8. ASSUME NEW j \in 1..n, NEW k \in 1..n, u[j].id = u[k].id PROVE j = k
  <2>1. PICK a \in 1..n, b \in 1..n : h[a] = u[j] /\ h[b] = u[k]
    BY <1>2, <1>3 DEF Surjection
  <2>2. a = b
    BY <1>1, <1>8, <2>1 DEF Distinct
  <2>3. u[j] = u[k]
    BY <2>1, <2>2
  <2>4. QED BY <1>7, <2>3 DEF Injection, IsInjective
<1>9. QED BY <1>1, <1>8 DEF Distinct

-------------------------------------------------------------------------------
(* heap_up                                                                    *)

LEMMA UpPlaces ==
  ASSUME NEW h \in Seq(Timer), NEW j \in 0..(Len(h) - 1)
  PROVE  LET P == UpPath(h, j)
         IN  /\ P \subseteq 0..j /\ j \in P
             /\ \A i \in P : i > 0 /\ heap_less(At(h, j), At(h, Parent(i))) => Parent(i) \in P
             /\ \A k \in P : k # j => /\ heap_less(At(h, j), At(h, k))
                                      /\ \E c \in P : c > 0 /\ Parent(c) = k
<1> DEFINE P == UpPath(h, j)
           Step(i) == i > 0 /\ heap_less(At(h, j), At(h, Parent(i)))
           Closed(S) == j \in S /\ \A i \in S : Step(i) => Parent(i) \in S
<1>0. j \in Nat
  BY Array
<1>1. P = {k \in 0..j : \A S \in SUBSET (0..j) : Closed(S) => k \in S}
  BY DEF UpPath
<1>2. \A i \in 0..j : Step(i) => Parent(i) \in 0..j
  BY <1>0, Tree
<1> HIDE DEF P, Step
<1>3. P \subseteq 0..j /\ j \in P
  BY <1>0, <1>1
<1>4. \A i \in P : Step(i) => Parent(i) \in P
  BY <1>1, <1>2
<1>5. ASSUME NEW k \in P, k # j PROVE \E c \in P : Step(c) /\ Parent(c) = k
  <2> SUFFICES ASSUME \A c \in P : Step(c) => Parent(c) # k PROVE FALSE
    OBVIOUS
  <2>1. P \ {k} \in SUBSET (0..j) /\ Closed(P \ {k})
    BY <1>3, <1>4, <1>5
  <2>2. QED BY <1>1, <2>1
<1>6. QED BY <1>3, <1>4, <1>5 DEF P, Step

LEMMA UpHeap ==
  ASSUME NEW h \in Seq(Timer), NEW j \in 0..(Len(h) - 1), Distinct(h)
  PROVE  LET u == heap_up(h, j)
         IN  /\ u \in Seq(Timer) /\ Len(u) = Len(h)
             /\ Ent(u) = Ent(h) /\ Distinct(u)
             /\ ButUp(h, j) => Heap(u)
<1> DEFINE P == UpPath(h, j)
           u == heap_up(h, j)
           n == Len(h)
           x == At(h, j)
           val(k) == IF k \notin P THEN At(h, k)
                     ELSE IF k > 0 /\ Parent(k) \in P THEN At(h, Parent(k)) ELSE x
<1>1. n \in Nat /\ DOMAIN h = 1..n /\ (\A k \in 0..(n - 1) : At(h, k) \in Timer) /\ x \in Timer
  BY Array
<1>2. /\ P \subseteq 0..j /\ j \in P
      /\ \A i \in P : i > 0 /\ heap_less(x, At(h, Parent(i))) => Parent(i) \in P
      /\ \A k \in P : k # j => heap_less(x, At(h, k)) /\ \E c \in P : c > 0 /\ Parent(c) = k
  BY UpPlaces
<1>3. P \subseteq 0..(n - 1)
  BY <1>1, <1>2
<1>4. u = [k \in 1..n |-> val(k - 1)]
  BY <1>1 DEF heap_up, At
<1> HIDE DEF P, u, x, n
<1>5. \A k \in 0..(n - 1) : val(k) \in Timer
  BY <1>1, <1>3
<1>6. u \in Seq(Timer) /\ Len(u) = n /\ DOMAIN u = 1..n
  <2>1. \A k \in 1..n : val(k - 1) \in Timer
    BY <1>1, <1>5
  <2> HIDE DEF val
  <2>2. u \in [1..n -> Timer]
    BY <1>4, <2>1
  <2>3. QED BY <1>1, <2>2, SeqDef, LenProperties
<1>7. \A k \in 0..(n - 1) : At(u, k) = val(k)
  <2> HIDE DEF val
  <2>1. QED BY <1>1, <1>4 DEF At
<1>8. Ent(u) = Ent(h)
  <2>1. ASSUME NEW k \in 0..(n - 1) PROVE \E l \in 0..(n - 1) : val(k) = At(h, l)
    BY <1>2, <1>3 DEF x
  <2>2. ASSUME NEW k \in 0..(n - 1) PROVE \E l \in 0..(n - 1) : val(l) = At(h, k)
    <3>1. CASE k \notin P
      BY <3>1
    <3>2. CASE k \in P /\ k # j
      <4>1. PICK c \in P : c > 0 /\ Parent(c) = k
        BY <1>2, <3>2
      <4>2. QED BY <1>3, <3>2, <4>1
    <3>3. CASE k = j
      <4>1. PICK m \in P : \A l \in P : m <= l
        <5>1. P \in SUBSET Nat /\ P # {}
          BY <1>2
        <5>2. QED BY <5>1, Least
      <4>2. m > 0 => Parent(m) \notin P
        <5>1. m \in Nat
          BY <1>1, <1>3
        <5>2. m > 0 => Parent(m) \in Nat /\ Parent(m) < m
          BY <5>1, Tree
        <5>3. QED BY <4>1, <5>1, <5>2
      <4>3. QED BY <1>3, <3>3, <4>1, <4>2 DEF x
    <3>4. QED BY <3>1, <3>2, <3>3
  <2>3. \A k \in 0..(n - 1) : \E l \in 0..(n - 1) : At(u, k) = At(h, l)
    BY <1>7, <2>1
  <2>4. \A k \in 0..(n - 1) : \E l \in 0..(n - 1) : At(u, l) = At(h, k)
    <3> HIDE DEF val
    <3>1. QED BY <1>7, <2>2
  <2>5. QED BY <1>1, <1>6, <2>3, <2>4, SameEnt
<1>9. Distinct(u)
  BY <1>6, <1>8, Permuted DEF n
<1>10. ASSUME ButUp(h, j), NEW c \in 1..(n - 1) PROVE heap_less(val(Parent(c)), val(c))
  <2> DEFINE p == Parent(c)
  <2>1. c \in Nat /\ p \in 0..(n - 1) /\ c \in 0..(n - 1) /\ p < c
    BY <1>1, Tree
  <2>2. \A i \in 1..(n - 1) : i # j => heap_less(At(h, Parent(i)), At(h, i))
    BY <1>10 DEF ButUp, Edge, n
  <2>3. \A i \in 1..(n - 1) : Parent(i) = j /\ j > 0 => heap_less(At(h, Parent(j)), At(h, i))
    BY <1>10 DEF ButUp, Bridged, n
  <2>4. ASSUME p \in P PROVE val(p) = x \/ (p > 0 /\ val(p) = At(h, Parent(p)) /\ Parent(p) \in 0..(n - 1))
    BY <1>3, <2>4
  <2>5. At(h, p) \in Timer /\ At(h, c) \in Timer
    BY <1>1, <2>1
  <2> HIDE DEF p, val
  <2>6. p = Parent(c)
    BY DEF p
  <2>7. CASE c \in P /\ p \in P
    <3>1. val(c) = At(h, p)
      BY <2>6, <2>7 DEF val
    <3>2. p # j
      BY <1>1, <1>2, <2>1, <2>7
    <3>3. heap_less(x, At(h, p))
      BY <1>2, <2>7, <3>2
    <3>4. p > 0 => heap_less(At(h, Parent(p)), At(h, p))
      BY <1>1, <2>1, <2>2, <3>2
    <3>5. QED BY <2>4, <2>6, <2>7, <3>1, <3>3, <3>4
  <2>8. CASE c \in P /\ p \notin P
    <3>1. val(c) = x /\ val(p) = At(h, p)
      BY <2>6, <2>8 DEF val
    <3>2. ~heap_less(x, At(h, p))
      BY <1>2, <2>1, <2>6, <2>8
    <3>3. At(h, p).id # x.id
      <4>1. p + 1 \in DOMAIN h /\ j + 1 \in DOMAIN h /\ p # j /\ j \in Int
        BY <1>1, <1>2, <1>3, <2>1, <2>8
      <4>2. QED BY <2>1, <4>1 DEF Distinct, At, x
    <3>4. QED BY <1>1, <2>5, <2>6, <3>1, <3>2, <3>3, LessOrder
  <2>9. CASE c \notin P /\ p \in P
    <3>1. val(c) = At(h, c) /\ c # j
      BY <1>2, <2>9 DEF val
    <3>2. heap_less(At(h, p), At(h, c))
      BY <2>2, <2>6, <3>1
    <3>3. CASE p = j
      <4>1. At(h, p) = x
        BY <3>3 DEF x
      <4>2. p > 0 => heap_less(At(h, Parent(p)), At(h, c))
        BY <2>3, <2>6, <3>3
      <4>3. QED BY <2>4, <2>6, <2>9, <3>1, <3>2, <4>1, <4>2
    <3>4. CASE p # j
      <4>1. heap_less(x, At(h, p))
        BY <1>2, <2>9, <3>4
      <4>2. p > 0 => heap_less(At(h, Parent(p)), At(h, p))
        BY <1>1, <2>1, <2>2, <3>4
      <4>3. heap_less(x, At(h, c))
        BY <1>1, <2>5, <3>2, <4>1, LessOrder
      <4>4. CASE val(p) = x
        BY <2>6, <3>1, <4>3, <4>4
      <4>5. CASE p > 0 /\ val(p) = At(h, Parent(p)) /\ Parent(p) \in 0..(n - 1)
        <5>1. At(h, Parent(p)) \in Timer
          BY <1>1, <4>5
        <5>2. heap_less(At(h, Parent(p)), At(h, c))
          BY <2>5, <3>2, <4>2, <4>5, <5>1, LessOrder
        <5>3. QED BY <2>6, <3>1, <4>5, <5>2
      <4>6. QED BY <2>4, <2>9, <4>4, <4>5
    <3>5. QED BY <3>3, <3>4
  <2>10. CASE c \notin P /\ p \notin P
    <3>1. val(c) = At(h, c) /\ val(p) = At(h, p) /\ c # j
      BY <1>2, <2>10 DEF val
    <3>2. QED BY <2>2, <2>6, <3>1
  <2>11. QED BY <2>7, <2>8, <2>9, <2>10
<1>11. ButUp(h, j) => Heap(u)
  <2> HIDE DEF val
  <2> SUFFICES ASSUME ButUp(h, j), NEW c \in 1..(n - 1) PROVE Edge(u, c)
    BY <1>6 DEF Heap, n
  <2>1. heap_less(val(Parent(c)), val(c))
    BY <1>10
  <2>2. c \in 0..(n - 1) /\ Parent(c) \in 0..(n - 1)
    BY <1>1, Tree
  <2>3. QED BY <1>7, <2>1, <2>2 DEF Edge
<1>12. QED BY <1>6, <1>8, <1>9, <1>11 DEF u, n

-------------------------------------------------------------------------------
(* heap_down                                                                  *)

LEMMA DownPlaces ==
  ASSUME NEW h \in Seq(Timer), NEW j \in 0..(Len(h) - 1)
  PROVE  LET P == DownPath(h, j)
             x == At(h, j)
         IN  /\ P \subseteq j..(Len(h) - 1) /\ j \in P
             /\ \A i \in P : \A l \in Kids(h, x, i) : IsBest(h, x, i, l) => l \in P
             /\ \A k \in P : k # j => \E i \in P : IsBest(h, x, i, k)
<1> DEFINE P == DownPath(h, j)
           x == At(h, j)
           n == Len(h)
           Step(i, l) == l \in Kids(h, x, i) /\ IsBest(h, x, i, l)
           Closed(S) == j \in S /\ \A i \in S : \A l \in Kids(h, x, i) : IsBest(h, x, i, l) => l \in S
<1>0. n \in Nat /\ j \in Nat /\ j < n
  BY Array
<1>1. P = {k \in 0..(n - 1) : \A S \in SUBSET (0..(n - 1)) : Closed(S) => k \in S}
  BY DEF DownPath, Slots
<1>2. \A i \in 0..(n - 1) : \A l \in Kids(h, x, i) : l \in 0..(n - 1) /\ l > i
  BY <1>0 DEF Kids, Slots
<1>3. \A i, l : IsBest(h, x, i, l) => l \in Kids(h, x, i)
  BY DEF IsBest
<1> HIDE DEF P, x, n
<1>4. P \subseteq 0..(n - 1) /\ j \in P
  BY <1>0, <1>1
<1>5. Closed(P)
  <2>1. \A i \in P : \A l \in Kids(h, x, i) : IsBest(h, x, i, l) => l \in 0..(n - 1)
    BY <1>2, <1>4
  <2>2. QED BY <1>1, <1>4, <2>1
<1>6. P \subseteq j..(n - 1)
  <2> DEFINE S == {k \in P : k >= j}
  <2>1. S \in SUBSET (0..(n - 1)) /\ j \in S
    <3>1. j \in P /\ j >= j
      BY <1>0, <1>4
    <3>2. S \subseteq P
      OBVIOUS
    <3>3. QED BY <1>4, <3>1, <3>2
  <2>2. \A i \in S : \A l \in Kids(h, x, i) : l > i /\ i \in 0..(n - 1) /\ l \in 0..(n - 1) /\ i >= j
    BY <1>2, <1>4
  <2>3. \A i \in S : \A l \in Kids(h, x, i) : IsBest(h, x, i, l) => l \in S
    BY <1>0, <1>5, <2>2
  <2>4. P \subseteq S
    <3> HIDE DEF S
    <3>1. QED BY <1>1, <2>1, <2>3
  <2>5. QED BY <1>0, <1>4, <2>4
<1>7. ASSUME NEW k \in P, k # j PROVE \E i \in P : IsBest(h, x, i, k)
  <2> SUFFICES ASSUME \A i \in P : ~IsBest(h, x, i, k) PROVE FALSE
    OBVIOUS
  <2>1. P \ {k} \in SUBSET (0..(n - 1)) /\ Closed(P \ {k})
    BY <1>4, <1>5, <1>7
  <2>2. QED BY <1>1, <2>1
<1>8. QED BY <1>5, <1>6, <1>7 DEF P, x, n

(* Of children that are less than x one is the least, and only one.           *)
LEMMA BestOfKids ==
  ASSUME NEW h \in Seq(Timer), Distinct(h), NEW x, NEW i \in 0..(Len(h) - 1)
  PROVE  /\ Kids(h, x, i) # {} => \E l \in Slots(h) : IsBest(h, x, i, l)
         /\ \A k, l : IsBest(h, x, i, k) /\ IsBest(h, x, i, l) => k = l
<1> DEFINE K == Kids(h, x, i)
<1>1. Len(h) \in Nat /\ i \in Nat
  BY Array
<1>2. K \subseteq Slots(h) /\ (\A k \in K : k = 2 * i + 1 \/ k = 2 * i + 2)
  BY DEF Kids
<1>3. \A k \in Slots(h) : At(h, k) \in Timer /\ k + 1 \in DOMAIN h /\ k \in Nat
  BY <1>1, Array DEF Slots
<1>4. \A k, l \in Slots(h) : k # l => At(h, k).id # At(h, l).id
  BY <1>3 DEF Distinct, At
<1> HIDE DEF K
<1>5. \A k, l \in K : k # l => heap_less(At(h, k), At(h, l)) \/ heap_less(At(h, l), At(h, k))
  BY <1>2, <1>3, <1>4, LessOrder
<1>6. \A k, l \in K : ~(heap_less(At(h, k), At(h, l)) /\ heap_less(At(h, l), At(h, k)))
  BY <1>2, <1>3, LessOrder
<1>7. \A l : IsBest(h, x, i, l) <=> l \in K /\ \A m \in K \ {l} : heap_less(At(h, l), At(h, m))
  BY DEF IsBest, K
<1>8. ASSUME K # {} PROVE \E l \in Slots(h) : IsBest(h, x, i, l)
  <2>1. PICK k \in K : TRUE
    BY <1>8
  <2>2. CASE \A m \in K \ {k} : heap_less(At(h, k), At(h, m))
    BY <1>2, <1>7, <2>2
  <2>3. CASE \E m \in K \ {k} : ~heap_less(At(h, k), At(h, m))
    <3>1. PICK m \in K \ {k} : ~heap_less(At(h, k), At(h, m))
      BY <2>3
    <3>2. \A l \in K \ {m} : l = k
      BY <1>1, <1>2, <3>1
    <3>3. heap_less(At(h, m), At(h, k))
      BY <1>5, <3>1
    <3>4. IsBest(h, x, i, m)
      BY <1>7, <3>2, <3>3
    <3>5. QED BY <1>2, <3>4
  <2>4. QED BY <2>2, <2>3
<1>9. ASSUME NEW k, NEW l, IsBest(h, x, i, k), IsBest(h, x, i, l) PROVE k = l
  BY <1>6, <1>7, <1>9
<1>10. QED BY <1>8, <1>9 DEF K

LEMMA DownHeap ==
  ASSUME NEW h \in Seq(Timer), NEW j \in 0..(Len(h) - 1), Distinct(h)
  PROVE  LET u == heap_down(h, j)
         IN  /\ u \in Seq(Timer) /\ Len(u) = Len(h)
             /\ Ent(u) = Ent(h) /\ Distinct(u)
             /\ ButDown(h, j) => ButUp(u, j)
<1> DEFINE P == DownPath(h, j)
           u == heap_down(h, j)
           n == Len(h)
           x == At(h, j)
           K(k) == Kids(h, x, k)
           best(k) == CHOOSE l \in Slots(h) : IsBest(h, x, k, l)
           val(k) == IF k \notin P THEN At(h, k) ELSE IF K(k) = {} THEN x ELSE At(h, best(k))
<1>1. n \in Nat /\ DOMAIN h = 1..n /\ (\A k \in 0..(n - 1) : At(h, k) \in Timer) /\ x \in Timer
      /\ j \in Nat /\ j < n
  BY Array
<1>2. /\ P \subseteq j..(n - 1) /\ j \in P
      /\ \A i \in P : \A l \in K(i) : IsBest(h, x, i, l) => l \in P
      /\ \A k \in P : k # j => \E i \in P : IsBest(h, x, i, k)
  BY DownPlaces
<1>3. P \subseteq 0..(n - 1) /\ \A k \in P : k >= j
  BY <1>1, <1>2
<1>4. u = [k \in 1..n |-> val(k - 1)]
  BY <1>1 DEF heap_down, At
<1>5. \A k \in 0..(n - 1) : K(k) = {c \in 1..(n - 1) : Parent(c) = k /\ heap_less(At(h, c), x)}
  <2>1. ASSUME NEW k \in 0..(n - 1), NEW c PROVE c \in K(k) <=> c \in 1..(n - 1) /\ Parent(c) = k /\ heap_less(At(h, c), x)
    <3>1. CASE c \in 0..(n - 1)
      <4>1. c \in Nat /\ k \in Nat /\ n \in Nat
        BY <1>1, <3>1
      <4>2. c > 0 /\ Parent(c) = k <=> c \in {2 * k + 1, 2 * k + 2}
        BY <4>1, Tree
      <4>3. c \in 1..(n - 1) <=> c > 0
        BY <3>1, <4>1
      <4>4. QED BY <3>1, <4>2, <4>3 DEF Kids, Slots
    <3>2. CASE c \notin 0..(n - 1)
      <4>1. c \notin 1..(n - 1)
        BY <1>1, <3>2
      <4>2. QED BY <3>2, <4>1 DEF Kids, Slots
    <3>3. QED BY <3>1, <3>2
  <2>2. QED BY <2>1
<1>6. \A i \in 0..(n - 1) : \A k : IsBest(h, x, i, k) => k = best(i)
  BY BestOfKids DEF IsBest, Kids
<1>7. \A i \in 0..(n - 1) : K(i) # {} => IsBest(h, x, i, best(i))
  BY BestOfKids
<1>8. \A i \in 0..(n - 1) : \A k : IsBest(h, x, i, k) => k \in K(i) /\ \A l \in K(i) \ {k} : heap_less(At(h, k), At(h, l))
  BY DEF IsBest
<1> HIDE DEF P, u, x, n, K, best
(* Below a place of the path is its best child, and no other place of it.     *)
<1>9. \A i \in P : K(i) # {} =>
        /\ best(i) \in P /\ best(i) \in 1..(n - 1) /\ Parent(best(i)) = i /\ heap_less(At(h, best(i)), x)
        /\ \A l \in K(i) \ {best(i)} : heap_less(At(h, best(i)), At(h, l))
  BY <1>2, <1>3, <1>5, <1>7, <1>8
<1>10. \A c \in P : c # j => c \in 1..(n - 1) /\ Parent(c) \in P /\ c \in K(Parent(c)) /\ c = best(Parent(c))
  <2>1. ASSUME NEW c \in P, c # j
        PROVE  c \in 1..(n - 1) /\ Parent(c) \in P /\ c \in K(Parent(c)) /\ c = best(Parent(c))
    <3>1. PICK i \in P : IsBest(h, x, i, c)
      BY <1>2, <2>1
    <3>2. i \in 0..(n - 1) /\ c \in K(i) /\ c = best(i)
      BY <1>3, <1>6, <1>8, <3>1
    <3>3. c \in 1..(n - 1) /\ Parent(c) = i
      BY <1>5, <3>2
    <3>4. QED BY <3>2, <3>3
  <2>2. QED BY <2>1
<1>11. \A k \in 0..(n - 1) : val(k) \in Timer
  <2>1. \A k \in P : K(k) # {} => best(k) \in 0..(n - 1)
    BY <1>1, <1>3, <1>9
  <2>2. QED BY <1>1, <2>1
<1>12. u \in Seq(Timer) /\ Len(u) = n /\ DOMAIN u = 1..n
  <2>1. \A k \in 1..n : val(k - 1) \in Timer
    BY <1>1, <1>11
  <2> HIDE DEF val
  <2>2. u \in [1..n -> Timer]
    BY <1>4, <2>1
  <2>3. QED BY <1>1, <2>2, SeqDef, LenProperties
<1>13. \A k \in 0..(n - 1) : At(u, k) = val(k)
  <2> HIDE DEF val
  <2>1. QED BY <1>1, <1>4 DEF At
<1>14. Ent(u) = Ent(h)
  <2>1. ASSUME NEW k \in 0..(n - 1) PROVE \E l \in 0..(n - 1) : val(k) = At(h, l)
    <3>1. CASE k \in P /\ K(k) # {}
      <4>1. best(k) \in 0..(n - 1)
        BY <1>1, <1>9, <3>1
      <4>2. QED BY <3>1, <4>1
    <3>2. CASE ~(k \in P /\ K(k) # {})
      <4>1. val(k) = At(h, k) \/ val(k) = x
        BY <3>2
      <4>2. j \in 0..(n - 1)
        BY <1>1
      <4>3. QED BY <4>1, <4>2 DEF x
    <3>3. QED BY <3>1, <3>2
  <2>2. ASSUME NEW k \in 0..(n - 1) PROVE \E l \in 0..(n - 1) : val(l) = At(h, k)
    <3>1. CASE k \notin P
      BY <3>1
    <3>2. CASE k \in P /\ k # j
      <4>1. Parent(k) \in P /\ K(Parent(k)) # {} /\ k = best(Parent(k))
        BY <1>10, <3>2
      <4>2. QED BY <1>3, <4>1
    <3>3. CASE k = j
      <4>1. PICK m \in P : \A l \in P : l <= m
        <5> DEFINE D == {n - l : l \in P}
        <5>1. D \in SUBSET Nat /\ D # {}
          BY <1>1, <1>2, <1>3
        <5>2. PICK d \in D : \A e \in D : d <= e
          <6> HIDE DEF D
          <6>1. QED BY <5>1, Least
        <5>3. PICK m \in P : d = n - m
          OBVIOUS
        <5>4. \A l \in P : n - m <= n - l
          BY <5>2, <5>3
        <5>5. \A l \in P : l \in Int /\ m \in Int /\ n \in Int
          BY <1>1, <1>3
        <5>6. QED BY <5>4, <5>5
      <4>2. K(m) = {}
        <5>1. m \in 0..(n - 1)
          BY <1>3
        <5>2. SUFFICES ASSUME K(m) # {} PROVE FALSE
          OBVIOUS
        <5>3. best(m) \in P /\ best(m) \in 1..(n - 1) /\ Parent(best(m)) = m
          BY <1>9, <5>2
        <5>4. m < best(m)
          BY <1>1, <5>3, Tree
        <5>5. QED BY <1>1, <4>1, <5>1, <5>3, <5>4
      <4>3. QED BY <1>3, <3>3, <4>1, <4>2 DEF x
    <3>4. QED BY <3>1, <3>2, <3>3
  <2>3. \A k \in 0..(n - 1) : \E l \in 0..(n - 1) : At(u, k) = At(h, l)
    BY <1>13, <2>1
  <2>4. \A k \in 0..(n - 1) : \E l \in 0..(n - 1) : At(u, l) = At(h, k)
    <3> HIDE DEF val
    <3>1. QED BY <1>13, <2>2
  <2>5. QED BY <1>1, <1>12, <2>3, <2>4, SameEnt
<1>15. Distinct(u)
  BY <1>12, <1>14, Permuted DEF n
<1>16. \A c \in 0..(n - 1) : c # j => At(h, c).id # x.id
  <2>1. \A c \in 0..(n - 1) : c + 1 \in DOMAIN h /\ c \in Int
    BY <1>1
  <2>2. j + 1 \in DOMAIN h
    BY <1>1
  <2>3. QED BY <1>1, <2>1, <2>2 DEF Distinct, At, x
<1>17. ASSUME ButDown(h, j), NEW c \in 1..(n - 1), c # j PROVE heap_less(val(Parent(c)), val(c))
  <2> DEFINE p == Parent(c)
  <2>1. c \in 0..(n - 1) /\ p \in 0..(n - 1) /\ p < c /\ At(h, c) \in Timer /\ At(h, p) \in Timer
    BY <1>1, Tree
  <2>2. \A i \in 1..(n - 1) : i # j /\ Parent(i) # j => heap_less(At(h, Parent(i)), At(h, i))
    BY <1>17 DEF ButDown, Edge, n
  <2> HIDE DEF p, val
  <2>3. p = Parent(c)
    BY DEF p
  <2>4. CASE p \notin P
    <3>1. c \notin P /\ p # j
      BY <1>2, <1>10, <1>17, <2>3, <2>4
    <3>2. val(c) = At(h, c) /\ val(p) = At(h, p)
      BY <2>4, <3>1 DEF val
    <3>3. QED BY <1>17, <2>2, <2>3, <3>1, <3>2
  <2>5. CASE p \in P /\ K(p) = {}
    <3>1. c \notin P
      BY <1>10, <1>17, <2>3, <2>5
    <3>2. val(c) = At(h, c) /\ val(p) = x
      BY <2>5, <3>1 DEF val
    <3>3. ~heap_less(At(h, c), x)
      BY <1>5, <2>1, <2>3, <2>5
    <3>4. heap_less(x, At(h, c))
      BY <1>1, <1>16, <1>17, <2>1, <3>3, LessOrder
    <3>5. QED BY <2>3, <3>2, <3>4
  <2>6. CASE p \in P /\ K(p) # {} /\ c = best(p)
    <3>1. val(p) = At(h, c) /\ c \in P /\ heap_less(At(h, c), x)
      BY <1>9, <2>6 DEF val
    <3>2. CASE K(c) = {}
      <4>1. val(c) = x
        BY <3>1, <3>2 DEF val
      <4>2. QED BY <2>3, <3>1, <4>1
    <3>3. CASE K(c) # {}
      <4>1. val(c) = At(h, best(c)) /\ best(c) \in 1..(n - 1) /\ Parent(best(c)) = c
        BY <1>9, <3>1, <3>3 DEF val
      <4>2. best(c) # j
        <5>1. c < best(c)
          BY <1>1, <4>1, Tree
        <5>2. c >= j
          BY <1>3, <3>1
        <5>3. QED BY <1>1, <2>1, <4>1, <5>1, <5>2
      <4>3. heap_less(At(h, c), At(h, best(c)))
        BY <1>17, <2>2, <4>1, <4>2
      <4>4. QED BY <2>3, <3>1, <4>1, <4>3
    <3>4. QED BY <3>2, <3>3
  <2>7. CASE p \in P /\ K(p) # {} /\ c # best(p)
    <3>1. c \notin P
      BY <1>10, <1>17, <2>3, <2>7
    <3>2. val(c) = At(h, c) /\ val(p) = At(h, best(p))
      BY <2>7, <3>1 DEF val
    <3>3. best(p) \in 1..(n - 1) /\ heap_less(At(h, best(p)), x)
          /\ \A l \in K(p) \ {best(p)} : heap_less(At(h, best(p)), At(h, l))
      BY <1>9, <2>7
    <3>4. CASE c \in K(p)
      BY <2>3, <2>7, <3>2, <3>3, <3>4
    <3>5. CASE c \notin K(p)
      <4>1. ~heap_less(At(h, c), x)
        BY <1>5, <2>1, <2>3, <3>5
      <4>2. heap_less(x, At(h, c))
        BY <1>1, <1>16, <1>17, <2>1, <4>1, LessOrder
      <4>3. At(h, best(p)) \in Timer
        BY <1>1, <3>3
      <4>4. heap_less(At(h, best(p)), At(h, c))
        BY <1>1, <2>1, <3>3, <4>2, <4>3, LessOrder
      <4>5. QED BY <2>3, <3>2, <4>4
    <3>6. QED BY <3>4, <3>5
  <2>8. QED BY <2>4, <2>5, <2>6, <2>7
<1>18. ASSUME ButDown(h, j), NEW c \in 1..(n - 1), Parent(c) = j, j > 0
       PROVE  heap_less(val(Parent(j)), val(c))
  <2> DEFINE g == Parent(j)
  <2>1. g \in 0..(n - 1) /\ g < j /\ At(h, g) \in Timer /\ At(h, c) \in Timer /\ c # j
    <3>1. g \in Nat /\ g < j
      BY <1>1, <1>18, Tree
    <3>2. c \in Nat /\ c > 0 /\ Parent(c) < c
      BY <1>1, Tree
    <3>3. c \in 0..(n - 1) /\ g \in 0..(n - 1)
      BY <1>1, <3>1, <3>2
    <3>4. QED BY <1>1, <1>18, <3>1, <3>2, <3>3
  <2>2. heap_less(At(h, g), At(h, c))
    BY <1>18 DEF ButDown, Bridged, n
  <2>3. \A i \in 1..(n - 1) : i # j /\ Parent(i) # j => heap_less(At(h, Parent(i)), At(h, i))
    BY <1>18 DEF ButDown, Edge, n
  <2>4. g \notin P
    BY <1>1, <1>3, <2>1
  <2> HIDE DEF g, val
  <2>5. val(g) = At(h, g)
    BY <2>4 DEF val
  <2>6. CASE c \notin P
    <3>1. val(c) = At(h, c)
      BY <2>6 DEF val
    <3>2. QED BY <2>2, <2>5, <3>1 DEF g
  <2>7. CASE c \in P /\ K(c) = {}
    <3>1. val(c) = x
      BY <2>7 DEF val
    <3>2. heap_less(At(h, c), x)
      BY <1>2, <1>9, <1>10, <1>18, <2>1, <2>7
    <3>3. heap_less(At(h, g), x)
      BY <1>1, <2>1, <2>2, <3>2, LessOrder
    <3>4. QED BY <2>5, <3>1, <3>3 DEF g
  <2>8. CASE c \in P /\ K(c) # {}
    <3>1. val(c) = At(h, best(c)) /\ best(c) \in 1..(n - 1) /\ Parent(best(c)) = c
      BY <1>9, <2>8 DEF val
    <3>2. best(c) # j
      <4>1. c < best(c)
        BY <1>1, <3>1, Tree
      <4>2. c >= j
        BY <1>3, <2>8
      <4>3. QED BY <1>1, <3>1, <4>1, <4>2
    <3>3. heap_less(At(h, c), At(h, best(c)))
      BY <2>1, <2>3, <3>1, <3>2
    <3>4. At(h, best(c)) \in Timer
      BY <1>1, <3>1
    <3>5. heap_less(At(h, g), At(h, best(c)))
      BY <2>1, <2>2, <3>3, <3>4, LessOrder
    <3>6. QED BY <2>5, <3>1, <3>5 DEF g
  <2>9. QED BY <2>6, <2>7, <2>8
<1>19. ButDown(h, j) => ButUp(u, j)
  <2> HIDE DEF val
  <2> SUFFICES ASSUME ButDown(h, j) PROVE ButUp(u, j)
    OBVIOUS
  <2>1. \A c \in 1..(n - 1) : c \in 0..(n - 1) /\ Parent(c) \in 0..(n - 1)
    BY <1>1, Tree
  <2>2. \A c \in 1..(n - 1) : c # j => Edge(u, c)
    BY <1>13, <1>17, <2>1 DEF Edge
  <2>3. j > 0 => Parent(j) \in 0..(n - 1)
    BY <1>1, Tree
  <2>4. Bridged(u, j)
    <3>1. ASSUME NEW c \in 1..(n - 1), Parent(c) = j, j > 0 PROVE heap_less(At(u, Parent(j)), At(u, c))
      BY <1>13, <1>18, <2>1, <2>3, <3>1
    <3>2. QED BY <1>12, <3>1 DEF Bridged
  <2>5. QED BY <1>12, <2>2, <2>4 DEF ButUp
<1>20. QED BY <1>12, <1>14, <1>15, <1>19 DEF u, n

-------------------------------------------------------------------------------
(* What the callers do with the loops.                                        *)

(* The head of a heap is before all others.                                   *)
LEMMA HeadLeast ==
  ASSUME NEW h \in Seq(Timer), Heap(h)
  PROVE  \A k \in 1..(Len(h) - 1) : heap_less(At(h, 0), At(h, k))
<1> DEFINE n == Len(h)
           S == {k \in 1..(n - 1) : ~heap_less(At(h, 0), At(h, k))}
<1>1. n \in Nat /\ \A k \in 0..(n - 1) : At(h, k) \in Timer
  BY Array
<1> SUFFICES ASSUME S # {} PROVE FALSE
  OBVIOUS
<1>2. S \in SUBSET Nat
  BY <1>1
<1>3. PICK m \in S : \A k \in S : m <= k
  <2> HIDE DEF S
  <2>1. QED BY <1>2, Least
<1>4. m \in 1..(n - 1) /\ ~heap_less(At(h, 0), At(h, m))
  OBVIOUS
<1>5. Parent(m) \in 0..(n - 1) /\ Parent(m) < m /\ m \in 0..(n - 1) /\ 0 \in 0..(n - 1)
  BY <1>1, <1>4, Tree
<1>6. heap_less(At(h, Parent(m)), At(h, m))
  BY <1>4 DEF Heap, Edge
<1>7. Parent(m) # 0
  BY <1>4, <1>6
<1>8. Parent(m) \in 1..(n - 1) /\ Parent(m) \notin S
  BY <1>1, <1>3, <1>4, <1>5, <1>7
<1>9. heap_less(At(h, 0), At(h, Parent(m)))
  BY <1>8
<1>10. heap_less(At(h, 0), At(h, m))
  BY <1>1, <1>5, <1>6, <1>9, LessOrder
<1>11. QED BY <1>4, <1>10

(* The places of an array without its last.                                   *)
LEMMA Trim ==
  ASSUME NEW n \in Nat
  PROVE  /\ \A k \in 1..n : k = n \/ k \in 1..(n - 1)
         /\ \A k \in 1..(n - 1) : k \in 1..n /\ k # n /\ n \in 1..n
         /\ \A k \in 1..n : k # n => k \in 0..(n - 1)
         /\ n >= 1 => n - 1 \in Nat
OBVIOUS

LEMMA PushHeap ==
  ASSUME NEW h \in Seq(Timer), Heap(h), Distinct(h), NEW t \in Timer,
         \A k \in DOMAIN h : h[k].id # t.id
  PROVE  LET u == Push(h, t)
         IN  /\ u \in Seq(Timer) /\ Len(u) = Len(h) + 1 /\ Heap(u) /\ Distinct(u)
             /\ Ent(u) = Ent(h) \cup {t}
<1> DEFINE g == Append(h, t)
           n == Len(h)
<1>1. n \in Nat /\ DOMAIN h = 1..n
  BY Array
<1>2. g \in Seq(Timer) /\ Len(g) = n + 1 /\ DOMAIN g = 1..(n + 1)
      /\ (\A k \in 1..n : g[k] = h[k]) /\ g[n + 1] = t
  BY <1>1, AppendProperties, Array
<1> HIDE DEF g
<1>3. Distinct(g)
  <2>1. ASSUME NEW j \in 1..(n + 1), NEW k \in 1..(n + 1), g[j].id = g[k].id PROVE j = k
    <3>1. CASE j \in 1..n /\ k \in 1..n
      BY <1>1, <1>2, <2>1, <3>1 DEF Distinct
    <3>2. CASE j = n + 1 /\ k \in 1..n
      BY <1>1, <1>2, <2>1, <3>2
    <3>3. CASE k = n + 1 /\ j \in 1..n
      BY <1>1, <1>2, <2>1, <3>3
    <3>4. CASE j = n + 1 /\ k = n + 1
      BY <3>4
    <3>5. QED BY <1>1, <3>1, <3>2, <3>3, <3>4
  <2>2. QED BY <1>2, <2>1 DEF Distinct
<1>4. Ent(g) = Ent(h) \cup {t}
  <2>1. \A k \in 1..(n + 1) : k \in 1..n \/ k = n + 1
    BY <1>1
  <2>2. \A k \in 1..n : k \in 1..(n + 1)
    BY <1>1
  <2>3. n + 1 \in 1..(n + 1)
    BY <1>1
  <2>4. \A e : e \in Ent(g) <=> \E k \in 1..(n + 1) : e = g[k]
    BY <1>2 DEF Ent
  <2>5. \A e : e \in Ent(h) <=> \E k \in 1..n : e = h[k]
    BY <1>1 DEF Ent
  <2>6. \A e \in Ent(g) : e \in Ent(h) \cup {t}
    BY <1>2, <2>1, <2>4, <2>5
  <2>7. \A e \in Ent(h) : e \in Ent(g)
    BY <1>2, <2>2, <2>4, <2>5
  <2>8. t \in Ent(g)
    BY <1>2, <2>3, <2>4
  <2>9. QED BY <2>6, <2>7, <2>8
<1>5. \A k \in 0..(n - 1) : At(g, k) = At(h, k)
  BY <1>1, <1>2 DEF At
<1>6. ButUp(g, n)
  <2>1. ASSUME NEW c \in 1..n, c # n PROVE Edge(g, c)
    <3>1. c \in 1..(n - 1) /\ c \in 0..(n - 1)
      BY <1>1, <2>1, Trim
    <3>2. Parent(c) \in 0..(n - 1)
      <4>1. c \in Nat \ {0} /\ c <= n - 1 /\ n \in Nat
        BY <1>1, <3>1
      <4>2. Parent(c) \in Nat /\ Parent(c) < c
        BY <4>1, Tree
      <4> HIDE DEF n
      <4>3. QED BY <4>1, <4>2
    <3>3. QED BY <1>5, <3>1, <3>2 DEF Heap, Edge
  <2>2. \A c \in 1..n : Parent(c) # n
    BY <1>1, Tree
  <2>3. Len(g) - 1 = n
    BY <1>1, <1>2
  <2>4. QED BY <2>1, <2>2, <2>3 DEF ButUp, Bridged
<1>7. n \in 0..(Len(g) - 1)
  BY <1>1, <1>2
<1>8. QED BY <1>2, <1>3, <1>4, <1>6, <1>7, UpHeap DEF Push, g

(* The array without its last entry.                                          *)
LEMMA CutHeap ==
  ASSUME NEW h \in Seq(Timer), Distinct(h), h # <<>>
  PROVE  LET u == SubSeq(h, 1, Len(h) - 1)
         IN  /\ u \in Seq(Timer) /\ Len(u) = Len(h) - 1 /\ DOMAIN u = 1..(Len(h) - 1) /\ Distinct(u)
             /\ \A k \in 1..(Len(h) - 1) : u[k] = h[k]
             /\ \A k \in 0..(Len(h) - 2) : At(u, k) = At(h, k)
             /\ Ent(u) = Ent(h) \ {At(h, Len(h) - 1)}
             /\ Heap(h) => Heap(u)
<1> DEFINE n == Len(h)
           u == SubSeq(h, 1, n - 1)
<1>1. n \in Nat /\ n >= 1 /\ DOMAIN h = 1..n /\ \A k \in 1..n : h[k] \in Timer
  BY EmptySeq, Array
<1>2. u = [k \in 1..(n - 1) |-> h[k]]
  BY <1>1 DEF SubSeq
<1>3. u \in Seq(Timer) /\ Len(u) = n - 1 /\ DOMAIN u = 1..(n - 1)
  <2>1. n - 1 \in Nat /\ \A k \in 1..(n - 1) : h[k] \in Timer
    BY <1>1, Trim
  <2> HIDE DEF n
  <2>2. u \in [1..(n - 1) -> Timer]
    BY <1>2, <2>1
  <2> HIDE DEF u
  <2>3. QED BY <2>1, <2>2, SeqDef, LenProperties
<1>4. \A k \in 1..(n - 1) : u[k] = h[k] /\ k \in 1..n
  BY <1>1, <1>2
<1> HIDE DEF u
<1>5. \A k \in 0..(n - 2) : At(u, k) = At(h, k)
  BY <1>1, <1>4 DEF At
<1>6. Distinct(u)
  BY <1>1, <1>3, <1>4 DEF Distinct
<1>7. Ent(u) = Ent(h) \ {h[n]}
  <2>1. \A e : e \in Ent(u) <=> \E k \in 1..(n - 1) : e = u[k]
    BY <1>3 DEF Ent
  <2>2. \A e : e \in Ent(h) <=> \E k \in 1..n : e = h[k]
    BY <1>1 DEF Ent
  <2>3. \A k \in 1..n : k = n \/ k \in 1..(n - 1)
    BY <1>1, Trim
  <2>4. \A k \in 1..(n - 1) : h[k] # h[n]
    <3>1. \A k \in 1..(n - 1) : k # n /\ k \in 1..n /\ n \in 1..n
      BY <1>1, Trim
    <3>2. QED BY <1>1, <3>1 DEF Distinct
  <2>5. \A e \in Ent(u) : e \in Ent(h) \ {h[n]}
    BY <1>4, <2>1, <2>2, <2>4
  <2>6. \A e \in Ent(h) \ {h[n]} : e \in Ent(u)
    BY <1>4, <2>1, <2>2, <2>3
  <2>7. QED BY <2>5, <2>6
<1>8. Heap(h) => Heap(u)
  <2> SUFFICES ASSUME Heap(h), NEW c \in 1..(n - 2) PROVE Edge(u, c)
    <3>1. Len(u) - 1 = n - 2
      BY <1>1, <1>3
    <3>2. QED BY <3>1 DEF Heap
  <2>1. c \in 1..(n - 1) /\ c \in 0..(n - 2) /\ Parent(c) \in 0..(n - 2)
    BY <1>1, Tree
  <2>2. QED BY <1>5, <2>1 DEF Heap, Edge
<1>9. At(h, n - 1) = h[n]
  BY <1>1 DEF At
<1>10. QED BY <1>3, <1>4, <1>5, <1>6, <1>7, <1>8, <1>9 DEF u

(* The last entry in the place of j.                                          *)
LEMMA TailMoved ==
  ASSUME NEW h \in Seq(Timer), Heap(h), Distinct(h), NEW j \in 0..(Len(h) - 2)
  PROVE  LET g == [SubSeq(h, 1, Len(h) - 1) EXCEPT ![j + 1] = At(h, Len(h) - 1)]
         IN  /\ g \in Seq(Timer) /\ Len(g) = Len(h) - 1 /\ Distinct(g) /\ ButDown(g, j)
             /\ Ent(g) = Ent(h) \ {At(h, j)}
<1> DEFINE n == Len(h)
           s == SubSeq(h, 1, n - 1)
           last == At(h, n - 1)
           g == [s EXCEPT ![j + 1] = last]
<1>0. h # <<>>
  BY EmptySeq
<1>1. n \in Nat /\ DOMAIN h = 1..n /\ (\A k \in 0..(n - 1) : At(h, k) \in Timer)
      /\ \A k \in 1..n : h[k] \in Timer
  BY Array
<1>2. s \in Seq(Timer) /\ Len(s) = n - 1 /\ DOMAIN s = 1..(n - 1) /\ Distinct(s)
      /\ (\A k \in 1..(n - 1) : s[k] = h[k]) /\ Ent(s) = Ent(h) \ {last}
  BY <1>0, CutHeap
<1>3. j + 1 \in 1..(n - 1) /\ n - 1 \in 0..(n - 1) /\ n \in 1..n /\ j \in Nat
  BY <1>1
<1>4. last \in Timer /\ last = h[n]
  BY <1>1, <1>3 DEF At
<1> HIDE DEF s, last
<1>5. DOMAIN g = 1..(n - 1) /\ (\A k \in 1..(n - 1) : g[k] = IF k = j + 1 THEN last ELSE h[k])
  BY <1>2, <1>3
<1>6. g = [k \in 1..(n - 1) |-> g[k]]
  <2>1. s = [k \in 1..(n - 1) |-> s[k]]
    BY <1>2, SeqDef
  <2>2. QED BY <1>2, <2>1
<1>7. g \in Seq(Timer) /\ Len(g) = n - 1
  <2>1. \A k \in 1..(n - 1) : g[k] \in Timer
    BY <1>1, <1>4, <1>5
  <2> HIDE DEF g
  <2>2. g \in [1..(n - 1) -> Timer] /\ n - 1 \in Nat
    BY <1>1, <1>3, <1>6, <2>1
  <2>3. QED BY <2>2, SeqDef, LenProperties
<1> HIDE DEF g
<1>8. \A k \in 1..(n - 1) : h[k].id # last.id
  <2>1. \A k \in 1..(n - 1) : k \in 1..n /\ k # n
    BY <1>1, Trim
  <2>2. QED BY <1>1, <1>3, <1>4, <2>1 DEF Distinct
<1>9. \A k, l \in 1..(n - 1) : h[k].id = h[l].id => k = l
  BY <1>1, <1>2 DEF Distinct
<1>10. Distinct(g)
  BY <1>5, <1>8, <1>9 DEF Distinct
<1>11. Ent(g) = Ent(h) \ {At(h, j)}
  <2>1. \A e : e \in Ent(g) <=> \E k \in 1..(n - 1) : e = g[k]
    BY <1>5 DEF Ent
  <2>2. \A e : e \in Ent(h) <=> \E k \in 1..n : e = h[k]
    BY <1>1 DEF Ent
  <2>3. \A k \in 1..n : k = n \/ k \in 1..(n - 1)
    BY <1>1, Trim
  <2>4. \A k \in 1..(n - 1) : k \in 1..n
    BY <1>1
  <2>5. At(h, j) = h[j + 1]
    BY DEF At
  <2>6. \A e \in Ent(g) : e \in Ent(h) /\ e # At(h, j)
    <3>1. ASSUME NEW k \in 1..(n - 1), k = j + 1 PROVE g[k] \in Ent(h) /\ g[k] # h[j + 1]
      BY <1>3, <1>4, <1>5, <1>8, <2>2, <3>1
    <3>2. ASSUME NEW k \in 1..(n - 1), k # j + 1 PROVE g[k] \in Ent(h) /\ g[k] # h[j + 1]
      BY <1>3, <1>5, <1>9, <2>2, <2>4, <3>2
    <3>3. QED BY <2>1, <2>5, <3>1, <3>2
  <2>7. \A e \in Ent(h) : e # At(h, j) => e \in Ent(g)
    <3>1. h[n] \in Ent(g)
      BY <1>3, <1>4, <1>5, <2>1
    <3>2. \A k \in 1..(n - 1) : k # j + 1 => h[k] \in Ent(g)
      BY <1>5, <2>1
    <3>3. QED BY <2>2, <2>3, <2>5, <3>1, <3>2
  <2>8. QED BY <2>6, <2>7
<1>12. \A k \in 0..(n - 2) : k # j => At(g, k) = At(h, k)
  <2>1. \A k \in 0..(n - 2) : k + 1 \in 1..(n - 1) /\ k \in Int
    BY <1>1
  <2>2. QED BY <1>3, <1>5, <2>1 DEF At
<1>13. \A c \in 1..(n - 2) : c \in 0..(n - 2) /\ Parent(c) \in 0..(n - 2) /\ Parent(c) # c
                             /\ heap_less(At(h, Parent(c)), At(h, c))
  <2>1. \A c \in 1..(n - 2) : c \in 0..(n - 2) /\ Parent(c) \in 0..(n - 2) /\ Parent(c) # c /\ c \in 1..(n - 1)
    BY <1>1, Tree
  <2>2. QED BY <2>1 DEF Heap, Edge
<1>14. ButDown(g, j)
  <2>1. \A c \in 1..(n - 2) : c # j /\ Parent(c) # j => Edge(g, c)
    BY <1>12, <1>13 DEF Edge
  <2>2. ASSUME NEW c \in 1..(n - 2), Parent(c) = j, j > 0 PROVE heap_less(At(g, Parent(j)), At(g, c))
    <3>1. Parent(j) \in 0..(n - 2) /\ Parent(j) # j /\ j \in 1..(n - 1)
      BY <1>1, <1>3, <2>2, Tree
    <3>2. heap_less(At(h, Parent(j)), At(h, j)) /\ heap_less(At(h, j), At(h, c))
      BY <1>13, <2>2, <3>1 DEF Heap, Edge
    <3>3. At(h, Parent(j)) \in Timer /\ At(h, j) \in Timer /\ At(h, c) \in Timer
      BY <1>1, <1>3, <3>1
    <3>4. heap_less(At(h, Parent(j)), At(h, c))
      BY <3>2, <3>3, LessOrder
    <3>5. c \in 0..(n - 2) /\ c # j
      BY <1>13, <2>2
    <3>6. QED BY <1>12, <3>1, <3>4, <3>5
  <2>3. Len(g) - 1 = n - 2
    BY <1>1, <1>7
  <2>4. QED BY <2>1, <2>2, <2>3 DEF ButDown, Bridged
<1>15. QED BY <1>7, <1>10, <1>11, <1>14 DEF g, s, last

LEMMA RemoveHeap ==
  ASSUME NEW h \in Seq(Timer), Heap(h), Distinct(h), NEW j \in 0..(Len(h) - 1)
  PROVE  LET u == HeapRemove(h, j)
         IN  /\ u \in Seq(Timer) /\ Len(u) = Len(h) - 1 /\ Heap(u) /\ Distinct(u)
             /\ Ent(u) = Ent(h) \ {At(h, j)}
<1> DEFINE n == Len(h)
           s == SubSeq(h, 1, n - 1)
           g == [s EXCEPT ![j + 1] = At(h, n - 1)]
<1>0. h # <<>> /\ n \in Nat
  BY EmptySeq, Array
<1>1. CASE j < n - 1
  <2>1. j \in 0..(n - 2)
    BY <1>0, <1>1
  <2>2. g \in Seq(Timer) /\ Len(g) = n - 1 /\ Distinct(g) /\ ButDown(g, j) /\ Ent(g) = Ent(h) \ {At(h, j)}
    BY <2>1, TailMoved
  <2>3. HeapRemove(h, j) = heap_up(heap_down(g, j), j)
    BY <1>1 DEF HeapRemove
  <2>4. j \in 0..(Len(g) - 1)
    BY <1>0, <2>1, <2>2
  <2> DEFINE d == heap_down(g, j)
  <2> HIDE DEF g
  <2>5. d \in Seq(Timer) /\ Len(d) = n - 1 /\ Distinct(d) /\ ButUp(d, j) /\ Ent(d) = Ent(h) \ {At(h, j)}
    BY <2>2, <2>4, DownHeap
  <2>6. j \in 0..(Len(d) - 1)
    BY <2>2, <2>4, <2>5
  <2> HIDE DEF d
  <2> DEFINE u == heap_up(d, j)
  <2>7. u \in Seq(Timer) /\ Len(u) = n - 1 /\ Heap(u) /\ Distinct(u) /\ Ent(u) = Ent(h) \ {At(h, j)}
    BY <2>5, <2>6, UpHeap
  <2>8. QED BY <2>3, <2>7 DEF d
<1>2. CASE ~(j < n - 1)
  <2>1. j = n - 1
    BY <1>0, <1>2
  <2>2. HeapRemove(h, j) = s
    BY <1>2 DEF HeapRemove
  <2>3. QED BY <1>0, <2>1, <2>2, CutHeap
<1>3. QED BY <1>1, <1>2

LEMMA PopHeap ==
  ASSUME NEW h \in Seq(Timer), Heap(h), Distinct(h), h # <<>>
  PROVE  LET u == HeapPop(h)
         IN  /\ u \in Seq(Timer) /\ Len(u) = Len(h) - 1 /\ Heap(u) /\ Distinct(u)
             /\ Ent(u) = Ent(h) \ {At(h, 0)}
<1> DEFINE n == Len(h)
           s == SubSeq(h, 1, n - 1)
           g == [s EXCEPT ![1] = h[n]]
<1>0. n \in Nat /\ n >= 1 /\ DOMAIN h = 1..n
  BY EmptySeq, Array
<1>1. CASE n = 1
  <2>1. HeapPop(h) = <<>>
    BY <1>1 DEF HeapPop
  <2>2. <<>> \in Seq(Timer) /\ Len(<<>>) = 0 /\ DOMAIN <<>> = {}
    BY EmptySeq
  <2>3. Ent(h) = {h[1]} /\ At(h, 0) = h[1]
    BY <1>0, <1>1 DEF Ent, At
  <2>4. Ent(<<>>) = {} /\ Distinct(<<>>)
    BY <2>2 DEF Ent, Distinct
  <2>5. Heap(<<>>)
    BY <2>2 DEF Heap
  <2>6. QED BY <1>1, <2>1, <2>2, <2>3, <2>4, <2>5
<1>2. CASE n # 1
  <2>1. 0 \in 0..(n - 2) /\ 0 + 1 = 1 /\ At(h, n - 1) = h[n]
    BY <1>0, <1>2 DEF At
  <2>2. g \in Seq(Timer) /\ Len(g) = n - 1 /\ Distinct(g) /\ ButDown(g, 0) /\ Ent(g) = Ent(h) \ {At(h, 0)}
    BY <2>1, TailMoved
  <2>3. HeapPop(h) = heap_down(g, 0)
    BY <1>2 DEF HeapPop
  <2>4. 0 \in 0..(Len(g) - 1)
    BY <1>0, <2>1, <2>2
  <2> HIDE DEF g
  <2> DEFINE u == heap_down(g, 0)
  <2>5. u \in Seq(Timer) /\ Len(u) = n - 1 /\ Distinct(u) /\ ButUp(u, 0) /\ Ent(u) = Ent(h) \ {At(h, 0)}
    BY <2>2, <2>4, DownHeap
  <2>6. ButUp(u, 0) => Heap(u)
    BY DEF ButUp, Heap
  <2>7. QED BY <2>3, <2>5, <2>6
<1>3. QED BY <1>1, <1>2

-------------------------------------------------------------------------------
(* The inductive invariant.                                                   *)

(* What is waiting is a heap of timers with ids of their own; what is in      *)
(* flight is not waiting, and there is one exactly while a callback runs.     *)
Waiting == heap \in Seq(Timer) /\ Heap(heap) /\ Distinct(heap)
InFlight ==
  /\ firing \in Seq(Timer)
  /\ Len(firing) = IF pc = "callback" THEN 1 ELSE 0
  /\ \A t \in Ent(firing) : \A u \in Ent(heap) : u.id # t.id

(* Every timer was handed its id, is not later than the bound, and runs for   *)
(* ever when it is `\t`'s.                                                     *)
Dated ==
  \A t \in Ent(heap) \cup Ent(firing) :
    t.id < next_id /\ t.exp >= -MaxLate /\ (t.q => t.num = 0)

Counters ==
  /\ cap \in Nat \ {0} /\ next_id \in 0..MaxId
  /\ pc \in {"idle", "loop", "callback"} /\ fnow \in (-MaxLate)..0

(* The place the timer in flight left in the array may be taken by an add;    *)
(* its own re-push is then the one entry too many.                            *)
Room == Len(heap) + Len(firing) <= cap + 1

(* `\t` owns the timer it names, unless that was deleted by its number; its   *)
(* number is never given to another, and when it is off it names none.        *)
All == Ent(heap) \cup Ent(firing)
Owned ==
  /\ g_timer_on \in BOOLEAN /\ severed \in BOOLEAN /\ g_timer_id \in -1..(MaxId - 1)
  /\ ~g_timer_on => g_timer_id = -1
  /\ g_timer_id < next_id
  /\ g_timer_on /\ ~severed => \E t \in All : t.id = g_timer_id
  /\ severed => \A t \in All : t.id # g_timer_id
  /\ \A t \in All : t.id = g_timer_id => t.q

Sound == Waiting /\ InFlight /\ Dated /\ Counters /\ Room /\ Owned
Guarded == Waiting /\ InFlight /\ Dated /\ Counters /\ Room

(* A sequence of one, and of none.                                            *)
LEMMA OneEntry ==
  ASSUME NEW s \in Seq(Timer), Len(s) = 1
  PROVE  Head(s) \in Timer /\ Ent(s) = {Head(s)}
<1>1. DOMAIN s = 1..1 /\ s # <<>>
  <2>1. DOMAIN s = 1..1
    BY Array
  <2>2. 1 # 0
    OBVIOUS
  <2>3. ASSUME s = <<>> PROVE Len(s) = 0
    BY <2>3, EmptySeq
  <2>4. QED BY <2>1, <2>2, <2>3, Zenon
<1>2. Head(s) = s[1] /\ s[1] \in Timer
  BY <1>1, Array, HeadTailProperties
<1>3. DOMAIN s = {1}
  BY <1>1
<1>4. QED BY <1>2, <1>3 DEF Ent

LEMMA NoEntry ==
  /\ \A s \in Seq(Timer) : Len(s) = 0 => Ent(s) = {}
  /\ <<>> \in Seq(Timer) /\ Len(<<>>) = 0 /\ Ent(<<>>) = {} /\ Distinct(<<>>) /\ Heap(<<>>)
<1>1. ASSUME NEW s \in Seq(Timer), Len(s) = 0 PROVE Ent(s) = {}
  <2>1. DOMAIN s = {}
    BY <1>1, Array
  <2>2. QED BY <2>1 DEF Ent
<1>2. <<>> \in Seq(Timer) /\ Len(<<>>) = 0 /\ DOMAIN <<>> = {}
  BY EmptySeq
<1>3. Ent(<<>>) = {} /\ Distinct(<<>>)
  BY <1>2 DEF Ent, Distinct
<1>4. Heap(<<>>)
  BY <1>2 DEF Heap
<1>5. QED BY <1>1, <1>2, <1>3, <1>4

LEMMA OneTimer ==
  ASSUME NEW t \in Timer
  PROVE  <<t>> \in Seq(Timer) /\ Len(<<t>>) = 1 /\ Ent(<<t>>) = {t}
<1>1. <<t>> \in Seq(Timer) /\ Len(<<t>>) = 1 /\ <<t>>[1] = t
  OBVIOUS
<1>2. DOMAIN <<t>> = {1}
  BY <1>1, Array
<1> DEFINE s == <<t>>
<1>3. s[1] = t /\ DOMAIN s = {1}
  BY <1>1, <1>2
<1> HIDE DEF s
<1>4. Ent(s) = {t}
  BY <1>3 DEF Ent
<1>5. QED BY <1>1, <1>4 DEF s

(* A deletion takes out the timer of that id, and only that one.              *)
LEMMA WithoutHeap ==
  ASSUME Waiting, NEW id
  PROVE  LET u == Without(id)
         IN  /\ u \in Seq(Timer) /\ Heap(u) /\ Distinct(u) /\ Len(u) <= Len(heap)
             /\ Ent(u) = {t \in Ent(heap) : t.id # id}
<1> DEFINE Found == {k \in DOMAIN heap : heap[k].id = id}
           c == CHOOSE k \in Found : TRUE
<1>1. heap \in Seq(Timer) /\ Heap(heap) /\ Distinct(heap)
  BY DEF Waiting
<1>2. Len(heap) \in Nat /\ DOMAIN heap = 1..Len(heap)
  BY <1>1, Array
<1>3. CASE Found = {}
  <2>1. Without(id) = heap
    BY <1>3 DEF Without
  <2>2. \A t \in Ent(heap) : t.id # id
    BY <1>3 DEF Ent
  <2>3. Ent(heap) = {t \in Ent(heap) : t.id # id}
    BY <2>2
  <2>4. QED BY <1>1, <1>2, <2>1, <2>3
<1>4. CASE Found # {}
  <2>1. c \in Found
    BY <1>4
  <2>2. Without(id) = HeapRemove(heap, c - 1)
    BY <1>4 DEF Without
  <2> HIDE DEF c
  <2>3. c \in DOMAIN heap /\ heap[c].id = id /\ c - 1 \in 0..(Len(heap) - 1)
    BY <1>2, <2>1
  <2>4. At(heap, c - 1) = heap[c]
    <3>1. (c - 1) + 1 = c
      BY <1>2, <2>3
    <3>2. QED BY <3>1 DEF At
  <2> DEFINE u == HeapRemove(heap, c - 1)
  <2>5. u \in Seq(Timer) /\ Len(u) = Len(heap) - 1 /\ Heap(u) /\ Distinct(u)
        /\ Ent(u) = Ent(heap) \ {heap[c]}
    BY <1>1, <2>3, <2>4, RemoveHeap
  <2>6. \A t \in Ent(heap) : t.id = id => t = heap[c]
    BY <1>1, <2>3 DEF Distinct, Ent
  <2>7. Ent(heap) \ {heap[c]} = {t \in Ent(heap) : t.id # id}
    BY <2>3, <2>6
  <2> HIDE DEF u
  <2>8. Len(u) <= Len(heap)
    BY <1>2, <2>5
  <2>9. QED BY <2>2, <2>5, <2>7, <2>8 DEF u
<1>5. QED BY <1>3, <1>4

LEMMA Fields ==
  ASSUME NEW t \in Timer
  PROVE  /\ t.id \in Nat /\ t.tic \in Nat /\ t.num \in Nat /\ t.exp \in Int /\ t.q \in BOOLEAN
         /\ LET u == [t EXCEPT !.exp = @ - 1]
            IN  u \in Timer /\ u.id = t.id /\ u.exp = t.exp - 1 /\ u.num = t.num /\ u.q = t.q
         /\ LET u == [t EXCEPT !.exp = @ + t.tic, !.num = IF @ = 0 THEN 0 ELSE @ - 1]
            IN  /\ u \in Timer /\ u.id = t.id /\ u.exp = t.exp + t.tic /\ u.q = t.q
                /\ u.num = IF t.num = 0 THEN 0 ELSE t.num - 1
<1> DEFINE n == IF t.num = 0 THEN 0 ELSE t.num - 1
           u == [t EXCEPT !.exp = t.exp - 1]
           v == [t EXCEPT !.exp = t.exp + t.tic, !.num = n]
<1>1. t.id \in Nat /\ t.tic \in Nat /\ t.num \in Nat /\ t.exp \in Int
  BY DEF Timer
<1>2. t.q \in BOOLEAN
  BY DEF Timer
<1>3. n \in Nat /\ t.exp - 1 \in Int /\ t.exp + t.tic \in Int
  BY <1>1
<1>4. \A e \in Int : [t EXCEPT !.exp = e] \in Timer
  BY DEF Timer
<1>5. \A e \in Int, m \in Nat : [t EXCEPT !.exp = e, !.num = m] \in Timer
  BY DEF Timer
<1>6. u.id = t.id /\ u.exp = t.exp - 1 /\ u.num = t.num /\ u.q = t.q
  BY DEF Timer
<1> HIDE DEF n
<1>7. v.id = t.id /\ v.exp = t.exp + t.tic /\ v.num = n /\ v.q = t.q
  BY DEF Timer
<1>8. u \in Timer /\ v \in Timer
  BY <1>3, <1>4, <1>5
<1> HIDE DEF u, v
<1>9. QED BY <1>1, <1>2, <1>6, <1>7, <1>8 DEF u, v, n

(* A tick moves every deadline, and no timer past another.                    *)
LEMMA SoonerHeap ==
  ASSUME NEW h \in Seq(Timer)
  PROVE  LET u == Sooner(h)
         IN  /\ u \in Seq(Timer) /\ Len(u) = Len(h)
             /\ Distinct(h) => Distinct(u)
             /\ Heap(h) => Heap(u)
             /\ Ent(u) = {[t EXCEPT !.exp = @ - 1] : t \in Ent(h)}
<1> DEFINE n == Len(h)
           u == Sooner(h)
           new(t) == [t EXCEPT !.exp = @ - 1]
<1>1. n \in Nat /\ DOMAIN h = 1..n /\ (\A k \in 1..n : h[k] \in Timer)
  BY Array
<1>2. \A t \in Timer : new(t) \in Timer /\ new(t).id = t.id /\ new(t).exp = t.exp - 1
  BY Fields
<1>3. u = [k \in 1..n |-> new(h[k])]
  BY <1>1 DEF Sooner
<1> HIDE DEF u, new, n
<1>4. u \in [1..n -> Timer]
  BY <1>1, <1>2, <1>3
<1>5. u \in Seq(Timer) /\ Len(u) = n /\ DOMAIN u = 1..n
  BY <1>1, <1>4, SeqDef, LenProperties
<1>6. \A k \in 1..n : u[k] = new(h[k])
  BY <1>3
<1>7. Distinct(h) => Distinct(u)
  BY <1>1, <1>2, <1>5, <1>6 DEF Distinct
<1>8. \A j \in 0..(n - 1) : j + 1 \in 1..n
  BY <1>1
<1>9. \A j \in 0..(n - 1) : At(h, j) \in Timer /\ At(u, j) = new(At(h, j))
  BY <1>1, <1>6, <1>8 DEF At
<1>10. \A a, b \in Timer : heap_less(a, b) => heap_less(new(a), new(b))
  <2> TAKE a, b \in Timer
  <2>1. a.exp \in Int /\ b.exp \in Int
    BY DEF Timer
  <2>2. QED BY <1>2, <2>1 DEF heap_less
<1>11. Heap(h) => Heap(u)
  <2> SUFFICES ASSUME Heap(h), NEW c \in 1..(n - 1) PROVE Edge(u, c)
    BY <1>5 DEF Heap
  <2>1. c \in Nat \ {0} /\ c <= n - 1 /\ c \in 0..(n - 1)
    BY <1>1
  <2>2. Parent(c) \in Nat /\ Parent(c) < c
    BY <2>1, Tree
  <2>3. Parent(c) \in 0..(n - 1)
    BY <1>1, <2>1, <2>2
  <2>4. heap_less(At(h, Parent(c)), At(h, c))
    BY DEF Heap, Edge, n
  <2>5. QED BY <1>9, <1>10, <2>1, <2>3, <2>4 DEF Edge
<1>12. Ent(u) = {new(t) : t \in Ent(h)}
  <2>1. \A e : e \in Ent(u) <=> \E k \in 1..n : e = u[k]
    BY <1>5 DEF Ent
  <2>2. \A e : e \in Ent(h) <=> \E k \in 1..n : e = h[k]
    BY <1>1 DEF Ent
  <2>3. QED BY <1>6, <2>1, <2>2
<1>13. QED BY <1>5, <1>7, <1>11, <1>12 DEF u, n, new

-------------------------------------------------------------------------------
(* What the steps do to the arrays.                                           *)

(* Timers are taken out between polls or by a callback.                       *)
LEMMA RemovedGuarded ==
  ASSUME Guarded, heap' \in Seq(Timer), Heap(heap'), Distinct(heap'),
         Ent(heap') \subseteq Ent(heap), Len(heap') <= Len(heap),
         UNCHANGED <<next_id, pc, fnow, firing>>, cap' \in Nat, cap' >= cap
  PROVE  Guarded'
<1>1. Waiting'
  BY DEF Waiting
<1>2. InFlight' /\ Dated'
  BY DEF Guarded, InFlight, Dated
<1>3. Counters'
  BY DEF Guarded, Counters
<1>4. Room'
  <2>1. Len(heap') \in Nat /\ Len(heap) \in Nat /\ Len(firing) \in Nat /\ cap \in Nat
    BY Array DEF Guarded, Waiting, InFlight, Counters
  <2>2. Len(heap) + Len(firing) <= cap + 1 /\ firing' = firing
    BY DEF Guarded, Room
  <2>3. Len(heap') + Len(firing') <= cap' + 1
    BY <2>1, <2>2
  <2>4. QED BY <2>3 DEF Room
<1>5. QED BY <1>1, <1>2, <1>3, <1>4 DEF Guarded

(* ray_timers_add: a new timer is pushed, on what is left of the array.       *)
LEMMA AddedGuarded ==
  ASSUME Guarded, NEW h \in Seq(Timer), Heap(h), Distinct(h), Ent(h) \subseteq Ent(heap),
         Len(h) <= Len(heap), NEW t \in Timer, t.id = next_id, t.exp >= 0, t.q => t.num = 0,
         next_id < MaxId, heap' = Push(h, t), cap' = Grown(h), next_id' = next_id + 1,
         UNCHANGED <<pc, fnow, firing>>
  PROVE  Guarded' /\ Ent(heap') = Ent(h) \cup {t}
<1>1. next_id \in Nat /\ MaxId \in Nat /\ MaxLate \in Nat /\ next_id \in 0..MaxId
  BY TimersAssumption DEF Guarded, Counters
<1>2. \A u \in Ent(heap) \cup Ent(firing) : u.id < next_id /\ u.exp >= -MaxLate /\ (u.q => u.num = 0)
  BY DEF Guarded, Dated
<1>3. \A u \in Ent(heap) \cup Ent(firing) : u.id \in Nat
  <2>1. \A s \in Seq(Timer) : \A u \in Ent(s) : u \in Timer
    BY Array DEF Ent
  <2>2. QED BY <2>1, Fields DEF Guarded, Waiting, InFlight
<1>4. \A u \in Ent(heap) \cup Ent(firing) : u.id # t.id
  BY <1>1, <1>2, <1>3
<1>5. \A k \in DOMAIN h : h[k].id # t.id
  BY <1>4 DEF Ent
<1> DEFINE g == Push(h, t)
<1>6. g \in Seq(Timer) /\ Len(g) = Len(h) + 1 /\ Heap(g) /\ Distinct(g) /\ Ent(g) = Ent(h) \cup {t}
  BY <1>5, PushHeap
<1> HIDE DEF g
<1>7. heap' = g
  BY DEF g
<1>8. Waiting' /\ Ent(heap') = Ent(h) \cup {t}
  BY <1>6, <1>7 DEF Waiting
<1>9. InFlight'
  BY <1>4, <1>8 DEF Guarded, InFlight
<1>10. Dated'
  <2>1. t.id < next_id' /\ t.exp >= -MaxLate
    <3>1. t.exp \in Int
      BY Fields
    <3>2. QED BY <1>1, <3>1
  <2>2. \A u \in Ent(heap) \cup Ent(firing) : u.id < next_id'
    BY <1>1, <1>2, <1>3
  <2>3. QED BY <1>2, <1>8, <2>1, <2>2 DEF Dated
<1>11. cap \in Nat \ {0} /\ cap' \in Nat \ {0} /\ Len(h) \in Nat /\ Len(heap) \in Nat
  BY Array DEF Guarded, Waiting, Counters, Grown
<1>12. Counters'
  <2>1. next_id' \in 0..MaxId
    BY <1>1
  <2>2. QED BY <1>11, <2>1 DEF Guarded, Counters
<1>13. Room'
  <2>1. Len(firing) \in Nat /\ Len(firing) <= 1
    BY DEF Guarded, InFlight
  <2>2. Len(heap) + Len(firing) <= cap + 1
    BY DEF Guarded, Room
  <2>3. cap' = IF Len(h) >= cap THEN cap * 2 ELSE cap
    BY DEF Grown
  <2>4. Len(g) + Len(firing) <= cap' + 1
    BY <1>6, <1>11, <2>1, <2>2, <2>3
  <2>5. QED BY <1>7, <2>4 DEF Room
<1>14. QED BY <1>8, <1>9, <1>10, <1>12, <1>13 DEF Guarded

LEMMA AllTimers ==
  ASSUME Guarded
  PROVE  \A t \in Ent(heap) \cup Ent(firing) : t \in Timer /\ t.id \in Nat
<1>1. \A s \in Seq(Timer) : \A u \in Ent(s) : u \in Timer
  BY Array DEF Ent
<1>2. \A u \in Timer : u.id \in Nat
  BY DEF Timer
<1>3. heap \in Seq(Timer) /\ firing \in Seq(Timer)
  BY DEF Guarded, Waiting, InFlight
<1>4. QED BY <1>1, <1>2, <1>3

(* `\t` forgets its timer with the timer itself.                              *)
LEMMA OffOwned ==
  ASSUME g_timer_id' = -1, g_timer_on' = FALSE, severed' = FALSE, Guarded'
  PROVE  Owned'
<1>1. -1 \in -1..(MaxId - 1) /\ -1 < next_id'
  BY TimersAssumption DEF Guarded, Counters
<1>2. \A t \in All' : t.id # -1
  <2>1. \A s \in Seq(Timer) : \A u \in Ent(s) : u \in Timer
    BY Array DEF Ent
  <2>2. \A u \in Timer : u.id # -1
    BY DEF Timer
  <2>3. heap' \in Seq(Timer) /\ firing' \in Seq(Timer)
    BY DEF Guarded, Waiting, InFlight
  <2>4. QED BY <2>1, <2>2, <2>3 DEF All
<1>3. QED BY <1>1, <1>2 DEF Owned

(* What `\t` owns is kept by a step that keeps the ids it may name, and whose *)
(* they are.                                                                  *)
LEMMA KeptOwned ==
  ASSUME Owned, UNCHANGED qstate, next_id \in Nat, next_id' \in Nat, next_id' >= next_id,
         \A t \in All : t.id = g_timer_id => \E u \in All' : u.id = t.id,
         \A u \in All' : u.id = g_timer_id => \E t \in All : t.id = u.id /\ t.q = u.q
  PROVE  Owned'
<1>1. g_timer_on' = g_timer_on /\ g_timer_id' = g_timer_id /\ severed' = severed
  BY DEF qstate
<1>2. g_timer_on \in BOOLEAN /\ severed \in BOOLEAN /\ g_timer_id \in -1..(MaxId - 1)
      /\ (~g_timer_on => g_timer_id = -1) /\ g_timer_id < next_id
  BY DEF Owned
<1>3. g_timer_id < next_id'
  BY <1>2, TimersAssumption
<1>4. g_timer_on /\ ~severed => \E t \in All' : t.id = g_timer_id
  BY DEF Owned
<1>5. severed => \A t \in All' : t.id # g_timer_id
  BY DEF Owned
<1>6. \A t \in All' : t.id = g_timer_id => t.q
  BY DEF Owned
<1>7. QED BY <1>1, <1>2, <1>3, <1>4, <1>5, <1>6 DEF Owned

(* The timer of `\t`, deleted before another is set.                          *)
LEMMA QGone ==
  ASSUME Guarded, Owned
  PROVE  LET h == IF g_timer_id >= 0 THEN Without(g_timer_id) ELSE heap
         IN  /\ h \in Seq(Timer) /\ Heap(h) /\ Distinct(h) /\ Len(h) <= Len(heap)
             /\ Ent(h) = {t \in Ent(heap) : t.id # g_timer_id}
<1> DEFINE h == IF g_timer_id >= 0 THEN Without(g_timer_id) ELSE heap
<1>1. Waiting
  BY DEF Guarded
<1>2. CASE g_timer_id >= 0
  BY <1>1, <1>2, WithoutHeap
<1>3. CASE ~(g_timer_id >= 0)
  <2>1. \A t \in Ent(heap) : t.id # g_timer_id
    <3>1. \A t \in Ent(heap) : t.id \in Nat
      BY AllTimers
    <3>2. QED BY <1>3, <3>1
  <2>2. Ent(heap) = {t \in Ent(heap) : t.id # g_timer_id}
    BY <2>1
  <2>3. Len(heap) \in Nat /\ heap \in Seq(Timer) /\ Heap(heap) /\ Distinct(heap)
    BY <1>1, Array DEF Waiting
  <2>4. QED BY <1>3, <2>2, <2>3
<1>4. QED BY <1>2, <1>3

LEMMA NewTimer ==
  ASSUME Guarded, NEW tic \in Nat, NEW num \in Nat, NEW q \in BOOLEAN
  PROVE  LET t == New(tic, num, q)
         IN  t \in Timer /\ t.id = next_id /\ t.exp = tic /\ t.num = num /\ t.q = q
<1>1. next_id \in Nat
  BY DEF Guarded, Counters
<1>2. QED BY <1>1 DEF New, Timer

LEMMA TimerAddSound ==
  ASSUME Sound, NEW tic \in Tics, NEW num \in Nums, TimerAdd(tic, num)
  PROVE  Sound' /\ Ent(heap') = Ent(heap) \cup {New(tic, num, FALSE)}
<1> DEFINE t == New(tic, num, FALSE)
<1>1. Guarded /\ Owned
  BY DEF Sound, Guarded
<1>2. tic \in Nat /\ num \in Nat /\ FALSE \in BOOLEAN
  BY TimersAssumption
<1>3. t \in Timer /\ t.id = next_id /\ t.exp = tic /\ t.num = num /\ t.q = FALSE
  BY <1>1, <1>2, NewTimer
<1>4. heap' = Push(heap, t) /\ cap' = Grown(heap) /\ next_id' = next_id + 1 /\ next_id < MaxId
      /\ UNCHANGED <<pc, fnow, firing>> /\ UNCHANGED qstate
  BY DEF TimerAdd
<1>5. heap \in Seq(Timer) /\ Heap(heap) /\ Distinct(heap) /\ Len(heap) <= Len(heap)
  BY <1>1, Array DEF Guarded, Waiting
<1> HIDE DEF t
<1>6. t.exp >= 0 /\ (t.q => t.num = 0) /\ Ent(heap) \subseteq Ent(heap)
  BY <1>2, <1>3
<1>7. Guarded' /\ Ent(heap') = Ent(heap) \cup {t}
  BY <1>1, <1>3, <1>4, <1>5, <1>6, AddedGuarded
<1>8. Owned'
  <2>1. next_id \in Nat /\ next_id' \in Nat /\ next_id' >= next_id
    BY <1>1, <1>4 DEF Guarded, Counters
  <2>2. All' = All \cup {t}
    BY <1>4, <1>7 DEF All
  <2>3. t.id # g_timer_id
    BY <1>1, <1>3, <2>1 DEF Owned
  <2>4. QED BY <1>1, <1>4, <2>1, <2>2, <2>3, KeptOwned
<1>9. QED BY <1>7, <1>8 DEF Sound, Guarded, t

LEMMA SetQSound ==
  ASSUME Sound, NEW v \in QTics, SetQ(v)
  PROVE  /\ Sound'
         /\ Ent(heap') = {t \in Ent(heap) : t.id # g_timer_id} \cup {New(v, 0, TRUE)}
<1> DEFINE t == New(v, 0, TRUE)
           h == IF g_timer_id >= 0 THEN Without(g_timer_id) ELSE heap
<1>1. Guarded /\ Owned
  BY DEF Sound, Guarded
<1>2. v \in Nat /\ 0 \in Nat /\ TRUE \in BOOLEAN
  BY TimersAssumption
<1>3. t \in Timer /\ t.id = next_id /\ t.exp = v /\ t.num = 0 /\ t.q = TRUE
  BY <1>1, <1>2, NewTimer
<1>4. heap' = Push(h, t) /\ cap' = Grown(h) /\ next_id' = next_id + 1 /\ next_id < MaxId
      /\ UNCHANGED <<pc, fnow, firing>> /\ g_timer_id' = next_id /\ g_timer_on' = TRUE
      /\ severed' = FALSE
  BY DEF SetQ
<1>5. h \in Seq(Timer) /\ Heap(h) /\ Distinct(h) /\ Len(h) <= Len(heap)
      /\ Ent(h) = {u \in Ent(heap) : u.id # g_timer_id}
  BY <1>1, QGone
<1> HIDE DEF t, h
<1>6. t.exp >= 0 /\ (t.q => t.num = 0) /\ Ent(h) \subseteq Ent(heap)
  BY <1>2, <1>3, <1>5
<1>7. Guarded' /\ Ent(heap') = Ent(h) \cup {t}
  BY <1>1, <1>3, <1>4, <1>5, <1>6, AddedGuarded
<1>8. Owned'
  <2>1. next_id \in -1..(MaxId - 1)
    BY <1>1, <1>4, TimersAssumption DEF Guarded, Counters
  <2>2. t \in All' /\ t.id = next_id /\ t.q /\ next_id < next_id'
    BY <1>1, <1>3, <1>4, <1>7 DEF All, Guarded, Counters
  <2>3. \A u \in All' : u # t => u.id < next_id
    BY <1>1, <1>4, <1>5, <1>7 DEF All, Guarded, Dated
  <2>4. \A u \in All' : u.id = next_id => u.q
    BY <1>1, <2>2, <2>3 DEF Guarded, Counters
  <2>5. QED BY <1>4, <2>1, <2>2, <2>4 DEF Owned
<1>9. QED BY <1>5, <1>7, <1>8 DEF Sound, Guarded, t

(* `\t 0`, and a `\t N` that cannot add.                                      *)
LEMMA OffSound ==
  ASSUME Sound,
         heap' = IF g_timer_id >= 0 THEN Without(g_timer_id) ELSE heap,
         g_timer_id' = -1, g_timer_on' = FALSE, severed' = FALSE,
         UNCHANGED <<next_id, pc, fnow, firing>>, cap' \in Nat, cap' >= cap
  PROVE  Sound' /\ Ent(heap') = {t \in Ent(heap) : t.id # g_timer_id}
<1>1. Guarded /\ Owned
  BY DEF Sound, Guarded
<1> DEFINE h == IF g_timer_id >= 0 THEN Without(g_timer_id) ELSE heap
<1>2. h \in Seq(Timer) /\ Heap(h) /\ Distinct(h) /\ Len(h) <= Len(heap)
      /\ Ent(h) = {u \in Ent(heap) : u.id # g_timer_id}
  BY <1>1, QGone
<1>3. heap' = h
  OBVIOUS
<1> HIDE DEF h
<1>4. Ent(heap') \subseteq Ent(heap)
  BY <1>2, <1>3
<1>5. Guarded'
  BY <1>1, <1>2, <1>3, <1>4, RemovedGuarded
<1>6. QED BY <1>2, <1>3, <1>5, OffOwned DEF Sound, Guarded

LEMMA TimerDelSound ==
  ASSUME Sound, NEW id \in 0..(MaxId - 1), TimerDel(id)
  PROVE  Sound' /\ Ent(heap') = {t \in Ent(heap) : t.id # id}
<1>1. Guarded /\ Owned /\ Waiting
  BY DEF Sound, Guarded
<1> DEFINE h == Without(id)
<1>2. h \in Seq(Timer) /\ Heap(h) /\ Distinct(h) /\ Len(h) <= Len(heap)
      /\ Ent(h) = {u \in Ent(heap) : u.id # id}
  BY <1>1, WithoutHeap
<1>3. /\ heap' = h /\ UNCHANGED <<cap, next_id, pc, fnow, firing, g_timer_id, g_timer_on>>
      /\ severed' = (severed \/ (id = g_timer_id /\ \E k \in DOMAIN heap : heap[k].id = id))
  BY DEF TimerDel
<1> HIDE DEF h
<1>4. Ent(heap') \subseteq Ent(heap)
  BY <1>2, <1>3
<1>5. Guarded'
  <2>1. cap' \in Nat /\ cap' >= cap
    BY <1>1, <1>3 DEF Guarded, Counters
  <2>2. QED BY <1>1, <1>2, <1>3, <1>4, <2>1, RemovedGuarded
<1>6. All' = {t \in Ent(heap) : t.id # id} \cup Ent(firing)
  BY <1>2, <1>3 DEF All
<1>7. Owned'
  <2>1. CASE id = g_timer_id /\ \E k \in DOMAIN heap : heap[k].id = id
    <3>1. severed' = TRUE
      BY <1>3, <2>1
    <3>2. \A t \in Ent(firing) : t.id # id
      BY <1>1, <2>1 DEF Guarded, InFlight, Ent
    <3>3. QED BY <1>1, <1>3, <1>6, <2>1, <3>1, <3>2 DEF Owned
  <2>2. CASE ~(id = g_timer_id /\ \E k \in DOMAIN heap : heap[k].id = id)
    <3>1. UNCHANGED qstate
      BY <1>1, <1>3, <2>2 DEF qstate, Owned
    <3>2. \A t \in All : t.id = g_timer_id => t \in All'
      BY <1>6, <2>2 DEF All, Ent
    <3>3. All' \subseteq All
      BY <1>6 DEF All
    <3>4. next_id \in Nat /\ next_id' \in Nat /\ next_id' >= next_id
      BY <1>1, <1>3 DEF Guarded, Counters
    <3>5. QED BY <1>1, <3>1, <3>2, <3>3, <3>4, KeptOwned
  <2>3. QED BY <2>1, <2>2
<1>8. QED BY <1>2, <1>3, <1>5, <1>7 DEF Sound, Guarded

(* The head, which is the earliest, goes from the array into flight.          *)
LEMMA PopSound ==
  ASSUME Sound, Pop
  PROVE  /\ Sound'
         /\ At(heap, 0) \in Ent(heap) /\ \A u \in Ent(heap) \ {At(heap, 0)} : heap_less(At(heap, 0), u)
         /\ Ent(heap') = Ent(heap) \ {At(heap, 0)} /\ Ent(firing') = {At(heap, 0)}
         /\ Ent(firing) = {}
<1> DEFINE x == At(heap, 0)
           g == HeapPop(heap)
<1>1. heap \in Seq(Timer) /\ Heap(heap) /\ Distinct(heap) /\ heap # <<>>
  BY DEF Sound, Waiting, Pop
<1>2. Len(heap) \in Nat /\ Len(heap) >= 1 /\ DOMAIN heap = 1..Len(heap)
  BY <1>1, EmptySeq, Array
<1>3. x = heap[1] /\ 1 \in DOMAIN heap /\ x \in Timer
  BY <1>1, <1>2, Array DEF At
<1>4. x \in Ent(heap)
  BY <1>3 DEF Ent
<1>5. heap' = g /\ firing' = <<x>> /\ pc' = "callback" /\ pc = "loop" /\ fnow' = 0
      /\ UNCHANGED <<cap, next_id>> /\ UNCHANGED qstate
  BY DEF Pop
<1>6. g \in Seq(Timer) /\ Len(g) = Len(heap) - 1 /\ Heap(g) /\ Distinct(g) /\ Ent(g) = Ent(heap) \ {x}
  BY <1>1, PopHeap
<1>7. Len(firing) = 0 /\ Ent(firing) = {}
  BY <1>5, NoEntry DEF Sound, InFlight
<1>8. <<x>> \in Seq(Timer) /\ Len(<<x>>) = 1 /\ Ent(<<x>>) = {x}
  BY <1>3, OneTimer
<1>9. \A u \in Ent(heap) \ {x} : heap_less(x, u) /\ u.id # x.id
  <2> SUFFICES ASSUME NEW u \in Ent(heap), u # x PROVE heap_less(x, u) /\ u.id # x.id
    OBVIOUS
  <2>1. PICK k \in 1..Len(heap) : u = heap[k]
    BY <1>2 DEF Ent
  <2>2. k # 1
    BY <1>3, <2>1
  <2>3. k - 1 \in 1..(Len(heap) - 1) /\ (k - 1) + 1 = k
    BY <1>2, <2>2
  <2>4. At(heap, k - 1) = u
    BY <2>1, <2>3 DEF At
  <2>5. heap_less(x, u)
    BY <1>1, <2>3, <2>4, HeadLeast
  <2>6. u.id # x.id
    BY <1>1, <1>2, <1>3, <2>1, <2>2 DEF Distinct
  <2>7. QED BY <2>5, <2>6
<1> HIDE DEF x, g
<1>10. Waiting'
  BY <1>5, <1>6 DEF Waiting
<1>11. InFlight'
  BY <1>5, <1>6, <1>8, <1>9 DEF InFlight
<1>12. Ent(heap') \cup Ent(firing') = Ent(heap) \cup Ent(firing)
  BY <1>4, <1>5, <1>6, <1>7, <1>8
<1>13. Dated'
  BY <1>5, <1>12 DEF Sound, Dated
<1>14. Counters'
  <2>1. 0 \in (-MaxLate)..0
    BY TimersAssumption
  <2>2. QED BY <1>5, <2>1 DEF Sound, Counters
<1>15. Room'
  <2>1. Len(heap) <= cap + 1 /\ cap \in Nat
    BY <1>2, <1>7 DEF Sound, Room, Counters
  <2>2. Len(g) + 1 <= cap + 1
    BY <1>2, <1>6, <2>1
  <2>3. QED BY <1>5, <1>8, <2>2 DEF Room
<1>16. Owned'
  BY <1>5, <1>12 DEF Sound, Owned, All, qstate
<1>17. QED
  BY <1>4, <1>5, <1>6, <1>7, <1>8, <1>9, <1>10, <1>11, <1>13, <1>14, <1>15, <1>16 DEF Sound, x

(* The timer in flight comes back with its next deadline, or has ended.       *)
LEMMA ReturnSound ==
  ASSUME Sound, ReturnFire
  PROVE  /\ Sound' /\ Ent(firing) # {} /\ Ent(firing') = {}
         /\ Ent(heap') = Ent(heap) \cup
              {[t EXCEPT !.exp = @ + t.tic, !.num = IF @ = 0 THEN 0 ELSE @ - 1] :
                 t \in {u \in Ent(firing) : u.num # 1}}
<1> DEFINE t == Head(firing)
           nxt(u) == [u EXCEPT !.exp = @ + u.tic, !.num = IF @ = 0 THEN 0 ELSE @ - 1]
           w == nxt(t)
<1>1. firing \in Seq(Timer) /\ Len(firing) = 1 /\ heap \in Seq(Timer) /\ Heap(heap) /\ Distinct(heap)
  BY DEF Sound, InFlight, Waiting, ReturnFire
<1>2. t \in Timer /\ Ent(firing) = {t}
  BY <1>1, OneEntry
<1>3. w \in Timer /\ w.id = t.id /\ w.exp = t.exp + t.tic /\ w.q = t.q
      /\ w.num = IF t.num = 0 THEN 0 ELSE t.num - 1
  BY <1>2, Fields
<1>4. t.exp \in Int /\ t.tic \in Nat /\ t.num \in Nat
  BY <1>2, Fields
<1>5. (t.num = 1 /\ heap' = heap) \/ (t.num # 1 /\ heap' = Push(heap, w))
  BY DEF ReturnFire
<1>6. firing' = <<>> /\ pc' = "loop" /\ fnow' = 0 /\ UNCHANGED <<cap, next_id>> /\ UNCHANGED qstate
  BY DEF ReturnFire
<1>7. \A k \in DOMAIN heap : heap[k].id # w.id
  BY <1>2, <1>3 DEF Sound, InFlight, Ent
<1>8. <<>> \in Seq(Timer) /\ Len(<<>>) = 0 /\ Ent(<<>>) = {}
  BY NoEntry
<1>9. {nxt(u) : u \in {v \in Ent(firing) : v.num # 1}} = IF t.num = 1 THEN {} ELSE {w}
  BY <1>2
<1> DEFINE g == Push(heap, w)
<1>10. g \in Seq(Timer) /\ Len(g) = Len(heap) + 1 /\ Heap(g) /\ Distinct(g) /\ Ent(g) = Ent(heap) \cup {w}
  <2> HIDE DEF w
  <2>1. QED BY <1>1, <1>3, <1>7, PushHeap
<1> HIDE DEF g, w, t
<1>11. Len(heap) \in Nat /\ Len(g) = Len(heap) + 1 /\ cap \in Nat
  BY <1>1, <1>10, Array DEF Sound, Counters
<1>12. Waiting' /\ Len(heap') <= Len(heap) + 1 /\ Len(heap') \in Nat
  <2>1. CASE t.num = 1
    BY <1>1, <1>5, <1>11, <2>1 DEF Waiting
  <2>2. CASE t.num # 1
    BY <1>5, <1>10, <1>11, <2>2 DEF Waiting, g
  <2>3. QED BY <2>1, <2>2
<1>13. Ent(heap') = Ent(heap) \cup IF t.num = 1 THEN {} ELSE {w}
  <2>1. CASE t.num = 1
    BY <1>5, <2>1
  <2>2. CASE t.num # 1
    BY <1>5, <1>10, <2>2 DEF g
  <2>3. QED BY <2>1, <2>2
<1>14. Ent(firing') = {}
  BY <1>6, <1>8
<1>15. InFlight'
  BY <1>6, <1>8, <1>14 DEF InFlight
<1>16. Dated'
  <2>1. \A u \in Ent(heap) \cup {t} : u.id < next_id /\ u.exp >= -MaxLate /\ (u.q => u.num = 0)
    BY <1>2 DEF Sound, Dated
  <2>2. w.exp >= -MaxLate
    BY <1>3, <1>4, <2>1, TimersAssumption
  <2>3. w.id < next_id /\ (w.q => w.num = 0)
    BY <1>3, <2>1
  <2>4. QED BY <1>6, <1>13, <1>14, <2>1, <2>2, <2>3 DEF Dated
<1>17. Counters'
  <2>1. 0 \in (-MaxLate)..0
    BY TimersAssumption
  <2>2. QED BY <1>6, <2>1 DEF Sound, Counters
<1>18. Room'
  <2>1. Len(heap) + 1 <= cap + 1
    BY <1>1 DEF Sound, Room
  <2>2. Len(heap') + Len(firing') <= cap' + 1
    BY <1>6, <1>8, <1>11, <1>12, <2>1
  <2>3. QED BY <2>2 DEF Room
<1>19. Owned'
  <2>1. Owned /\ next_id \in Nat /\ next_id' \in Nat /\ next_id' >= next_id
    BY <1>6 DEF Sound, Counters
  <2>2. t.q => t.num = 0
    BY <1>2 DEF Sound, Dated
  <2>3. ASSUME NEW u \in All, u.id = g_timer_id PROVE \E v \in All' : v.id = u.id
    <3>1. CASE u \in Ent(heap)
      BY <1>13, <3>1 DEF All
    <3>2. CASE u = t
      <4>1. u.q
        BY <2>1, <2>3 DEF Owned
      <4>2. t.num # 1
        BY <2>2, <3>2, <4>1
      <4>3. w \in All' /\ w.id = u.id
        BY <1>3, <1>13, <3>2, <4>2 DEF All
      <4>4. QED BY <4>3
    <3>3. QED BY <1>2, <3>1, <3>2 DEF All
  <2>4. ASSUME NEW u \in All', u.id = g_timer_id PROVE \E v \in All : v.id = u.id /\ v.q = u.q
    <3>1. Ent(firing') = {}
      BY <1>14
    <3>2. CASE u \in Ent(heap)
      BY <3>2 DEF All
    <3>3. CASE u = w
      BY <1>2, <1>3, <3>3 DEF All
    <3>4. QED BY <1>13, <3>1, <3>2, <3>3 DEF All
  <2>5. QED BY <1>6, <2>1, <2>3, <2>4, KeptOwned
<1>20. Sound' /\ Ent(firing) # {}
  BY <1>2, <1>12, <1>15, <1>16, <1>17, <1>18, <1>19 DEF Sound
<1> HIDE DEF nxt
<1>21. Ent(heap') = Ent(heap) \cup {nxt(u) : u \in {v \in Ent(firing) : v.num # 1}}
  BY <1>9, <1>13
<1>22. QED BY <1>14, <1>20, <1>21 DEF nxt

LEMMA TickSound ==
  ASSUME Sound, Tick
  PROVE  /\ Sound'
         /\ Ent(heap') = {[t EXCEPT !.exp = @ - 1] : t \in Ent(heap)}
         /\ Ent(firing') = {[t EXCEPT !.exp = @ - 1] : t \in Ent(firing)}
<1> DEFINE new(t) == [t EXCEPT !.exp = @ - 1]
           h == Sooner(heap)
           f == Sooner(firing)
<1>1. heap \in Seq(Timer) /\ Heap(heap) /\ Distinct(heap) /\ firing \in Seq(Timer)
  BY DEF Sound, Waiting, InFlight
<1>2. heap' = h /\ firing' = f /\ UNCHANGED <<cap, next_id, pc>> /\ UNCHANGED qstate
  BY DEF Tick
<1>3. h \in Seq(Timer) /\ Len(h) = Len(heap) /\ Heap(h) /\ Distinct(h) /\ Ent(h) = {new(t) : t \in Ent(heap)}
  BY <1>1, SoonerHeap
<1>4. f \in Seq(Timer) /\ Len(f) = Len(firing) /\ Ent(f) = {new(t) : t \in Ent(firing)}
  BY <1>1, SoonerHeap
<1>5. \A t \in Ent(heap) \cup Ent(firing) : t \in Timer
  BY AllTimers DEF Sound, Guarded
<1>6. \A t \in Timer : new(t).id = t.id /\ new(t).exp = t.exp - 1 /\ new(t).num = t.num /\ new(t).q = t.q
                       /\ t.exp \in Int
  BY Fields
<1> HIDE DEF h, f, new
<1>7. Waiting'
  BY <1>2, <1>3 DEF Waiting
<1>8. InFlight'
  <2>1. \A t \in Ent(f) : \A u \in Ent(h) : u.id # t.id
    BY <1>3, <1>4, <1>5, <1>6 DEF Sound, InFlight
  <2>2. QED BY <1>2, <1>4, <2>1 DEF Sound, InFlight
<1>9. Dated'
  <2>1. \A t \in Ent(heap) \cup Ent(firing) : t.exp > -MaxLate
    BY DEF Tick, Ent
  <2>2. \A t \in Ent(heap) \cup Ent(firing) : new(t).exp >= -MaxLate
    BY <1>5, <1>6, <2>1, TimersAssumption
  <2>3. \A t \in Ent(heap) \cup Ent(firing) : new(t).id < next_id /\ (new(t).q => new(t).num = 0)
    BY <1>5, <1>6 DEF Sound, Dated
  <2>4. QED BY <1>2, <1>3, <1>4, <2>2, <2>3 DEF Dated
<1>10. Counters'
  <2>1. fnow' \in (-MaxLate)..0
    BY TimersAssumption DEF Tick, Sound, Counters
  <2>2. QED BY <1>2, <2>1 DEF Sound, Counters
<1>11. Room'
  BY <1>2, <1>3, <1>4 DEF Sound, Room
<1>12. Owned'
  <2>1. Owned /\ next_id \in Nat /\ next_id' \in Nat /\ next_id' >= next_id
    BY <1>2 DEF Sound, Counters
  <2>2. All' = {new(t) : t \in All}
    BY <1>2, <1>3, <1>4 DEF All
  <2>3. \A t \in All : new(t).id = t.id /\ new(t).q = t.q
    BY <1>5, <1>6 DEF All
  <2>4. \A t \in All : t.id = g_timer_id => \E u \in All' : u.id = t.id
    BY <2>2, <2>3
  <2>5. \A u \in All' : u.id = g_timer_id => \E t \in All : t.id = u.id /\ t.q = u.q
    BY <2>2, <2>3
  <2>6. QED BY <1>2, <2>1, <2>4, <2>5, KeptOwned
<1>13. QED BY <1>2, <1>3, <1>4, <1>7, <1>8, <1>9, <1>10, <1>11, <1>12 DEF Sound, new

LEMMA RestartSound ==
  ASSUME Sound, Restart
  PROVE  Sound' /\ Ent(heap') = {} /\ Ent(firing) = {}
<1>1. heap' = <<>> /\ cap' = InitCap /\ next_id' = 0 /\ g_timer_id' = -1 /\ g_timer_on' = FALSE
      /\ severed' = FALSE /\ UNCHANGED <<pc, fnow, firing>> /\ pc = "idle"
  BY DEF Restart
<1>2. <<>> \in Seq(Timer) /\ Len(<<>>) = 0 /\ Ent(<<>>) = {} /\ Distinct(<<>>) /\ Heap(<<>>)
  BY NoEntry
<1>3. firing \in Seq(Timer) /\ Len(firing) = 0
  BY <1>1 DEF Sound, InFlight
<1>4. Ent(firing) = {}
  BY <1>3, NoEntry
<1>5. Waiting' /\ InFlight' /\ Dated'
  BY <1>1, <1>2, <1>3, <1>4 DEF Waiting, InFlight, Dated
<1>6. Counters'
  <2>1. InitCap \in Nat \ {0} /\ 0 \in 0..MaxId
    BY TimersAssumption
  <2>2. QED BY <1>1, <2>1 DEF Sound, Counters
<1>7. Room'
  <2>1. Len(heap') + Len(firing') <= cap' + 1
    BY <1>1, <1>2, <1>3, TimersAssumption
  <2>2. QED BY <2>1 DEF Room
<1>8. Owned'
  BY <1>1, <1>5, <1>6, <1>7, OffOwned DEF Guarded
<1>9. QED BY <1>1, <1>2, <1>4, <1>5, <1>6, <1>7, <1>8 DEF Sound

(* The steps that leave the timers where they are.                            *)
LEMMA QuietSound ==
  ASSUME Sound, TimerAddFails \/ FireBegin \/ FireEnd \/ UNCHANGED vars
  PROVE  Sound' /\ UNCHANGED <<heap, firing, next_id>>
<1>1. UNCHANGED <<heap, firing, next_id, g_timer_id, g_timer_on, severed>>
  BY DEF TimerAddFails, FireBegin, FireEnd, vars, qstate
<1>2. pc' \in {"idle", "loop", "callback"} /\ (pc = "callback" <=> pc' = "callback")
  BY DEF TimerAddFails, FireBegin, FireEnd, vars, Sound, Counters
<1>3. fnow' = fnow \/ fnow' = 0
  BY DEF TimerAddFails, FireBegin, FireEnd, vars
<1>4. cap \in Nat \ {0} /\ cap' \in Nat \ {0} /\ cap' >= cap
  BY DEF TimerAddFails, FireBegin, FireEnd, vars, Sound, Counters, Grown
<1>5. Waiting' /\ InFlight' /\ Dated'
  BY <1>1, <1>2 DEF Sound, Waiting, InFlight, Dated
<1>6. Counters'
  <2>1. 0 \in (-MaxLate)..0
    BY TimersAssumption
  <2>2. QED BY <1>1, <1>2, <1>3, <1>4, <2>1 DEF Sound, Counters
<1>7. Room'
  <2>1. Len(heap) \in Nat /\ Len(firing) \in Nat /\ Len(heap) + Len(firing) <= cap + 1
    BY Array DEF Sound, Waiting, InFlight, Room
  <2>2. Len(heap') + Len(firing') <= cap' + 1
    BY <1>1, <1>4, <2>1
  <2>3. QED BY <2>2 DEF Room
<1>8. Owned'
  BY <1>1 DEF Sound, Owned, All
<1>9. QED BY <1>1, <1>5, <1>6, <1>7, <1>8 DEF Sound

LEMMA InitSound ==
  ASSUME Init
  PROVE  Sound /\ Ent(heap) = {} /\ Ent(firing) = {}
<1>1. heap = <<>> /\ cap = InitCap /\ next_id = 0 /\ g_timer_id = -1 /\ g_timer_on = FALSE
      /\ severed = FALSE /\ pc = "idle" /\ fnow = 0 /\ firing = <<>>
  BY DEF Init
<1>2. <<>> \in Seq(Timer) /\ Len(<<>>) = 0 /\ Ent(<<>>) = {} /\ Distinct(<<>>) /\ Heap(<<>>)
  BY NoEntry
<1>3. Waiting /\ InFlight /\ Dated
  BY <1>1, <1>2 DEF Waiting, InFlight, Dated
<1>4. Counters
  <2>1. InitCap \in Nat \ {0} /\ 0 \in 0..MaxId /\ 0 \in (-MaxLate)..0
    BY TimersAssumption
  <2>2. QED BY <1>1, <2>1 DEF Counters
<1>5. Room
  <2>1. Len(heap) + Len(firing) <= cap + 1
    BY <1>1, <1>2, TimersAssumption
  <2>2. QED BY <2>1 DEF Room
<1>6. Owned
  <2>1. -1 \in -1..(MaxId - 1)
    BY TimersAssumption
  <2>2. -1 < next_id
    BY <1>1
  <2>3. All = {}
    BY <1>1, <1>2 DEF All
  <2>4. QED BY <1>1, <2>1, <2>2, <2>3 DEF Owned
<1>7. QED BY <1>1, <1>2, <1>3, <1>4, <1>5, <1>6 DEF Sound

-------------------------------------------------------------------------------
(* Every step keeps the invariant and is a step of the abstract queue.        *)

AbsNext == [TQ!Next]_<<Ent(heap), Ent(firing), next_id>>

LEMMA DelRefines ==
  ASSUME NEW id \in -1..(MaxId - 1), Ent(heap') = {t \in Ent(heap) : t.id # id},
         UNCHANGED <<firing, next_id>>
  PROVE  AbsNext
<1>1. TQ!Del(id)
  BY DEF TQ!Del, Ent
<1>2. QED BY <1>1 DEF AbsNext, TQ!Next

LEMMA UserStep ==
  ASSUME Sound, Users
  PROVE  Sound' /\ AbsNext
<1>1. g_timer_id \in -1..(MaxId - 1)
  BY DEF Sound, Owned
<1>2. ASSUME NEW tic \in Tics, NEW num \in Nums, TimerAdd(tic, num) PROVE Sound' /\ AbsNext
  <2>1. Sound' /\ Ent(heap') = Ent(heap) \cup {New(tic, num, FALSE)}
    BY <1>2, TimerAddSound
  <2>2. next_id' = next_id + 1 /\ firing' = firing
    BY <1>2 DEF TimerAdd
  <2>3. TQ!Add(tic, num, FALSE)
    BY <2>1, <2>2 DEF TQ!Add, New, Ent
  <2>4. TQ!Next
    BY <2>3 DEF TQ!Next
  <2>5. QED BY <2>1, <2>4 DEF AbsNext
<1>3. ASSUME TimerAddFails PROVE Sound' /\ AbsNext
  BY <1>3, QuietSound DEF AbsNext
<1>4. ASSUME StopQ \/ SetQFails PROVE Sound' /\ AbsNext
  <2>1. heap' = (IF g_timer_id >= 0 THEN Without(g_timer_id) ELSE heap) /\ g_timer_id' = -1
        /\ g_timer_on' = FALSE /\ severed' = FALSE /\ UNCHANGED <<next_id, pc, fnow, firing>>
        /\ cap' \in Nat /\ cap' >= cap
    BY <1>4 DEF StopQ, SetQFails, Grown, Sound, Counters
  <2>2. Sound' /\ Ent(heap') = {t \in Ent(heap) : t.id # g_timer_id}
    BY <2>1, OffSound
  <2>3. QED BY <1>1, <2>1, <2>2, DelRefines
<1>5. ASSUME Restart PROVE Sound' /\ AbsNext
  <2>1. Sound' /\ Ent(heap') = {} /\ Ent(firing) = {}
    BY <1>5, RestartSound
  <2>2. next_id' = 0 /\ firing' = firing
    BY <1>5 DEF Restart
  <2>3. TQ!Restart
    BY <2>1, <2>2 DEF TQ!Restart, Ent
  <2>4. QED BY <2>1, <2>3 DEF AbsNext, TQ!Next
<1>6. ASSUME NEW id \in 0..(MaxId - 1), TimerDel(id) PROVE Sound' /\ AbsNext
  <2>1. Sound' /\ Ent(heap') = {t \in Ent(heap) : t.id # id}
    BY <1>6, TimerDelSound
  <2>2. UNCHANGED <<firing, next_id>>
    BY <1>6 DEF TimerDel
  <2>3. id \in -1..(MaxId - 1)
    BY TimersAssumption
  <2>4. QED BY <2>1, <2>2, <2>3, DelRefines
<1>7. ASSUME NEW v \in QTics, SetQ(v) PROVE Sound' /\ AbsNext
  <2>1. Sound' /\ Ent(heap') = {t \in Ent(heap) : t.id # g_timer_id} \cup {New(v, 0, TRUE)}
    BY <1>7, SetQSound
  <2>2. next_id' = next_id + 1 /\ firing' = firing
    BY <1>7 DEF SetQ
  <2>3. TQ!Replace(g_timer_id, v)
    BY <2>1, <2>2 DEF TQ!Replace, New, Ent
  <2>4. TQ!Next
    BY <1>1, <2>3 DEF TQ!Next
  <2>5. QED BY <2>1, <2>4 DEF AbsNext
<1>8. QED BY <1>2, <1>3, <1>4, <1>5, <1>6, <1>7 DEF Users

LEMMA LoopStep ==
  ASSUME Sound, Loop \/ Tick \/ UNCHANGED vars
  PROVE  Sound' /\ AbsNext
<1>1. ASSUME FireBegin \/ FireEnd \/ UNCHANGED vars PROVE Sound' /\ AbsNext
  BY <1>1, QuietSound DEF AbsNext
<1>2. ASSUME Pop PROVE Sound' /\ AbsNext
  <2> DEFINE x == At(heap, 0)
  <2>1. Sound' /\ x \in Ent(heap) /\ (\A u \in Ent(heap) \ {x} : heap_less(x, u))
        /\ Ent(heap') = Ent(heap) \ {x} /\ Ent(firing') = {x} /\ Ent(firing) = {}
    BY <1>2, PopSound
  <2>2. x.exp <= 0 /\ next_id' = next_id
    <3>1. x.exp <= fnow /\ next_id' = next_id
      BY <1>2 DEF Pop
    <3>2. fnow \in (-MaxLate)..0 /\ x.exp \in Int
      BY <2>1, AllTimers, Fields DEF Sound, Guarded, Counters
    <3>3. QED BY <3>1, <3>2, TimersAssumption
  <2> HIDE DEF x
  <2>3. ASSUME NEW y, y = x PROVE TQ!Fire(y)
    BY <2>1, <2>2, <2>3 DEF TQ!Fire, TQ!Less, heap_less, Ent
  <2>4. x \in {heap[k] : k \in DOMAIN heap}
    BY <2>1 DEF Ent
  <2>5. \E y \in {heap[k] : k \in DOMAIN heap} : y = x
    BY <2>4
  <2>6. \E y \in {heap[k] : k \in DOMAIN heap} : TQ!Fire(y)
    BY <2>3, <2>5
  <2>7. TQ!Next
    BY <2>6 DEF TQ!Next
  <2>8. QED BY <2>1, <2>7 DEF AbsNext
<1>3. ASSUME ReturnFire PROVE Sound' /\ AbsNext
  <2>1. /\ Sound' /\ Ent(firing) # {} /\ Ent(firing') = {}
        /\ Ent(heap') = Ent(heap) \cup
              {[t EXCEPT !.exp = @ + t.tic, !.num = IF @ = 0 THEN 0 ELSE @ - 1] :
                 t \in {u \in Ent(firing) : u.num # 1}}
    BY <1>3, ReturnSound
  <2>2. next_id' = next_id
    BY <1>3 DEF ReturnFire
  <2>3. TQ!Return
    BY <2>1, <2>2 DEF TQ!Return, Ent
  <2>4. QED BY <2>1, <2>3 DEF AbsNext, TQ!Next
<1>4. ASSUME Tick PROVE Sound' /\ AbsNext
  <2>1. /\ Sound'
        /\ Ent(heap') = {[t EXCEPT !.exp = @ - 1] : t \in Ent(heap)}
        /\ Ent(firing') = {[t EXCEPT !.exp = @ - 1] : t \in Ent(firing)}
    BY <1>4, TickSound
  <2>2. next_id' = next_id
    BY <1>4 DEF Tick
  <2>3. TQ!Tick
    BY <2>1, <2>2 DEF TQ!Tick, TQ!Later, Ent
  <2>4. QED BY <2>1, <2>3 DEF AbsNext, TQ!Next
<1>5. QED BY <1>1, <1>2, <1>3, <1>4 DEF Loop

LEMMA Step == Sound /\ [Next]_vars => Sound' /\ AbsNext
  BY UserStep, LoopStep DEF Next

(* The invariant says what timer.c and `\t` rely on.                          *)
LEMMA SoundIsEnough == Sound => HeapSound
<1> SUFFICES ASSUME Sound PROVE HeapSound
  OBVIOUS
<1>1. heap \in Seq(Timer) /\ Heap(heap) /\ firing \in Seq(Timer)
  BY DEF Sound, Waiting, InFlight
<1>2. Len(heap) \in Nat /\ DOMAIN heap = 1..Len(heap) /\ Len(firing) \in Nat
  BY <1>1, Array
<1>3. \A t \in Ent(heap) \cup Ent(firing) : t \in Timer /\ t.id \in Nat
  BY AllTimers DEF Sound, Guarded
<1>4. TypeOK
  <2>1. \A k \in DOMAIN heap : heap[k].exp >= -MaxLate /\ heap[k].id < next_id
    BY DEF Sound, Dated, Ent
  <2>2. QED BY <2>1 DEF TypeOK, Sound, Counters, InFlight, Owned
<1>5. HeadFirst
  <2> SUFFICES ASSUME NEW k \in DOMAIN heap, k # 1 PROVE heap_less(At(heap, 0), heap[k])
    BY DEF HeadFirst
  <2>1. k - 1 \in 1..(Len(heap) - 1) /\ (k - 1) + 1 = k
    BY <1>2
  <2>2. heap_less(At(heap, 0), At(heap, k - 1))
    BY <1>1, <2>1, HeadLeast
  <2>3. QED BY <2>1, <2>2 DEF At
<1>6. OneOver
  <2>1. Len(heap) + Len(firing) <= cap + 1 /\ cap \in Nat
    BY DEF Sound, Room, Counters
  <2>2. Len(heap) <= cap + 1
    BY <1>2, <2>1
  <2>3. QED BY <2>2 DEF OneOver
<1>7. QTimerExists
  <2>1. Entries = Ent(heap) \cup Ent(firing)
    BY DEF Entries, Ent
  <2>2. ASSUME NEW t \in Entries, t.id = g_timer_id PROVE g_timer_on /\ ~severed /\ t.q
    <3>1. g_timer_id # -1
      BY <1>3, <2>1, <2>2
    <3>2. QED BY <2>1, <2>2, <3>1 DEF Sound, Owned, All
  <2>3. g_timer_on /\ ~severed => \E t \in Entries : t.id = g_timer_id
    BY <2>1 DEF Sound, Owned, All
  <2>4. QED BY <2>2, <2>3 DEF QTimerExists
<1>8. QED BY <1>4, <1>5, <1>6, <1>7 DEF HeapSound

-------------------------------------------------------------------------------
(* Whatever user code and callbacks add, delete and re-time while a timer is  *)
(* in flight, the head of the array is the earliest timer, so that            *)
(* ray_poll_run never oversleeps; the re-push after a callback, which checks  *)
(* no capacity, is at most one entry over the array; and the timer that `\t`  *)
(* would delete is its own, and is there unless it was deleted by its number. *)
THEOREM TimersSound == Spec => []HeapSound
<1>1. Init => Sound
  BY InitSound
<1>2. Sound /\ [Next]_vars => Sound'
  BY Step
<1>3. QED BY <1>1, <1>2, SoundIsEnough, PTL DEF Spec

(* The array, sifted up and down, implements the queue of timer.h: timers     *)
(* fire one at a time, never early, the earliest first, at deadlines that do  *)
(* not drift, and a timer is lost only by its last fire or by a deletion.     *)
THEOREM TimersImplement == Spec => ImplementsQueue
<1>1. Init => Sound
  BY InitSound
<1>2. Init => TQ!Init
  <2>1. ASSUME Init PROVE Ent(heap) = {} /\ Ent(firing) = {} /\ next_id = 0
    BY <2>1, InitSound DEF Init
  <2>2. QED BY <2>1 DEF TQ!Init, Ent
<1>3. Sound /\ [Next]_vars => Sound' /\ [TQ!Next]_<<Ent(heap), Ent(firing), next_id>>
  BY Step DEF AbsNext
<1>4. [TQ!Next]_<<Ent(heap), Ent(firing), next_id>> => [TQ!Next]_(TQ!vars)
  BY DEF TQ!vars, Ent
<1>5. QED BY <1>1, <1>2, <1>3, <1>4, PTL DEF Spec, ImplementsQueue, TQ!Spec
===============================================================================
