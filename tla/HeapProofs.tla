------------------------------ MODULE HeapProofs ------------------------------
(***************************************************************************)
(* Proofs about the buddy heaps of Heap.tla, for any number of threads,    *)
(* pools, orders and slab sizes: the lists stay exact (ListsExact), every  *)
(* pool stays tiled (Tiled), nothing lies in unmapped memory (NoDangling)  *)
(* and the heaps implement Allocator (ImplementsAllocator).                *)
(*                                                                         *)
(* The inductive invariant Sound adds to those what heap.c relies on       *)
(* silently: pools do not overlap and have one owner, every block sits in  *)
(* its pool at a multiple of its size and not on the header, no two places *)
(* share a cell, and once a list is torn the dispatch never ends.          *)
(***************************************************************************)
EXTENDS Heap, FiniteSetTheorems, WellFoundedInduction, TLAPS

-------------------------------------------------------------------------------
(* The inductive invariant                                                    *)

(* b lies in pool p behind the header, at a multiple of its size.             *)
Fits(b, p) ==
  /\ b.at > p.at
  /\ (b.at - p.at) % 2^b.ord = 0
  /\ b.at + 2^b.ord <= p.at + 2^p.ord

(* b fits a pool of one of the threads T; pl are the pools.                   *)
Seated(b, pl, T) == \E u \in T : \E p \in pl[u] : Fits(b, p)

PlacesOf(lv, ls, dr, fr, sl, fo) ==
  {<<"live", Main, b>> : b \in lv} \cup {<<"lost", Main, b>> : b \in ls}
    \cup UNION {{<<"dropped", t, b>> : b \in dr[t]} \cup {<<"free", t, b>> : b \in fr[t]}
                  \cup {<<"slab", t, b>> : b \in sl[t]} \cup {<<"foreign", t, b>> : b \in fo[t]}
                : t \in Thread}

(* No two places share a cell.                                                *)
Apart(P) == \A e, f \in P : Meets(e[3], f[3]) => e = f
(* Every cell of a pool behind its header is in some place.                   *)
Covered(P, pl) ==
  \A t \in Thread : \A p \in pl[t] : \A c \in Cells(p) :
    c # p.at => \E e \in P : c \in Cells(e[3])
(* No two free blocks are buddies.                                            *)
Merged(fr, pl) ==
  \A v \in Thread : \A p \in pl[v] : \A t, u \in Thread : \A x \in fr[t], y \in fr[u] :
    Fits(x, p) /\ Fits(y, p) => Buddy(x, x.ord, p) # y

(* What the heaps have given out and not got back, and what of it is of t.    *)
Given(lv, ls, dr, fo) == lv \cup ls \cup UNION {dr[t] \cup fo[t] : t \in Thread}
Of(t, G, pl) == {b \in G : Seated(b, pl, {t})}

Typed ==
  /\ up \subseteq Thread /\ Main \in up
  /\ pools \in [Thread -> SUBSET Site] /\ avail \in [Thread -> SUBSET Order]
  /\ free \in [Thread -> SUBSET Block] /\ slab \in [Thread -> SUBSET Block]
  /\ foreign \in [Thread -> SUBSET Block] /\ dropped \in [Thread -> SUBSET Block]
  /\ live \subseteq Block /\ lost \subseteq Block
  /\ bytes \in [Thread -> Nat]
  /\ phase \in {"seq", "opening", "region"} /\ gc \in {"no", "foreign", "slabs", "reclaim"}
  /\ torn \in BOOLEAN

PoolsApart ==
  /\ \A t \in Thread : IsFiniteSet(pools[t]) /\ Cardinality(pools[t]) <= MaxPools
  /\ \A t, u \in Thread : \A p \in pools[t], q \in pools[u] : Meets(p, q) => t = u /\ p = q

AllSeated ==
  /\ \A b \in live \cup lost : Seated(b, pools, Thread)
  /\ \A t \in Thread : /\ \A b \in dropped[t] : Seated(b, pools, Thread)
                       /\ \A b \in free[t] \cup slab[t] : Seated(b, pools, {t})
                       /\ \A b \in foreign[t] : Seated(b, pools, Thread \ {t})

Counted ==
  \A t \in Thread :
    /\ dropped[t] = {} \/ \E b \in dropped[t] : dropped[t] = {b}
    /\ \A o \in 0..SlabMax : Cardinality(OfOrder(slab[t], o)) <= SlabCap
    /\ t \notin up => pools[t] = {} /\ foreign[t] = {} /\ dropped[t] = {}

(* Where a block may be on its way between ray_release and ray_free.          *)
Calm ==
  /\ phase = "seq" => \A t \in Worker : dropped[t] = {}
  /\ gc # "no" => phase = "seq" /\ dropped[Main] = {}
  /\ torn => phase # "seq" /\ \E t \in Thread : dropped[t] # {}

Tidy ==
  ~torn => /\ Apart(Places)
           /\ Covered(Places, pools)
           /\ Merged(free, pools)
           /\ \A t \in Thread : bytes[t] = Size(Of(t, Given(live, lost, dropped, foreign), pools))

Sound == Typed /\ PoolsApart /\ AllSeated /\ AvailExact /\ Counted /\ Calm /\ Tidy
-------------------------------------------------------------------------------
(* Powers of two                                                              *)

(* A one-to-one image has as many elements.                                   *)
LEMMA SameSize ==
  ASSUME NEW S, NEW T, NEW f \in [S -> T], IsFiniteSet(S),
         \A w \in T : \E x \in S : f[x] = w,
         \A x, y \in S : f[x] = f[y] => x = y
  PROVE  IsFiniteSet(T) /\ Cardinality(T) = Cardinality(S)
<1>1. f \in Bijection(S, T)
  BY DEF Bijection, Injection, Surjection, IsInjective
<1>2. ExistsBijection(S, T)
  BY <1>1 DEF ExistsBijection
<1> QED
  BY <1>2, FS_Bijection

With(S, x) == {T \cup {x} : T \in SUBSET S}

(* The subsets of S with x added are as many as those of S.                   *)
LEMMA SubsetsWith ==
  ASSUME NEW S, NEW x, x \notin S, IsFiniteSet(S)
  PROVE  IsFiniteSet(With(S, x)) /\ Cardinality(With(S, x)) = Cardinality(SUBSET S)
<1> DEFINE f == [T \in SUBSET S |-> T \cup {x}]
<1>1. f \in [SUBSET S -> With(S, x)]
  BY DEF With
<1>2. \A w \in With(S, x) : \E T \in SUBSET S : f[T] = w
  BY DEF With
<1>3. \A T, U \in SUBSET S : f[T] = f[U] => T = U
  <2> TAKE T, U \in SUBSET S
  <2> HAVE f[T] = f[U]
  <2>1. T \cup {x} = U \cup {x}
    OBVIOUS
  <2>2. x \notin T /\ x \notin U
    OBVIOUS
  <2> QED
    BY <2>1, <2>2
<1>4. IsFiniteSet(SUBSET S)
  BY FS_SUBSET
<1> HIDE DEF f
<1> QED
  BY <1>1, <1>2, <1>3, <1>4, SameSize

LEMMA SubsetsSplit ==
  ASSUME NEW S, NEW x, x \notin S
  PROVE  /\ SUBSET (S \cup {x}) = (SUBSET S) \cup With(S, x)
         /\ (SUBSET S) \cap With(S, x) = {}
<1>1. ASSUME NEW X \in SUBSET (S \cup {x}), X \notin SUBSET S
      PROVE  X \in With(S, x)
  <2>1. X = (X \ {x}) \cup {x}
    BY <1>1
  <2>2. X \ {x} \in SUBSET S
    BY <1>1
  <2> QED
    BY <2>1, <2>2 DEF With
<1>2. ASSUME NEW X \in With(S, x)
      PROVE  X \in SUBSET (S \cup {x}) /\ X \notin SUBSET S
  <2>1. PICK T \in SUBSET S : X = T \cup {x}
    BY <1>2 DEF With
  <2> QED
    BY <2>1
<1> QED
  BY <1>1, <1>2

(* A block of the next order is twice as large.                               *)
LEMMA PowStep ==
  ASSUME NEW n \in Nat
  PROVE  2^(n + 1) = 2^n + 2^n
<1> DEFINE S == 1..n
<1>1. IsFiniteSet(S) /\ Cardinality(S) = n
  BY FS_Interval
<1>2. n + 1 \notin S
  OBVIOUS
<1>3. 1..(n + 1) = S \cup {n + 1}
  OBVIOUS
<1>4. IsFiniteSet(1..(n + 1)) /\ Cardinality(1..(n + 1)) = n + 1
  BY FS_Interval
<1>5. Cardinality(SUBSET (1..(n + 1))) = 2^(n + 1)
  BY <1>4, FS_SUBSET
<1> HIDE DEF S
<1>6. IsFiniteSet(SUBSET S) /\ Cardinality(SUBSET S) = 2^n
  BY <1>1, FS_SUBSET
<1> DEFINE W == With(S, n + 1)
           B == SUBSET S
<1>7. IsFiniteSet(W) /\ Cardinality(W) = 2^n
  BY <1>1, <1>2, <1>6, SubsetsWith
<1>8. SUBSET (1..(n + 1)) = B \cup W /\ B \cap W = {}
  BY <1>2, <1>3, SubsetsSplit
<1>9. Cardinality({}) = 0
  BY FS_EmptySet
<1>10. 2^n \in Nat
  BY <1>6, FS_CardinalityType
<1>11. IsFiniteSet(B) /\ Cardinality(B) = 2^n
  BY <1>6
<1>12. Cardinality(B \cup W) = 2^(n + 1)
  BY <1>5, <1>8
<1> HIDE DEF W, B
<1>13. Cardinality(B \cup W) = Cardinality(B) + Cardinality(W) - Cardinality(B \cap W)
  BY <1>11, <1>7, FS_Union
<1>14. Cardinality(B \cap W) = 0
  BY <1>8, <1>9
<1>15. 2^(n + 1) = 2^n + 2^n - 0
  BY <1>7, <1>11, <1>12, <1>13, <1>14
<1> DEFINE m == 2^n
<1>16. m \in Nat /\ 2^(n + 1) = m + m - 0
  BY <1>10, <1>15
<1> HIDE DEF m
<1>17. 2^(n + 1) = m + m
  BY <1>16
<1> QED
  BY <1>17 DEF m

LEMMA PowType ==
  ASSUME NEW n \in Nat
  PROVE  2^n \in Nat /\ 2^n >= 1
<1> DEFINE S == 1..n
<1>1. IsFiniteSet(S) /\ Cardinality(S) = n
  BY FS_Interval
<1> HIDE DEF S
<1>2. IsFiniteSet(SUBSET S) /\ Cardinality(SUBSET S) = 2^n
  BY <1>1, FS_SUBSET
<1>3. 2^n \in Nat
  BY <1>2, FS_CardinalityType
<1>4. SUBSET S # {}
  OBVIOUS
<1>5. 2^n # 0
  BY <1>2, <1>4, FS_EmptySet
<1> QED
  BY <1>3, <1>5

LEMMA PowZero == 2^0 = 1
  OBVIOUS

-------------------------------------------------------------------------------
(* Least elements and division                                                *)

(* A nonempty set of naturals has a least element.                            *)
LEMMA LeastExists ==
  ASSUME NEW T \in SUBSET Nat, T # {}
  PROVE  \E x \in T : \A y \in T : x <= y
<1>1. \E x \in T : \A y \in T : ~(<<y, x>> \in OpToRel(<, Nat))
  BY NatLessThanWellFounded, WFMin
<1>2. PICK x \in T : \A y \in T : ~(<<y, x>> \in OpToRel(<, Nat))
  BY <1>1
<1>3. \A y \in T : ~(y < x)
  BY <1>2 DEF OpToRel
<1> QED
  BY <1>3

(* What holds of a and passes from each order to the next holds up to k.      *)
LEMMA Climb ==
  ASSUME NEW a \in Nat, NEW k \in Nat, NEW S, a \in S,
         \A j \in a..(k - 1) : j \in S => j + 1 \in S
  PROVE  \A j \in a..k : j \in S
<1> DEFINE T == {j \in a..k : j \notin S}
<1> SUFFICES ASSUME T # {} PROVE FALSE
  OBVIOUS
<1>0. T \in SUBSET Nat
  OBVIOUS
<1>1. PICK x \in T : \A y \in T : x <= y
  <2> HIDE DEF T
  <2> QED
    BY <1>0, LeastExists
<1>2. x - 1 \in a..(k - 1)
  BY <1>1
<1>3. x - 1 \in S
  BY <1>1, <1>2
<1>4. (x - 1) + 1 = x
  BY <1>1
<1> QED
  BY <1>1, <1>2, <1>3, <1>4

LEMMA MulLess ==
  ASSUME NEW n \in Nat, n >= 1, NEW a \in Int, NEW b \in Int, a < b
  PROVE  a * n + n <= b * n
<1>1. PICK d \in Nat : b = a + 1 + d
  <2>1. b - a - 1 \in Nat /\ b = a + 1 + (b - a - 1)
    OBVIOUS
  <2> QED
    BY <2>1
<1>2. b * n = a * n + n + d * n
  BY <1>1
<1>3. d * n \in Nat /\ a * n \in Int /\ b * n \in Int
  OBVIOUS
<1> QED
  BY <1>2, <1>3

LEMMA DivUnique ==
  ASSUME NEW n \in Nat, n >= 1, NEW q \in Int, NEW r \in 0..(n - 1)
  PROVE  (q * n + r) \div n = q /\ (q * n + r) % n = r
<1> DEFINE x == q * n + r
           y == x \div n
           m == x % n
<1>1. x \in Int /\ y \in Int /\ m \in 0..(n - 1) /\ x = n * y + m
  OBVIOUS
<1>2. n * y = y * n /\ y * n \in Int /\ q * n \in Int
  BY <1>1
<1>3. y * n + m = q * n + r
  BY <1>1, <1>2
<1> HIDE DEF x, y, m
<1>4. ~(y < q)
  <2> SUFFICES ASSUME y < q PROVE FALSE
    OBVIOUS
  <2>1. y * n + n <= q * n
    BY <1>1, MulLess
  <2> QED
    BY <2>1, <1>1, <1>2, <1>3
<1>5. ~(q < y)
  <2> SUFFICES ASSUME q < y PROVE FALSE
    OBVIOUS
  <2>1. q * n + n <= y * n
    BY <1>1, MulLess
  <2> QED
    BY <2>1, <1>1, <1>2, <1>3
<1>6. y = q
  BY <1>1, <1>4, <1>5
<1>7. m = r
  BY <1>1, <1>2, <1>3, <1>6
<1> QED
  BY <1>6, <1>7 DEF x, y, m

LEMMA DivMod ==
  ASSUME NEW n \in Nat, n >= 1, NEW a \in Nat
  PROVE  /\ a \div n \in Nat /\ a % n \in 0..(n - 1)
         /\ (a \div n) * n \in Nat /\ a = (a \div n) * n + (a % n)
<1> DEFINE y == a \div n
           m == a % n
<1>1. y \in Int /\ m \in 0..(n - 1) /\ a = n * y + m
  OBVIOUS
<1>2. n * y = y * n /\ y * n \in Int
  BY <1>1
<1> HIDE DEF y, m
<1>3. y \in Nat
  <2> SUFFICES ASSUME y < 0 PROVE FALSE
    BY <1>1
  <2>1. y * n + n <= 0 * n
    BY <1>1, MulLess
  <2> QED
    BY <1>1, <1>2, <2>1
<1>4. y * n \in Nat
  BY <1>3
<1> QED
  BY <1>1, <1>2, <1>3, <1>4 DEF y, m

(* The quotient by twice the size is half the quotient.                       *)
LEMMA Halve ==
  ASSUME NEW n \in Nat, n >= 1, NEW a \in Nat
  PROVE  a \div (n + n) = (a \div n) \div 2
<1> DEFINE q == a \div n
           r == a % n
           h == q \div 2
           e == q % 2
<1>1. q \in Nat /\ r \in 0..(n - 1) /\ a = q * n + r
  BY DivMod
<1> HIDE DEF q, r
<1>2. h \in Nat /\ e \in 0..1 /\ q = 2 * h + e
  BY <1>1
<1> HIDE DEF h, e
<1>3. q * n = h * (n + n) + e * n
  BY <1>1, <1>2
<1>4. e * n \in 0..n
  BY <1>2
<1>5. e * n + r \in 0..((n + n) - 1)
  <2>1. CASE e = 0
    BY <1>1, <2>1
  <2>2. CASE e = 1
    BY <1>1, <2>2
  <2> QED
    BY <1>2, <2>1, <2>2
<1>6. a = h * (n + n) + (e * n + r)
  BY <1>1, <1>2, <1>3, <1>4
<1>7. n + n \in Nat /\ n + n >= 1
  OBVIOUS
<1>8. a \div (n + n) = h
  BY <1>2, <1>5, <1>6, <1>7, DivUnique
<1> QED
  BY <1>8 DEF h, q

(* The size of an order divides that of a higher one.                         *)
LEMMA PowDivides ==
  ASSUME NEW j \in Nat, NEW k \in Nat, j <= k
  PROVE  \E m \in Nat : m >= 1 /\ 2^k = m * 2^j
<1> DEFINE S == {i \in Nat : \E m \in Nat : m >= 1 /\ 2^i = m * 2^j}
<1>1. 2^j \in Nat
  BY PowType
<1>2. j \in S
  <2>1. 2^j = 1 * 2^j
    BY <1>1
  <2> QED
    BY <2>1
<1>3. ASSUME NEW i \in j..(k - 1), i \in S PROVE i + 1 \in S
  <2>1. PICK m \in Nat : m >= 1 /\ 2^i = m * 2^j
    BY <1>3
  <2>2. 2^(i + 1) = 2^i + 2^i
    BY PowStep
  <2>3. 2^(i + 1) = (m + m) * 2^j
    BY <1>1, <2>1, <2>2
  <2>4. m + m \in Nat /\ m + m >= 1 /\ i + 1 \in Nat
    BY <2>1
  <2> QED
    BY <2>3, <2>4
<1> HIDE DEF S
<1>4. k \in S
  BY <1>2, <1>3, Climb
<1> QED
  BY <1>4 DEF S

LEMMA PowMono ==
  ASSUME NEW j \in Nat, NEW k \in Nat, j <= k
  PROVE  2^j <= 2^k
<1>1. PICK m \in Nat : m >= 1 /\ 2^k = m * 2^j
  BY PowDivides
<1>2. 2^j \in Nat
  BY PowType
<1>3. PICK d \in Nat : m = 1 + d
  BY <1>1
<1>4. 2^k = 2^j + d * 2^j
  BY <1>1, <1>2, <1>3
<1>5. d * 2^j \in Nat
  BY <1>2
<1> QED
  BY <1>2, <1>4, <1>5

LEMMA PowLess ==
  ASSUME NEW j \in Nat, NEW k \in Nat, j < k
  PROVE  2^j + 2^j <= 2^k
<1>1. 2^(j + 1) = 2^j + 2^j
  BY PowStep
<1>2. 2^(j + 1) <= 2^k
  BY PowMono
<1> QED
  BY <1>1, <1>2

-------------------------------------------------------------------------------
(* Blocks in a pool                                                           *)

Area == [at : Nat, ord : Nat]

LEMMA CellsIn ==
  ASSUME NEW x \in Area
  PROVE  /\ \A c : c \in Cells(x) <=> c \in Int /\ x.at <= c /\ c < x.at + 2^x.ord
         /\ x.at \in Cells(x)
<1>1. x.at \in Nat /\ x.ord \in Nat
  BY DEF Area
<1>2. 2^x.ord \in Nat /\ 2^x.ord >= 1
  BY <1>1, PowType
<1> QED
  BY <1>1, <1>2 DEF Cells

(* A block of a pool lies behind its header and is smaller than the pool.     *)
LEMMA FitsInside ==
  ASSUME NEW b \in Area, NEW p \in Area, Fits(b, p)
  PROVE  /\ Cells(b) \subseteq Cells(p) /\ p.at \notin Cells(b)
         /\ b.at \in Cells(p) /\ b.ord < p.ord
<1>1. b.at \in Nat /\ b.ord \in Nat /\ p.at \in Nat /\ p.ord \in Nat
  BY DEF Area
<1>2. 2^b.ord \in Nat /\ 2^b.ord >= 1 /\ 2^p.ord \in Nat
  BY <1>1, PowType
<1>3. b.at > p.at /\ b.at + 2^b.ord <= p.at + 2^p.ord
  BY DEF Fits
<1>4. b.ord < p.ord
  <2> SUFFICES ASSUME p.ord <= b.ord PROVE FALSE
    BY <1>1
  <2>1. 2^p.ord <= 2^b.ord
    BY <1>1, PowMono
  <2> QED
    BY <1>1, <1>2, <1>3, <2>1
<1>5. Cells(b) \subseteq Cells(p) /\ p.at \notin Cells(b)
  BY <1>1, <1>2, <1>3, CellsIn
<1>6. b.at \in Cells(p)
  BY <1>5, CellsIn
<1> QED
  BY <1>4, <1>5, <1>6

(* The block of order j that contains b.                                      *)
Span(b, j, p) == [at |-> Start(b, j, p), ord |-> j]

LEMMA StartQuot ==
  ASSUME NEW b, NEW p, b.at \in Nat, p.at \in Nat, p.at <= b.at, NEW j \in Nat
  PROVE  \E q \in Nat : /\ q = (b.at - p.at) \div 2^j
                        /\ q * 2^j \in Nat
                        /\ Start(b, j, p) = p.at + q * 2^j
                        /\ (Start(b, j, p) - p.at) \div 2^j = q
                        /\ Start(b, j, p) <= b.at /\ b.at < Start(b, j, p) + 2^j
<1> DEFINE off == b.at - p.at
           n == 2^j
           q == off \div n
           s == Start(b, j, p)
<1>1. off \in Nat /\ b.at = p.at + off
  OBVIOUS
<1>2. n \in Nat /\ n >= 1
  BY PowType
<1> HIDE DEF off, n
<1>3. /\ q \in Nat /\ off % n \in 0..(n - 1) /\ q * n \in Nat /\ off = q * n + (off % n)
  BY <1>1, <1>2, DivMod
<1>4. s = p.at + q * n
  BY DEF Start, off, n
<1> HIDE DEF q, s
<1>5. s - p.at = q * n + 0 /\ s <= b.at /\ b.at < s + n
  BY <1>1, <1>2, <1>3, <1>4
<1>6. (q * n + 0) \div n = q
  BY <1>2, <1>3, DivUnique
<1>7. (s - p.at) \div n = q
  BY <1>5, <1>6
<1>8. q = (b.at - p.at) \div 2^j
  BY DEF q, off, n
<1> QED
  BY <1>3, <1>4, <1>5, <1>7, <1>8 DEF n, s

(* One step of the coalescing loop: the buddy is the other half of the block  *)
(* of the next order.                                                         *)
LEMMA SpanStep ==
  ASSUME NEW b, NEW p, b.at \in Nat, p.at \in Nat, p.at <= b.at, NEW j \in Nat
  PROVE  /\ Start(b, j, p) \in Nat /\ Start(b, j + 1, p) \in Nat /\ Start(b, j + 1, p) >= p.at
         /\ \/ /\ Start(b, j + 1, p) = Start(b, j, p)
               /\ Buddy(b, j, p) = [at |-> Start(b, j, p) + 2^j, ord |-> j]
            \/ /\ Start(b, j + 1, p) = Start(b, j, p) - 2^j
               /\ Buddy(b, j, p) = [at |-> Start(b, j, p) - 2^j, ord |-> j]
<1> DEFINE n == 2^j
           off == b.at - p.at
           s == Start(b, j, p)
           s1 == Start(b, j + 1, p)
<1>1. n \in Nat /\ n >= 1 /\ 2^(j + 1) = n + n
  BY PowType, PowStep
<1>2. off \in Nat
  OBVIOUS
<1>3. PICK q \in Nat : /\ q = off \div n /\ q * n \in Nat
                       /\ s = p.at + q * n /\ (s - p.at) \div n = q
  BY StartQuot
<1>4. Buddy(b, j, p) = [at |-> IF ((s - p.at) \div n) % 2 = 0 THEN s + n ELSE s - n, ord |-> j]
  BY DEF Buddy
<1>5. j + 1 \in Nat
  OBVIOUS
<1>6. PICK h \in Nat : /\ h = off \div 2^(j + 1) /\ h * 2^(j + 1) \in Nat
                       /\ s1 = p.at + h * 2^(j + 1)
  BY <1>5, StartQuot
<1> HIDE DEF s, s1, n, off
<1>7. off \div (n + n) = q \div 2
  BY <1>1, <1>2, <1>3, Halve
<1>8. h = q \div 2 /\ s1 = p.at + h * (n + n) /\ h * (n + n) \in Nat
  BY <1>1, <1>6, <1>7
<1>9. q = 2 * h + (q % 2) /\ q % 2 \in 0..1
  BY <1>8
<1>10. CASE q % 2 = 0
  <2>1. q * n = h * (n + n)
    BY <1>1, <1>9, <1>10
  <2>2. s1 = s
    BY <1>3, <1>8, <2>1
  <2>3. Buddy(b, j, p) = [at |-> s + n, ord |-> j]
    BY <1>3, <1>4, <1>10
  <2> QED
    BY <2>2, <2>3, <1>3, <1>8 DEF s, s1, n
<1>11. CASE q % 2 = 1
  <2>1. q * n = h * (n + n) + n
    BY <1>1, <1>9, <1>11
  <2>2. s1 = s - n
    BY <1>1, <1>3, <1>8, <2>1
  <2>3. Buddy(b, j, p) = [at |-> s - n, ord |-> j]
    BY <1>3, <1>4, <1>11
  <2> QED
    BY <2>2, <2>3, <1>3, <1>8 DEF s, s1, n
<1> QED
  BY <1>9, <1>10, <1>11

LEMMA SpanType ==
  ASSUME NEW b \in Area, NEW p \in Area, p.at <= b.at, NEW j \in Nat
  PROVE  /\ Span(b, j, p) \in Area /\ Span(b, j, p).at = Start(b, j, p) /\ Span(b, j, p).ord = j
         /\ Start(b, j, p) >= p.at
         /\ Buddy(b, j, p) \in Area /\ Buddy(b, j, p).ord = j
<1>1. b.at \in Nat /\ p.at \in Nat
  BY DEF Area
<1>2. Start(b, j, p) \in Nat
  BY <1>1, SpanStep
<1>3. 2^j \in Nat
  BY PowType
<1>4. PICK q \in Nat : /\ q = (b.at - p.at) \div 2^j /\ q * 2^j \in Nat
                       /\ Start(b, j, p) = p.at + q * 2^j
  BY <1>1, StartQuot
<1>5. Start(b, j, p) >= p.at
  <2> DEFINE m == q * 2^j
  <2>1. m \in Nat /\ Start(b, j, p) = p.at + m
    BY <1>4
  <2> HIDE DEF m
  <2> QED
    BY <1>1, <2>1
<1>6. Buddy(b, j, p) \in Area /\ Buddy(b, j, p).ord = j
  <2>1. CASE Buddy(b, j, p) = [at |-> Start(b, j, p) + 2^j, ord |-> j]
    BY <1>2, <1>3, <2>1 DEF Area
  <2>2. CASE /\ Start(b, j + 1, p) = Start(b, j, p) - 2^j
             /\ Buddy(b, j, p) = [at |-> Start(b, j, p) - 2^j, ord |-> j]
    <3>1. Start(b, j + 1, p) \in Nat
      BY <1>1, SpanStep
    <3> QED
      BY <2>2, <3>1 DEF Area
  <2> QED
    BY <1>1, <2>1, <2>2, SpanStep
<1> QED
  BY <1>2, <1>5, <1>6 DEF Span, Area

LEMMA SpanIn ==
  ASSUME NEW b \in Area, NEW p \in Area, p.at <= b.at, NEW j \in Nat
  PROVE  \A c : c \in Cells(Span(b, j, p)) <=>
                 c \in Int /\ Start(b, j, p) <= c /\ c < Start(b, j, p) + 2^j
<1> DEFINE z == Span(b, j, p)
<1>1. z \in Area /\ z.at = Start(b, j, p) /\ z.ord = j
  BY SpanType
<1> HIDE DEF z
<1>2. \A c : c \in Cells(z) <=> c \in Int /\ z.at <= c /\ c < z.at + 2^z.ord
  BY <1>1, CellsIn
<1> QED
  BY <1>1, <1>2 DEF z

LEMMA SpanUnion ==
  ASSUME NEW b \in Area, NEW p \in Area, p.at <= b.at, NEW j \in Nat
  PROVE  /\ Cells(Span(b, j + 1, p)) = Cells(Span(b, j, p)) \cup Cells(Buddy(b, j, p))
         /\ Cells(Span(b, j, p)) \cap Cells(Buddy(b, j, p)) = {}
<1> DEFINE s == Start(b, j, p)
           s1 == Start(b, j + 1, p)
           n == 2^j
           y == Buddy(b, j, p)
<1>1. n \in Nat /\ n >= 1 /\ 2^(j + 1) = n + n
  BY PowType, PowStep
<1>2. b.at \in Nat /\ p.at \in Nat /\ j + 1 \in Nat
  BY DEF Area
<1>3. s \in Nat /\ s1 \in Nat
  BY <1>2, SpanStep
<1>4. \A c : c \in Cells(Span(b, j, p)) <=> c \in Int /\ s <= c /\ c < s + n
  BY SpanIn
<1>5. \A c : c \in Cells(Span(b, j + 1, p)) <=> c \in Int /\ s1 <= c /\ c < s1 + 2^(j + 1)
  BY <1>2, SpanIn
<1>6. y \in Area /\ y.ord = j
  BY SpanType
<1>7. \A c : c \in Cells(y) <=> c \in Int /\ y.at <= c /\ c < y.at + n
  <2>1. \A c : c \in Cells(y) <=> c \in Int /\ y.at <= c /\ c < y.at + 2^y.ord
    BY <1>6, CellsIn
  <2> QED
    BY <1>6, <2>1
<1>8. /\ y.at \in Nat
      /\ \/ (s1 = s /\ y.at = s + n)
         \/ (s1 = s - n /\ y.at = s - n)
  <2>1. y.at \in Nat
    BY <1>6 DEF Area
  <2>2. CASE s1 = s /\ y = [at |-> s + n, ord |-> j]
    BY <2>1, <2>2
  <2>3. CASE s1 = s - n /\ y = [at |-> s - n, ord |-> j]
    BY <2>1, <2>3
  <2> QED
    BY <1>2, <2>2, <2>3, SpanStep
<1> HIDE DEF s, s1, n, y
<1>9. \A c : c \in Cells(Span(b, j + 1, p)) <=> c \in Cells(Span(b, j, p)) \/ c \in Cells(y)
  BY <1>1, <1>3, <1>4, <1>5, <1>7, <1>8
<1>10. \A c : ~(c \in Cells(Span(b, j, p)) /\ c \in Cells(y))
  BY <1>1, <1>3, <1>4, <1>7, <1>8
<1> QED
  BY <1>9, <1>10 DEF y

LEMMA SpanGrows ==
  ASSUME NEW b \in Area, NEW p \in Area, p.at <= b.at, NEW i \in Nat, NEW k \in Nat, i <= k
  PROVE  Cells(Span(b, i, p)) \subseteq Cells(Span(b, k, p))
<1> DEFINE S == {m \in Nat : Cells(Span(b, i, p)) \subseteq Cells(Span(b, m, p))}
<1>1. i \in S
  OBVIOUS
<1>2. ASSUME NEW m \in i..(k - 1), m \in S PROVE m + 1 \in S
  <2>1. m \in Nat /\ m + 1 \in Nat
    OBVIOUS
  <2>2. Cells(Span(b, m, p)) \subseteq Cells(Span(b, m + 1, p))
    BY <2>1, SpanUnion
  <2> QED
    BY <1>2, <2>1, <2>2
<1> HIDE DEF S
<1>3. \A m \in i..(k - 1) : m \in S => m + 1 \in S
  BY <1>2
<1>4. \A m \in i..k : m \in S
  BY <1>1, <1>3, Climb
<1>5. k \in S
  BY <1>4
<1> QED
  BY <1>5 DEF S

(* What the loop merges is the block and its buddies, nothing else.           *)
LEMMA SpanCells ==
  ASSUME NEW b \in Area, NEW p \in Area, p.at <= b.at, NEW i \in Nat, NEW k \in Nat, i <= k
  PROVE  /\ \A c \in Cells(Span(b, k, p)) :
              c \in Cells(Span(b, i, p)) \/ \E j \in i..(k - 1) : c \in Cells(Buddy(b, j, p))
         /\ Cells(Span(b, i, p)) \subseteq Cells(Span(b, k, p))
         /\ \A j \in i..(k - 1) : Cells(Buddy(b, j, p)) \subseteq Cells(Span(b, k, p))
<1> DEFINE In(c, m) == c \in Cells(Span(b, i, p)) \/ \E j \in i..(m - 1) : c \in Cells(Buddy(b, j, p))
           S == {m \in Nat : \A c \in Cells(Span(b, m, p)) : In(c, m)}
<1>1. i \in S
  OBVIOUS
<1>2. ASSUME NEW m \in i..(k - 1), m \in S PROVE m + 1 \in S
  <2>1. m \in Nat /\ m + 1 \in Nat
    OBVIOUS
  <2>2. ASSUME NEW c \in Cells(Span(b, m + 1, p)) PROVE In(c, m + 1)
    <3>1. c \in Cells(Span(b, m, p)) \/ c \in Cells(Buddy(b, m, p))
      BY <2>1, SpanUnion
    <3>2. CASE c \in Cells(Buddy(b, m, p))
      BY <2>1, <3>2
    <3>3. CASE c \in Cells(Span(b, m, p))
      <4>1. In(c, m)
        BY <1>2, <3>3
      <4>2. i..(m - 1) \subseteq i..((m + 1) - 1)
        BY <2>1
      <4> QED
        BY <4>1, <4>2
    <3> QED
      BY <3>1, <3>2, <3>3
  <2> QED
    BY <2>1, <2>2
<1>3. k \in S
  <2> HIDE DEF S
  <2>1. \A m \in i..(k - 1) : m \in S => m + 1 \in S
    BY <1>2
  <2>2. \A m \in i..k : m \in S
    BY <1>1, <2>1, Climb
  <2> QED
    BY <2>2
<1>4. ASSUME NEW j \in i..(k - 1) PROVE Cells(Buddy(b, j, p)) \subseteq Cells(Span(b, k, p))
  <2>1. j \in Nat /\ j + 1 \in Nat /\ j + 1 <= k
    OBVIOUS
  <2>2. Cells(Buddy(b, j, p)) \subseteq Cells(Span(b, j + 1, p))
    BY <2>1, SpanUnion
  <2>3. Cells(Span(b, j + 1, p)) \subseteq Cells(Span(b, k, p))
    BY <2>1, SpanGrows
  <2> QED
    BY <2>2, <2>3
<1> QED
  BY <1>3, <1>4, SpanGrows

(* The buddies met on the way up share no cell with the block.                *)
LEMMA BuddyApart ==
  ASSUME NEW b \in Area, NEW p \in Area, p.at <= b.at, NEW i \in Nat, NEW j \in Nat, i <= j
  PROVE  Cells(Span(b, i, p)) \cap Cells(Buddy(b, j, p)) = {}
<1>1. Cells(Span(b, i, p)) \subseteq Cells(Span(b, j, p))
  BY SpanGrows
<1>2. Cells(Span(b, j, p)) \cap Cells(Buddy(b, j, p)) = {}
  BY SpanUnion
<1> QED
  BY <1>1, <1>2

(* They lie in the pool while the order is below the pool's.                  *)
LEMMA SpanInPool ==
  ASSUME NEW b \in Area, NEW p \in Area, p.at <= b.at, b.at < p.at + 2^p.ord,
         NEW j \in Nat, j <= p.ord
  PROVE  Cells(Span(b, j, p)) \subseteq Cells(p)
<1> DEFINE n == 2^j
           s == Start(b, j, p)
           P == 2^p.ord
<1>1. n \in Nat /\ n >= 1
  BY PowType
<1>2. b.at \in Nat /\ p.at \in Nat /\ p.ord \in Nat
  BY DEF Area
<1>3. PICK q \in Nat : /\ q * n \in Nat /\ s = p.at + q * n /\ s <= b.at
  BY <1>2, StartQuot
<1>4. PICK m \in Nat : m >= 1 /\ P = m * n
  BY <1>2, PowDivides
<1>5. P \in Nat
  BY <1>2, PowType
<1>6. b.at < p.at + P
  OBVIOUS
<1>7. \A c : c \in Cells(Span(b, j, p)) <=> c \in Int /\ s <= c /\ c < s + n
  BY SpanIn
<1>8. \A c : c \in Cells(p) <=> c \in Int /\ p.at <= c /\ c < p.at + P
  BY CellsIn
<1> HIDE DEF n, s, P
<1>9. q < m
  <2> SUFFICES ASSUME m <= q PROVE FALSE
    BY <1>3, <1>4
  <2>1. m * n <= q * n
    <3>1. CASE m = q
      BY <1>3, <3>1
    <3>2. CASE m < q
      <4>1. m * n + n <= q * n
        BY <1>1, <1>3, <1>4, <3>2, MulLess
      <4> QED
        BY <4>1, <1>1, <1>3, <1>4, <1>5
    <3> QED
      BY <3>1, <3>2, <1>3, <1>4
  <2> QED
    BY <2>1, <1>2, <1>3, <1>4, <1>5, <1>6
<1>10. q * n + n <= m * n
  BY <1>1, <1>9, MulLess
<1>11. s >= p.at /\ s + n <= p.at + P
  BY <1>1, <1>2, <1>3, <1>4, <1>5, <1>10
<1> QED
  BY <1>1, <1>2, <1>3, <1>5, <1>7, <1>8, <1>11

LEMMA FitsIf ==
  ASSUME NEW b \in Area, NEW p \in Area, NEW q \in Nat, b.at = p.at + q * 2^b.ord,
         b.at > p.at, b.at + 2^b.ord <= p.at + 2^p.ord
  PROVE  Fits(b, p)
<1> DEFINE n == 2^b.ord
<1>1. n \in Nat /\ n >= 1 /\ p.at \in Nat /\ b.at = p.at + q * n
  BY PowType DEF Area
<1>2. q * n + 0 = b.at - p.at
  <2> HIDE DEF n
  <2>1. q * n \in Nat
    BY <1>1
  <2> QED
    BY <1>1, <2>1
<1>3. (q * n + 0) % n = 0
  <2> HIDE DEF n
  <2>1. 0 \in 0..(n - 1) /\ q \in Int
    BY <1>1
  <2> QED
    BY <1>1, <2>1, DivUnique
<1> QED
  BY <1>2, <1>3 DEF Fits

LEMMA FitsQuot ==
  ASSUME NEW b \in Area, NEW p \in Area, Fits(b, p)
  PROVE  /\ p.at <= b.at /\ b.at < p.at + 2^p.ord
         /\ \E q \in Nat : /\ q >= 1 /\ q = (b.at - p.at) \div 2^b.ord
                           /\ b.at = p.at + q * 2^b.ord
<1> DEFINE n == 2^b.ord
           off == b.at - p.at
<1>1. b.at \in Nat /\ p.at \in Nat /\ b.ord \in Nat /\ p.ord \in Nat
  BY DEF Area
<1>2. n \in Nat /\ n >= 1 /\ 2^p.ord \in Nat
  BY <1>1, PowType
<1>3. off \in Nat /\ off > 0 /\ off % n = 0 /\ b.at + n <= p.at + 2^p.ord /\ b.at = p.at + off
  BY <1>1 DEF Fits
<1> HIDE DEF n, off
<1>4. /\ off \div n \in Nat /\ (off \div n) * n \in Nat
      /\ off = (off \div n) * n + (off % n)
  BY <1>2, <1>3, DivMod
<1>5. off = (off \div n) * n
  BY <1>3, <1>4
<1>6. off \div n # 0
  <2> SUFFICES ASSUME off \div n = 0 PROVE FALSE
    OBVIOUS
  <2>1. off = 0 * n
    BY <1>5
  <2> QED
    BY <2>1, <1>2, <1>3
<1>7. b.at < p.at + 2^p.ord /\ p.at <= b.at
  BY <1>1, <1>2, <1>3
<1>8. b.at = p.at + (off \div n) * n
  BY <1>3, <1>5
<1>9. off \div n >= 1
  BY <1>4, <1>6
<1> QED
  BY <1>4, <1>7, <1>8, <1>9 DEF off, n

(* The block of its own order that contains b is b.                           *)
LEMMA SpanOwn ==
  ASSUME NEW b \in Area, NEW p \in Area, Fits(b, p)
  PROVE  Span(b, b.ord, p) = b /\ Start(b, b.ord, p) = b.at
<1>1. PICK q \in Nat : /\ q = (b.at - p.at) \div 2^b.ord /\ b.at = p.at + q * 2^b.ord
  BY FitsQuot
<1>2. Start(b, b.ord, p) = b.at
  BY <1>1 DEF Start
<1> QED
  BY <1>2 DEF Span, Area

(* The whole and its lower part have the same buddy.                          *)
LEMMA SpanBuddy ==
  ASSUME NEW b \in Area, NEW p \in Area, p.at <= b.at, NEW k \in Nat
  PROVE  Buddy(Span(b, k, p), k, p) = Buddy(b, k, p)
<1> DEFINE z == Span(b, k, p)
           n == 2^k
<1>1. b.at \in Nat /\ p.at \in Nat
  BY DEF Area
<1>2. PICK q \in Nat : Start(b, k, p) = p.at + q * n /\ (Start(b, k, p) - p.at) \div n = q
  BY <1>1, StartQuot
<1>3. z.at = Start(b, k, p)
  BY DEF Span
<1>4. (z.at - p.at) \div n = q
  BY <1>2, <1>3
<1>5. Start(z, k, p) = Start(b, k, p)
  BY <1>2, <1>4 DEF Start
<1> QED
  BY <1>5 DEF Buddy

(* While the buddies are blocks of the pool so is what the loop has merged,   *)
(* so that it ends below the order of the pool.                               *)
LEMMA SpanFits ==
  ASSUME NEW b \in Area, NEW p \in Area, Fits(b, p), NEW k \in Nat, b.ord <= k,
         \A j \in b.ord..(k - 1) : Fits(Buddy(b, j, p), p)
  PROVE  Fits(Span(b, k, p), p)
<1> DEFINE S == {m \in Nat : Fits(Span(b, m, p), p)}
<1>1. b.ord \in Nat /\ b.at \in Nat /\ p.at \in Nat /\ p.ord \in Nat
  BY DEF Area
<1>2. b.ord \in S
  BY <1>1, SpanOwn
<1>3. p.at <= b.at
  BY FitsQuot
<1>4. ASSUME NEW m \in b.ord..(k - 1), m \in S PROVE m + 1 \in S
  <2> DEFINE s == Start(b, m, p)
             s1 == Start(b, m + 1, p)
             n == 2^m
             y == Buddy(b, m, p)
             z == Span(b, m + 1, p)
  <2>1. m \in Nat /\ m + 1 \in Nat
    BY <1>1
  <2>2. Fits(y, p) /\ Fits(Span(b, m, p), p)
    BY <1>4
  <2>3. n \in Nat /\ n >= 1 /\ 2^(m + 1) = n + n /\ 2^p.ord \in Nat
    BY <1>1, <2>1, PowType, PowStep
  <2>4. z \in Area /\ z.at = s1 /\ z.ord = m + 1
    BY <1>3, <2>1, SpanType
  <2>5. Span(b, m, p).at = s /\ Span(b, m, p).ord = m /\ y.ord = m
    BY <1>3, <2>1, SpanType
  <2>6. s > p.at /\ s + n <= p.at + 2^p.ord
    BY <2>2, <2>5 DEF Fits
  <2>7. y.at > p.at /\ y.at + n <= p.at + 2^p.ord
    BY <2>2, <2>5 DEF Fits
  <2>8. s \in Nat /\ s1 \in Nat
    BY <1>1, <1>3, <2>1, SpanStep
  <2>9. \/ (s1 = s /\ y.at = s + n)
        \/ (s1 = s - n /\ y.at = s - n)
    BY <1>1, <1>3, <2>1, SpanStep
  <2>10. PICK q \in Nat : /\ q = (b.at - p.at) \div 2^(m + 1) /\ q * 2^(m + 1) \in Nat
                          /\ s1 = p.at + q * 2^(m + 1)
    BY <1>1, <1>3, <2>1, StartQuot
  <2> HIDE DEF s, s1, n, y, z
  <2>11. s1 > p.at /\ s1 + (n + n) <= p.at + 2^p.ord
    BY <1>1, <2>3, <2>6, <2>7, <2>8, <2>9
  <2>12. Fits(z, p)
    BY <2>3, <2>4, <2>10, <2>11, FitsIf
  <2> QED
    BY <2>1, <2>12 DEF z
<1> HIDE DEF S
<1>5. \A m \in b.ord..(k - 1) : m \in S => m + 1 \in S
  BY <1>4
<1>6. \A m \in b.ord..k : m \in S
  BY <1>1, <1>2, <1>5, Climb
<1>7. k \in S
  BY <1>1, <1>6
<1> QED
  BY <1>7 DEF S

LEMMA BuddySym ==
  ASSUME NEW x \in Area, NEW y \in Area, NEW p \in Area, Fits(x, p), Fits(y, p),
         y = Buddy(x, x.ord, p)
  PROVE  Buddy(y, y.ord, p) = x
<1> DEFINE n == 2^x.ord
<1>1. x.at \in Nat /\ x.ord \in Nat /\ p.at \in Nat /\ p.at <= x.at
  BY FitsQuot DEF Area
<1>2. n \in Nat /\ n >= 1
  BY <1>1, PowType
<1>3. PICK q \in Nat : /\ q = (x.at - p.at) \div n /\ x.at = p.at + q * n
  BY FitsQuot
<1>4. Start(x, x.ord, p) = x.at /\ Start(y, y.ord, p) = y.at
  BY SpanOwn
<1>5. y = [at |-> IF q % 2 = 0 THEN x.at + n ELSE x.at - n, ord |-> x.ord]
  BY <1>3, <1>4 DEF Buddy
<1>6. y.ord = x.ord /\ y.at = IF q % 2 = 0 THEN x.at + n ELSE x.at - n
  BY <1>5
<1> DEFINE r == (y.at - p.at) \div n
<1>7. PICK q2 \in Nat : /\ q2 = (y.at - p.at) \div n /\ y.at = p.at + q2 * n
  BY <1>6, FitsQuot
<1>8. Buddy(y, y.ord, p) = [at |-> IF r % 2 = 0 THEN y.at + n ELSE y.at - n, ord |-> y.ord]
  BY <1>4, <1>6 DEF Buddy
<1>9. r = q2
  BY <1>7
<1> HIDE DEF n, r
<1>10. CASE q % 2 = 0
  <2>1. q2 * n = (q + 1) * n
    BY <1>1, <1>2, <1>3, <1>6, <1>7, <1>10
  <2>2. q2 = q + 1
    <3>1. ~(q2 < q + 1)
      <4> SUFFICES ASSUME q2 < q + 1 PROVE FALSE
        OBVIOUS
      <4>1. q2 * n + n <= (q + 1) * n
        BY <1>2, <1>3, <1>7, MulLess
      <4> QED
        BY <4>1, <2>1, <1>2, <1>3
    <3>2. ~(q + 1 < q2)
      <4> SUFFICES ASSUME q + 1 < q2 PROVE FALSE
        OBVIOUS
      <4>1. (q + 1) * n + n <= q2 * n
        BY <1>2, <1>3, <1>7, MulLess
      <4> QED
        BY <4>1, <2>1, <1>2, <1>7
    <3> QED
      BY <3>1, <3>2, <1>3, <1>7
  <2>3. r % 2 # 0
    BY <1>9, <1>10, <2>2
  <2>4. y.at - n = x.at
    BY <1>1, <1>2, <1>6, <1>10
  <2>5. Buddy(y, y.ord, p) = [at |-> x.at, ord |-> x.ord]
    BY <1>6, <1>8, <2>3, <2>4
  <2> QED
    BY <2>5 DEF Area
<1>11. CASE q % 2 # 0
  <2>0. q >= 1
    BY <1>3, <1>11
  <2>1. q2 * n = (q - 1) * n
    BY <1>1, <1>2, <1>3, <1>6, <1>7, <1>11
  <2>2. q2 = q - 1
    <3>1. ~(q2 < q - 1)
      <4> SUFFICES ASSUME q2 < q - 1 PROVE FALSE
        OBVIOUS
      <4>1. q2 * n + n <= (q - 1) * n
        BY <1>2, <1>3, <1>7, MulLess
      <4> QED
        BY <4>1, <2>1, <1>2, <1>3
    <3>2. ~(q - 1 < q2)
      <4> SUFFICES ASSUME q - 1 < q2 PROVE FALSE
        OBVIOUS
      <4>1. (q - 1) * n + n <= q2 * n
        BY <1>2, <1>3, <1>7, MulLess
      <4> QED
        BY <4>1, <2>1, <1>2, <1>7
    <3> QED
      BY <3>1, <3>2, <1>3, <1>7
  <2>3. r % 2 = 0
    BY <1>9, <1>11, <2>2
  <2>4. y.at + n = x.at
    BY <1>1, <1>2, <1>6, <1>11
  <2>5. Buddy(y, y.ord, p) = [at |-> x.at, ord |-> x.ord]
    BY <1>6, <1>8, <2>3, <2>4
  <2> QED
    BY <2>5 DEF Area
<1> QED
  BY <1>10, <1>11

-------------------------------------------------------------------------------
(* Splitting                                                                  *)

Right(b, j) == [at |-> b.at + 2^j, ord |-> j]
Left(b, o)  == [at |-> b.at, ord |-> o]

LEMMA RightType ==
  ASSUME NEW b \in Area, NEW j \in Nat
  PROVE  /\ Right(b, j) \in Area /\ Right(b, j).at = b.at + 2^j /\ Right(b, j).ord = j
         /\ Left(b, j) \in Area /\ Left(b, j).at = b.at /\ Left(b, j).ord = j
<1>1. 2^j \in Nat /\ b.at \in Nat
  BY PowType DEF Area
<1> QED
  BY <1>1 DEF Right, Left, Area

(* A right half sits in the pool as its block does, and its buddy starts      *)
(* where the block starts; the block may be the pool itself.                  *)
LEMMA RightFits ==
  ASSUME NEW b \in Area, NEW p \in Area, NEW q \in Nat, b.at = p.at + q * 2^b.ord,
         b.at + 2^b.ord <= p.at + 2^p.ord, NEW j \in Nat, j < b.ord
  PROVE  Fits(Right(b, j), p) /\ Buddy(Right(b, j), j, p) = Left(b, j)
<1> DEFINE n == 2^j
           z == Right(b, j)
           N == 2^b.ord
           P == 2^p.ord
<1>1. b.at \in Nat /\ b.ord \in Nat /\ p.at \in Nat /\ p.ord \in Nat
  BY DEF Area
<1>2. n \in Nat /\ n >= 1 /\ 2^(j + 1) = n + n /\ N \in Nat /\ P \in Nat
  BY <1>1, PowType, PowStep
<1>3. PICK m \in Nat : m >= 1 /\ N = m * 2^(j + 1)
  <2>1. j + 1 \in Nat /\ j + 1 <= b.ord
    BY <1>1
  <2> QED
    BY <1>1, <2>1, PowDivides
<1>4. z \in Area /\ z.at = b.at + n /\ z.ord = j
  BY RightType
<1>5. b.at = p.at + q * N /\ b.at + N <= p.at + P
  OBVIOUS
<1> DEFINE Q == 2 * (q * m) + 1
<1>6. Q \in Nat /\ q * m \in Nat
  BY <1>3
<1> HIDE DEF n, z, N, P
<1>7. N = m * (n + n)
  BY <1>2, <1>3
<1>8. q * N = (2 * (q * m)) * n
  BY <1>2, <1>3, <1>7
<1>9. Q * n = (2 * (q * m)) * n + n
  BY <1>2, <1>6
<1>10. q * N \in Nat /\ Q * n \in Nat
  BY <1>2, <1>6
<1>11. z.at = p.at + Q * n
  <2> HIDE DEF Q
  <2>1. Q * n = q * N + n
    BY <1>8, <1>9
  <2> QED
    BY <1>1, <1>2, <1>4, <1>5, <1>10, <2>1
<1>12. n + n <= N
  <2>1. n + n <= 2^b.ord
    BY <1>1, PowLess DEF n
  <2> QED
    BY <2>1 DEF N
<1>13. z.at > p.at /\ z.at + n <= p.at + P
  BY <1>1, <1>2, <1>4, <1>5, <1>10, <1>12
<1>14. Fits(z, p)
  BY <1>4, <1>6, <1>11, <1>13, FitsIf DEF n, P
<1>15. Start(z, j, p) = z.at
  BY <1>4, <1>14, SpanOwn
<1>16. (z.at - p.at) \div n = Q
  <2>1. z.at - p.at = Q * n + 0
    BY <1>1, <1>10, <1>11
  <2>2. 0 \in 0..(n - 1) /\ Q \in Int
    BY <1>2, <1>6
  <2>3. (Q * n + 0) \div n = Q
    <3> HIDE DEF Q
    <3> QED
      BY <1>2, <2>2, DivUnique
  <2> QED
    BY <2>1, <2>3
<1>17. Q % 2 = 1
  BY <1>6
<1>18. Buddy(z, j, p) = [at |-> IF Q % 2 = 0 THEN z.at + n ELSE z.at - n, ord |-> j]
  BY <1>15, <1>16 DEF Buddy, n
<1>19. z.at - n = b.at
  BY <1>1, <1>2, <1>4
<1>20. Buddy(z, j, p) = [at |-> b.at, ord |-> j]
  BY <1>17, <1>18, <1>19
<1> QED
  BY <1>14, <1>20 DEF z, Left

LEMMA HalvesIn ==
  ASSUME NEW b \in Area, NEW o \in Nat
  PROVE  \A z : z \in Halves(b, o) <=> \E j \in o..(b.ord - 1) : z = Right(b, j)
  BY DEF Halves, Right

LEMMA RightIn ==
  ASSUME NEW b \in Area, NEW j \in Nat
  PROVE  /\ \A c : c \in Cells(Right(b, j)) <=>
                     c \in Int /\ b.at + 2^j <= c /\ c < b.at + 2^j + 2^j
         /\ \A c : c \in Cells(Left(b, j)) <=> c \in Int /\ b.at <= c /\ c < b.at + 2^j
<1> DEFINE z == Right(b, j)
           w == Left(b, j)
<1>1. /\ z \in Area /\ z.at = b.at + 2^j /\ z.ord = j
      /\ w \in Area /\ w.at = b.at /\ w.ord = j
  BY RightType
<1> HIDE DEF z, w
<1>2. \A c : c \in Cells(z) <=> c \in Int /\ z.at <= c /\ c < z.at + 2^z.ord
  BY <1>1, CellsIn
<1>3. \A c : c \in Cells(w) <=> c \in Int /\ w.at <= c /\ c < w.at + 2^w.ord
  BY <1>1, CellsIn
<1> QED
  BY <1>1, <1>2, <1>3 DEF z, w

(* The left part and the right halves are a partition of the block.           *)
LEMMA SplitCells ==
  ASSUME NEW b \in Area, NEW o \in Nat, o <= b.ord
  PROVE  /\ \A c \in Cells(b) : c \in Cells(Left(b, o)) \/ \E z \in Halves(b, o) : c \in Cells(z)
         /\ Cells(Left(b, o)) \subseteq Cells(b)
         /\ \A z \in Halves(b, o) : /\ Cells(z) \subseteq Cells(b)
                                    /\ Cells(z) \cap Cells(Left(b, o)) = {}
         /\ \A z, w \in Halves(b, o) : Meets(z, w) => z = w
<1>1. b.at \in Nat /\ b.ord \in Nat
  BY DEF Area
<1>2. \A c : c \in Cells(b) <=> c \in Int /\ b.at <= c /\ c < b.at + 2^b.ord
  BY CellsIn
<1>3. \A c : c \in Cells(Left(b, o)) <=> c \in Int /\ b.at <= c /\ c < b.at + 2^o
  BY RightIn
<1>4. 2^b.ord \in Nat /\ 2^o \in Nat /\ 2^o <= 2^b.ord
  BY <1>1, PowType, PowMono
<1>5. \A c \in Cells(b) : c \in Cells(Left(b, o)) \/ \E z \in Halves(b, o) : c \in Cells(z)
  <2> SUFFICES ASSUME NEW c \in Cells(b), c \notin Cells(Left(b, o))
               PROVE  \E z \in Halves(b, o) : c \in Cells(z)
    OBVIOUS
  <2>1. c \in Int /\ b.at + 2^o <= c /\ c < b.at + 2^b.ord
    BY <1>1, <1>2, <1>3, <1>4
  <2> DEFINE T == {m \in Nat : o <= m /\ c < b.at + 2^m}
  <2>2. T \in SUBSET Nat /\ b.ord \in T
    BY <1>1, <2>1
  <2>3. PICK m \in T : \A i \in T : m <= i
    <3> HIDE DEF T
    <3> QED
      BY <2>2, LeastExists
  <2>4. m \in Nat /\ o <= m /\ c < b.at + 2^m /\ m <= b.ord
    BY <2>2, <2>3
  <2>5. m # o
    BY <1>1, <1>4, <2>1, <2>4
  <2>6. m - 1 \in Nat /\ o <= m - 1 /\ m - 1 \in o..(b.ord - 1) /\ (m - 1) + 1 = m
    BY <1>1, <2>4, <2>5
  <2>7. ~(c < b.at + 2^(m - 1))
    BY <2>3, <2>6
  <2>8. 2^m = 2^(m - 1) + 2^(m - 1) /\ 2^(m - 1) \in Nat
    BY <2>6, PowStep, PowType
  <2>9. b.at + 2^(m - 1) <= c /\ c < b.at + 2^(m - 1) + 2^(m - 1)
    BY <1>1, <2>1, <2>4, <2>7, <2>8
  <2>10. c \in Cells(Right(b, m - 1))
    BY <2>1, <2>6, <2>9, RightIn
  <2>11. Right(b, m - 1) \in Halves(b, o)
    BY <2>6, HalvesIn
  <2> QED
    BY <2>10, <2>11
<1>6. Cells(Left(b, o)) \subseteq Cells(b)
  BY <1>1, <1>2, <1>3, <1>4
<1>7. ASSUME NEW z \in Halves(b, o)
      PROVE  Cells(z) \subseteq Cells(b) /\ Cells(z) \cap Cells(Left(b, o)) = {}
  <2>1. PICK j \in o..(b.ord - 1) : z = Right(b, j)
    BY HalvesIn
  <2>2. j \in Nat /\ j < b.ord /\ o <= j
    BY <1>1
  <2>3. 2^j \in Nat /\ 2^j + 2^j <= 2^b.ord /\ 2^o <= 2^j
    BY <1>1, <2>2, PowType, PowLess, PowMono
  <2>4. \A c : c \in Cells(z) <=> c \in Int /\ b.at + 2^j <= c /\ c < b.at + 2^j + 2^j
    BY <2>1, <2>2, RightIn
  <2> QED
    BY <1>1, <1>2, <1>3, <1>4, <2>3, <2>4
<1>8. ASSUME NEW i \in o..(b.ord - 1), NEW j \in o..(b.ord - 1), i < j
      PROVE  ~Meets(Right(b, i), Right(b, j))
  <2>1. i \in Nat /\ j \in Nat
    BY <1>1
  <2>2. 2^i \in Nat /\ 2^j \in Nat /\ 2^i + 2^i <= 2^j
    BY <1>8, <2>1, PowType, PowLess
  <2>3. \A c : c \in Cells(Right(b, i)) <=> c \in Int /\ b.at + 2^i <= c /\ c < b.at + 2^i + 2^i
    BY <2>1, RightIn
  <2>4. \A c : c \in Cells(Right(b, j)) <=> c \in Int /\ b.at + 2^j <= c /\ c < b.at + 2^j + 2^j
    BY <2>1, RightIn
  <2>5. \A c : ~(c \in Cells(Right(b, i)) /\ c \in Cells(Right(b, j)))
    BY <1>1, <2>2, <2>3, <2>4
  <2> QED
    BY <2>5 DEF Meets
<1>9. ASSUME NEW z \in Halves(b, o), NEW w \in Halves(b, o), Meets(z, w) PROVE z = w
  <2>1. PICK i \in o..(b.ord - 1) : z = Right(b, i)
    BY HalvesIn
  <2>2. PICK j \in o..(b.ord - 1) : w = Right(b, j)
    BY HalvesIn
  <2>3. ~(i < j)
    BY <1>8, <1>9, <2>1, <2>2
  <2>4. Meets(Right(b, j), Right(b, i))
    BY <1>9, <2>1, <2>2 DEF Meets
  <2>5. ~(j < i)
    BY <1>8, <2>4
  <2> QED
    BY <1>1, <2>1, <2>2, <2>3, <2>5
<1> QED
  BY <1>5, <1>6, <1>7, <1>9

-------------------------------------------------------------------------------
(* Sizes                                                                      *)

Mass(S) == UNION {{b} \X Cells(b) : b \in S}

LEMMA MassIn ==
  ASSUME NEW S
  PROVE  \A e : e \in Mass(S) <=> \E b \in S : e \in {b} \X Cells(b)
  BY DEF Mass

LEMMA ImageFinite ==
  ASSUME NEW S, NEW T, NEW f \in [S -> T], IsFiniteSet(S), \A w \in T : \E x \in S : f[x] = w
  PROVE  IsFiniteSet(T)
<1>1. f \in Surjection(S, T)
  BY DEF Surjection
<1> QED
  BY <1>1, FS_Surjection

LEMMA CellsFinite ==
  ASSUME NEW b \in Area
  PROVE  IsFiniteSet(Cells(b)) /\ Cardinality(Cells(b)) = 2^b.ord
<1> DEFINE n == 2^b.ord
           a == b.at
           z == a + n - 1
<1>1. a \in Nat /\ n \in Nat /\ n >= 1
  BY PowType DEF Area
<1>2. Cells(b) = a..z
  BY DEF Cells
<1> HIDE DEF n, a
<1>3. a \in Int /\ z \in Int /\ ~(a > z) /\ z - a + 1 = n
  BY <1>1
<1> HIDE DEF z
<1>4. IsFiniteSet(a..z) /\ Cardinality(a..z) = z - a + 1
  BY <1>1, <1>3, FS_Interval
<1> QED
  BY <1>2, <1>3, <1>4 DEF n

LEMMA OneMass ==
  ASSUME NEW b \in Area
  PROVE  IsFiniteSet({b} \X Cells(b)) /\ Cardinality({b} \X Cells(b)) = 2^b.ord
<1>1. IsFiniteSet({b}) /\ Cardinality({b}) = 1
  BY FS_Singleton
<1>2. IsFiniteSet(Cells(b)) /\ Cardinality(Cells(b)) = 2^b.ord
  BY CellsFinite
<1>3. 2^b.ord \in Nat
  BY PowType DEF Area
<1>4. IsFiniteSet({b} \X Cells(b)) /\ Cardinality({b} \X Cells(b)) = Cardinality({b}) * Cardinality(Cells(b))
  BY <1>1, <1>2, FS_Product
<1>5. 1 * 2^b.ord = 2^b.ord
  BY <1>3
<1> QED
  BY <1>1, <1>2, <1>4, <1>5

LEMMA MassFinite ==
  ASSUME NEW S \in SUBSET Area, IsFiniteSet(S)
  PROVE  IsFiniteSet(Mass(S)) /\ Size(S) \in Nat
<1> DEFINE T == {{b} \X Cells(b) : b \in S}
           f == [b \in S |-> {b} \X Cells(b)]
<1>1. f \in [S -> T] /\ \A w \in T : \E x \in S : f[x] = w
  OBVIOUS
<1>2. IsFiniteSet(T)
  <2> HIDE DEF f, T
  <2> QED
    BY <1>1, ImageFinite
<1>3. \A w \in T : IsFiniteSet(w)
  BY OneMass
<1>4. IsFiniteSet(UNION T)
  <2> HIDE DEF T
  <2> QED
    BY <1>2, <1>3, FS_UNION
<1>5. IsFiniteSet(Mass(S))
  BY <1>4 DEF Mass
<1>6. Size(S) = Cardinality(Mass(S))
  BY DEF Size, Mass
<1> QED
  BY <1>5, <1>6, FS_CardinalityType

LEMMA SizeUnion ==
  ASSUME NEW S \in SUBSET Area, NEW T \in SUBSET Area, IsFiniteSet(S), IsFiniteSet(T),
         S \cap T = {}
  PROVE  Size(S \cup T) = Size(S) + Size(T)
<1>1. IsFiniteSet(Mass(S)) /\ IsFiniteSet(Mass(T)) /\ Size(S) \in Nat /\ Size(T) \in Nat
  BY MassFinite
<1>2. Mass(S \cup T) = Mass(S) \cup Mass(T)
  BY MassIn
<1>3. Mass(S) \cap Mass(T) = {}
  <2> SUFFICES ASSUME NEW e, e \in Mass(S), e \in Mass(T) PROVE FALSE
    OBVIOUS
  <2>1. PICK x \in S : e \in {x} \X Cells(x)
    BY MassIn
  <2>2. PICK y \in T : e \in {y} \X Cells(y)
    BY MassIn
  <2>3. x = y
    BY <2>1, <2>2
  <2> QED
    BY <2>3
<1>4. /\ Size(S) = Cardinality(Mass(S)) /\ Size(T) = Cardinality(Mass(T))
      /\ Size(S \cup T) = Cardinality(Mass(S \cup T))
  BY DEF Size, Mass
<1>5. Cardinality({}) = 0
  BY FS_EmptySet
<1> DEFINE A1 == Mass(S)
           A2 == Mass(T)
<1>6. /\ IsFiniteSet(A1) /\ IsFiniteSet(A2) /\ A1 \cap A2 = {}
      /\ Cardinality(A1) = Size(S) /\ Cardinality(A2) = Size(T)
      /\ Size(S \cup T) = Cardinality(A1 \cup A2)
  BY <1>1, <1>2, <1>3, <1>4
<1> HIDE DEF A1, A2
<1>7. Cardinality(A1 \cup A2) = Cardinality(A1) + Cardinality(A2) - Cardinality(A1 \cap A2)
  BY <1>6, FS_Union
<1>8. Size(S \cup T) = Size(S) + Size(T) - 0
  BY <1>5, <1>6, <1>7
<1> QED
  BY <1>1, <1>8

LEMMA SizeOne ==
  ASSUME NEW b \in Area
  PROVE  Size({b}) = 2^b.ord
<1>1. Mass({b}) = {b} \X Cells(b)
  BY DEF Mass
<1>2. Size({b}) = Cardinality(Mass({b}))
  BY DEF Size, Mass
<1> QED
  BY <1>1, <1>2, OneMass

LEMMA SizeNone == Size({}) = 0
<1>1. Mass({}) = {}
  BY MassIn
<1>2. Size({}) = Cardinality(Mass({}))
  BY DEF Size, Mass
<1> QED
  BY <1>1, <1>2, FS_EmptySet

LEMMA SizeAdd ==
  ASSUME NEW S \in SUBSET Area, IsFiniteSet(S), NEW b \in Area, b \notin S
  PROVE  /\ Size(S \cup {b}) = Size(S) + 2^b.ord
         /\ Size(S) \in Nat
<1>1. IsFiniteSet({b}) /\ {b} \in SUBSET Area /\ S \cap {b} = {}
  BY FS_Singleton
<1>2. Size(S \cup {b}) = Size(S) + Size({b})
  BY <1>1, SizeUnion
<1> QED
  BY <1>2, SizeOne, MassFinite

LEMMA SizeRemove ==
  ASSUME NEW S \in SUBSET Area, IsFiniteSet(S), NEW b \in S
  PROVE  /\ Size(S \ {b}) = Size(S) - 2^b.ord
         /\ Size(S) - 2^b.ord \in Nat
<1> DEFINE R == S \ {b}
<1>1. R \in SUBSET Area /\ b \in Area /\ b \notin R /\ S = R \cup {b}
  OBVIOUS
<1>2. IsFiniteSet(R)
  BY FS_Subset
<1>3. 2^b.ord \in Nat
  BY <1>1, PowType DEF Area
<1> HIDE DEF R
<1>4. Size(R \cup {b}) = Size(R) + 2^b.ord /\ Size(R) \in Nat
  BY <1>1, <1>2, SizeAdd
<1>5. Size(S) = Size(R) + 2^b.ord
  BY <1>1, <1>4
<1>6. Size(R) = Size(S) - 2^b.ord
  BY <1>3, <1>4, <1>5
<1> QED
  BY <1>4, <1>6 DEF R

(* Blocks that share no cell have as many cells as their sizes add up to.     *)
LEMMA SizeCells ==
  ASSUME NEW S \in SUBSET Area, IsFiniteSet(S), \A x, y \in S : Meets(x, y) => x = y
  PROVE  LET C == UNION {Cells(b) : b \in S}
         IN  IsFiniteSet(C) /\ Cardinality(C) = Size(S)
<1> DEFINE C == UNION {Cells(b) : b \in S}
           f == [e \in Mass(S) |-> e[2]]
<1>1. \A e \in Mass(S) : \E b \in S : \E c \in Cells(b) : e = <<b, c>>
  BY MassIn
<1>2. \A b \in S : \A c \in Cells(b) : <<b, c>> \in Mass(S)
  BY MassIn
<1>3. f \in [Mass(S) -> C]
  BY <1>1
<1>4. \A w \in C : \E e \in Mass(S) : f[e] = w
  <2> TAKE w \in C
  <2>1. PICK b \in S : w \in Cells(b)
    OBVIOUS
  <2>2. <<b, w>> \in Mass(S) /\ f[<<b, w>>] = w
    BY <1>2, <2>1
  <2> QED
    BY <2>2
<1>5. \A e, g \in Mass(S) : f[e] = f[g] => e = g
  <2> TAKE e, g \in Mass(S)
  <2> HAVE f[e] = f[g]
  <2>1. PICK x \in S : \E c \in Cells(x) : e = <<x, c>>
    BY <1>1
  <2>2. PICK c \in Cells(x) : e = <<x, c>>
    BY <2>1
  <2>3. PICK y \in S : \E d \in Cells(y) : g = <<y, d>>
    BY <1>1
  <2>4. PICK d \in Cells(y) : g = <<y, d>>
    BY <2>3
  <2>5. c = d
    BY <2>2, <2>4
  <2>6. x = y
    BY <2>5 DEF Meets
  <2> QED
    BY <2>2, <2>4, <2>5, <2>6
<1>6. IsFiniteSet(Mass(S)) /\ Size(S) = Cardinality(Mass(S))
  BY MassFinite DEF Size, Mass
<1> HIDE DEF C, f
<1>7. IsFiniteSet(C) /\ Cardinality(C) = Size(S)
  BY <1>3, <1>4, <1>5, <1>6, SameSize
<1> QED
  BY <1>7 DEF C

-------------------------------------------------------------------------------
(* Pools, seats and places                                                    *)

PoolsOf(pl) ==
  /\ pl \in [Thread -> SUBSET Site]
  /\ \A t, u \in Thread : \A p \in pl[t], q \in pl[u] : Meets(p, q) => t = u /\ p = q

LEMMA Areas ==
  /\ Block \subseteq Area /\ Site \subseteq Area
  /\ \A p \in Site : p.at \in Nat /\ p.ord \in Order /\ p.ord >= 1
  /\ \A b \in Block : b.at \in Nat /\ b.ord \in Order /\ b.ord \in Nat
<1>1. PoolOrder \in Nat \ {0} /\ MaxOrder \in Nat /\ Site \subseteq [at : Nat, ord : PoolOrder..MaxOrder]
  BY HeapAssumption
<1>2. Order \subseteq Nat
  BY <1>1 DEF Order
<1>3. PoolOrder..MaxOrder \subseteq Order /\ \A o \in PoolOrder..MaxOrder : o >= 1
  BY <1>1 DEF Order
<1> QED
  BY <1>1, <1>2, <1>3 DEF Block, Area

(* An address lies in at most one pool.                                       *)
LEMMA SeatUnique ==
  ASSUME NEW pl, PoolsOf(pl), NEW t \in Thread, NEW u \in Thread, NEW p \in pl[t], NEW q \in pl[u],
         NEW b \in Area, Fits(b, p), b.at \in Cells(q) \/ Fits(b, q)
  PROVE  t = u /\ p = q
<1>1. p \in Area /\ q \in Area
  BY Areas DEF PoolsOf
<1>2. b.at \in Cells(p) /\ b.at \in Cells(q)
  BY <1>1, FitsInside
<1> QED
  BY <1>2 DEF PoolsOf, Meets

LEMMA SeatInside ==
  ASSUME NEW pl, PoolsOf(pl), NEW T \in SUBSET Thread, NEW b \in Area, Seated(b, pl, T)
  PROVE  \E u \in T : \E p \in pl[u] : Fits(b, p) /\ Cells(b) \subseteq Cells(p) /\ b.at \in Cells(p)
<1>1. PICK u \in T : \E p \in pl[u] : Fits(b, p)
  BY DEF Seated
<1>2. PICK p \in pl[u] : Fits(b, p)
  BY <1>1
<1>3. p \in Area
  BY Areas DEF PoolsOf
<1> QED
  BY <1>2, <1>3, FitsInside

LEMMA SeatApart ==
  ASSUME NEW pl, PoolsOf(pl), NEW t \in Thread, NEW b \in Area,
         Seated(b, pl, {t})
  PROVE  \A u \in Thread : Seated(b, pl, {u}) => u = t
<1>1. PICK p \in pl[t] : Fits(b, p)
  BY DEF Seated
<1> SUFFICES ASSUME NEW u \in Thread, Seated(b, pl, {u}) PROVE u = t
  OBVIOUS
<1>2. PICK q \in pl[u] : Fits(b, q)
  BY DEF Seated
<1> QED
  BY <1>1, <1>2, SeatUnique

LEMMA SeatMore ==
  ASSUME NEW pl, NEW T, NEW U, NEW b, T \subseteq U, Seated(b, pl, T)
  PROVE  Seated(b, pl, U)
  BY DEF Seated

(* Of a seated block, Local says whose pool it is in.                         *)
LEMMA LocalIs ==
  ASSUME PoolsOf(pools), NEW b \in Area, Seated(b, pools, Thread), NEW t \in Thread
  PROVE  Local(t, b) <=> Seated(b, pools, {t})
<1>1. PICK u \in Thread : \E p \in pools[u] : Fits(b, p)
  BY DEF Seated
<1>2. PICK p \in pools[u] : Fits(b, p)
  BY <1>1
<1>3. ASSUME Local(t, b) PROVE Seated(b, pools, {t})
  <2>1. PICK q \in pools[t] : b.at \in Cells(q)
    BY <1>3 DEF Local
  <2>2. u = t /\ p = q
    BY <1>2, <2>1, SeatUnique
  <2> QED
    BY <1>2, <2>2 DEF Seated
<1>4. ASSUME Seated(b, pools, {t}) PROVE Local(t, b)
  <2>1. PICK q \in pools[t] : Fits(b, q)
    BY <1>4 DEF Seated
  <2>2. q \in Area
    BY Areas DEF PoolsOf
  <2> QED
    BY <2>1, <2>2, FitsInside DEF Local
<1> QED
  BY <1>3, <1>4

LEMMA MappedIn ==
  \A p : p \in Mapped <=> \E t \in Thread : p \in pools[t]
  BY DEF Mapped

LEMMA PoolOfIs ==
  ASSUME PoolsOf(pools), NEW t \in Thread, NEW p \in pools[t], NEW b \in Area, Fits(b, p)
  PROVE  PoolOf(b) = p /\ Owner(p) = t
<1>1. p \in Area
  BY Areas DEF PoolsOf
<1>2. b.at \in Cells(p) /\ p \in Mapped
  BY <1>1, FitsInside, MappedIn
<1>3. \A q \in Mapped : b.at \in Cells(q) => q = p
  BY MappedIn, SeatUnique
<1>4. PoolOf(b) = p
  BY <1>2, <1>3 DEF PoolOf
<1>5. \A u \in Thread : p \in pools[u] => u = t
  <2> SUFFICES ASSUME NEW u \in Thread, p \in pools[u] PROVE u = t
    OBVIOUS
  <2> QED
    BY SeatUnique
<1>6. Owner(p) = t
  BY <1>5 DEF Owner
<1> QED
  BY <1>4, <1>6

LEMMA PlacesIn ==
  ASSUME NEW lv, NEW ls, NEW dr, NEW fr, NEW sl, NEW fo
  PROVE  \A e : e \in PlacesOf(lv, ls, dr, fr, sl, fo) <=>
           \/ \E x \in lv : e = <<"live", Main, x>>
           \/ \E x \in ls : e = <<"lost", Main, x>>
           \/ \E t \in Thread : \/ \E x \in dr[t] : e = <<"dropped", t, x>>
                                \/ \E x \in fr[t] : e = <<"free", t, x>>
                                \/ \E x \in sl[t] : e = <<"slab", t, x>>
                                \/ \E x \in fo[t] : e = <<"foreign", t, x>>
  BY DEF PlacesOf

(* The block x is in the place <<k, u, x>>.                                   *)
Has(k, u, x, lv, ls, dr, fr, sl, fo) ==
  /\ u \in Thread
  /\ \/ k = "live" /\ u = Main /\ x \in lv
     \/ k = "lost" /\ u = Main /\ x \in ls
     \/ k = "dropped" /\ x \in dr[u]
     \/ k = "free" /\ x \in fr[u]
     \/ k = "slab" /\ x \in sl[u]
     \/ k = "foreign" /\ x \in fo[u]

LEMMA PlaceHas ==
  ASSUME NEW lv, NEW ls, NEW dr, NEW fr, NEW sl, NEW fo
  PROVE  /\ \A e \in PlacesOf(lv, ls, dr, fr, sl, fo) :
              \E k, u, x : e = <<k, u, x>> /\ Has(k, u, x, lv, ls, dr, fr, sl, fo)
         /\ \A k, u, x : Has(k, u, x, lv, ls, dr, fr, sl, fo)
                             => <<k, u, x>> \in PlacesOf(lv, ls, dr, fr, sl, fo)
         /\ \A k, u, x : <<k, u, x>> \in PlacesOf(lv, ls, dr, fr, sl, fo)
                             => Has(k, u, x, lv, ls, dr, fr, sl, fo)
<1> DEFINE P == PlacesOf(lv, ls, dr, fr, sl, fo)
           H(k, u, x) == Has(k, u, x, lv, ls, dr, fr, sl, fo)
<1>0. Main \in Thread
  BY DEF Thread
<1>1. ASSUME NEW e \in P PROVE \E k, u, x : e = <<k, u, x>> /\ H(k, u, x)
  <2>1. ASSUME NEW x \in lv, e = <<"live", Main, x>> PROVE \E k, u, y : e = <<k, u, y>> /\ H(k, u, y)
    BY <1>0, <2>1 DEF Has
  <2>2. ASSUME NEW x \in ls, e = <<"lost", Main, x>> PROVE \E k, u, y : e = <<k, u, y>> /\ H(k, u, y)
    BY <1>0, <2>2 DEF Has
  <2>3. ASSUME NEW t \in Thread, NEW x \in dr[t], e = <<"dropped", t, x>>
        PROVE  \E k, u, y : e = <<k, u, y>> /\ H(k, u, y)
    BY <2>3 DEF Has
  <2>4. ASSUME NEW t \in Thread, NEW x \in fr[t], e = <<"free", t, x>>
        PROVE  \E k, u, y : e = <<k, u, y>> /\ H(k, u, y)
    BY <2>4 DEF Has
  <2>5. ASSUME NEW t \in Thread, NEW x \in sl[t], e = <<"slab", t, x>>
        PROVE  \E k, u, y : e = <<k, u, y>> /\ H(k, u, y)
    BY <2>5 DEF Has
  <2>6. ASSUME NEW t \in Thread, NEW x \in fo[t], e = <<"foreign", t, x>>
        PROVE  \E k, u, y : e = <<k, u, y>> /\ H(k, u, y)
    BY <2>6 DEF Has
  <2> HIDE DEF H
  <2> QED
    BY <2>1, <2>2, <2>3, <2>4, <2>5, <2>6, PlacesIn
<1>2. ASSUME NEW k, NEW u, NEW x, H(k, u, x) PROVE <<k, u, x>> \in P
  BY <1>2, PlacesIn DEF Has
<1>3. ASSUME NEW k, NEW u, NEW x, <<k, u, x>> \in P PROVE H(k, u, x)
  <2>1. PICK l, v, y : <<k, u, x>> = <<l, v, y>> /\ H(l, v, y)
    BY <1>1, <1>3
  <2>2. k = l /\ u = v /\ x = y
    BY <2>1
  <2> HIDE DEF H
  <2> QED
    BY <2>1, <2>2
<1> QED
  BY <1>1, <1>2, <1>3

(* Blocks that give way to others with the same cells leave the pools tiled.  *)
LEMMA Retile ==
  ASSUME NEW P, NEW Q, NEW R \in SUBSET P, NEW N, NEW pl,
         Apart(P), Covered(P, pl),
         \A e \in Q : (e \in P /\ e \notin R) \/ e \in N,
         \A e \in P : e \in Q \/ e \in R,
         \A e \in N : e \in Q,
         \A e, f \in N : Meets(e[3], f[3]) => e = f,
         \A e \in N : \A c \in Cells(e[3]) : \E r \in R : c \in Cells(r[3]),
         \A r \in R : \A c \in Cells(r[3]) : \E e \in N : c \in Cells(e[3])
  PROVE  Apart(Q) /\ Covered(Q, pl)
<1>1. ASSUME NEW e \in P, e \notin R, NEW f \in N, Meets(e[3], f[3]) PROVE FALSE
  <2>1. PICK c : c \in Cells(e[3]) /\ c \in Cells(f[3])
    BY <1>1 DEF Meets
  <2>2. PICK r \in R : c \in Cells(r[3])
    BY <2>1
  <2>3. Meets(e[3], r[3])
    BY <2>1, <2>2 DEF Meets
  <2> QED
    BY <1>1, <2>3 DEF Apart
<1>2. Apart(Q)
  <2> SUFFICES ASSUME NEW e \in Q, NEW f \in Q, Meets(e[3], f[3]) PROVE e = f
    BY DEF Apart
  <2>1. Meets(f[3], e[3])
    BY DEF Meets
  <2>2. CASE e \in N /\ f \in N
    BY <2>2
  <2>3. CASE e \in P /\ e \notin R /\ f \in P
    BY <2>3 DEF Apart
  <2>4. CASE e \in P /\ e \notin R /\ f \in N
    BY <1>1, <2>4
  <2>5. CASE e \in N /\ f \in P /\ f \notin R
    BY <1>1, <2>1, <2>5
  <2> QED
    BY <2>2, <2>3, <2>4, <2>5
<1>3. Covered(Q, pl)
  <2> SUFFICES ASSUME NEW t \in Thread, NEW p \in pl[t], NEW c \in Cells(p), c # p.at
               PROVE  \E e \in Q : c \in Cells(e[3])
    BY DEF Covered
  <2>1. PICK e \in P : c \in Cells(e[3])
    BY DEF Covered
  <2>2. CASE e \in Q
    BY <2>1, <2>2
  <2>3. CASE e \in R
    <3>1. PICK f \in N : c \in Cells(f[3])
      BY <2>1, <2>3
    <3> QED
      BY <3>1
  <2> QED
    BY <2>2, <2>3
<1> QED
  BY <1>2, <1>3

(* A step of the heaps: each block keeps its place or was in R, each new      *)
(* place is in N.                                                             *)
Moves(lv, ls, dr, fr, sl, fo, lv2, ls2, dr2, fr2, sl2, fo2, R, N) ==
  /\ R \subseteq PlacesOf(lv, ls, dr, fr, sl, fo)
  /\ N \subseteq PlacesOf(lv2, ls2, dr2, fr2, sl2, fo2)
  /\ \A k, u, x : Has(k, u, x, lv2, ls2, dr2, fr2, sl2, fo2) =>
       (Has(k, u, x, lv, ls, dr, fr, sl, fo) /\ <<k, u, x>> \notin R) \/ <<k, u, x>> \in N
  /\ \A k, u, x : Has(k, u, x, lv, ls, dr, fr, sl, fo) =>
       Has(k, u, x, lv2, ls2, dr2, fr2, sl2, fo2) \/ <<k, u, x>> \in R

SameCells(R, N) ==
  /\ \A e, f \in N : Meets(e[3], f[3]) => e = f
  /\ \A e \in N : \A c \in Cells(e[3]) : \E r \in R : c \in Cells(r[3])
  /\ \A r \in R : \A c \in Cells(r[3]) : \E e \in N : c \in Cells(e[3])

LEMMA Rehouse ==
  ASSUME NEW lv, NEW ls, NEW dr, NEW fr, NEW sl, NEW fo,
         NEW lv2, NEW ls2, NEW dr2, NEW fr2, NEW sl2, NEW fo2,
         NEW pl, NEW R, NEW N,
         Apart(PlacesOf(lv, ls, dr, fr, sl, fo)), Covered(PlacesOf(lv, ls, dr, fr, sl, fo), pl),
         Moves(lv, ls, dr, fr, sl, fo, lv2, ls2, dr2, fr2, sl2, fo2, R, N), SameCells(R, N)
  PROVE  /\ Apart(PlacesOf(lv2, ls2, dr2, fr2, sl2, fo2))
         /\ Covered(PlacesOf(lv2, ls2, dr2, fr2, sl2, fo2), pl)
<1> DEFINE P == PlacesOf(lv, ls, dr, fr, sl, fo)
           Q == PlacesOf(lv2, ls2, dr2, fr2, sl2, fo2)
<1>1. \A e \in Q : (e \in P /\ e \notin R) \/ e \in N
  <2> TAKE e \in Q
  <2>1. PICK k, u, x : e = <<k, u, x>> /\ Has(k, u, x, lv2, ls2, dr2, fr2, sl2, fo2)
    BY PlaceHas
  <2>2. (Has(k, u, x, lv, ls, dr, fr, sl, fo) /\ <<k, u, x>> \notin R) \/ <<k, u, x>> \in N
    BY <2>1 DEF Moves
  <2>3. Has(k, u, x, lv, ls, dr, fr, sl, fo) => <<k, u, x>> \in P
    BY PlaceHas
  <2> QED
    BY <2>1, <2>2, <2>3
<1>2. \A e \in P : e \in Q \/ e \in R
  <2> TAKE e \in P
  <2>1. PICK k, u, x : e = <<k, u, x>> /\ Has(k, u, x, lv, ls, dr, fr, sl, fo)
    BY PlaceHas
  <2>2. Has(k, u, x, lv2, ls2, dr2, fr2, sl2, fo2) \/ <<k, u, x>> \in R
    BY <2>1 DEF Moves
  <2>3. Has(k, u, x, lv2, ls2, dr2, fr2, sl2, fo2) => <<k, u, x>> \in Q
    BY PlaceHas
  <2> QED
    BY <2>1, <2>2, <2>3
<1>3. R \in SUBSET P /\ \A e \in N : e \in Q
  BY DEF Moves
<1>4. Apart(P) /\ Covered(P, pl)
  OBVIOUS
<1> HIDE DEF P, Q
<1>5. Apart(Q) /\ Covered(Q, pl)
  BY <1>1, <1>2, <1>3, <1>4, Retile DEF SameCells
<1> QED
  BY <1>5 DEF Q

(* The blocks of one heap's pools are finitely many.                          *)
LEMMA SeatsFinite ==
  ASSUME NEW pl, PoolsOf(pl), NEW t \in Thread, IsFiniteSet(pl[t])
  PROVE  IsFiniteSet({b \in Block : Seated(b, pl, {t})})
<1> DEFINE F == {Cells(p) : p \in pl[t]}
           g == [p \in pl[t] |-> Cells(p)]
           C == UNION F
           D == C \X Order
           T == {[at |-> e[1], ord |-> e[2]] : e \in D}
           f == [e \in D |-> [at |-> e[1], ord |-> e[2]]]
<1>1. pl[t] \subseteq Area
  BY Areas DEF PoolsOf
<1>2. g \in [pl[t] -> F] /\ \A w \in F : \E p \in pl[t] : g[p] = w
  OBVIOUS
<1>3. IsFiniteSet(F)
  <2> HIDE DEF g, F
  <2> QED
    BY <1>2, ImageFinite
<1>4. \A w \in F : IsFiniteSet(w)
  BY <1>1, CellsFinite
<1>5. IsFiniteSet(C)
  <2> HIDE DEF F
  <2> QED
    BY <1>3, <1>4, FS_UNION
<1>6. IsFiniteSet(Order)
  <2>1. 0 \in Int /\ MaxOrder \in Int
    BY HeapAssumption
  <2> QED
    BY <2>1, FS_Interval DEF Order
<1>7. IsFiniteSet(D)
  <2> HIDE DEF C
  <2> QED
    BY <1>5, <1>6, FS_Product
<1>8. f \in [D -> T] /\ \A w \in T : \E e \in D : f[e] = w
  <2> HIDE DEF D
  <2> QED
    OBVIOUS
<1>9. IsFiniteSet(T)
  <2> HIDE DEF f, T, D
  <2> QED
    BY <1>7, <1>8, ImageFinite
<1>10. ASSUME NEW b \in Block, Seated(b, pl, {t}) PROVE b \in T
  <2>1. b \in Area /\ b.ord \in Order
    BY Areas
  <2>2. PICK p \in pl[t] : Fits(b, p)
    BY <1>10 DEF Seated
  <2>3. b.at \in Cells(p)
    BY <1>1, <2>1, <2>2, FitsInside
  <2>4. b.at \in C
    BY <2>3
  <2>5. <<b.at, b.ord>> \in D
    BY <2>1, <2>4
  <2>6. b = [at |-> b.at, ord |-> b.ord]
    BY DEF Block
  <2>7. [at |-> <<b.at, b.ord>>[1], ord |-> <<b.at, b.ord>>[2]] \in T
    <3> HIDE DEF D
    <3> QED
      BY <2>5
  <2> HIDE DEF T
  <2> QED
    BY <2>6, <2>7
<1> HIDE DEF T
<1>11. {b \in Block : Seated(b, pl, {t})} \subseteq T
  BY <1>10
<1> QED
  BY <1>9, <1>11, FS_Subset

-------------------------------------------------------------------------------
(* What the invariant says                                                    *)

LEMMA SoundPools ==
  ASSUME Sound
  PROVE  PoolsOf(pools) /\ \A t \in Thread : IsFiniteSet(pools[t])
  BY DEF Sound, Typed, PoolsApart, PoolsOf

LEMMA PlacesAre == Places = PlacesOf(live, lost, dropped, free, slab, foreign)
  BY DEF Places, PlacesOf

LEMMA BlocksIn ==
  \A x : x \in Blocks <=>
    \/ x \in live \cup lost
    \/ \E t \in Thread : x \in dropped[t] \cup free[t] \cup slab[t] \cup foreign[t]
<1>1. \A e : e \in Places <=>
           \/ \E x \in live : e = <<"live", Main, x>>
           \/ \E x \in lost : e = <<"lost", Main, x>>
           \/ \E t \in Thread : \/ \E x \in dropped[t] : e = <<"dropped", t, x>>
                                \/ \E x \in free[t] : e = <<"free", t, x>>
                                \/ \E x \in slab[t] : e = <<"slab", t, x>>
                                \/ \E x \in foreign[t] : e = <<"foreign", t, x>>
  BY PlacesIn, PlacesAre
<1>2. ASSUME NEW x \in Blocks
      PROVE  \/ x \in live \cup lost
             \/ \E t \in Thread : x \in dropped[t] \cup free[t] \cup slab[t] \cup foreign[t]
  <2>1. PICK e \in Places : x = e[3]
    BY DEF Blocks
  <2> QED
    BY <1>1, <2>1
<1>3. ASSUME NEW x, x \in live \cup lost PROVE x \in Blocks
  <2>1. CASE x \in live
    <3>1. <<"live", Main, x>> \in Places
      BY <1>1, <2>1
    <3> QED
      BY <3>1 DEF Blocks
  <2>2. CASE x \in lost
    <3>1. <<"lost", Main, x>> \in Places
      BY <1>1, <2>2
    <3> QED
      BY <3>1 DEF Blocks
  <2> QED
    BY <1>3, <2>1, <2>2
<1>4. ASSUME NEW x, NEW t \in Thread, x \in dropped[t] \cup free[t] \cup slab[t] \cup foreign[t]
      PROVE  x \in Blocks
  <2>1. \/ <<"dropped", t, x>> \in Places \/ <<"free", t, x>> \in Places
        \/ <<"slab", t, x>> \in Places \/ <<"foreign", t, x>> \in Places
    BY <1>1, <1>4
  <2>2. <<"dropped", t, x>>[3] = x /\ <<"free", t, x>>[3] = x
        /\ <<"slab", t, x>>[3] = x /\ <<"foreign", t, x>>[3] = x
    OBVIOUS
  <2> QED
    BY <2>1, <2>2 DEF Blocks
<1> QED
  BY <1>2, <1>3, <1>4

(* Every block is a block of a mapped pool.                                   *)
LEMMA SoundSeats ==
  ASSUME Sound, NEW b \in Blocks
  PROVE  b \in Block /\ b \in Area /\ Seated(b, pools, Thread)
<1>1. CASE b \in live \cup lost
  BY <1>1, Areas DEF Sound, Typed, AllSeated
<1>2. ASSUME NEW t \in Thread, b \in dropped[t] \cup free[t] \cup slab[t] \cup foreign[t]
      PROVE  b \in Block /\ b \in Area /\ Seated(b, pools, Thread)
  <2>1. b \in Block
    BY <1>2 DEF Sound, Typed
  <2>2. {t} \subseteq Thread /\ Thread \ {t} \subseteq Thread
    OBVIOUS
  <2>3. Seated(b, pools, Thread)
    BY <1>2, <2>2, SeatMore DEF Sound, AllSeated
  <2> QED
    BY <2>1, <2>3, Areas
<1> QED
  BY <1>1, <1>2, BlocksIn

LEMMA SoundNoDangling == ASSUME Sound PROVE NoDangling
<1> SUFFICES ASSUME NEW b \in Blocks PROVE \E p \in Mapped : Cells(b) \subseteq Cells(p)
  BY DEF NoDangling
<1>1. \E u \in Thread : \E p \in pools[u] : Cells(b) \subseteq Cells(p)
  BY SoundSeats, SoundPools, SeatInside
<1> QED
  BY <1>1, MappedIn

LEMMA SoundHome == ASSUME Sound PROVE AtHome
<1>1. ASSUME NEW t \in Thread, NEW b \in free[t] \cup slab[t] PROVE Local(t, b)
  <2>1. b \in Blocks
    BY <1>1, BlocksIn
  <2>2. Seated(b, pools, {t})
    BY <1>1 DEF Sound, AllSeated
  <2> QED
    BY <2>1, <2>2, SoundSeats, SoundPools, LocalIs
<1>2. ASSUME NEW t \in Thread, NEW b \in foreign[t], Local(t, b) PROVE FALSE
  <2>1. b \in Blocks
    BY <1>2, BlocksIn
  <2>2. Seated(b, pools, {t})
    BY <1>2, <2>1, SoundSeats, SoundPools, LocalIs
  <2>3. PICK u \in Thread \ {t} : \E p \in pools[u] : Fits(b, p)
    BY <1>2 DEF Sound, AllSeated, Seated
  <2>4. Seated(b, pools, {u})
    BY <2>3 DEF Seated
  <2>5. u = t
    BY <2>1, <2>2, <2>4, SoundSeats, SoundPools, SeatApart
  <2> QED
    BY <2>5
<1> QED
  BY <1>1, <1>2 DEF AtHome

LEMMA SoundTiled == ASSUME Sound PROVE Tiled
<1> SUFFICES ASSUME ~torn, NEW p \in Mapped, NEW c \in Cells(p)
             PROVE  Cardinality({e \in Places : c \in Cells(e[3])}) = IF c = p.at THEN 0 ELSE 1
  BY DEF Tiled
<1> DEFINE E == {e \in Places : c \in Cells(e[3])}
<1>1. Apart(Places) /\ Covered(Places, pools)
  BY DEF Sound, Tidy
<1>2. PICK t \in Thread : p \in pools[t]
  BY MappedIn
<1>3. p \in Area
  BY <1>2, SoundPools, Areas DEF PoolsOf
<1>4. CASE c = p.at
  <2>1. ASSUME NEW e \in E PROVE FALSE
    <3> DEFINE x == e[3]
    <3>1. x \in Blocks
      BY DEF Blocks
    <3>2. x \in Area /\ Seated(x, pools, Thread)
      BY <3>1, SoundSeats
    <3> HIDE DEF x
    <3>3. PICK u \in Thread : \E q \in pools[u] : Fits(x, q) /\ Cells(x) \subseteq Cells(q)
      BY <3>2, SoundPools, SeatInside
    <3>4. PICK q \in pools[u] : Fits(x, q) /\ Cells(x) \subseteq Cells(q)
      BY <3>3
    <3>5. c \in Cells(x)
      BY DEF x
    <3>6. Meets(p, q)
      BY <3>4, <3>5 DEF Meets
    <3>7. p = q
      BY <1>2, <3>6, SoundPools DEF PoolsOf
    <3>8. p.at \notin Cells(x)
      BY <1>3, <3>2, <3>4, <3>7, FitsInside
    <3> QED
      BY <1>4, <3>5, <3>8
  <2>2. E = {}
    BY <2>1
  <2> QED
    BY <1>4, <2>2, FS_EmptySet
<1>5. CASE c # p.at
  <2>1. PICK e \in Places : c \in Cells(e[3])
    BY <1>1, <1>2, <1>5 DEF Covered
  <2>2. \A f \in E : f = e
    <3> TAKE f \in E
    <3>1. Meets(f[3], e[3])
      BY <2>1 DEF Meets
    <3> QED
      BY <1>1, <2>1, <3>1 DEF Apart
  <2>3. E = {e}
    BY <2>1, <2>2
  <2> QED
    BY <1>5, <2>3, FS_Singleton
<1> QED
  BY <1>4, <1>5

LEMMA SoundCoalesced == ASSUME Sound PROVE Coalesced
<1> SUFFICES ASSUME ~torn, NEW t \in Thread, NEW u \in Thread, NEW b \in free[t], NEW c \in free[u],
                    b.ord = c.ord, PoolOf(b) = PoolOf(c)
             PROVE  Buddy(b, b.ord, PoolOf(b)) # c
  BY DEF Coalesced
<1>1. b \in Area /\ c \in Area
  BY SoundSeats, BlocksIn
<1>2. PICK p \in pools[t] : Fits(b, p)
  BY DEF Sound, AllSeated, Seated
<1>3. PICK q \in pools[u] : Fits(c, q)
  BY DEF Sound, AllSeated, Seated
<1>4. PoolOf(b) = p /\ PoolOf(c) = q
  BY <1>1, <1>2, <1>3, SoundPools, PoolOfIs
<1>5. Merged(free, pools)
  BY DEF Sound, Tidy
<1> QED
  BY <1>2, <1>3, <1>4, <1>5 DEF Merged

LEMMA GivenIn ==
  ASSUME NEW lv, NEW ls, NEW dr, NEW fo
  PROVE  \A x : x \in Given(lv, ls, dr, fo) <=>
                  x \in lv \/ x \in ls \/ \E t \in Thread : x \in dr[t] \/ x \in fo[t]
  BY DEF Given

LEMMA PlaceOf ==
  /\ \A x \in live : <<"live", Main, x>> \in Places
  /\ \A x \in lost : <<"lost", Main, x>> \in Places
  /\ \A t \in Thread : /\ \A x \in dropped[t] : <<"dropped", t, x>> \in Places
                       /\ \A x \in free[t] : <<"free", t, x>> \in Places
                       /\ \A x \in slab[t] : <<"slab", t, x>> \in Places
                       /\ \A x \in foreign[t] : <<"foreign", t, x>> \in Places
<1>1. \A e : e \in Places <=>
           \/ \E x \in live : e = <<"live", Main, x>>
           \/ \E x \in lost : e = <<"lost", Main, x>>
           \/ \E t \in Thread : \/ \E x \in dropped[t] : e = <<"dropped", t, x>>
                                \/ \E x \in free[t] : e = <<"free", t, x>>
                                \/ \E x \in slab[t] : e = <<"slab", t, x>>
                                \/ \E x \in foreign[t] : e = <<"foreign", t, x>>
  BY PlacesIn, PlacesAre
<1> QED
  BY <1>1

(* A block on a freelist or in a slab shares no cell with one given out.      *)
LEMMA GivenApart ==
  ASSUME Apart(Places), NEW t \in Thread, NEW x \in free[t] \cup slab[t],
         NEW y \in Given(live, lost, dropped, foreign)
  PROVE  ~Meets(x, y)
<1> DEFINE T == {"free", "slab"}
           G == {"live", "lost", "dropped", "foreign"}
<1>1. PICK k \in T : <<k, t, x>> \in Places
  BY PlaceOf
<1>2. PICK l \in G : \E u \in Thread \cup {Main} : <<l, u, y>> \in Places
  <2>1. CASE y \in live
    BY <2>1, PlaceOf
  <2>2. CASE y \in lost
    BY <2>2, PlaceOf
  <2>3. ASSUME NEW u \in Thread, y \in dropped[u]
        PROVE  \E l \in G : \E v \in Thread \cup {Main} : <<l, v, y>> \in Places
    BY <2>3, PlaceOf
  <2>4. ASSUME NEW u \in Thread, y \in foreign[u]
        PROVE  \E l \in G : \E v \in Thread \cup {Main} : <<l, v, y>> \in Places
    BY <2>4, PlaceOf
  <2>5. y \in live \/ y \in lost \/ \E u \in Thread : y \in dropped[u] \/ y \in foreign[u]
    BY GivenIn
  <2> QED
    BY <2>1, <2>2, <2>3, <2>4, <2>5
<1>3. PICK u \in Thread \cup {Main} : <<l, u, y>> \in Places
  BY <1>2
<1>4. k # l
  OBVIOUS
<1>5. <<k, t, x>> # <<l, u, y>>
  BY <1>4
<1>6. <<k, t, x>>[3] = x /\ <<l, u, y>>[3] = y
  OBVIOUS
<1> QED
  BY <1>1, <1>3, <1>5, <1>6 DEF Apart

LEMMA SelfMeets ==
  ASSUME NEW x \in Area
  PROVE  Meets(x, x)
  BY CellsIn DEF Meets

LEMMA SoundBytes == ASSUME Sound PROVE BytesExact
<1> SUFFICES ASSUME ~torn, NEW t \in Thread
             PROVE  bytes[t] = Size({b \in Blocks : Local(t, b)} \ (free[t] \cup slab[t]))
  BY DEF BytesExact
<1> DEFINE G == Of(t, Given(live, lost, dropped, foreign), pools)
           B == {b \in Blocks : Local(t, b)} \ (free[t] \cup slab[t])
<1>1. Apart(Places) /\ bytes[t] = Size(G)
  BY DEF Sound, Tidy
<1>2. ASSUME NEW b \in G PROVE b \in B
  <2>1. b \in Given(live, lost, dropped, foreign) /\ Seated(b, pools, {t})
    BY DEF Of
  <2>2. b \in Blocks
    BY <2>1, GivenIn, BlocksIn
  <2>3. b \in Area /\ Local(t, b)
    BY <2>1, <2>2, SoundSeats, SoundPools, LocalIs
  <2>4. Meets(b, b)
    BY <2>3, SelfMeets
  <2>5. b \notin free[t] \cup slab[t]
    BY <1>1, <2>1, <2>4, GivenApart
  <2> QED
    BY <2>2, <2>3, <2>5
<1>3. ASSUME NEW b \in B PROVE b \in G
  <2>1. b \in Blocks /\ Local(t, b) /\ b \notin free[t] \cup slab[t]
    OBVIOUS
  <2>2. b \in Area /\ Seated(b, pools, {t})
    BY <2>1, SoundSeats, SoundPools, LocalIs
  <2>3. ASSUME NEW u \in Thread, b \in free[u] \cup slab[u] PROVE FALSE
    <3>1. Seated(b, pools, {u})
      BY <2>3 DEF Sound, AllSeated
    <3>2. u = t
      BY <2>2, <3>1, SoundPools, SeatApart
    <3> QED
      BY <2>1, <2>3, <3>2
  <2>4. b \in Given(live, lost, dropped, foreign)
    BY <2>1, <2>3, BlocksIn, GivenIn
  <2> QED
    BY <2>2, <2>4 DEF Of
<1>4. G = B
  BY <1>2, <1>3
<1> QED
  BY <1>1, <1>4

LEMMA SoundType == ASSUME Sound PROVE TypeOK
<1>1. Blocks \subseteq Block
  BY SoundSeats
<1>2. ASSUME NEW t \in Thread PROVE Cardinality(dropped[t]) <= 1
  <2>1. CASE dropped[t] = {}
    <3>1. Cardinality(dropped[t]) = 0
      BY <2>1, FS_EmptySet
    <3> QED
      BY <3>1
  <2>2. ASSUME NEW b \in dropped[t], dropped[t] = {b} PROVE Cardinality(dropped[t]) <= 1
    <3>1. Cardinality(dropped[t]) = 1
      BY <2>2, FS_Singleton
    <3> QED
      BY <3>1
  <2> QED
    BY <2>1, <2>2 DEF Sound, Counted
<1> QED
  BY <1>1, <1>2 DEF Sound, Typed, PoolsApart, Counted, TypeOK

LEMMA SoundLists == ASSUME Sound PROVE ListsExact
  BY SoundType, SoundHome, SoundCoalesced, SoundBytes DEF ListsExact, Sound

-------------------------------------------------------------------------------
(* The account of a heap                                                      *)

LEMMA OfFinite ==
  ASSUME NEW pl, PoolsOf(pl), NEW t \in Thread, IsFiniteSet(pl[t]), NEW G \in SUBSET Block
  PROVE  IsFiniteSet(Of(t, G, pl)) /\ Of(t, G, pl) \in SUBSET Area /\ Size(Of(t, G, pl)) \in Nat
<1>1. IsFiniteSet({b \in Block : Seated(b, pl, {t})})
  BY SeatsFinite
<1>2. Of(t, G, pl) \subseteq {b \in Block : Seated(b, pl, {t})}
  BY DEF Of
<1>3. IsFiniteSet(Of(t, G, pl))
  BY <1>1, <1>2, FS_Subset
<1>4. Of(t, G, pl) \in SUBSET Area
  BY <1>2, Areas
<1> QED
  BY <1>3, <1>4, MassFinite

(* One more block given out by t.                                             *)
LEMMA OfPlus ==
  ASSUME NEW pl, PoolsOf(pl), NEW t \in Thread, IsFiniteSet(pl[t]), NEW G \in SUBSET Block,
         NEW b \in Block, b \notin G, Seated(b, pl, {t})
  PROVE  /\ Size(Of(t, G \cup {b}, pl)) = Size(Of(t, G, pl)) + 2^b.ord
         /\ \A u \in Thread \ {t} : Of(u, G \cup {b}, pl) = Of(u, G, pl)
<1>1. b \in Area
  BY Areas
<1>2. Of(t, G \cup {b}, pl) = Of(t, G, pl) \cup {b} /\ b \notin Of(t, G, pl)
  BY DEF Of
<1>3. Size(Of(t, G, pl) \cup {b}) = Size(Of(t, G, pl)) + 2^b.ord
  BY <1>1, <1>2, OfFinite, SizeAdd
<1>4. \A u \in Thread \ {t} : ~Seated(b, pl, {u})
  BY <1>1, SeatApart
<1> QED
  BY <1>2, <1>3, <1>4 DEF Of

(* A block t gets back.                                                       *)
LEMMA OfMinus ==
  ASSUME NEW pl, PoolsOf(pl), NEW t \in Thread, IsFiniteSet(pl[t]), NEW G \in SUBSET Block,
         NEW b \in G, Seated(b, pl, {t})
  PROVE  /\ Size(Of(t, G \ {b}, pl)) = Size(Of(t, G, pl)) - 2^b.ord
         /\ Size(Of(t, G, pl)) - 2^b.ord \in Nat
         /\ \A u \in Thread \ {t} : Of(u, G \ {b}, pl) = Of(u, G, pl)
<1>1. b \in Area
  BY Areas
<1>2. Of(t, G \ {b}, pl) = Of(t, G, pl) \ {b} /\ b \in Of(t, G, pl)
  BY DEF Of
<1>3. /\ Size(Of(t, G, pl) \ {b}) = Size(Of(t, G, pl)) - 2^b.ord
      /\ Size(Of(t, G, pl)) - 2^b.ord \in Nat
  BY <1>2, OfFinite, SizeRemove
<1>4. \A u \in Thread \ {t} : ~Seated(b, pl, {u})
  BY <1>1, SeatApart
<1> QED
  BY <1>2, <1>3, <1>4 DEF Of

Gives == Given(live, lost, dropped, foreign)

LEMMA GivesType ==
  ASSUME Typed
  PROVE  Gives \in SUBSET Block
<1>1. \A t \in Thread : dropped[t] \subseteq Block /\ foreign[t] \subseteq Block
  BY DEF Typed
<1>2. \A x : x \in Gives <=> x \in live \/ x \in lost \/ \E t \in Thread : x \in dropped[t] \/ x \in foreign[t]
  BY GivenIn DEF Gives
<1> QED
  BY <1>1, <1>2 DEF Typed

LEMMA SlabFinite ==
  ASSUME Sound, NEW t \in Thread
  PROVE  IsFiniteSet(free[t]) /\ IsFiniteSet(slab[t])
<1>1. IsFiniteSet({b \in Block : Seated(b, pools, {t})})
  BY SoundPools, SeatsFinite
<1>2. /\ free[t] \subseteq {b \in Block : Seated(b, pools, {t})}
      /\ slab[t] \subseteq {b \in Block : Seated(b, pools, {t})}
  BY DEF Sound, Typed, AllSeated
<1> QED
  BY <1>1, <1>2, FS_Subset

(* A step that touches no list.                                               *)
LEMMA SameLists ==
  ASSUME Sound, UNCHANGED <<lists, live, dropped, lost, torn>>,
         up' \subseteq Thread, Main \in up', up \subseteq up',
         phase' \in {"seq", "opening", "region"}, gc' \in {"no", "foreign", "slabs", "reclaim"},
         Calm'
  PROVE  Sound'
<1>1. /\ pools' = pools /\ free' = free /\ avail' = avail /\ slab' = slab /\ foreign' = foreign
      /\ bytes' = bytes /\ live' = live /\ dropped' = dropped /\ lost' = lost /\ torn' = torn
  BY DEF lists
<1>2. Typed'
  BY <1>1 DEF Sound, Typed
<1>3. PoolsApart' /\ AllSeated' /\ AvailExact'
  BY <1>1 DEF Sound, PoolsApart, AllSeated, AvailExact
<1>4. Counted'
  BY <1>1 DEF Sound, Counted
<1>5. Places' = Places
  BY <1>1 DEF Places
<1>6. Tidy'
  BY <1>1, <1>5 DEF Sound, Tidy
<1> QED
  BY <1>2, <1>3, <1>4, <1>6 DEF Sound

-------------------------------------------------------------------------------
(* ray_alloc                                                                  *)

LEMMA FewerSlabs ==
  ASSUME NEW S, NEW R \in SUBSET S, IsFiniteSet(S), NEW o, Cardinality(OfOrder(S, o)) <= SlabCap
  PROVE  Cardinality(OfOrder(R, o)) <= SlabCap
<1>1. OfOrder(S, o) \subseteq S /\ OfOrder(R, o) \subseteq OfOrder(S, o)
  BY DEF OfOrder
<1>2. IsFiniteSet(OfOrder(S, o))
  BY <1>1, FS_Subset
<1>3. IsFiniteSet(OfOrder(R, o)) /\ Cardinality(OfOrder(R, o)) <= Cardinality(OfOrder(S, o))
  BY <1>1, <1>2, FS_Subset
<1>4. Cardinality(OfOrder(R, o)) \in Nat /\ Cardinality(OfOrder(S, o)) \in Nat /\ SlabCap \in Nat
  BY <1>2, <1>3, FS_CardinalityType, HeapAssumption
<1> QED
  BY <1>3, <1>4

LEMMA AllocSlabSound ==
  ASSUME Sound, NEW t \in Thread, NEW o \in Req, AllocSlab(t, o)
  PROVE  Sound'
<1>1. PICK b \in OfOrder(slab[t], o) :
        slab' = [slab EXCEPT ![t] = @ \ {b}] /\ live' = live \cup {b}
  BY DEF AllocSlab
<1>2. b \in slab[t] /\ b.ord = o
  BY DEF OfOrder
<1>3. /\ bytes' = [bytes EXCEPT ![t] = @ + 2^o] /\ ~torn
      /\ UNCHANGED <<up, pools, free, avail, foreign, dropped, phase, gc, lost, torn>>
  BY DEF AllocSlab, Idle, Runs
<1>4. Typed
  BY DEF Sound
<1>5. b \in Block /\ b \in Area /\ 2^o \in Nat
  BY <1>2, <1>4, Areas, PowType DEF Typed
<1>6. /\ slab' \in [Thread -> SUBSET Block] /\ slab'[t] = slab[t] \ {b}
      /\ \A u \in Thread \ {t} : slab'[u] = slab[u]
      /\ \A u \in Thread : slab'[u] \subseteq slab[u]
  BY <1>1, <1>4 DEF Typed
<1>7. /\ bytes' \in [Thread -> Nat] /\ bytes'[t] = bytes[t] + 2^o
      /\ \A u \in Thread \ {t} : bytes'[u] = bytes[u]
  BY <1>3, <1>4, <1>5 DEF Typed
<1>8. Seated(b, pools, {t}) /\ Seated(b, pools, Thread)
  <2>1. Seated(b, pools, {t})
    BY <1>2 DEF Sound, AllSeated
  <2> QED
    BY <2>1, SeatMore
<1>9. Typed'
  BY <1>1, <1>3, <1>4, <1>5, <1>6, <1>7 DEF Typed
<1>10. PoolsApart' /\ AvailExact' /\ Calm'
  BY <1>3 DEF Sound, PoolsApart, AvailExact, Calm
<1>11. AllSeated'
  BY <1>1, <1>3, <1>6, <1>8 DEF Sound, AllSeated
<1>12. Counted'
  <2>1. \A u \in Thread : \A i \in 0..SlabMax : Cardinality(OfOrder(slab'[u], i)) <= SlabCap
    BY <1>6, SlabFinite, FewerSlabs DEF Sound, Counted
  <2> QED
    BY <1>3, <2>1 DEF Sound, Counted
<1>13. Apart(Places) /\ Covered(Places, pools) /\ Merged(free, pools)
       /\ \A u \in Thread : bytes[u] = Size(Of(u, Gives, pools))
  BY <1>3 DEF Sound, Tidy, Gives
<1>14. Apart(Places') /\ Covered(Places', pools)
  <2> DEFINE R == {<<"slab", t, b>>}
             N == {<<"live", Main, b>>}
             P == PlacesOf(live, lost, dropped, free, slab, foreign)
             Q == PlacesOf(live', lost, dropped, free, slab', foreign)
  <2>1. Places' = Q /\ Places = P
    BY <1>3, PlacesAre DEF Places, PlacesOf
  <2>2. R \subseteq P /\ Apart(P) /\ Covered(P, pools)
    BY <1>2, <1>13, <2>1, PlaceOf
  <2>3. N \subseteq Q
    BY <1>1, PlacesIn
  <2>4. ASSUME NEW k, NEW u, NEW x, Has(k, u, x, live', lost, dropped, free, slab', foreign)
        PROVE  \/ Has(k, u, x, live, lost, dropped, free, slab, foreign) /\ <<k, u, x>> \notin R
               \/ <<k, u, x>> \in N
    BY <1>1, <1>6, <2>4 DEF Has
  <2>5. ASSUME NEW k, NEW u, NEW x, Has(k, u, x, live, lost, dropped, free, slab, foreign)
        PROVE  \/ Has(k, u, x, live', lost, dropped, free, slab', foreign)
               \/ <<k, u, x>> \in R
    BY <1>1, <1>6, <2>5 DEF Has
  <2>6. SameCells(R, N)
    BY DEF SameCells
  <2>7. Moves(live, lost, dropped, free, slab, foreign,
              live', lost, dropped, free, slab', foreign, R, N)
    <3> HIDE DEF R, N
    <3> QED
      BY <2>2, <2>3, <2>4, <2>5 DEF Moves
  <2>8. Apart(Q) /\ Covered(Q, pools)
    BY <2>2, <2>6, <2>7, Rehouse
  <2> QED
    BY <2>1, <2>8
<1>15. b \notin Gives
  BY <1>2, <1>5, <1>13, GivenApart, SelfMeets DEF Gives
<1>16. Gives' = Gives \cup {b}
  BY <1>1, <1>3, GivenIn DEF Gives, Given
<1>17. \A u \in Thread : bytes'[u] = Size(Of(u, Gives', pools))
  <2>1. /\ Size(Of(t, Gives \cup {b}, pools)) = Size(Of(t, Gives, pools)) + 2^o
        /\ \A u \in Thread \ {t} : Of(u, Gives \cup {b}, pools) = Of(u, Gives, pools)
    BY <1>2, <1>4, <1>5, <1>8, <1>15, SoundPools, GivesType, OfPlus, ZenonT(30)
  <2> QED
    BY <1>7, <1>13, <1>16, <2>1
<1>18. Tidy'
  BY <1>3, <1>13, <1>14, <1>17 DEF Tidy, Gives
<1> QED
  BY <1>9, <1>10, <1>11, <1>12, <1>18 DEF Sound

(* What is left of a block after a split sits where the block did.            *)
LEMMA LeftFits ==
  ASSUME NEW b \in Area, NEW p \in Area, Fits(b, p), NEW o \in Nat, o <= b.ord
  PROVE  Fits(Left(b, o), p)
<1> DEFINE n == 2^o
           N == 2^b.ord
           P == 2^p.ord
           z == Left(b, o)
<1>1. b.at \in Nat /\ b.ord \in Nat /\ p.at \in Nat /\ p.ord \in Nat
  BY DEF Area
<1>2. n \in Nat /\ N \in Nat /\ P \in Nat /\ n <= N
  BY <1>1, PowType, PowMono
<1>3. PICK q \in Nat : q >= 1 /\ q = (b.at - p.at) \div 2^b.ord /\ b.at = p.at + q * N
  BY FitsQuot
<1>4. PICK m \in Nat : m >= 1 /\ N = m * n
  BY <1>1, PowDivides
<1>5. b.at > p.at /\ b.at + N <= p.at + P
  BY DEF Fits
<1>6. z \in Area /\ z.at = b.at /\ z.ord = o
  BY RightType
<1>7. b.at = p.at + q * N
  BY <1>3
<1> HIDE DEF n, N, P, z
<1>8. q * m \in Nat /\ q * N = (q * m) * n
  BY <1>2, <1>4
<1>9. z.at = p.at + (q * m) * n
  BY <1>6, <1>7, <1>8
<1>10. z.at > p.at /\ z.at + n <= p.at + P
  BY <1>1, <1>2, <1>5, <1>6
<1>11. Fits(z, p)
  <2> DEFINE r == q * m
  <2>1. r \in Nat /\ z.at = p.at + r * n
    BY <1>8, <1>9
  <2> HIDE DEF r
  <2> QED
    BY <1>6, <1>10, <2>1, FitsIf DEF n, P
<1> QED
  BY <1>11 DEF z

(* The places after a step, and the cells they cover.                         *)
LEMMA StepTiled ==
  ASSUME Apart(Places), Covered(Places, pools), NEW R, NEW N,
         Moves(live, lost, dropped, free, slab, foreign,
               live', lost', dropped', free', slab', foreign', R, N),
         SameCells(R, N)
  PROVE  Apart(Places') /\ Covered(Places', pools)
<1> DEFINE P == PlacesOf(live, lost, dropped, free, slab, foreign)
           Q == PlacesOf(live', lost', dropped', free', slab', foreign')
<1>1. Places = P /\ Places' = Q
  BY DEF Places, PlacesOf
<1>2. Apart(P) /\ Covered(P, pools)
  BY <1>1
<1>3. Apart(Q) /\ Covered(Q, pools)
  BY <1>2, Rehouse
<1> QED
  BY <1>1, <1>3

(* New free blocks whose buddies are not free leave nothing to merge.         *)
LEMMA MergedMore ==
  ASSUME NEW pl, NEW fr, NEW fr2, NEW New, Merged(fr, pl),
         pl \in [Thread -> SUBSET Site], fr2 \in [Thread -> SUBSET Block],
         \A u \in Thread : \A x \in fr2[u] : x \in fr[u] \/ x \in New,
         \A z \in New : \A v \in Thread : \A p \in pl[v] : \A u \in Thread : \A y \in fr2[u] :
           Fits(z, p) /\ Fits(y, p) => Buddy(z, z.ord, p) # y
  PROVE  Merged(fr2, pl)
<1> SUFFICES ASSUME NEW v \in Thread, NEW p \in pl[v], NEW t \in Thread, NEW u \in Thread,
                    NEW x \in fr2[t], NEW y \in fr2[u], Fits(x, p), Fits(y, p),
                    Buddy(x, x.ord, p) = y
             PROVE  FALSE
  BY DEF Merged
<1>1. p \in Area /\ x \in Area /\ y \in Area
  BY Areas
<1>2. CASE x \in New
  BY <1>2
<1>3. CASE y \in New
  <2>1. Buddy(y, y.ord, p) = x
    BY <1>1, BuddySym
  <2> QED
    BY <1>3, <2>1
<1>4. CASE x \in fr[t] /\ y \in fr[u]
  BY <1>4 DEF Merged
<1> QED
  BY <1>2, <1>3, <1>4

(* The order ray_alloc takes: the least one that is large enough.             *)
LEMMA LeastFound ==
  ASSUME Typed, NEW t \in Thread, NEW o \in Nat, Found(t, o) # {}
  PROVE  LET f == Min(Found(t, o))
         IN  f \in Found(t, o) /\ f \in Nat /\ \A j \in Found(t, o) : f <= j
<1> DEFINE F == Found(t, o)
<1>1. F \subseteq Order /\ Order \subseteq Nat
  BY HeapAssumption DEF Typed, Found, Candidates, Order
<1>2. F \in SUBSET Nat /\ F # {}
  BY <1>1
<1> HIDE DEF F
<1>3. \E x \in F : \A y \in F : x <= y
  BY <1>2, LeastExists
<1>4. Min(F) \in F /\ \A y \in F : Min(F) <= y
  BY <1>3 DEF Min
<1> QED
  BY <1>2, <1>4 DEF F

LEMMA OrdersIn ==
  ASSUME NEW S, NEW T
  PROVE  /\ \A j : j \in Orders(S) <=> \E x \in S : x.ord = j
         /\ Orders(S \cup T) = Orders(S) \cup Orders(T)
  BY DEF Orders

LEMMA HalvesOrders ==
  ASSUME NEW b \in Area, NEW o \in Nat
  PROVE  Orders(Halves(b, o)) = o..(b.ord - 1)
<1>1. b.ord \in Nat
  BY DEF Area
<1>2. \A j \in o..(b.ord - 1) : Right(b, j).ord = j
  BY <1>1, RightType
<1>3. \A z : z \in Halves(b, o) <=> \E j \in o..(b.ord - 1) : z = Right(b, j)
  BY HalvesIn
<1>4. \A j : j \in Orders(Halves(b, o)) <=> \E z \in Halves(b, o) : z.ord = j
  BY OrdersIn
<1>5. \A j \in o..(b.ord - 1) : Right(b, j) \in Halves(b, o)
  BY <1>3
<1>6. \A z \in Halves(b, o) : z.ord \in o..(b.ord - 1)
  BY <1>2, <1>3
<1> DEFINE I == o..(b.ord - 1)
<1> HIDE DEF I
<1>7. \A j : j \in Orders(Halves(b, o)) <=> j \in I
  BY <1>2, <1>4, <1>5, <1>6 DEF I
<1>8. Orders(Halves(b, o)) = I
  <2> DEFINE J == Orders(Halves(b, o))
  <2>1. \A j : j \in J <=> j \in I
    BY <1>7
  <2> HIDE DEF J
  <2>2. J = I
    BY <2>1, Zenon
  <2> QED
    BY <2>2 DEF J
<1> QED
  BY <1>8 DEF I

(* The pieces of a block are blocks of its pool, and only the one that is     *)
(* handed out starts where it did.                                            *)
LEMMA SplitFits ==
  ASSUME NEW b \in Block, NEW p \in Site, Fits(b, p), NEW o \in Nat, o <= b.ord
  PROVE  /\ Left(b, o) \in Block /\ Fits(Left(b, o), p)
         /\ \A z \in Halves(b, o) :
              /\ z \in Block /\ Fits(z, p)
              /\ Buddy(z, z.ord, p).at = b.at /\ Buddy(z, z.ord, p) \in Area
<1>1. b \in Area /\ p \in Area /\ b.at \in Nat /\ b.ord \in Nat /\ b.ord \in Order /\ p.at \in Nat
  BY Areas
<1>2. PICK q \in Nat : q >= 1 /\ q = (b.at - p.at) \div 2^b.ord /\ b.at = p.at + q * 2^b.ord
  BY <1>1, FitsQuot
<1>3. b.at + 2^b.ord <= p.at + 2^p.ord
  BY DEF Fits
<1>4. \A j \in 0..b.ord : j \in Order
  BY <1>1, HeapAssumption DEF Order
<1>5. Left(b, o) \in Block
  <2>1. o \in Order
    BY <1>1, <1>4
  <2> QED
    BY <1>1, <2>1 DEF Left, Block
<1>6. Fits(Left(b, o), p)
  BY <1>1, LeftFits
<1>7. ASSUME NEW z \in Halves(b, o)
      PROVE  /\ z \in Block /\ Fits(z, p)
             /\ Buddy(z, z.ord, p).at = b.at /\ Buddy(z, z.ord, p) \in Area
  <2>1. PICK j \in o..(b.ord - 1) : z = Right(b, j)
    BY <1>1, HalvesIn
  <2>2. j \in Nat /\ j < b.ord /\ j \in Order
    BY <1>1, <1>4
  <2>3. Fits(z, p) /\ Buddy(z, j, p) = Left(b, j)
    BY <1>1, <1>2, <1>3, <2>1, <2>2, RightFits
  <2>4. z \in Area /\ z.ord = j /\ Left(b, j).at = b.at /\ Left(b, j) \in Area
    BY <1>1, <2>1, <2>2, RightType
  <2>5. z \in Block
    BY <2>1, <2>2, <2>4 DEF Right, Area, Block
  <2> QED
    BY <2>3, <2>4, <2>5
<1> QED
  BY <1>5, <1>6, <1>7

(* The pieces of a free block take its place.                                 *)
LEMMA SplitMoves ==
  ASSUME Typed, NEW t \in Thread, NEW b \in free[t], NEW o \in Nat, o <= b.ord,
         live' = live \cup {Left(b, o)}, free' \in [Thread -> SUBSET Block],
         free'[t] = (free[t] \ {b}) \cup Halves(b, o),
         \A u \in Thread \ {t} : free'[u] = free[u],
         UNCHANGED <<lost, dropped, slab, foreign>>, Apart(Places), Covered(Places, pools)
  PROVE  Apart(Places') /\ Covered(Places', pools)
<1> DEFINE H == Halves(b, o)
           l == Left(b, o)
           R == {<<"free", t, b>>}
           N == {<<"live", Main, l>>} \cup {<<"free", t, z>> : z \in H}
<1>0. b \in Area
  BY Areas DEF Typed
<1>1. /\ \A c \in Cells(b) : c \in Cells(l) \/ \E z \in H : c \in Cells(z)
      /\ Cells(l) \subseteq Cells(b)
      /\ \A z \in H : Cells(z) \subseteq Cells(b) /\ Cells(z) \cap Cells(l) = {}
      /\ \A z, w \in H : Meets(z, w) => z = w
  BY <1>0, SplitCells
<1> HIDE DEF H, l
<1>2. free'[t] = (free[t] \ {b}) \cup H /\ live' = live \cup {l}
  BY DEF H, l
<1>3. R \subseteq PlacesOf(live, lost, dropped, free, slab, foreign)
  BY PlacesIn
<1>4. N \subseteq PlacesOf(live', lost', dropped', free', slab', foreign')
  <2>1. <<"live", Main, l>> \in PlacesOf(live', lost', dropped', free', slab', foreign')
    BY <1>2, PlacesIn
  <2>2. \A z \in H : <<"free", t, z>> \in PlacesOf(live', lost', dropped', free', slab', foreign')
    BY <1>2, PlacesIn
  <2> QED
    BY <2>1, <2>2
<1>5. ASSUME NEW k, NEW u, NEW x, Has(k, u, x, live', lost', dropped', free', slab', foreign')
      PROVE  \/ Has(k, u, x, live, lost, dropped, free, slab, foreign) /\ <<k, u, x>> \notin R
             \/ <<k, u, x>> \in N
  <2>1. CASE k = "free"
    <3>1. u \in Thread /\ x \in free'[u]
      BY <1>5, <2>1 DEF Has
    <3>2. CASE u = t
      BY <1>2, <2>1, <3>1, <3>2 DEF Has
    <3>3. CASE u # t
      BY <2>1, <3>1, <3>3 DEF Has
    <3> QED
      BY <3>2, <3>3
  <2>2. CASE k = "live"
    BY <1>2, <1>5, <2>2 DEF Has
  <2>3. CASE k \notin {"free", "live"}
    BY <1>5, <2>3 DEF Has
  <2> QED
    BY <2>1, <2>2, <2>3
<1>6. ASSUME NEW k, NEW u, NEW x, Has(k, u, x, live, lost, dropped, free, slab, foreign)
      PROVE  \/ Has(k, u, x, live', lost', dropped', free', slab', foreign')
             \/ <<k, u, x>> \in R
  <2>1. CASE k = "free"
    <3>1. u \in Thread /\ x \in free[u]
      BY <1>6, <2>1 DEF Has
    <3>2. CASE u = t
      BY <1>2, <2>1, <3>1, <3>2 DEF Has
    <3>3. CASE u # t
      BY <2>1, <3>1, <3>3 DEF Has
    <3> QED
      BY <3>2, <3>3
  <2>2. CASE k = "live"
    BY <1>2, <1>6, <2>2 DEF Has
  <2>3. CASE k \notin {"free", "live"}
    BY <1>6, <2>3 DEF Has
  <2> QED
    BY <2>1, <2>2, <2>3
<1>7. SameCells(R, N)
  <2>1. \A e \in R : e = <<"free", t, b>> /\ e[3] = b
    OBVIOUS
  <2>2. \A e \in N : (e = <<"live", Main, l>> /\ e[3] = l) \/ \E z \in H : e = <<"free", t, z>> /\ e[3] = z
    OBVIOUS
  <2>3. ASSUME NEW e \in N, NEW g \in N, Meets(e[3], g[3]) PROVE e = g
    BY <1>1, <2>2, <2>3 DEF Meets
  <2>4. \A e \in N : \A c \in Cells(e[3]) : \E r \in R : c \in Cells(r[3])
    BY <1>1, <2>2
  <2>5. ASSUME NEW c \in Cells(b) PROVE \E e \in N : c \in Cells(e[3])
    <3>1. CASE c \in Cells(l)
      <4>1. <<"live", Main, l>> \in N /\ <<"live", Main, l>>[3] = l
        OBVIOUS
      <4> QED
        BY <3>1, <4>1
    <3>2. ASSUME NEW z \in H, c \in Cells(z) PROVE \E e \in N : c \in Cells(e[3])
      <4>1. <<"free", t, z>> \in N /\ <<"free", t, z>>[3] = z
        OBVIOUS
      <4> QED
        BY <3>2, <4>1
    <3> QED
      BY <1>1, <3>1, <3>2
  <2> HIDE DEF R, N
  <2> QED
    BY <2>1, <2>3, <2>4, <2>5 DEF SameCells
<1>8. Moves(live, lost, dropped, free, slab, foreign,
            live', lost', dropped', free', slab', foreign', R, N)
  <2> HIDE DEF R, N
  <2> QED
    BY <1>3, <1>4, <1>5, <1>6 DEF Moves
<1> HIDE DEF R, N
<1> QED
  BY <1>7, <1>8, StepTiled

(* The bits after a split: the least order found gives way to those below it. *)
LEMMA SplitAvail ==
  ASSUME Typed, AvailExact, NEW t \in Thread, NEW o \in Nat, Found(t, o) # {},
         NEW b \in OfOrder(free[t], Min(Found(t, o)))
  PROVE  LET f == b.ord
             Rest == free[t] \ {b}
         IN  /\ Min(Found(t, o)) = f /\ o <= f
             /\ {j \in avail[t] : j < o \/ j > f} \cup ({f} \cap Orders(Rest)) \cup o..(f - 1)
                  = Orders(Rest \cup Halves(b, o))
<1> DEFINE f == b.ord
           Rest == free[t] \ {b}
<1>1. b \in free[t] /\ f = Min(Found(t, o)) /\ b \in Area
  BY Areas DEF OfOrder, Typed
<1>2. f \in Nat /\ f \in Found(t, o) /\ \A j \in Found(t, o) : f <= j
  BY <1>1, LeastFound
<1>3. o <= f
  BY <1>2 DEF Found, Candidates
<1>4. \A x \in free[t] : x.ord \in Nat /\ x.ord \in avail[t]
  <2>1. \A x \in free[t] : x.ord \in Nat
    BY Areas DEF Typed
  <2> QED
    BY <2>1, OrdersIn DEF AvailExact
<1>5. \A j \in avail[t] : j \in Nat /\ \E x \in free[t] : x.ord = j
  BY <1>4, OrdersIn DEF AvailExact
<1>6. \A x \in free[t] : x.ord < o \/ x.ord >= f
  <2>1. ASSUME NEW x \in free[t], ~(x.ord < o) PROVE x.ord >= f
    <3>1. x.ord \in Found(t, o)
      BY <1>4, <2>1 DEF Found, Candidates, OfOrder
    <3> QED
      BY <1>2, <1>4, <3>1
  <2> QED
    BY <2>1
<1>7. Orders(Rest \cup Halves(b, o)) = Orders(Rest) \cup o..(f - 1)
  <2>1. Orders(Rest \cup Halves(b, o)) = Orders(Rest) \cup Orders(Halves(b, o))
    BY OrdersIn
  <2>2. Orders(Halves(b, o)) = o..(f - 1)
    BY <1>1, HalvesOrders
  <2> QED
    BY <2>1, <2>2
<1>8. \A j : j \in Orders(Rest) <=> \E x \in Rest : x.ord = j
  BY OrdersIn
<1>9. ASSUME NEW j
      PROVE  (j \in avail[t] /\ (j < o \/ j > f)) \/ (j = f /\ j \in Orders(Rest))
               <=> j \in Orders(Rest)
  <2>1. ASSUME j \in avail[t], j < o \/ j > f PROVE j \in Orders(Rest)
    <3>1. PICK x \in free[t] : x.ord = j
      BY <1>5, <2>1
    <3>2. x # b
      BY <1>2, <1>3, <2>1, <3>1
    <3> QED
      BY <1>8, <3>1, <3>2
  <2>2. ASSUME j \in Orders(Rest), j # f PROVE j \in avail[t] /\ (j < o \/ j > f)
    <3>1. PICK x \in free[t] : x.ord = j
      BY <1>8, <2>2
    <3> QED
      BY <1>2, <1>4, <1>6, <2>2, <3>1
  <2> QED
    BY <2>1, <2>2
<1>10. {j \in avail[t] : j < o \/ j > f} \cup ({f} \cap Orders(Rest)) = Orders(Rest)
  <2> HIDE DEF f, Rest
  <2> QED
    BY <1>9
<1> QED
  BY <1>1, <1>3, <1>7, <1>10

LEMMA AllocFreeSound ==
  ASSUME Sound, NEW t \in Thread, NEW o \in Req, AllocFree(t, o)
  PROVE  Sound'
<1> DEFINE f == Min(Found(t, o))
<1>0. /\ Typed /\ AvailExact /\ o \in Nat /\ ~torn /\ Found(t, o) # {}
      /\ bytes' = [bytes EXCEPT ![t] = @ + 2^o]
      /\ UNCHANGED <<up, pools, slab, foreign, dropped, phase, gc, lost, torn>>
  BY HeapAssumption DEF Sound, AllocFree, Idle, Runs
<1>1. PICK b \in OfOrder(free[t], f) :
        /\ free' = [free EXCEPT ![t] = (@ \ {b}) \cup Halves(b, o)]
        /\ avail' = [avail EXCEPT ![t] = {j \in @ : j < o \/ j > f}
                       \cup ({f} \cap Orders(free[t] \ {b})) \cup o..(f - 1)]
        /\ live' = live \cup {Left(b, o)}
  BY DEF AllocFree, Left
<1> DEFINE l == Left(b, o)
           H == Halves(b, o)
           Rest == free[t] \ {b}
<1>2. b \in free[t] /\ b.ord = f /\ b \in Block /\ b \in Area
  BY <1>0, Areas DEF OfOrder, Typed
<1>3. o <= b.ord /\ avail' = [avail EXCEPT ![t] = Orders(Rest \cup H)]
  <2>1. /\ f = b.ord /\ o <= b.ord
        /\ {j \in avail[t] : j < o \/ j > b.ord} \cup ({b.ord} \cap Orders(Rest)) \cup o..(b.ord - 1)
             = Orders(Rest \cup H)
    BY <1>0, <1>2, SplitAvail
  <2> DEFINE new == {j \in avail[t] : j < o \/ j > f} \cup ({f} \cap Orders(Rest)) \cup o..(f - 1)
  <2>2. avail' = [avail EXCEPT ![t] = new] /\ new = Orders(Rest \cup H)
    BY <1>1, <2>1
  <2> HIDE DEF new
  <2> QED
    BY <2>1, <2>2
<1>4. PICK p \in pools[t] : Fits(b, p)
  BY <1>2 DEF Sound, AllSeated, Seated
<1>5. p \in Site /\ p \in Area /\ PoolsOf(pools) /\ IsFiniteSet(pools[t])
  BY <1>0, Areas, SoundPools DEF Typed
<1>6. /\ l \in Block /\ l \in Area /\ l.ord = o /\ l.at = b.at /\ Fits(l, p)
      /\ \A z \in H : /\ z \in Block /\ Fits(z, p)
                      /\ Buddy(z, z.ord, p).at = b.at /\ Buddy(z, z.ord, p) \in Area
  BY <1>0, <1>2, <1>3, <1>4, <1>5, SplitFits, RightType, Areas
<1> HIDE DEF f
<1>7. /\ free' \in [Thread -> SUBSET Block] /\ free'[t] = Rest \cup H
      /\ \A u \in Thread \ {t} : free'[u] = free[u]
      /\ live' = live \cup {l} /\ avail' = [avail EXCEPT ![t] = Orders(Rest \cup H)]
  BY <1>0, <1>1, <1>3, <1>6 DEF Typed
<1> HIDE DEF l, H
<1>8. /\ bytes' \in [Thread -> Nat] /\ bytes'[t] = bytes[t] + 2^o
      /\ \A u \in Thread \ {t} : bytes'[u] = bytes[u]
  BY <1>0, PowType DEF Typed
<1>9. /\ avail' \in [Thread -> SUBSET Order] /\ avail'[t] = Orders(free'[t])
      /\ \A u \in Thread \ {t} : avail'[u] = avail[u]
  <2>1. \A x \in Rest \cup H : x.ord \in Order
    BY <1>0, <1>6, Areas DEF Typed
  <2>2. Orders(Rest \cup H) \subseteq Order
    BY <2>1 DEF Orders
  <2> QED
    BY <1>0, <1>7, <2>2 DEF Typed
<1>10. Typed'
  BY <1>0, <1>6, <1>7, <1>8, <1>9 DEF Typed
<1>11. PoolsApart' /\ AvailExact' /\ Calm' /\ Counted'
  <2>1. AvailExact'
    BY <1>7, <1>9 DEF Sound, AvailExact
  <2>2. PoolsApart' /\ Calm'
    BY <1>0 DEF Sound, PoolsApart, Calm
  <2>3. Counted'
    BY <1>0 DEF Sound, Counted
  <2> QED
    BY <2>1, <2>2, <2>3
<1>12. Seated(l, pools, {t}) /\ Seated(l, pools, Thread) /\ \A z \in H : Seated(z, pools, {t})
  BY <1>6 DEF Seated
<1>13. AllSeated'
  <2>1. \A u \in Thread : \A x \in free'[u] \cup slab[u] : Seated(x, pools, {u})
    BY <1>7, <1>12 DEF Sound, AllSeated
  <2>2. \A x \in live' \cup lost : Seated(x, pools, Thread)
    BY <1>7, <1>12 DEF Sound, AllSeated
  <2> QED
    BY <1>0, <2>1, <2>2 DEF Sound, AllSeated
<1>14. Apart(Places) /\ Covered(Places, pools) /\ Merged(free, pools)
       /\ \A u \in Thread : bytes[u] = Size(Of(u, Gives, pools))
  BY <1>0 DEF Sound, Tidy, Gives
<1>15. Apart(Places') /\ Covered(Places', pools)
  BY <1>0, <1>1, <1>2, <1>3, <1>7, <1>14, SplitMoves DEF l, H
<1>16. Merged(free', pools)
  <2>1. ASSUME NEW z \in H, NEW v \in Thread, NEW s \in pools[v], NEW u \in Thread, NEW y \in free'[u],
               Fits(z, s), Fits(y, s), Buddy(z, z.ord, s) = y
        PROVE  FALSE
    <3>1. s = p /\ z \in Area
      BY <1>4, <1>5, <1>6, <2>1, Areas, SeatUnique
    <3>2. y.at = l.at /\ y \in Area
      BY <1>6, <2>1, <3>1
    <3>3. Meets(y, l)
      BY <1>6, <3>2, CellsIn DEF Meets
    <3>4. <<"free", u, y>> \in Places' /\ <<"live", Main, l>> \in Places'
      BY <1>7, <2>1, PlacesIn DEF Places, PlacesOf
    <3>5. <<"free", u, y>>[3] = y /\ <<"live", Main, l>>[3] = l /\ <<"free", u, y>> # <<"live", Main, l>>
      OBVIOUS
    <3> QED
      BY <1>15, <3>3, <3>4, <3>5 DEF Apart
  <2>2. \A u \in Thread : \A x \in free'[u] : x \in free[u] \/ x \in H
    BY <1>7
  <2> QED
    BY <1>0, <1>7, <1>14, <2>1, <2>2, MergedMore DEF Typed
<1>17. l \notin Gives
  <2>1. Meets(b, l)
    BY <1>2, <1>6, CellsIn DEF Meets
  <2> QED
    BY <1>2, <1>14, <2>1, GivenApart DEF Gives
<1>18. Gives' = Gives \cup {l}
  BY <1>0, <1>7, GivenIn DEF Gives, Given
<1>19. \A u \in Thread : bytes'[u] = Size(Of(u, Gives', pools))
  <2>1. /\ Size(Of(t, Gives \cup {l}, pools)) = Size(Of(t, Gives, pools)) + 2^o
        /\ \A u \in Thread \ {t} : Of(u, Gives \cup {l}, pools) = Of(u, Gives, pools)
    BY <1>0, <1>5, <1>6, <1>12, <1>17, GivesType, OfPlus, ZenonT(30)
  <2> QED
    BY <1>8, <1>14, <1>18, <2>1
<1>20. Tidy'
  BY <1>0, <1>14, <1>15, <1>16, <1>19 DEF Tidy, Gives
<1> QED
  BY <1>10, <1>11, <1>13, <1>20 DEF Sound

(* The pieces of a new pool lie behind its header, whose cell is the buddy    *)
(* none of them has.                                                          *)
LEMMA GrowFits ==
  ASSUME NEW p \in Site
  PROVE  /\ \A z \in Halves(p, 0) :
              /\ z \in Block /\ Fits(z, p) /\ Buddy(z, z.ord, p).at = p.at
              /\ Cells(z) \subseteq Cells(p)
         /\ \A c \in Cells(p) : c # p.at => \E z \in Halves(p, 0) : c \in Cells(z)
         /\ \A z, w \in Halves(p, 0) : Meets(z, w) => z = w
<1>1. p \in Area /\ p.at \in Nat /\ p.ord \in Nat /\ p.ord \in Order
  BY Areas, HeapAssumption DEF Order
<1>2. /\ \A c \in Cells(p) : c \in Cells(Left(p, 0)) \/ \E z \in Halves(p, 0) : c \in Cells(z)
      /\ \A z \in Halves(p, 0) : Cells(z) \subseteq Cells(p)
      /\ \A z, w \in Halves(p, 0) : Meets(z, w) => z = w
  BY <1>1, SplitCells
<1>3. \A c \in Cells(Left(p, 0)) : c = p.at
  <2>1. \A c \in Cells(Left(p, 0)) : c \in Int /\ p.at <= c /\ c < p.at + 2^0
    BY <1>1, RightIn
  <2> QED
    BY <1>1, <2>1, PowZero
<1>4. \A j \in 0..p.ord : j \in Order
  BY <1>1, HeapAssumption DEF Order
<1>5. ASSUME NEW z \in Halves(p, 0)
      PROVE  z \in Block /\ Fits(z, p) /\ Buddy(z, z.ord, p).at = p.at
  <2>1. PICK j \in 0..(p.ord - 1) : z = Right(p, j)
    BY <1>1, HalvesIn
  <2>2. j \in Nat /\ j < p.ord /\ j \in Order
    BY <1>1, <1>4
  <2>3. 2^p.ord \in Nat /\ 0 \in Nat
    BY <1>1, PowType
  <2>4. p.at = p.at + 0 * 2^p.ord /\ p.at + 2^p.ord <= p.at + 2^p.ord
    BY <1>1, <2>3
  <2>5. Fits(z, p) /\ Buddy(z, j, p) = Left(p, j)
    BY <1>1, <2>1, <2>2, <2>3, <2>4, RightFits
  <2>6. z \in Area /\ z.ord = j /\ Left(p, j).at = p.at
    BY <1>1, <2>1, <2>2, RightType
  <2>7. z \in Block
    BY <2>1, <2>2, <2>6 DEF Right, Area, Block
  <2> QED
    BY <2>5, <2>6, <2>7
<1> QED
  BY <1>2, <1>3, <1>5

(* New pools change nothing for the blocks that had one.                      *)
LEMMA SeatsKept ==
  ASSUME NEW pl, NEW pl2, PoolsOf(pl2), \A u \in Thread : pl[u] \subseteq pl2[u],
         NEW b \in Area, Seated(b, pl, Thread), NEW u \in Thread
  PROVE  /\ Seated(b, pl2, {u}) <=> Seated(b, pl, {u})
         /\ \A v \in Thread : \A q \in pl2[v] : Fits(b, q) => q \in pl[v]
<1>0. PICK v \in Thread : \E q \in pl[v] : Fits(b, q)
  BY DEF Seated
<1>1. PICK q \in pl[v] : Fits(b, q)
  BY <1>0
<1>2. q \in pl2[v]
  BY <1>1
<1>3. \A w \in Thread : \A s \in pl2[w] : Fits(b, s) => v = w /\ q = s
  BY <1>1, <1>2, SeatUnique
<1> QED
  BY <1>1, <1>3 DEF Seated

(* heap_add_pool leaves the pools apart.                                      *)
LEMMA GrowPools ==
  ASSUME Sound, NEW t \in Thread, NEW p \in Site, \A q \in Mapped : ~Meets(p, q),
         Cardinality(pools[t]) < MaxPools, pools' = [pools EXCEPT ![t] = @ \cup {p}]
  PROVE  /\ PoolsApart' /\ PoolsOf(pools') /\ p \in pools'[t]
         /\ \A u \in Thread : pools[u] \subseteq pools'[u]
         /\ \A u \in Thread : \A q \in pools'[u] : q \in pools[u] \/ (u = t /\ q = p)
<1>1. pools \in [Thread -> SUBSET Site] /\ PoolsOf(pools) /\ IsFiniteSet(pools[t])
  BY SoundPools DEF Sound, Typed
<1>2. /\ pools'[t] = pools[t] \cup {p} /\ pools' \in [Thread -> SUBSET Site]
      /\ \A u \in Thread \ {t} : pools'[u] = pools[u]
  BY <1>1
<1>3. /\ \A u \in Thread : pools[u] \subseteq pools'[u]
      /\ \A u \in Thread : \A q \in pools'[u] : q \in pools[u] \/ (u = t /\ q = p)
  BY <1>2
<1>4. \A u \in Thread : \A q \in pools[u] : ~Meets(p, q) /\ ~Meets(q, p)
  BY MappedIn DEF Meets
<1>5. \A u, v \in Thread : \A q \in pools'[u], s \in pools'[v] : Meets(q, s) => u = v /\ q = s
  <2> SUFFICES ASSUME NEW u \in Thread, NEW v \in Thread, NEW q \in pools'[u], NEW s \in pools'[v],
                      Meets(q, s)
               PROVE  u = v /\ q = s
    OBVIOUS
  <2>1. CASE q \in pools[u] /\ s \in pools[v]
    BY <1>1, <2>1 DEF PoolsOf
  <2> QED
    BY <1>3, <1>4, <2>1
<1>6. p \notin pools[t]
  <2>1. Meets(p, p)
    BY Areas, SelfMeets
  <2> QED
    BY <1>4, <2>1
<1>7. IsFiniteSet(pools'[t]) /\ Cardinality(pools'[t]) = Cardinality(pools[t]) + 1
  BY <1>1, <1>2, <1>6, FS_AddElement
<1>8. Cardinality(pools[t]) \in Nat /\ MaxPools \in Nat
  BY <1>1, FS_CardinalityType, HeapAssumption
<1>9. Cardinality(pools'[t]) <= MaxPools
  BY <1>7, <1>8
<1>10. \A u \in Thread : IsFiniteSet(pools'[u]) /\ Cardinality(pools'[u]) <= MaxPools
  BY <1>2, <1>7, <1>9 DEF Sound, PoolsApart
<1> QED
  BY <1>2, <1>3, <1>5, <1>10 DEF PoolsApart, PoolsOf

LEMMA GrowOrder ==
  ASSUME NEW o \in Req
  PROVE  o \in Nat /\ o < NewOrder(o)
<1>1. o \in Nat /\ PoolOrder \in Nat
  BY HeapAssumption
<1> QED
  BY <1>1 DEF NewOrder

(* ... and the new blocks tile it.                                            *)
LEMMA GrowTiled ==
  ASSUME Sound, ~torn, NEW t \in Thread, NEW p \in Site, NEW l \in Halves(p, 0), PoolsOf(pools'),
         \A u \in Thread : pools[u] \subseteq pools'[u], p \in pools'[t],
         \A u \in Thread : \A q \in pools'[u] : q \in pools[u] \/ (u = t /\ q = p),
         \A q \in Mapped : ~Meets(p, q),
         live' = live \cup {l}, free'[t] = free[t] \cup (Halves(p, 0) \ {l}),
         \A u \in Thread \ {t} : free'[u] = free[u],
         UNCHANGED <<lost, dropped, slab, foreign>>
  PROVE  Apart(Places') /\ Covered(Places', pools')
<1> DEFINE H == Halves(p, 0)
           N == {<<"live", Main, l>>} \cup {<<"free", t, z>> : z \in H \ {l}}
<1>1. /\ \A z \in H : Cells(z) \subseteq Cells(p)
      /\ \A c \in Cells(p) : c # p.at => \E z \in H : c \in Cells(z)
      /\ \A z, w \in H : Meets(z, w) => z = w
  BY GrowFits
<1>2. l \in H /\ free'[t] = free[t] \cup (H \ {l})
  OBVIOUS
<1> HIDE DEF H
<1>3. \A e : e \in Places <=>
           \/ \E x \in live : e = <<"live", Main, x>>
           \/ \E x \in lost : e = <<"lost", Main, x>>
           \/ \E u \in Thread : \/ \E x \in dropped[u] : e = <<"dropped", u, x>>
                                \/ \E x \in free[u] : e = <<"free", u, x>>
                                \/ \E x \in slab[u] : e = <<"slab", u, x>>
                                \/ \E x \in foreign[u] : e = <<"foreign", u, x>>
  BY PlacesIn, PlacesAre
<1>4. \A e : e \in Places' <=>
           \/ \E x \in live' : e = <<"live", Main, x>>
           \/ \E x \in lost : e = <<"lost", Main, x>>
           \/ \E u \in Thread : \/ \E x \in dropped[u] : e = <<"dropped", u, x>>
                                \/ \E x \in free'[u] : e = <<"free", u, x>>
                                \/ \E x \in slab[u] : e = <<"slab", u, x>>
                                \/ \E x \in foreign[u] : e = <<"foreign", u, x>>
  <2>1. Places' = PlacesOf(live', lost, dropped, free', slab, foreign)
    BY DEF Places, PlacesOf
  <2> QED
    BY <2>1, PlacesIn
<1>5. \A e \in Places' : e \in Places \/ e \in N
  <2> SUFFICES ASSUME NEW e \in Places', e \notin Places PROVE e \in N
    OBVIOUS
  <2>1. \/ \E x \in live' : e = <<"live", Main, x>> /\ x \notin live
        \/ \E u \in Thread : \E x \in free'[u] : e = <<"free", u, x>> /\ x \notin free[u]
    BY <1>3, <1>4
  <2> QED
    BY <1>2, <2>1
<1>6. \A e \in Places : e \in Places'
  BY <1>2, <1>3, <1>4
<1>7. \A z \in H : \E e \in Places' : e[3] = z
  <2>1. <<"live", Main, l>> \in Places' /\ <<"live", Main, l>>[3] = l
    BY <1>4
  <2>2. \A z \in H \ {l} : <<"free", t, z>> \in Places' /\ <<"free", t, z>>[3] = z
    BY <1>2, <1>4
  <2> QED
    BY <2>1, <2>2
<1>8. \A e \in N : \/ e = <<"live", Main, l>> /\ e[3] = l
                   \/ \E z \in H \ {l} : e = <<"free", t, z>> /\ e[3] = z
  OBVIOUS
<1>9. \A e \in N : e[3] \in H
  BY <1>2, <1>8
<1>10. \A e, g \in N : Meets(e[3], g[3]) => e = g
  BY <1>1, <1>2, <1>8
<1>11. \A e \in Places : \A g \in N : ~Meets(e[3], g[3]) /\ ~Meets(g[3], e[3])
  <2> SUFFICES ASSUME NEW e \in Places, NEW g \in N PROVE ~Meets(e[3], g[3]) /\ ~Meets(g[3], e[3])
    OBVIOUS
  <2>1. PICK q \in Mapped : Cells(e[3]) \subseteq Cells(q)
    BY SoundNoDangling DEF NoDangling, Blocks
  <2>2. Cells(g[3]) \subseteq Cells(p)
    BY <1>1, <1>9
  <2> QED
    BY <2>1, <2>2 DEF Meets
<1>12. Apart(Places) /\ Covered(Places, pools)
  BY DEF Sound, Tidy
<1>13. Apart(Places')
  BY <1>5, <1>10, <1>11, <1>12 DEF Apart
<1>14. Covered(Places', pools')
  <2> SUFFICES ASSUME NEW u \in Thread, NEW q \in pools'[u], NEW c \in Cells(q), c # q.at
               PROVE  \E e \in Places' : c \in Cells(e[3])
    BY DEF Covered
  <2>1. CASE q \in pools[u]
    BY <1>6, <1>12, <2>1 DEF Covered
  <2>2. CASE q = p
    BY <1>1, <1>7, <2>2
  <2> QED
    BY <2>1, <2>2
<1> QED
  BY <1>13, <1>14

(* The bits after a new pool is cut up.                                       *)
LEMMA GrowAvail ==
  ASSUME Typed, AvailExact, NEW t \in Thread, NEW o \in Nat, Found(t, o) = {},
         NEW p \in Site, o < p.ord
  PROVE  /\ \A j \in avail[t] : j < o
         /\ ({j \in avail[t] : j < o} \cup 0..(p.ord - 1)) \ {o}
              = Orders(free[t] \cup (Halves(p, 0) \ {Right(p, o)}))
<1> DEFINE H == Halves(p, 0)
           l == Right(p, o)
<1>1. p \in Area /\ p.ord \in Nat
  BY Areas DEF Area
<1>2. \A j \in avail[t] : j \in Nat /\ OfOrder(free[t], j) # {}
  <2>1. \A x \in free[t] : x.ord \in Nat
    BY Areas DEF Typed
  <2> QED
    BY <2>1, OrdersIn DEF AvailExact, OfOrder
<1>3. \A j \in avail[t] : j < o
  <2>1. \A j \in avail[t] : ~(j >= o)
    BY <1>2 DEF Found, Candidates
  <2> QED
    BY <1>2, <2>1
<1>4. avail[t] = Orders(free[t]) /\ Orders(free[t] \cup (H \ {l})) = Orders(free[t]) \cup Orders(H \ {l})
  BY OrdersIn DEF AvailExact
<1>5. \A z : z \in H <=> \E j \in 0..(p.ord - 1) : z = Right(p, j)
  BY <1>1, HalvesIn
<1>6. \A j \in 0..(p.ord - 1) : Right(p, j).ord = j
  BY <1>1, RightType
<1>7. o \in 0..(p.ord - 1) /\ l.ord = o
  BY <1>1, <1>6
<1>8. \A j : j \in Orders(H \ {l}) <=> \E z \in H \ {l} : z.ord = j
  BY OrdersIn
<1>9. \A j \in (0..(p.ord - 1)) \ {o} : Right(p, j) \in H \ {l}
  <2> HIDE DEF H, l
  <2> QED
    BY <1>5, <1>6, <1>7
<1>10. \A z \in H \ {l} : z.ord \in (0..(p.ord - 1)) \ {o}
  <2> SUFFICES ASSUME NEW z \in H \ {l} PROVE z.ord \in (0..(p.ord - 1)) \ {o}
    OBVIOUS
  <2>1. PICK j \in 0..(p.ord - 1) : z = Right(p, j)
    BY <1>5
  <2> QED
    BY <1>6, <2>1
<1> DEFINE I == 0..(p.ord - 1)
<1> HIDE DEF I, H, l
<1>11. \A j : j \in Orders(H \ {l}) <=> j \in I \ {o}
  <2>1. \A j \in I : Right(p, j).ord = j
    BY <1>6 DEF I
  <2>2. (\A j \in I \ {o} : Right(p, j) \in H \ {l}) /\ \A z \in H \ {l} : z.ord \in I \ {o}
    BY <1>9, <1>10 DEF I
  <2> QED
    BY <1>8, <2>1, <2>2
<1>12. ({j \in avail[t] : j < o} \cup I) \ {o} = avail[t] \cup (I \ {o})
  <2>1. \A j \in avail[t] : j # o
    BY <1>3
  <2> QED
    BY <1>3, <2>1
<1>13. Orders(H \ {l}) = I \ {o}
  <2> DEFINE J == Orders(H \ {l})
             K == I \ {o}
  <2>1. \A j : j \in J <=> j \in K
    BY <1>11
  <2> HIDE DEF J, K
  <2>2. J = K
    BY <2>1, Zenon
  <2> QED
    BY <2>2 DEF J, K
<1> QED
  BY <1>3, <1>4, <1>12, <1>13 DEF I, H, l

LEMMA AllocGrowSound ==
  ASSUME Sound, NEW t \in Thread, NEW o \in Req, AllocGrow(t, o)
  PROVE  Sound'
<1>0. /\ Typed /\ AvailExact /\ ~torn /\ Found(t, o) = {} /\ t \in up
      /\ Cardinality(pools[t]) < MaxPools
      /\ bytes' = [bytes EXCEPT ![t] = @ + 2^o]
      /\ UNCHANGED <<up, slab, foreign, dropped, phase, gc, lost, torn>>
  BY DEF Sound, AllocGrow, Idle, Runs, Typed
<1>1. PICK p \in OfOrder(Site, NewOrder(o)) :
        /\ \A q \in Mapped : ~Meets(p, q)
        /\ pools' = [pools EXCEPT ![t] = @ \cup {p}]
        /\ free' = [free EXCEPT ![t] =
                      @ \cup {[at |-> p.at + 2^j, ord |-> j] : j \in (0..(p.ord - 1)) \ {o}}]
        /\ avail' = [avail EXCEPT ![t] = ({j \in @ : j < o} \cup 0..(p.ord - 1)) \ {o}]
        /\ live' = live \cup {[at |-> p.at + 2^o, ord |-> o]}
  BY DEF AllocGrow
<1>2. o \in Nat /\ p \in Site /\ o < p.ord /\ p \in Area /\ p.ord \in Nat
  BY GrowOrder, Areas DEF OfOrder, Area
<1> DEFINE l == Right(p, o)
           H == Halves(p, 0)
<1>3. l \in H /\ l.ord = o
  <2>1. o \in 0..(p.ord - 1)
    BY <1>2
  <2> QED
    BY <1>2, <2>1, HalvesIn, RightType
<1>4. {[at |-> p.at + 2^j, ord |-> j] : j \in (0..(p.ord - 1)) \ {o}} = H \ {l}
  <2>1. \A j \in 0..(p.ord - 1) : Right(p, j).ord = j
    BY <1>2, RightType
  <2>2. {[at |-> p.at + 2^j, ord |-> j] : j \in (0..(p.ord - 1)) \ {o}}
          = {Right(p, j) : j \in (0..(p.ord - 1)) \ {o}}
    BY DEF Right
  <2>3. \A z : z \in H <=> \E j \in 0..(p.ord - 1) : z = Right(p, j)
    BY <1>2, HalvesIn
  <2> DEFINE I == 0..(p.ord - 1)
  <2> HIDE DEF H, l, I
  <2>4. {Right(p, j) : j \in I \ {o}} = H \ {l}
    <3>1. \A j \in I \ {o} : Right(p, j) # l
      BY <1>3, <2>1 DEF I
    <3>2. l = Right(p, o)
      BY DEF l
    <3> QED
      BY <2>3, <3>1, <3>2 DEF I
  <2> QED
    BY <2>2, <2>4 DEF I
<1>5. /\ PoolsApart' /\ PoolsOf(pools') /\ p \in pools'[t]
      /\ \A u \in Thread : pools[u] \subseteq pools'[u]
      /\ \A u \in Thread : \A q \in pools'[u] : q \in pools[u] \/ (u = t /\ q = p)
  BY <1>0, <1>1, <1>2, GrowPools
<1>6. /\ \A z \in H : z \in Block /\ Fits(z, p) /\ Buddy(z, z.ord, p).at = p.at
  BY <1>2, GrowFits
<1>7. /\ free' \in [Thread -> SUBSET Block] /\ free'[t] = free[t] \cup (H \ {l})
      /\ \A u \in Thread \ {t} : free'[u] = free[u]
  <2> HIDE DEF l, H
  <2>1. free' = [free EXCEPT ![t] = @ \cup (H \ {l})]
    BY <1>1, <1>4
  <2> QED
    BY <1>0, <1>6, <2>1 DEF Typed
<1>8. live' = live \cup {l}
  BY <1>1 DEF Right
<1>9. \A j \in avail[t] : j < o
  BY <1>0, <1>2, GrowAvail
<1>10. /\ avail' \in [Thread -> SUBSET Order] /\ avail'[t] = Orders(free'[t])
       /\ \A u \in Thread \ {t} : avail'[u] = avail[u]
  <2> DEFINE new == ({j \in avail[t] : j < o} \cup 0..(p.ord - 1)) \ {o}
  <2>1. new = Orders(free'[t])
    BY <1>0, <1>2, <1>7, GrowAvail
  <2>2. avail' = [avail EXCEPT ![t] = new]
    BY <1>1
  <2> HIDE DEF new
  <2>3. new \subseteq Order
    BY <1>7, <2>1, Areas, OrdersIn
  <2> QED
    BY <1>0, <2>1, <2>2, <2>3 DEF Typed
<1>11. /\ bytes' \in [Thread -> Nat] /\ bytes'[t] = bytes[t] + 2^o
       /\ \A u \in Thread \ {t} : bytes'[u] = bytes[u]
  BY <1>0, <1>2, PowType DEF Typed
<1> HIDE DEF l, H
<1>12. Typed'
  BY <1>0, <1>3, <1>5, <1>6, <1>7, <1>8, <1>10, <1>11 DEF Typed, PoolsOf
<1>13. AvailExact' /\ Calm'
  <2>1. AvailExact'
    BY <1>0, <1>7, <1>10 DEF AvailExact
  <2>2. Calm'
    BY <1>0 DEF Sound, Calm
  <2> QED
    BY <2>1, <2>2
<1>14. Counted'
  BY <1>0, <1>5 DEF Sound, Counted
<1>15. /\ \A T \in SUBSET Thread : \A x : Seated(x, pools, T) => Seated(x, pools', T)
       /\ \A z \in H : Seated(z, pools', {t}) /\ Seated(z, pools', Thread)
  BY <1>5, <1>6 DEF Seated
<1>16. AllSeated'
  <2>1. \A u \in Thread : {u} \in SUBSET Thread /\ Thread \ {u} \in SUBSET Thread
    OBVIOUS
  <2>2. \A u \in Thread : \A x \in free'[u] \cup slab[u] : Seated(x, pools', {u})
    BY <1>7, <1>15, <2>1 DEF Sound, AllSeated
  <2>3. \A x \in live' \cup lost : Seated(x, pools', Thread)
    BY <1>3, <1>8, <1>15 DEF Sound, AllSeated
  <2>4. \A u \in Thread : /\ \A x \in dropped[u] : Seated(x, pools', Thread)
                          /\ \A x \in foreign[u] : Seated(x, pools', Thread \ {u})
    BY <1>15, <2>1 DEF Sound, AllSeated
  <2> QED
    BY <1>0, <2>2, <2>3, <2>4 DEF AllSeated
<1>17. Merged(free, pools) /\ \A u \in Thread : bytes[u] = Size(Of(u, Gives, pools))
  BY <1>0 DEF Sound, Tidy, Gives
<1>18. Apart(Places') /\ Covered(Places', pools')
  BY <1>0, <1>1, <1>2, <1>3, <1>5, <1>7, <1>8, GrowTiled DEF H
<1>19. \A x \in Blocks : \A u \in Thread :
         /\ Seated(x, pools', {u}) <=> Seated(x, pools, {u})
         /\ \A q \in pools'[u] : Fits(x, q) => q \in pools[u]
  <2> SUFFICES ASSUME NEW x \in Blocks, NEW u \in Thread
               PROVE  /\ Seated(x, pools', {u}) <=> Seated(x, pools, {u})
                      /\ \A q \in pools'[u] : Fits(x, q) => q \in pools[u]
    OBVIOUS
  <2>1. x \in Area /\ Seated(x, pools, Thread)
    BY SoundSeats
  <2> QED
    BY <1>5, <2>1, SeatsKept
<1>20. Merged(free', pools')
  <2>1. Merged(free, pools')
    <3>1. \A u \in Thread : \A x \in free[u] : x \in Blocks
      BY BlocksIn
    <3> QED
      BY <1>17, <1>19, <3>1 DEF Merged
  <2>2. ASSUME NEW z \in H, NEW v \in Thread, NEW s \in pools'[v], NEW u \in Thread,
               NEW y \in free'[u], Fits(z, s), Fits(y, s), Buddy(z, z.ord, s) = y
        PROVE  FALSE
    <3>1. z \in Area /\ Fits(z, p)
      BY <1>6, Areas
    <3>2. s = p
      BY <1>5, <2>2, <3>1, SeatUnique
    <3>3. y.at = p.at
      BY <1>6, <2>2, <3>2
    <3>4. y.at > p.at /\ p.at \in Nat
      BY <1>2, <2>2, <3>2, Areas DEF Fits
    <3> QED
      BY <3>3, <3>4
  <2>3. \A u \in Thread : \A x \in free'[u] : x \in free[u] \/ x \in H
    BY <1>7
  <2> QED
    BY <1>5, <1>7, <2>1, <2>2, <2>3, MergedMore DEF PoolsOf
<1>21. Gives \subseteq Blocks
  BY BlocksIn, GivenIn DEF Gives
<1>22. l \notin Gives
  <2>1. ASSUME l \in Gives PROVE FALSE
    <3>1. p \in pools[t]
      BY <1>3, <1>5, <1>6, <1>19, <1>21, <2>1
    <3>2. Meets(p, p) /\ p \in Mapped
      BY <1>2, <3>1, SelfMeets, MappedIn
    <3> QED
      BY <1>1, <3>2
  <2> QED
    BY <2>1
<1>23. Gives' = Gives \cup {l}
  BY <1>0, <1>8, GivenIn DEF Gives, Given
<1>24. \A u \in Thread : bytes'[u] = Size(Of(u, Gives', pools'))
  <2>1. /\ Size(Of(t, Gives \cup {l}, pools')) = Size(Of(t, Gives, pools')) + 2^o
        /\ \A u \in Thread \ {t} : Of(u, Gives \cup {l}, pools') = Of(u, Gives, pools')
    <3>1. IsFiniteSet(pools'[t]) /\ Gives \in SUBSET Block
      BY <1>0, <1>5, GivesType DEF PoolsApart
    <3>2. l \in Block /\ Seated(l, pools', {t})
      BY <1>3, <1>6, <1>15
    <3> QED
      BY <1>3, <1>5, <1>22, <3>1, <3>2, OfPlus, ZenonT(30)
  <2>2. \A u \in Thread : Of(u, Gives, pools') = Of(u, Gives, pools)
    <3> TAKE u \in Thread
    <3>1. \A x \in Gives : Seated(x, pools', {u}) <=> Seated(x, pools, {u})
      BY <1>19, <1>21
    <3> QED
      BY <3>1 DEF Of
  <2> QED
    BY <1>11, <1>17, <1>23, <2>1, <2>2
<1>25. Tidy'
  BY <1>0, <1>18, <1>20, <1>24 DEF Tidy, Gives
<1> QED
  BY <1>5, <1>12, <1>13, <1>14, <1>16, <1>25 DEF Sound

(* No memory to be had: the orders that looked free were not large enough.    *)
LEMMA AllocFailSound ==
  ASSUME Sound, NEW t \in Thread, NEW o \in Req, AllocFail(t, o)
  PROVE  Sound'
<1>1. /\ avail' = [avail EXCEPT ![t] = {j \in @ : j < o}] /\ Found(t, o) = {} /\ o \in Nat
      /\ UNCHANGED <<up, pools, free, slab, foreign, bytes, live, dropped, phase, gc, lost, torn>>
      /\ Typed /\ AvailExact
  BY HeapAssumption DEF AllocFail, Sound
<1>2. \A j \in avail[t] : j < o
  <2>1. \A j \in avail[t] : j \in Nat /\ OfOrder(free[t], j) # {}
    <3>1. \A x \in free[t] : x.ord \in Nat
      BY <1>1, Areas DEF Typed
    <3> QED
      BY <1>1, <3>1, OrdersIn DEF AvailExact, OfOrder
  <2>2. \A j \in avail[t] : ~(j >= o)
    BY <1>1, <2>1 DEF Found, Candidates
  <2> QED
    BY <1>1, <2>1, <2>2
<1>3. avail' = avail
  <2>1. {j \in avail[t] : j < o} = avail[t]
    BY <1>2
  <2> QED
    BY <1>1, <2>1 DEF Typed
<1>4. Calm'
  BY <1>1 DEF Sound, Calm
<1> QED
  BY <1>1, <1>3, <1>4, SameLists DEF Typed, lists

-------------------------------------------------------------------------------
(* ray_release and ray_free                                                   *)

(* A block that only changes its place.                                       *)
LEMMA MoveOne ==
  ASSUME Apart(Places), Covered(Places, pools), NEW k0, NEW u0, NEW k1, NEW u1, NEW b,
         Has(k0, u0, b, live, lost, dropped, free, slab, foreign),
         Has(k1, u1, b, live', lost', dropped', free', slab', foreign'),
         \A k, u, x : Has(k, u, x, live', lost', dropped', free', slab', foreign') =>
           \/ Has(k, u, x, live, lost, dropped, free, slab, foreign) /\ ~(k = k0 /\ u = u0 /\ x = b)
           \/ k = k1 /\ u = u1 /\ x = b,
         \A k, u, x : Has(k, u, x, live, lost, dropped, free, slab, foreign) =>
           \/ Has(k, u, x, live', lost', dropped', free', slab', foreign')
           \/ k = k0 /\ u = u0 /\ x = b
  PROVE  Apart(Places') /\ Covered(Places', pools)
<1> DEFINE R == {<<k0, u0, b>>}
           N == {<<k1, u1, b>>}
<1>1. R \subseteq PlacesOf(live, lost, dropped, free, slab, foreign)
  BY PlaceHas
<1>2. N \subseteq PlacesOf(live', lost', dropped', free', slab', foreign')
  BY PlaceHas
<1>3. \A k, u, x : <<k, u, x>> \in R <=> k = k0 /\ u = u0 /\ x = b
  OBVIOUS
<1>4. \A k, u, x : <<k, u, x>> \in N <=> k = k1 /\ u = u1 /\ x = b
  OBVIOUS
<1>5. SameCells(R, N)
  BY DEF SameCells
<1> HIDE DEF R, N
<1>6. Moves(live, lost, dropped, free, slab, foreign,
            live', lost', dropped', free', slab', foreign', R, N)
  BY <1>1, <1>2, <1>3, <1>4 DEF Moves
<1> QED
  BY <1>5, <1>6, StepTiled

(* A block is in one place.                                                   *)
LEMMA OnePlace ==
  ASSUME Apart(Places), NEW b \in Area, NEW k, NEW u, NEW l, NEW v,
         Has(k, u, b, live, lost, dropped, free, slab, foreign),
         Has(l, v, b, live, lost, dropped, free, slab, foreign)
  PROVE  k = l /\ u = v
<1>1. <<k, u, b>> \in Places /\ <<l, v, b>> \in Places
  BY PlacesAre, PlaceHas
<1>2. <<k, u, b>>[3] = b /\ <<l, v, b>>[3] = b
  OBVIOUS
<1>3. <<k, u, b>> = <<l, v, b>>
  BY <1>1, <1>2, SelfMeets DEF Apart
<1> QED
  BY <1>3

(* Who runs has a heap, and outside a dispatch it is the main thread.         *)
LEMMA RunsUp ==
  ASSUME Sound, NEW t \in Thread, Runs(t)
  PROVE  t \in up /\ ~torn /\ gc = "no" /\ (phase = "seq" => t = Main)
<1>1. Main \notin Worker
  BY HeapAssumption
<1>2. Typed /\ Calm
  BY DEF Sound
<1>3. CASE t = Main /\ phase \in {"seq", "region"} /\ gc = "no"
  BY <1>2, <1>3 DEF Runs, Typed
<1>4. CASE t \in Worker \cap up /\ phase \in {"opening", "region"}
  BY <1>1, <1>2, <1>4 DEF Runs, Calm
<1> QED
  BY <1>3, <1>4 DEF Runs

LEMMA GivesIn ==
  /\ \A x : x \in Gives <=>
       x \in live \/ x \in lost \/ \E u \in Thread : x \in dropped[u] \/ x \in foreign[u]
  /\ \A x : x \in Gives' <=>
       x \in live' \/ x \in lost' \/ \E u \in Thread : x \in dropped'[u] \/ x \in foreign'[u]
  BY DEF Gives, Given

LEMMA ReleaseSound ==
  ASSUME Sound, NEW t \in Thread, NEW b \in live, Release(t, b)
  PROVE  Sound'
<1>1. /\ live' = live \ {b} /\ dropped' = [dropped EXCEPT ![t] = {b}] /\ dropped[t] = {}
      /\ pools' = pools /\ free' = free /\ avail' = avail /\ slab' = slab /\ foreign' = foreign
      /\ bytes' = bytes /\ UNCHANGED <<up, phase, gc, lost, torn>>
      /\ Typed /\ ~torn /\ t \in up /\ gc = "no" /\ (phase = "seq" => t = Main)
  BY RunsUp DEF Release, lists, Idle, Sound
<1>2. b \in Block /\ Seated(b, pools, Thread)
  BY <1>1 DEF Typed, Sound, AllSeated
<1>3. /\ dropped' \in [Thread -> SUBSET Block] /\ dropped'[t] = {b}
      /\ \A u \in Thread \ {t} : dropped'[u] = dropped[u]
  BY <1>1, <1>2 DEF Typed
<1>4. Typed'
  BY <1>1, <1>3 DEF Typed
<1>5. PoolsApart' /\ AvailExact'
  BY <1>1 DEF Sound, PoolsApart, AvailExact
<1>6. AllSeated'
  BY <1>1, <1>2, <1>3 DEF Sound, AllSeated
<1>7. Counted'
  BY <1>1, <1>3 DEF Sound, Counted
<1>8. Calm'
  <2>1. Main \notin Worker /\ \A u \in Worker : u \in Thread
    BY HeapAssumption DEF Thread
  <2> QED
    BY <1>1, <1>3, <2>1 DEF Sound, Calm
<1>9. Apart(Places) /\ Covered(Places, pools) /\ Merged(free, pools)
      /\ \A u \in Thread : bytes[u] = Size(Of(u, Gives, pools))
  BY <1>1 DEF Sound, Tidy, Gives
<1>10. Apart(Places') /\ Covered(Places', pools)
  <2>1. Has("live", Main, b, live, lost, dropped, free, slab, foreign)
    BY DEF Has, Thread
  <2>2. Has("dropped", t, b, live', lost', dropped', free', slab', foreign')
    BY <1>3 DEF Has
  <2>3. \A k, u, x : Has(k, u, x, live', lost', dropped', free', slab', foreign') =>
          \/ Has(k, u, x, live, lost, dropped, free, slab, foreign) /\ ~(k = "live" /\ u = Main /\ x = b)
          \/ k = "dropped" /\ u = t /\ x = b
    BY <1>1, <1>3 DEF Has
  <2>4. \A k, u, x : Has(k, u, x, live, lost, dropped, free, slab, foreign) =>
          \/ Has(k, u, x, live', lost', dropped', free', slab', foreign')
          \/ k = "live" /\ u = Main /\ x = b
    BY <1>1, <1>3 DEF Has
  <2> QED
    BY <1>9, <2>1, <2>2, <2>3, <2>4, MoveOne
<1>11. Gives' = Gives
  <2>3. \A x : x \in Gives' <=> x \in Gives
    BY <1>1, <1>3, GivesIn
  <2> QED
    BY <2>3
<1>12. Tidy'
  <2>1. \A u \in Thread : bytes'[u] = Size(Of(u, Gives', pools))
    BY <1>1, <1>9, <1>11
  <2> QED
    BY <1>1, <1>9, <1>10, <2>1 DEF Tidy, Gives
<1> QED
  BY <1>4, <1>5, <1>6, <1>7, <1>8, <1>12 DEF Sound

(* What is dropped is one block, given out like the others.                   *)
LEMMA DroppedOne ==
  ASSUME Sound, NEW t \in Thread, NEW b \in dropped[t]
  PROVE  dropped[t] = {b} /\ b \in Block /\ b \in Area /\ Seated(b, pools, Thread) /\ b \in Gives
<1>1. b \in Block /\ Seated(b, pools, Thread)
  BY DEF Sound, Typed, AllSeated
<1>2. dropped[t] = {b}
  BY DEF Sound, Counted
<1> QED
  BY <1>1, <1>2, Areas, GivesIn

LEMMA FreeForeignSound ==
  ASSUME Sound, NEW t \in Thread, NEW b \in dropped[t], FreeForeign(t, b)
  PROVE  Sound'
<1>1. /\ foreign' = [foreign EXCEPT ![t] = @ \cup {b}] /\ dropped' = [dropped EXCEPT ![t] = {}]
      /\ UNCHANGED <<up, pools, free, avail, slab, bytes, live, phase, gc, lost, torn>>
      /\ Typed /\ ~torn /\ t \in up /\ gc = "no" /\ ~Local(t, b)
  BY RunsUp DEF FreeForeign, Sound
<1>2. dropped[t] = {b} /\ b \in Block /\ b \in Area /\ Seated(b, pools, Thread)
  BY DroppedOne
<1>3. Seated(b, pools, Thread \ {t})
  <2>1. ~Seated(b, pools, {t})
    BY <1>1, <1>2, SoundPools, LocalIs
  <2> QED
    BY <1>2, <2>1 DEF Seated
<1>4. /\ dropped' \in [Thread -> SUBSET Block] /\ dropped'[t] = {}
      /\ \A u \in Thread \ {t} : dropped'[u] = dropped[u]
  BY <1>1 DEF Typed
<1>5. /\ foreign' \in [Thread -> SUBSET Block] /\ foreign'[t] = foreign[t] \cup {b}
      /\ \A u \in Thread \ {t} : foreign'[u] = foreign[u]
  BY <1>1, <1>2 DEF Typed
<1>6. Typed'
  BY <1>1, <1>4, <1>5 DEF Typed
<1>7. PoolsApart' /\ AvailExact'
  BY <1>1 DEF Sound, PoolsApart, AvailExact
<1>8. AllSeated'
  BY <1>1, <1>3, <1>4, <1>5 DEF Sound, AllSeated
<1>9. Counted'
  BY <1>1, <1>4, <1>5 DEF Sound, Counted
<1>10. Calm'
  <2>1. \A u \in Thread : dropped[u] = {} => dropped'[u] = {}
    BY <1>4
  <2>2. \A u \in Worker \cup {Main} : u \in Thread
    BY DEF Thread
  <2> QED
    BY <1>1, <2>1, <2>2 DEF Sound, Calm
<1>11. Apart(Places) /\ Covered(Places, pools) /\ Merged(free, pools)
       /\ \A u \in Thread : bytes[u] = Size(Of(u, Gives, pools))
  BY <1>1 DEF Sound, Tidy, Gives
<1>12. Apart(Places') /\ Covered(Places', pools)
  <2>1. Has("dropped", t, b, live, lost, dropped, free, slab, foreign)
    BY DEF Has
  <2>2. Has("foreign", t, b, live', lost', dropped', free', slab', foreign')
    BY <1>5 DEF Has
  <2>3. \A k, u, x : Has(k, u, x, live', lost', dropped', free', slab', foreign') =>
          \/ Has(k, u, x, live, lost, dropped, free, slab, foreign) /\ ~(k = "dropped" /\ u = t /\ x = b)
          \/ k = "foreign" /\ u = t /\ x = b
    BY <1>1, <1>4, <1>5 DEF Has
  <2>4. \A k, u, x : Has(k, u, x, live, lost, dropped, free, slab, foreign) =>
          \/ Has(k, u, x, live', lost', dropped', free', slab', foreign')
          \/ k = "dropped" /\ u = t /\ x = b
    BY <1>1, <1>2, <1>4, <1>5 DEF Has
  <2> QED
    BY <1>11, <2>1, <2>2, <2>3, <2>4, MoveOne
<1>13. Gives' = Gives
  <2>1. \A x : x \in Gives' <=> x \in Gives
    BY <1>1, <1>2, <1>4, <1>5, GivesIn
  <2> QED
    BY <2>1
<1>14. Tidy'
  <2>1. \A u \in Thread : bytes'[u] = Size(Of(u, Gives', pools))
    BY <1>1, <1>11, <1>13
  <2> QED
    BY <1>1, <1>11, <1>12, <2>1 DEF Tidy, Gives
<1> QED
  BY <1>6, <1>7, <1>8, <1>9, <1>10, <1>14 DEF Sound

(* A freed block is no longer given out.                                      *)
LEMMA DropGives ==
  ASSUME Sound, ~torn, NEW t \in Thread, NEW b \in dropped[t],
         dropped' = [dropped EXCEPT ![t] = {}], UNCHANGED <<live, lost, foreign>>
  PROVE  /\ Gives' = Gives \ {b}
         /\ dropped' \in [Thread -> SUBSET Block] /\ dropped'[t] = {}
         /\ \A u \in Thread \ {t} : dropped'[u] = dropped[u]
<1>1. dropped \in [Thread -> SUBSET Block] /\ Apart(Places)
  BY DEF Sound, Typed, Tidy
<1>2. dropped[t] = {b} /\ b \in Area
  BY DroppedOne
<1>3. /\ dropped' \in [Thread -> SUBSET Block] /\ dropped'[t] = {}
      /\ \A u \in Thread \ {t} : dropped'[u] = dropped[u]
  BY <1>1
<1>4. Has("dropped", t, b, live, lost, dropped, free, slab, foreign)
  BY DEF Has
<1>5. \A k, u : Has(k, u, b, live, lost, dropped, free, slab, foreign) => k = "dropped" /\ u = t
  BY <1>1, <1>2, <1>4, OnePlace
<1>6. /\ b \notin live /\ b \notin lost
      /\ \A u \in Thread : b \notin foreign[u] /\ (b \in dropped[u] => u = t)
  <2>1. Main \in Thread
    BY DEF Thread
  <2>2. b \notin live
    BY <1>5, <2>1 DEF Has
  <2>3. b \notin lost
    BY <1>5, <2>1 DEF Has
  <2>4. \A u \in Thread : b \notin foreign[u]
    BY <1>5 DEF Has
  <2>5. \A u \in Thread : b \in dropped[u] => u = t
    BY <1>5 DEF Has
  <2> QED
    BY <2>2, <2>3, <2>4, <2>5
<1>7. \A x : x \in Gives' <=> x \in Gives /\ x # b
  BY <1>2, <1>3, <1>6, GivesIn
<1>8. Gives' = Gives \ {b}
  BY <1>7
<1> QED
  BY <1>3, <1>8

LEMMA FreeSlabSound ==
  ASSUME Sound, NEW t \in Thread, NEW b \in dropped[t], FreeSlab(t, b)
  PROVE  Sound'
<1>1. /\ slab' = [slab EXCEPT ![t] = @ \cup {b}] /\ dropped' = [dropped EXCEPT ![t] = {}]
      /\ bytes' = [bytes EXCEPT ![t] = @ - 2^b.ord]
      /\ UNCHANGED <<up, pools, free, avail, foreign, live, phase, gc, lost, torn>>
      /\ Typed /\ ~torn /\ t \in up /\ gc = "no" /\ Local(t, b) /\ SlabRoom(t, b)
  BY RunsUp DEF FreeSlab, Sound
<1>2. dropped[t] = {b} /\ b \in Block /\ b \in Area /\ Seated(b, pools, Thread) /\ b \in Gives
  BY DroppedOne
<1>3. Seated(b, pools, {t})
  BY <1>1, <1>2, SoundPools, LocalIs
<1>4. /\ Gives' = Gives \ {b}
      /\ dropped' \in [Thread -> SUBSET Block] /\ dropped'[t] = {}
      /\ \A u \in Thread \ {t} : dropped'[u] = dropped[u]
  BY <1>1, DropGives
<1>5. /\ slab' \in [Thread -> SUBSET Block] /\ slab'[t] = slab[t] \cup {b}
      /\ \A u \in Thread \ {t} : slab'[u] = slab[u]
  BY <1>1, <1>2 DEF Typed
<1>6. Apart(Places) /\ Covered(Places, pools) /\ Merged(free, pools)
      /\ \A u \in Thread : bytes[u] = Size(Of(u, Gives, pools))
  BY <1>1 DEF Sound, Tidy, Gives
<1>7. /\ Size(Of(t, Gives \ {b}, pools)) = Size(Of(t, Gives, pools)) - 2^b.ord
      /\ Size(Of(t, Gives, pools)) - 2^b.ord \in Nat
      /\ \A u \in Thread \ {t} : Of(u, Gives \ {b}, pools) = Of(u, Gives, pools)
  BY <1>1, <1>2, <1>3, SoundPools, GivesType, OfMinus
<1>8. /\ bytes' \in [Thread -> Nat] /\ bytes'[t] = bytes[t] - 2^b.ord
      /\ \A u \in Thread \ {t} : bytes'[u] = bytes[u]
  BY <1>1, <1>6, <1>7 DEF Typed
<1>9. Typed'
  BY <1>1, <1>4, <1>5, <1>8 DEF Typed
<1>10. PoolsApart' /\ AvailExact'
  BY <1>1 DEF Sound, PoolsApart, AvailExact
<1>11. AllSeated'
  BY <1>1, <1>3, <1>4, <1>5 DEF Sound, AllSeated
<1>12. \A i \in 0..SlabMax : Cardinality(OfOrder(slab'[t], i)) <= SlabCap
  <2> TAKE i \in 0..SlabMax
  <2>1. CASE i # b.ord
    <3>1. OfOrder(slab'[t], i) = OfOrder(slab[t], i)
      BY <1>5, <2>1 DEF OfOrder
    <3> QED
      BY <3>1 DEF Sound, Counted
  <2>2. CASE i = b.ord
    <3> DEFINE S == OfOrder(slab[t], i)
    <3>1. OfOrder(slab'[t], i) = S \cup {b} /\ S \subseteq slab[t]
      BY <1>5, <2>2 DEF OfOrder
    <3>2. IsFiniteSet(S) /\ Cardinality(S) < SlabCap
      BY <1>1, <2>2, <3>1, SlabFinite, FS_Subset DEF SlabRoom
    <3> HIDE DEF S
    <3>3. Cardinality(S) \in Nat /\ SlabCap \in Nat
      BY <3>2, FS_CardinalityType, HeapAssumption
    <3>4. Cardinality(S \cup {b}) = Cardinality(S) \/ Cardinality(S \cup {b}) = Cardinality(S) + 1
      BY <3>2, FS_AddElement
    <3> QED
      BY <3>1, <3>2, <3>3, <3>4
  <2> QED
    BY <2>1, <2>2
<1>13. Counted'
  BY <1>1, <1>4, <1>5, <1>12 DEF Sound, Counted
<1>14. Calm'
  <2>1. \A u \in Thread : dropped[u] = {} => dropped'[u] = {}
    BY <1>4
  <2>2. \A u \in Worker \cup {Main} : u \in Thread
    BY DEF Thread
  <2> QED
    BY <1>1, <2>1, <2>2 DEF Sound, Calm
<1>15. Apart(Places') /\ Covered(Places', pools)
  <2>1. Has("dropped", t, b, live, lost, dropped, free, slab, foreign)
    BY DEF Has
  <2>2. Has("slab", t, b, live', lost', dropped', free', slab', foreign')
    BY <1>5 DEF Has
  <2>3. \A k, u, x : Has(k, u, x, live', lost', dropped', free', slab', foreign') =>
          \/ Has(k, u, x, live, lost, dropped, free, slab, foreign) /\ ~(k = "dropped" /\ u = t /\ x = b)
          \/ k = "slab" /\ u = t /\ x = b
    BY <1>1, <1>4, <1>5 DEF Has
  <2>4. \A k, u, x : Has(k, u, x, live, lost, dropped, free, slab, foreign) =>
          \/ Has(k, u, x, live', lost', dropped', free', slab', foreign')
          \/ k = "dropped" /\ u = t /\ x = b
    BY <1>1, <1>2, <1>4, <1>5 DEF Has
  <2> QED
    BY <1>6, <2>1, <2>2, <2>3, <2>4, MoveOne
<1>16. Tidy'
  <2>1. \A u \in Thread : bytes'[u] = Size(Of(u, Gives', pools))
    BY <1>4, <1>6, <1>7, <1>8
  <2> QED
    BY <1>1, <1>6, <1>15, <2>1 DEF Tidy, Gives
<1> QED
  BY <1>9, <1>10, <1>11, <1>13, <1>14, <1>16 DEF Sound

-------------------------------------------------------------------------------
(* heap_coalesce                                                              *)

(* The buddies a block of pool p merges with on its way to order k.           *)
OutOf(b, k, p) == {Buddy(b, j, p) : j \in b.ord..(k - 1)}

LEMMA OutIn ==
  ASSUME NEW b, NEW k, NEW p
  PROVE  \A x : x \in OutOf(b, k, p) <=> \E j \in b.ord..(k - 1) : x = Buddy(b, j, p)
  BY DEF OutOf

(* The loop stops at the first order whose buddy is not free.                 *)
LEMMA TopIs ==
  ASSUME NEW h \in Thread, NEW p, p \in pools[h], NEW b, b.ord \in Nat, p.ord \in Nat, b.ord <= p.ord
  PROVE  LET k == Top(h, b, p)
         IN  /\ k \in b.ord..p.ord
             /\ \A j \in b.ord..(k - 1) : CountZero(Buddy(b, j, p))
             /\ k = p.ord \/ ~CountZero(Buddy(b, k, p))
<1> DEFINE M(j) == Mergeable(h, Buddy(b, j, p), p)
           T == {k \in b.ord..p.ord : k = p.ord \/ ~M(k)}
<1>1. \A j : M(j) <=> CountZero(Buddy(b, j, p))
  BY DEF Mergeable
<1>2. T \in SUBSET Nat /\ T # {}
  <2>1. p.ord \in T
    OBVIOUS
  <2> QED
    BY <2>1
<1>3. \A k : k \in T <=> k \in b.ord..p.ord /\ (k = p.ord \/ ~M(k))
  OBVIOUS
<1> HIDE DEF T
<1>4. PICK k \in T : \A y \in T : k <= y
  BY <1>2, LeastExists
<1>5. k \in b.ord..p.ord /\ (k = p.ord \/ ~M(k)) /\ k \in Nat
  BY <1>2, <1>3, <1>4
<1> HIDE DEF M
<1>6. \A j \in b.ord..(k - 1) : M(j)
  <2> SUFFICES ASSUME NEW j \in b.ord..(k - 1), ~M(j) PROVE FALSE
    OBVIOUS
  <2>1. j \in b.ord..p.ord /\ j \in Nat /\ j < k
    BY <1>5
  <2>2. j \in T
    BY <1>3, <2>1
  <2> QED
    BY <1>4, <1>5, <2>1, <2>2
<1> DEFINE Q(i) == /\ \A j \in b.ord..(i - 1) : M(j)
                   /\ i = p.ord \/ ~M(i)
<1>7. Top(h, b, p) = CHOOSE i \in b.ord..p.ord : Q(i)
  BY DEF Top, M
<1>8. \E i \in b.ord..p.ord : Q(i)
  BY <1>5, <1>6
<1> HIDE DEF Q
<1>9. Top(h, b, p) \in b.ord..p.ord /\ Q(Top(h, b, p))
  BY <1>7, <1>8, Zenon
<1> QED
  BY <1>1, <1>9 DEF Q

(* What heap_coalesce does for a block b of pool p, a pool of h: the buddies  *)
(* taken are blocks of p, and with b they make one block of p whose own buddy *)
(* is not free.                                                               *)
LEMMA CoalesceIs ==
  ASSUME Sound, NEW h \in Thread, NEW p \in pools[h], NEW b \in Block, Fits(b, p)
  PROVE  LET k == Top(h, b, p)
             Out == OutOf(b, k, p)
             I == Span(b, k, p)
         IN  /\ k \in Nat /\ b.ord <= k /\ k < p.ord
             /\ I \in Block /\ I \in Area /\ Fits(I, p) /\ I.ord = k
             /\ \A x \in Out : /\ x \in Block /\ Fits(x, p) /\ CountZero(x)
                               /\ x.ord \in b.ord..(k - 1) /\ ~Meets(x, b)
             /\ ~CountZero(Buddy(I, I.ord, p)) /\ Buddy(I, I.ord, p) # I
             /\ \A c \in Cells(I) : c \in Cells(b) \/ \E x \in Out : c \in Cells(x)
             /\ Cells(b) \subseteq Cells(I) /\ \A x \in Out : Cells(x) \subseteq Cells(I)
<1> DEFINE k == Top(h, b, p)
           Out == OutOf(b, k, p)
           I == Span(b, k, p)
<1>1. b \in Area /\ p \in Area /\ p \in Site /\ b.ord \in Nat /\ p.ord \in Nat /\ b.at \in Nat /\ p.at \in Nat
  BY Areas DEF Sound, Typed, Area
<1>2. p.at <= b.at /\ b.at < p.at + 2^p.ord /\ b.ord < p.ord
  BY <1>1, FitsQuot, FitsInside
<1>3. /\ k \in b.ord..p.ord
      /\ \A j \in b.ord..(k - 1) : CountZero(Buddy(b, j, p))
      /\ k = p.ord \/ ~CountZero(Buddy(b, k, p))
  BY <1>1, <1>2, TopIs
<1> HIDE DEF k
<1>4. k \in Nat /\ b.ord <= k /\ k <= p.ord
  BY <1>1, <1>3
<1>5. ASSUME NEW j \in b.ord..(k - 1)
      PROVE  LET x == Buddy(b, j, p)
             IN  x \in Block /\ x \in Area /\ Fits(x, p) /\ x.ord = j /\ ~Meets(x, b)
  <2> DEFINE x == Buddy(b, j, p)
  <2>1. j \in Nat /\ j + 1 \in Nat /\ j + 1 <= p.ord /\ b.ord <= j
    BY <1>1, <1>4
  <2>2. x \in Area /\ x.ord = j
    BY <1>1, <1>2, <2>1, SpanType
  <2>3. x \in Blocks
    BY <1>3, BlocksIn DEF CountZero
  <2>4. x \in Block /\ Seated(x, pools, Thread)
    BY <2>3, SoundSeats
  <2>5. Cells(x) \subseteq Cells(Span(b, j + 1, p))
    BY <1>1, <1>2, <2>1, SpanUnion
  <2>6. Cells(Span(b, j + 1, p)) \subseteq Cells(p)
    BY <1>1, <1>2, <2>1, SpanInPool
  <2>7. x.at \in Cells(p)
    BY <2>2, <2>5, <2>6, CellsIn
  <2>8. PICK u \in Thread : \E q \in pools[u] : Fits(x, q)
    BY <2>4 DEF Seated
  <2>9. PICK q \in pools[u] : Fits(x, q)
    BY <2>8
  <2>10. q = p
    BY <2>2, <2>7, <2>9, SoundPools, SeatUnique
  <2>11. Cells(Span(b, b.ord, p)) \cap Cells(x) = {} /\ Span(b, b.ord, p) = b
    BY <1>1, <1>2, <2>1, BuddyApart, SpanOwn
  <2> HIDE DEF x
  <2> QED
    BY <2>2, <2>4, <2>9, <2>10, <2>11 DEF x, Meets
<1>6. \A x \in Out : /\ x \in Block /\ Fits(x, p) /\ CountZero(x)
                     /\ x.ord \in b.ord..(k - 1) /\ ~Meets(x, b)
  <2> SUFFICES ASSUME NEW x \in Out
               PROVE  /\ x \in Block /\ Fits(x, p) /\ CountZero(x)
                      /\ x.ord \in b.ord..(k - 1) /\ ~Meets(x, b)
    OBVIOUS
  <2>1. PICK j \in b.ord..(k - 1) : x = Buddy(b, j, p)
    BY OutIn
  <2> QED
    BY <1>3, <1>5, <2>1
<1>7. Fits(I, p)
  <2>1. \A j \in b.ord..(k - 1) : Fits(Buddy(b, j, p), p)
    BY <1>5
  <2> QED
    BY <1>1, <1>4, <2>1, SpanFits
<1>8. I \in Area /\ I.ord = k
  BY <1>1, <1>2, <1>4, SpanType
<1>9. k < p.ord
  BY <1>1, <1>7, <1>8, FitsInside
<1>10. I \in Block
  <2>1. k \in Order
    BY <1>1, <1>4, Areas, HeapAssumption DEF Order
  <2> QED
    BY <1>8, <2>1 DEF Area, Block
<1>11. Buddy(I, I.ord, p) = Buddy(b, k, p)
  BY <1>1, <1>2, <1>4, <1>8, SpanBuddy
<1>12. ~CountZero(Buddy(I, I.ord, p))
  BY <1>3, <1>9, <1>11
<1>13. Buddy(I, I.ord, p) # I
  <2>1. Cells(I) \cap Cells(Buddy(b, k, p)) = {}
    BY <1>1, <1>2, <1>4, BuddyApart
  <2>2. I.at \in Cells(I)
    BY <1>8, CellsIn
  <2> QED
    BY <1>11, <2>1, <2>2
<1>14. /\ \A c \in Cells(I) : c \in Cells(b) \/ \E x \in Out : c \in Cells(x)
       /\ Cells(b) \subseteq Cells(I) /\ \A x \in Out : Cells(x) \subseteq Cells(I)
  <2>1. /\ \A c \in Cells(I) :
             c \in Cells(Span(b, b.ord, p)) \/ \E j \in b.ord..(k - 1) : c \in Cells(Buddy(b, j, p))
        /\ Cells(Span(b, b.ord, p)) \subseteq Cells(I)
        /\ \A j \in b.ord..(k - 1) : Cells(Buddy(b, j, p)) \subseteq Cells(I)
    BY <1>1, <1>2, <1>4, SpanCells
  <2>2. Span(b, b.ord, p) = b
    BY <1>1, SpanOwn
  <2> HIDE DEF I, Out
  <2>3. \A x : x \in Out <=> \E j \in b.ord..(k - 1) : x = Buddy(b, j, p)
    BY OutIn DEF Out
  <2> QED
    BY <2>1, <2>2, <2>3
<1> HIDE DEF I, Out
<1> QED
  BY <1>4, <1>6, <1>7, <1>8, <1>9, <1>10, <1>12, <1>13, <1>14 DEF I, Out, k

(* The freelists and the bits afterwards: only h's own change.                *)
LEMMA CoalesceLists ==
  ASSUME Sound, NEW h \in Thread, NEW p \in pools[h], NEW b \in Block, Fits(b, p),
         heap_coalesce(h, b, p)
  PROVE  LET k == Top(h, b, p)
             Out == OutOf(b, k, p)
             I == Span(b, k, p)
         IN  /\ free' \in [Thread -> SUBSET Block] /\ free'[h] = (free[h] \ Out) \cup {I}
             /\ \A u \in Thread \ {h} : free'[u] = free[u]
             /\ avail' \in [Thread -> SUBSET Order] /\ \A u \in Thread : avail'[u] = Orders(free'[u])
             /\ \A u \in Thread : \A x \in free'[u] : Seated(x, pools, {u})
             /\ torn' \in BOOLEAN
             /\ torn' <=> torn \/ \E x \in Out : \A u \in Thread : x \notin free[u]
<1> DEFINE k == Top(h, b, p)
           Out == OutOf(b, k, p)
           I == Span(b, k, p)
           Rest == free[h] \ Out
<1>1. /\ free' = [t \in Thread |-> (free[t] \ Out) \cup (IF t = h THEN {I} ELSE {})]
      /\ avail' = [avail EXCEPT ![h] = (@ \ (b.ord..(k - 1) \ Orders(Rest))) \cup {k}]
      /\ torn' = (torn \/ \E x \in Out : \A t \in Thread : x \notin free[t])
  BY DEF heap_coalesce, OutOf, Span
<1>2. /\ k \in Nat /\ b.ord <= k /\ k < p.ord
      /\ I \in Block /\ I \in Area /\ Fits(I, p) /\ I.ord = k
      /\ \A x \in Out : x \in Block /\ Fits(x, p) /\ x.ord \in b.ord..(k - 1)
  BY CoalesceIs
<1> HIDE DEF k, Out, I
<1>3. Typed /\ AvailExact /\ PoolsOf(pools)
  BY SoundPools DEF Sound
<1>4. \A u \in Thread \ {h} : \A x \in free[u] : x \notin Out
  <2> SUFFICES ASSUME NEW u \in Thread \ {h}, NEW x \in free[u], x \in Out PROVE FALSE
    OBVIOUS
  <2>1. PICK q \in pools[u] : Fits(x, q)
    BY DEF Sound, AllSeated, Seated
  <2>2. x \in Area /\ Fits(x, p)
    BY <1>2, Areas
  <2> QED
    BY <1>3, <2>1, <2>2, SeatUnique
<1>5. /\ free' \in [Thread -> SUBSET Block] /\ free'[h] = Rest \cup {I}
      /\ \A u \in Thread \ {h} : free'[u] = free[u]
  BY <1>1, <1>2, <1>3, <1>4 DEF Typed
<1>6. \A u \in Thread : \A x \in free'[u] : Seated(x, pools, {u})
  <2>1. Seated(I, pools, {h})
    BY <1>2 DEF Seated
  <2> QED
    BY <1>5, <2>1 DEF Sound, AllSeated
<1>7. (avail[h] \ (b.ord..(k - 1) \ Orders(Rest))) \cup {k} = Orders(Rest \cup {I})
  <2>1. \A j : j \in avail[h] <=> \E x \in free[h] : x.ord = j
    BY <1>3, OrdersIn DEF AvailExact
  <2>2. \A j : j \in Orders(Rest) <=> \E x \in Rest : x.ord = j
    BY OrdersIn
  <2>3. \A j : j \in Orders(Rest) => j \in avail[h]
    BY <2>1, <2>2
  <2>4. \A j \in avail[h] : j \in Orders(Rest) \/ j \in b.ord..(k - 1)
    <3> TAKE j \in avail[h]
    <3>1. PICK x \in free[h] : x.ord = j
      BY <2>1
    <3>2. CASE x \in Out
      BY <1>2, <3>1, <3>2
    <3>3. CASE x \notin Out
      BY <2>2, <3>1, <3>3
    <3> QED
      BY <3>2, <3>3
  <2>5. Orders(Rest \cup {I}) = Orders(Rest) \cup {k}
    BY <1>2 DEF Orders
  <2> DEFINE J == b.ord..(k - 1)
             O == Orders(Rest)
             A0 == avail[h]
  <2>6. (\A j : j \in O => j \in A0) /\ \A j \in A0 : j \in O \/ j \in J
    BY <2>3, <2>4
  <2> HIDE DEF J, O, A0
  <2>7. A0 \ (J \ O) = O
    BY <2>6
  <2> QED
    BY <2>5, <2>7 DEF J, O, A0
<1>8. avail' = [avail EXCEPT ![h] = Orders(free'[h])]
  BY <1>1, <1>5, <1>7
<1>9. avail' \in [Thread -> SUBSET Order] /\ \A u \in Thread : avail'[u] = Orders(free'[u])
  <2>1. Orders(free'[h]) \subseteq Order
    BY <1>5, OrdersIn, Areas
  <2> QED
    BY <1>3, <1>5, <1>8, <2>1 DEF Typed, AvailExact
<1>10. torn' \in BOOLEAN /\ (torn' <=> torn \/ \E x \in Out : \A u \in Thread : x \notin free[u])
  BY <1>1, <1>3 DEF Typed
<1> QED
  BY <1>5, <1>6, <1>9, <1>10 DEF k, Out, I

(* Coalescing is complete.                                                    *)
LEMMA CoalesceMerged ==
  ASSUME Sound, ~torn, NEW h \in Thread, NEW p \in pools[h], NEW b \in Block, Fits(b, p),
         heap_coalesce(h, b, p)
  PROVE  Merged(free', pools)
<1> DEFINE k == Top(h, b, p)
           Out == OutOf(b, k, p)
           I == Span(b, k, p)
           New == {I}
<1>1. I \in Area /\ Fits(I, p) /\ ~CountZero(Buddy(I, I.ord, p)) /\ Buddy(I, I.ord, p) # I
  BY CoalesceIs
<1>2. /\ free' \in [Thread -> SUBSET Block] /\ free'[h] = (free[h] \ Out) \cup {I}
      /\ \A u \in Thread \ {h} : free'[u] = free[u]
  BY CoalesceLists
<1> HIDE DEF k, Out, I
<1>3. Typed /\ PoolsOf(pools) /\ Merged(free, pools)
  BY SoundPools DEF Sound, Tidy
<1>4. \A u \in Thread : \A x \in free'[u] : x \in free[u] \/ x \in New
  BY <1>2
<1>5. ASSUME NEW z \in New, NEW v \in Thread, NEW s \in pools[v], NEW u \in Thread, NEW y \in free'[u],
             Fits(z, s), Fits(y, s), Buddy(z, z.ord, s) = y
      PROVE  FALSE
  <2>1. s = p
    BY <1>1, <1>3, <1>5, SeatUnique
  <2>2. y # I /\ ~CountZero(y)
    BY <1>1, <1>5, <2>1
  <2>3. y \in free[u]
    BY <1>4, <2>2
  <2> QED
    BY <2>2, <2>3 DEF CountZero
<1> HIDE DEF New
<1>6. pools \in [Thread -> SUBSET Site]
  BY <1>3 DEF Typed
<1> QED
  BY <1>2, <1>3, <1>4, <1>5, <1>6, MergedMore

(* ... and the block it makes takes the place of those it is made of, unless  *)
(* one of them was on no list.                                                *)
LEMMA CoalesceTiled ==
  ASSUME Sound, ~torn, ~torn', NEW h \in Thread, NEW p \in pools[h], NEW b \in Block, Fits(b, p),
         heap_coalesce(h, b, p), NEW k0, NEW u0, k0 # "free",
         Has(k0, u0, b, live, lost, dropped, free, slab, foreign),
         \A k, u, x : k # "free" => (Has(k, u, x, live', lost', dropped', free', slab', foreign') <=>
           Has(k, u, x, live, lost, dropped, free, slab, foreign) /\ ~(k = k0 /\ u = u0 /\ x = b))
  PROVE  Apart(Places') /\ Covered(Places', pools)
<1> DEFINE Out == OutOf(b, Top(h, b, p), p)
           I == Span(b, Top(h, b, p), p)
           R == {<<k0, u0, b>>} \cup {<<"free", h, x>> : x \in Out}
           N == {<<"free", h, I>>}
<1>1. /\ \A x \in Out : x \in Block /\ Fits(x, p)
      /\ \A c \in Cells(I) : c \in Cells(b) \/ \E x \in Out : c \in Cells(x)
      /\ Cells(b) \subseteq Cells(I) /\ \A x \in Out : Cells(x) \subseteq Cells(I)
  BY CoalesceIs
<1>2. /\ free'[h] = (free[h] \ Out) \cup {I}
      /\ \A u \in Thread \ {h} : free'[u] = free[u]
      /\ torn' <=> torn \/ \E x \in Out : \A u \in Thread : x \notin free[u]
  BY CoalesceLists
<1> HIDE DEF Out, I
<1>3. \A x \in Out : x \in free[h]
  <2> SUFFICES ASSUME NEW x \in Out PROVE x \in free[h]
    OBVIOUS
  <2>1. PICK u \in Thread : x \in free[u]
    BY <1>2
  <2>2. PICK q \in pools[u] : Fits(x, q)
    BY <2>1 DEF Sound, AllSeated, Seated
  <2>3. u = h
    BY <1>1, <2>2, Areas, SoundPools, SeatUnique
  <2> QED
    BY <2>1, <2>3
<1>4. \A e \in R : (e = <<k0, u0, b>> /\ e[3] = b) \/ \E x \in Out : e = <<"free", h, x>> /\ e[3] = x
  OBVIOUS
<1>5. \A k, u, x : <<k, u, x>> \in R <=> (k = k0 /\ u = u0 /\ x = b) \/ (k = "free" /\ u = h /\ x \in Out)
  OBVIOUS
<1>6. \A k, u, x : <<k, u, x>> \in N <=> k = "free" /\ u = h /\ x = I
  OBVIOUS
<1>7. R \subseteq PlacesOf(live, lost, dropped, free, slab, foreign)
  <2>1. \A x \in Out : Has("free", h, x, live, lost, dropped, free, slab, foreign)
    BY <1>3 DEF Has
  <2> QED
    BY <2>1, PlaceHas
<1>8. N \subseteq PlacesOf(live', lost', dropped', free', slab', foreign')
  <2>1. Has("free", h, I, live', lost', dropped', free', slab', foreign')
    BY <1>2 DEF Has
  <2> QED
    BY <2>1, PlaceHas
<1>9. SameCells(R, N)
  <2>1. \A e \in N : e = <<"free", h, I>> /\ e[3] = I
    OBVIOUS
  <2>2. <<k0, u0, b>> \in R /\ <<k0, u0, b>>[3] = b /\ \A x \in Out : <<"free", h, x>> \in R /\ <<"free", h, x>>[3] = x
    OBVIOUS
  <2>3. <<"free", h, I>> \in N /\ <<"free", h, I>>[3] = I
    OBVIOUS
  <2> HIDE DEF R, N
  <2>4. \A e \in N : \A c \in Cells(e[3]) : \E r \in R : c \in Cells(r[3])
    BY <1>1, <2>1, <2>2
  <2>5. \A r \in R : \A c \in Cells(r[3]) : \E e \in N : c \in Cells(e[3])
    BY <1>1, <1>4, <2>3
  <2> QED
    BY <2>1, <2>4, <2>5 DEF SameCells
<1> HIDE DEF R, N
<1>10. ASSUME NEW k, NEW u, NEW x, Has(k, u, x, live', lost', dropped', free', slab', foreign')
       PROVE  \/ Has(k, u, x, live, lost, dropped, free, slab, foreign) /\ <<k, u, x>> \notin R
              \/ <<k, u, x>> \in N
  <2>1. CASE k # "free"
    BY <1>5, <1>10, <2>1
  <2>2. CASE k = "free"
    <3>1. u \in Thread /\ x \in free'[u]
      BY <1>10, <2>2 DEF Has
    <3>2. u # h => x \in free[u]
      BY <1>2, <3>1
    <3>3. u = h => x = I \/ (x \in free[h] /\ x \notin Out)
      BY <1>2, <3>1
    <3> QED
      BY <1>5, <1>6, <2>2, <3>1, <3>2, <3>3 DEF Has
  <2> QED
    BY <2>1, <2>2
<1>11. ASSUME NEW k, NEW u, NEW x, Has(k, u, x, live, lost, dropped, free, slab, foreign)
       PROVE  \/ Has(k, u, x, live', lost', dropped', free', slab', foreign')
              \/ <<k, u, x>> \in R
  <2>1. CASE k # "free"
    BY <1>5, <1>11, <2>1
  <2>2. CASE k = "free"
    <3>1. u \in Thread /\ x \in free[u]
      BY <1>11, <2>2 DEF Has
    <3>2. x \in free'[u] \/ (u = h /\ x \in Out)
      BY <1>2, <3>1
    <3> QED
      BY <1>5, <2>2, <3>1, <3>2 DEF Has
  <2> QED
    BY <2>1, <2>2
<1>12. Moves(live, lost, dropped, free, slab, foreign,
             live', lost', dropped', free', slab', foreign', R, N)
  BY <1>7, <1>8, <1>10, <1>11 DEF Moves
<1>13. Apart(Places) /\ Covered(Places, pools)
  BY DEF Sound, Tidy
<1> QED
  BY <1>9, <1>12, <1>13, StepTiled

(* The step of a block that leaves its place for the freelists.               *)
LEMMA CoalesceSound ==
  ASSUME Sound, ~torn, NEW h \in Thread, NEW p \in pools[h], NEW b \in Block, Fits(b, p),
         heap_coalesce(h, b, p), NEW k0, NEW u0, k0 # "free",
         Has(k0, u0, b, live, lost, dropped, free, slab, foreign),
         \A k, u, x : k # "free" => (Has(k, u, x, live', lost', dropped', free', slab', foreign') <=>
           Has(k, u, x, live, lost, dropped, free, slab, foreign) /\ ~(k = k0 /\ u = u0 /\ x = b)),
         Typed', AllSeated', Counted', Calm', UNCHANGED pools,
         \A u \in Thread : bytes'[u] = Size(Of(u, Gives', pools))
  PROVE  Sound'
<1>1. AvailExact'
  BY CoalesceLists DEF AvailExact
<1>2. PoolsApart'
  BY DEF Sound, PoolsApart
<1>3. Merged(free', pools)
  BY CoalesceMerged
<1>4. ~torn' => Apart(Places') /\ Covered(Places', pools)
  BY CoalesceTiled
<1>5. Tidy'
  BY <1>3, <1>4 DEF Tidy, Gives
<1> QED
  BY <1>1, <1>2, <1>5 DEF Sound

LEMMA FreeLocalSound ==
  ASSUME Sound, NEW t \in Thread, NEW b \in dropped[t], FreeLocal(t, b)
  PROVE  Sound'
<1>1. /\ dropped' = [dropped EXCEPT ![t] = {}]
      /\ bytes' = [bytes EXCEPT ![t] = @ - 2^b.ord]
      /\ UNCHANGED <<up, pools, slab, foreign, live, phase, gc, lost>>
      /\ Typed /\ ~torn /\ t \in up /\ gc = "no" /\ Local(t, b) /\ (phase = "seq" => t = Main)
  BY RunsUp DEF FreeLocal, Sound
<1>2. dropped[t] = {b} /\ b \in Block /\ b \in Area /\ Seated(b, pools, Thread) /\ b \in Gives
  BY DroppedOne
<1>3. Seated(b, pools, {t})
  BY <1>1, <1>2, SoundPools, LocalIs
<1>4. PICK p \in pools[t] : Fits(b, p)
  BY <1>3 DEF Seated
<1>5. heap_coalesce(t, b, p)
  <2>1. PoolOf(b) = p
    BY <1>2, <1>4, SoundPools, PoolOfIs
  <2> QED
    BY <2>1 DEF FreeLocal
<1> DEFINE k == Top(t, b, p)
           Out == OutOf(b, k, p)
<1>6. /\ free' \in [Thread -> SUBSET Block] /\ avail' \in [Thread -> SUBSET Order]
      /\ \A u \in Thread : \A x \in free'[u] : Seated(x, pools, {u})
      /\ torn' \in BOOLEAN
      /\ torn' <=> torn \/ \E x \in Out : \A u \in Thread : x \notin free[u]
  BY <1>2, <1>4, <1>5, CoalesceLists
<1>7. \A x \in Out : CountZero(x) /\ ~Meets(x, b)
  BY <1>2, <1>4, CoalesceIs
<1> HIDE DEF k, Out
<1>8. /\ Gives' = Gives \ {b}
      /\ dropped' \in [Thread -> SUBSET Block] /\ dropped'[t] = {}
      /\ \A u \in Thread \ {t} : dropped'[u] = dropped[u]
  BY <1>1, DropGives
<1>9. \A u \in Thread : bytes[u] = Size(Of(u, Gives, pools))
  BY <1>1 DEF Sound, Tidy, Gives
<1>10. /\ Size(Of(t, Gives \ {b}, pools)) = Size(Of(t, Gives, pools)) - 2^b.ord
       /\ Size(Of(t, Gives, pools)) - 2^b.ord \in Nat
       /\ \A u \in Thread \ {t} : Of(u, Gives \ {b}, pools) = Of(u, Gives, pools)
  BY <1>1, <1>2, <1>3, SoundPools, GivesType, OfMinus
<1>11. /\ bytes' \in [Thread -> Nat] /\ bytes'[t] = bytes[t] - 2^b.ord
       /\ \A u \in Thread \ {t} : bytes'[u] = bytes[u]
  BY <1>1, <1>9, <1>10 DEF Typed
<1>12. Typed'
  BY <1>1, <1>6, <1>8, <1>11 DEF Typed
<1>13. AllSeated'
  BY <1>1, <1>6, <1>8 DEF Sound, AllSeated
<1>14. Counted'
  BY <1>1, <1>8 DEF Sound, Counted
<1>15. torn' => phase # "seq" /\ \E u \in Thread : dropped'[u] # {}
  <2> SUFFICES ASSUME torn' PROVE phase # "seq" /\ \E u \in Thread : dropped'[u] # {}
    OBVIOUS
  <2>1. PICK x \in Out : \A u \in Thread : x \notin free[u]
    BY <1>1, <1>6
  <2>2. PICK u \in Thread : x \in dropped[u]
    BY <1>7, <2>1 DEF CountZero
  <2>3. x # b
    BY <1>2, <1>7, <2>1, SelfMeets
  <2>4. u # t
    BY <1>2, <2>2, <2>3
  <2>5. dropped'[u] # {}
    BY <1>8, <2>2, <2>4
  <2>6. phase # "seq"
    <3>1. ASSUME phase = "seq" PROVE FALSE
      <4>1. u \in Worker
        BY <1>1, <2>4, <3>1 DEF Thread
      <4> QED
        BY <2>2, <3>1, <4>1 DEF Sound, Calm
    <3> QED
      BY <3>1
  <2> QED
    BY <2>5, <2>6
<1>16. Calm'
  <2>1. \A u \in Thread : dropped[u] = {} => dropped'[u] = {}
    BY <1>8
  <2>2. \A u \in Worker \cup {Main} : u \in Thread
    BY DEF Thread
  <2> QED
    BY <1>1, <1>15, <2>1, <2>2 DEF Sound, Calm
<1>17. Has("dropped", t, b, live, lost, dropped, free, slab, foreign)
  BY DEF Has
<1>18. \A l, u, x : l # "free" => (Has(l, u, x, live', lost', dropped', free', slab', foreign') <=>
         Has(l, u, x, live, lost, dropped, free, slab, foreign) /\ ~(l = "dropped" /\ u = t /\ x = b))
  BY <1>1, <1>2, <1>8 DEF Has
<1>19. \A u \in Thread : bytes'[u] = Size(Of(u, Gives', pools))
  BY <1>8, <1>9, <1>10, <1>11
<1> QED
  BY <1>1, <1>2, <1>4, <1>5, <1>12, <1>13, <1>14, <1>16, <1>17, <1>18, <1>19, CoalesceSound, ZenonT(30)

-------------------------------------------------------------------------------
(* ray_heap_gc                                                                *)

(* Between dispatches and outside ray_release no block is on its way.         *)
LEMMA GcCalm ==
  ASSUME Sound, gc # "no"
  PROVE  phase = "seq" /\ ~torn /\ \A t \in Thread : dropped[t] = {}
  BY DEF Sound, Calm, Thread

(* Then what is free is on a list, and nothing is torn.                       *)
LEMMA GcCoalesce ==
  ASSUME Sound, gc # "no", NEW h \in Thread, NEW p \in pools[h], NEW b \in Block, Fits(b, p),
         heap_coalesce(h, b, p)
  PROVE  /\ free' \in [Thread -> SUBSET Block] /\ avail' \in [Thread -> SUBSET Order]
         /\ \A u \in Thread : \A x \in free'[u] : Seated(x, pools, {u})
         /\ torn' = FALSE
<1> DEFINE k == Top(h, b, p)
           Out == OutOf(b, k, p)
<1>1. /\ free' \in [Thread -> SUBSET Block] /\ avail' \in [Thread -> SUBSET Order]
      /\ \A u \in Thread : \A x \in free'[u] : Seated(x, pools, {u})
      /\ torn' \in BOOLEAN
      /\ torn' <=> torn \/ \E x \in Out : \A u \in Thread : x \notin free[u]
  BY CoalesceLists
<1>2. \A x \in Out : CountZero(x)
  BY CoalesceIs
<1> HIDE DEF k, Out
<1>3. \A x \in Out : \E u \in Thread : x \in free[u]
  BY <1>2, GcCalm DEF CountZero
<1> QED
  BY <1>1, <1>3, GcCalm

LEMMA GcForeignSound ==
  ASSUME Sound, GcForeign
  PROVE  Sound'
<1>1. PICK b \in foreign[Main] :
        /\ foreign' = [foreign EXCEPT ![Main] = @ \ {b}]
        /\ bytes' = [bytes EXCEPT ![Owner(PoolOf(b))] = @ - 2^b.ord]
        /\ heap_coalesce(Owner(PoolOf(b)), b, PoolOf(b))
  BY DEF GcForeign
<1>2. /\ UNCHANGED <<up, pools, slab, live, dropped, phase, lost>> /\ gc # "no" /\ gc' = gc
      /\ Typed /\ Main \in Thread
  BY DEF GcForeign, Gc, Sound, Thread
<1>3. phase = "seq" /\ ~torn /\ \A t \in Thread : dropped[t] = {}
  BY <1>2, GcCalm
<1>4. b \in Block /\ b \in Area /\ b \in Gives
  BY <1>2, Areas, GivesIn DEF Typed
<1>5. PICK o \in Thread \ {Main} : \E p \in pools[o] : Fits(b, p)
  BY <1>2 DEF Sound, AllSeated, Seated
<1>6. PICK p \in pools[o] : Fits(b, p)
  BY <1>5
<1>7. Seated(b, pools, {o})
  BY <1>6 DEF Seated
<1>8. PoolOf(b) = p /\ Owner(p) = o
  BY <1>4, <1>6, SoundPools, PoolOfIs
<1>9. heap_coalesce(o, b, p) /\ bytes' = [bytes EXCEPT ![o] = @ - 2^b.ord]
  BY <1>1, <1>8
<1>10. /\ free' \in [Thread -> SUBSET Block] /\ avail' \in [Thread -> SUBSET Order]
       /\ \A u \in Thread : \A x \in free'[u] : Seated(x, pools, {u})
       /\ torn' = FALSE
  BY <1>2, <1>4, <1>6, <1>9, GcCoalesce
<1>11. /\ foreign' \in [Thread -> SUBSET Block] /\ foreign'[Main] = foreign[Main] \ {b}
       /\ \A u \in Thread \ {Main} : foreign'[u] = foreign[u]
  BY <1>1, <1>2 DEF Typed
<1>12. Apart(Places) /\ \A u \in Thread : bytes[u] = Size(Of(u, Gives, pools))
  BY <1>3 DEF Sound, Tidy, Gives
<1>13. Has("foreign", Main, b, live, lost, dropped, free, slab, foreign)
  BY <1>2 DEF Has
<1>14. Gives' = Gives \ {b}
  <2>1. \A k, u : Has(k, u, b, live, lost, dropped, free, slab, foreign) => k = "foreign" /\ u = Main
    BY <1>4, <1>12, <1>13, OnePlace
  <2>2. b \notin live /\ b \notin lost
    BY <1>2, <2>1 DEF Has
  <2>3. \A u \in Thread : b \in foreign[u] => u = Main
    BY <2>1 DEF Has
  <2>4. \A x : x \in Gives' <=> x \in Gives /\ x # b
    BY <1>2, <1>3, <1>11, <2>2, <2>3, GivesIn
  <2> QED
    BY <2>4
<1>15. /\ Size(Of(o, Gives \ {b}, pools)) = Size(Of(o, Gives, pools)) - 2^b.ord
       /\ Size(Of(o, Gives, pools)) - 2^b.ord \in Nat
       /\ \A u \in Thread \ {o} : Of(u, Gives \ {b}, pools) = Of(u, Gives, pools)
  BY <1>2, <1>4, <1>7, SoundPools, GivesType, OfMinus, ZenonT(30)
<1>16. /\ bytes' \in [Thread -> Nat] /\ bytes'[o] = bytes[o] - 2^b.ord
       /\ \A u \in Thread \ {o} : bytes'[u] = bytes[u]
  BY <1>2, <1>9, <1>12, <1>15 DEF Typed
<1>17. Typed'
  BY <1>2, <1>10, <1>11, <1>16 DEF Typed
<1>18. AllSeated'
  BY <1>2, <1>10, <1>11 DEF Sound, AllSeated
<1>19. Counted'
  BY <1>2, <1>11 DEF Sound, Counted
<1>20. Calm'
  BY <1>2, <1>3, <1>10 DEF Sound, Calm
<1>21. \A k, u, x : k # "free" => (Has(k, u, x, live', lost', dropped', free', slab', foreign') <=>
         Has(k, u, x, live, lost, dropped, free, slab, foreign) /\ ~(k = "foreign" /\ u = Main /\ x = b))
  BY <1>2, <1>11 DEF Has
<1>22. \A u \in Thread : bytes'[u] = Size(Of(u, Gives', pools))
  BY <1>12, <1>14, <1>15, <1>16
<1> QED
  BY <1>2, <1>3, <1>4, <1>6, <1>9, <1>13, <1>17, <1>18, <1>19, <1>20, <1>21, <1>22, CoalesceSound

LEMMA GcSlabSound ==
  ASSUME Sound, GcSlab
  PROVE  Sound'
<1>1. PICK b \in slab[Main] :
        slab' = [slab EXCEPT ![Main] = @ \ {b}] /\ heap_coalesce(Main, b, PoolOf(b))
  BY DEF GcSlab
<1>2. /\ UNCHANGED <<up, pools, foreign, bytes, live, dropped, phase, lost>> /\ gc # "no" /\ gc' = gc
      /\ Typed /\ Main \in Thread
  BY DEF GcSlab, Gc, Sound, Thread
<1>3. phase = "seq" /\ ~torn /\ \A t \in Thread : dropped[t] = {}
  BY <1>2, GcCalm
<1>4. b \in Block /\ b \in Area
  BY <1>2, Areas DEF Typed
<1>5. PICK p \in pools[Main] : Fits(b, p)
  BY <1>2 DEF Sound, AllSeated, Seated
<1>6. PoolOf(b) = p
  BY <1>2, <1>4, <1>5, SoundPools, PoolOfIs
<1>7. heap_coalesce(Main, b, p)
  BY <1>1, <1>6
<1>8. /\ free' \in [Thread -> SUBSET Block] /\ avail' \in [Thread -> SUBSET Order]
      /\ \A u \in Thread : \A x \in free'[u] : Seated(x, pools, {u})
      /\ torn' = FALSE
  BY <1>2, <1>4, <1>5, <1>7, GcCoalesce
<1>9. /\ slab' \in [Thread -> SUBSET Block] /\ slab'[Main] = slab[Main] \ {b}
      /\ \A u \in Thread \ {Main} : slab'[u] = slab[u]
      /\ \A u \in Thread : slab'[u] \subseteq slab[u]
  BY <1>1, <1>2 DEF Typed
<1>10. Typed'
  BY <1>2, <1>8, <1>9 DEF Typed
<1>11. AllSeated'
  BY <1>2, <1>8, <1>9 DEF Sound, AllSeated
<1>12. Counted'
  <2>1. \A u \in Thread : \A i \in 0..SlabMax : Cardinality(OfOrder(slab'[u], i)) <= SlabCap
    BY <1>9, SlabFinite, FewerSlabs DEF Sound, Counted
  <2> QED
    BY <1>2, <2>1 DEF Sound, Counted
<1>13. Calm'
  BY <1>2, <1>3, <1>8 DEF Sound, Calm
<1>14. Has("slab", Main, b, live, lost, dropped, free, slab, foreign)
  BY <1>2 DEF Has
<1>15. \A k, u, x : k # "free" => (Has(k, u, x, live', lost', dropped', free', slab', foreign') <=>
         Has(k, u, x, live, lost, dropped, free, slab, foreign) /\ ~(k = "slab" /\ u = Main /\ x = b))
  BY <1>2, <1>9 DEF Has
<1>16. \A u \in Thread : bytes'[u] = Size(Of(u, Gives', pools))
  <2>1. Gives' = Gives
    BY <1>2 DEF Gives, Given
  <2>2. \A u \in Thread : bytes[u] = Size(Of(u, Gives, pools))
    BY <1>3 DEF Sound, Tidy, Gives
  <2> QED
    BY <1>2, <2>1, <2>2
<1> QED
  BY <1>2, <1>3, <1>4, <1>5, <1>7, <1>10, <1>11, <1>12, <1>13, <1>14, <1>15, <1>16, CoalesceSound

(* A pool that goes takes its blocks with it and leaves the others tiled.     *)
LEMMA Shrink ==
  ASSUME NEW P, NEW Q \in SUBSET P, NEW pl, NEW pl2, PoolsOf(pl),
         \A u \in Thread : pl2[u] \subseteq pl[u], Apart(P), Covered(P, pl),
         \A e \in P : e \in Q \/ \E v \in Thread : \E q \in pl[v] :
                                   q \notin pl2[v] /\ Cells(e[3]) \subseteq Cells(q)
  PROVE  Apart(Q) /\ Covered(Q, pl2)
<1>1. Apart(Q)
  BY DEF Apart
<1>2. Covered(Q, pl2)
  <2> SUFFICES ASSUME NEW u \in Thread, NEW s \in pl2[u], NEW c \in Cells(s), c # s.at
               PROVE  \E e \in Q : c \in Cells(e[3])
    BY DEF Covered
  <2>1. s \in pl[u]
    OBVIOUS
  <2>2. PICK e \in P : c \in Cells(e[3])
    BY <2>1 DEF Covered
  <2>3. ASSUME NEW v \in Thread, NEW q \in pl[v], q \notin pl2[v], Cells(e[3]) \subseteq Cells(q)
        PROVE  FALSE
    <3>1. Meets(q, s)
      BY <2>2, <2>3 DEF Meets
    <3> QED
      BY <2>1, <2>3, <3>1 DEF PoolsOf
  <2> QED
    BY <2>2, <2>3
<1> QED
  BY <1>1, <1>2

(* When the free and the cached blocks of a pool add up to its size, no other *)
(* block lies in it: ray_heap_gc may unmap it.                                *)
LEMMA ReclaimAll ==
  ASSUME Sound, ~torn, NEW h \in Thread, NEW p \in pools[h], Reclaimable(h, p),
         NEW k, NEW u, NEW y, Has(k, u, y, live, lost, dropped, free, slab, foreign), Fits(y, p)
  PROVE  u = h /\ ((k = "free" /\ y \in Inside(free[h], p)) \/ (k = "slab" /\ y \in Inside(slab[h], p)))
<1> DEFINE F == Inside(free[h], p)
           G == Inside(slab[h], p)
           S == F \cup G
           C == UNION {Cells(b) : b \in S}
           D == Cells(p) \ {p.at}
<1>1. Typed /\ PoolsOf(pools) /\ Apart(Places) /\ p \in Area /\ p.ord \in Nat /\ p.at \in Nat
  BY SoundPools, Areas DEF Sound, Tidy, Typed, Area
<1>2. F \subseteq free[h] /\ G \subseteq slab[h] /\ \A x \in S : x.at \in Cells(p)
  BY DEF Inside
<1>3. IsFiniteSet(F) /\ IsFiniteSet(G) /\ F \in SUBSET Area /\ G \in SUBSET Area
  BY <1>1, <1>2, SlabFinite, FS_Subset, Areas DEF Typed
<1>4. \A x \in S : Fits(x, p) /\ x \in Area
  <2> SUFFICES ASSUME NEW x \in S PROVE Fits(x, p)
    BY <1>3
  <2>1. x \in Area /\ x.at \in Cells(p)
    BY <1>2, <1>3
  <2>2. PICK q \in pools[h] : Fits(x, q)
    BY <1>2 DEF Sound, AllSeated, Seated
  <2> QED
    BY <1>1, <2>1, <2>2, SeatUnique
<1> HIDE DEF F, G
<1>5. F \cap G = {}
  <2> SUFFICES ASSUME NEW x \in F, x \in G PROVE FALSE
    OBVIOUS
  <2>1. /\ Has("free", h, x, live, lost, dropped, free, slab, foreign)
        /\ Has("slab", h, x, live, lost, dropped, free, slab, foreign)
    BY <1>2 DEF Has
  <2>2. "free" = "slab"
    BY <1>1, <1>4, <2>1, OnePlace
  <2> QED
    BY <2>2
<1>6. \A x, z \in S : Meets(x, z) => x = z
  <2> SUFFICES ASSUME NEW x \in S, NEW z \in S, Meets(x, z) PROVE x = z
    OBVIOUS
  <2>1. PICK i \in {"free", "slab"} : <<i, h, x>> \in Places
    BY <1>2, PlaceOf
  <2>2. PICK j \in {"free", "slab"} : <<j, h, z>> \in Places
    BY <1>2, PlaceOf
  <2>3. <<i, h, x>>[3] = x /\ <<j, h, z>>[3] = z
    OBVIOUS
  <2>4. <<i, h, x>> = <<j, h, z>>
    BY <1>1, <2>1, <2>2, <2>3 DEF Apart
  <2> QED
    BY <2>3, <2>4
<1>7. IsFiniteSet(S) /\ S \in SUBSET Area
  BY <1>3, FS_Union
<1>8. Size(S) = Size(F) + Size(G)
  BY <1>3, <1>5, SizeUnion
<1> HIDE DEF S
<1>9. IsFiniteSet(C) /\ Cardinality(C) = Size(S)
  BY <1>6, <1>7, SizeCells
<1>10. Size(F) + Size(G) >= 2^p.ord - 1
  BY DEF Reclaimable, F, G
<1>11. C \subseteq D
  <2>1. \A x \in S : Cells(x) \subseteq D
    BY <1>1, <1>4, FitsInside
  <2> QED
    BY <2>1
<1>12. IsFiniteSet(D) /\ Cardinality(D) = 2^p.ord - 1
  <2>1. IsFiniteSet(Cells(p)) /\ Cardinality(Cells(p)) = 2^p.ord /\ p.at \in Cells(p)
    BY <1>1, CellsFinite, CellsIn
  <2> QED
    BY <2>1, FS_RemoveElement
<1>13. C = D
  <2> HIDE DEF C, D
  <2>1. Cardinality(C) <= Cardinality(D) /\ (Cardinality(D) = Cardinality(C) => D = C)
    BY <1>11, <1>12, FS_Subset
  <2>2. Cardinality(C) \in Nat /\ Cardinality(D) \in Nat
    BY <1>9, <1>12, FS_CardinalityType
  <2>3. Cardinality(C) >= Cardinality(D)
    BY <1>8, <1>9, <1>10, <1>12
  <2> QED
    BY <2>1, <2>2, <2>3
<1>14. <<k, u, y>> \in Places
  BY PlacesAre, PlaceHas
<1>15. y \in Area
  <2>1. <<k, u, y>>[3] = y
    OBVIOUS
  <2>2. y \in Blocks
    BY <1>14, <2>1 DEF Blocks
  <2> QED
    BY <2>2, SoundSeats
<1>16. y.at \in D /\ y.at \in Cells(y)
  BY <1>1, <1>15, FitsInside, CellsIn
<1>17. PICK x \in S : y.at \in Cells(x)
  BY <1>13, <1>16
<1>18. Meets(x, y)
  BY <1>16, <1>17 DEF Meets
<1>19. PICK i \in {"free", "slab"} : <<i, h, x>> \in Places /\ (i = "free" => x \in F) /\ (i = "slab" => x \in G)
  BY <1>2, <1>17, PlaceOf DEF S
<1>20. <<i, h, x>> = <<k, u, y>>
  <2>1. <<i, h, x>>[3] = x /\ <<k, u, y>>[3] = y
    OBVIOUS
  <2> QED
    BY <1>1, <1>14, <1>18, <1>19, <2>1 DEF Apart
<1>21. i = k /\ u = h /\ x = y
  BY <1>20
<1> QED
  BY <1>19, <1>21 DEF F, G

(* A block whose pool stays keeps its seat.                                   *)
LEMMA SeatStays ==
  ASSUME NEW pl, NEW pl2, NEW T \in SUBSET Thread, NEW x, Seated(x, pl, T),
         \A u \in Thread : \A q \in pl[u] : Fits(x, q) => q \in pl2[u]
  PROVE  Seated(x, pl2, T)
  BY DEF Seated

LEMMA GcReclaimSound ==
  ASSUME Sound, NEW h \in Thread, NEW p \in Mapped, GcReclaim(h, p)
  PROVE  Sound'
<1> DEFINE F == Inside(free[h], p)
           G == Inside(slab[h], p)
<1>1. /\ gc # "no" /\ gc' = gc /\ p \in pools[h] /\ Reclaimable(h, p)
      /\ pools' = [pools EXCEPT ![h] = @ \ {p}]
      /\ free' = [free EXCEPT ![h] = @ \ F] /\ slab' = [slab EXCEPT ![h] = @ \ G]
      /\ avail' = [avail EXCEPT ![h] = @ \ (Orders(F) \ Orders(free[h] \ F))]
      /\ UNCHANGED <<up, foreign, bytes, live, dropped, phase, lost, torn>>
      /\ Typed /\ AvailExact
  BY DEF GcReclaim, Gc, Reclaimable, Sound, Typed
<1>2. phase = "seq" /\ ~torn /\ \A t \in Thread : dropped[t] = {}
  BY <1>1, GcCalm
<1>3. /\ F \subseteq free[h] /\ G \subseteq slab[h]
      /\ \A x \in free[h] \ F : x.at \notin Cells(p)
      /\ \A x \in slab[h] \ G : x.at \notin Cells(p)
      /\ \A x \in F \cup G : x.at \in Cells(p)
  BY DEF Inside
<1>4. p \in Area /\ p \in Site /\ PoolsOf(pools)
  BY <1>1, Areas, SoundPools DEF Typed
<1>5. \A k, u, y : Has(k, u, y, live, lost, dropped, free, slab, foreign) /\ Fits(y, p) =>
        u = h /\ ((k = "free" /\ y \in F) \/ (k = "slab" /\ y \in G))
  BY <1>1, <1>2, ReclaimAll
<1> HIDE DEF F, G
<1>6. /\ pools' \in [Thread -> SUBSET Site] /\ pools'[h] = pools[h] \ {p}
      /\ \A u \in Thread \ {h} : pools'[u] = pools[u]
      /\ \A u \in Thread : pools'[u] \subseteq pools[u]
  BY <1>1 DEF Typed
<1>7. /\ free' \in [Thread -> SUBSET Block] /\ free'[h] = free[h] \ F
      /\ \A u \in Thread \ {h} : free'[u] = free[u]
      /\ \A u \in Thread : free'[u] \subseteq free[u]
  BY <1>1 DEF Typed
<1>8. /\ slab' \in [Thread -> SUBSET Block] /\ slab'[h] = slab[h] \ G
      /\ \A u \in Thread \ {h} : slab'[u] = slab[u]
      /\ \A u \in Thread : slab'[u] \subseteq slab[u]
  BY <1>1 DEF Typed
<1>9. avail[h] \ (Orders(F) \ Orders(free[h] \ F)) = Orders(free[h] \ F)
  <2>1. \A j : j \in avail[h] <=> \E x \in free[h] : x.ord = j
    BY <1>1, OrdersIn DEF AvailExact
  <2>2. \A j : j \in Orders(F) <=> \E x \in F : x.ord = j
    BY OrdersIn
  <2>3. \A j : j \in Orders(free[h] \ F) <=> \E x \in free[h] \ F : x.ord = j
    BY OrdersIn
  <2> DEFINE J == Orders(F)
             K == Orders(free[h] \ F)
  <2>4. \A j : j \in avail[h] <=> j \in J \/ j \in K
    BY <1>3, <2>1, <2>2, <2>3
  <2> HIDE DEF J, K
  <2>5. avail[h] \ (J \ K) = K
    BY <2>4
  <2> QED
    BY <2>5 DEF J, K
<1>10. avail' \in [Thread -> SUBSET Order] /\ \A u \in Thread : avail'[u] = Orders(free'[u])
  <2>1. avail' = [avail EXCEPT ![h] = Orders(free'[h])]
    BY <1>1, <1>7, <1>9
  <2>2. Orders(free'[h]) \subseteq Order
    BY <1>7, OrdersIn, Areas
  <2>3. avail \in [Thread -> SUBSET Order] /\ \A u \in Thread \ {h} : avail[u] = Orders(free'[u])
    BY <1>1, <1>7 DEF Typed, AvailExact
  <2>4. /\ avail'[h] = Orders(free'[h]) /\ avail' \in [Thread -> SUBSET Order]
        /\ \A u \in Thread \ {h} : avail'[u] = avail[u]
    BY <2>1, <2>2, <2>3
  <2> QED
    BY <2>3, <2>4
<1>11. Typed'
  BY <1>1, <1>6, <1>7, <1>8, <1>10 DEF Typed
<1>12. PoolsApart'
  <2>1. \A u \in Thread : IsFiniteSet(pools'[u]) /\ Cardinality(pools'[u]) <= MaxPools
    <3> TAKE u \in Thread
    <3>1. IsFiniteSet(pools[u]) /\ Cardinality(pools[u]) <= MaxPools
      BY DEF Sound, PoolsApart
    <3>2. IsFiniteSet(pools'[u]) /\ Cardinality(pools'[u]) <= Cardinality(pools[u])
      BY <1>6, <3>1, FS_Subset
    <3>3. Cardinality(pools'[u]) \in Nat /\ Cardinality(pools[u]) \in Nat /\ MaxPools \in Nat
      BY <3>1, <3>2, FS_CardinalityType, HeapAssumption
    <3> QED
      BY <3>1, <3>2, <3>3
  <2> QED
    BY <1>6, <2>1 DEF Sound, PoolsApart
<1>13. AvailExact'
  BY <1>10 DEF AvailExact
<1>14. Counted'
  <2>1. \A u \in Thread : \A i \in 0..SlabMax : Cardinality(OfOrder(slab'[u], i)) <= SlabCap
    BY <1>8, SlabFinite, FewerSlabs DEF Sound, Counted
  <2>2. \A u \in Thread : u \notin up => pools'[u] = {}
    BY <1>6 DEF Sound, Counted
  <2> QED
    BY <1>1, <2>1, <2>2 DEF Sound, Counted
<1>15. Calm'
  BY <1>1 DEF Sound, Calm
<1>16. ASSUME NEW x, ~Fits(x, p), NEW u \in Thread, NEW q \in pools[u], Fits(x, q)
       PROVE  q \in pools'[u]
  BY <1>6, <1>16
<1>17. \A x \in Gives : ~Fits(x, p)
  <2> SUFFICES ASSUME NEW x \in Gives, Fits(x, p) PROVE FALSE
    OBVIOUS
  <2>1. \E k \in {"live", "lost", "dropped", "foreign"} : \E u \in Thread :
          Has(k, u, x, live, lost, dropped, free, slab, foreign)
    BY GivesIn DEF Has, Thread
  <2> QED
    BY <1>5, <2>1
<1>18. \A u \in Thread : \A x \in free'[u] \cup slab'[u] : ~Fits(x, p)
  <2> SUFFICES ASSUME NEW u \in Thread, NEW x \in free'[u] \cup slab'[u], Fits(x, p) PROVE FALSE
    OBVIOUS
  <2>1. x \in free[u] \cup slab[u] /\ x \in Area
    BY <1>1, <1>7, <1>8, Areas DEF Typed
  <2>2. x.at \in Cells(p)
    BY <1>4, <2>1, FitsInside
  <2>3. u # h
    BY <1>3, <1>7, <1>8, <2>2
  <2>4. \/ Has("free", u, x, live, lost, dropped, free, slab, foreign)
        \/ Has("slab", u, x, live, lost, dropped, free, slab, foreign)
    BY <2>1 DEF Has
  <2> QED
    BY <1>5, <2>3, <2>4
<1>19. AllSeated'
  <2>1. \A u \in Thread : {u} \in SUBSET Thread /\ Thread \ {u} \in SUBSET Thread
    OBVIOUS
  <2>2. \A x \in live \cup lost : Seated(x, pools', Thread)
    <3> TAKE x \in live \cup lost
    <3>1. ~Fits(x, p) /\ Seated(x, pools, Thread)
      BY <1>17, GivesIn DEF Sound, AllSeated
    <3> QED
      BY <1>16, <3>1, SeatStays
  <2>3. \A u \in Thread : \A x \in foreign[u] : Seated(x, pools', Thread \ {u})
    <3> SUFFICES ASSUME NEW u \in Thread, NEW x \in foreign[u] PROVE Seated(x, pools', Thread \ {u})
      OBVIOUS
    <3>1. ~Fits(x, p) /\ Seated(x, pools, Thread \ {u})
      BY <1>17, GivesIn DEF Sound, AllSeated
    <3> QED
      BY <1>16, <2>1, <3>1, SeatStays
  <2>4. \A u \in Thread : \A x \in free'[u] \cup slab'[u] : Seated(x, pools', {u})
    <3> SUFFICES ASSUME NEW u \in Thread, NEW x \in free'[u] \cup slab'[u] PROVE Seated(x, pools', {u})
      OBVIOUS
    <3>1. ~Fits(x, p) /\ Seated(x, pools, {u})
      BY <1>7, <1>8, <1>18 DEF Sound, AllSeated
    <3> QED
      BY <1>16, <2>1, <3>1, SeatStays
  <2> QED
    BY <1>1, <1>2, <2>2, <2>3, <2>4 DEF AllSeated
<1>20. Apart(Places) /\ Covered(Places, pools) /\ Merged(free, pools)
       /\ \A u \in Thread : bytes[u] = Size(Of(u, Gives, pools))
  BY <1>2 DEF Sound, Tidy, Gives
<1>21. Apart(Places') /\ Covered(Places', pools')
  <2> DEFINE P == PlacesOf(live, lost, dropped, free, slab, foreign)
             Q == PlacesOf(live', lost', dropped', free', slab', foreign')
  <2>1. Places = P /\ Places' = Q
    BY DEF Places, PlacesOf
  <2>2. ASSUME NEW e \in Q PROVE e \in P
    <3>1. PICK k, u, x : e = <<k, u, x>> /\ Has(k, u, x, live', lost', dropped', free', slab', foreign')
      BY <2>2, PlaceHas
    <3>2. Has(k, u, x, live, lost, dropped, free, slab, foreign)
      BY <1>1, <1>7, <1>8, <3>1 DEF Has
    <3> QED
      BY <3>1, <3>2, PlaceHas
  <2>3. ASSUME NEW e \in P, e \notin Q PROVE p \notin pools'[h] /\ Cells(e[3]) \subseteq Cells(p)
    <3>1. PICK k, u, x : e = <<k, u, x>> /\ Has(k, u, x, live, lost, dropped, free, slab, foreign)
      BY <2>3, PlaceHas
    <3>2. ~Has(k, u, x, live', lost', dropped', free', slab', foreign')
      BY <2>3, <3>1, PlaceHas
    <3>3. u = h /\ x \in F \cup G
      BY <1>1, <1>7, <1>8, <3>1, <3>2 DEF Has
    <3>4. x \in Area /\ x.at \in Cells(p) /\ Seated(x, pools, {h})
      BY <1>1, <1>3, <3>3, Areas DEF Typed, Sound, AllSeated
    <3>5. Fits(x, p)
      <4>1. PICK q \in pools[h] : Fits(x, q)
        BY <3>4 DEF Seated
      <4> QED
        BY <1>1, <1>4, <3>4, <4>1, SeatUnique
    <3>6. Cells(x) \subseteq Cells(p)
      BY <1>4, <3>4, <3>5, FitsInside
    <3>7. e[3] = x
      BY <3>1
    <3> QED
      BY <1>6, <3>6, <3>7
  <2>4. Apart(P) /\ Covered(P, pools)
    BY <1>20, <2>1
  <2> HIDE DEF P, Q
  <2>5. Q \in SUBSET P
    BY <2>2
  <2>6. \A e \in P : e \in Q \/ \E v \in Thread : \E q \in pools[v] :
                                  q \notin pools'[v] /\ Cells(e[3]) \subseteq Cells(q)
    BY <1>1, <2>3
  <2>7. Apart(Q) /\ Covered(Q, pools')
    BY <1>4, <1>6, <2>4, <2>5, <2>6, Shrink
  <2> QED
    BY <2>1, <2>7
<1>22. Merged(free', pools')
  BY <1>6, <1>7, <1>20 DEF Merged
<1>23. \A u \in Thread : bytes'[u] = Size(Of(u, Gives', pools'))
  <2>1. Gives' = Gives
    BY <1>1 DEF Gives, Given
  <2>2. \A u \in Thread : Of(u, Gives, pools') = Of(u, Gives, pools)
    <3> TAKE u \in Thread
    <3>1. \A x \in Gives : Seated(x, pools', {u}) <=> Seated(x, pools, {u})
      BY <1>6, <1>16, <1>17 DEF Seated
    <3> QED
      BY <3>1 DEF Of
  <2> QED
    BY <1>1, <1>20, <2>1, <2>2
<1>24. Tidy'
  BY <1>21, <1>22, <1>23 DEF Tidy, Gives
<1> QED
  BY <1>11, <1>12, <1>13, <1>14, <1>15, <1>19, <1>24 DEF Sound

-------------------------------------------------------------------------------
(* Dispatch, ray_heap_init and ray_heap_destroy                               *)

LEMMA HeapDestroySound ==
  ASSUME Sound, NEW t \in Worker, HeapDestroy(t)
  PROVE  Sound'
<1>1. /\ phase = "seq" /\ gc = "no" /\ dropped[Main] = {} /\ \A b \in live : ~Local(t, b)
      /\ up' = up \ {t}
      /\ foreign' = [u \in Thread |-> IF u = t THEN {} ELSE {b \in foreign[u] : ~Local(t, b)}]
      /\ lost' = {b \in lost : ~Local(t, b)} \cup foreign[t]
      /\ pools' = [pools EXCEPT ![t] = {}] /\ free' = [free EXCEPT ![t] = {}]
      /\ avail' = [avail EXCEPT ![t] = {}] /\ slab' = [slab EXCEPT ![t] = {}]
      /\ bytes' = [bytes EXCEPT ![t] = 0]
      /\ UNCHANGED <<live, dropped, phase, gc, torn>>
  BY DEF HeapDestroy
<1>2. Typed /\ AvailExact /\ t \in Thread /\ Main \in Thread /\ t # Main /\ PoolsOf(pools)
  BY HeapAssumption, SoundPools DEF Sound, Thread
<1>3. ~torn /\ \A u \in Thread : dropped[u] = {}
  BY <1>1 DEF Sound, Calm, Thread
<1>4. /\ pools' \in [Thread -> SUBSET Site] /\ pools'[t] = {}
      /\ \A u \in Thread \ {t} : pools'[u] = pools[u]
      /\ \A u \in Thread : pools'[u] \subseteq pools[u]
  BY <1>1, <1>2 DEF Typed
<1>5. /\ free' \in [Thread -> SUBSET Block] /\ free'[t] = {}
      /\ \A u \in Thread \ {t} : free'[u] = free[u]
      /\ \A u \in Thread : free'[u] \subseteq free[u]
  BY <1>1, <1>2 DEF Typed
<1>6. /\ slab' \in [Thread -> SUBSET Block] /\ slab'[t] = {}
      /\ \A u \in Thread \ {t} : slab'[u] = slab[u]
      /\ \A u \in Thread : slab'[u] \subseteq slab[u]
  BY <1>1, <1>2 DEF Typed
<1>7. /\ foreign' \in [Thread -> SUBSET Block] /\ foreign'[t] = {}
      /\ \A u \in Thread \ {t} : foreign'[u] = {b \in foreign[u] : ~Local(t, b)}
      /\ \A u \in Thread : foreign'[u] \subseteq foreign[u]
  BY <1>1, <1>2 DEF Typed
<1>8. /\ avail' \in [Thread -> SUBSET Order] /\ avail'[t] = {}
      /\ \A u \in Thread \ {t} : avail'[u] = avail[u]
  BY <1>1, <1>2 DEF Typed
<1>9. /\ bytes' \in [Thread -> Nat] /\ bytes'[t] = 0
      /\ \A u \in Thread \ {t} : bytes'[u] = bytes[u]
  BY <1>1, <1>2 DEF Typed
<1>10. Typed'
  <2>1. up' \subseteq Thread /\ Main \in up' /\ lost' \subseteq Block
    BY <1>1, <1>2 DEF Typed
  <2> QED
    BY <1>1, <1>2, <1>4, <1>5, <1>6, <1>7, <1>8, <1>9, <2>1 DEF Typed
<1>11. PoolsApart'
  <2>1. \A u \in Thread : IsFiniteSet(pools'[u]) /\ Cardinality(pools'[u]) <= MaxPools
    <3>1. IsFiniteSet({}) /\ Cardinality({}) <= MaxPools
      BY FS_EmptySet, HeapAssumption
    <3> QED
      BY <1>4, <3>1 DEF Sound, PoolsApart
  <2> QED
    BY <1>4, <2>1 DEF Sound, PoolsApart
<1>12. AvailExact'
  <2>1. Orders({}) = {}
    BY DEF Orders
  <2> QED
    BY <1>2, <1>5, <1>8, <2>1 DEF AvailExact
<1>13. Counted'
  <2>1. \A u \in Thread : \A i \in 0..SlabMax : Cardinality(OfOrder(slab'[u], i)) <= SlabCap
    BY <1>6, SlabFinite, FewerSlabs DEF Sound, Counted
  <2>2. \A u \in Thread : u \notin up' => pools'[u] = {} /\ foreign'[u] = {} /\ dropped'[u] = {}
    BY <1>1, <1>3, <1>4, <1>7 DEF Sound, Counted
  <2> QED
    BY <1>1, <2>1, <2>2 DEF Sound, Counted
<1>14. Calm'
  BY <1>1 DEF Sound, Calm
<1>15. \A x \in Blocks : x \in Area /\ Seated(x, pools, Thread) /\ (Local(t, x) <=> Seated(x, pools, {t}))
  BY <1>2, SoundSeats, LocalIs
<1>16. ASSUME NEW x, ~Seated(x, pools, {t}), NEW T \in SUBSET Thread, Seated(x, pools, T)
       PROVE  Seated(x, pools', T)
  BY <1>4, <1>16 DEF Seated
<1>17. \A x \in live' \cup lost' : x \in Blocks /\ ~Seated(x, pools, {t})
  <2>1. \A x \in live : x \in Blocks /\ ~Seated(x, pools, {t})
    BY <1>1, <1>15, BlocksIn
  <2>2. \A x \in lost : x \in Blocks /\ (~Local(t, x) => ~Seated(x, pools, {t}))
    BY <1>15, BlocksIn
  <2>3. \A x \in foreign[t] : x \in Blocks /\ ~Seated(x, pools, {t})
    <3> TAKE x \in foreign[t]
    <3>1. x \in Blocks
      BY <1>2, BlocksIn
    <3>2. Seated(x, pools, Thread \ {t})
      BY <1>2 DEF Sound, AllSeated
    <3>3. PICK v \in Thread \ {t} : Seated(x, pools, {v})
      BY <3>2 DEF Seated
    <3> QED
      BY <1>2, <1>15, <3>1, <3>3, SeatApart
  <2> QED
    BY <1>1, <2>1, <2>2, <2>3
<1>18. \A u \in Thread : \A x \in foreign'[u] : x \in Blocks /\ ~Seated(x, pools, {t})
  BY <1>7, <1>15, BlocksIn
<1>19. AllSeated'
  <2>1. \A x \in live' \cup lost' : Seated(x, pools', Thread)
    BY <1>15, <1>16, <1>17
  <2>2. \A u \in Thread : \A x \in foreign'[u] : Seated(x, pools', Thread \ {u})
    <3> SUFFICES ASSUME NEW u \in Thread, NEW x \in foreign'[u] PROVE Seated(x, pools', Thread \ {u})
      OBVIOUS
    <3>1. Seated(x, pools, Thread \ {u}) /\ Thread \ {u} \in SUBSET Thread
      BY <1>7 DEF Sound, AllSeated
    <3> QED
      BY <1>16, <1>18, <3>1
  <2>3. \A u \in Thread : \A x \in free'[u] \cup slab'[u] : Seated(x, pools', {u})
    <3> SUFFICES ASSUME NEW u \in Thread, NEW x \in free'[u] \cup slab'[u] PROVE Seated(x, pools', {u})
      OBVIOUS
    <3>1. u # t /\ Seated(x, pools, {u})
      BY <1>5, <1>6 DEF Sound, AllSeated
    <3> QED
      BY <1>4, <3>1 DEF Seated
  <2> QED
    BY <1>1, <1>3, <2>1, <2>2, <2>3 DEF AllSeated
<1>20. Apart(Places) /\ Covered(Places, pools) /\ Merged(free, pools)
       /\ \A u \in Thread : bytes[u] = Size(Of(u, Gives, pools))
  BY <1>3 DEF Sound, Tidy, Gives
<1>21. Merged(free', pools')
  BY <1>4, <1>5, <1>20 DEF Merged
<1>22. Apart(Places') /\ Covered(Places', pools')
  <2> DEFINE ls == lost \cup foreign[t]
             fo == [foreign EXCEPT ![t] = {}]
             R == {<<"foreign", t, b>> : b \in foreign[t]}
             N == {<<"lost", Main, b>> : b \in foreign[t]}
             P == PlacesOf(live, lost, dropped, free, slab, foreign)
             M == PlacesOf(live, ls, dropped, free, slab, fo)
             Q == PlacesOf(live', lost', dropped', free', slab', foreign')
  <2>1. Places = P /\ Places' = Q
    BY DEF Places, PlacesOf
  <2>2. Apart(P) /\ Covered(P, pools)
    BY <1>20, <2>1
  <2>3. fo[t] = {} /\ \A u \in Thread \ {t} : fo[u] = foreign[u]
    BY <1>2 DEF Typed
  <2>4. /\ \A e \in R : e[3] \in foreign[t] /\ e = <<"foreign", t, e[3]>>
        /\ \A e \in N : e[3] \in foreign[t] /\ e = <<"lost", Main, e[3]>>
        /\ \A b \in foreign[t] : /\ <<"foreign", t, b>> \in R /\ <<"foreign", t, b>>[3] = b
                                 /\ <<"lost", Main, b>> \in N /\ <<"lost", Main, b>>[3] = b
    OBVIOUS
  <2>5. \A k, u, x : <<k, u, x>> \in R <=> k = "foreign" /\ u = t /\ x \in foreign[t]
    OBVIOUS
  <2>6. \A k, u, x : <<k, u, x>> \in N <=> k = "lost" /\ u = Main /\ x \in foreign[t]
    OBVIOUS
  <2> HIDE DEF R, N, fo
  <2>7. R \subseteq P
    <3>1. \A e \in R : <<"foreign", t, e[3]>> \in P
      BY <1>2, <2>4, PlacesIn
    <3> QED
      BY <2>4, <3>1
  <2>8. N \subseteq M
    <3>1. \A e \in N : <<"lost", Main, e[3]>> \in M
      BY <2>4, PlacesIn
    <3> QED
      BY <2>4, <3>1
  <2>9. SameCells(R, N)
    <3>1. ASSUME NEW e \in N, NEW g \in N, Meets(e[3], g[3]) PROVE e = g
      <4>1. <<"foreign", t, e[3]>> \in P /\ <<"foreign", t, g[3]>> \in P
        BY <2>4, <2>7
      <4>2. <<"foreign", t, e[3]>>[3] = e[3] /\ <<"foreign", t, g[3]>>[3] = g[3]
        OBVIOUS
      <4>3. <<"foreign", t, e[3]>> = <<"foreign", t, g[3]>>
        BY <2>2, <3>1, <4>1, <4>2 DEF Apart
      <4>4. e[3] = g[3]
        BY <4>3
      <4> QED
        BY <2>4, <4>4
    <3>2. \A e \in N : \A c \in Cells(e[3]) : \E r \in R : c \in Cells(r[3])
      BY <2>4
    <3>3. \A r \in R : \A c \in Cells(r[3]) : \E e \in N : c \in Cells(e[3])
      BY <2>4
    <3> QED
      BY <3>1, <3>2, <3>3 DEF SameCells
  <2>10. \A k, u, x : Has(k, u, x, live, ls, dropped, free, slab, fo) =>
           (Has(k, u, x, live, lost, dropped, free, slab, foreign) /\ <<k, u, x>> \notin R) \/ <<k, u, x>> \in N
    BY <2>3, <2>5, <2>6 DEF Has
  <2>11. \A k, u, x : Has(k, u, x, live, lost, dropped, free, slab, foreign) =>
           Has(k, u, x, live, ls, dropped, free, slab, fo) \/ <<k, u, x>> \in R
    BY <2>3, <2>5 DEF Has
  <2>12. Moves(live, lost, dropped, free, slab, foreign, live, ls, dropped, free, slab, fo, R, N)
    BY <2>7, <2>8, <2>10, <2>11 DEF Moves
  <2>13. Apart(M) /\ Covered(M, pools)
    BY <2>2, <2>9, <2>12, Rehouse
  <2>14. ASSUME NEW e \in Q PROVE e \in M
    <3>1. PICK k, u, x : e = <<k, u, x>> /\ Has(k, u, x, live', lost', dropped', free', slab', foreign')
      BY <2>14, PlaceHas
    <3>2. Has(k, u, x, live, ls, dropped, free, slab, fo)
      <4>1. CASE k = "foreign"
        <5>1. u \in Thread /\ x \in foreign'[u]
          BY <3>1, <4>1 DEF Has
        <5>2. x \in fo[u]
          BY <1>7, <2>3, <5>1
        <5> QED
          BY <4>1, <5>1, <5>2 DEF Has
      <4>2. CASE k # "foreign"
        BY <1>1, <1>5, <1>6, <3>1, <4>2 DEF Has
      <4> QED
        BY <4>1, <4>2
    <3> QED
      BY <3>1, <3>2, PlaceHas
  <2>15. ASSUME NEW e \in M, e \notin Q
         PROVE  \E q \in pools[t] : q \notin pools'[t] /\ Cells(e[3]) \subseteq Cells(q)
    <3>1. PICK k, u, x : e = <<k, u, x>> /\ Has(k, u, x, live, ls, dropped, free, slab, fo)
      BY <2>15, PlaceHas
    <3>2. ~Has(k, u, x, live', lost', dropped', free', slab', foreign')
      BY <2>15, <3>1, PlaceHas
    <3>3. /\ u \in Thread
          /\ \/ u = t /\ x \in free[t] \cup slab[t]
             \/ x \in lost /\ Local(t, x)
             \/ x \in foreign[u] /\ Local(t, x)
      <4>1. CASE k = "foreign"
        BY <1>7, <2>3, <3>1, <3>2, <4>1 DEF Has
      <4>2. CASE k = "lost"
        BY <1>1, <3>1, <3>2, <4>2 DEF Has
      <4>3. CASE k \in {"free", "slab"}
        BY <1>5, <1>6, <3>1, <3>2, <4>3 DEF Has
      <4>4. CASE k \in {"live", "dropped"}
        BY <1>1, <3>1, <3>2, <4>4 DEF Has
      <4> QED
        BY <3>1, <4>1, <4>2, <4>3, <4>4 DEF Has
    <3>4. x \in Blocks
      BY <3>3, BlocksIn
    <3>5. Seated(x, pools, {t})
      BY <1>2, <1>15, <3>3, <3>4 DEF Sound, AllSeated
    <3>6. PICK q \in pools[t] : Cells(x) \subseteq Cells(q)
      <4>1. {t} \in SUBSET Thread /\ x \in Area
        BY <1>2, <1>15, <3>4
      <4>2. \E v \in {t} : \E q \in pools[v] : Fits(x, q) /\ Cells(x) \subseteq Cells(q) /\ x.at \in Cells(q)
        BY <1>2, <3>5, <4>1, SeatInside
      <4> QED
        BY <4>2
    <3>7. e[3] = x
      BY <3>1
    <3> QED
      BY <1>4, <3>6, <3>7
  <2> HIDE DEF P, M, Q
  <2>16. Q \in SUBSET M
    BY <2>14
  <2>17. \A e \in M : e \in Q \/ \E v \in Thread : \E q \in pools[v] :
                                   q \notin pools'[v] /\ Cells(e[3]) \subseteq Cells(q)
    BY <1>2, <2>15
  <2>18. Apart(Q) /\ Covered(Q, pools')
    BY <1>2, <1>4, <2>13, <2>16, <2>17, Shrink
  <2> QED
    BY <2>1, <2>18
<1>23. \A u \in Thread : bytes'[u] = Size(Of(u, Gives', pools'))
  <2>1. bytes'[t] = Size(Of(t, Gives', pools'))
    <3>1. Of(t, Gives', pools') = {}
      BY <1>4 DEF Of, Seated
    <3> QED
      BY <1>9, <3>1, SizeNone
  <2>2. ASSUME NEW u \in Thread \ {t} PROVE Of(u, Gives', pools') = Of(u, Gives, pools)
    <3>1. \A x : Seated(x, pools', {u}) <=> Seated(x, pools, {u})
      BY <1>4 DEF Seated
    <3>2. \A x \in Gives' : x \in Gives
      BY <1>1, <1>2, <1>3, <1>7, GivesIn
    <3>3. ASSUME NEW x \in Gives, Seated(x, pools, {u}) PROVE x \in Gives'
      <4>1. x \in Blocks
        BY GivesIn, BlocksIn
      <4>2. ~Seated(x, pools, {t})
        BY <1>2, <1>15, <3>3, <4>1, SeatApart
      <4>3. ~Local(t, x)
        BY <1>15, <4>1, <4>2
      <4>4. x \in live \/ x \in lost \/ \E v \in Thread : x \in foreign[v]
        BY <1>3, GivesIn
      <4>5. x \in live' \/ x \in lost' \/ \E v \in Thread : x \in foreign'[v]
        BY <1>1, <1>7, <4>3, <4>4
      <4> QED
        BY <4>5, GivesIn
    <3> QED
      BY <3>1, <3>2, <3>3 DEF Of
  <2> QED
    BY <1>9, <1>20, <2>1, <2>2
<1>24. Tidy'
  BY <1>21, <1>22, <1>23 DEF Tidy, Gives
<1> QED
  BY <1>10, <1>11, <1>12, <1>13, <1>14, <1>19, <1>24 DEF Sound

(* Steps of ray_pool_dispatch, of ray_heap_init and between the passes of     *)
(* ray_heap_gc change no list.                                                *)
LEMMA QuietSound ==
  ASSUME Sound,
         \/ GcBegin \/ GcForeignDone \/ GcSlabDone \/ GcDone \/ Open \/ Flag \/ Close
         \/ \E t \in Worker : HeapInit(t)
  PROVE  Sound'
<1>1. Typed /\ Calm
  BY DEF Sound
<1>2. CASE GcBegin
  <2>1. Calm'
    BY <1>1, <1>2 DEF GcBegin, Gc, Calm
  <2> QED
    BY <1>1, <1>2, <2>1, SameLists DEF GcBegin, Gc, Typed
<1>3. CASE GcForeignDone
  <2>1. Calm'
    BY <1>1, <1>3 DEF GcForeignDone, Gc, Calm
  <2> QED
    BY <1>1, <1>3, <2>1, SameLists DEF GcForeignDone, Gc, Typed
<1>4. CASE GcSlabDone
  <2>1. Calm'
    BY <1>1, <1>4 DEF GcSlabDone, Gc, Calm
  <2> QED
    BY <1>1, <1>4, <2>1, SameLists DEF GcSlabDone, Gc, Typed
<1>5. CASE GcDone
  <2>1. Calm'
    BY <1>1, <1>5 DEF GcDone, Gc, Calm
  <2> QED
    BY <1>1, <1>5, <2>1, SameLists DEF GcDone, Gc, Typed
<1>6. CASE Open
  <2>1. Calm'
    BY <1>1, <1>6 DEF Open, Calm
  <2> QED
    BY <1>1, <1>6, <2>1, SameLists DEF Open, Typed
<1>7. CASE Flag
  <2>1. Calm'
    BY <1>1, <1>7 DEF Flag, Calm
  <2> QED
    BY <1>1, <1>7, <2>1, SameLists DEF Flag, Typed
<1>8. CASE Close
  <2>1. Calm'
    BY <1>1, <1>8 DEF Close, Calm, Thread
  <2> QED
    BY <1>1, <1>8, <2>1, SameLists DEF Close, Typed
<1>9. ASSUME NEW t \in Worker, HeapInit(t) PROVE Sound'
  <2>1. Calm'
    BY <1>1, <1>9 DEF HeapInit, Calm
  <2>2. up' \subseteq Thread /\ Main \in up' /\ up \subseteq up'
    BY <1>1, <1>9 DEF HeapInit, Typed, Thread
  <2> QED
    BY <1>1, <1>9, <2>1, <2>2, SameLists DEF HeapInit, Typed
<1> QED
  BY <1>2, <1>3, <1>4, <1>5, <1>6, <1>7, <1>8, <1>9

LEMMA StutterSound ==
  ASSUME Sound, UNCHANGED vars
  PROVE  Sound'
<1>1. Calm' /\ Typed
  BY DEF Sound, Calm, vars
<1> QED
  BY <1>1, SameLists DEF vars, Typed

-------------------------------------------------------------------------------
(* The theorems                                                               *)

LEMMA InitSound ==
  ASSUME Init
  PROVE  Sound
<1>1. /\ \A t \in Thread : pools[t] = {} /\ free[t] = {} /\ avail[t] = {} /\ slab[t] = {}
                           /\ foreign[t] = {} /\ bytes[t] = 0 /\ dropped[t] = {}
      /\ live = {} /\ lost = {} /\ up = {Main} /\ phase = "seq" /\ gc = "no" /\ torn = FALSE
  BY DEF Init
<1>2. Typed
  BY <1>1 DEF Init, Typed, Thread
<1>3. PoolsApart
  BY <1>1, FS_EmptySet, HeapAssumption DEF PoolsApart
<1>4. AllSeated /\ Calm
  BY <1>1 DEF AllSeated, Calm, Thread
<1>5. AvailExact
  BY <1>1 DEF AvailExact, Orders
<1>6. Counted
  <2>1. \A o : OfOrder({}, o) = {}
    BY DEF OfOrder
  <2>2. Cardinality({}) <= SlabCap
    BY FS_EmptySet, HeapAssumption
  <2>3. \A t \in Thread : \A o \in 0..SlabMax : Cardinality(OfOrder(slab[t], o)) <= SlabCap
    BY <1>1, <2>1, <2>2
  <2> QED
    BY <1>1, <2>3 DEF Counted
<1>7. Tidy
  <2>1. Places = {}
    BY <1>1, PlacesAre, PlacesIn
  <2>2. Gives = {}
    BY <1>1, GivesIn
  <2>3. \A t \in Thread : Of(t, Gives, pools) = {}
    BY <2>2 DEF Of
  <2>4. \A t \in Thread : bytes[t] = Size(Of(t, Gives, pools))
    BY <1>1, <2>3, SizeNone
  <2>5. Apart(Places) /\ Covered(Places, pools) /\ Merged(free, pools)
    BY <1>1, <2>1 DEF Apart, Covered, Merged
  <2> QED
    BY <2>4, <2>5 DEF Tidy, Gives
<1> QED
  BY <1>2, <1>3, <1>4, <1>5, <1>6, <1>7 DEF Sound

LEMMA NextSound ==
  ASSUME Sound, [Next]_vars
  PROVE  Sound'
<1>1. CASE UNCHANGED vars
  BY <1>1, StutterSound
<1>2. ASSUME NEW t \in Thread, NEW o \in Req, Alloc(t, o) PROVE Sound'
  BY <1>2, AllocSlabSound, AllocFreeSound, AllocGrowSound, AllocFailSound DEF Alloc
<1>3. ASSUME NEW t \in Thread, NEW b \in live, Release(t, b) PROVE Sound'
  BY <1>3, ReleaseSound
<1>4. ASSUME NEW t \in Thread, NEW b \in dropped[t], Free(t, b) PROVE Sound'
  BY <1>4, FreeForeignSound, FreeSlabSound, FreeLocalSound DEF Free
<1>5. CASE Collect
  <2>1. ASSUME NEW h \in Thread, NEW p \in Mapped, GcReclaim(h, p) PROVE Sound'
    BY <2>1, GcReclaimSound
  <2> QED
    BY <1>5, <2>1, QuietSound, GcForeignSound, GcSlabSound DEF Collect
<1>6. CASE Open \/ Flag \/ Close
  BY <1>6, QuietSound
<1>7. ASSUME NEW t \in Worker, HeapInit(t) \/ HeapDestroy(t) PROVE Sound'
  BY <1>7, QuietSound, HeapDestroySound
<1>8. CASE Stopped
  BY <1>8, StutterSound DEF Stopped
<1> QED
  BY <1>1, <1>2, <1>3, <1>4, <1>5, <1>6, <1>7, <1>8 DEF Next

(* The inductive invariant holds, whatever the threads and the pools.         *)
THEOREM HeapInvCorrect == Spec => []Sound
<1>1. Init => Sound
  BY InitSound
<1>2. Sound /\ [Next]_vars => Sound'
  BY NextSound
<1> QED
  BY <1>1, <1>2, PTL DEF Spec

(* heap.c keeps blocks at home, its bits and byte counts exact and nothing    *)
(* left unmerged.                                                             *)
THEOREM HeapLists == Spec => []ListsExact
<1>1. Sound => ListsExact
  BY SoundLists
<1> QED
  BY <1>1, HeapInvCorrect, PTL

(* No min-block is handed out twice and none disappears.                      *)
THEOREM HeapTiled == Spec => []Tiled
<1>1. Sound => Tiled
  BY SoundTiled
<1> QED
  BY <1>1, HeapInvCorrect, PTL

(* ray_heap_gc and ray_heap_destroy unmap nothing a block lies in.            *)
THEOREM HeapNoDangling == Spec => []NoDangling
<1>1. Sound => NoDangling
  BY SoundNoDangling
<1> QED
  BY <1>1, HeapInvCorrect, PTL

-------------------------------------------------------------------------------
(* The heaps implement Allocator                                              *)

MappedCells == UNION {Cells(p) : p \in Mapped}

LEMMA MappedCellsIn ==
  /\ \A c : c \in MappedCells <=> \E t \in Thread : \E p \in pools[t] : c \in Cells(p)
  /\ \A c : c \in MappedCells' <=> \E t \in Thread : \E p \in pools'[t] : c \in Cells(p)
<1>1. \A c : c \in MappedCells <=> \E t \in Thread : \E p \in pools[t] : c \in Cells(p)
  BY DEF MappedCells, Mapped
<1>2. \A c : c \in MappedCells' <=> \E t \in Thread : \E p \in pools'[t] : c \in Cells(p)
  BY DEF MappedCells, Mapped
<1> QED
  BY <1>1, <1>2

(* Memory handed out is mapped and nobody else's.                             *)
LEMMA AllocStep ==
  ASSUME NEW b, live' = live \cup {b}, \A c \in live : ~Meets(b, c),
         MappedCells \subseteq MappedCells', MappedCells' \subseteq UNION {Cells(s) : s \in Site},
         Cells(b) \subseteq MappedCells'
  PROVE  A!Next
<1>1. A!Disjoint(b)
  BY DEF A!Disjoint, Meets
<1>2. A!Alloc(b)
  BY <1>1 DEF A!Alloc, MappedCells
<1> QED
  BY <1>2 DEF A!Next

LEMMA FreeStep ==
  ASSUME NEW b \in live, live' = live \ {b}, MappedCells' = MappedCells
  PROVE  A!Next
  BY DEF A!Next, A!Free, MappedCells

LEMMA UnmapStep ==
  ASSUME live' = live, MappedCells' \subseteq MappedCells, \A b \in live : Cells(b) \subseteq MappedCells'
  PROVE  A!Next
  BY DEF A!Next, A!Unmap, MappedCells

(* What is live lies in mapped memory after a step as before it.              *)
LEMMA LiveMapped ==
  ASSUME NoDangling'
  PROVE  \A b \in live' : Cells(b) \subseteq MappedCells'
<1>1. \A b \in live' : b \in Blocks'
  <2> TAKE b \in live'
  <2>1. Places' = PlacesOf(live', lost', dropped', free', slab', foreign')
    BY DEF Places, PlacesOf
  <2>2. <<"live", Main, b>> \in Places' /\ <<"live", Main, b>>[3] = b
    BY <2>1, PlacesIn
  <2> QED
    BY <2>2 DEF Blocks
<1> QED
  BY <1>1 DEF NoDangling, MappedCells

LEMMA SitesMapped ==
  ASSUME Typed'
  PROVE  MappedCells' \subseteq UNION {Cells(s) : s \in Site}
<1>1. \A t \in Thread : pools'[t] \subseteq Site
  BY DEF Typed
<1> QED
  BY <1>1, MappedCellsIn

(* ray_alloc.                                                                 *)
LEMMA AllocRefines ==
  ASSUME Sound, Typed', NoDangling', NEW t \in Thread, NEW o \in Req, Alloc(t, o)
  PROVE  A!Next \/ (live' = live /\ MappedCells' = MappedCells)
<1>1. /\ MappedCells' \subseteq UNION {Cells(s) : s \in Site}
      /\ \A b \in live' : Cells(b) \subseteq MappedCells'
  BY LiveMapped, SitesMapped
<1>2. Typed /\ live \subseteq Gives
  BY GivesIn DEF Sound
<1>3. pools' = pools => MappedCells' = MappedCells
  BY DEF MappedCells, Mapped
<1>4. CASE AllocSlab(t, o)
  <2>1. PICK b \in OfOrder(slab[t], o) : live' = live \cup {b}
    BY <1>4 DEF AllocSlab
  <2>2. b \in slab[t] /\ Apart(Places) /\ pools' = pools
    BY <1>4 DEF OfOrder, AllocSlab, Idle, Runs, Sound, Tidy
  <2>3. \A c \in live : ~Meets(b, c)
    BY <1>2, <2>2, GivenApart DEF Gives
  <2> QED
    BY <1>1, <1>3, <2>1, <2>2, <2>3, AllocStep
<1>5. CASE AllocFree(t, o)
  <2>1. PICK b \in OfOrder(free[t], Min(Found(t, o))) : live' = live \cup {Left(b, o)}
    BY <1>5 DEF AllocFree, Left
  <2>2. /\ b \in free[t] /\ Apart(Places) /\ pools' = pools /\ Found(t, o) # {} /\ o \in Nat
        /\ AvailExact
    BY <1>5, HeapAssumption DEF OfOrder, AllocFree, Idle, Runs, Sound, Tidy
  <2>3. o <= b.ord /\ b \in Area
    BY <1>2, <2>2, SplitAvail, Areas DEF Typed
  <2>4. Cells(Left(b, o)) \subseteq Cells(b)
    BY <2>2, <2>3, SplitCells
  <2>5. \A c \in live : ~Meets(b, c)
    BY <1>2, <2>2, GivenApart DEF Gives
  <2>6. \A c \in live : ~Meets(Left(b, o), c)
    BY <2>4, <2>5 DEF Meets
  <2> QED
    BY <1>1, <1>3, <2>1, <2>2, <2>6, AllocStep
<1>6. CASE AllocGrow(t, o)
  <2>1. PICK p \in OfOrder(Site, NewOrder(o)) :
          /\ \A q \in Mapped : ~Meets(p, q)
          /\ pools' = [pools EXCEPT ![t] = @ \cup {p}]
          /\ live' = live \cup {Right(p, o)}
    BY <1>6 DEF AllocGrow, Right
  <2>2. o \in Nat /\ p \in Site /\ o < p.ord /\ p \in Area /\ p.ord \in Nat
    BY GrowOrder, Areas DEF OfOrder, Area
  <2>3. Right(p, o) \in Halves(p, 0)
    <3>1. o \in 0..(p.ord - 1)
      BY <2>2
    <3> QED
      BY <2>2, <3>1, HalvesIn
  <2>4. Cells(Right(p, o)) \subseteq Cells(p)
    BY <2>2, <2>3, GrowFits
  <2>5. \A c \in live : ~Meets(Right(p, o), c)
    <3> TAKE c \in live
    <3>1. PICK q \in Mapped : Cells(c) \subseteq Cells(q)
      BY SoundNoDangling, BlocksIn DEF NoDangling
    <3> QED
      BY <2>1, <2>4, <3>1 DEF Meets
  <2>6. MappedCells \subseteq MappedCells'
    <3>1. \A u \in Thread : pools[u] \subseteq pools'[u]
      BY <1>2, <2>1 DEF Typed
    <3> QED
      BY <3>1, MappedCellsIn
  <2> QED
    BY <1>1, <2>1, <2>5, <2>6, AllocStep
<1>7. CASE AllocFail(t, o)
  BY <1>3, <1>7 DEF AllocFail
<1> QED
  BY <1>4, <1>5, <1>6, <1>7 DEF Alloc

(* Every step of the heaps is a step of Allocator or none at all.             *)
LEMMA StepRefines ==
  ASSUME Sound, Typed', NoDangling', [Next]_vars
  PROVE  [A!Next]_<<live, MappedCells>>
<1>1. \A b \in live' : Cells(b) \subseteq MappedCells'
  BY LiveMapped
<1>2. pools' = pools => MappedCells' = MappedCells
  BY DEF MappedCells, Mapped
<1>3. CASE live' = live /\ pools' = pools
  BY <1>2, <1>3
<1>4. ASSUME live' = live, \A t \in Thread : pools'[t] \subseteq pools[t] PROVE A!Next
  <2>1. MappedCells' \subseteq MappedCells
    BY <1>4, MappedCellsIn
  <2> QED
    BY <1>1, <1>4, <2>1, UnmapStep
<1>5. ASSUME NEW t \in Thread, NEW o \in Req, Alloc(t, o) PROVE [A!Next]_<<live, MappedCells>>
  BY <1>5, AllocRefines
<1>6. ASSUME NEW t \in Thread, NEW b \in live, Release(t, b) PROVE A!Next
  <2>1. live' = live \ {b} /\ pools' = pools
    BY <1>6 DEF Release, lists
  <2> QED
    BY <1>2, <2>1, FreeStep
<1>7. ASSUME NEW t \in Thread, NEW b \in dropped[t], Free(t, b) PROVE live' = live /\ pools' = pools
  BY <1>7 DEF Free, FreeForeign, FreeSlab, FreeLocal
<1>8. ASSUME GcBegin \/ GcForeign \/ GcForeignDone \/ GcSlab \/ GcSlabDone \/ GcDone
      PROVE  live' = live /\ pools' = pools
  BY <1>8 DEF GcBegin, GcForeign, GcForeignDone, GcSlab, GcSlabDone, GcDone, lists
<1>9. ASSUME NEW h \in Thread, NEW p \in Mapped, GcReclaim(h, p) PROVE A!Next
  <2>1. live' = live /\ pools' = [pools EXCEPT ![h] = @ \ {p}] /\ pools \in [Thread -> SUBSET Site]
    BY <1>9 DEF GcReclaim, Sound, Typed
  <2>2. \A t \in Thread : pools'[t] \subseteq pools[t]
    BY <2>1
  <2> QED
    BY <1>4, <2>1, <2>2
<1>10. ASSUME Open \/ Flag \/ Close PROVE live' = live /\ pools' = pools
  BY <1>10 DEF Open, Flag, Close, lists
<1>11. ASSUME NEW t \in Worker, HeapInit(t) PROVE live' = live /\ pools' = pools
  BY <1>11 DEF HeapInit, lists
<1>12. ASSUME NEW t \in Worker, HeapDestroy(t) PROVE A!Next
  <2>1. live' = live /\ pools' = [pools EXCEPT ![t] = {}] /\ pools \in [Thread -> SUBSET Site]
    BY <1>12 DEF HeapDestroy, Sound, Typed
  <2>2. \A u \in Thread : pools'[u] \subseteq pools[u]
    BY <2>1
  <2> QED
    BY <1>4, <2>1, <2>2
<1>13. ASSUME UNCHANGED vars PROVE live' = live /\ pools' = pools
  BY <1>13 DEF vars, lists
<1>14. CASE Next
  <2>1. CASE Collect
    BY <1>3, <1>8, <1>9, <2>1 DEF Collect
  <2>2. CASE Stopped
    BY <1>3, <1>13, <2>2 DEF Stopped
  <2> QED
    BY <1>3, <1>5, <1>6, <1>7, <1>10, <1>11, <1>12, <1>14, <2>1, <2>2 DEF Next
<1> QED
  BY <1>3, <1>13, <1>14

(* The heaps of all threads together are an allocator: blocks in use are      *)
(* mapped and disjoint, and stay mapped until they are freed.                 *)
THEOREM HeapImplements == Spec => ImplementsAllocator
<1>1. Init => A!Init
  <2>1. ASSUME Init PROVE live = {} /\ MappedCells = {}
    <3>1. live = {} /\ \A t \in Thread : pools[t] = {}
      BY <2>1 DEF Init
    <3> QED
      BY <3>1, MappedCellsIn
  <2> QED
    BY <2>1 DEF A!Init, MappedCells
<1>2. Sound => Typed
  BY DEF Sound
<1>3. Sound /\ Typed' /\ NoDangling' /\ [Next]_vars => [A!Next]_<<live, MappedCells>>
  BY StepRefines
<1>4. [A!Next]_<<live, MappedCells>> => [A!Next]_<<live, UNION {Cells(p) : p \in Mapped}>>
  BY DEF MappedCells
<1> QED
  BY <1>1, <1>2, <1>3, <1>4, HeapInvCorrect, HeapNoDangling, PTL DEF Spec, ImplementsAllocator, A!Spec
===============================================================================
