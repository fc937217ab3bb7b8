----------------------------- MODULE LogProofs -----------------------------
(***************************************************************************)
(* Proofs about Log, for every size of header, window and record.          *)
(*                                                                         *)
(* A log is well formed (WF): the header, then records one behind the      *)
(* other, the last perhaps torn.  From a place where a record ends the     *)
(* next one ends its size further on (NextRecord), so a scan that keeps to *)
(* such places meets every record once, and what stops it is a torn tail   *)
(* or a record no window holds (JudgedExact).  The invariant Inv says that *)
(* all files are well formed, that the window holds the file's bytes at    *)
(* `pos' (Held) and the scan has consumed the records before `valid'       *)
(* (Seen), that what a writer has still to write continues the file        *)
(* (Heading, Appending), and that an answer about a file at rest is a      *)
(* judgement of it (AnsOK).  A file only grows under a running scan, and   *)
(* growth keeps Held and Seen (ScanGrown); it is cut only when no scan     *)
(* runs, where the last answer says (RecoverOK).                           *)
(***************************************************************************)
EXTENDS Log, FiniteSetTheorems, SequenceTheorems, WellFoundedInduction, TLAPS

(***************************************************************************)
(* Numbers and counting                                                    *)
(***************************************************************************)

\* A nonempty set of naturals has a least element.
LEMMA LowestExists ==
  ASSUME NEW T \in SUBSET Nat, T # {}
  PROVE  \E x \in T : \A y \in T : x <= y
<1>1. \E x \in T : \A y \in T : ~(<<y, x>> \in OpToRel(<, Nat))
  BY NatLessThanWellFounded, WFMin
<1>2. PICK x \in T : \A y \in T : ~(<<y, x>> \in OpToRel(<, Nat))
  BY <1>1
<1>3. \A y \in T : ~(y < x)
  BY <1>2 DEF OpToRel
<1>4. QED BY <1>3

\* Min picks it.
LEMMA MinIsLowest ==
  ASSUME NEW T \in SUBSET Nat, T # {}
  PROVE  Min(T) \in T /\ \A y \in T : Min(T) <= y
<1>1. \E x \in T : \A y \in T : x <= y
  BY LowestExists
<1>2. QED BY <1>1 DEF Min

\* Min of a pair, as pread's length uses it.
LEMMA MinOfTwo ==
  ASSUME NEW a \in Nat, NEW b \in Nat
  PROVE  Min({a, b}) = IF a <= b THEN a ELSE b
<1>1. Min({a, b}) \in {a, b} /\ \A y \in {a, b} : Min({a, b}) <= y
  BY MinIsLowest
<1>2. QED BY <1>1

(***************************************************************************)
(* Whole records                                                           *)
(***************************************************************************)

Byte == [id : Nat, i : Nat \ {0}, size : Nat \ {0}]

\* Where the file's records up to p end.
EndsTo(c, p) == {q \in Ends(c) : q <= p}

\* The first bytes of c2 are those of c.
Extends(c, c2) == Len(c) <= Len(c2) /\ \A q \in 1..Len(c) : c2[q] = c[q]

\* The ends of records are finitely many places of the file.
LEMMA EndsFinite ==
  ASSUME NEW c \in Seq(Byte)
  PROVE  /\ Len(c) \in Nat /\ Ends(c) \subseteq 1..Len(c) /\ IsFiniteSet(Ends(c))
         /\ Cardinality(Ends(c)) \in Nat
<1>1. Len(c) \in Nat /\ Ends(c) \subseteq 1..Len(c)
  BY LenProperties DEF Ends
<1>2. IsFiniteSet(1..Len(c))
  BY <1>1, FS_Interval
<1>3. IsFiniteSet(Ends(c))
  BY <1>1, <1>2, FS_Subset
<1>4. Cardinality(Ends(c)) \in Nat
  BY <1>3, FS_CardinalityType
<1>5. QED BY <1>1, <1>3, <1>4

\* A record number is at most the number of records.
LEMMA RecNoNat ==
  ASSUME NEW c \in Seq(Byte), NEW p \in Nat
  PROVE  /\ RecNo(c, p) \in Nat /\ RecNo(c, p) = Cardinality(EndsTo(c, p))
         /\ IsFiniteSet(EndsTo(c, p)) /\ RecNo(c, p) <= Cardinality(Ends(c))
<1>1. EndsTo(c, p) \in SUBSET Ends(c)
  BY DEF EndsTo
<1>2. IsFiniteSet(Ends(c)) /\ Cardinality(Ends(c)) \in Nat
  BY EndsFinite
<1>3. IsFiniteSet(EndsTo(c, p)) /\ Cardinality(EndsTo(c, p)) <= Cardinality(Ends(c))
  BY <1>1, <1>2, FS_Subset
<1>4. Cardinality(EndsTo(c, p)) \in Nat
  BY <1>3, FS_CardinalityType
<1>5. RecNo(c, p) = Cardinality(EndsTo(c, p))
  BY DEF RecNo, EndsTo
<1>6. QED BY <1>3, <1>4, <1>5

\* Beyond the end of the file every record counts.
LEMMA RecNoAll ==
  ASSUME NEW c \in Seq(Byte), NEW p \in Nat, \A q \in Ends(c) : q <= p
  PROVE  RecNo(c, p) = Cardinality(Ends(c))
<1>1. {q \in Ends(c) : q <= p} = Ends(c)
  OBVIOUS
<1>2. QED BY <1>1 DEF RecNo

\* Record numbers grow along the file ...
LEMMA RecNoMonotonic ==
  ASSUME NEW c \in Seq(Byte), NEW p \in Nat, NEW r \in Nat, p <= r
  PROVE  RecNo(c, p) <= RecNo(c, r)
<1>1. EndsTo(c, p) \in SUBSET EndsTo(c, r)
  BY EndsFinite DEF EndsTo
<1>2. IsFiniteSet(EndsTo(c, r))
  BY RecNoNat
<1>3. Cardinality(EndsTo(c, p)) <= Cardinality(EndsTo(c, r))
  BY <1>1, <1>2, FS_Subset
<1>4. QED BY <1>3, RecNoNat

\* No record ends between p and r: r counts as many, or one more if one ends there.
LEMMA RecNoStep ==
  ASSUME NEW c \in Seq(Byte), NEW p \in Nat, NEW r \in Nat, p < r,
         \A q \in Ends(c) : q <= p \/ q >= r
  PROVE  RecNo(c, r) = IF r \in Ends(c) THEN RecNo(c, p) + 1 ELSE RecNo(c, p)
<1>1. \A q \in Ends(c) : q \in Nat
  BY EndsFinite
<1>2. CASE r \in Ends(c)
  <2>1. EndsTo(c, r) = EndsTo(c, p) \cup {r}
    <3>1. ASSUME NEW q \in EndsTo(c, r) PROVE q \in EndsTo(c, p) \cup {r}
      BY <1>1, <3>1 DEF EndsTo
    <3>2. ASSUME NEW q \in EndsTo(c, p) \cup {r} PROVE q \in EndsTo(c, r)
      BY <1>1, <1>2, <3>2 DEF EndsTo
    <3>3. QED BY <3>1, <3>2
  <2>2. r \notin EndsTo(c, p)
    BY <1>1 DEF EndsTo
  <2>3. IsFiniteSet(EndsTo(c, p))
    BY RecNoNat
  <2>4. Cardinality(EndsTo(c, r)) = Cardinality(EndsTo(c, p)) + 1
    BY <2>1, <2>2, <2>3, FS_AddElement
  <2>5. QED BY <1>2, <2>4, RecNoNat
<1>3. CASE r \notin Ends(c)
  <2>1. EndsTo(c, r) = EndsTo(c, p)
    BY <1>1, <1>3 DEF EndsTo
  <2>2. QED BY <1>3, <2>1, RecNoNat
<1>4. QED BY <1>2, <1>3

\* ... strictly from one end of a record to the next.
LEMMA RecNoStrict ==
  ASSUME NEW c \in Seq(Byte), NEW p \in Nat, NEW r \in Ends(c), p < r
  PROVE  RecNo(c, p) + 1 <= RecNo(c, r)
<1>1. r \in Nat \ {0} /\ p <= r - 1
  BY EndsFinite
<1>2. \A q \in Ends(c) : q <= r - 1 \/ q >= r
  BY <1>1, EndsFinite
<1>3. RecNo(c, r) = RecNo(c, r - 1) + 1
  BY <1>1, <1>2, RecNoStep
<1>4. RecNo(c, p) <= RecNo(c, r - 1)
  BY <1>1, RecNoMonotonic
<1>5. QED BY <1>1, <1>3, <1>4, RecNoNat

\* Two records that end at different places have different numbers.
LEMMA RecNoInjective ==
  ASSUME NEW c \in Seq(Byte), NEW p \in Ends(c), NEW r \in Ends(c), RecNo(c, p) = RecNo(c, r)
  PROVE  p = r
<1>1. p \in Nat /\ r \in Nat
  BY EndsFinite
<1>2. RecNo(c, p) \in Nat
  BY <1>1, RecNoNat
<1>3. ~(p < r)
  BY <1>1, <1>2, RecNoStrict
<1>4. ~(r < p)
  BY <1>1, <1>2, RecNoStrict
<1>5. QED BY <1>1, <1>3, <1>4

\* There is a record of every number up to the last.
LEMMA RecNoOnto ==
  ASSUME NEW c \in Seq(Byte), NEW k \in 1..Cardinality(Ends(c))
  PROVE  \E p \in Ends(c) : RecNo(c, p) = k
<1> DEFINE T == {p \in Nat : RecNo(c, p) >= k}
<1>1. T \in SUBSET Nat
  OBVIOUS
<1>2. Len(c) \in T
  <2>1. Len(c) \in Nat /\ \A q \in Ends(c) : q <= Len(c)
    BY EndsFinite
  <2>2. RecNo(c, Len(c)) = Cardinality(Ends(c))
    BY <2>1, RecNoAll
  <2>3. QED BY <2>1, <2>2, EndsFinite
<1>3. PICK p \in T : \A y \in T : p <= y
  <2> HIDE DEF T
  <2>1. QED BY <1>1, <1>2, LowestExists
<1>4. p \in Nat /\ RecNo(c, p) >= k /\ RecNo(c, p) \in Nat
  BY RecNoNat
<1>5. p # 0
  <2>1. SUFFICES ASSUME p = 0 PROVE FALSE
    OBVIOUS
  <2>2. {q \in Ends(c) : q <= 0} = {}
    BY EndsFinite
  <2>3. RecNo(c, 0) = 0
    BY <2>2, FS_EmptySet DEF RecNo
  <2>4. QED BY <1>4, <2>1, <2>3
<1>6. p - 1 \in Nat /\ p - 1 \notin T
  BY <1>3, <1>4, <1>5
<1>7. RecNo(c, p - 1) \in Nat /\ RecNo(c, p - 1) < k
  BY <1>6, RecNoNat
<1>8. \A q \in Ends(c) : q <= p - 1 \/ q >= p
  BY <1>4, EndsFinite
<1>9. RecNo(c, p) = IF p \in Ends(c) THEN RecNo(c, p - 1) + 1 ELSE RecNo(c, p - 1)
  BY <1>4, <1>6, <1>8, RecNoStep
<1>10. QED BY <1>4, <1>7, <1>9

\* EndOf and RecNo are inverses of each other.
LEMMA EndOfRecNo ==
  ASSUME NEW c \in Seq(Byte), NEW p \in Ends(c)
  PROVE  RecNo(c, p) \in 1..Cardinality(Ends(c)) /\ EndOf(c, RecNo(c, p)) = p
<1>1. p \in Nat \ {0}
  BY EndsFinite
<1>2. RecNo(c, 0) + 1 <= RecNo(c, p) /\ RecNo(c, 0) \in Nat
  BY <1>1, RecNoStrict, RecNoNat
<1>3. RecNo(c, p) \in Nat /\ RecNo(c, p) <= Cardinality(Ends(c)) /\ RecNo(c, p) # 0
  BY <1>1, <1>2, RecNoNat
<1>4. \A q \in Ends(c) : RecNo(c, q) = RecNo(c, p) => q = p
  BY RecNoInjective
<1>5. EndOf(c, RecNo(c, p)) = p
  BY <1>3, <1>4 DEF EndOf
<1>6. QED BY <1>3, <1>5, EndsFinite

\* The number of the record that ends where number n ends is n.
LEMMA RecNoEndOf ==
  ASSUME NEW c \in Seq(Byte), NEW k \in 1..Cardinality(Ends(c))
  PROVE  EndOf(c, k) \in Ends(c) /\ RecNo(c, EndOf(c, k)) = k
<1>1. \E p \in Ends(c) : RecNo(c, p) = k
  BY RecNoOnto
<1>2. QED BY <1>1, EndsFinite DEF EndOf

\* The records of a file: one for each end, with the identity found there.
LEMMA RecsOf ==
  ASSUME NEW c \in Seq(Byte)
  PROVE  /\ Recs(c) \in Seq(Nat) /\ Len(Recs(c)) = Cardinality(Ends(c))
         /\ \A k \in 1..Cardinality(Ends(c)) : Recs(c)[k] = c[EndOf(c, k)].id
         /\ \A p \in Ends(c) : Recs(c)[RecNo(c, p)] = c[p].id
<1> DEFINE N == Cardinality(Ends(c))
<1>1. N \in Nat
  BY EndsFinite
<1>2. \A k \in 1..N : c[EndOf(c, k)].id \in Nat
  <2>1. SUFFICES ASSUME NEW k \in 1..N PROVE c[EndOf(c, k)].id \in Nat
    OBVIOUS
  <2>2. EndOf(c, k) \in 1..Len(c)
    BY RecNoEndOf, EndsFinite
  <2>3. c[EndOf(c, k)] \in Byte
    BY <2>2, ElementOfSeq
  <2>4. QED BY <2>3 DEF Byte
<1>3. Recs(c) = [k \in 1..N |-> c[EndOf(c, k)].id]
  BY DEF Recs
<1> HIDE DEF N
<1>4. Recs(c) \in [1..N -> Nat]
  BY <1>2, <1>3
<1>5. Recs(c) \in Seq(Nat)
  BY <1>1, <1>4, SeqDef
<1>6. Len(Recs(c)) = N
  BY <1>1, <1>3, <1>5, LenProperties
<1>7. \A p \in Ends(c) : Recs(c)[RecNo(c, p)] = c[p].id
  BY <1>3, EndOfRecNo DEF N
<1>8. QED BY <1>3, <1>5, <1>6, <1>7 DEF N

(***************************************************************************)
(* Files that grow                                                         *)
(***************************************************************************)

\* A file that has grown has the ends it had, and the numbers.
LEMMA GrownEnds ==
  ASSUME NEW c \in Seq(Byte), NEW c2 \in Seq(Byte), Extends(c, c2)
  PROVE  /\ Ends(c) \subseteq Ends(c2)
         /\ \A q \in Ends(c2) : q <= Len(c) => q \in Ends(c)
         /\ \A p \in Nat : p <= Len(c) => RecNo(c2, p) = RecNo(c, p)
         /\ Cardinality(Ends(c)) <= Cardinality(Ends(c2))
<1>1. DOMAIN c = 1..Len(c) /\ DOMAIN c2 = 1..Len(c2) /\ Len(c) \in Nat /\ Len(c2) \in Nat
  BY LenProperties
<1>2. Ends(c) \subseteq Ends(c2)
  BY <1>1 DEF Extends, Ends
<1>3. \A q \in Ends(c2) : q <= Len(c) => q \in Ends(c)
  BY <1>1 DEF Extends, Ends
<1>4. \A p \in Nat : p <= Len(c) => RecNo(c2, p) = RecNo(c, p)
  <2>1. SUFFICES ASSUME NEW p \in Nat, p <= Len(c) PROVE RecNo(c2, p) = RecNo(c, p)
    OBVIOUS
  <2>2. \A q \in Ends(c2) : q \in Nat
    BY EndsFinite
  <2>3. {q \in Ends(c2) : q <= p} = {q \in Ends(c) : q <= p}
    BY <1>1, <1>2, <1>3, <2>1, <2>2
  <2>4. QED BY <2>3 DEF RecNo
<1>5. Cardinality(Ends(c)) <= Cardinality(Ends(c2))
  <2>1. IsFiniteSet(Ends(c2)) /\ Ends(c) \in SUBSET Ends(c2)
    BY <1>2, EndsFinite
  <2>2. QED BY <2>1, FS_Subset
<1>6. QED BY <1>2, <1>3, <1>4, <1>5

\* Its records are the first of the records it has now.
LEMMA GrownRecs ==
  ASSUME NEW c \in Seq(Byte), NEW c2 \in Seq(Byte), Extends(c, c2)
  PROVE  /\ Len(Recs(c)) <= Len(Recs(c2))
         /\ \A k \in 1..Len(Recs(c)) : EndOf(c2, k) = EndOf(c, k) /\ Recs(c2)[k] = Recs(c)[k]
<1>1. Len(Recs(c)) = Cardinality(Ends(c)) /\ Len(Recs(c2)) = Cardinality(Ends(c2))
  BY RecsOf
<1>2. Cardinality(Ends(c)) <= Cardinality(Ends(c2)) /\ Cardinality(Ends(c)) \in Nat
      /\ Cardinality(Ends(c2)) \in Nat
  BY GrownEnds, EndsFinite
<1>3. ASSUME NEW k \in 1..Cardinality(Ends(c))
      PROVE  EndOf(c2, k) = EndOf(c, k) /\ Recs(c2)[k] = Recs(c)[k]
  <2> DEFINE p == EndOf(c, k)
  <2>1. p \in Ends(c) /\ RecNo(c, p) = k
    BY <1>3, RecNoEndOf
  <2> HIDE DEF p
  <2>2. p \in Nat /\ p \in 1..Len(c)
    BY <2>1, EndsFinite
  <2>3. p \in Ends(c2) /\ RecNo(c2, p) = k
    BY <2>1, <2>2, GrownEnds
  <2>4. EndOf(c2, k) = p
    BY <2>3, EndOfRecNo
  <2>5. c2[p] = c[p]
    BY <2>2 DEF Extends
  <2>6. Recs(c2)[k] = c2[p].id /\ Recs(c)[k] = c[p].id
    BY <2>1, <2>3, RecsOf
  <2>7. QED BY <2>4, <2>5, <2>6 DEF p
<1>4. QED BY <1>1, <1>2, <1>3

\* The answer of a scan that has seen n records does not change.
LEMMA GrownSubSeq ==
  ASSUME NEW c \in Seq(Byte), NEW c2 \in Seq(Byte), Extends(c, c2),
         NEW n \in Nat, n <= Len(Recs(c))
  PROVE  SubSeq(Recs(c2), 1, n) = SubSeq(Recs(c), 1, n)
<1>1. Recs(c) \in Seq(Nat) /\ Recs(c2) \in Seq(Nat)
  BY RecsOf
<1>2. Len(Recs(c)) <= Len(Recs(c2)) /\ \A k \in 1..n : Recs(c2)[k] = Recs(c)[k]
  BY <1>1, GrownRecs, LenProperties
<1>3. \A k \in 1..n : Recs(c)[k] \in Nat
  BY <1>1, ElementOfSeq, LenProperties
<1> DEFINE s == SubSeq(Recs(c), 1, n)
           t == SubSeq(Recs(c2), 1, n)
<1>4. s \in Seq(Nat) /\ Len(s) = n /\ \A i \in 1..n : s[i] = Recs(c)[i]
  BY <1>3, SubSeqProperties
<1>5. t \in Seq(Nat) /\ Len(t) = n /\ \A i \in 1..n : t[i] = Recs(c2)[i]
  BY <1>2, <1>3, SubSeqProperties
<1>6. QED BY <1>2, <1>4, <1>5, SeqEqual

(***************************************************************************)
(* Well-formed files                                                       *)
(***************************************************************************)

\* A byte is followed by the rest of its record, as far as the file goes, and
\* a record by the first byte of another; the header comes first.
WF(c) ==
  /\ c \in Seq(Byte)
  /\ \A p \in 1..Len(c) : /\ c[p].i <= c[p].size
                          /\ c[p].id = 0 <=> p <= LOG_HDR
                          /\ p <= LOG_HDR => c[p].i = p /\ c[p].size = LOG_HDR
  /\ \A p \in 1..Len(c) : \A j \in Nat :
       c[p].i + j <= c[p].size /\ p + j <= Len(c) =>
         c[p + j].id = c[p].id /\ c[p + j].i = c[p].i + j /\ c[p + j].size = c[p].size
  /\ \A p \in 1..Len(c) : IsLast(c[p]) /\ p < Len(c) => c[p + 1].i = 1

\* The header or a record ends at p.
Boundary(c, p) == p \in LOG_HDR..Len(c) /\ IsLast(c[p])

\* No record before p is too large for every window.
Small(c, p) == \A q \in Ends(c) : q <= p => c[q].size <= LOG_MAX

\* What follows a boundary is one record: whole, and then numbered next, or
\* torn, and then the last of the file.
LEMMA NextRecord ==
  ASSUME NEW c, WF(c), NEW p \in Nat, Boundary(c, p), p < Len(c)
  PROVE  LET s == c[p + 1].size IN
         /\ s \in Nat \ {0} /\ c[p + 1].id \in Nat \ {0}
         /\ p + s <= Len(c) => /\ p + s \in Ends(c) /\ RecNo(c, p + s) = RecNo(c, p) + 1
                               /\ c[p + s].id = c[p + 1].id /\ c[p + s].size = s
                               /\ \A q \in Ends(c) : q <= p \/ q >= p + s
         /\ p + s > Len(c) => /\ Torn(c) /\ \A q \in Ends(c) : q <= p
<1> DEFINE s == c[p + 1].size
<1>1. c \in Seq(Byte) /\ Len(c) \in Nat /\ DOMAIN c = 1..Len(c) /\ LOG_HDR \in Nat \ {0}
  BY LenProperties, LogAssumption DEF WF
<1>2. p \in 1..Len(c) /\ p + 1 \in 1..Len(c) /\ p >= LOG_HDR
  BY <1>1 DEF Boundary
<1>3. c[p + 1].i = 1
  BY <1>1, <1>2 DEF WF, Boundary
<1>4. c[p + 1] \in Byte
  BY <1>1, <1>2, ElementOfSeq
<1>5. s \in Nat \ {0} /\ c[p + 1].id \in Nat \ {0}
  BY <1>1, <1>2, <1>4 DEF WF, Byte
<1>6. \A j \in Nat : 1 + j <= s /\ p + 1 + j <= Len(c) =>
        c[p + 1 + j].id = c[p + 1].id /\ c[p + 1 + j].i = 1 + j /\ c[p + 1 + j].size = s
  <2>1. \A q \in 1..Len(c) : \A j \in Nat :
          c[q].i + j <= c[q].size /\ q + j <= Len(c) =>
            c[q + j].id = c[q].id /\ c[q + j].i = c[q].i + j /\ c[q + j].size = c[q].size
    BY DEF WF
  <2> DEFINE m == p + 1
  <2>2. m \in 1..Len(c) /\ c[m].i = 1 /\ c[m].size = s
    BY <1>2, <1>3
  <2> HIDE DEF m, s
  <2>3. \A j \in Nat : 1 + j <= s /\ m + j <= Len(c) =>
          c[m + j].id = c[m].id /\ c[m + j].i = 1 + j /\ c[m + j].size = s
    BY <2>1, <2>2
  <2>4. QED BY <2>3 DEF m
<1> HIDE DEF s
<1>7. \A q \in 1..Len(c) : p < q /\ q <= p + s =>
        c[q].id = c[p + 1].id /\ c[q].i = q - p /\ c[q].size = s
  <2>1. SUFFICES ASSUME NEW q \in 1..Len(c), p < q, q <= p + s
                 PROVE  c[q].id = c[p + 1].id /\ c[q].i = q - p /\ c[q].size = s
    OBVIOUS
  <2> DEFINE j == q - p - 1
  <2>2. j \in Nat /\ p + 1 + j = q /\ 1 + j = q - p /\ 1 + j <= s /\ p + 1 + j <= Len(c)
    BY <1>1, <1>5, <2>1
  <2> HIDE DEF j
  <2>3. /\ c[p + 1 + j].id = c[p + 1].id /\ c[p + 1 + j].i = 1 + j
        /\ c[p + 1 + j].size = s
    BY <1>6, <2>2
  <2>4. QED BY <2>2, <2>3
<1>8. \A q \in Ends(c) : q <= p \/ q >= p + s
  BY <1>1, <1>5, <1>7 DEF Ends, IsLast
<1>9. ASSUME p + s <= Len(c)
      PROVE  /\ p + s \in Ends(c) /\ RecNo(c, p + s) = RecNo(c, p) + 1
             /\ c[p + s].id = c[p + 1].id /\ c[p + s].size = s
  <2>1. p + s \in 1..Len(c) /\ p + s \in Nat /\ p < p + s
    BY <1>1, <1>5, <1>9
  <2>2. c[p + s].id = c[p + 1].id /\ c[p + s].i = s /\ c[p + s].size = s
    BY <1>5, <1>7, <2>1
  <2>3. p + s \in Ends(c)
    BY <1>1, <1>5, <2>1, <2>2 DEF Ends, IsLast
  <2>4. RecNo(c, p + s) = RecNo(c, p) + 1
    BY <1>1, <1>8, <2>1, <2>3, RecNoStep
  <2>5. QED BY <2>2, <2>3, <2>4
<1>10. ASSUME p + s > Len(c)
       PROVE  Torn(c) /\ \A q \in Ends(c) : q <= p
  <2>1. \A q \in Ends(c) : q <= p
    BY <1>1, <1>5, <1>8, <1>10 DEF Ends
  <2>2. c[Len(c)].i = Len(c) - p /\ c[Len(c)].size = s
    BY <1>1, <1>2, <1>5, <1>7, <1>10
  <2>3. ~IsLast(c[Len(c)]) /\ c # <<>>
    <3>1. Len(c) - p # s /\ Len(c) # 0
      <4>1. Len(c) \in Nat /\ s \in Nat
        BY <1>1, <1>5
      <4>2. QED BY <1>10, <4>1
    <3>2. c # <<>>
      BY <3>1, EmptySeq
    <3>3. QED BY <2>2, <3>1, <3>2 DEF IsLast
  <2>4. QED BY <2>1, <2>3 DEF Torn, Last
<1>11. QED BY <1>5, <1>8, <1>9, <1>10 DEF s

\* A boundary behind the header is the end of a record.
LEMMA BoundaryEnds ==
  ASSUME NEW c, WF(c), NEW p \in Nat, Boundary(c, p)
  PROVE  IF p = LOG_HDR THEN RecNo(c, p) = 0 ELSE p \in Ends(c)
<1>1. c \in Seq(Byte) /\ Len(c) \in Nat /\ DOMAIN c = 1..Len(c) /\ LOG_HDR \in Nat \ {0}
  BY LenProperties, LogAssumption DEF WF
<1>2. CASE p = LOG_HDR
  <2>1. {q \in Ends(c) : q <= p} = {}
    BY <1>1, <1>2 DEF WF, Ends
  <2>2. QED BY <1>2, <2>1, FS_EmptySet DEF RecNo
<1>3. CASE p # LOG_HDR
  BY <1>1, <1>3 DEF WF, Ends, Boundary
<1>4. QED BY <1>2, <1>3

\* Where a scan that has counted the records up to p says they end.
LEMMA EndOfBoundary ==
  ASSUME NEW c, WF(c), NEW p \in Nat, Boundary(c, p)
  PROVE  EndOf(c, RecNo(c, p)) = p
<1>1. c \in Seq(Byte)
  BY DEF WF
<1>2. CASE p = LOG_HDR
  BY <1>2, BoundaryEnds DEF EndOf
<1>3. CASE p # LOG_HDR
  BY <1>1, <1>3, BoundaryEnds, EndOfRecNo
<1>4. QED BY <1>2, <1>3

\* What a scan has found when it ends: a count of records, where they end, and
\* why it goes no further.
Judged(kind, n, valid, c) ==
  /\ valid \in Nat /\ Boundary(c, valid) /\ n = RecNo(c, valid) /\ Small(c, valid)
  /\ kind = "n" => valid = Len(c)
  /\ kind # "n" => /\ valid < Len(c)
                   /\ \/ valid + c[valid + 1].size > Len(c)
                      \/ c[valid + 1].size > LOG_MAX

\* A judgement is exact: it names the first record no scan can pass.
LEMMA JudgedExact ==
  ASSUME NEW c, WF(c), NEW kind, NEW n, NEW valid, Judged(kind, n, valid, c)
  PROVE  LET k == Reachable(c) IN
         /\ kind = "n" <=> k = Len(Recs(c)) /\ ~Torn(c)
         /\ n = k /\ valid = EndOf(c, k)
<1> DEFINE big == {k \in DOMAIN Recs(c) : c[EndOf(c, k)].size > LOG_MAX}
           N == Cardinality(Ends(c))
<1>1. c \in Seq(Byte) /\ Len(c) \in Nat /\ LOG_HDR \in Nat \ {0} /\ LOG_MAX \in Nat
  BY LenProperties, LogAssumption DEF WF
<1>2. valid \in Nat /\ Boundary(c, valid) /\ n = RecNo(c, valid) /\ Small(c, valid)
  BY DEF Judged
<1>3. valid \in 1..Len(c) /\ IsLast(c[valid])
  BY <1>1, <1>2 DEF Boundary
<1>4. n \in Nat /\ N \in Nat /\ n <= N
  BY <1>1, <1>2, RecNoNat, EndsFinite
<1>5. Recs(c) \in Seq(Nat) /\ Len(Recs(c)) = N /\ DOMAIN Recs(c) = 1..N
  BY <1>1, RecsOf, LenProperties
<1>6. valid = EndOf(c, n)
  BY <1>2, EndOfBoundary
<1>7. \A k \in big : k > n
  <2>1. SUFFICES ASSUME NEW k \in 1..N, k <= n PROVE ~(c[EndOf(c, k)].size > LOG_MAX)
    BY <1>4, <1>5
  <2> DEFINE q == EndOf(c, k)
  <2>2. q \in Ends(c) /\ RecNo(c, q) = k
    BY <1>1, RecNoEndOf
  <2> HIDE DEF q
  <2>3. q \in Nat /\ q \in 1..Len(c)
    BY <1>1, <2>2, EndsFinite
  <2>4. ~(valid < q)
    BY <1>1, <1>2, <1>4, <2>1, <2>2, RecNoStrict
  <2>5. c[q].size <= LOG_MAX
    BY <1>2, <2>2, <2>3, <2>4 DEF Small
  <2>6. c[q].size \in Nat
    <3>1. c[q] \in Byte
      BY <1>1, <2>3, ElementOfSeq
    <3>2. QED BY <3>1 DEF Byte
  <2>7. QED BY <1>1, <2>5, <2>6 DEF q
<1>8. Reachable(c) = IF big = {} THEN N ELSE Min(big) - 1
  BY <1>5 DEF Reachable
<1>9. big \subseteq 1..N
  BY <1>5
<1>10. ASSUME \A q \in Ends(c) : q <= valid PROVE n = N /\ Reachable(c) = n
  <2>1. n = N
    BY <1>1, <1>2, <1>10, RecNoAll
  <2>2. big = {}
    BY <1>4, <1>7, <1>9, <2>1
  <2>3. QED BY <1>8, <2>1, <2>2
<1>11. CASE kind = "n"
  <2>1. valid = Len(c)
    BY <1>11 DEF Judged
  <2>2. \A q \in Ends(c) : q <= valid
    BY <1>1, <2>1, EndsFinite
  <2>3. ~Torn(c)
    BY <1>3, <2>1 DEF Torn, Last
  <2> HIDE DEF big, N
  <2>4. QED BY <1>5, <1>6, <1>10, <1>11, <2>2, <2>3
<1>12. CASE kind # "n"
  <2> DEFINE s == c[valid + 1].size
  <2>1. valid < Len(c) /\ (valid + s > Len(c) \/ s > LOG_MAX)
    BY <1>12 DEF Judged
  <2>2. /\ s \in Nat \ {0}
        /\ valid + s <= Len(c) => /\ valid + s \in Ends(c) /\ RecNo(c, valid + s) = RecNo(c, valid) + 1
                                  /\ c[valid + s].size = s
        /\ valid + s > Len(c) => /\ Torn(c) /\ \A q \in Ends(c) : q <= valid
    BY <1>2, <2>1, NextRecord
  <2> HIDE DEF s
  <2>3. CASE valid + s > Len(c)
    <3> HIDE DEF big, N
    <3>1. QED BY <1>5, <1>6, <1>10, <1>12, <2>2, <2>3
  <2>4. CASE ~(valid + s > Len(c))
    <3>1. valid + s <= Len(c) /\ s > LOG_MAX
      BY <1>1, <1>2, <2>1, <2>2, <2>4
    <3>2. valid + s \in Ends(c) /\ RecNo(c, valid + s) = n + 1 /\ c[valid + s].size = s
      BY <1>2, <2>2, <3>1
    <3>3. n + 1 \in 1..N /\ EndOf(c, n + 1) = valid + s
      BY <1>1, <3>2, EndOfRecNo
    <3>4. n + 1 \in big
      BY <1>5, <3>1, <3>2, <3>3
    <3>5. big \in SUBSET Nat /\ big # {} /\ \A k \in big : k > n
      BY <1>4, <1>7, <1>9, <3>4
    <3> HIDE DEF big
    <3>6. Min(big) \in big /\ \A y \in big : Min(big) <= y
      BY <3>5, MinIsLowest
    <3> DEFINE m == Min(big)
    <3>7. m \in Nat /\ m > n /\ m <= n + 1
      BY <3>4, <3>5, <3>6
    <3> HIDE DEF m
    <3>8. Reachable(c) = m - 1
      BY <1>8, <3>5 DEF m
    <3>10. Reachable(c) = n /\ n # N
      <4> HIDE DEF N
      <4>1. QED BY <1>4, <3>3, <3>7, <3>8
    <3>11. QED BY <1>5, <1>6, <1>12, <3>10
  <2>5. QED BY <2>3, <2>4
<1>13. QED BY <1>11, <1>12

(* A byte at the end of a file: the next of its record, or the first of    *)
(* another.                                                                *)
Follows(c, b) ==
  /\ b \in Byte /\ b.i <= b.size
  /\ b.id = 0 <=> Len(c) + 1 <= LOG_HDR
  /\ Len(c) + 1 <= LOG_HDR => b.i = Len(c) + 1 /\ b.size = LOG_HDR
  /\ Len(c) > 0 => LET l == c[Len(c)] IN
                   IF IsLast(l) THEN b.i = 1
                                ELSE b.id = l.id /\ b.i = l.i + 1 /\ b.size = l.size

\* A byte that follows keeps a file well formed.
LEMMA WFAppend ==
  ASSUME NEW c, WF(c), NEW b, Follows(c, b)
  PROVE  /\ WF(Append(c, b)) /\ Extends(c, Append(c, b)) /\ Len(Append(c, b)) = Len(c) + 1
         /\ Append(c, b)[Len(c) + 1] = b
<1> DEFINE d == Append(c, b)
           L == Len(c)
<1>1. c \in Seq(Byte) /\ L \in Nat /\ LOG_HDR \in Nat /\ b \in Byte
  BY LenProperties, LogAssumption DEF WF, Follows
<1>2. d \in Seq(Byte) /\ Len(d) = L + 1 /\ d[L + 1] = b /\ \A p \in 1..L : d[p] = c[p]
  BY <1>1, AppendProperties
<1>3. Extends(c, d)
  BY <1>1, <1>2 DEF Extends
<1> HIDE DEF d
<1>4. ASSUME NEW p \in 1..Len(d)
      PROVE  /\ d[p].i <= d[p].size
             /\ d[p].id = 0 <=> p <= LOG_HDR
             /\ p <= LOG_HDR => d[p].i = p /\ d[p].size = LOG_HDR
  <2>1. CASE p = L + 1
    BY <1>1, <1>2, <2>1 DEF Follows
  <2>2. CASE p \in 1..L
    BY <1>1, <1>2, <2>2 DEF WF
  <2>3. QED BY <1>1, <1>2, <1>4, <2>1, <2>2
<1>5. ASSUME NEW p \in 1..Len(d), NEW j \in Nat,
             d[p].i + j <= d[p].size, p + j <= Len(d)
      PROVE  d[p + j].id = d[p].id /\ d[p + j].i = d[p].i + j /\ d[p + j].size = d[p].size
  <2>0. d[p] \in Byte
    BY <1>2, ElementOfSeq
  <2>1. CASE j = 0
    BY <2>0, <2>1 DEF Byte
  <2>2. CASE j # 0 /\ p + j <= L
    <3>1. p \in 1..L /\ p + j \in 1..L
      BY <1>1, <1>2, <2>2
    <3>2. d[p] = c[p] /\ d[p + j] = c[p + j]
      BY <1>2, <3>1
    <3>3. QED BY <1>5, <2>2, <3>1, <3>2 DEF WF
  <2>3. CASE j # 0 /\ p + j = L + 1
    <3>1. p \in 1..L /\ j - 1 \in Nat /\ p + (j - 1) = L /\ L > 0
      BY <1>1, <1>2, <2>3
    <3>2. d[p] = c[p] /\ d[p + j] = b
      BY <1>2, <2>3, <3>1
    <3>3. c[p].i \in Nat /\ c[p].size \in Nat /\ c[p].i + (j - 1) < c[p].size
      BY <1>5, <2>0, <3>1, <3>2 DEF Byte
    <3>4. c[L].id = c[p].id /\ c[L].i = c[p].i + (j - 1) /\ c[L].size = c[p].size
      <4>1. \A x \in Nat : c[p].i + x <= c[p].size /\ p + x <= L =>
              c[p + x].id = c[p].id /\ c[p + x].i = c[p].i + x /\ c[p + x].size = c[p].size
        BY <3>1 DEF WF
      <4>2. c[p].i + (j - 1) <= c[p].size /\ p + (j - 1) <= L
        BY <1>1, <3>1, <3>3
      <4>3. c[p + (j - 1)] = c[L]
        BY <3>1
      <4>4. QED BY <3>1, <4>1, <4>2, <4>3
    <3>5. ~IsLast(c[L])
      BY <3>1, <3>3, <3>4 DEF IsLast
    <3>6. b.id = c[L].id /\ b.i = c[L].i + 1 /\ b.size = c[L].size
      BY <3>1, <3>5 DEF Follows
    <3>7. QED BY <3>1, <3>2, <3>3, <3>4, <3>6
  <2>4. QED BY <1>1, <1>2, <1>5, <2>1, <2>2, <2>3
<1>6. ASSUME NEW p \in 1..Len(d), IsLast(d[p]), p < Len(d)
      PROVE  d[p + 1].i = 1
  <2>1. p \in 1..L /\ d[p] = c[p]
    BY <1>1, <1>2, <1>6
  <2>2. CASE p = L
    BY <1>1, <1>2, <1>6, <2>1, <2>2 DEF Follows
  <2>3. CASE p < L
    BY <1>1, <1>2, <1>6, <2>1, <2>3 DEF WF
  <2>4. QED BY <1>1, <2>1, <2>2, <2>3
<1>7. WF(d)
  BY <1>2, <1>4, <1>5, <1>6 DEF WF
<1>8. QED BY <1>2, <1>3, <1>7 DEF d

\* Cutting a file short keeps it well formed.
LEMMA WFPrefix ==
  ASSUME NEW c, WF(c), NEW n \in Nat, n <= Len(c)
  PROVE  LET d == SubSeq(c, 1, n) IN WF(d) /\ Len(d) = n /\ Extends(d, c)
<1> DEFINE d == SubSeq(c, 1, n)
<1>1. c \in Seq(Byte) /\ Len(c) \in Nat
  BY LenProperties DEF WF
<1>2. \A i \in 1..n : c[i] \in Byte
  BY <1>1, ElementOfSeq
<1>3. d \in Seq(Byte) /\ Len(d) = n /\ \A i \in 1..n : d[i] = c[i]
  BY <1>2, SubSeqProperties
<1> HIDE DEF d
<1>4. Extends(d, c)
  BY <1>3 DEF Extends
<1>5. WF(d)
  <2>1. \A p \in 1..n : p \in 1..Len(c) /\ d[p] = c[p]
    BY <1>1, <1>3
  <2>2. ASSUME NEW p \in 1..n
        PROVE  /\ d[p].i <= d[p].size
               /\ d[p].id = 0 <=> p <= LOG_HDR
               /\ p <= LOG_HDR => d[p].i = p /\ d[p].size = LOG_HDR
    BY <2>1 DEF WF
  <2>3. ASSUME NEW p \in 1..n, NEW j \in Nat, d[p].i + j <= d[p].size, p + j <= n
        PROVE  d[p + j].id = d[p].id /\ d[p + j].i = d[p].i + j /\ d[p + j].size = d[p].size
    <3>1. p + j \in 1..n
      BY <2>3
    <3>2. QED BY <1>1, <2>1, <2>3, <3>1 DEF WF
  <2>4. ASSUME NEW p \in 1..n, IsLast(d[p]), p < n PROVE d[p + 1].i = 1
    <3>1. p + 1 \in 1..n
      BY <2>4
    <3>2. QED BY <1>1, <2>1, <2>4, <3>1 DEF WF
  <2>5. QED BY <1>3, <2>2, <2>3, <2>4 DEF WF
<1>6. QED BY <1>3, <1>4, <1>5 DEF d

\* So is the header, or what is written of it.
LEMMA WFHeader ==
  ASSUME NEW n \in Nat, n <= LOG_HDR
  PROVE  LET d == SubSeq(Header, 1, n) IN WF(d) /\ Len(d) = n /\ (n = LOG_HDR => IsLast(d[n]))
<1> DEFINE d == SubSeq(Header, 1, n)
<1>1. LOG_HDR \in Nat \ {0}
  BY LogAssumption
<1>2. \A i \in 1..n : Header[i] = [id |-> 0, i |-> i, size |-> LOG_HDR] /\ Header[i] \in Byte
  BY <1>1 DEF Header, Byte
<1>3. d \in Seq(Byte) /\ Len(d) = n /\ \A i \in 1..n : d[i] = Header[i]
  <2> DEFINE h == Header
  <2>1. \A i \in 1..n : h[i] \in Byte
    BY <1>2
  <2> HIDE DEF h
  <2>2. /\ SubSeq(h, 1, n) \in Seq(Byte)
        /\ Len(SubSeq(h, 1, n)) = IF 1 <= n THEN n - 1 + 1 ELSE 0
        /\ \A i \in 1..n - 1 + 1 : SubSeq(h, 1, n)[i] = h[1 + i - 1]
    BY <2>1, SubSeqProperties
  <2>3. QED BY <2>2 DEF h
<1> HIDE DEF d
<1>4. \A p \in 1..n : d[p].id = 0 /\ d[p].i = p /\ d[p].size = LOG_HDR
  <2>1. SUFFICES ASSUME NEW p \in 1..n
                 PROVE  d[p].id = 0 /\ d[p].i = p /\ d[p].size = LOG_HDR
    OBVIOUS
  <2>2. d[p] = [id |-> 0, i |-> p, size |-> LOG_HDR]
    BY <1>2, <1>3
  <2>3. QED BY <2>2
<1>5. WF(d)
  <2>1. \A p \in 1..n : p <= LOG_HDR
    BY <1>1
  <2>2. \A p \in 1..n : \A j \in Nat : p + j <= n => p + j \in 1..n
    OBVIOUS
  <2>3. ASSUME NEW p \in 1..n, IsLast(d[p]), p < n PROVE d[p + 1].i = 1
    BY <1>1, <1>4, <2>3 DEF IsLast
  <2>4. ASSUME NEW p \in 1..n, NEW j \in Nat, d[p].i + j <= d[p].size, p + j <= n
        PROVE  d[p + j].id = d[p].id /\ d[p + j].i = d[p].i + j /\ d[p + j].size = d[p].size
    BY <1>4, <2>2, <2>4
  <2>5. QED BY <1>3, <1>4, <2>1, <2>3, <2>4 DEF WF
<1>6. QED BY <1>1, <1>3, <1>4, <1>5 DEF d, IsLast

(***************************************************************************)
(* The invariant                                                           *)
(***************************************************************************)

Cursor == [pc : {"idle", "open", "header", "scan"}, mode : Limits \cup {All, Count},
           ino : Nat, size : Nat, pos : Nat, buf : Seq(Byte), cap : Windows, off : Nat,
           n : Nat, valid : Nat, done : Seq(Nat), quiet : BOOLEAN, want : Nat]

Job == [id : Nat, size : Nat \ {0}]

Writer == [pc : {"up", "down", "create", "append", "roll"}, todo : Seq(Job), i : Nat, n : Nat,
           ids : Seq(Nat)]

Reply == [kind : {"n", "pair", "badtail", "corrupt", "io", "error"},
          mode : Limits \cup {All, Count}, n : Nat, valid : Nat, want : Nat,
          quiet : BOOLEAN, ino : Nat]

FilesOK(d) == d \in [0..MaxRolls -> Seq(Byte)] /\ \A f \in 0..MaxRolls : WF(d[f])

\* The window holds the bytes of the file that follow `pos'.
Held(r, c) == /\ r.pos + Len(r.buf) <= Len(c)
              /\ \A k \in 1..Len(r.buf) : r.buf[k] = c[r.pos + k]

\* The records up to `valid' have been evaluated or counted, and nothing else.
Seen(r, c) == /\ r.valid = r.pos + r.off /\ Boundary(c, r.valid) /\ Small(c, r.valid)
              /\ r.n = RecNo(c, r.valid)
              /\ r.done = IF r.mode = Count THEN <<>> ELSE SubSeq(Recs(c), 1, r.n)

NotSeen(r) == r.pos = 0 /\ r.off = 0 /\ r.n = 0 /\ r.valid = 0 /\ r.done = <<>>

ScanOK(r, d, cu) ==
  /\ r \in Cursor /\ r.ino <= cu
  /\ r.pc = "idle" => r.want = 0
  /\ r.quiet => r.ino = cu /\ r.size = Len(d[r.ino])
  /\ r.want <= RecNo(d[r.ino], r.size)
  /\ Len(r.buf) <= r.cap /\ r.off <= Len(r.buf) /\ Held(r, d[r.ino])
  /\ r.pc \in {"idle", "open"} => r.buf = <<>>
  /\ IF r.pc = "scan" THEN Seen(r, d[r.ino]) ELSE NotSeen(r)

\* The last answer, while the file it is about has not changed.
AnsOK(a, d, cu) ==
  \/ a = None
  \/ /\ a \in Reply
     /\ a.kind = "n" /\ a.mode < 0 => a.n >= a.want
     /\ a.kind \in {"n", "pair", "badtail"} /\ a.mode < 0 /\ a.quiet =>
          a.ino = cu /\ Judged(a.kind, a.n, a.valid, d[a.ino])
     /\ a.kind = "pair" => a.valid \in LOG_HDR..Len(d[a.ino])

Has(c, id) == \E q \in Ends(c) : c[q].id = id

\* What an append has written of its records is the end of the file.
Appending(x, c) ==
  /\ Len(c) >= LOG_HDR
  /\ \A k \in 1..Len(x.todo) : x.todo[k].id # 0
  /\ IF x.todo # <<>> /\ x.i # 0
       THEN /\ x.i < x.todo[1].size
            /\ c[Len(c)].id = x.todo[1].id /\ c[Len(c)].i = x.i
            /\ c[Len(c)].size = x.todo[1].size
       ELSE x.i = 0 /\ IsLast(c[Len(c)])
  /\ \A k \in 1..Len(x.ids) : \/ Has(c, x.ids[k])
                              \/ \E m \in 1..Len(x.todo) : x.todo[m].id = x.ids[k]

\* The count it will write is covered by the records there and those to come.
Owed(x, c) == x.n <= Cardinality(Ends(c)) + Len(x.todo)

\* What an image has written of its header is all of the file; after the
\* header it is an append of the records.
Heading(x, c) ==
  /\ x.todo # <<>> /\ x.todo[1] = HeaderJob /\ x.i = Len(c) /\ Len(c) < LOG_HDR
  /\ \A k \in 2..Len(x.todo) : x.todo[k].id # 0
  /\ x.n <= Len(x.todo) - 1
  /\ \A k \in 1..Len(x.ids) : \E m \in 2..Len(x.todo) : x.todo[m].id = x.ids[k]

WriterOK(x, c, ov) ==
  /\ x \in Writer
  /\ x.pc = "create" => Heading(x, c) \/ (Appending(x, c) /\ Owed(x, c))
  /\ x.pc = "append" => Appending(x, c) /\ (~ov => Owed(x, c))

\* The count and the acknowledged records are in the file, but for the ways
\* the history variables record.
KeptOK(cnt, ack, nx, x, c, lo, ov) ==
  /\ cnt \in Nat /\ nx \in 1..(MaxRecs + 1) /\ cnt < nx /\ x.n < nx /\ ack \in Seq(Nat)
  /\ ~ov => cnt <= Cardinality(Ends(c))
  /\ ~lo => \A k \in 1..Len(ack) : Has(c, ack[k])

Inv ==
  /\ FilesOK(disk) /\ cur \in 0..MaxRolls
  /\ w.pc = "roll" => cur < MaxRolls
  /\ WriterOK(w, disk[cur], over) /\ KeptOK(count, acked, next, w, disk[cur], lost, over)
  /\ ScanOK(rd, disk, cur) /\ AnsOK(ans, disk, cur)
  /\ ans # None => rd.pc = "idle"

(***************************************************************************)
(* The reader's steps                                                      *)
(***************************************************************************)

\* The windows log_fill allocates.
LEMMA WindowSizes ==
  /\ Windows \subseteq Nat \ {0} /\ LOG_WINDOW \in Windows /\ LOG_MAX \in Nat
  /\ \A c \in Windows : c <= LOG_MAX /\ c >= LOG_WINDOW
  /\ \A c \in Windows : IF 2 * c > LOG_MAX THEN c = LOG_MAX ELSE 2 * c \in Windows
<1>1. LOG_WINDOW \in Nat \ {0} /\ LOG_MAX \in Nat
  BY LogAssumption
<1>2. Windows \subseteq LOG_WINDOW..LOG_MAX
  BY DEF Windows
<1>3. QED BY <1>1, <1>2, WindowAssumption

\* A cursor whose scan is where c's is: only its window may differ.
SameScan(c, x) ==
  /\ x.pc = c.pc /\ x.mode = c.mode /\ x.ino = c.ino /\ x.pos = c.pos /\ x.off = c.off
  /\ x.n = c.n /\ x.valid = c.valid /\ x.done = c.done /\ x.quiet = c.quiet /\ x.want = c.want

Fillable(c, file) == c \in Cursor /\ file \in Seq(Byte) /\ Len(c.buf) <= c.cap /\ Held(c, file)

\* What log_fill may return: the end of the file, a chunk no window holds, an
\* error of the read, or more bytes of the file after those in hand.
Filled(c, file, f) ==
  /\ SameScan(c, f.c)
  /\ \/ /\ f.r = 0 /\ f.c.buf = c.buf
        /\ c.pos + Len(c.buf) >= c.size \/ c.pos + Len(c.buf) >= Len(file)
     \/ f.r = TOOBIG /\ f.c.buf = c.buf /\ Len(c.buf) = LOG_MAX
     \/ f.r = FAILED
     \/ /\ f.r \in Nat \ {0} /\ f.c.size = c.size
        /\ Fillable(f.c, file) /\ Len(f.c.buf) > Len(c.buf)

\* The fields of a cursor.
LEMMA CursorFields ==
  ASSUME NEW c \in Cursor
  PROVE  /\ c.size \in Nat /\ c.pos \in Nat /\ c.buf \in Seq(Byte) /\ c.cap \in Windows
         /\ c.off \in Nat /\ c.n \in Nat /\ c.valid \in Nat /\ c.done \in Seq(Nat)
         /\ c.ino \in Nat /\ c.want \in Nat /\ c.quiet \in BOOLEAN
         /\ c.mode \in Limits \cup {All, Count} /\ c.pc \in {"idle", "open", "header", "scan"}
         /\ Len(c.buf) \in Nat
BY LenProperties DEF Cursor

Widened(c, cap, b) == [c EXCEPT !.cap = cap, !.buf = b]

\* A cursor whose window has bytes more.
LEMMA CursorGrows ==
  ASSUME NEW c \in Cursor, NEW cap \in Windows, NEW b \in Seq(Byte)
  PROVE  LET x == Widened(c, cap, b) IN
         x \in Cursor /\ SameScan(c, x) /\ x.cap = cap /\ x.buf = b /\ x.size = c.size
BY DEF Cursor, SameScan, Widened

\* A cursor whose file ends where it stands.
LEMMA CursorShrinks ==
  ASSUME NEW c \in Cursor, NEW cap \in Windows, NEW s \in Nat
  PROVE  LET x == [c EXCEPT !.cap = cap, !.size = s] IN SameScan(c, x) /\ x.buf = c.buf
BY DEF Cursor, SameScan

\* pread returns the bytes of the file that follow the window.
LEMMA FillReads ==
  ASSUME NEW c, NEW file, Fillable(c, file), file = disk[c.ino],
         NEW cap \in Windows, cap > Len(c.buf)
  PROVE  LET len == Len(c.buf)
             rest == ReadAt(c, c.pos + len, cap - len)
         IN  /\ rest \in Seq(Byte)
             /\ rest = <<>> => c.pos + len >= Len(file)
             /\ rest # <<>> => Len(rest) \in Nat \ {0}
             /\ len + Len(rest) <= cap
             /\ rest # <<>> => c.pos + len + Len(rest) <= Len(file)
             /\ \A i \in 1..Len(rest) : rest[i] = file[c.pos + len + i]
<1> DEFINE len == Len(c.buf)
           e == Min({(c.pos + len) + (cap - len), Len(file)})
           rest == ReadAt(c, c.pos + len, cap - len)
<1>1. c.pos \in Nat /\ len \in Nat /\ Len(file) \in Nat /\ file \in Seq(Byte) /\ cap \in Nat
  BY CursorFields, LenProperties, WindowSizes DEF Fillable
<1>2. rest = SubSeq(file, c.pos + len + 1, e)
  BY DEF ReadAt
<1>3. (c.pos + len) + (cap - len) = c.pos + cap /\ c.pos + cap \in Nat
  BY <1>1
<1>4. e = IF c.pos + cap <= Len(file) THEN c.pos + cap ELSE Len(file)
  BY <1>1, <1>3, MinOfTwo
<1> HIDE DEF e, rest, len
<1>5. \A i \in (c.pos + len + 1)..e : file[i] \in Byte
  <2>1. SUFFICES ASSUME NEW i \in (c.pos + len + 1)..e PROVE file[i] \in Byte
    OBVIOUS
  <2>2. i \in 1..Len(file)
    BY <1>1, <1>4
  <2>3. QED BY <1>1, <2>2, ElementOfSeq
<1>6. e \in Nat /\ e <= Len(file) /\ e <= c.pos + cap
  BY <1>1, <1>4
<1> DEFINE m == c.pos + len + 1
<1>7. m \in Int /\ e \in Int
  BY <1>1, <1>6
<1>8. /\ rest \in Seq(Byte)
      /\ Len(rest) = IF m <= e THEN e - m + 1 ELSE 0
      /\ \A i \in 1..e - m + 1 : rest[i] = file[m + i - 1]
  <2> HIDE DEF m
  <2>1. rest = SubSeq(file, m, e) /\ \A i \in m..e : file[i] \in Byte
    BY <1>2, <1>5 DEF m
  <2>2. QED BY <1>7, <2>1, SubSeqProperties
<1>9. CASE m <= e
  <2>1. Len(rest) = e - (c.pos + len) /\ Len(rest) \in Nat \ {0}
    BY <1>1, <1>6, <1>8, <1>9
  <2>2. \A i \in 1..Len(rest) : rest[i] = file[c.pos + len + i]
    <3>1. SUFFICES ASSUME NEW i \in 1..Len(rest) PROVE rest[i] = file[c.pos + len + i]
      OBVIOUS
    <3>2. i \in 1..e - m + 1 /\ m + i - 1 = c.pos + len + i
      BY <1>1, <1>6, <2>1
    <3>3. rest[i] = file[m + i - 1]
      BY <1>8, <3>2
    <3>4. QED BY <3>2, <3>3
  <2>3. rest # <<>>
    BY <2>1, EmptySeq
  <2>4. len + Len(rest) <= cap /\ c.pos + len + Len(rest) <= Len(file)
    BY <1>1, <1>6, <2>1
  <2>5. QED BY <1>8, <2>1, <2>2, <2>3, <2>4 DEF rest, len
<1>10. CASE ~(m <= e)
  <2>1. Len(rest) = 0
    BY <1>8, <1>10
  <2>2. rest = <<>>
    BY <1>8, <2>1, EmptySeq
  <2>3. c.pos + len >= Len(file)
    <3>1. cap > len
      BY DEF len
    <3>2. c.pos \in Nat /\ len \in Nat /\ Len(file) \in Nat /\ cap \in Nat
      BY <1>1
    <3>3. CASE c.pos + cap <= Len(file)
      BY <1>4, <1>10, <3>1, <3>2, <3>3
    <3>4. CASE ~(c.pos + cap <= Len(file))
      BY <1>4, <1>10, <3>1, <3>2, <3>4
    <3>5. QED BY <3>3, <3>4
  <2>4. len + Len(rest) <= cap
    <3>1. cap > len
      BY DEF len
    <3>2. QED BY <1>1, <2>1, <3>1
  <2>5. \A i \in 1..Len(rest) : rest[i] = file[c.pos + len + i]
    BY <2>1
  <2>6. rest \in Seq(Byte)
    BY <1>8
  <2>7. QED BY <2>2, <2>3, <2>4, <2>5, <2>6 DEF rest, len
<1>11. QED BY <1>9, <1>10

JoinOK(s, t) == /\ s \o t \in Seq(Byte) /\ Len(s \o t) = Len(s) + Len(t)
                /\ \A i \in 1..Len(s) + Len(t) :
                      (s \o t)[i] = IF i <= Len(s) THEN s[i] ELSE t[i - Len(s)]

\* Two runs of bytes, one behind the other.
LEMMA JoinedBytes ==
  ASSUME NEW s \in Seq(Byte), NEW t \in Seq(Byte)
  PROVE  JoinOK(s, t)
BY ConcatProperties DEF JoinOK

\* A window with more of the file behind it is still a window of the file.
LEMMA HeldMore ==
  ASSUME NEW file \in Seq(Byte), NEW a \in Seq(Byte), NEW pos \in Nat, NEW rest \in Seq(Byte),
         NEW k \in 1..Len(rest), pos + Len(a) + Len(rest) <= Len(file),
         \A i \in 1..Len(a) : a[i] = file[pos + i],
         \A i \in 1..Len(rest) : rest[i] = file[pos + Len(a) + i],
         NEW b, b = a \o SubSeq(rest, 1, k)
  PROVE  /\ b \in Seq(Byte) /\ Len(b) = Len(a) + k /\ pos + Len(b) <= Len(file)
         /\ \A i \in 1..Len(b) : b[i] = file[pos + i]
<1> DEFINE t == SubSeq(rest, 1, k)
           la == Len(a)
           lr == Len(rest)
           lf == Len(file)
<1>1. la \in Nat /\ lr \in Nat /\ lf \in Nat
  BY LenProperties
<1>2. k \in Nat /\ k <= lr
  BY <1>1
<1>3. \A i \in 1..k : rest[i] \in Byte
  <2>1. SUFFICES ASSUME NEW i \in 1..k PROVE rest[i] \in Byte
    OBVIOUS
  <2>2. i \in 1..Len(rest)
    BY <1>1, <1>2
  <2>3. QED BY <2>2, ElementOfSeq
<1>4. t \in Seq(Byte) /\ Len(t) = k /\ \A i \in 1..k : t[i] = rest[i]
  BY <1>2, <1>3, SubSeqProperties
<1> HIDE DEF t
<1>5. b \in Seq(Byte) /\ Len(b) = Len(a) + Len(t)
      /\ \A i \in 1..Len(a) + Len(t) : b[i] = IF i <= Len(a) THEN a[i] ELSE t[i - Len(a)]
  <2>1. JoinOK(a, t)
    BY <1>4, JoinedBytes
  <2>2. b = a \o t
    BY DEF t
  <2>3. QED BY <2>1, <2>2 DEF JoinOK
<1> HIDE DEF la, lr, lf
<1>6. Len(b) = la + k /\ \A i \in 1..la + k : b[i] = IF i <= la THEN a[i] ELSE t[i - la]
  BY <1>4, <1>5 DEF la
<1>7. pos + (la + k) <= lf
  <2>1. pos + la + lr <= lf
    BY DEF la, lr, lf
  <2>2. QED BY <1>1, <1>2, <2>1
<1>8. ASSUME NEW i \in 1..(la + k) PROVE b[i] = file[pos + i]
  <2>1. CASE i <= la
    <3>1. i \in 1..Len(a)
      BY <1>1, <2>1 DEF la
    <3>2. b[i] = a[i]
      BY <1>6, <2>1
    <3>3. QED BY <3>1, <3>2
  <2>2. CASE ~(i <= la)
    <3>1. i - la \in 1..k /\ i - la \in 1..lr /\ pos + la + (i - la) = pos + i
      BY <1>1, <1>2, <2>2
    <3>2. b[i] = t[i - la] /\ t[i - la] = rest[i - la]
      BY <1>4, <1>6, <2>2, <3>1
    <3>3. rest[i - la] = file[pos + la + (i - la)]
      BY <3>1 DEF la, lr
    <3>4. QED BY <3>1, <3>2, <3>3
  <2>3. QED BY <2>1, <2>2
<1>9. QED BY <1>5, <1>6, <1>7, <1>8 DEF la, lf

\* log_fill returns one of the four outcomes of Filled.
LEMMA FillOK ==
  ASSUME NEW c, NEW file, Fillable(c, file), file = disk[c.ino], NEW f \in log_fill(c)
  PROVE  Filled(c, file, f)
<1> DEFINE len  == Len(c.buf)
           full == len = c.cap
           cap  == IF full THEN 2 * c.cap ELSE c.cap
           rest == ReadAt(c, c.pos + len, cap - len)
<1>1. /\ c \in Cursor /\ c.pos \in Nat /\ len \in Nat /\ c.size \in Nat /\ len <= c.cap
      /\ c.cap \in Windows /\ c.cap \in Nat \ {0} /\ c.buf \in Seq(Byte)
  BY CursorFields, WindowSizes DEF Fillable
<1>2. SameScan(c, c)
  BY DEF SameScan
<1>3. CASE c.pos + len >= c.size
  <2>1. f = [r |-> 0, c |-> c]
    BY <1>3 DEF log_fill
  <2>2. f.r = 0 /\ f.c = c
    BY <2>1
  <2>3. QED BY <1>2, <1>3, <2>2 DEF Filled
<1>4. CASE ~(c.pos + len >= c.size) /\ full /\ cap > LOG_MAX
  <2>1. f = [r |-> TOOBIG, c |-> c]
    BY <1>4 DEF log_fill
  <2>2. f.r = TOOBIG /\ f.c = c
    BY <2>1
  <2>3. len = LOG_MAX
    BY <1>1, <1>4, WindowSizes
  <2>4. QED BY <1>2, <2>2, <2>3 DEF Filled
<1>5. CASE ~(c.pos + len >= c.size) /\ ~(full /\ cap > LOG_MAX)
  <2>1. cap \in Windows /\ cap > len
    BY <1>1, <1>5, WindowSizes
  <2>2. /\ rest \in Seq(Byte)
        /\ rest = <<>> => c.pos + len >= Len(file)
        /\ rest # <<>> => Len(rest) \in Nat \ {0}
        /\ len + Len(rest) <= cap /\ (rest # <<>> => c.pos + len + Len(rest) <= Len(file))
        /\ \A i \in 1..Len(rest) : rest[i] = file[c.pos + len + i]
    <3> HIDE DEF cap
    <3>1. QED BY <2>1, FillReads
  <2> DEFINE x0 == [c EXCEPT !.cap = cap, !.size = c.pos + len]
             x(k) == [c EXCEPT !.cap = cap, !.buf = c.buf \o SubSeq(rest, 1, k)]
  <2>3. \/ f = [r |-> FAILED, c |-> c]
        \/ rest = <<>> /\ f = [r |-> 0, c |-> x0]
        \/ rest # <<>> /\ \E k \in {1, Len(rest)} : f = [r |-> k, c |-> x(k)]
    BY <1>5 DEF log_fill
  <2>4. c.pos + len \in Nat
    BY <1>1
  <2> HIDE DEF cap, rest, len
  <2>5. CASE f = [r |-> FAILED, c |-> c]
    BY <1>2, <2>5 DEF Filled
  <2>6. CASE rest = <<>> /\ f = [r |-> 0, c |-> x0]
    <3>1. SameScan(c, x0) /\ x0.buf = c.buf
      BY <1>1, <2>1, <2>4, CursorShrinks
    <3> HIDE DEF x0
    <3>2. f.r = 0 /\ f.c = x0
      BY <2>6
    <3>3. c.pos + Len(c.buf) >= Len(file)
      BY <2>2, <2>6 DEF len
    <3>4. QED BY <3>1, <3>2, <3>3 DEF Filled
  <2>7. ASSUME rest # <<>>, NEW k \in {1, Len(rest)}, f = [r |-> k, c |-> x(k)]
        PROVE  Filled(c, file, f)
    <3> DEFINE b == c.buf \o SubSeq(rest, 1, k)
    <3>1. Len(rest) \in Nat \ {0} /\ k \in 1..Len(rest) /\ k \in Nat \ {0}
      BY <2>2, <2>7
    <3>2. /\ b \in Seq(Byte) /\ Len(b) = len + k /\ c.pos + Len(b) <= Len(file)
          /\ \A i \in 1..Len(b) : b[i] = file[c.pos + i]
      <4>1. file \in Seq(Byte) /\ \A i \in 1..len : c.buf[i] = file[c.pos + i]
        BY DEF Fillable, Held, len
      <4>2. c.buf \in Seq(Byte) /\ c.pos \in Nat /\ len = Len(c.buf)
        BY <1>1 DEF len
      <4>3. c.pos + len + Len(rest) <= Len(file) /\ rest \in Seq(Byte)
            /\ \A i \in 1..Len(rest) : rest[i] = file[c.pos + len + i]
        BY <2>2, <2>7
      <4>4. b = c.buf \o SubSeq(rest, 1, k) /\ k \in 1..Len(rest)
        BY <3>1
      <4> HIDE DEF b
      <4> DEFINE a == c.buf
                 pos == c.pos
      <4>5. a \in Seq(Byte) /\ pos \in Nat /\ len = Len(a) /\ b = a \o SubSeq(rest, 1, k)
        BY <4>2, <4>4
      <4>6. /\ pos + Len(a) + Len(rest) <= Len(file)
            /\ \A i \in 1..Len(a) : a[i] = file[pos + i]
            /\ \A i \in 1..Len(rest) : rest[i] = file[pos + Len(a) + i]
        BY <4>1, <4>2, <4>3
      <4> HIDE DEF a, pos
      <4>7. /\ b \in Seq(Byte) /\ Len(b) = Len(a) + k /\ pos + Len(b) <= Len(file)
            /\ \A i \in 1..Len(b) : b[i] = file[pos + i]
        <5>1. file \in Seq(Byte) /\ rest \in Seq(Byte) /\ k \in 1..Len(rest)
          BY <3>1, <4>1, <4>3
        <5>2. QED BY <4>5, <4>6, <5>1, HeldMore
      <4>8. QED BY <4>5, <4>7 DEF pos
    <3>4. /\ x(k) \in Cursor /\ SameScan(c, x(k)) /\ x(k).cap = cap /\ x(k).buf = b
          /\ x(k).size = c.size
      <4> HIDE DEF b, x
      <4>1. x(k) = Widened(c, cap, b)
        BY DEF b, x, Widened
      <4>2. c \in Cursor /\ cap \in Windows /\ b \in Seq(Byte)
        BY <1>1, <2>1, <3>2
      <4>3. QED BY <4>1, <4>2, CursorGrows
    <3> HIDE DEF b, x
    <3>5. f.r = k /\ f.c = x(k)
      BY <2>7
    <3>6. Len(b) <= cap /\ Len(b) > len
      <4>1. cap \in Nat
        BY <2>1, WindowSizes
      <4>2. len + Len(rest) <= cap /\ len \in Nat
        BY <1>1, <2>2
      <4>3. QED BY <3>1, <3>2, <4>1, <4>2
    <3>9. Fillable(f.c, file)
      <4>1. f.c.pos = c.pos
        BY <3>4, <3>5 DEF SameScan
      <4>2. Held(f.c, file)
        BY <3>2, <3>4, <3>5, <4>1 DEF Held
      <4>3. QED BY <3>4, <3>5, <3>6, <4>2 DEF Fillable
    <3>10. Len(f.c.buf) > Len(c.buf)
      BY <3>4, <3>5, <3>6 DEF len
    <3>11. QED BY <3>1, <3>4, <3>5, <3>9, <3>10 DEF Filled
  <2>8. QED BY <2>3, <2>5, <2>6, <2>7
<1>6. QED BY <1>3, <1>4, <1>5

\* A reader's step leaves the reader right.
ReaderNext == /\ ScanOK(rd', disk, cur) /\ AnsOK(ans', disk, cur)
              /\ ans' # None => rd'.pc = "idle"

\* What the reader's steps use of the invariant.
LEMMA InvFacts ==
  ASSUME Inv
  PROVE  /\ FilesOK(disk) /\ cur \in 0..MaxRolls /\ cur \in Nat /\ MaxRolls \in Nat
         /\ ScanOK(rd, disk, cur) /\ rd \in Cursor /\ rd.ino \in 0..MaxRolls
         /\ WF(disk[rd.ino]) /\ disk[rd.ino] \in Seq(Byte) /\ Len(disk[rd.ino]) \in Nat
         /\ WF(disk[cur]) /\ disk[cur] \in Seq(Byte) /\ Len(disk[cur]) \in Nat
         /\ Fillable(rd, disk[rd.ino])
         /\ rd.pc # "idle" => ans = None
<1>1. FilesOK(disk) /\ cur \in 0..MaxRolls /\ ScanOK(rd, disk, cur) /\ (ans # None => rd.pc = "idle")
  BY DEF Inv
<1>2. MaxRolls \in Nat
  BY LogAssumption
<1>3. rd \in Cursor /\ rd.ino <= cur /\ Len(rd.buf) <= rd.cap /\ Held(rd, disk[rd.ino])
  BY <1>1 DEF ScanOK
<1>4. rd.ino \in 0..MaxRolls
  BY <1>1, <1>2, <1>3, CursorFields
<1>5. WF(disk[rd.ino]) /\ disk[rd.ino] \in Seq(Byte) /\ WF(disk[cur]) /\ disk[cur] \in Seq(Byte)
  BY <1>1, <1>4 DEF FilesOK
<1>6. Len(disk[rd.ino]) \in Nat /\ Len(disk[cur]) \in Nat
  BY <1>5, LenProperties
<1>7. Fillable(rd, disk[rd.ino])
  BY <1>3, <1>5 DEF Fillable
<1>8. QED BY <1>1, <1>2, <1>3, <1>4, <1>5, <1>6, <1>7

\* A reader that is not scanning.
LEMMA NoScanOK ==
  ASSUME FilesOK(disk), cur \in 0..MaxRolls
  PROVE  ScanOK(NoScan, disk, cur)
<1>1. NoScan \in Cursor
  <2>1. LOG_WINDOW \in Windows
    BY WindowSizes
  <2>2. <<>> \in Seq(Byte) /\ <<>> \in Seq(Nat)
    BY EmptySeq
  <2>3. QED BY <2>1, <2>2 DEF NoScan, Cursor
<1>2. MaxRolls \in Nat
  BY LogAssumption
<1>3. disk[0] \in Seq(Byte) /\ Len(disk[0]) \in Nat
  BY <1>2, LenProperties DEF FilesOK
<1>4. RecNo(disk[0], 0) \in Nat
  BY <1>3, RecNoNat
<1>5. /\ NoScan.pc = "idle" /\ NoScan.ino = 0 /\ NoScan.size = 0 /\ NoScan.pos = 0
      /\ NoScan.buf = <<>> /\ NoScan.cap = LOG_WINDOW /\ NoScan.off = 0 /\ NoScan.n = 0
      /\ NoScan.valid = 0 /\ NoScan.done = <<>> /\ NoScan.quiet = FALSE /\ NoScan.want = 0
  BY DEF NoScan
<1>6. Len(NoScan.buf) = 0
  BY <1>5, EmptySeq
<1>7. LOG_WINDOW \in Nat
  BY LogAssumption
<1>8. Held(NoScan, disk[0]) /\ NotSeen(NoScan)
  BY <1>3, <1>5, <1>6 DEF Held, NotSeen
<1>9. QED BY <1>1, <1>2, <1>4, <1>5, <1>6, <1>7, <1>8 DEF ScanOK

\* The fields an answer is made of.
Telling(c) == /\ c.mode \in Limits \cup {All, Count} /\ c.n \in Nat /\ c.valid \in Nat
              /\ c.want \in Nat /\ c.quiet \in BOOLEAN /\ c.ino \in Nat

\* A scan that ends leaves its answer and no cursor.
LEMMA AnswerOK ==
  ASSUME FilesOK(disk), cur \in 0..MaxRolls, NEW c, Telling(c),
         NEW kind \in {"n", "pair", "badtail", "corrupt", "io", "error"}, Answer(kind, c),
         kind = "n" /\ c.mode < 0 => c.n >= c.want,
         kind \in {"n", "pair", "badtail"} /\ c.mode < 0 /\ c.quiet =>
           c.ino = cur /\ Judged(kind, c.n, c.valid, disk[c.ino]),
         kind = "pair" => c.valid \in LOG_HDR..Len(disk[c.ino])
  PROVE  ReaderNext
<1>1. rd' = NoScan /\ rd'.pc = "idle"
  BY DEF Answer, NoScan
<1>2. ScanOK(rd', disk, cur)
  BY <1>1, NoScanOK
<1>3. ans' \in Reply
  BY DEF Answer, Telling, Reply
<1>4. /\ ans'.kind = kind /\ ans'.mode = c.mode /\ ans'.n = c.n /\ ans'.valid = c.valid
      /\ ans'.want = c.want /\ ans'.quiet = c.quiet /\ ans'.ino = c.ino
  BY DEF Answer
<1>5. AnsOK(ans', disk, cur)
  BY <1>3, <1>4 DEF AnsOK
<1>6. QED BY <1>1, <1>2, <1>5 DEF ReaderNext

\* So does an error, which tells nothing.
LEMMA ErrorOK ==
  ASSUME FilesOK(disk), cur \in 0..MaxRolls, Answer("io", NoScan) \/ Answer("error", NoScan)
  PROVE  ReaderNext
<1>1. Telling(NoScan)
  BY DEF Telling, NoScan
<1>2. CASE Answer("io", NoScan)
  BY <1>1, <1>2, AnswerOK
<1>3. CASE Answer("error", NoScan)
  BY <1>1, <1>3, AnswerOK
<1>4. QED BY <1>2, <1>3

\* A cursor has what an answer tells.
LEMMA CursorTells ==
  ASSUME NEW c \in Cursor, NEW x, SameScan(c, x)
  PROVE  Telling(x)
BY CursorFields DEF SameScan, Telling

\* The stat of the file starts a scan.
LEMMA LogStatOK ==
  ASSUME Inv, LogStat
  PROVE  ReaderNext
<1> DEFINE k == Len(Recs(File))
<1>1. PICK m \in Limits \cup {All, Count} :
        rd' = [NoScan EXCEPT !.pc = "open", !.mode = m, !.ino = cur, !.size = Len(File),
                             !.quiet = TRUE, !.want = k]
  BY DEF LogStat
<1>2. File \in Seq(Byte) /\ Len(File) \in Nat /\ cur \in Nat /\ File = disk[cur]
  BY InvFacts DEF File
<1>3. k \in Nat /\ k = RecNo(File, Len(File))
  <2>1. k = Cardinality(Ends(File)) /\ k \in Nat /\ \A q \in Ends(File) : q <= Len(File)
    BY <1>2, RecsOf, EndsFinite
  <2>2. QED BY <1>2, <2>1, RecNoAll
<1> HIDE DEF k
<1>4. LOG_WINDOW \in Windows /\ <<>> \in Seq(Byte) /\ <<>> \in Seq(Nat) /\ Len(<<>>) = 0
      /\ LOG_WINDOW \in Nat
  BY WindowSizes, EmptySeq, LogAssumption
<1>5. rd' = [pc |-> "open", mode |-> m, ino |-> cur, size |-> Len(File), pos |-> 0,
             buf |-> <<>>, cap |-> LOG_WINDOW, off |-> 0, n |-> 0, valid |-> 0,
             done |-> <<>>, quiet |-> TRUE, want |-> k]
  BY <1>1 DEF NoScan
<1>6. rd' \in Cursor
  BY <1>2, <1>3, <1>4, <1>5 DEF Cursor
<1>7. /\ rd'.pc = "open" /\ rd'.ino = cur /\ rd'.size = Len(File) /\ rd'.pos = 0
      /\ rd'.buf = <<>> /\ rd'.cap = LOG_WINDOW /\ rd'.off = 0 /\ rd'.n = 0
      /\ rd'.valid = 0 /\ rd'.done = <<>> /\ rd'.want = k
  BY <1>5
<1> DEFINE r2 == rd'
<1>8. Held(r2, disk[cur]) /\ NotSeen(r2)
  BY <1>2, <1>4, <1>7 DEF Held, NotSeen
<1>9. ans' = None
  BY DEF LogStat
<1>10. ScanOK(r2, disk, cur)
  <2> HIDE DEF r2
  <2>1. /\ r2 \in Cursor /\ r2.pc = "open" /\ r2.ino = cur /\ r2.size = Len(disk[cur])
        /\ r2.buf = <<>> /\ r2.cap = LOG_WINDOW /\ r2.off = 0 /\ r2.want = k
    BY <1>2, <1>6, <1>7 DEF r2
  <2>2. QED BY <1>2, <1>3, <1>4, <1>8, <2>1 DEF ScanOK
<1>11. AnsOK(ans', disk, cur)
  BY <1>9 DEF AnsOK
<1>12. QED BY <1>9, <1>10, <1>11 DEF ReaderNext

\* What a running scan knows.
LEMMA ScanFacts ==
  ASSUME NEW r, NEW d, NEW cu, ScanOK(r, d, cu)
  PROVE  /\ r \in Cursor /\ r.ino <= cu /\ r.want <= RecNo(d[r.ino], r.size)
         /\ r.quiet => r.ino = cu /\ r.size = Len(d[r.ino])
         /\ Len(r.buf) <= r.cap /\ r.off <= Len(r.buf) /\ Held(r, d[r.ino])
         /\ r.pc = "scan" => Seen(r, d[r.ino])
         /\ r.pc # "scan" => NotSeen(r)
BY DEF ScanOK

\* A cursor whose scan is under way is right if its parts are.
LEMMA ScanMade ==
  ASSUME NEW r, NEW d, NEW cu, r \in Cursor, r.ino <= cu, r.pc \in {"header", "scan"},
         r.quiet => r.ino = cu /\ r.size = Len(d[r.ino]),
         r.want <= RecNo(d[r.ino], r.size),
         Len(r.buf) <= r.cap, r.off <= Len(r.buf), Held(r, d[r.ino]),
         r.pc = "scan" => Seen(r, d[r.ino]),
         r.pc # "scan" => NotSeen(r)
  PROVE  ScanOK(r, d, cu)
BY DEF ScanOK

\* The open finds the file the path names now.
LEMMA LogOpenOK ==
  ASSUME Inv, LogOpen
  PROVE  ReaderNext
<1>1. /\ FilesOK(disk) /\ cur \in 0..MaxRolls /\ cur \in Nat /\ ScanOK(rd, disk, cur)
      /\ rd \in Cursor /\ rd.pc = "open" /\ ans = None
      /\ disk[cur] \in Seq(Byte) /\ Len(disk[cur]) \in Nat
  BY InvFacts DEF LogOpen
<1>2. SameScan(rd, rd) /\ Telling(rd)
  BY <1>1, CursorTells DEF SameScan
<1>3. CASE Answer("io", NoScan)
  BY <1>1, <1>3, ErrorOK
<1>4. CASE /\ rd' = [rd EXCEPT !.pc = "header", !.ino = cur,
                               !.want = IF rd.ino = cur THEN @ ELSE 0]
           /\ ans' = ans
  <2> DEFINE r2 == rd'
  <2>1. /\ r2 \in Cursor /\ r2.pc = "header" /\ r2.ino = cur
        /\ r2.want = IF rd.ino = cur THEN rd.want ELSE 0
        /\ r2.quiet = rd.quiet /\ r2.size = rd.size /\ r2.buf = rd.buf /\ r2.cap = rd.cap
        /\ r2.off = rd.off /\ r2.pos = rd.pos /\ r2.n = rd.n /\ r2.valid = rd.valid
        /\ r2.done = rd.done
    BY <1>1, <1>4 DEF Cursor
  <2> HIDE DEF r2
  <2>2. rd.buf = <<>> /\ Len(rd.buf) = 0 /\ rd.cap \in Nat /\ rd.size \in Nat
    BY <1>1, CursorFields, WindowSizes, EmptySeq DEF ScanOK
  <2>3. NotSeen(rd) /\ (rd.quiet => rd.ino = cur /\ rd.size = Len(disk[rd.ino]))
        /\ rd.want <= RecNo(disk[rd.ino], rd.size)
    BY <1>1, ScanFacts
  <2>4. NotSeen(r2)
    BY <2>1, <2>3 DEF NotSeen
  <2>5. Held(r2, disk[cur])
    BY <1>1, <2>1, <2>2, <2>3 DEF Held, NotSeen
  <2>6. r2.want <= RecNo(disk[cur], r2.size)
    <3>1. RecNo(disk[cur], rd.size) \in Nat
      BY <1>1, <2>2, RecNoNat
    <3>2. QED BY <2>1, <2>3, <3>1
  <2>7. Len(r2.buf) <= r2.cap /\ r2.off <= Len(r2.buf)
    BY <2>1, <2>2, <2>3 DEF NotSeen
  <2>8. ScanOK(r2, disk, cur)
    BY <1>1, <2>1, <2>3, <2>4, <2>5, <2>6, <2>7, ScanMade
  <2>9. QED BY <1>1, <1>4, <2>8 DEF ReaderNext, AnsOK, r2
<1>5. QED BY <1>3, <1>4 DEF LogOpen

\* More bytes in the window leave the scan where it is.
LEMMA FilledScan ==
  ASSUME NEW s, ScanOK(s, disk, cur), s.pc \in {"header", "scan"}, cur \in Nat,
         NEW f, Filled(s, disk[s.ino], f), f.r \in Nat \ {0}
  PROVE  ScanOK(f.c, disk, cur) /\ f.c.pc # "idle"
<1> DEFINE x == f.c
<1>1. /\ SameScan(s, x) /\ x.size = s.size /\ Fillable(x, disk[s.ino]) /\ Len(x.buf) > Len(s.buf)
  BY DEF Filled, TOOBIG, FAILED
<1> HIDE DEF x
<1>2. /\ s \in Cursor /\ s.ino <= cur /\ s.want <= RecNo(disk[s.ino], s.size)
      /\ s.quiet => s.ino = cur /\ s.size = Len(disk[s.ino])
      /\ s.off <= Len(s.buf)
      /\ s.pc = "scan" => Seen(s, disk[s.ino])
      /\ s.pc # "scan" => NotSeen(s)
  BY ScanFacts
<1>3. x \in Cursor /\ Len(x.buf) <= x.cap /\ Held(x, disk[s.ino]) /\ x.ino = s.ino /\ x.pc = s.pc
  BY <1>1 DEF Fillable, SameScan
<1>4. x.off <= Len(x.buf)
  <2>1. x.off = s.off /\ s.off \in Nat /\ Len(x.buf) \in Nat /\ Len(s.buf) \in Nat
    BY <1>1, <1>2, <1>3, CursorFields DEF SameScan
  <2>2. QED BY <1>1, <1>2, <2>1
<1>5. x.pc = "scan" => Seen(x, disk[x.ino])
  <2>1. x.valid = s.valid /\ x.pos = s.pos /\ x.off = s.off /\ x.n = s.n /\ x.mode = s.mode
        /\ x.done = s.done
    BY <1>1 DEF SameScan
  <2>2. QED BY <1>2, <1>3, <2>1 DEF Seen
<1>6. x.pc # "scan" => NotSeen(x)
  BY <1>1, <1>2 DEF SameScan, NotSeen
<1>7. x.quiet = s.quiet /\ x.want = s.want
  BY <1>1 DEF SameScan
<1>8. ScanOK(x, disk, cur)
  <2>1. x.quiet => x.ino = cur /\ x.size = Len(disk[x.ino])
    BY <1>1, <1>2, <1>3, <1>7
  <2>2. x.want <= RecNo(disk[x.ino], x.size)
    BY <1>1, <1>2, <1>3, <1>7
  <2>3. QED BY <1>2, <1>3, <1>4, <1>5, <1>6, <2>1, <2>2, ScanMade
<1>9. QED BY <1>3, <1>8 DEF x

\* A file with a whole header has a boundary behind it and no record before.
LEMMA HeaderRead ==
  ASSUME NEW c, WF(c), Len(c) >= LOG_HDR
  PROVE  /\ Boundary(c, LOG_HDR) /\ Small(c, LOG_HDR) /\ RecNo(c, LOG_HDR) = 0
<1>1. c \in Seq(Byte) /\ Len(c) \in Nat /\ DOMAIN c = 1..Len(c) /\ LOG_HDR \in Nat \ {0}
  BY LenProperties, LogAssumption DEF WF
<1>2. Boundary(c, LOG_HDR)
  BY <1>1 DEF WF, Boundary, IsLast
<1>3. Small(c, LOG_HDR)
  BY <1>1 DEF WF, Small, Ends
<1>4. QED BY <1>1, <1>2, <1>3, BoundaryEnds

\* The header is read, or the file ends before it does.
LEMMA ReadHeaderOK ==
  ASSUME Inv, ReadHeader
  PROVE  ReaderNext
<1> DEFINE c == disk[rd.ino]
<1>1. /\ FilesOK(disk) /\ cur \in 0..MaxRolls /\ cur \in Nat /\ ScanOK(rd, disk, cur)
      /\ rd \in Cursor /\ rd.pc = "header" /\ ans = None /\ Fillable(rd, c)
      /\ WF(c) /\ c \in Seq(Byte) /\ Len(c) \in Nat
  BY InvFacts DEF ReadHeader
<1>2. LOG_HDR \in Nat \ {0}
  BY LogAssumption
<1>3. /\ NotSeen(rd) /\ Held(rd, c) /\ Len(rd.buf) <= rd.cap /\ rd.ino <= cur
      /\ rd.quiet => rd.ino = cur /\ rd.size = Len(c)
      /\ rd.want <= RecNo(c, rd.size)
  BY <1>1, ScanFacts
<1>4. Len(rd.buf) \in Nat /\ rd.size \in Nat
  BY <1>1, CursorFields
<1>5. CASE Len(rd.buf) < LOG_HDR
  <2>1. PICK f \in log_fill(rd) : \/ f.r > 0 /\ rd' = f.c /\ UNCHANGED ans
                                  \/ f.r = 0 /\ Answer("corrupt", f.c)
                                  \/ f.r < 0 /\ Answer("io", NoScan)
    BY <1>2, <1>4, <1>5 DEF ReadHeader
  <2>2. Filled(rd, c, f)
    BY <1>1, FillOK
  <2>3. SameScan(rd, f.c) /\ Telling(f.c)
    BY <1>1, <2>2, CursorTells DEF Filled
  <2>4. CASE f.r > 0 /\ rd' = f.c /\ UNCHANGED ans
    <3>1. f.r \in Nat \ {0}
      BY <2>2, <2>4 DEF Filled, TOOBIG, FAILED
    <3>2. ScanOK(f.c, disk, cur)
      BY <1>1, <2>2, <3>1, FilledScan
    <3>3. QED BY <1>1, <2>4, <3>2 DEF ReaderNext, AnsOK
  <2>5. CASE f.r = 0 /\ Answer("corrupt", f.c)
    BY <1>1, <2>3, <2>5, AnswerOK
  <2>6. CASE f.r < 0 /\ Answer("io", NoScan)
    BY <1>1, <2>6, ErrorOK
  <2>7. QED BY <2>1, <2>4, <2>5, <2>6
<1>6. CASE Len(rd.buf) >= LOG_HDR
  <2> DEFINE r2 == [rd EXCEPT !.pc = "scan", !.off = LOG_HDR, !.valid = LOG_HDR]
  <2>1. rd' = r2 /\ ans' = ans
    BY <1>2, <1>4, <1>6 DEF ReadHeader
  <2>2. /\ r2 \in Cursor /\ r2.pc = "scan" /\ r2.off = LOG_HDR /\ r2.valid = LOG_HDR
        /\ r2.ino = rd.ino /\ r2.want = rd.want /\ r2.mode = rd.mode
        /\ r2.quiet = rd.quiet /\ r2.size = rd.size /\ r2.buf = rd.buf /\ r2.cap = rd.cap
        /\ r2.pos = rd.pos /\ r2.n = rd.n /\ r2.done = rd.done
    BY <1>1, <1>2 DEF Cursor
  <2> HIDE DEF r2
  <2>3. rd.pos = 0 /\ rd.n = 0 /\ rd.done = <<>>
    BY <1>3 DEF NotSeen
  <2>4. Len(c) >= LOG_HDR
    BY <1>1, <1>2, <1>3, <1>4, <1>6, <2>3 DEF Held
  <2>5. Boundary(c, LOG_HDR) /\ Small(c, LOG_HDR) /\ RecNo(c, LOG_HDR) = 0
    BY <1>1, <2>4, HeaderRead
  <2>6. SubSeq(Recs(c), 1, 0) = <<>>
    BY SubSeqEmpty
  <2>7. Seen(r2, c)
    BY <1>2, <2>2, <2>3, <2>5, <2>6 DEF Seen
  <2>8. Held(r2, c)
    BY <1>3, <2>2 DEF Held
  <2>9. r2.off <= Len(r2.buf)
    BY <1>6, <2>2, <1>2, <1>4
  <2>10. ScanOK(r2, disk, cur)
    BY <1>1, <1>3, <2>2, <2>7, <2>8, <2>9, ScanMade
  <2>11. QED BY <1>1, <2>1, <2>10 DEF ReaderNext, AnsOK
<1>7. QED BY <1>2, <1>4, <1>5, <1>6

\* One record more of a sequence.
LEMMA LongerSubSeq ==
  ASSUME NEW R \in Seq(Nat), NEW n \in Nat, n + 1 \in 1..Len(R)
  PROVE  SubSeq(R, 1, n + 1) = Append(SubSeq(R, 1, n), R[n + 1])
<1> DEFINE t == SubSeq(R, 1, n)
           u == SubSeq(R, 1, n + 1)
           a == Append(t, R[n + 1])
<1>1. Len(R) \in Nat
  BY LenProperties
<1>2. \A i \in 1..(n + 1) : R[i] \in Nat
  <2>1. SUFFICES ASSUME NEW i \in 1..(n + 1) PROVE R[i] \in Nat
    OBVIOUS
  <2>2. i \in 1..Len(R)
    BY <1>1
  <2>3. QED BY <2>2, ElementOfSeq
<1>3. t \in Seq(Nat) /\ Len(t) = n /\ \A i \in 1..n : t[i] = R[i]
  BY <1>2, SubSeqProperties
<1>4. u \in Seq(Nat) /\ Len(u) = n + 1 /\ \A i \in 1..(n + 1) : u[i] = R[i]
  BY <1>2, SubSeqProperties
<1> HIDE DEF t, u
<1>5. R[n + 1] \in Nat
  BY <1>2
<1>6. a \in Seq(Nat) /\ Len(a) = n + 1 /\ (\A i \in 1..n : a[i] = t[i]) /\ a[n + 1] = R[n + 1]
  BY <1>3, <1>5, AppendProperties
<1> HIDE DEF a
<1>7. ASSUME NEW i \in 1..(n + 1) PROVE u[i] = a[i]
  <2>1. CASE i = n + 1
    BY <1>4, <1>6, <2>1
  <2>2. CASE i # n + 1
    <3>1. i \in 1..n
      BY <2>2
    <3>2. QED BY <1>3, <1>4, <1>6, <3>1
  <2>3. QED BY <2>1, <2>2
<1>8. u = a
  BY <1>4, <1>6, <1>7, SeqEqual
<1>9. QED BY <1>8 DEF u, a, t

\* Evaluating or counting the chunk at the cursor moves the scan to its end.
LEMMA ConsumeOK ==
  ASSUME NEW c, WF(c), NEW r \in Cursor, Held(r, c), Seen(r, c), Len(r.buf) <= r.cap,
         r.off <= Len(r.buf), Decodes(r)
  PROVE  LET x == Consume(r) IN
         /\ x \in Cursor /\ x.pc = r.pc /\ x.ino = r.ino /\ x.want = r.want
         /\ x.quiet = r.quiet /\ x.size = r.size /\ x.buf = r.buf /\ x.cap = r.cap
         /\ Held(x, c) /\ Seen(x, c) /\ x.off <= Len(x.buf)
<1> DEFINE b == r.buf[r.off + 1]
           s == b.size
           v == r.valid
           x == Consume(r)
           dn == IF r.mode = Count THEN r.done ELSE Append(r.done, b.id)
<1>1. /\ r.pos \in Nat /\ r.off \in Nat /\ r.n \in Nat /\ v \in Nat /\ r.buf \in Seq(Byte)
      /\ Len(r.buf) \in Nat /\ r.cap \in Windows /\ r.done \in Seq(Nat)
  BY CursorFields
<1>2. c \in Seq(Byte) /\ Len(c) \in Nat /\ LOG_MAX \in Nat /\ LOG_HDR \in Nat
  BY LenProperties, LogAssumption DEF WF
<1>3. r.off < Len(r.buf) /\ r.off + s <= Len(r.buf)
  BY DEF Decodes
<1>4. v = r.pos + r.off /\ Boundary(c, v) /\ Small(c, v) /\ r.n = RecNo(c, v)
      /\ r.done = IF r.mode = Count THEN <<>> ELSE SubSeq(Recs(c), 1, r.n)
  BY DEF Seen
<1>5. r.pos + Len(r.buf) <= Len(c) /\ \A k \in 1..Len(r.buf) : r.buf[k] = c[r.pos + k]
  BY DEF Held
<1>6. b = c[v + 1] /\ v < Len(c)
  <2>1. r.off + 1 \in 1..Len(r.buf)
    BY <1>1, <1>3
  <2>2. r.pos + (r.off + 1) = v + 1
    BY <1>1, <1>4
  <2>3. b = c[r.pos + (r.off + 1)]
    BY <1>5, <2>1
  <2>4. v < Len(c)
    BY <1>1, <1>2, <1>3, <1>4, <1>5
  <2>5. QED BY <2>2, <2>3, <2>4
<1> HIDE DEF b
<1>7. /\ s \in Nat \ {0} /\ b.id \in Nat \ {0}
      /\ v + s <= Len(c) => /\ v + s \in Ends(c) /\ RecNo(c, v + s) = RecNo(c, v) + 1
                            /\ c[v + s].id = b.id /\ c[v + s].size = s
                            /\ \A q \in Ends(c) : q <= v \/ q >= v + s
  <2> HIDE DEF v
  <2>1. v \in Nat /\ Boundary(c, v) /\ v < Len(c)
    BY <1>1, <1>4, <1>6
  <2>2. c[v + 1].size = s /\ c[v + 1].id = b.id
    BY <1>6
  <2>3. QED BY <2>1, <2>2, NextRecord
<1> HIDE DEF s, v
<1>8. v + s <= Len(c) /\ v + s \in Nat /\ v + s = r.pos + (r.off + s)
  <2> DEFINE l == Len(c)
             lb == Len(r.buf)
             p == r.pos
             o == r.off
  <2>1. /\ p \in Nat /\ o \in Nat /\ lb \in Nat /\ l \in Nat /\ s \in Nat
        /\ v = p + o /\ o + s <= lb /\ p + lb <= l
    BY <1>1, <1>2, <1>3, <1>4, <1>5, <1>7
  <2> HIDE DEF l, lb, p, o
  <2>2. v + s <= l /\ v + s \in Nat /\ v + s = p + (o + s)
    BY <2>1
  <2>3. QED BY <2>2 DEF l, p, o
<1>9. /\ v + s \in Ends(c) /\ RecNo(c, v + s) = r.n + 1 /\ c[v + s].id = b.id
      /\ c[v + s].size = s /\ \A q \in Ends(c) : q <= v \/ q >= v + s
  BY <1>4, <1>7, <1>8
<1>10. s <= LOG_MAX
  <2>1. r.cap \in Nat /\ r.cap <= LOG_MAX
    BY <1>1, WindowSizes
  <2>2. QED BY <1>1, <1>2, <1>3, <1>7, <2>1
<1>11. Small(c, v + s)
  <2>1. SUFFICES ASSUME NEW q \in Ends(c), q <= v + s PROVE c[q].size <= LOG_MAX
    BY DEF Small
  <2>2. q \in Nat
    BY <1>2, EndsFinite
  <2>3. CASE q <= v
    BY <1>4, <2>3 DEF Small
  <2>4. CASE q >= v + s
    <3>1. q = v + s
      BY <1>8, <2>1, <2>2, <2>4
    <3>2. QED BY <1>9, <1>10, <3>1
  <2>5. QED BY <1>9, <2>3, <2>4
<1>12. Boundary(c, v + s)
  <2>1. v + s \in LOG_HDR..Len(c)
    BY <1>1, <1>2, <1>4, <1>7, <1>8 DEF Boundary
  <2>2. QED BY <1>9, <2>1 DEF Boundary, Ends
<1>13. dn = IF r.mode = Count THEN <<>> ELSE SubSeq(Recs(c), 1, r.n + 1)
  <2>1. Recs(c) \in Seq(Nat) /\ Len(Recs(c)) = Cardinality(Ends(c)) /\ Recs(c)[r.n + 1] = b.id
    BY <1>2, <1>9, RecsOf
  <2>2. r.n + 1 \in 1..Len(Recs(c))
    BY <1>2, <1>9, <2>1, EndOfRecNo
  <2>3. SubSeq(Recs(c), 1, r.n + 1) = Append(SubSeq(Recs(c), 1, r.n), b.id)
    BY <1>1, <2>1, <2>2, LongerSubSeq
  <2>4. QED BY <1>4, <2>3
<1>14. dn \in Seq(Nat)
  <2>1. CASE r.mode = Count
    BY <1>1, <2>1
  <2>2. CASE r.mode # Count
    BY <1>1, <1>7, <2>2, AppendProperties
  <2>3. QED BY <2>1, <2>2
<1>15. x = [r EXCEPT !.off = r.off + s, !.n = r.n + 1, !.valid = r.pos + (r.off + s), !.done = dn]
  BY DEF Consume, b, s
<1> HIDE DEF dn
<1>16. /\ x \in Cursor /\ x.pc = r.pc /\ x.ino = r.ino /\ x.want = r.want /\ x.mode = r.mode
       /\ x.quiet = r.quiet /\ x.size = r.size /\ x.buf = r.buf /\ x.cap = r.cap
       /\ x.off = r.off + s /\ x.n = r.n + 1 /\ x.valid = v + s /\ x.done = dn /\ x.pos = r.pos
  <2>1. r.off + s \in Nat /\ r.n + 1 \in Nat /\ r.pos + (r.off + s) \in Nat
    BY <1>1, <1>7
  <2> HIDE DEF x
  <2>2. QED BY <1>8, <1>14, <1>15, <2>1 DEF Cursor
<1> HIDE DEF x
<1>17. Held(x, c)
  BY <1>5, <1>16 DEF Held
<1>18. Seen(x, c)
  BY <1>8, <1>9, <1>11, <1>12, <1>13, <1>16 DEF Seen
<1>19. QED BY <1>3, <1>16, <1>17, <1>18 DEF x

\* A chunk is evaluated or fails.
LEMMA EvalChunkOK ==
  ASSUME Inv, EvalChunk
  PROVE  ReaderNext
<1> DEFINE c == disk[rd.ino]
<1>1. /\ FilesOK(disk) /\ cur \in 0..MaxRolls /\ cur \in Nat /\ ScanOK(rd, disk, cur)
      /\ rd \in Cursor /\ rd.pc = "scan" /\ ans = None
      /\ WF(c) /\ c \in Seq(Byte) /\ Len(c) \in Nat /\ Decodes(rd)
  BY InvFacts DEF EvalChunk
<1>2. /\ Held(rd, c) /\ Seen(rd, c) /\ Len(rd.buf) <= rd.cap /\ rd.ino <= cur
      /\ rd.quiet => rd.ino = cur /\ rd.size = Len(c)
      /\ rd.want <= RecNo(c, rd.size) /\ rd.off <= Len(rd.buf)
  BY <1>1, ScanFacts
<1>4. CASE Answer("error", NoScan)
  BY <1>1, <1>4, ErrorOK
<1>5. CASE rd' = Consume(rd) /\ UNCHANGED ans
  <2> DEFINE x == Consume(rd)
  <2>1. /\ x \in Cursor /\ x.pc = rd.pc /\ x.ino = rd.ino /\ x.want = rd.want
        /\ x.quiet = rd.quiet /\ x.size = rd.size /\ x.buf = rd.buf /\ x.cap = rd.cap
        /\ Held(x, c) /\ Seen(x, c) /\ x.off <= Len(x.buf)
    BY <1>1, <1>2, ConsumeOK
  <2> HIDE DEF x
  <2>2. ScanOK(x, disk, cur)
    BY <1>1, <1>2, <2>1, ScanMade
  <2>3. QED BY <1>1, <1>5, <2>2 DEF ReaderNext, AnsOK, x
<1>6. QED BY <1>4, <1>5 DEF EvalChunk

\* The bytes behind the cursor leave the window; the scan is where it was.
LEMMA SlideOK ==
  ASSUME NEW c, c \in Seq(Byte), NEW r \in Cursor, Held(r, c), r.off <= Len(r.buf),
         Len(r.buf) <= r.cap
  PROVE  LET x == Slide(r) IN
         /\ x \in Cursor /\ x.pc = r.pc /\ x.mode = r.mode /\ x.ino = r.ino /\ x.want = r.want
         /\ x.quiet = r.quiet /\ x.size = r.size /\ x.cap = r.cap /\ x.n = r.n
         /\ x.valid = r.valid /\ x.done = r.done
         /\ x.pos = r.pos + r.off /\ x.off = 0 /\ Len(x.buf) = Len(r.buf) - r.off
         /\ Len(x.buf) \in Nat /\ Len(x.buf) <= x.cap /\ Held(x, c)
<1> DEFINE x == Slide(r)
           l == Len(r.buf)
           b == SubSeq(r.buf, r.off + 1, l)
           o == r.off
<1>1. r.pos \in Nat /\ o \in Nat /\ r.buf \in Seq(Byte) /\ l \in Nat /\ r.cap \in Windows
      /\ r.cap \in Nat
  BY CursorFields, WindowSizes
<1>2. o <= l /\ l <= r.cap /\ Len(c) \in Nat
  BY LenProperties
<1>3. \A i \in o + 1..l : r.buf[i] \in Byte
  <2>1. SUFFICES ASSUME NEW i \in o + 1..l PROVE r.buf[i] \in Byte
    OBVIOUS
  <2>2. i \in 1..Len(r.buf)
    BY <1>1
  <2>3. QED BY <1>1, <2>2, ElementOfSeq
<1>4. x = [r EXCEPT !.buf = b, !.pos = r.pos + o, !.off = 0]
  BY DEF Slide
<1>5. r.pos + l <= Len(c) /\ \A k \in 1..l : r.buf[k] = c[r.pos + k]
  BY DEF Held
<1> HIDE DEF l, o
<1>6. /\ b \in Seq(Byte) /\ Len(b) = IF o + 1 <= l THEN l - (o + 1) + 1 ELSE 0
      /\ \A i \in 1..l - (o + 1) + 1 : b[i] = r.buf[o + 1 + i - 1]
  <2> DEFINE s == r.buf
             m == o + 1
  <2>1. m \in Int /\ l \in Int /\ \A i \in m..l : s[i] \in Byte
    BY <1>1, <1>3
  <2>2. b = SubSeq(s, m, l)
    BY DEF o
  <2> HIDE DEF s, m, b
  <2>3. /\ b \in Seq(Byte) /\ Len(b) = IF m <= l THEN l - m + 1 ELSE 0
        /\ \A i \in 1..l - m + 1 : b[i] = s[m + i - 1]
    BY <2>1, <2>2, SubSeqProperties
  <2>4. QED BY <2>3 DEF m, s
<1> HIDE DEF b
<1>7. Len(b) = l - o /\ Len(b) \in Nat /\ Len(b) <= r.cap
  BY <1>1, <1>2, <1>6
<1>8. \A i \in 1..Len(b) : b[i] = c[r.pos + o + i]
  <2>1. SUFFICES ASSUME NEW i \in 1..Len(b) PROVE b[i] = c[r.pos + o + i]
    OBVIOUS
  <2>2. i \in 1..l - (o + 1) + 1 /\ o + 1 + i - 1 = o + i /\ o + i \in 1..l
        /\ r.pos + (o + i) = r.pos + o + i
    BY <1>1, <1>7
  <2>3. b[i] = r.buf[o + i]
    BY <1>6, <2>2
  <2>4. r.buf[o + i] = c[r.pos + (o + i)]
    BY <1>5, <2>2
  <2>5. QED BY <2>2, <2>3, <2>4
<1>9. /\ x \in Cursor /\ x.pc = r.pc /\ x.mode = r.mode /\ x.ino = r.ino /\ x.want = r.want
      /\ x.quiet = r.quiet /\ x.size = r.size /\ x.cap = r.cap /\ x.n = r.n
      /\ x.valid = r.valid /\ x.done = r.done /\ x.buf = b
      /\ x.pos = r.pos + o /\ x.off = 0
  <2>1. b \in Seq(Byte) /\ r.pos + o \in Nat
    BY <1>1, <1>6
  <2> HIDE DEF x
  <2>2. QED BY <1>4, <2>1 DEF Cursor
<1> HIDE DEF x
<1>10. Held(x, c)
  <2>1. r.pos + o + Len(b) <= Len(c)
    BY <1>1, <1>2, <1>5, <1>7
  <2>2. QED BY <1>8, <1>9, <2>1 DEF Held
<1>11. QED BY <1>7, <1>9, <1>10 DEF x, l, o

\* A chunk that does not decode is longer than what is in hand.
LEMMA ChunkTooLong ==
  ASSUME NEW c \in Seq(Byte), NEW r \in Cursor, Held(r, c), ~Decodes(r), r.off < Len(r.buf),
         NEW v, v = r.pos + r.off
  PROVE  c[v + 1].size \in Nat /\ c[v + 1].size > Len(r.buf) - r.off /\ v + 1 \in 1..Len(c)
<1> DEFINE o == r.off
           l == Len(r.buf)
           p == r.pos
<1>1. o \in Nat /\ l \in Nat /\ p \in Nat /\ Len(c) \in Nat
  BY CursorFields, LenProperties
<1>2. p + l <= Len(c) /\ \A k \in 1..l : r.buf[k] = c[p + k]
  BY DEF Held
<1>3. ~(o + r.buf[o + 1].size <= l) /\ o < l /\ v = p + o
  BY DEF Decodes
<1> HIDE DEF o, l, p
<1>4. o + 1 \in 1..l /\ p + (o + 1) = v + 1 /\ v + 1 \in 1..Len(c)
  BY <1>1, <1>2, <1>3
<1>5. r.buf[o + 1] = c[p + (o + 1)]
  BY <1>2, <1>4
<1> DEFINE b == c[v + 1]
<1>6. r.buf[o + 1] = b
  BY <1>4, <1>5
<1>7. b \in Byte
  BY <1>4, ElementOfSeq
<1> HIDE DEF b
<1>8. b.size \in Nat
  BY <1>7 DEF Byte
<1> DEFINE z == b.size
<1>9. ~(o + z <= l)
  BY <1>3, <1>6
<1> HIDE DEF z
<1>10. z > l - o
  BY <1>1, <1>8, <1>9 DEF z
<1>11. QED BY <1>4, <1>8, <1>10 DEF z, b, l, o

\* Another window, or the end of the scan and its judgement.
LEMMA FetchOK ==
  ASSUME Inv, NEW r, ScanOK(r, disk, cur), r.pc = "scan", ans = None, r.quiet => ~Decodes(r), Fetch(r)
  PROVE  ReaderNext
<1> DEFINE c == disk[r.ino]
           s == Slide(r)
           v == r.valid
           len == Len(s.buf)
<1>0. r \in Cursor /\ r.ino <= cur /\ FilesOK(disk) /\ cur \in 0..MaxRolls /\ cur \in Nat
      /\ MaxRolls \in Nat /\ r.ino \in Nat
  BY InvFacts, ScanFacts, CursorFields
<1>1. WF(c) /\ c \in Seq(Byte) /\ Len(c) \in Nat
  <2>1. r.ino \in 0..MaxRolls
    BY <1>0
  <2>2. WF(c) /\ c \in Seq(Byte)
    BY <1>0, <2>1 DEF FilesOK
  <2>3. QED BY <2>2, LenProperties
<1>2. /\ Held(r, c) /\ Seen(r, c) /\ Len(r.buf) <= r.cap /\ r.ino <= cur
      /\ r.quiet => r.ino = cur /\ r.size = Len(c)
      /\ r.want <= RecNo(c, r.size) /\ r.off <= Len(r.buf)
  BY <1>0, <1>1, ScanFacts
<1>3. PICK f \in log_fill(s) :
        \/ f.r = FAILED /\ Answer("io", NoScan)
        \/ f.r > 0 /\ rd' = f.c /\ UNCHANGED ans
        \/ EndOfLog(f) /\ f.c.buf = <<>> /\ Answer("n", f.c)
        \/ /\ EndOfLog(f) /\ f.c.buf # <<>>
           /\ Answer(IF r.mode = Count THEN "pair" ELSE "badtail", f.c)
  BY DEF Fetch
<1>4. /\ s \in Cursor /\ s.pc = r.pc /\ s.mode = r.mode /\ s.ino = r.ino /\ s.want = r.want
      /\ s.quiet = r.quiet /\ s.size = r.size /\ s.cap = r.cap /\ s.n = r.n
      /\ s.valid = r.valid /\ s.done = r.done
      /\ s.pos = r.pos + r.off /\ s.off = 0 /\ len = Len(r.buf) - r.off
      /\ len \in Nat /\ len <= s.cap /\ Held(s, c)
  BY <1>0, <1>1, <1>2, SlideOK
<1> HIDE DEF s
<1>5. /\ v \in Nat /\ s.size \in Nat /\ r.pos \in Nat /\ r.off \in Nat /\ Len(r.buf) \in Nat
      /\ r.buf \in Seq(Byte) /\ r.want \in Nat
  BY <1>0, <1>1, <1>4, CursorFields
<1>6. /\ v = r.pos + r.off /\ Boundary(c, v) /\ Small(c, v) /\ r.n = RecNo(c, v)
      /\ s.pos = v
  BY <1>2, <1>4 DEF Seen
<1>7. Seen(s, c)
  BY <1>2, <1>4, <1>5 DEF Seen
<1>8. ScanOK(s, disk, cur)
  <2>1. s.off <= Len(s.buf)
    BY <1>4
  <2>2. s.quiet => s.ino = cur /\ s.size = Len(disk[s.ino])
    BY <1>0, <1>2, <1>4
  <2>3. s.want <= RecNo(disk[s.ino], s.size) /\ s.ino <= cur
    BY <1>0, <1>2, <1>4
  <2>4. s.pc = "scan" /\ Held(s, disk[s.ino]) /\ Seen(s, disk[s.ino])
    BY <1>0, <1>1, <1>4, <1>7
  <2>5. QED BY <1>4, <2>1, <2>2, <2>3, <2>4, ScanMade
<1>9. Fillable(s, c) /\ c = disk[s.ino]
  BY <1>0, <1>1, <1>4 DEF Fillable
<1>10. Filled(s, c, f)
  BY <1>3, <1>9, FillOK
<1>11. SameScan(s, f.c) /\ Telling(f.c)
  BY <1>4, <1>10, CursorTells DEF Filled
<1>12. v + len <= Len(c)
  BY <1>4, <1>6 DEF Held
\* The chunk at the cursor is longer than what is in hand.
<1>13. ASSUME len > 0, ~Decodes(r) PROVE c[v + 1].size \in Nat /\ c[v + 1].size > len /\ v + 1 \in 1..Len(c)
  <2>1. r.off < Len(r.buf)
    <3> HIDE DEF v, c
    <3>1. Len(r.buf) - r.off > 0
      BY <1>4, <1>13
    <3>2. QED BY <1>5, <3>1
  <2>2. /\ c[v + 1].size \in Nat /\ c[v + 1].size > Len(r.buf) - r.off /\ v + 1 \in 1..Len(c)
    <3>1. c \in Seq(Byte) /\ r \in Cursor /\ Held(r, c) /\ ~Decodes(r) /\ v = r.pos + r.off
      BY <1>0, <1>1, <1>2, <1>6, <1>13
    <3> HIDE DEF v, c
    <3>2. QED BY <2>1, <3>1, ChunkTooLong
  <2>3. QED BY <1>4, <2>2
<1>14. /\ f.c.mode = r.mode /\ f.c.n = r.n /\ f.c.valid = v /\ f.c.want = r.want
       /\ f.c.quiet = r.quiet /\ f.c.ino = r.ino
  BY <1>4, <1>11 DEF SameScan
<1>15. CASE f.r = FAILED /\ Answer("io", NoScan)
  BY <1>0, <1>15, ErrorOK
<1>16. CASE f.r > 0 /\ rd' = f.c /\ UNCHANGED ans
  <2>1. f.r \in Nat \ {0}
    BY <1>10, <1>16 DEF Filled, TOOBIG, FAILED
  <2>2. Filled(s, disk[s.ino], f) /\ s.pc \in {"header", "scan"}
    BY <1>0, <1>1, <1>4, <1>9, <1>10
  <2>3. ScanOK(f.c, disk, cur)
    BY <1>0, <1>1, <1>8, <2>1, <2>2, FilledScan
  <2>4. QED BY <1>0, <1>1, <1>16, <2>3 DEF ReaderNext, AnsOK
<1>17. ASSUME EndOfLog(f)
       PROVE  /\ f.c.buf = s.buf
              /\ \/ f.r = 0 /\ (v + len >= r.size \/ v + len >= Len(c))
                 \/ len = LOG_MAX
  BY <1>4, <1>6, <1>10, <1>17 DEF EndOfLog, Filled, TOOBIG, FAILED
<1>18. LOG_MAX \in Nat \ {0}
  BY LogAssumption
<1>19. CASE EndOfLog(f) /\ f.c.buf = <<>> /\ Answer("n", f.c)
  <2>1. len = 0
    BY <1>17, <1>19, EmptySeq
  <2>2. v >= r.size \/ v >= Len(c)
    BY <1>5, <1>17, <1>18, <1>19, <2>1
  <2>3. r.n >= r.want
    <3>1. RecNo(c, r.size) \in Nat /\ RecNo(c, v) \in Nat /\ r.size \in Nat
      BY <1>0, <1>1, <1>4, <1>5, RecNoNat
    <3>2. CASE v >= r.size
      <4>1. RecNo(c, r.size) <= RecNo(c, v)
        BY <1>0, <1>1, <1>5, <3>1, <3>2, RecNoMonotonic
      <4>2. QED BY <1>2, <1>5, <1>6, <3>1, <4>1
    <3>3. CASE v >= Len(c)
      <4>1. \A q \in Ends(c) : q <= v
        BY <1>0, <1>1, <1>5, <3>3, EndsFinite
      <4>2. RecNo(c, v) = Cardinality(Ends(c))
        BY <1>0, <1>1, <1>5, <4>1, RecNoAll
      <4>3. RecNo(c, r.size) <= RecNo(c, v)
        BY <1>0, <1>1, <3>1, <4>2, RecNoNat
      <4>4. QED BY <1>2, <1>5, <1>6, <3>1, <4>3
    <3>4. QED BY <2>2, <3>2, <3>3
  <2>4. ASSUME r.quiet PROVE r.ino = cur /\ Judged("n", r.n, v, c)
    <3>1. r.ino = cur /\ r.size = Len(c)
      BY <1>2, <2>4
    <3>2. v = Len(c)
      BY <1>0, <1>1, <1>5, <1>12, <2>1, <2>2, <3>1
    <3>3. QED BY <1>5, <1>6, <3>1, <3>2 DEF Judged
  <2>5. f.c.quiet => f.c.ino = cur /\ Judged("n", f.c.n, f.c.valid, disk[f.c.ino])
    BY <1>14, <2>4
  <2>6. f.c.n >= f.c.want
    BY <1>14, <2>3
  <2>7. QED BY <1>0, <1>1, <1>11, <1>19, <2>5, <2>6, AnswerOK
<1>20. CASE /\ EndOfLog(f) /\ f.c.buf # <<>>
            /\ Answer(IF r.mode = Count THEN "pair" ELSE "badtail", f.c)
  <2> DEFINE kind == IF r.mode = Count THEN "pair" ELSE "badtail"
  <2>1. len > 0
    <3>1. s.buf # <<>> /\ s.buf \in Seq(Byte)
      BY <1>4, <1>17, <1>20, CursorFields
    <3>2. QED BY <3>1, EmptySeq
  <2>2. v < Len(c) /\ v \in LOG_HDR..Len(c)
    <3>1. v < Len(c)
      <4> DEFINE l == Len(c)
      <4>1. v \in Nat /\ l \in Nat /\ len \in Nat /\ len > 0 /\ v + len <= l
        BY <1>1, <1>4, <1>5, <1>12, <2>1
      <4> HIDE DEF v, l, len
      <4>2. QED BY <4>1 DEF l
    <3>2. QED BY <1>6, <3>1 DEF Boundary
  <2>3. kind \in {"pair", "badtail"}
    OBVIOUS
  <2>4. ASSUME r.quiet PROVE r.ino = cur /\ Judged(kind, r.n, v, c)
    <3>1. r.ino = cur /\ r.size = Len(c)
      BY <1>2, <2>4
    <3>0. c[v + 1].size \in Nat /\ c[v + 1].size > len
      BY <1>13, <2>1, <2>4
    <3>2. v + c[v + 1].size > Len(c) \/ c[v + 1].size > LOG_MAX
      <4> DEFINE z == c[v + 1].size
                 l == Len(c)
      <4>1. v + len >= l \/ len = LOG_MAX
        BY <1>17, <1>20, <3>1
      <4>2. v \in Nat /\ l \in Nat /\ len \in Nat /\ z \in Nat /\ z > len /\ LOG_MAX \in Nat
        BY <1>0, <1>1, <1>4, <1>5, <1>18, <3>0, CursorFields
      <4> HIDE DEF z, l, v, len
      <4>3. v + z > l \/ z > LOG_MAX
        BY <4>1, <4>2
      <4>4. QED BY <4>3 DEF z, l
    <3>3. QED BY <1>5, <1>6, <2>2, <2>3, <3>1, <3>2 DEF Judged
  <2>5. f.c.quiet => f.c.ino = cur /\ Judged(kind, f.c.n, f.c.valid, disk[f.c.ino])
    BY <1>14, <2>4
  <2>6. Answer(kind, f.c)
    BY <1>20
  <2> HIDE DEF kind
  <2>7. kind \in {"n", "pair", "badtail", "corrupt", "io", "error"} /\ kind # "n"
    BY <2>3
  <2>8. kind = "pair" => f.c.valid \in LOG_HDR..Len(disk[f.c.ino])
    BY <1>14, <2>2
  <2>9. QED BY <1>0, <1>1, <1>11, <2>5, <2>6, <2>7, <2>8, AnswerOK
<1>21. QED BY <1>3, <1>15, <1>16, <1>19, <1>20

LEMMA RefillOK ==
  ASSUME Inv, Refill
  PROVE  ReaderNext
<1>1. ScanOK(rd, disk, cur) /\ rd.pc = "scan" /\ ans = None /\ ~Decodes(rd) /\ Fetch(rd)
  BY InvFacts DEF Refill
<1>2. QED BY <1>1, FetchOK

\* A chunk that does not decode for want of memory: the scan knows nothing more
\* of the end of the file.
LEMMA DecodeFailsOK ==
  ASSUME Inv, DecodeFails
  PROVE  ReaderNext
<1> DEFINE x == [rd EXCEPT !.quiet = FALSE]
<1>1. ScanOK(rd, disk, cur) /\ rd.pc = "scan" /\ ans = None /\ Fetch(x) /\ rd \in Cursor
  BY InvFacts DEF DecodeFails
<1>2. /\ x \in Cursor /\ x.quiet = FALSE /\ x.pc = rd.pc /\ x.ino = rd.ino /\ x.mode = rd.mode
      /\ x.want = rd.want /\ x.size = rd.size /\ x.cap = rd.cap /\ x.n = rd.n
      /\ x.valid = rd.valid /\ x.done = rd.done /\ x.pos = rd.pos /\ x.off = rd.off
      /\ x.buf = rd.buf
  BY <1>1 DEF Cursor
<1> HIDE DEF x
<1>3. /\ rd.ino <= cur /\ rd.want <= RecNo(disk[rd.ino], rd.size)
      /\ Len(rd.buf) <= rd.cap /\ rd.off <= Len(rd.buf) /\ Held(rd, disk[rd.ino])
      /\ Seen(rd, disk[rd.ino])
  BY <1>1, ScanFacts
<1>4. Held(x, disk[x.ino]) /\ Seen(x, disk[x.ino])
  BY <1>2, <1>3 DEF Held, Seen
<1>5. ScanOK(x, disk, cur)
  BY <1>1, <1>2, <1>3, <1>4, ScanMade
<1>6. QED BY <1>1, <1>2, <1>5, FetchOK

\* A limited replay stops.
LEMMA LimitReachedOK ==
  ASSUME Inv, LimitReached
  PROVE  ReaderNext
<1>1. /\ FilesOK(disk) /\ cur \in 0..MaxRolls /\ rd \in Cursor /\ Answer("n", rd) /\ ~More(rd)
  BY InvFacts DEF LimitReached
<1>2. SameScan(rd, rd) /\ Telling(rd)
  BY <1>1, CursorTells DEF SameScan
<1>3. ~(rd.mode < 0)
  BY <1>1 DEF More
<1>4. QED BY <1>1, <1>2, <1>3, AnswerOK

(***************************************************************************)
(* The writer's steps                                                      *)
(***************************************************************************)

\* A file that has not changed.
LEMMA ExtendsItself ==
  ASSUME NEW c \in Seq(Byte)
  PROVE  Extends(c, c)
BY LenProperties DEF Extends

\* A file that has grown has no fewer records before a place.
LEMMA GrownCount ==
  ASSUME NEW c \in Seq(Byte), NEW c2 \in Seq(Byte), Extends(c, c2), NEW p \in Nat
  PROVE  RecNo(c, p) <= RecNo(c2, p)
<1>1. Ends(c) \subseteq Ends(c2)
  BY GrownEnds
<1>2. EndsTo(c, p) \in SUBSET EndsTo(c2, p)
  BY <1>1 DEF EndsTo
<1>3. IsFiniteSet(EndsTo(c2, p))
  BY RecNoNat
<1>4. Cardinality(EndsTo(c, p)) <= Cardinality(EndsTo(c2, p))
  BY <1>2, <1>3, FS_Subset
<1>5. QED BY <1>4, RecNoNat

\* What a scan has seen of a file it has seen of the grown file.
LEMMA GrownSeen ==
  ASSUME NEW c \in Seq(Byte), NEW c2 \in Seq(Byte), Extends(c, c2), NEW r \in Cursor, Seen(r, c)
  PROVE  Seen(r, c2)
<1> DEFINE v == r.valid
<1>1. v \in Nat /\ r.n \in Nat /\ Len(c) \in Nat /\ Len(c2) \in Nat /\ LOG_HDR \in Nat \ {0}
  BY CursorFields, LenProperties, LogAssumption
<1>2. v \in LOG_HDR..Len(c) /\ IsLast(c[v]) /\ Small(c, v) /\ r.n = RecNo(c, v)
  BY DEF Seen, Boundary
<1>3. v \in 1..Len(c) /\ v <= Len(c)
  BY <1>1, <1>2
<1>4. Boundary(c2, v)
  <2>1. v \in LOG_HDR..Len(c2) /\ c2[v] = c[v]
    BY <1>1, <1>2, <1>3 DEF Extends
  <2>2. QED BY <1>2, <2>1 DEF Boundary
<1>5. Small(c2, v)
  <2>1. SUFFICES ASSUME NEW q \in Ends(c2), q <= v PROVE c2[q].size <= LOG_MAX
    BY DEF Small
  <2>2. q \in Nat
    BY EndsFinite
  <2>3. q \in Ends(c)
    BY <1>1, <1>3, <2>1, <2>2, GrownEnds
  <2>4. c2[q] = c[q]
    BY <2>3, EndsFinite DEF Extends
  <2>5. QED BY <1>2, <2>1, <2>3, <2>4 DEF Small
<1>6. r.n = RecNo(c2, v)
  BY <1>1, <1>2, <1>3, GrownEnds
<1>7. r.n <= Len(Recs(c))
  BY <1>1, <1>2, RecNoNat, RecsOf
<1>8. SubSeq(Recs(c2), 1, r.n) = SubSeq(Recs(c), 1, r.n)
  BY <1>1, <1>7, GrownSubSeq
<1>9. QED BY <1>4, <1>5, <1>6, <1>8 DEF Seen

\* A scan goes on while the files grow and the path moves to a new one.
LEMMA ScanGrown ==
  ASSUME NEW r, NEW d, NEW d2, NEW cu \in 0..MaxRolls, NEW cu2 \in Nat, cu <= cu2,
         ScanOK(r, d, cu), FilesOK(d), FilesOK(d2),
         \A f \in 0..cu : Extends(d[f], d2[f])
  PROVE  ScanOK([r EXCEPT !.quiet = FALSE], d2, cu2)
<1> DEFINE x == [r EXCEPT !.quiet = FALSE]
           c == d[r.ino]
           c2 == d2[r.ino]
<1>1. /\ r \in Cursor /\ r.ino <= cu /\ r.want <= RecNo(c, r.size)
      /\ Len(r.buf) <= r.cap /\ r.off <= Len(r.buf) /\ Held(r, c)
      /\ r.pc = "scan" => Seen(r, c)
      /\ r.pc # "scan" => NotSeen(r)
  BY ScanFacts
<1>2. r.pc = "idle" => r.want = 0
  BY DEF ScanOK
<1>3. r.pc \in {"idle", "open"} => r.buf = <<>>
  BY DEF ScanOK
<1>4. MaxRolls \in Nat
  BY LogAssumption
<1>5. r.ino \in 0..cu /\ r.ino \in 0..MaxRolls /\ r.pos \in Nat /\ Len(r.buf) \in Nat
      /\ r.size \in Nat /\ r.want \in Nat
  BY <1>1, <1>4, CursorFields
<1>6. c \in Seq(Byte) /\ c2 \in Seq(Byte) /\ Extends(c, c2)
  <2>1. d \in [0..MaxRolls -> Seq(Byte)] /\ d2 \in [0..MaxRolls -> Seq(Byte)]
    BY DEF FilesOK
  <2>2. QED BY <1>5, <2>1
<1>7. Len(c) \in Nat /\ Len(c2) \in Nat
  BY <1>6, LenProperties
<1>8. /\ x \in Cursor /\ x.quiet = FALSE /\ x.pc = r.pc /\ x.mode = r.mode /\ x.ino = r.ino
      /\ x.want = r.want /\ x.size = r.size /\ x.cap = r.cap /\ x.n = r.n
      /\ x.valid = r.valid /\ x.done = r.done /\ x.pos = r.pos /\ x.off = r.off /\ x.buf = r.buf
  BY <1>1 DEF Cursor
<1>9. x.pc = "idle" => x.want = 0
  BY <1>2, <1>8
<1> HIDE DEF x
<1>10. Held(x, c2)
  <2> DEFINE p == r.pos
             l == Len(r.buf)
  <2>1. p + l <= Len(c) /\ (\A k \in 1..l : r.buf[k] = c[p + k]) /\ Len(c) <= Len(c2)
        /\ \A q \in 1..Len(c) : c2[q] = c[q]
    BY <1>1, <1>6 DEF Held, Extends
  <2>2. p \in Nat /\ l \in Nat
    BY <1>5
  <2> HIDE DEF p, l, c, c2
  <2>3. p + l <= Len(c2)
    BY <1>7, <2>1, <2>2
  <2>4. ASSUME NEW k \in 1..l PROVE r.buf[k] = c2[p + k]
    <3>1. p + k \in 1..Len(c)
      BY <1>7, <2>1, <2>2
    <3>2. QED BY <2>1, <3>1
  <2>5. QED BY <1>8, <2>3, <2>4 DEF Held, p, l
<1>11. x.want <= RecNo(c2, x.size)
  <2>1. RecNo(c, r.size) <= RecNo(c2, r.size) /\ RecNo(c, r.size) \in Nat /\ RecNo(c2, r.size) \in Nat
    BY <1>5, <1>6, GrownCount, RecNoNat
  <2>2. QED BY <1>1, <1>5, <1>8, <2>1
<1>12. x.pc = "scan" => Seen(x, c2)
  <2>1. SUFFICES ASSUME r.pc = "scan" PROVE Seen(x, c2)
    BY <1>8
  <2>2. Seen(r, c2)
    BY <1>1, <1>6, <2>1, GrownSeen
  <2>3. QED BY <1>8, <2>2 DEF Seen
<1>13. x.pc # "scan" => NotSeen(x)
  BY <1>1, <1>8 DEF NotSeen
<1>14. x.ino <= cu2
  BY <1>4, <1>5, <1>8
<1>15. Len(x.buf) <= x.cap /\ x.off <= Len(x.buf) /\ (x.pc \in {"idle", "open"} => x.buf = <<>>)
  BY <1>1, <1>3, <1>8
<1>16. ScanOK(x, d2, cu2)
  BY <1>8, <1>9, <1>10, <1>11, <1>12, <1>13, <1>14, <1>15 DEF ScanOK
<1>17. QED BY <1>16 DEF x

\* A reader that is not reading does not mind what the file becomes.
LEMMA ScanIdle ==
  ASSUME NEW r, NEW d, NEW d2, NEW cu \in 0..MaxRolls, ScanOK(r, d, cu), r.pc = "idle", FilesOK(d2)
  PROVE  ScanOK([r EXCEPT !.quiet = FALSE], d2, cu)
<1> DEFINE x == [r EXCEPT !.quiet = FALSE]
           c2 == d2[r.ino]
<1>1. r \in Cursor /\ r.ino <= cu /\ r.want = 0 /\ r.buf = <<>> /\ NotSeen(r)
  BY DEF ScanOK
<1>2. MaxRolls \in Nat
  BY LogAssumption
<1>3. r.ino \in 0..MaxRolls /\ r.size \in Nat /\ r.cap \in Nat /\ Len(r.buf) = 0
  <2>1. r.ino \in Nat /\ r.size \in Nat /\ r.cap \in Windows
    BY <1>1, CursorFields
  <2>2. r.cap \in Nat
    BY <2>1, WindowSizes
  <2>3. Len(r.buf) = 0
    BY <1>1, EmptySeq
  <2>4. QED BY <1>1, <1>2, <2>1, <2>2, <2>3
<1>4. c2 \in Seq(Byte)
  <2>1. d2 \in [0..MaxRolls -> Seq(Byte)]
    BY DEF FilesOK
  <2>2. QED BY <1>3, <2>1
<1>5. Len(c2) \in Nat /\ RecNo(c2, r.size) \in Nat
  BY <1>3, <1>4, LenProperties, RecNoNat
<1>6. /\ x \in Cursor /\ x.quiet = FALSE /\ x.pc = r.pc /\ x.ino = r.ino
      /\ x.want = r.want /\ x.size = r.size /\ x.cap = r.cap /\ x.n = r.n
      /\ x.valid = r.valid /\ x.done = r.done /\ x.pos = r.pos /\ x.off = r.off /\ x.buf = r.buf
  BY <1>1 DEF Cursor
<1> HIDE DEF x
<1>7. NotSeen(x)
  BY <1>1, <1>6 DEF NotSeen
<1>8. Held(x, c2)
  BY <1>3, <1>5, <1>6, <1>7 DEF Held, NotSeen
<1>9. x.off = 0
  BY <1>7 DEF NotSeen
<1>10. ScanOK(x, d2, cu)
  BY <1>1, <1>3, <1>5, <1>6, <1>7, <1>8, <1>9 DEF ScanOK
<1>11. QED BY <1>10 DEF x

\* A step of the writer that changes no file.
LEMMA WriterAlone ==
  ASSUME Inv, UNCHANGED <<disk, cur, rd, ans>>, WriterOK(w', disk[cur], over'),
         KeptOK(count', acked', next', w', disk[cur], lost', over'), w'.pc = "roll" => cur < MaxRolls
  PROVE  Inv'
BY DEF Inv

\* A step that changes the file: what was said of it is forgotten.
LEMMA FileChanges ==
  ASSUME Inv, Changed, FilesOK(disk'), cur' \in 0..MaxRolls, cur <= cur',
         \A f \in 0..cur : Extends(disk[f], disk'[f]),
         WriterOK(w', disk'[cur'], over'), KeptOK(count', acked', next', w', disk'[cur'], lost', over'),
         w'.pc = "roll" => cur' < MaxRolls
  PROVE  Inv'
<1>1. ScanOK(rd, disk, cur) /\ FilesOK(disk) /\ cur \in 0..MaxRolls /\ MaxRolls \in Nat
  BY InvFacts
<1>2. cur' \in Nat
  BY <1>1
<1> DEFINE d2 == disk'
           cu2 == cur'
           x == [rd EXCEPT !.quiet = FALSE]
<1>3. ScanOK(x, d2, cu2)
  <2>1. FilesOK(d2) /\ cu2 \in Nat /\ cur <= cu2 /\ \A f \in 0..cur : Extends(disk[f], d2[f])
    BY <1>2
  <2> HIDE DEF d2, cu2
  <2>2. QED BY <1>1, <2>1, ScanGrown
<1>4. rd' = x /\ ans' = None
  BY DEF Changed
<1>5. ScanOK(rd', disk', cur') /\ AnsOK(ans', disk', cur')
  BY <1>3, <1>4 DEF AnsOK
<1>6. QED BY <1>4, <1>5 DEF Inv

\* What the writer's steps use of the invariant.
LEMMA WriterFacts ==
  ASSUME Inv
  PROVE  /\ WF(disk[cur]) /\ disk[cur] \in Seq(Byte) /\ Len(disk[cur]) \in Nat
         /\ cur \in 0..MaxRolls /\ MaxRolls \in Nat /\ MaxRecs \in Nat /\ LOG_HDR \in Nat \ {0}
         /\ w \in Writer /\ w.todo \in Seq(Job) /\ w.i \in Nat /\ w.n \in Nat /\ w.ids \in Seq(Nat)
         /\ Len(w.todo) \in Nat /\ Len(w.ids) \in Nat
         /\ WriterOK(w, disk[cur], over) /\ KeptOK(count, acked, next, w, disk[cur], lost, over)
         /\ count \in Nat /\ next \in 1..(MaxRecs + 1) /\ count < next /\ w.n < next
         /\ acked \in Seq(Nat) /\ Len(acked) \in Nat
<1>1. WriterOK(w, disk[cur], over) /\ KeptOK(count, acked, next, w, disk[cur], lost, over)
  BY DEF Inv
<1>2. w \in Writer
  BY <1>1 DEF WriterOK
<1>3. w.todo \in Seq(Job) /\ w.i \in Nat /\ w.n \in Nat /\ w.ids \in Seq(Nat)
  BY <1>2 DEF Writer
<1>4. Len(w.todo) \in Nat /\ Len(w.ids) \in Nat
  BY <1>3, LenProperties
<1>5. count \in Nat /\ next \in 1..(MaxRecs + 1) /\ count < next /\ w.n < next /\ acked \in Seq(Nat)
  BY <1>1 DEF KeptOK
<1>6. Len(acked) \in Nat
  BY <1>5, LenProperties
<1>7. MaxRecs \in Nat /\ LOG_HDR \in Nat \ {0}
  BY LogAssumption
<1>8. QED BY <1>1, <1>2, <1>3, <1>4, <1>5, <1>6, <1>7, InvFacts

\* The fields of a writer at rest or down.
LEMMA IdleFields ==
  /\ Idle \in Writer /\ Idle.pc = "up" /\ Idle.n = 0
  /\ Down \in Writer /\ Down.pc = "down" /\ Down.n = 0
<1>1. <<>> \in Seq(Job) /\ <<>> \in Seq(Nat)
  BY EmptySeq
<1>2. QED BY <1>1 DEF Idle, Down, Writer

\* Such a writer fits any file.
LEMMA IdleOK ==
  ASSUME NEW c, NEW ov
  PROVE  WriterOK(Down, c, ov) /\ WriterOK(Idle, c, ov)
BY IdleFields DEF WriterOK

\* What is kept stays when the writer drops what it was doing.
LEMMA KeptIdle ==
  ASSUME NEW cnt, NEW ack, NEW nx, NEW x, NEW y, NEW c, NEW lo, NEW ov,
         KeptOK(cnt, ack, nx, x, c, lo, ov), y.n = 0
  PROVE  KeptOK(cnt, ack, nx, y, c, lo, ov)
<1>1. nx \in 1..(MaxRecs + 1) /\ MaxRecs \in Nat
  BY LogAssumption DEF KeptOK
<1>2. y.n < nx
  BY <1>1
<1>3. QED BY <1>2 DEF KeptOK

\* The writer starts to write the header of an empty file.
LEMMA CreateOK ==
  ASSUME Inv, Create
  PROVE  Inv'
<1> DEFINE td == <<HeaderJob>>
           x == [Idle EXCEPT !.pc = "create", !.todo = td]
<1>1. /\ w' = x /\ UNCHANGED <<disk, cur, rd, ans, count, next, over>> /\ disk[cur] = <<>>
      /\ acked' = <<>>
  BY DEF Create, File
<1>2. LOG_HDR \in Nat \ {0} /\ KeptOK(count, acked, next, w, disk[cur], lost, over)
  BY WriterFacts
<1>3. HeaderJob \in Job
  BY <1>2 DEF Job, HeaderJob
<1>4. td \in Seq(Job) /\ <<>> \in Seq(Nat) /\ Len(td) = 1 /\ td[1] = HeaderJob /\ td # <<>>
  BY <1>3, EmptySeq
<1> HIDE DEF td, x
<1>5. x = [Idle EXCEPT !.pc = "create", !.todo = td]
  BY DEF x
<1>6. x \in Writer /\ x.pc = "create" /\ x.todo = td /\ x.i = 0 /\ x.n = 0 /\ x.ids = <<>>
  BY <1>4, <1>5 DEF Idle, Writer
<1>7. Len(disk[cur]) = 0 /\ Len(x.ids) = 0
  BY <1>1, <1>6, EmptySeq
<1>8. Heading(x, disk[cur])
  <2>1. 2..Len(td) = {} /\ 1..Len(x.ids) = {}
    BY <1>4, <1>7
  <2>2. x.todo # <<>> /\ (x.todo)[1] = HeaderJob /\ x.i = Len(disk[cur]) /\ Len(disk[cur]) < LOG_HDR
    BY <1>2, <1>4, <1>6, <1>7
  <2>3. x.n =< Len(x.todo) - 1
    BY <1>4, <1>6
  <2>4. /\ \A k \in 2..Len(x.todo) : (x.todo)[k].id # 0
        /\ \A k \in 1..Len(x.ids) : \E m \in 2..Len(x.todo) : (x.todo)[m].id = (x.ids)[k]
    BY <1>6, <2>1
  <2>5. QED BY <2>2, <2>3, <2>4 DEF Heading
<1>9. WriterOK(x, disk[cur], over)
  BY <1>6, <1>8 DEF WriterOK
<1>10. KeptOK(count, <<>>, next, x, disk[cur], lost', over)
  <2>1. KeptOK(count, acked, next, x, disk[cur], lost, over)
    BY <1>2, <1>6, KeptIdle
  <2>2. 1..Len(<<>>) = {} /\ <<>> \in Seq(Nat)
    OBVIOUS
  <2>3. QED BY <2>1, <2>2 DEF KeptOK
<1>11. w'.pc # "roll"
  BY <1>1, <1>6
<1>12. QED BY <1>1, <1>9, <1>10, <1>11, WriterAlone

\* The writer starts to replace the file.
LEMMA RollOK ==
  ASSUME Inv, Roll
  PROVE  Inv'
<1> DEFINE x == [Idle EXCEPT !.pc = "roll"]
<1>1. /\ w' = x /\ UNCHANGED <<disk, cur, rd, ans, count, acked, next, lost, over>> /\ w.pc = "up"
      /\ cur < MaxRolls
  BY DEF Roll
<1>2. KeptOK(count, acked, next, w, disk[cur], lost, over)
  BY WriterFacts
<1>3. x \in Writer /\ x.pc = "roll" /\ x.n = 0
  BY IdleFields DEF Idle, Writer
<1> HIDE DEF x
<1>4. WriterOK(x, disk[cur], over)
  BY <1>3 DEF WriterOK
<1>5. KeptOK(count, acked, next, x, disk[cur], lost, over)
  BY <1>2, <1>3, KeptIdle
<1>6. QED BY <1>1, <1>4, <1>5, WriterAlone

\* A failed write or a crash leaves the file as it is.
LEMMA FaultOK ==
  ASSUME Inv, WriteFails \/ Crash
  PROVE  Inv'
<1>1. /\ UNCHANGED <<disk, cur, rd, ans, count, acked, next, lost, over>>
      /\ w' = Down \/ w' = Idle
  BY DEF WriteFails, Crash
<1>2. KeptOK(count, acked, next, w, disk[cur], lost, over)
  BY WriterFacts
<1>3. WriterOK(w', disk[cur], over)
  BY <1>1, IdleOK
<1>4. w'.n = 0 /\ w'.pc # "roll"
  BY <1>1, IdleFields
<1> DEFINE x == w'
<1>5. KeptOK(count, acked, next, x, disk[cur], lost, over)
  <2>1. x.n = 0
    BY <1>4
  <2> HIDE DEF x
  <2>2. QED BY <1>2, <2>1, KeptIdle
<1>6. QED BY <1>1, <1>3, <1>4, <1>5, WriterAlone

\* An image whose last flush fails leaves the file as it is, and its records
\* are lost if there are any.
LEMMA FlushLostOK ==
  ASSUME Inv, FlushLost
  PROVE  Inv'
<1>1. /\ UNCHANGED <<disk, cur, rd, ans, count, next, over>> /\ w' = Idle
      /\ acked' = acked \o w.ids /\ lost' = (lost \/ w.ids # <<>>)
  BY DEF FlushLost
<1>2. KeptOK(count, acked, next, w, disk[cur], lost, over) /\ acked \in Seq(Nat) /\ w.ids \in Seq(Nat)
  BY WriterFacts
<1>3. WriterOK(Idle, disk[cur], over) /\ Idle.n = 0 /\ Idle.pc = "up"
  BY IdleOK, IdleFields
<1>4. KeptOK(count, acked, next, Idle, disk[cur], lost, over)
  BY <1>2, <1>3, KeptIdle
<1> DEFINE ack2 == acked \o w.ids
<1>5. ack2 \in Seq(Nat) /\ (w.ids = <<>> => ack2 = acked)
  BY <1>2, ConcatProperties, ConcatEmptySeq
<1> HIDE DEF ack2
<1>6. KeptOK(count, ack2, next, Idle, disk[cur], lost', over)
  BY <1>1, <1>4, <1>5 DEF KeptOK
<1>7. acked' = ack2
  BY <1>1 DEF ack2
<1>8. QED BY <1>1, <1>3, <1>6, <1>7, WriterAlone

\* The records an append takes: as many as it acknowledges, none the header.
Taken(k, todo, ids) ==
  /\ todo \in Seq(Job) /\ Len(todo) = k /\ ids \in Seq(Nat) /\ Len(ids) = k
  /\ \A j \in 1..k : todo[j].id # 0 /\ todo[j].id = ids[j]

LEMMA BatchTaken ==
  ASSUME Inv, NEW k \in 1..MaxBatch, NEW sz \in [1..k -> Sizes]
  PROVE  Taken(k, Batch(k, sz), Ids(k)) /\ k \in Nat \ {0}
<1>1. next \in Nat \ {0} /\ k \in Nat \ {0} /\ Sizes \subseteq Nat \ {0}
  <2>1. MaxBatch \in Nat /\ Sizes \subseteq Nat \ {0} /\ MaxRecs \in Nat
    BY LogAssumption
  <2>2. next \in 1..(MaxRecs + 1)
    BY WriterFacts
  <2>3. QED BY <2>1, <2>2
<1> DEFINE todo == Batch(k, sz)
           ids == Ids(k)
<1>2. ASSUME NEW j \in 1..k
      PROVE  [id |-> next + j - 1, size |-> sz[j]] \in Job /\ next + j - 1 \in Nat \ {0}
  <2>1. sz[j] \in Nat \ {0} /\ j \in Nat \ {0}
    <3>1. sz[j] \in Sizes
      OBVIOUS
    <3>2. sz[j] \in Nat \ {0}
      BY <1>1, <3>1, Zenon
    <3>3. j \in Nat \ {0}
      BY <1>1
    <3>4. QED BY <3>2, <3>3
  <2>2. next + j - 1 \in Nat \ {0}
    BY <1>1, <2>1
  <2>3. QED BY <2>1, <2>2 DEF Job
<1>3. todo \in [1..k -> Job] /\ \A j \in 1..k : todo[j].id = next + j - 1
  BY <1>2 DEF Batch
<1>4. ids \in [1..k -> Nat] /\ \A j \in 1..k : ids[j] = next + j - 1
  BY <1>2 DEF Ids
<1> HIDE DEF todo, ids
<1>5. todo \in Seq(Job) /\ Len(todo) = k
  <2>1. todo \in Seq(Job)
    BY <1>1, <1>3, SeqDef
  <2>2. QED BY <1>1, <1>3, <2>1, LenProperties
<1>6. ids \in Seq(Nat) /\ Len(ids) = k
  <2>1. ids \in Seq(Nat)
    BY <1>1, <1>4, SeqDef
  <2>2. QED BY <1>1, <1>4, <2>1, LenProperties
<1>7. QED BY <1>1, <1>2, <1>3, <1>4, <1>5, <1>6 DEF Taken, todo, ids

\* The writer takes new records behind those of the file.
LEMMA AppendListOK ==
  ASSUME Inv, AppendList
  PROVE  Inv'
<1> DEFINE c == disk[cur]
<1>0. PICK k \in 1..MaxBatch : \E sz \in [1..k -> Sizes] :
        /\ next + k - 1 <= MaxRecs
        /\ w' = [pc |-> "append", todo |-> Batch(k, sz), i |-> 0, n |-> count + k, ids |-> Ids(k)]
        /\ next' = next + k
  BY DEF AppendList
<1>1. PICK sz \in [1..k -> Sizes] :
        /\ next + k - 1 <= MaxRecs
        /\ w' = [pc |-> "append", todo |-> Batch(k, sz), i |-> 0, n |-> count + k, ids |-> Ids(k)]
        /\ next' = next + k
  BY <1>0
<1>2. /\ w.pc = "up" /\ Len(c) >= LOG_HDR /\ ~Torn(c)
      /\ UNCHANGED <<disk, cur, rd, ans, count, acked, lost, over>>
  BY DEF AppendList, File
<1>3. /\ c \in Seq(Byte) /\ Len(c) \in Nat /\ LOG_HDR \in Nat \ {0} /\ MaxRecs \in Nat
      /\ KeptOK(count, acked, next, w, c, lost, over) /\ count \in Nat
      /\ next \in 1..(MaxRecs + 1) /\ count < next
  BY WriterFacts
<1> DEFINE todo == Batch(k, sz)
           ids == Ids(k)
           x == [pc |-> "append", todo |-> todo, i |-> 0, n |-> count + k, ids |-> ids]
<1>4. Taken(k, todo, ids) /\ k \in Nat \ {0}
  BY BatchTaken
<1>5. w' = x
  BY <1>1
<1> HIDE DEF todo, ids
<1>6. /\ todo \in Seq(Job) /\ Len(todo) = k /\ ids \in Seq(Nat) /\ Len(ids) = k
      /\ \A j \in 1..k : todo[j].id # 0 /\ todo[j].id = ids[j]
  BY <1>4 DEF Taken
<1>7. x \in Writer /\ x.pc = "append" /\ x.todo = todo /\ x.i = 0 /\ x.n = count + k /\ x.ids = ids
  BY <1>3, <1>4, <1>6 DEF Writer
<1> HIDE DEF x
<1>8. IsLast(c[Len(c)])
  <2>1. c # <<>>
    BY <1>2, <1>3, EmptySeq
  <2>2. Last(c) = c[Len(c)]
    BY DEF Last
  <2>3. QED BY <1>2, <2>1, <2>2 DEF Torn
<1>9. Cardinality(Ends(c)) \in Nat /\ (~over => count <= Cardinality(Ends(c)))
  BY <1>3, EndsFinite DEF KeptOK
<1>10. Appending(x, c)
  <2>1. \A j \in 1..Len(todo) : todo[j].id # 0
    BY <1>6
  <2>2. \A j \in 1..Len(ids) : \E m \in 1..Len(todo) : todo[m].id = ids[j]
    BY <1>6
  <2>3. QED BY <1>2, <1>7, <1>8, <2>1, <2>2 DEF Appending
<1>11. ~over => Owed(x, c)
  BY <1>3, <1>4, <1>6, <1>7, <1>9 DEF Owed
<1>12. WriterOK(x, c, over)
  BY <1>7, <1>10, <1>11 DEF WriterOK
<1>13. KeptOK(count, acked, next', x, c, lost, over)
  <2>1. next' \in 1..(MaxRecs + 1) /\ count < next' /\ x.n < next'
    BY <1>1, <1>3, <1>4, <1>7
  <2>2. QED BY <1>3, <2>1 DEF KeptOK
<1>14. QED BY <1>2, <1>5, <1>7, <1>12, <1>13, WriterAlone

\* The writer starts an image: the header, then the records it counts.
LEMMA AppendAbsentOK ==
  ASSUME Inv, AppendAbsent
  PROVE  Inv'
<1> DEFINE c == disk[cur]
           hd == <<HeaderJob>>
<1>0. PICK k \in 1..MaxBatch : \E sz \in [1..k -> Sizes] :
        /\ next + k - 1 <= MaxRecs
        /\ w' = [pc |-> "create", todo |-> hd \o Batch(k, sz), i |-> 0, n |-> k, ids |-> Ids(k)]
        /\ next' = next + k
  BY DEF AppendAbsent
<1>1. PICK sz \in [1..k -> Sizes] :
        /\ next + k - 1 <= MaxRecs
        /\ w' = [pc |-> "create", todo |-> hd \o Batch(k, sz), i |-> 0, n |-> k, ids |-> Ids(k)]
        /\ next' = next + k
  BY <1>0
<1>2. c = <<>> /\ UNCHANGED <<disk, cur, rd, ans, count, acked, lost, over>>
  BY DEF AppendAbsent, File
<1>3. /\ LOG_HDR \in Nat \ {0} /\ MaxRecs \in Nat
      /\ KeptOK(count, acked, next, w, c, lost, over) /\ count \in Nat
      /\ next \in 1..(MaxRecs + 1) /\ count < next
  BY WriterFacts
<1> DEFINE recs == Batch(k, sz)
           ids == Ids(k)
           todo == hd \o recs
           x == [pc |-> "create", todo |-> todo, i |-> 0, n |-> k, ids |-> ids]
<1>4. Taken(k, recs, ids) /\ k \in Nat \ {0}
  BY BatchTaken
<1>5. w' = x
  BY <1>1
<1> HIDE DEF recs, ids
<1>6. /\ recs \in Seq(Job) /\ Len(recs) = k /\ ids \in Seq(Nat) /\ Len(ids) = k
      /\ \A j \in 1..k : recs[j].id # 0 /\ recs[j].id = ids[j]
  BY <1>4 DEF Taken
<1>7. HeaderJob \in Job
  BY <1>3 DEF Job, HeaderJob
<1>8. hd \in Seq(Job) /\ Len(hd) = 1 /\ hd[1] = HeaderJob
  BY <1>7
<1> HIDE DEF hd
<1>9. /\ todo \in Seq(Job) /\ Len(todo) = 1 + k
      /\ \A j \in 1..(1 + k) : todo[j] = IF j <= 1 THEN hd[j] ELSE recs[j - 1]
  <2>1. /\ todo \in Seq(Job) /\ Len(todo) = Len(hd) + Len(recs)
        /\ \A j \in 1..(Len(hd) + Len(recs)) :
              todo[j] = IF j <= Len(hd) THEN hd[j] ELSE recs[j - Len(hd)]
    BY <1>6, <1>8, ConcatProperties
  <2>2. QED BY <1>6, <1>8, <2>1
<1> HIDE DEF todo
<1>10. todo # <<>> /\ todo[1] = HeaderJob
  BY <1>4, <1>8, <1>9, EmptySeq
<1>11. ASSUME NEW j \in 2..Len(todo) PROVE todo[j].id # 0
  <2>1. j - 1 \in 1..k /\ todo[j] = recs[j - 1]
    BY <1>4, <1>9
  <2>2. QED BY <1>6, <2>1
<1>12. ASSUME NEW j \in 1..Len(ids) PROVE \E m \in 2..Len(todo) : todo[m].id = ids[j]
  <2>1. j + 1 \in 2..Len(todo) /\ (j + 1) - 1 = j /\ ~(j + 1 <= 1)
    BY <1>4, <1>6, <1>9
  <2>2. todo[j + 1] = recs[j]
    BY <1>4, <1>9, <2>1
  <2>3. QED BY <1>6, <2>1, <2>2
<1>13. x \in Writer /\ x.pc = "create" /\ x.todo = todo /\ x.i = 0 /\ x.n = k /\ x.ids = ids
  BY <1>4, <1>6, <1>9 DEF Writer
<1> HIDE DEF x
<1>14. Heading(x, c)
  <2>1. Len(c) = 0
    BY <1>2
  <2>2. x.n <= Len(todo) - 1
    BY <1>4, <1>9, <1>13
  <2>3. QED BY <1>3, <1>10, <1>11, <1>12, <1>13, <2>1, <2>2 DEF Heading
<1>15. WriterOK(x, c, over)
  BY <1>13, <1>14 DEF WriterOK
<1>16. KeptOK(count, acked, next', x, c, lost, over)
  <2>1. next' \in 1..(MaxRecs + 1) /\ count < next' /\ x.n < next'
    BY <1>1, <1>3, <1>4, <1>13
  <2>2. QED BY <1>3, <2>1 DEF KeptOK
<1>17. QED BY <1>2, <1>5, <1>13, <1>15, <1>16, WriterAlone

\* The files after one of them has been written.
Put(d, k, c) == [d EXCEPT ![k] = c]

\* One file written, the others as they were.
LEMMA FilesSet ==
  ASSUME NEW d, FilesOK(d), NEW k \in 0..MaxRolls, NEW c, WF(c), NEW d2, d2 = Put(d, k, c)
  PROVE  FilesOK(d2) /\ d2[k] = c /\ \A f \in 0..MaxRolls : f # k => d2[f] = d[f]
<1>1. d \in [0..MaxRolls -> Seq(Byte)] /\ (\A f \in 0..MaxRolls : WF(d[f])) /\ c \in Seq(Byte)
  BY DEF FilesOK, WF
<1>2. d2 \in [0..MaxRolls -> Seq(Byte)] /\ d2[k] = c /\ \A f \in 0..MaxRolls : f # k => d2[f] = d[f]
  BY <1>1 DEF Put
<1>3. \A f \in 0..MaxRolls : WF(d2[f])
  BY <1>1, <1>2
<1>4. QED BY <1>2, <1>3 DEF FilesOK

\* A record in a file is in the grown file.
LEMMA HasGrown ==
  ASSUME NEW c \in Seq(Byte), NEW c2 \in Seq(Byte), Extends(c, c2), NEW id, Has(c, id)
  PROVE  Has(c2, id)
<1>1. PICK q \in Ends(c) : c[q].id = id
  BY DEF Has
<1>2. q \in 1..Len(c) /\ q \in Ends(c2)
  BY GrownEnds, EndsFinite
<1>3. c2[q] = c[q]
  BY <1>2 DEF Extends
<1>4. QED BY <1>1, <1>2, <1>3 DEF Has

\* What is kept stays in a file that grows.
LEMMA KeptGrown ==
  ASSUME NEW cnt, NEW ack, NEW nx, NEW x, NEW y, NEW c \in Seq(Byte), NEW c2 \in Seq(Byte),
         NEW lo, NEW ov, KeptOK(cnt, ack, nx, x, c, lo, ov), Extends(c, c2), y.n = x.n
  PROVE  KeptOK(cnt, ack, nx, y, c2, lo, ov)
<1>1. Cardinality(Ends(c)) <= Cardinality(Ends(c2)) /\ Cardinality(Ends(c)) \in Nat
      /\ Cardinality(Ends(c2)) \in Nat
  BY GrownEnds, EndsFinite
<1>2. /\ cnt \in Nat /\ nx \in 1..(MaxRecs + 1) /\ cnt < nx /\ x.n < nx
      /\ ~ov => cnt <= Cardinality(Ends(c))
      /\ ack \in Seq(Nat) /\ (~lo => \A k \in 1..Len(ack) : Has(c, ack[k]))
  BY DEF KeptOK
<1>3. ~lo => \A k \in 1..Len(ack) : Has(c2, ack[k])
  BY <1>2, HasGrown
<1>4. ~ov => cnt <= Cardinality(Ends(c2))
  BY <1>1, <1>2
<1>5. QED BY <1>2, <1>3, <1>4 DEF KeptOK

\* The last byte of a record makes one more whole record.
LEMMA RecordWhole ==
  ASSUME NEW c \in Seq(Byte), NEW c2 \in Seq(Byte), Extends(c, c2), Len(c2) = Len(c) + 1,
         IsLast(c2[Len(c) + 1]), c2[Len(c) + 1].id # 0
  PROVE  Len(c) + 1 \in Ends(c2) /\ Cardinality(Ends(c2)) = Cardinality(Ends(c)) + 1
<1> DEFINE l == Len(c)
<1>1. l \in Nat /\ Len(c2) = l + 1 /\ DOMAIN c2 = 1..(l + 1)
  BY LenProperties
<1>2. l + 1 \in Ends(c2)
  <2> HIDE DEF l
  <2>1. IsLast(c2[l + 1]) /\ c2[l + 1].id # 0
    BY DEF l
  <2>2. l + 1 \in DOMAIN c2
    BY <1>1
  <2>3. QED BY <2>1, <2>2 DEF Ends
<1>3. (\A q \in Ends(c2) : q <= l + 1) /\ (\A q \in Ends(c) : q <= l)
      /\ (\A q \in Ends(c2) : q <= l \/ q >= l + 1)
  BY <1>1, EndsFinite
<1>4. RecNo(c2, l + 1) = RecNo(c2, l) + 1
  BY <1>1, <1>2, <1>3, RecNoStep
<1>5. RecNo(c2, l) = RecNo(c, l)
  BY <1>1, GrownEnds
<1>6. RecNo(c, l) = Cardinality(Ends(c)) /\ RecNo(c2, l + 1) = Cardinality(Ends(c2))
  BY <1>1, <1>3, RecNoAll
<1>7. QED BY <1>2, <1>4, <1>5, <1>6

\* The byte an append or a creation writes next continues the file.
LEMMA NextByteFollows ==
  ASSUME NEW c, WF(c), NEW x \in Writer, Heading(x, c) \/ Appending(x, c), x.todo # <<>>,
         NEW b, b = [id |-> Head(x.todo).id, i |-> x.i + 1, size |-> Head(x.todo).size]
  PROVE  /\ Follows(c, b) /\ Head(x.todo) = x.todo[1] /\ x.todo[1] \in Job
         /\ b.id = x.todo[1].id /\ b.i = x.i + 1 /\ b.size = x.todo[1].size
         /\ Len(x.todo) \in Nat \ {0}
<1> DEFINE j == x.todo[1]
           l == Len(c)
<1>1. x.todo \in Seq(Job) /\ x.i \in Nat
  BY DEF Writer
<1>2. Len(x.todo) \in Nat \ {0} /\ Head(x.todo) = j
  BY <1>1, EmptySeq
<1>3. j \in Job
  BY <1>1, <1>2, ElementOfSeq
<1>4. b.id = j.id /\ b.i = x.i + 1 /\ b.size = j.size /\ j.id \in Nat /\ j.size \in Nat \ {0}
  BY <1>2, <1>3 DEF Job
<1>5. b \in Byte
  BY <1>1, <1>2, <1>4 DEF Byte
<1>6. c \in Seq(Byte) /\ l \in Nat /\ LOG_HDR \in Nat \ {0}
  BY LenProperties, LogAssumption DEF WF
<1>7. CASE Heading(x, c)
  <2>1. j = HeaderJob /\ x.i = l /\ l < LOG_HDR
    BY <1>7 DEF Heading
  <2>2. j.id = 0 /\ j.size = LOG_HDR
    BY <2>1 DEF HeaderJob
  <2>3. ASSUME l > 0 PROVE c[l].id = 0 /\ c[l].i = l /\ c[l].size = LOG_HDR
    <3>1. l \in 1..Len(c) /\ l <= LOG_HDR
      BY <1>6, <2>1, <2>3
    <3>2. QED BY <3>1 DEF WF
  <2> HIDE DEF j, l
  <2>4. Len(c) = l
    BY DEF l
  <2>5. b.id = 0 /\ b.i = l + 1 /\ b.size = LOG_HDR
    BY <1>4, <2>1, <2>2
  <2>6. l + 1 <= LOG_HDR
    BY <1>6, <2>1
  <2>7. l > 0 => ~IsLast(c[l]) /\ b.id = c[l].id /\ b.i = c[l].i + 1 /\ b.size = c[l].size
    BY <1>6, <2>1, <2>3, <2>5 DEF IsLast
  <2>8. Follows(c, b)
    BY <1>5, <2>4, <2>5, <2>6, <2>7 DEF Follows
  <2>9. QED BY <1>2, <1>3, <1>4, <2>8 DEF j
<1>8. CASE Appending(x, c)
  <2>1. /\ l >= LOG_HDR /\ j.id # 0
        /\ IF x.i # 0 THEN x.i < j.size /\ c[l].id = j.id /\ c[l].i = x.i /\ c[l].size = j.size
                      ELSE IsLast(c[l])
    BY <1>2, <1>8 DEF Appending
  <2> HIDE DEF j, l
  <2>2. Len(c) = l
    BY DEF l
  <2>3. b.i <= b.size
    BY <1>1, <1>4, <2>1
  <2>4. ~(l + 1 <= LOG_HDR)
    BY <1>6, <2>1
  <2>5. b.id # 0
    BY <1>4, <2>1
  <2>6. IF IsLast(c[l]) THEN b.i = 1 ELSE b.id = c[l].id /\ b.i = c[l].i + 1 /\ b.size = c[l].size
    <3>1. CASE x.i = 0
      BY <1>4, <2>1, <3>1
    <3>2. CASE x.i # 0
      <4>1. x.i < j.size /\ c[l].id = j.id /\ c[l].i = x.i /\ c[l].size = j.size
        BY <2>1, <3>2
      <4>2. ~IsLast(c[l])
        BY <1>1, <1>4, <4>1 DEF IsLast
      <4>3. QED BY <1>4, <4>1, <4>2
    <3>3. QED BY <3>1, <3>2
  <2>7. Follows(c, b)
    BY <1>5, <2>2, <2>3, <2>4, <2>5, <2>6 DEF Follows
  <2>8. QED BY <1>2, <1>3, <1>4, <2>7 DEF j
<1>9. QED BY <1>7, <1>8

\* One byte more of the header: it is whole, and the records are next, or not.
LEMMA HeadingNext ==
  ASSUME NEW c, WF(c), NEW x \in Writer, Heading(x, c), NEW b, Follows(c, b),
         b.i = x.i + 1, NEW c2 \in Seq(Byte), Len(c2) = Len(c) + 1, c2[Len(c) + 1] = b,
         NEW y, y.n = x.n, y.ids = x.ids,
         IF IsLast(b) THEN y.todo = Tail(x.todo) /\ y.i = 0 ELSE y.todo = x.todo /\ y.i = x.i + 1
  PROVE  IF IsLast(b) THEN Appending(y, c2) /\ Owed(y, c2) ELSE Heading(y, c2)
<1> DEFINE l == Len(c)
           td == x.todo
<1>1. l \in Nat /\ LOG_HDR \in Nat \ {0} /\ Len(c2) = l + 1
  BY LenProperties, LogAssumption DEF WF
<1>2. /\ td # <<>> /\ td[1] = HeaderJob /\ x.i = l /\ l < LOG_HDR /\ x.n <= Len(td) - 1
      /\ \A k \in 2..Len(td) : td[k].id # 0
      /\ \A k \in 1..Len(x.ids) : \E m \in 2..Len(td) : td[m].id = x.ids[k]
  BY DEF Heading
<1>3. td \in Seq(Job) /\ Len(td) \in Nat \ {0} /\ x.n \in Nat
  BY <1>2, EmptySeq DEF Writer
<1>4. b.i = l + 1 /\ b.size = LOG_HDR /\ c2[l + 1] = b
  BY <1>1, <1>2 DEF Follows
<1> HIDE DEF td, l
<1>5. CASE IsLast(b)
  <2> DEFINE t2 == Tail(td)
  <2>1. y.todo = t2 /\ y.i = 0
    BY <1>5 DEF td
  <2>2. t2 \in Seq(Job) /\ Len(t2) = Len(td) - 1 /\ \A i \in 1..Len(t2) : t2[i] = td[i + 1]
    BY <1>2, <1>3, HeadTailProperties
  <2> HIDE DEF t2
  <2>3. Len(c2) = LOG_HDR
    BY <1>1, <1>4, <1>5 DEF IsLast
  <2>4. IsLast(c2[Len(c2)])
    BY <1>1, <1>4, <1>5
  <2>5. ASSUME NEW k \in 1..Len(t2) PROVE t2[k].id # 0
    <3>1. k + 1 \in 2..Len(td) /\ t2[k] = td[k + 1]
      BY <1>3, <2>2
    <3>2. QED BY <1>2, <3>1
  <2>6. ASSUME NEW k \in 1..Len(x.ids) PROVE \E m \in 1..Len(t2) : t2[m].id = x.ids[k]
    <3>1. PICK m \in 2..Len(td) : td[m].id = x.ids[k]
      BY <1>2
    <3>2. m - 1 \in 1..Len(t2) /\ (m - 1) + 1 = m
      BY <1>3, <2>2
    <3>3. t2[m - 1] = td[m]
      BY <2>2, <3>2
    <3>4. QED BY <3>1, <3>2, <3>3
  <2>7. Appending(y, c2)
    BY <1>1, <2>1, <2>3, <2>4, <2>5, <2>6 DEF Appending
  <2>8. Owed(y, c2)
    <3>1. Cardinality(Ends(c2)) \in Nat
      BY EndsFinite
    <3>2. QED BY <1>2, <1>3, <2>1, <2>2, <3>1 DEF Owed
  <2>9. QED BY <1>5, <2>7, <2>8
<1>6. CASE ~IsLast(b)
  <2>1. Len(c2) < LOG_HDR
    BY <1>1, <1>2, <1>4, <1>6 DEF IsLast
  <2>2. y.todo = td /\ y.i = Len(c2)
    BY <1>1, <1>2, <1>6 DEF td
  <2>3. Heading(y, c2)
    BY <1>2, <2>1, <2>2 DEF Heading
  <2>4. QED BY <1>6, <2>3
<1>7. QED BY <1>5, <1>6

\* One byte more of an append: its record is whole, or still the first to do.
LEMMA AppendingNext ==
  ASSUME NEW c \in Seq(Byte), NEW c2 \in Seq(Byte), Extends(c, c2), Len(c2) = Len(c) + 1,
         NEW x \in Writer, Appending(x, c), x.todo # <<>>,
         NEW b, b = c2[Len(c) + 1], b.i <= b.size,
         b.id = x.todo[1].id, b.i = x.i + 1, b.size = x.todo[1].size, NEW y, y.n = x.n, y.ids = x.ids,
         IF IsLast(b) THEN y.todo = Tail(x.todo) /\ y.i = 0 ELSE y.todo = x.todo /\ y.i = x.i + 1
  PROVE  Appending(y, c2) /\ (Owed(x, c) => Owed(y, c2))
<1> DEFINE l == Len(c)
           td == x.todo
           N == Cardinality(Ends(c))
           N2 == Cardinality(Ends(c2))
<1>1. l \in Nat /\ LOG_HDR \in Nat \ {0} /\ Len(c2) = l + 1 /\ N \in Nat /\ N2 \in Nat /\ N <= N2
  BY LenProperties, LogAssumption, EndsFinite, GrownEnds
<1>2. td \in Seq(Job) /\ x.n \in Nat /\ x.i \in Nat /\ x.ids \in Seq(Nat)
  BY DEF Writer
<1>3. Len(td) \in Nat \ {0} /\ Len(x.ids) \in Nat /\ td # <<>>
  BY <1>2, EmptySeq, LenProperties
<1>4. /\ l >= LOG_HDR /\ \A k \in 1..Len(td) : td[k].id # 0
      /\ \A k \in 1..Len(x.ids) : Has(c, x.ids[k]) \/ \E m \in 1..Len(td) : td[m].id = x.ids[k]
  BY DEF Appending
<1>12. Owed(x, c) => x.n <= N + Len(td)
  BY DEF Owed
<1>5. td[1] \in Job /\ td[1].id # 0 /\ 1 \in 1..Len(td)
  BY <1>2, <1>3, <1>4, ElementOfSeq
<1>6. b.size \in Nat /\ c2[l + 1] = b /\ b.id = td[1].id /\ b.id # 0
  BY <1>5 DEF Job
<1>7. \A id : Has(c, id) => Has(c2, id)
  BY HasGrown
<1>8. l + 1 >= LOG_HDR /\ Len(c2) >= LOG_HDR
  BY <1>1, <1>4
<1> HIDE DEF l, td, N, N2
<1>9. CASE IsLast(b)
  <2> DEFINE t2 == Tail(td)
  <2>1. y.todo = t2 /\ y.i = 0
    BY <1>9 DEF td
  <2>2. t2 \in Seq(Job) /\ Len(t2) = Len(td) - 1 /\ \A i \in 1..Len(t2) : t2[i] = td[i + 1]
    BY <1>2, <1>3, HeadTailProperties
  <2> HIDE DEF t2
  <2>3. l + 1 \in Ends(c2) /\ N2 = N + 1
    <3>1. IsLast(c2[Len(c) + 1]) /\ c2[Len(c) + 1].id # 0
      BY <1>6, <1>9 DEF l
    <3>2. QED BY <3>1, RecordWhole DEF l, N, N2
  <2>4. Has(c2, b.id)
    BY <1>6, <2>3 DEF Has
  <2>5. \A k \in 1..Len(t2) : t2[k].id # 0
    <3>1. SUFFICES ASSUME NEW k \in 1..Len(t2) PROVE t2[k].id # 0
      OBVIOUS
    <3>2. k + 1 \in 1..Len(td)
      BY <1>3, <2>2
    <3>3. QED BY <1>4, <2>2, <3>2
  <2>6. Owed(x, c) => Owed(y, c2)
    <3>1. Owed(x, c) => x.n <= N2 + Len(t2)
      BY <1>1, <1>2, <1>3, <1>12, <2>2, <2>3
    <3>2. QED BY <2>1, <3>1 DEF Owed, N2
  <2>7. ASSUME NEW k \in 1..Len(x.ids)
        PROVE  Has(c2, x.ids[k]) \/ \E m \in 1..Len(t2) : t2[m].id = x.ids[k]
    <3>1. CASE Has(c, x.ids[k])
      BY <1>7, <3>1
    <3>2. ASSUME NEW m \in 1..Len(td), td[m].id = x.ids[k]
          PROVE  Has(c2, x.ids[k]) \/ \E p \in 1..Len(t2) : t2[p].id = x.ids[k]
      <4>1. CASE m = 1
        BY <1>6, <2>4, <3>2, <4>1
      <4>2. CASE m # 1
        <5>1. m - 1 \in 1..Len(t2) /\ (m - 1) + 1 = m
          BY <1>3, <2>2, <4>2
        <5>2. t2[m - 1] = td[m]
          BY <2>2, <5>1
        <5>3. QED BY <3>2, <5>1, <5>2
      <4>3. QED BY <4>1, <4>2
    <3>3. QED BY <1>4, <3>1, <3>2
  <2>8. IsLast(c2[Len(c2)])
    BY <1>1, <1>6, <1>9
  <2>9. Appending(y, c2)
    BY <1>8, <2>1, <2>5, <2>7, <2>8 DEF Appending
  <2>10. QED BY <2>6, <2>9
<1>10. CASE ~IsLast(b)
  <2>1. y.todo = td /\ y.i = x.i + 1 /\ y.i # 0
    BY <1>2, <1>10 DEF td
  <2>2. y.i < td[1].size
    <3>1. b.i = x.i + 1 /\ b.i <= b.size /\ b.size = td[1].size
      BY DEF td
    <3>2. b.i # b.size
      BY <1>10 DEF IsLast
    <3>3. QED BY <1>2, <1>6, <2>1, <3>1, <3>2
  <2>3. c2[Len(c2)].id = td[1].id /\ c2[Len(c2)].i = y.i /\ c2[Len(c2)].size = td[1].size
    BY <1>1, <1>6, <2>1 DEF td
  <2>4. Owed(x, c) => Owed(y, c2)
    <3>1. Owed(x, c) => x.n <= N2 + Len(td)
      BY <1>1, <1>2, <1>3, <1>12
    <3>2. QED BY <2>1, <3>1 DEF Owed, N2
  <2>5. \A k \in 1..Len(x.ids) : Has(c2, x.ids[k]) \/ \E m \in 1..Len(td) : td[m].id = x.ids[k]
    BY <1>4, <1>7
  <2>6. Appending(y, c2)
    BY <1>3, <1>4, <1>8, <2>1, <2>2, <2>3, <2>5 DEF Appending
  <2>7. QED BY <2>4, <2>6
<1>11. QED BY <1>9, <1>10

\* A byte reaches the end of the file.
LEMMA WriteByteOK ==
  ASSUME Inv, WriteByte
  PROVE  Inv'
<1> DEFINE c == disk[cur]
           b == [id |-> Head(w.todo).id, i |-> w.i + 1, size |-> Head(w.todo).size]
           c2 == Append(c, b)
           x == w'
           d2 == disk'
           headed == Head(w.todo).id = 0 /\ IsLast(b)
<1>1. /\ w.pc \in {"create", "append"} /\ w.todo # <<>> /\ disk' = [disk EXCEPT ![cur] = c2]
      /\ w' = IF IsLast(b) THEN [w EXCEPT !.todo = Tail(@), !.i = 0] ELSE [w EXCEPT !.i = @ + 1]
      /\ count' = IF headed THEN w.n ELSE count
      /\ over' = IF headed THEN w.n # 0 ELSE over
      /\ Changed /\ UNCHANGED <<cur, acked, next, lost>>
  BY DEF WriteByte
<1>2. /\ WF(c) /\ c \in Seq(Byte) /\ w \in Writer /\ WriterOK(w, c, over) /\ cur \in 0..MaxRolls
      /\ KeptOK(count, acked, next, w, c, lost, over) /\ w.todo \in Seq(Job) /\ w.i \in Nat /\ MaxRolls \in Nat
      /\ FilesOK(disk)
  BY WriterFacts, InvFacts
<1>3. b = [id |-> Head(w.todo).id, i |-> w.i + 1, size |-> Head(w.todo).size]
  OBVIOUS
<1> HIDE DEF b
<1>20. Heading(w, c) \/ Appending(w, c)
  BY <1>1, <1>2 DEF WriterOK
<1>4. /\ Follows(c, b) /\ Head(w.todo) = w.todo[1] /\ w.todo[1] \in Job
      /\ b.id = w.todo[1].id /\ b.i = w.i + 1 /\ b.size = w.todo[1].size
      /\ Len(w.todo) \in Nat \ {0}
  BY <1>1, <1>2, <1>3, <1>20, NextByteFollows
<1>5. /\ WF(c2) /\ Extends(c, c2) /\ Len(c2) = Len(c) + 1 /\ c2[Len(c) + 1] = b
  BY <1>2, <1>4, WFAppend
<1>6. c2 \in Seq(Byte)
  BY <1>5 DEF WF
<1>7. d2 = Put(disk, cur, c2)
  BY <1>1 DEF Put
<1> HIDE DEF c2, d2
<1>8. FilesOK(d2) /\ d2[cur] = c2 /\ \A f \in 0..MaxRolls : f # cur => d2[f] = disk[f]
  <2>1. FilesOK(disk) /\ cur \in 0..MaxRolls /\ WF(c2)
    BY <1>2, <1>5
  <2>2. QED BY <1>7, <2>1, FilesSet
<1>9. \A f \in 0..cur : Extends(disk[f], d2[f])
  <2>1. SUFFICES ASSUME NEW f \in 0..cur PROVE Extends(disk[f], d2[f])
    OBVIOUS
  <2>2. f \in 0..MaxRolls
    BY <1>2
  <2>3. CASE f = cur
    BY <1>5, <1>8, <2>3
  <2>4. CASE f # cur
    <3>1. disk[f] \in Seq(Byte) /\ d2[f] = disk[f]
      BY <1>2, <1>8, <2>2, <2>4 DEF FilesOK
    <3>2. QED BY <3>1, ExtendsItself
  <2>5. QED BY <2>3, <2>4
<1>10. Tail(w.todo) \in Seq(Job)
  BY <1>1, <1>2, HeadTailProperties
<1>11. /\ x \in Writer /\ x.pc = w.pc /\ x.n = w.n /\ x.ids = w.ids
       /\ IF IsLast(b) THEN x.todo = Tail(w.todo) /\ x.i = 0 ELSE x.todo = w.todo /\ x.i = w.i + 1
  <2>1. CASE IsLast(b)
    <3>1. x = [w EXCEPT !.todo = Tail(w.todo), !.i = 0]
      BY <1>1, <2>1
    <3> DEFINE t2 == Tail(w.todo)
    <3>2. t2 \in Seq(Job)
      BY <1>10
    <3> HIDE DEF x, t2
    <3>3. x = [w EXCEPT !.todo = t2, !.i = 0]
      BY <3>1 DEF t2
    <3>4. x \in Writer /\ x.pc = w.pc /\ x.n = w.n /\ x.ids = w.ids /\ x.todo = t2 /\ x.i = 0
      BY <1>2, <3>2, <3>3 DEF Writer
    <3>5. QED BY <2>1, <3>4 DEF t2
  <2>2. CASE ~IsLast(b)
    <3>1. x = [w EXCEPT !.i = w.i + 1]
      BY <1>1, <2>2
    <3> DEFINE j == w.i + 1
    <3>2. j \in Nat /\ x = [w EXCEPT !.i = j]
      BY <1>2, <3>1
    <3>3. w \in Writer
      BY <1>2
    <3> HIDE DEF x, j
    <3>4. x \in Writer /\ x.pc = w.pc /\ x.n = w.n /\ x.ids = w.ids /\ x.todo = w.todo /\ x.i = j
      BY <3>2, <3>3 DEF Writer
    <3>5. QED BY <2>2, <3>4 DEF j
  <2>3. QED BY <2>1, <2>2
<1> HIDE DEF x
<1>12. ASSUME Heading(w, c)
       PROVE  WriterOK(x, c2, over') /\ KeptOK(count', acked', next', x, c2, lost', over')
  <2>1. IF IsLast(b) THEN Appending(x, c2) /\ Owed(x, c2) ELSE Heading(x, c2)
    BY <1>2, <1>4, <1>5, <1>6, <1>11, <1>12, HeadingNext
  <2>2. ~Appending(w, c)
    <3>1. Len(c) < LOG_HDR /\ Len(c) \in Nat /\ LOG_HDR \in Nat
      BY <1>2, <1>12, LogAssumption, LenProperties DEF Heading
    <3>2. QED BY <3>1 DEF Appending
  <2>3. w.pc = "create"
    BY <1>1, <1>2, <2>2 DEF WriterOK
  <2>4. WriterOK(x, c2, over')
    BY <1>11, <2>1, <2>3 DEF WriterOK
  <2>5. CASE headed
    <3>1. count' = w.n /\ over' = (w.n # 0)
      BY <1>1, <2>5
    <3>2. KeptOK(count, acked, next, x, c2, lost, over)
      BY <1>2, <1>5, <1>6, <1>11, KeptGrown
    <3>3. w.n \in Nat /\ w.n < next /\ Cardinality(Ends(c2)) \in Nat
      BY <1>2, <1>6, EndsFinite DEF KeptOK, Writer
    <3>4. ~(w.n # 0) => w.n <= Cardinality(Ends(c2))
      BY <3>3
    <3>5. KeptOK(w.n, acked, next, x, c2, lost, w.n # 0)
      BY <3>2, <3>3, <3>4 DEF KeptOK
    <3>6. QED BY <1>1, <2>4, <3>1, <3>5
  <2>6. CASE ~headed
    <3>1. count' = count /\ over' = over
      BY <1>1, <2>6
    <3>2. KeptOK(count, acked, next, x, c2, lost, over)
      BY <1>2, <1>5, <1>6, <1>11, KeptGrown
    <3>3. QED BY <1>1, <2>4, <3>1, <3>2
  <2>7. QED BY <2>5, <2>6
<1>13. ASSUME Appending(w, c)
       PROVE  WriterOK(x, c2, over') /\ KeptOK(count', acked', next', x, c2, lost', over')
  <2>1. b.i <= b.size /\ b = c2[Len(c) + 1]
    BY <1>4, <1>5 DEF Follows
  <2>2. Appending(x, c2) /\ (Owed(w, c) => Owed(x, c2))
    BY <1>1, <1>2, <1>4, <1>5, <1>6, <1>11, <1>13, <2>1, AppendingNext
  <2>3. ~headed
    <3>1. 1 \in 1..Len(w.todo)
      BY <1>4
    <3>2. w.todo[1].id # 0
      BY <1>13, <3>1 DEF Appending
    <3>3. QED BY <1>4, <3>2
  <2>4. count' = count /\ over' = over
    BY <1>1, <2>3
  <2>5. ~Heading(w, c)
    <3>1. Len(c) >= LOG_HDR /\ Len(c) \in Nat /\ LOG_HDR \in Nat
      BY <1>2, <1>13, LogAssumption, LenProperties DEF Appending
    <3>2. QED BY <3>1 DEF Heading
  <2>6. WriterOK(x, c2, over)
    BY <1>2, <1>11, <2>2, <2>5 DEF WriterOK
  <2>7. KeptOK(count, acked, next, x, c2, lost, over)
    BY <1>2, <1>5, <1>6, <1>11, KeptGrown
  <2>8. QED BY <1>1, <2>4, <2>6, <2>7
<1>14. WriterOK(x, c2, over') /\ KeptOK(count', acked', next', x, c2, lost', over')
  BY <1>12, <1>13, <1>20
<1>15. disk'[cur'] = c2 /\ cur' = cur
  BY <1>1, <1>8 DEF d2
<1>16. WriterOK(w', disk'[cur'], over') /\ KeptOK(count', acked', next', w', disk'[cur'], lost', over')
  BY <1>14, <1>15 DEF x
<1>17. w'.pc # "roll"
  BY <1>1, <1>11 DEF x
<1>18. cur' \in 0..MaxRolls /\ cur <= cur' /\ FilesOK(disk')
       /\ \A f \in 0..cur : Extends(disk[f], disk'[f])
  BY <1>2, <1>8, <1>9, <1>15 DEF d2
<1>19. QED BY <1>1, <1>16, <1>17, <1>18, FileChanges

\* The records acknowledged before and those of this append are in the file.
LEMMA AckedMore ==
  ASSUME NEW ack \in Seq(Nat), NEW ids \in Seq(Nat), NEW c,
         \A k \in 1..Len(ack) : Has(c, ack[k]), \A k \in 1..Len(ids) : Has(c, ids[k])
  PROVE  /\ ack \o ids \in Seq(Nat)
         /\ \A k \in 1..Len(ack \o ids) : Has(c, (ack \o ids)[k])
<1>1. /\ ack \o ids \in Seq(Nat) /\ Len(ack \o ids) = Len(ack) + Len(ids)
      /\ \A k \in 1..(Len(ack) + Len(ids)) :
           (ack \o ids)[k] = IF k <= Len(ack) THEN ack[k] ELSE ids[k - Len(ack)]
  BY ConcatProperties
<1>2. Len(ack) \in Nat /\ Len(ids) \in Nat
  OBVIOUS
<1>3. ASSUME NEW k \in 1..(Len(ack) + Len(ids))
      PROVE  Has(c, (ack \o ids)[k])
  <2>1. CASE k <= Len(ack)
    <3>1. k \in 1..Len(ack)
      BY <1>2, <2>1
    <3>2. QED BY <1>1, <2>1, <3>1
  <2>2. CASE ~(k <= Len(ack))
    <3>1. k - Len(ack) \in 1..Len(ids)
      BY <1>2, <2>2
    <3>2. QED BY <1>1, <2>2, <3>1
  <2>3. QED BY <2>1, <2>2
<1>4. QED BY <1>1, <1>3

\* A write that has nothing left to do has all its records in the file.
LEMMA WriteDone ==
  ASSUME NEW x \in Writer, NEW c, WF(c), NEW ov, WriterOK(x, c, ov), x.pc \in {"create", "append"},
         x.todo = <<>>
  PROVE  /\ x.pc = "create" \/ ~ov => x.n <= Cardinality(Ends(c))
         /\ \A k \in 1..Len(x.ids) : Has(c, x.ids[k])
<1>1. c \in Seq(Byte) /\ Cardinality(Ends(c)) \in Nat /\ x.n \in Nat
  <2>1. c \in Seq(Byte) /\ x.n \in Nat
    BY DEF WF, Writer
  <2>2. QED BY <2>1, EndsFinite
<1>2. Len(x.todo) = 0 /\ 1..Len(x.todo) = {}
  OBVIOUS
<1>3. ~Heading(x, c)
  BY DEF Heading
<1>4. Appending(x, c) /\ (x.pc = "create" \/ ~ov => Owed(x, c))
  BY <1>3 DEF WriterOK
<1>5. \A k \in 1..Len(x.ids) : Has(c, x.ids[k])
  BY <1>2, <1>4 DEF Appending
<1>6. Owed(x, c) => x.n <= Cardinality(Ends(c))
  BY <1>1, <1>2 DEF Owed
<1>7. QED BY <1>4, <1>5, <1>6

\* The count is written and the append returns.
LEMMA WriteCountOK ==
  ASSUME Inv, WriteCount
  PROVE  Inv'
<1>1. /\ w.pc \in {"create", "append"} /\ w.todo = <<>> /\ count' = w.n /\ acked' = acked \o w.ids
      /\ over' = (over /\ w.pc = "append") /\ lost' = lost
      /\ w' = Idle /\ Changed /\ disk' = disk /\ cur' = cur /\ next' = next
  BY DEF WriteCount
<1>2. /\ WF(disk[cur]) /\ w \in Writer /\ WriterOK(w, disk[cur], over) /\ cur \in 0..MaxRolls
      /\ KeptOK(count, acked, next, w, disk[cur], lost, over) /\ w.ids \in Seq(Nat) /\ w.n \in Nat
      /\ MaxRolls \in Nat /\ FilesOK(disk) /\ next \in 1..(MaxRecs + 1) /\ w.n < next
      /\ acked \in Seq(Nat) /\ MaxRecs \in Nat
  BY WriterFacts, InvFacts
<1>3. /\ w.pc = "create" \/ ~over => w.n <= Cardinality(Ends(disk[cur]))
      /\ \A k \in 1..Len(w.ids) : Has(disk[cur], w.ids[k])
  BY <1>1, <1>2, WriteDone
<1>4. ~lost => \A k \in 1..Len(acked) : Has(disk[cur], acked[k])
  BY <1>2 DEF KeptOK
<1> DEFINE ack2 == acked \o w.ids
<1>5. ack2 \in Seq(Nat) /\ (~lost => \A k \in 1..Len(ack2) : Has(disk[cur], ack2[k]))
  <2>1. ack2 \in Seq(Nat)
    BY <1>2, ConcatProperties
  <2>2. QED BY <1>2, <1>3, <1>4, <2>1, AckedMore
<1> HIDE DEF ack2
<1>6. Idle.n = 0 /\ Idle.pc = "up" /\ WriterOK(Idle, disk[cur], over')
  BY IdleFields, IdleOK
<1>7. Idle.n < next
  BY <1>2, <1>6
<1>8. KeptOK(w.n, ack2, next, Idle, disk[cur], lost, over')
  <2>1. ~over' => w.n <= Cardinality(Ends(disk[cur]))
    BY <1>1, <1>3
  <2>2. QED BY <1>2, <1>5, <1>7, <2>1 DEF KeptOK
<1>9. acked' = ack2
  BY <1>1 DEF ack2
<1>10. KeptOK(count', acked', next', w', disk'[cur'], lost', over') /\ WriterOK(w', disk'[cur'], over')
  BY <1>1, <1>6, <1>8, <1>9
<1>11. \A f \in 0..cur : Extends(disk[f], disk'[f])
  <2>1. SUFFICES ASSUME NEW f \in 0..cur PROVE Extends(disk[f], disk[f])
    BY <1>1
  <2>2. f \in 0..MaxRolls
    BY <1>2
  <2>3. disk[f] \in Seq(Byte)
    BY <1>2, <2>2 DEF FilesOK
  <2>4. QED BY <2>3, ExtendsItself
<1>12. FilesOK(disk') /\ cur' \in 0..MaxRolls /\ cur <= cur' /\ w'.pc # "roll"
  BY <1>1, <1>2, <1>6
<1>13. QED BY <1>1, <1>10, <1>11, <1>12, FileChanges

\* The new file, whole or cut short, takes the place of the old one.
LEMMA RollRenameOK ==
  ASSUME Inv, RollRename
  PROVE  Inv'
<1>1. /\ w.pc = "roll" /\ cur' = cur + 1 /\ count' = 0 /\ acked' = <<>> /\ w' = Idle
      /\ Changed /\ next' = next
  BY DEF RollRename
<1>2. /\ FilesOK(disk) /\ cur \in 0..MaxRolls /\ MaxRolls \in Nat /\ LOG_HDR \in Nat \ {0}
      /\ next \in 1..(MaxRecs + 1) /\ MaxRecs \in Nat
  BY WriterFacts, InvFacts
<1>3. cur < MaxRolls
  BY <1>1 DEF Inv
<1>4. PICK k \in 0..LOG_HDR : disk' = [disk EXCEPT ![cur + 1] = SubSeq(Header, 1, k)]
  BY DEF RollRename
<1> DEFINE h == SubSeq(Header, 1, k)
           d2 == disk'
<1>5. k \in Nat /\ k <= LOG_HDR
  BY <1>2
<1>6. WF(h) /\ Len(h) = k /\ (k = LOG_HDR => IsLast(h[k]))
  BY <1>5, WFHeader
<1>7. d2 = Put(disk, cur + 1, h)
  BY <1>4 DEF Put
<1> HIDE DEF h, d2
<1>8. cur + 1 \in 0..MaxRolls
  BY <1>2, <1>3
<1>9. FilesOK(d2) /\ d2[cur + 1] = h /\ \A f \in 0..MaxRolls : f # cur + 1 => d2[f] = disk[f]
  BY <1>2, <1>6, <1>7, <1>8, FilesSet
<1>10. \A f \in 0..cur : Extends(disk[f], d2[f])
  <2>1. SUFFICES ASSUME NEW f \in 0..cur PROVE Extends(disk[f], d2[f])
    OBVIOUS
  <2>2. f \in 0..MaxRolls /\ f # cur + 1
    BY <1>2
  <2>3. disk[f] \in Seq(Byte) /\ d2[f] = disk[f]
    BY <1>2, <1>9, <2>2 DEF FilesOK
  <2>4. QED BY <2>3, ExtendsItself
<1>12. Idle.n = 0 /\ Idle.pc = "up" /\ WriterOK(Idle, h, over')
  BY IdleFields, IdleOK
<1>13. KeptOK(0, <<>>, next, Idle, h, lost', over')
  <2>1. h \in Seq(Byte)
    BY <1>6 DEF WF
  <2>2. Cardinality(Ends(h)) \in Nat
    BY <2>1, EndsFinite, FS_CardinalityType
  <2>3. <<>> \in Seq(Nat) /\ 1..Len(<<>>) = {}
    OBVIOUS
  <2>4. 0 < next /\ Idle.n < next /\ 0 \in Nat /\ 0 <= Cardinality(Ends(h))
    BY <1>2, <1>12, <2>2
  <2>5. QED BY <1>2, <2>3, <2>4 DEF KeptOK
<1>14. disk'[cur'] = h
  BY <1>1, <1>9 DEF d2
<1>15. WriterOK(w', disk'[cur'], over') /\ KeptOK(count', acked', next', w', disk'[cur'], lost', over') /\ w'.pc # "roll"
  BY <1>1, <1>12, <1>13, <1>14
<1>16. cur' \in 0..MaxRolls /\ cur <= cur' /\ FilesOK(disk')
       /\ \A f \in 0..cur : Extends(disk[f], disk'[f])
  BY <1>1, <1>2, <1>8, <1>9, <1>10 DEF d2
<1>17. QED BY <1>1, <1>15, <1>16, FileChanges

\* Where a file at rest is torn and the torn part is no whole record, no record
\* ends after the valid part.
LEMMA NothingBehind ==
  ASSUME NEW c, WF(c), NEW kind, kind # "n", NEW n, NEW valid, Judged(kind, n, valid, c),
         Len(c) - valid <= LOG_MAX
  PROVE  /\ valid \in Nat /\ valid <= Len(c) /\ LOG_HDR <= valid /\ Boundary(c, valid)
         /\ \A q \in Ends(c) : q <= valid
<1>1. /\ valid \in Nat /\ Boundary(c, valid) /\ valid < Len(c)
      /\ valid + c[valid + 1].size > Len(c) \/ c[valid + 1].size > LOG_MAX
  BY DEF Judged
<1>2. c \in Seq(Byte) /\ Len(c) \in Nat /\ LOG_HDR \in Nat /\ LOG_MAX \in Nat
  BY LogAssumption DEF WF
<1>3. valid \in LOG_HDR..Len(c)
  BY <1>1 DEF Boundary
<1> DEFINE s == c[valid + 1].size
<1>4. /\ s \in Nat \ {0}
      /\ valid + s > Len(c) => \A q \in Ends(c) : q <= valid
  BY <1>1, NextRecord
<1> HIDE DEF s
<1>5. valid + s > Len(c) \/ s > LOG_MAX
  BY <1>1 DEF s
<1>6. valid + s > Len(c)
  BY <1>1, <1>2, <1>4, <1>5
<1>7. QED BY <1>1, <1>2, <1>3, <1>4, <1>6

\* The valid part of such a file has all its records.
LEMMA CutKeeps ==
  ASSUME NEW c, WF(c), NEW valid \in Nat, valid <= Len(c),
         \A q \in Ends(c) : q <= valid, NEW c2, c2 = SubSeq(c, 1, valid)
  PROVE  /\ WF(c2) /\ Len(c2) = valid /\ Ends(c2) = Ends(c)
         /\ \A id : Has(c, id) => Has(c2, id)
<1>1. WF(c2) /\ Len(c2) = valid /\ Extends(c2, c)
  BY WFPrefix
<1>2. c \in Seq(Byte) /\ c2 \in Seq(Byte) /\ LOG_HDR \in Nat \ {0}
  BY <1>1, LogAssumption DEF WF
<1>3. Ends(c2) \subseteq Ends(c) /\ \A q \in Ends(c) : q <= Len(c2) => q \in Ends(c2)
  BY <1>1, <1>2, GrownEnds
<1>4. Ends(c2) = Ends(c)
  BY <1>1, <1>3
<1>5. Ends(c2) \subseteq 1..Len(c2)
  BY <1>2, EndsFinite
<1>6. \A q \in 1..Len(c2) : c[q] = c2[q]
  BY <1>1 DEF Extends
<1>7. \A id : Has(c, id) => Has(c2, id)
  BY <1>4, <1>5, <1>6 DEF Has
<1>8. QED BY <1>1, <1>4, <1>7

\* What the operator acts on: an answer about the file as it is.
LEMMA RecoverFacts ==
  ASSUME Inv, ans.kind \in {"n", "pair", "corrupt"}, ans.mode = Count, ans.ino = cur
  PROVE  /\ rd.pc = "idle" /\ ans # None
         /\ ans.kind = "pair" => ans.valid \in LOG_HDR..Len(disk[cur])
         /\ ans.kind = "pair" /\ ans.quiet => Judged("pair", ans.n, ans.valid, disk[cur])
<1>1. ans # None
  BY DEF None
<1>2. rd.pc = "idle" /\ AnsOK(ans, disk, cur)
  BY <1>1 DEF Inv
<1>3. ans.mode < 0
  BY DEF Count
<1>4. /\ ans.kind \in {"n", "pair", "badtail"} /\ ans.mode < 0 /\ ans.quiet =>
           ans.ino = cur /\ Judged(ans.kind, ans.n, ans.valid, disk[ans.ino])
      /\ ans.kind = "pair" => ans.valid \in LOG_HDR..Len(disk[ans.ino])
  BY <1>1, <1>2 DEF AnsOK
<1>5. QED BY <1>1, <1>2, <1>3, <1>4

\* The operator cuts what (-2;x) calls torn and starts the writer.
LEMMA RecoverOK ==
  ASSUME Inv, Recover
  PROVE  Inv'
<1>1. /\ ans.kind \in {"n", "pair", "corrupt"} /\ ans.mode = Count /\ ans.ino = cur
      /\ w' = Idle /\ UNCHANGED <<cur, count, acked, next>>
  BY DEF Recover
<1>2. /\ rd.pc = "idle" /\ ans # None
      /\ ans.kind = "pair" => ans.valid \in LOG_HDR..Len(disk[cur])
      /\ ans.kind = "pair" /\ ans.quiet => Judged("pair", ans.n, ans.valid, disk[cur])
  BY <1>1, RecoverFacts
<1>3. /\ WF(disk[cur]) /\ cur \in 0..MaxRolls /\ FilesOK(disk) /\ ScanOK(rd, disk, cur)
      /\ KeptOK(count, acked, next, w, disk[cur], lost, over) /\ disk[cur] \in Seq(Byte)
      /\ Len(disk[cur]) \in Nat /\ LOG_HDR \in Nat
  BY WriterFacts, InvFacts
<1>4. Idle.n = 0 /\ Idle.pc = "up"
  BY IdleFields
<1>5. CASE ans.kind # "pair"
  <2>1. UNCHANGED <<disk, rd, ans, lost, over>>
    BY <1>5 DEF Recover
  <2>2. WriterOK(Idle, disk[cur], over) /\ KeptOK(count, acked, next, Idle, disk[cur], lost, over)
    BY <1>3, <1>4, IdleOK, KeptIdle
  <2>3. QED BY <1>1, <1>4, <2>1, <2>2, WriterAlone
<1>6. CASE ans.kind = "pair"
  <2> DEFINE c == disk[cur]
             v == ans.valid
             c2 == SubSeq(c, 1, v)
             d2 == disk'
  <2>1. /\ Len(c) - v <= LOG_MAX /\ disk' = [disk EXCEPT ![cur] = c2] /\ Changed
        /\ lost' = (lost \/ ~ans.quiet) /\ over' = (over \/ ~ans.quiet)
    BY <1>6 DEF Recover, File
  <2>2. v \in Nat /\ v <= Len(c)
    BY <1>2, <1>3, <1>6
  <2>3. WF(c2)
    BY <1>3, <2>2, WFPrefix
  <2>4. d2 = Put(disk, cur, c2)
    BY <2>1 DEF Put
  <2>5. ASSUME ans.quiet PROVE Ends(c2) = Ends(c) /\ \A id : Has(c, id) => Has(c2, id)
    <3>1. Judged("pair", ans.n, v, c)
      BY <1>2, <1>6, <2>5
    <3>2. \A q \in Ends(c) : q <= v
      BY <1>3, <2>1, <3>1, NothingBehind
    <3>3. WF(c) /\ c2 = SubSeq(c, 1, v)
      BY <1>3
    <3> HIDE DEF v, c, c2
    <3>4. QED BY <2>2, <3>2, <3>3, CutKeeps
  <2> HIDE DEF c2, d2, v
  <2>6. FilesOK(d2) /\ d2[cur] = c2
    BY <1>3, <2>3, <2>4, FilesSet
  <2>7. KeptOK(count, acked, next, Idle, c2, lost', over')
    <3>1. KeptOK(count, acked, next, Idle, c, lost, over)
      BY <1>3, <1>4, KeptIdle
    <3>2. CASE ans.quiet
      <4>1. Ends(c2) = Ends(c) /\ \A id : Has(c, id) => Has(c2, id)
        BY <2>5, <3>2
      <4>2. ~lost' => ~lost
        BY <2>1
      <4>3. ~over' => ~over
        BY <2>1
      <4>4. QED BY <3>1, <4>1, <4>2, <4>3 DEF KeptOK
    <3>3. CASE ~ans.quiet
      <4>1. lost' /\ over'
        BY <2>1, <3>3
      <4>2. QED BY <3>1, <4>1 DEF KeptOK
    <3>4. QED BY <3>2, <3>3
  <2>8. WriterOK(Idle, c2, over')
    BY IdleOK
  <2>9. ScanOK([rd EXCEPT !.quiet = FALSE], d2, cur)
    BY <1>2, <1>3, <2>6, ScanIdle
  <2>10. rd' = [rd EXCEPT !.quiet = FALSE] /\ ans' = None
    BY <2>1 DEF Changed
  <2>11. ScanOK(rd', disk', cur') /\ AnsOK(ans', disk', cur') /\ FilesOK(disk')
    BY <1>1, <2>6, <2>9, <2>10 DEF AnsOK, d2
  <2>12. WriterOK(w', disk'[cur'], over') /\ KeptOK(count', acked', next', w', disk'[cur'], lost', over')
    BY <1>1, <2>6, <2>7, <2>8 DEF d2
  <2>13. cur' \in 0..MaxRolls /\ w'.pc # "roll"
    BY <1>1, <1>3, <1>4
  <2>14. QED BY <2>10, <2>11, <2>12, <2>13 DEF Inv
<1>7. QED BY <1>5, <1>6

(***************************************************************************)
(* The theorems                                                            *)
(***************************************************************************)

\* The invariant holds at first ...
LEMMA InitOK ==
  ASSUME Init
  PROVE  Inv
<1>1. /\ disk = [f \in 0..MaxRolls |-> <<>>] /\ cur = 0 /\ count = 0 /\ w = Idle /\ acked = <<>>
      /\ rd = NoScan /\ ans = None /\ next = 1
  BY DEF Init
<1>2. LOG_HDR \in Nat \ {0} /\ MaxRolls \in Nat /\ MaxRecs \in Nat
  BY LogAssumption
<1>3. WF(<<>>) /\ Len(<<>>) = 0 /\ <<>> \in Seq(Byte)
  BY DEF WF
<1>4. cur \in 0..MaxRolls /\ disk[cur] = <<>>
  BY <1>1, <1>2
<1>5. FilesOK(disk)
  BY <1>1, <1>3 DEF FilesOK
<1>6. ScanOK(rd, disk, cur) /\ AnsOK(ans, disk, cur)
  BY <1>1, <1>4, <1>5, NoScanOK DEF AnsOK
<1>8. WriterOK(Idle, <<>>, over) /\ Idle.pc = "up" /\ Idle.n = 0
  BY IdleOK, IdleFields
<1>9. KeptOK(0, <<>>, 1, Idle, <<>>, lost, over)
  <2>1. Cardinality(Ends(<<>>)) \in Nat
    BY <1>3, EndsFinite
  <2>2. <<>> \in Seq(Nat) /\ 1..Len(<<>>) = {}
    OBVIOUS
  <2>3. 0 <= Cardinality(Ends(<<>>)) /\ 1 \in 1..(MaxRecs + 1) /\ Idle.n < 1
    BY <1>2, <1>8, <2>1
  <2>4. QED BY <2>2, <2>3 DEF KeptOK
<1>10. WriterOK(w, disk[cur], over) /\ KeptOK(count, acked, next, w, disk[cur], lost, over) /\ w.pc # "roll"
  BY <1>1, <1>4, <1>8, <1>9
<1>11. QED BY <1>1, <1>4, <1>5, <1>6, <1>10 DEF Inv

\* The reader changes nothing of the writer's.
LEMMA ReaderAlone ==
  ASSUME Inv, ReaderNext, UNCHANGED <<disk, cur, count, w, acked, next, lost, over>>
  PROVE  Inv'
<1>1. disk' = disk /\ cur' = cur /\ count' = count /\ w' = w /\ acked' = acked /\ next' = next
      /\ lost' = lost /\ over' = over
  OBVIOUS
<1>2. /\ FilesOK(disk') /\ cur' \in 0..MaxRolls /\ (w'.pc = "roll" => cur' < MaxRolls)
      /\ WriterOK(w', disk'[cur'], over') /\ KeptOK(count', acked', next', w', disk'[cur'], lost', over')
  BY <1>1 DEF Inv
<1>3. /\ ScanOK(rd', disk', cur') /\ AnsOK(ans', disk', cur')
      /\ ans' # None => rd'.pc = "idle"
  BY <1>1 DEF ReaderNext
<1>4. QED BY <1>2, <1>3 DEF Inv

\* ... and every step keeps it.
LEMMA InvStep ==
  ASSUME Inv, [Next]_vars
  PROVE  Inv'
<1>1. CASE Create BY <1>1, CreateOK
<1>2. CASE AppendList BY <1>2, AppendListOK
<1>3. CASE WriteByte BY <1>3, WriteByteOK
<1>4. CASE WriteCount BY <1>4, WriteCountOK
<1>5. CASE Roll BY <1>5, RollOK
<1>6. CASE RollRename BY <1>6, RollRenameOK
<1>7. CASE WriteFails \/ Crash BY <1>7, FaultOK
<1>8. CASE Recover BY <1>8, RecoverOK
<1>9. CASE LogStat
  <2>1. UNCHANGED <<disk, cur, count, w, acked, next, lost, over>>
    BY <1>9 DEF LogStat
  <2>2. QED BY <1>9, <2>1, LogStatOK, ReaderAlone
<1>10. CASE LogOpen
  <2>1. UNCHANGED <<disk, cur, count, w, acked, next, lost, over>>
    BY <1>10 DEF LogOpen
  <2>2. QED BY <1>10, <2>1, LogOpenOK, ReaderAlone
<1>11. CASE ReadHeader
  <2>1. UNCHANGED <<disk, cur, count, w, acked, next, lost, over>>
    BY <1>11 DEF ReadHeader
  <2>2. QED BY <1>11, <2>1, ReadHeaderOK, ReaderAlone
<1>12. CASE EvalChunk
  <2>1. UNCHANGED <<disk, cur, count, w, acked, next, lost, over>>
    BY <1>12 DEF EvalChunk
  <2>2. QED BY <1>12, <2>1, EvalChunkOK, ReaderAlone
<1>13. CASE Refill
  <2>1. UNCHANGED <<disk, cur, count, w, acked, next, lost, over>>
    BY <1>13 DEF Refill
  <2>2. QED BY <1>13, <2>1, RefillOK, ReaderAlone
<1>14. CASE LimitReached
  <2>1. UNCHANGED <<disk, cur, count, w, acked, next, lost, over>>
    BY <1>14 DEF LimitReached
  <2>2. QED BY <1>14, <2>1, LimitReachedOK, ReaderAlone
<1>15. CASE DecodeFails
  <2>1. UNCHANGED <<disk, cur, count, w, acked, next, lost, over>>
    BY <1>15 DEF DecodeFails
  <2>2. QED BY <1>15, <2>1, DecodeFailsOK, ReaderAlone
<1>16. CASE AppendAbsent BY <1>16, AppendAbsentOK
<1>17. CASE FlushLost BY <1>17, FlushLostOK
<1>18. CASE UNCHANGED vars
  BY <1>18 DEF vars, Inv
<1>19. QED
  BY <1>1, <1>2, <1>3, <1>4, <1>5, <1>6, <1>7, <1>8, <1>9, <1>10, <1>11, <1>12, <1>13, <1>14, <1>15,
     <1>16, <1>17, <1>18
     DEF Next, Write, Scan

\* Whatever the writer, its crashes, the operator and the replay do, in any
\* order: the file is a header and records, torn at most in the last (WF); the
\* window holds the bytes of the file it was read from (log_fill); the replay
\* has consumed exactly the records up to its valid length (log_scan); and the
\* writer's files, count and acknowledged records agree (wf_append_bytes), but
\* for the losses the history variables record.
THEOREM InvCorrect == Spec => []Inv
<1>1. Init => Inv
  BY InitOK
<1>2. Inv /\ [Next]_vars => Inv'
  BY InvStep
<1>3. QED BY <1>1, <1>2, PTL DEF Spec

\* The invariant says what the replay has evaluated.
LEMMA ReplayFollows ==
  ASSUME Inv
  PROVE  ReplayExact
<1>1. /\ cur \in 0..MaxRolls /\ count \in Nat /\ next \in 1..(MaxRecs + 1) /\ count < next
      /\ MaxRecs \in Nat /\ w \in Writer
  BY WriterFacts
<1>2. /\ ScanOK(rd, disk, cur) /\ rd \in Cursor /\ disk[rd.ino] \in Seq(Byte)
  BY InvFacts
<1>3. rd.off \in Nat /\ Len(rd.buf) \in Nat /\ rd.cap \in Windows
      /\ rd.pc \in {"idle", "open", "header", "scan"}
  BY <1>2 DEF Cursor
<1>4. Len(rd.buf) <= rd.cap /\ rd.off <= Len(rd.buf)
  BY <1>2 DEF ScanOK
<1>5. rd.cap \in LOG_WINDOW..LOG_MAX
  BY <1>3 DEF Windows
<1>6. TypeOK
  <2>1. count \in 0..MaxRecs
    BY <1>1
  <2>2. w.pc \in {"up", "down", "create", "append", "roll"}
    BY <1>1 DEF Writer
  <2>3. rd.off \in 0..Len(rd.buf)
    BY <1>3, <1>4
  <2>4. QED BY <1>1, <1>3, <1>4, <1>5, <2>1, <2>2, <2>3 DEF TypeOK
<1>7. InOrder
  <2>1. SUFFICES ASSUME rd.pc = "scan"
                 PROVE  /\ rd.n <= Len(Recs(disk[rd.ino]))
                        /\ rd.done = IF rd.mode = Count THEN <<>>
                                     ELSE SubSeq(Recs(disk[rd.ino]), 1, rd.n)
    BY DEF InOrder
  <2>2. Seen(rd, disk[rd.ino])
    BY <1>2, <2>1 DEF ScanOK
  <2>3. rd.valid \in Nat
    BY <1>2 DEF Cursor
  <2>4. RecNo(disk[rd.ino], rd.valid) <= Cardinality(Ends(disk[rd.ino]))
    BY <1>2, <2>3, RecNoNat
  <2>5. Len(Recs(disk[rd.ino])) = Cardinality(Ends(disk[rd.ino]))
    BY <1>2, RecsOf
  <2>6. QED BY <2>2, <2>4, <2>5 DEF Seen
<1>8. Complete
  <2>1. AnsOK(ans, disk, cur)
    BY DEF Inv
  <2>2. CASE ans = None
    BY <2>2 DEF Complete, None
  <2>3. CASE ans # None
    BY <2>1, <2>3 DEF AnsOK, Complete
  <2>4. QED BY <2>2, <2>3
<1>9. QED BY <1>6, <1>7, <1>8 DEF ReplayExact

\* Replay evaluates the whole records of the file in the order they were
\* written, each once and none after a gap, wherever the windows fall and
\* whatever the writer does meanwhile, and a replay of everything that returns
\* a count has evaluated every record whole when the file was opened (log_scan,
\* log_fill): for every header, window and record size.
THEOREM ReplayCorrect == Spec => []ReplayExact
<1>1. Inv => ReplayExact
  BY ReplayFollows
<1>2. QED BY <1>1, InvCorrect, PTL

\* The invariant says what the answer is worth.
LEMMA CutFollows ==
  ASSUME Inv
  PROVE  CutExact
<1>1. SUFFICES ASSUME ans.kind \in {"n", "pair", "badtail"}, ans.mode < 0, ans.quiet
               PROVE  LET c == disk[ans.ino]
                          k == Reachable(c)
                      IN  /\ ans.kind = "n" <=> k = Len(Recs(c)) /\ ~Torn(c)
                          /\ ans.n = k /\ ans.valid = EndOf(c, k)
  BY DEF CutExact
<1>2. ans # None
  BY <1>1 DEF None
<1>3. AnsOK(ans, disk, cur) /\ cur \in 0..MaxRolls /\ FilesOK(disk)
  BY DEF Inv
<1>4. ans.ino = cur /\ Judged(ans.kind, ans.n, ans.valid, disk[ans.ino])
  BY <1>1, <1>2, <1>3 DEF AnsOK
<1>5. WF(disk[ans.ino])
  BY <1>3, <1>4 DEF FilesOK
<1>6. QED BY <1>4, <1>5, JudgedExact

\* With the file at rest, and memory for every chunk, (-2;x) is exact: it calls a log torn only when it ends
\* inside a record or holds one larger than every window, and then names the
\* number of records before it and where they end (log_scan's three answers).
THEOREM CutCorrect == Spec => []CutExact
<1>1. Inv => CutExact
  BY CutFollows
<1>2. QED BY <1>1, InvCorrect, PTL

\* The invariant says what the file holds.
LEMMA DurableFollows ==
  ASSUME Inv
  PROVE  Durable
<1> DEFINE c == disk[cur]
<1>1. KeptOK(count, acked, next, w, c, lost, over)
  BY WriterFacts
<1> HIDE DEF c
<1>2. /\ ~over => count <= Cardinality(Ends(c))
      /\ acked \in Seq(Nat) /\ (~lost => \A k \in 1..Len(acked) : Has(c, acked[k]))
  BY <1>1 DEF KeptOK
<1>3. DOMAIN acked = 1..Len(acked)
  BY <1>2
<1>4. ~lost => ToSet(acked) \subseteq {c[q].id : q \in Ends(c)}
  BY <1>2, <1>3 DEF ToSet, Has
<1>5. QED BY <1>2, <1>4 DEF Durable, AckedSurvive, CountBehind, File, c

\* A record whose append returned is in the file the path names, and the count
\* in the header promises no record that is not: through crashes between any
\* two bytes, failed writes and the cut that recovery makes (wf_append_bytes
\* writes the count after the records).  The exceptions are the code's: an image
\* counts before it writes (wf_append_path where there is no file) and may lose
\* its end unseen (q_io_write_all), and a count that memory failed misleads.
THEOREM DurableCorrect == Spec => []Durable
<1>1. Inv => Durable
  BY DurableFollows
<1>2. QED BY <1>1, InvCorrect, PTL

\* A cut leaves the header.
LEMMA CutKeepsHeader ==
  ASSUME Inv, Recover, Len(disk[cur]) >= LOG_HDR
  PROVE  Len(disk'[cur']) >= LOG_HDR
<1>1. /\ ans.kind \in {"n", "pair", "corrupt"} /\ ans.mode = Count /\ ans.ino = cur /\ cur' = cur
  BY DEF Recover
<1>2. ans.kind = "pair" => ans.valid \in LOG_HDR..Len(disk[cur])
  BY <1>1, RecoverFacts
<1>3. WF(disk[cur]) /\ cur \in 0..MaxRolls /\ FilesOK(disk) /\ LOG_HDR \in Nat
      /\ Len(disk[cur]) \in Nat
  BY WriterFacts, InvFacts
<1>4. CASE ans.kind # "pair"
  <2>1. disk' = disk
    BY <1>4 DEF Recover
  <2>2. QED BY <1>1, <2>1
<1>5. CASE ans.kind = "pair"
  <2> DEFINE c == disk[cur]
             v == ans.valid
             c2 == SubSeq(c, 1, v)
             d2 == disk'
  <2>1. disk' = [disk EXCEPT ![cur] = c2]
    BY <1>5 DEF Recover, File
  <2>2. v \in Nat /\ v <= Len(c) /\ LOG_HDR <= v
    BY <1>2, <1>3, <1>5
  <2>3. WF(c2) /\ Len(c2) = v
    BY <1>3, <2>2, WFPrefix
  <2>4. d2 = Put(disk, cur, c2)
    BY <2>1 DEF Put
  <2> HIDE DEF v, c2, d2
  <2>5. d2[cur] = c2
    BY <1>3, <2>3, <2>4, FilesSet
  <2>6. disk'[cur'] = c2 /\ Len(c2) >= LOG_HDR
    BY <1>1, <2>2, <2>3, <2>5 DEF d2
  <2>7. QED BY <2>6
<1>6. QED BY <1>4, <1>5

\* A byte more is no byte less.
LEMMA ByteKeepsHeader ==
  ASSUME Inv, WriteByte, Len(disk[cur]) >= LOG_HDR
  PROVE  Len(disk'[cur']) >= LOG_HDR
<1> DEFINE b == [id |-> Head(w.todo).id, i |-> w.i + 1, size |-> Head(w.todo).size]
           c2 == Append(disk[cur], b)
<1>1. cur' = cur /\ disk' = [disk EXCEPT ![cur] = c2]
  BY DEF WriteByte
<1>2. FilesOK(disk) /\ cur \in 0..MaxRolls /\ disk[cur] \in Seq(Byte) /\ LOG_HDR \in Nat
  BY WriterFacts, InvFacts
<1>3. Len(c2) = Len(disk[cur]) + 1 /\ Len(disk[cur]) \in Nat
  BY <1>2, LenProperties
<1> HIDE DEF c2
<1>4. disk'[cur] = c2
  BY <1>1, <1>2 DEF FilesOK
<1>5. QED BY <1>1, <1>2, <1>3, <1>4

\* The length of a rolled file: the header's, unless the last flush failed.
LEMMA RollLength ==
  ASSUME Inv, RollRename
  PROVE  cur' = cur + 1 /\ (Len(disk'[cur']) >= LOG_HDR \/ faults' = faults + 1)
<1>1. PICK k \in 0..LOG_HDR :
        /\ disk' = [disk EXCEPT ![cur + 1] = SubSeq(Header, 1, k)]
        /\ k = LOG_HDR \/ faults' = faults + 1
  BY DEF RollRename
<1>2. cur' = cur + 1 /\ w.pc = "roll"
  BY DEF RollRename
<1>3. /\ FilesOK(disk) /\ cur \in 0..MaxRolls /\ MaxRolls \in Nat /\ LOG_HDR \in Nat \ {0}
      /\ cur < MaxRolls
  BY <1>2, WriterFacts, InvFacts DEF Inv
<1>4. cur + 1 \in 0..MaxRolls
  BY <1>3
<1> DEFINE h == SubSeq(Header, 1, k)
           d2 == disk'
<1>5. WF(h) /\ Len(h) = k
  BY <1>3, WFHeader
<1>6. d2 = Put(disk, cur + 1, h)
  BY <1>1 DEF Put
<1> HIDE DEF h, d2
<1>7. d2[cur + 1] = h
  BY <1>3, <1>4, <1>5, <1>6, FilesSet
<1>8. QED BY <1>1, <1>2, <1>3, <1>5, <1>7 DEF d2

\* Once the path names a file with a whole header it does until a roll whose
\* last flush fails unseen (q_io_write_all ignores fclose): rolling moves another
\* file over the old one (wf_put), a failed write leaves the old one, and no cut
\* takes the header, whatever misled it.
THEOREM HeaderStaysCorrect == Spec => HeaderStays
<1>1. ASSUME Inv, [Next]_vars
      PROVE  [Len(File) >= LOG_HDR /\ Len(File') < LOG_HDR =>
                cur' = cur + 1 /\ faults' = faults + 1]_vars
  <2>1. SUFFICES ASSUME Len(disk[cur]) >= LOG_HDR, Len(disk'[cur']) < LOG_HDR
                 PROVE  cur' = cur + 1 /\ faults' = faults + 1
    BY DEF File
  <2>2. LOG_HDR \in Nat /\ Len(disk[cur]) \in Nat
    BY <1>1, WriterFacts
  <2>3. ~(Len(disk'[cur']) >= LOG_HDR)
    <3>1. Inv'
      BY <1>1, InvStep
    <3>2. FilesOK(disk') /\ cur' \in 0..MaxRolls
      BY <3>1 DEF Inv
    <3>3. disk'[cur'] \in Seq(Byte)
      BY <3>2 DEF FilesOK
    <3>4. Len(disk'[cur']) \in Nat
      BY <3>3, LenProperties
    <3>5. QED BY <2>1, <2>2, <3>4
  <2>4. CASE RollRename BY <1>1, <2>3, <2>4, RollLength
  <2>5. CASE Recover BY <1>1, <2>1, <2>3, <2>5, CutKeepsHeader
  <2>6. CASE WriteByte BY <1>1, <2>1, <2>3, <2>6, ByteKeepsHeader
  <2>7. CASE disk' = disk /\ cur' = cur BY <2>1, <2>3, <2>7
  <2>8. Create \/ AppendAbsent \/ AppendList \/ WriteCount \/ FlushLost \/ Roll \/ WriteFails \/ Crash
          => disk' = disk /\ cur' = cur
    BY DEF Create, AppendAbsent, AppendList, WriteCount, FlushLost, Roll, WriteFails, Crash
  <2>9. LogStat \/ LogOpen \/ ReadHeader \/ EvalChunk \/ Refill \/ DecodeFails \/ LimitReached =>
          disk' = disk /\ cur' = cur
    BY DEF LogStat, LogOpen, ReadHeader, EvalChunk, Refill, DecodeFails, LimitReached
  <2>10. UNCHANGED vars => disk' = disk /\ cur' = cur
    BY DEF vars
  <2>11. QED
    BY <1>1, <2>4, <2>5, <2>6, <2>7, <2>8, <2>9, <2>10 DEF Next, Write, Scan
<1>2. QED BY <1>1, InvCorrect, PTL DEF Spec, HeaderStays
=============================================================================
