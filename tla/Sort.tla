-------------------------------- MODULE Sort --------------------------------
(***************************************************************************)
(* The sorting kernels of ops/sort.c, and the grade of values and tables   *)
(* of qlang/ops/q_sort.c that is built on them.                            *)
(*                                                                         *)
(* A column is a type and its values; a grade is the sequence of its row   *)
(* numbers in sorted order.  sort_indices_ex chooses among an insertion    *)
(* sort, an introsort, three radix sorts and a parallel merge sort by the  *)
(* number of rows and the width of the keys, and falls back to the merge   *)
(* sort when scratch memory is short.  The numbers it decides by are the   *)
(* fields of a record th, so that every path can be taken with few rows.   *)
(* A key is a word of W bits (64 in the code), sorted by digits of D bits  *)
(* (8).                                                                    *)
(***************************************************************************)
EXTENDS RowSeq

CONSTANTS
  W,       \* bits of a key
  D,       \* bits of a radix digit
  NW,      \* bits of the narrow integer type
  NTasks   \* ray_pool_total_workers

ASSUME SortAssumption ==
  /\ {W, D, NW, NTasks} \subseteq Nat \ {0}
  /\ W % D = 0 /\ NW % D = 0 /\ NW + D <= W

Ones == 2^W - 1
Top == 2^(W - 1)
Digit(k, b) == (k \div 2^(D * b)) % 2^D
Rows(col) == DOMAIN col.v

----------------------------------------------------------------------------
(* Values.  Integers have their least value for null; a float is its bits, *)
(* sign, exponent of two bits and mantissa, with the positive NaN for null.*)
(* A "wide" value (a string, a guid) is known by its place in the order.   *)

IntNull(type) == IF type = "int" THEN -Top ELSE -(2^(NW - 1))
IsNaN(bits) == bits % Top > Top - 2^(W - 3)
IsNull(col, i) == CASE col.type = "float" -> IsNaN(col.v[i])
                    [] col.type \in {"int", "narrow"} -> col.v[i] = IntNull(col.type)
                    [] OTHER -> FALSE
HasNulls(col) == \E i \in Rows(col) : IsNull(col, i)

\* What a float's bits stand for, as far as order goes.
Value(col, i) ==
  LET b == col.v[i]
  IN  IF col.type # "float" THEN b ELSE IF b >= Top THEN Top - b ELSE b

\* The comparator: negative, zero or positive.
CmpCol(col, desc, nf, a, b) ==
  LET an == IsNull(col, a)
      bn == IsNull(col, b)
      c  == IF Value(col, a) < Value(col, b) THEN -1
            ELSE IF Value(col, a) > Value(col, b) THEN 1 ELSE 0
  IN  IF an /\ bn THEN 0
      ELSE IF an THEN IF nf THEN -1 ELSE 1
      ELSE IF bn THEN IF nf THEN 1 ELSE -1
      ELSE IF desc THEN -c ELSE c

sort_cmp(cols, descs, nfs, a, b) ==
  LET differ == {k \in DOMAIN cols : CmpCol(cols[k], descs[k], nfs[k], a, b) # 0}
  IN  IF differ = {} THEN 0
      ELSE LET k == Min(differ) IN CmpCol(cols[k], descs[k], nfs[k], a, b)

----------------------------------------------------------------------------
(* Order-preserving keys of one column (radix_encode_fn)                   *)

Flip(e, desc) == IF desc THEN Ones - e ELSE e
FloatKey(bits) == IF bits >= Top THEN Ones - bits ELSE bits + Top

Encode(col, desc, nf, i) ==
  LET v == col.v[i]
      low == nf # desc     \* the null goes below every value, before the flip
  IN  CASE col.type = "int" ->
             Flip(IF IsNull(col, i) THEN IF low THEN 0 ELSE Ones ELSE v + Top, desc)
        [] col.type = "float" ->
             Flip(IF IsNaN(v) THEN IF low THEN 0 ELSE Ones ELSE FloatKey(v), desc)
        [] col.type = "narrow" ->
             Flip(IF ~HasNulls(col) THEN v + 2^(NW - 1)
                  ELSE IF IsNull(col, i) THEN IF low THEN 0 ELSE 2^NW + 1
                  ELSE v + 2^(NW - 1) + 1, desc)

\* How many digits a key of the column may need.
KeyDigits(col) ==
  IF col.type = "narrow" THEN (NW \div D) + (IF HasNulls(col) THEN 1 ELSE 0)
  ELSE W \div D

\* The keys with their rows.
Pairs(keys) ==
  FoldLeft(LAMBDA s, key : Append(s, [k |-> key, i |-> Len(s) + 1]), <<>>, keys)
RowsOf(a) == [p \in DOMAIN a |-> a[p].i]

----------------------------------------------------------------------------
(* Comparison sorts on keys                                                *)

key_lt(a, b) == a.k < b.k \/ (a.k = b.k /\ a.i < b.i)

Swap(s, p, q) == [s EXCEPT ![p] = s[q], ![q] = s[p]]

\* The child that wins over its parent at p of a heap in s[1..n].
RECURSIVE key_sift_down(_, _, _)
key_sift_down(s, n, p) ==
  LET better(q, r) == IF q <= n /\ key_lt(s[r], s[q]) THEN q ELSE r
      largest == better(2 * p + 1, better(2 * p, p))
  IN  IF largest = p THEN s ELSE key_sift_down(Swap(s, p, largest), n, largest)

key_heapsort(s) ==
  LET n == Len(s)
      heap == FoldLeft(LAMBDA h, p : key_sift_down(h, n, p), s, Descending(n \div 2, 1))
  IN  FoldLeft(LAMBDA h, p : key_sift_down(Swap(h, 1, p), p - 1, 1), heap, Descending(n, 2))

\* An element goes behind the last one that is not after it.
key_insertion_sort(s) ==
  FoldLeft(LAMBDA out, e :
             InsertAt(out, 1 + Max({0} \cup {p \in DOMAIN out : ~key_lt(e, out[p])}), e),
           <<>>, s)

Median(s) ==
  LET n == Len(s)
      m == n \div 2 + 1
      a == s[1]
      b == s[m]
      c == s[n]
  IN  IF key_lt(a, b) THEN IF key_lt(b, c) THEN m ELSE IF key_lt(a, c) THEN n ELSE 1
      ELSE IF key_lt(a, c) THEN 1 ELSE IF key_lt(b, c) THEN n ELSE m

\* With the pivot at the end, smaller elements are exchanged to the front and
\* the pivot goes between.
RECURSIVE PartitionFrom(_, _, _)
PartitionFrom(s, p, lo) ==
  IF p = Len(s) THEN [s |-> Swap(s, p, lo), at |-> lo]
  ELSE IF key_lt(s[p], s[Len(s)]) THEN PartitionFrom(Swap(s, p, lo), p + 1, lo + 1)
  ELSE PartitionFrom(s, p + 1, lo)

Partition(s) == PartitionFrom(Swap(s, Median(s), Len(s)), 1, 1)

RECURSIVE key_introsort_impl(_, _, _)
key_introsort_impl(s, depth, th) ==
  IF Len(s) <= th.intro THEN key_insertion_sort(s)
  ELSE IF depth = 0 THEN key_heapsort(s)
  ELSE LET r == Partition(s)
       IN  key_introsort_impl(SubSeq(r.s, 1, r.at - 1), depth - 1, th)
           \o <<r.s[r.at]>>
           \o key_introsort_impl(SubSeq(r.s, r.at + 1, Len(s)), depth - 1, th)

Log2(n) == CHOOSE b \in 0..n : 2^b <= n /\ n < 2^(b + 1)

key_introsort(s, th) ==
  IF Len(s) <= 1 THEN s ELSE key_introsort_impl(s, th.depth * Log2(Len(s)), th)

----------------------------------------------------------------------------
(* What the keys look like before they are sorted                          *)

\* Row i is compared with the row before it by the task that has both; a
\* task takes th.grain rows, or all of them when the pool is not used.
WithinTask(n, pooled, th) == {i \in 2..n : ~pooled \/ (i - 1) % th.grain # 0}
AcrossTasks(n, th) == {i \in 2..n : (i - 1) % th.grain = 0}

\* Whether the fraction of pairs out of order is zero.
detect_sortedness(keys, pooled, th) ==
  LET n == Len(keys)
      parallel == pooled /\ n > th.pool
  IN  \A i \in WithinTask(n, parallel, th)
               \cup (IF parallel THEN AcrossTasks(n, th) ELSE {}) : keys[i - 1] <= keys[i]

\* Fault: every task compares with its own first key.
compute_key_nbytesPerTask(keys, max, th) ==
  LET first(i) == ((i - 1) \div th.grain) * th.grain + 1
      same(b) == \A i \in DOMAIN keys :
                   keys[i] \div 2^(D * b) = keys[first(i)] \div 2^(D * b)
  IN  MinOf(max, Min({b \in 1..(W \div D) : same(b)}))

\* The digits below the highest one in which a key differs from the first.
compute_key_nbytes(keys, max, th) ==
  LET same(b) == \A i \in DOMAIN keys : keys[i] \div 2^(D * b) = keys[1] \div 2^(D * b)
  IN  MinOf(max, Min({b \in 1..(W \div D) : same(b)}))

----------------------------------------------------------------------------
(* Radix sorts                                                             *)

TaskOf(p, n, tasks) == (p - 1) \div DivUp(n, tasks)

\* hist[t][v]: how many keys of task t have v for digit b.
radix_hist(a, b, tasks) ==
  [t \in 0..(tasks - 1) |-> [v \in 0..(2^D - 1) |->
     Cardinality({p \in DOMAIN a : TaskOf(p, Len(a), tasks) = t /\ Digit(a[p].k, b) = v})]]

Uniform(hist, n) ==
  \E v \in 0..(2^D - 1) : MapThenSumSet(LAMBDA t : hist[t][v], DOMAIN hist) = n

\* Where task t writes its keys with digit v: behind all smaller digits, and
\* behind the tasks before it for the same digit.
Offset(hist, t, v) ==
  MapThenSumSet(LAMBDA tv : hist[tv[1]][tv[2]],
    {tv \in (DOMAIN hist) \X (0..(2^D - 1)) : tv[2] < v \/ (tv[2] = v /\ tv[1] < t)})

radix_scatter(a, b, hist, tasks) ==
  LET n == Len(a)
      task(p) == TaskOf(p, n, tasks)
      dig(p) == Digit(a[p].k, b)
      pos == AsSeq([p \in 1..n |->
                1 + Offset(hist, task(p), dig(p))
                + Cardinality({q \in 1..(p - 1) : task(q) = task(p) /\ dig(q) = dig(p)})], n)
  IN  AsSeq([x \in 1..n |-> a[CHOOSE p \in 1..n : pos[p] = x]], n)

radix_pass(a, b, tasks) ==
  LET hist == radix_hist(a, b, tasks)
  IN  IF Uniform(hist, Len(a)) THEN a ELSE radix_scatter(a, b, hist, tasks)

radix_sort_run(a, nbytes, tasks) ==
  FoldLeft(LAMBDA s, b : radix_pass(s, b - 1, tasks), a, Ascending(1, nbytes))

\* A bucket is sorted by itself: its keys by comparison if they are few.
bucket_lsb_sort(a, nbytes, th) ==
  IF Len(a) <= th.bucket THEN key_introsort(a, th) ELSE radix_sort_run(a, nbytes, 1)

\* By the highest digit that differs into buckets, then each bucket by the
\* digits below.
RECURSIVE msd_radix_sort_run(_, _, _, _)
msd_radix_sort_run(a, nbytes, tasks, th) ==
  IF nbytes <= th.msdBytes \/ Len(a) <= th.msdRows THEN radix_sort_run(a, nbytes, tasks)
  ELSE
    LET hist == radix_hist(a, nbytes - 1, tasks)
        s == radix_scatter(a, nbytes - 1, hist, tasks)
        bucket(v) == SelectSeq(s, LAMBDA e : Digit(e.k, nbytes - 1) = v)
    IN  IF Uniform(hist, Len(a)) THEN msd_radix_sort_run(a, nbytes - 1, tasks, th)
        ELSE FlattenSeq([v \in 1..2^D |-> bucket_lsb_sort(bucket(v - 1), nbytes - 1, th)])

----------------------------------------------------------------------------
(* One key.  A result is the rows in order, the sorted keys where the      *)
(* caller may have them, and whether the sort came to an end: with no      *)
(* scratch memory it has not, and the merge sort takes over.               *)

Done(rows, keys) == [done |-> TRUE, rows |-> rows, keys |-> keys, lost |-> FALSE]
NotDone == [done |-> FALSE, rows |-> <<>>, keys |-> <<>>, lost |-> FALSE]
\* The radix sort had no histogram: the pointer to its result is NULL, and
\* stays so after the merge sort, whose order is then not the one copied out.
Lost == [NotDone EXCEPT !.lost = TRUE]

TasksFor(n, th) == IF n >= th.pool THEN NTasks ELSE 1
BitsOf(n) == Min({b \in 1..W : n < 2^b})

\* Key and row number share one word; order and reverse order are noticed
\* while they are put there.
packed_sort(keys, nbytes, oom, th) ==
  LET n == Len(keys)
      kb == D * nbytes
      k == [i \in 1..n |-> keys[i] % 2^kb]
      seen == WithinTask(n, n >= th.pool, th) \cup AcrossTasks(n, th)
      words == AsSeq([i \in 1..n |-> [k |-> k[i] + (i - 1) * 2^kb]], n)
      sorted == radix_sort_run(words, nbytes, TasksFor(n, th))
  IN  IF oom = "tmp" THEN NotDone
      ELSE IF \A i \in seen : k[i - 1] <= k[i] THEN Done(Ascending(1, n), <<>>)
      ELSE IF \A i \in seen : k[i - 1] >= k[i] THEN Done(Descending(n, 1), <<>>)
      ELSE IF oom = "hist" THEN NotDone
      ELSE Done([p \in 1..n |-> 1 + ((sorted[p].k \div 2^kb) % 2^BitsOf(n))], <<>>)

SingleKey(col, desc, nf, oom, th) ==
  LET n == Len(col.v)
      keys == AsSeq([i \in 1..n |-> Encode(col, desc, nf, i)], n)
      nbytes == compute_key_nbytes(keys, KeyDigits(col), th)
      sorted == msd_radix_sort_run(Pairs(keys), nbytes, TasksFor(n, th), th)
  IN  IF oom \in {"keys", "all"} THEN NotDone
      ELSE IF n <= th.radix THEN Done(RowsOf(key_introsort(Pairs(keys), th)), <<>>)
      ELSE IF nbytes <= th.packed /\ nbytes * D + BitsOf(n) <= W
        THEN packed_sort(keys, nbytes, oom, th)
      ELSE IF detect_sortedness(keys, n >= th.pool, th) THEN Done(Ascending(1, n), <<>>)
      ELSE IF oom = "tmp" THEN NotDone
      ELSE IF oom = "hist" THEN Lost
      ELSE Done(RowsOf(sorted), [p \in 1..n |-> sorted[p].k])

----------------------------------------------------------------------------
(* Several keys in one word                                                *)

\* A column's value as the prescan reads it: a signed number.
CompositeValue(col, i) ==
  IF col.type # "float" THEN col.v[i]
  ELSE LET e == FloatKey(col.v[i]) IN IF e >= Top THEN e - 2^W ELSE e

BitsForRange(r) == Min({b \in 1..W : b = W \/ r < 2^b})

\* The most significant key in the highest bits.
Shifts(bits) ==
  [k \in DOMAIN bits |-> MapThenSumSet(LAMBDA j : bits[j], (k + 1)..Len(bits))]
TotalBits(bits) == MapThenSumSet(LAMBDA k : bits[k], DOMAIN bits)

mk_prescan(col) == LET vs == {CompositeValue(col, i) : i \in Rows(col)}
                   IN  [min |-> Min(vs), range |-> Max(vs) - Min(vs)]

CompositeKey(cols, descs, scan, shifts, i) ==
  MapThenSumSet(LAMBDA k :
    LET part == CompositeValue(cols[k], i) - scan[k].min
    IN  (IF descs[k] THEN scan[k].range - part ELSE part) * 2^shifts[k], DOMAIN cols)

\* The composite keys are in order, few, or radix sorted.
SortComposite(keys, bits, oom, th) ==
  LET n == Len(keys)
      nbytes == DivUp(bits, D)
  IN  IF n <= th.radix THEN Done(RowsOf(key_introsort(Pairs(keys), th)), <<>>)
      ELSE IF oom = "tmp" THEN NotDone
      ELSE IF oom = "hist" THEN Lost
      ELSE Done(RowsOf(msd_radix_sort_run(Pairs(keys), nbytes, TasksFor(n, th), th)), <<>>)

SortPacked(cols, descs, scan, bits, oom, th) ==
  LET n == Len(cols[1].v)
      keys == AsSeq([i \in 1..n |-> CompositeKey(cols, descs, scan, Shifts(bits), i)], n)
  IN  IF oom \in {"keys", "all"} THEN NotDone
      ELSE IF detect_sortedness(keys, n >= th.pool, th) THEN Done(Ascending(1, n), <<>>)
      ELSE SortComposite(keys, TotalBits(bits), oom, th)

\* Equal neighbours of a grade share a rank.
DenseRank(grade, differ) ==
  LET n == Len(grade)
      rank(i) == Cardinality({p \in 2..n : differ[p] /\ \E q \in p..n : grade[q] = i})
  IN  AsSeq([i \in 1..n |-> rank(i)], n)

----------------------------------------------------------------------------
(* The merge sort                                                          *)

sort_insertion(x, s) ==
  FoldLeft(LAMBDA out, e :
             InsertAt(out, 1 + Max({0} \cup {p \in DOMAIN out :
                        sort_cmp(x.cols, x.descs, x.nfs, out[p], e) <= 0}), e),
           <<>>, s)

RECURSIVE merge_runs(_, _, _)
merge_runs(x, a, b) ==
  IF a = <<>> THEN b ELSE IF b = <<>> THEN a
  ELSE IF sort_cmp(x.cols, x.descs, x.nfs, a[1], b[1]) <= 0
    THEN <<a[1]>> \o merge_runs(x, Tail(a), b)
    ELSE <<b[1]>> \o merge_runs(x, a, Tail(b))

RECURSIVE sort_merge_recursive(_, _, _)
sort_merge_recursive(x, s, th) ==
  LET mid == Len(s) \div 2
  IN  IF Len(s) <= th.merge THEN sort_insertion(x, s)
      ELSE merge_runs(x, sort_merge_recursive(x, SubSeq(s, 1, mid), th),
                         sort_merge_recursive(x, SubSeq(s, mid + 1, Len(s)), th))

\* Part p of s, counting from 0, in parts of size rows.
Part(s, p, size) == SubSeq(s, p * size + 1, MinOf((p + 1) * size, Len(s)))

sort_phase1(x, s, size, th) ==
  FlattenSeq([p \in 1..DivUp(Len(s), size) |->
                sort_merge_recursive(x, Part(s, p - 1, size), th)])

RECURSIVE MergePasses(_, _, _)
MergePasses(x, s, run) ==
  IF run >= Len(s) THEN s
  ELSE MergePasses(x, FlattenSeq([p \in 1..DivUp(Len(s), 2 * run) |->
                        merge_runs(x, Part(s, 2 * p - 2, run), Part(s, 2 * p - 1, run))]),
                   2 * run)

MergeSort(x, n, th) ==
  LET id == Ascending(1, n)
      size == DivUp(n, NTasks)
  IN  IF n <= th.small THEN sort_insertion(x, id)
      ELSE IF NTasks > 1 /\ n > th.par
        THEN MergePasses(x, sort_phase1(x, id, size, th), size)
      ELSE sort_merge_recursive(x, id, th)

----------------------------------------------------------------------------
(* sort_indices_ex: the rows in order, and the sorted keys if there are    *)
(* any.  The radix sorts are tried first, and the merge sort follows when  *)
(* they have not come to an end.                                           *)

Result(st, rows, keys) == [st |-> st, rows |-> rows, keys |-> keys]

\* The copy of a lost result reads from NULL: what follows is undefined, the
\* end of the process in any build with a page that is not mapped there.
RadixOrMerge(radix, x, oom, th) ==
  LET n == Len(x.cols[1].v)
  IN  IF oom = "rows" THEN Result("oom", <<>>, <<>>)
      ELSE IF radix.done THEN Result("ok", radix.rows, radix.keys)
      ELSE IF oom = "all" /\ n > th.small THEN Result("oom", <<>>, <<>>)
      ELSE IF radix.lost THEN Result("crash", <<>>, <<>>)
      ELSE Result("ok", MergeSort(x, n, th), <<>>)

SingleAttempt(col, desc, nf, oom, th) ==
  IF Len(col.v) <= th.small \/ col.type = "wide" THEN NotDone
  ELSE SingleKey(col, desc, nf, oom, th)

\* The call for one column.
sort_indices_one(col, desc, nf, oom, th) ==
  RadixOrMerge(SingleAttempt(col, desc, nf, oom, th),
               [cols |-> <<col>>, descs |-> <<desc>>, nfs |-> <<nf>>], oom, th)

\* The ranks of a column's rows, given its grade.
ColumnRanks(col, desc, nf, g) ==
  DenseRank(g, [p \in 2..Len(g) |-> CmpCol(col, desc, nf, g[p - 1], g[p]) # 0])

\* The columns' ranks as the parts of one key.
ComposeRanks(ranks, oom, th) ==
  LET n == Len(ranks[1])
      bits == AsSeq([k \in DOMAIN ranks |-> BitsForRange(Max({ranks[k][i] : i \in 1..n}))],
                    Len(ranks))
      shifts == Shifts(bits)
      keys == AsSeq([i \in 1..n |->
                 MapThenSumSet(LAMBDA k : ranks[k][i] * 2^shifts[k], DOMAIN ranks)], n)
  IN  IF TotalBits(bits) > W THEN NotDone ELSE SortComposite(keys, TotalBits(bits), oom, th)

\* Too many bits: every column is replaced by the ranks of its own sort.
RankThenCompose(cols, descs, nfs, oom, th) ==
  LET sub(k) == sort_indices_one(cols[k], descs[k], nfs[k], oom, th)
      rank(k) == ColumnRanks(cols[k], descs[k], nfs[k], sub(k).rows)
  IN  IF oom \in {"rows", "keys", "all"} THEN NotDone
      ELSE IF \E k \in DOMAIN cols : sub(k).st = "crash" THEN Lost
      ELSE ComposeRanks(FoldLeft(LAMBDA s, k : Append(s, rank(k)), <<>>,
                                 Ascending(1, Len(cols))), oom, th)

\* Whether the columns' values share a word.
KeyBits(cols) == AsSeq([k \in DOMAIN cols |-> BitsForRange(mk_prescan(cols[k]).range)], Len(cols))
FitsWord(cols) == (\A k \in DOMAIN cols : cols[k].type # "wide") /\ TotalBits(KeyBits(cols)) <= W

SeveralAttempt(cols, descs, nfs, oom, th) ==
  LET scan == [k \in DOMAIN cols |-> mk_prescan(cols[k])]
  IN  IF Len(cols[1].v) <= th.small THEN NotDone
      ELSE IF ~FitsWord(cols) THEN RankThenCompose(cols, descs, nfs, oom, th)
      ELSE SortPacked(cols, descs, scan, KeyBits(cols), oom, th)

sort_indices_ex(cols, descs, nfs, oom, th) ==
  IF Len(cols) = 1 THEN sort_indices_one(cols[1], descs[1], nfs[1], oom, th)
  ELSE RadixOrMerge(SeveralAttempt(cols, descs, nfs, oom, th),
                    [cols |-> cols, descs |-> descs, nfs |-> nfs], oom, th)

----------------------------------------------------------------------------
(* Sorted values: decoded from the keys, or gathered                       *)

radix_decode(type, k, desc) ==
  LET e == Flip(k, desc)
  IN  CASE type = "int" -> e - Top
        [] type = "float" -> IF e >= Top THEN e - Top ELSE Ones - e
        [] type = "narrow" -> (e % 2^NW) - 2^(NW - 1)

\* Keys of a narrow column with nulls are shifted, and are not decoded.
DecodeOrGather(col, desc, r) ==
  LET decoded == r.keys # <<>> /\ ~(col.type = "narrow" /\ HasNulls(col))
  IN  [p \in DOMAIN r.rows |->
         IF decoded /\ ~IsNull(col, r.rows[p])
           THEN radix_decode(col.type, r.keys[p], desc) ELSE col.v[r.rows[p]]]

ray_sort(col, desc, nf, oom, th) ==
  DecodeOrGather(col, desc, sort_indices_one(col, desc, nf, oom, th))

----------------------------------------------------------------------------
(* The first k rows, from a heap with the worst of them on top             *)

RECURSIVE TopSift(_, _)
TopSift(h, p) ==
  LET worse(q, r) == IF q <= Len(h) /\ h[q].k > h[r].k THEN q ELSE r
      worst == worse(2 * p + 1, worse(2 * p, p))
  IN  IF worst = p THEN h ELSE TopSift(Swap(h, p, worst), worst)

\* Fault: the heap is not built before the scan.
topk_indices_singleNoHeapify(col, desc, nf, k) ==
  LET all == Pairs([i \in Rows(col) |-> Encode(col, desc, nf, i)])
      push(h, e) == IF e.k >= h[1].k THEN h ELSE TopSift([h EXCEPT ![1] = e], 1)
  IN  RowsOf(key_heapsort(FoldLeft(push, SubSeq(all, 1, k), SubSeq(all, k + 1, Len(all)))))

topk_indices_single(col, desc, nf, k) ==
  LET all == Pairs([i \in Rows(col) |-> Encode(col, desc, nf, i)])
      heap == FoldLeft(TopSift, SubSeq(all, 1, k), Descending(k \div 2, 1))
      push(h, e) == IF e.k >= h[1].k THEN h ELSE TopSift([h EXCEPT ![1] = e], 1)
  IN  RowsOf(key_heapsort(FoldLeft(push, heap, SubSeq(all, k + 1, Len(all)))))

RECURSIVE topk_cmp_sift_down(_, _, _)
topk_cmp_sift_down(x, h, p) ==
  LET worse(q, r) ==
        IF q <= Len(h) /\ sort_cmp(x.cols, x.descs, x.nfs, h[q], h[r]) > 0 THEN q ELSE r
      worst == worse(2 * p + 1, worse(2 * p, p))
  IN  IF worst = p THEN h ELSE topk_cmp_sift_down(x, Swap(h, p, worst), worst)

topk_indices_cmp(x, n, k) ==
  LET heap == FoldLeft(LAMBDA h, p : topk_cmp_sift_down(x, h, p), Ascending(1, k),
                       Descending(k \div 2, 1))
      push(h, i) == IF sort_cmp(x.cols, x.descs, x.nfs, i, h[1]) >= 0 THEN h
                    ELSE topk_cmp_sift_down(x, [h EXCEPT ![1] = i], 1)
  IN  sort_insertion(x, FoldLeft(push, heap, Ascending(k + 1, n)))

----------------------------------------------------------------------------
(* q's own grade.  The items of a general list are known by their place in *)
(* the ordering law ord_cmp; items the law does not order share a place.   *)

RECURSIVE OrdMerge(_, _, _, _)
OrdMerge(items, desc, a, b) ==
  IF a = <<>> THEN b ELSE IF b = <<>> THEN a
  ELSE LET less == IF desc THEN items[b[1]] > items[a[1]] ELSE items[b[1]] < items[a[1]]
       IN  IF less THEN <<b[1]>> \o OrdMerge(items, desc, a, Tail(b))
           ELSE <<a[1]>> \o OrdMerge(items, desc, Tail(a), b)

RECURSIVE OrdPasses(_, _, _, _)
OrdPasses(items, desc, s, w) ==
  IF w >= Len(s) THEN s
  ELSE OrdPasses(items, desc, FlattenSeq([p \in 1..DivUp(Len(s), 2 * w) |->
         OrdMerge(items, desc, Part(s, 2 * p - 2, w), Part(s, 2 * p - 1, w))]), 2 * w)

ord_grade(items, desc) == OrdPasses(items, desc, Ascending(1, Len(items)), 1)

ord_dense_rank(items) ==
  LET g == ord_grade(items, FALSE)
  IN  [type |-> "int", v |-> DenseRank(g, [p \in 2..Len(g) |-> items[g[p - 1]] # items[g[p]]])]

\* A chunk of columns, read in the order so far, with the position for its
\* last key.
GradeChunk(cols, desc, perm, oom, th) ==
  LET n == Len(perm)
      column(c) == LET v == [p \in 1..n |-> c.v[perm[p]]]
                   IN  IF c.type = "list" THEN ord_dense_rank(v) ELSE [c EXCEPT !.v = v]
      position == [type |-> "int", v |-> [p \in 1..n |-> p - 1]]
      keys == [k \in DOMAIN cols |-> column(cols[k])] \o <<position>>
      descs == [k \in DOMAIN cols |-> desc] \o <<FALSE>>
  IN  sort_indices_ex(keys, descs, [k \in DOMAIN descs |-> ~descs[k]], oom, th)

\* Fault: a later chunk replaces the order of the earlier ones.
ReorderReplace(perm, g) == g.rows
Reorder(perm, g) == IF g.st # "ok" THEN <<>> ELSE [p \in DOMAIN perm |-> perm[g.rows[p]]]

\* The columns of a table in chunks, the least significant chunk first.
RECURSIVE GradeChunks(_, _, _, _, _)
GradeChunks(cols, desc, perm, oom, th) ==
  LET lo == IF Len(cols) > th.chunk THEN Len(cols) - th.chunk ELSE 0
      chunk == SubSeq(cols, lo + 1, Len(cols))
  IN  IF cols = <<>> \/ perm = <<>> THEN perm
      ELSE GradeChunks(SubSeq(cols, 1, lo), desc,
                       Reorder(perm, GradeChunk(chunk, desc, perm, oom, th)), oom, th)

grade_table(cols, desc, oom, th) ==
  GradeChunks(cols, desc, Ascending(1, Len(cols[1].v)), oom, th)

=============================================================================
