------------------------------- MODULE MCKernels -------------------------------
(***************************************************************************)
(* The algorithms of the engine that run to their end inside one call, on  *)
(* all small inputs: the timer heap, the cutting of work into tasks, the   *)
(* sorts, the joins and the symbol table.  A behaviour exercises one.      *)
(***************************************************************************)
EXTENDS TimerHeap, PoolPartition, Sort, QJoin, Sym

CONSTANTS
  Parts,   \* the algorithms of this run, of {"timers", "tasks", "sort", "join", "sym"}
  Size     \* bound: timers in the heap

VARIABLES
  part,        \* the algorithm of this behaviour
  h, present,  \* the heap's array, and the ids that should be in it
  job, out     \* what is sorted or joined, and the result once there is one

mcvars == <<part, h, present, job, out, partvars, symvars>>

----------------------------------------------------------------------------
(* Timers: deadlines are ids halved, so that ties are broken by id.        *)

Entry(id) == [id |-> id, exp |-> id \div 2]

Insert(id) ==
  /\ id \notin present
  /\ h' = Push(h, Entry(id)) /\ present' = present \cup {id}

Delete(j) ==
  /\ h' = HeapRemove(h, j) /\ present' = present \ {At(h, j).id}

TakeHead ==
  /\ h # <<>>
  /\ h' = HeapPop(h) /\ present' = present \ {At(h, 0).id}

TimersNext ==
  \/ \E id \in 1..Size : Insert(id)
  \/ \E j \in 0..(Len(h) - 1) : Delete(j)
  \/ TakeHead

(* The loops of timer.c, swap by swap.                                        *)
heap_swap(s, j, k) == [s EXCEPT ![j + 1] = s[k + 1], ![k + 1] = s[j + 1]]

RECURSIVE up_loop(_, _)
up_loop(s, j) ==
  IF j > 0 /\ heap_less(At(s, j), At(s, Parent(j)))
  THEN up_loop(heap_swap(s, j, Parent(j)), Parent(j)) ELSE s

RECURSIVE down_loop(_, _)
down_loop(s, j) ==
  LET Less(k, l) == k < Len(s) /\ heap_less(At(s, k), At(s, l))
      best1 == IF Less(2 * j + 1, j) THEN 2 * j + 1 ELSE j
      best2 == IF Less(2 * j + 2, best1) THEN 2 * j + 2 ELSE best1
  IN  IF best2 = j THEN s ELSE down_loop(heap_swap(s, j, best2), best2)

(* The paths of heap_up and heap_down are those of the loops, for the entry   *)
(* that is moved and for one that is earlier or later than all.               *)
PathsAreLoops ==
  \A j \in Slots(h), id \in {0, Size + 1} :
    LET s == [h EXCEPT ![j + 1] = Entry(id)]
    IN  heap_up(s, j) = up_loop(s, j) /\ heap_down(s, j) = down_loop(s, j)

(* Every entry is later than its parent, whichever entry was deleted from the *)
(* middle and wherever the tail that replaced it came from.                   *)
HeapOrder == \A j \in 1..(Len(h) - 1) : heap_less(At(h, Parent(j)), At(h, j))

(* The array holds each timer that was added and not removed, once.           *)
ContentsExact ==
  /\ {h[k].id : k \in DOMAIN h} = present
  /\ \A j, k \in DOMAIN h : j # k => h[j].id # h[k].id

(* The timer heap of timer.c as its callers need it: ordered and complete.    *)
HeapExact == HeapOrder /\ ContentsExact /\ PathsAreLoops

----------------------------------------------------------------------------
(* Sorts: a job is a call, its columns, their directions, the thresholds   *)
(* in force and the allocation that fails.                                 *)

\* Thresholds under which four or five rows are many; each record leads to
\* another of the sorts.
Radix == [small |-> 1, radix |-> 1, pool |-> 1, packed |-> 1, msdBytes |-> 9, msdRows |-> 1,
          intro |-> 1, depth |-> 1, bucket |-> 1, merge |-> 1, par |-> 1, grain |-> 2,
          chunk |-> 1]
Insertion == [Radix EXCEPT !.small = 9]
Intro == [Radix EXCEPT !.radix = 9, !.chunk = 2]
HeapOnly == [Intro EXCEPT !.depth = 0]
Msd == [Radix EXCEPT !.packed = 0, !.msdBytes = 1, !.pool = 9, !.par = 9]
MsdIntro == [Radix EXCEPT !.packed = 0, !.msdBytes = 1, !.bucket = 9, !.merge = 2, !.chunk = 2]
Every == {Insertion, Intro, HeapOnly, Radix, Msd, MsdIntro}

Column(type, vs, n) == {[type |-> type, v |-> f] : f \in [1..n -> vs]}
Pair(c1, c2) == {<<a, b>> : a \in c1, b \in c2}
Single(cs) == {<<c>> : c \in cs}

\* The null, values that differ in the lowest, the middle and the highest
\* digit, and the greatest.
Ints == {-32, -31, -28, 1, 31}
Narrows == {-2, -1, 0, 1}
Floats == {28, 41, 9, 24}     \* null, negative, positive, infinity
Zeros == {0, 32}              \* of either sign

Job(call, colss, descss, nfss, ooms, ths, ks) ==
  [call : {call}, cols : colss, descs : descss, nfs : nfss, oom : ooms, th : ths, k : ks]

OneKey == Single(Column("int", {-32, -31, 1}, 5) \cup Column("narrow", {-2, 0, 1}, 5)
                 \cup Column("float", {28, 41, 9}, 5))
Encodable == Single(Column("int", Ints, 4) \cup Column("narrow", Narrows, 4)
                    \cup Column("float", Floats, 4) \cup Column("float", Zeros \cup {9}, 4))
OneKeyShort == Encodable \cup Single(Column("wide", 1..3, 4))
\* Two keys that fit a word, and two that do not.
TwoKeysFit == Pair(Column("int", {-1, 1}, 4), Column("narrow", {-2, 0, 1}, 4))
              \cup Pair(Column("float", {9, 24}, 4), Column("int", {0, 1}, 4))
              \cup Pair(Column("float", {24, 28, 56}, 3), Column("int", {0, 1}, 3))
TwoKeysRank == Pair(Column("int", {-32, 1}, 4), Column("narrow", {-2, 1}, 4))
               \cup Pair(Column("wide", {1, 2}, 4), Column("narrow", {-2, 1}, 4))

\* What may fail: the index array or the result, the keys or ranks, the
\* second copies, the histograms, and everything but the index array.
NoMemory == {"rows", "keys", "tmp", "hist", "all"}
AnyWay(n) == [1..n -> BOOLEAN]
SortJobs ==
  Job("sort", OneKey, AnyWay(1), AnyWay(1), {"none"}, Every, {0})
  \cup Job("sort", OneKeyShort, AnyWay(1), AnyWay(1), {"none"} \cup NoMemory, {Radix, Msd}, {0})
  \cup Job("sort", TwoKeysFit, AnyWay(2), AnyWay(2), {"none"}, {Msd}, {0})
  \cup Job("sort", TwoKeysRank, AnyWay(2), AnyWay(2), {"none"}, {Msd}, {0})
  \cup UNION {Job("sort", TwoKeysFit, {d}, {[k \in 1..2 |-> ~d[k]]}, {"none", "hist"},
                  {Intro, Radix}, {0})
              \cup Job("sort", TwoKeysRank, {d}, {[k \in 1..2 |-> ~d[k]]}, {"none"} \cup NoMemory,
                  {Intro, Radix}, {0}) : d \in AnyWay(2)}

TopJobs ==
  Job("top", OneKey \cup Encodable, AnyWay(1), AnyWay(1), {"none"}, {Radix}, 1..3)
  \cup Job("top", TwoKeysRank, AnyWay(2), AnyWay(2), {"none"}, {Radix}, 1..3)

\* Every column of a table goes the same way.
TableJobs ==
  UNION {Job("table", Pair(Column("list", {1, 2}, 4), Column("narrow", {-2, 0, 1}, 4))
                        \cup Pair(Column("float", {9, 24, 56}, 3), Column("narrow", {-2, 1}, 3)),
             {[k \in 1..2 |-> d]}, {[k \in 1..2 |-> ~d]}, {"none"}, {Intro, Radix}, {0})
         \cup Job("table", {<<a, b, c>> : a \in Column("narrow", {-2, 1}, 3),
                              b \in Column("list", {1, 2}, 3), c \in Column("int", {0, 1}, 3)},
             {[k \in 1..3 |-> d]}, {[k \in 1..3 |-> ~d]}, {"none"} \cup NoMemory,
             {MsdIntro, Radix}, {0})
         \cup Job("list", Single(Column("list", 1..3, 5)), {<<d>>}, {<<~d>>}, {"none"}, {Radix}, {0})
         : d \in BOOLEAN}

NoJob == [call |-> "none"]

Call ==
  /\ job = NoJob
  /\ job' \in SortJobs \cup TopJobs \cup TableJobs
  /\ UNCHANGED out

\* iasc, idesc, asc and desc of a vector, and the order of a query.
SortCall ==
  /\ job.call = "sort" /\ out = <<>>
  /\ out' = <<[grade |-> sort_indices_ex(job.cols, job.descs, job.nfs, job.oom, job.th),
               vals |-> IF Len(job.cols) > 1 THEN <<>>
                        ELSE ray_sort(job.cols[1], job.descs[1], job.nfs[1], job.oom, job.th)]>>
  /\ UNCHANGED job

\* The first k rows.
TopCall ==
  /\ job.call = "top" /\ out = <<>>
  /\ out' = <<[rows |-> IF Len(job.cols) = 1
                          THEN topk_indices_single(job.cols[1], job.descs[1], job.nfs[1], job.k)
                          ELSE topk_indices_cmp([cols |-> job.cols, descs |-> job.descs,
                                  nfs |-> job.nfs], Len(job.cols[1].v), job.k)]>>
  /\ UNCHANGED job

\* iasc and idesc of a table and of a general list.
GradeCall ==
  /\ job.call \in {"table", "list"} /\ out = <<>>
  /\ out' = <<[rows |-> IF job.call = "table"
                          THEN grade_table(job.cols, job.descs[1], job.oom, job.th)
                          ELSE ord_grade(job.cols[1].v, job.descs[1])]>>
  /\ UNCHANGED job

Return ==
  /\ out # <<>>
  /\ job' = NoJob /\ out' = <<>>

SortNext ==
  \/ Call \/ SortCall \/ TopCall \/ GradeCall \/ Return

(* The order a caller may expect: the first column in which two rows differ   *)
(* decides, nulls at the end asked for, descending columns the other way.     *)
Place(col, desc, nf, i) ==
  IF IsNull(col, i) THEN IF nf THEN -Ones ELSE Ones
  ELSE IF desc THEN -Value(col, i) ELSE Value(col, i)
NRows == Len(job.cols[1].v)
Places == [i \in 1..NRows |->
             [k \in DOMAIN job.cols |-> Place(job.cols[k], job.descs[k], job.nfs[k], i)]]
Precedes(a, b) ==
  \E k \in DOMAIN a : a[k] < b[k] /\ \A l \in 1..(k - 1) : a[l] = b[l]

\* The rows in that order, equal rows as they came.
Reference ==
  LET at == Places
      before(j, i) == Precedes(at[j], at[i]) \/ (at[j] = at[i] /\ j < i)
      rank == [i \in 1..NRows |-> 1 + Cardinality({j \in 1..NRows : before(j, i)})]
  IN  [p \in 1..NRows |-> CHOOSE i \in 1..NRows : rank[i] = p]

Sorted == job.call = "sort" /\ out # <<>> /\ out[1].grade.st = "ok"
Rows1 == IF job.call = "sort" THEN out[1].grade.rows ELSE out[1].rows

(* What the encoded keys do not tell apart, or tell in another order: with    *)
(* nulls at the end that is not their own, an integer null has the key of the *)
(* greatest integer, and a word of several keys has no place for nulls there; *)
(* in such a word floats of both signs, or a float null, change places.       *)
MixedFloats(col) ==
  col.type = "float" /\ (HasNulls(col) \/ \E i, j \in Rows(col) : col.v[i] < Top /\ col.v[j] >= Top)
NullIsGreatest(k) ==
  LET col == job.cols[k]
  IN  col.type = "int" /\ HasNulls(col) /\ job.nfs[k] = job.descs[k] /\ Top - 1 \in Range(col.v)
WordDisorder ==
  /\ Len(job.cols) > 1 /\ FitsWord(job.cols)
  /\ \E k \in DOMAIN job.cols :
       (HasNulls(job.cols[k]) /\ job.nfs[k] = job.descs[k]) \/ MixedFloats(job.cols[k])
OutOfOrder == WordDisorder \/ \E k \in DOMAIN job.cols : NullIsGreatest(k)

(* Whichever sort is chosen, and whatever allocation fails on the way, a      *)
(* result of sort_indices_ex holds every row once, and in order but for the   *)
(* keys above.                                                                *)
Ordered ==
  Sorted =>
    /\ Len(Rows1) = NRows /\ {Rows1[p] : p \in 1..NRows} = 1..NRows
    /\ OutOfOrder \/ \A p \in 2..NRows : ~Precedes(Places[Rows1[p]], Places[Rows1[p - 1]])

(* Equal rows keep their order but for zeros of different sign, whose keys    *)
(* differ, and on every path but one: rows whose encoded keys never increase  *)
(* are turned round as a whole.                                               *)
TwoZeros == \E k \in DOMAIN job.cols : job.cols[k].type = "float" /\ Zeros \subseteq Range(job.cols[k].v)
StableUnlessReversed ==
  Sorted /\ ~OutOfOrder /\ ~TwoZeros => Rows1 = Reference \/ Rows1 = Descending(NRows, 1)

(* There is no result only when memory failed, and the process is lost only   *)
(* for a histogram.                                                           *)
FailsForMemory ==
  job.call = "sort" /\ out # <<>> =>
    /\ out[1].grade.st = "oom" => job.oom \in {"rows", "all"}
    /\ out[1].grade.st = "crash" => job.oom = "hist"

(* sort.c:128: neither quicksort nor heapsort is stable, and q's grade must   *)
(* be.                                                                        *)
StableGrade == Sorted => Rows1 = Reference

(* Sorted values are the values of the sorted rows, though they are decoded   *)
(* from the keys and never read from the column.                              *)
ValuesMatch ==
  Sorted /\ Len(job.cols) = 1 =>
    out[1].vals = [p \in 1..NRows |-> job.cols[1].v[Rows1[p]]]

(* sort_indices_ex and ray_sort: all rows, in order and ties kept but for     *)
(* those cases, with the values that belong to them, or the failure named.    *)
SortExact == Ordered /\ StableUnlessReversed /\ ValuesMatch /\ FailsForMemory

(* The bounded heap delivers rows with the same keys as the first k of a sort,*)
(* in order and none twice; which of several equal rows it keeps is left open.*)
TopIsPrefix ==
  job.call = "top" /\ out # <<>> =>
    /\ Len(Rows1) = job.k
    /\ OutOfOrder \/ \A p \in 1..job.k : Places[Rows1[p]] = Places[Reference[p]]
    /\ \A p, q \in 1..job.k : p # q => Rows1[p] # Rows1[q]

(* The grade of a table is the stable order of its rows by all its columns,   *)
(* however many kernel calls the columns take and whatever falls back for     *)
(* memory, but for floats in a shared word; so is the grade of a list.        *)
TableGraded ==
  job.call \in {"table", "list"} /\ out # <<>> =>
    \/ Rows1 = Reference
    \/ Rows1 = <<>> /\ job.oom \in {"rows", "all", "hist"}
    \/ \E k \in DOMAIN job.cols : MixedFloats(job.cols[k])

(* What is built on the kernels returns the order of a full sort: the grade   *)
(* of a table and of a list as it is, the first k rows up to ties.            *)
GradeExact == TopIsPrefix /\ TableGraded

----------------------------------------------------------------------------
(* Joins                                                                   *)

\* Thresholds under which two right rows are many: the radix join, with two
\* partitions and a table that tolerates few or many duplicates, and the
\* chained table.
RadixTh == [par |-> 1, workers |-> 2, minBits |-> 1, maxBits |-> 2, target |-> 2, cap |-> 2,
            buf |-> 1, dup |-> 9, morsel |-> 2, selMax |-> 8, maxRows |-> 9]
DupTh == [RadixTh EXCEPT !.dup = 0, !.target = 1]
ChainTh == [RadixTh EXCEPT !.par = 9]
ShortTh == [RadixTh EXCEPT !.maxRows = 2]

Values == {Null, 0, 1, 2}
\* The null and a value share a hash.
ValueHashes == [v \in Values |-> CASE v = Null -> 5 [] v = 0 -> 1 [] v = 1 -> 5 [] v = 2 -> 2]

Keys(vs) == {<<v>> : v \in vs}
TwoKeys == {<<0, 1>>, <<1, 0>>, <<Null, 0>>}
Seqs(S, n) == [1..n -> S]

JoinJob(call, Ls, Rs, types, ooms, intrs, orders, facts, ths) ==
  [call : {call}, L : Ls, R : Rs, type : types, str : {FALSE}, oom : ooms, intr : intrs,
   order : orders, factorized : facts, th : ths]
Plain(call, Ls, Rs, n, types, ths) ==
  JoinJob(call, Ls, Rs, types, {{}}, {Never}, {Ascending(1, n)}, {FALSE}, ths)

Radixes == {RadixTh, DupTh}
\* Allocations on the way to the radix join's result, and on the way of the
\* chained table.
RadixOoms == {"hashes", "parts", "matched", "meta", "buf", "grow", "out"}
ChainOoms == {"luts", "table", "counts", "matched2", "out2", "more"}
Ooms == {{x} : x \in RadixOoms \cup ChainOoms}
        \cup {{"parts", x} : x \in ChainOoms}

EngineJob ==
  \/ job' \in Plain("join", Seqs(Keys({Null, 0, 1}), 2), Seqs(Keys({Null, 0, 1}), 3), 3, 0..2,
                     Radixes \cup {ChainTh})
  \/ job' \in Plain("join", Seqs(Keys({Null, 0, 1}), 3), Seqs(Keys({Null, 0, 1}), 2), 2, 0..2,
                     Radixes \cup {ChainTh})
  \/ job' \in Plain("join", Seqs(TwoKeys, 2), Seqs(TwoKeys, 2), 2, 0..2, {RadixTh, ChainTh})
  \/ \E m \in {0, 2} :
       job' \in Plain("join", Seqs(Keys({0, 1}), m), Seqs(Keys({0, 1}), 2 - m), 2 - m, 0..2, {ChainTh})
  \/ job' \in JoinJob("join", Seqs(Keys(Values), 1), Seqs(Keys(Values), 3), {0}, {{}, {"sel"}}, {Never},
                       {Ascending(1, 3)}, BOOLEAN, {ChainTh})
  \/ job' \in JoinJob("join", Seqs(Keys(Values), 3), Seqs(Keys(Values), 1), {0}, {{}, {"sel"}}, {Never},
                       {<<1>>}, {FALSE}, {ChainTh, [ChainTh EXCEPT !.selMax = 1]})
  \/ job' \in JoinJob("join", Seqs(Keys({0, 1}), 2), Seqs(Keys({0, 1}), 3), 0..2, Ooms \cup {{}},
                       {Never, 1, 2, 3, 4, 5}, {Ascending(1, 3), <<3, 1, 2>>}, {FALSE}, {RadixTh})
  \/ job' \in JoinJob("anti", Seqs(Keys({Null, 0, 1}), 2), Seqs(Keys({Null, 0, 1}), 3), {3},
                       {{}, {"luts"}, {"table"}, {"out2"}}, {Never, 4}, {<<2, 3, 1>>}, {FALSE},
                       {RadixTh, ShortTh})
  \/ job' \in Plain("anti", Seqs(Keys({0}), 1), Seqs(Keys({0}), 0), 0, {3}, {RadixTh})
  \/ job' \in Plain("join", Seqs(Keys({0, 1}), 2), Seqs(Keys({0, 1}), 3), 3, 0..2, {ShortTh})
  \/ \E call \in {"join", "anti"}, strings \in BOOLEAN, n \in {0, 2} :
       \E plain \in Plain(call, Seqs(Keys({0, 1}), 2), Seqs(Keys({0, 1}), n), n, {0}, {RadixTh}) :
         job' = [plain EXCEPT !.str = strings]

\* Tables of q.
XRow(i, k, v) == [k |-> <<k>>, v |-> v, a |-> 10 + i]
YRow(i, k, v) == [k |-> <<k>>, v |-> v, b |-> IF i = 2 THEN Null ELSE 20 + i]
XTables == {<<XRow(1, k1, v1), XRow(2, k2, v2)>> : k1, k2 \in {0, 1}, v1, v2 \in {Null, 3}}
YTables == {<<YRow(1, k1, v1), YRow(2, k2, v2), YRow(3, k3, 4)>> :
              k1, k3 \in {0, 1}, k2 \in {0, 1, 2}, v1, v2 \in {Null, 5}}
QOps == {"lj", "ljf", "ij", "ijf", "pj", "ej", "uj", "ujf"}
QCalls(ops, ys, ooms, intrs, orders, th) ==
  [call : {"q"}, op : ops, x : XTables, y : ys, L : {<<>>}, R : {<<>>}, type : {1}, str : {FALSE},
   oom : ooms, intr : intrs, order : orders, factorized : {FALSE}, th : {th}]
QJob ==
  \/ job' \in QCalls(QOps, YTables, {{}}, {Never}, {Ascending(1, 3)}, RadixTh)
  \/ job' \in QCalls(QOps, YTables, {{"hashes"}}, {Never}, {<<1, 3, 2>>, <<2, 1, 3>>}, RadixTh)
  \/ job' \in QCalls({"lj", "uj"}, {CHOOSE y \in YTables : TRUE}, {{"table"}, {"out2"}, {"malloc"}},
                      {Never, 4}, {Ascending(1, 3)}, ChainTh)

\* Times.  A mark is one the column can carry.
TimeRows(ks, ts) == [k : ks, t : ts]
Left(rows) == [i \in DOMAIN rows |-> [k |-> rows[i].k, t |-> rows[i].t, v |-> 30 + i, a |-> 10 + i]]
Right(rows) == [i \in DOMAIN rows |->
                  [k |-> rows[i].k, t |-> rows[i].t, v |-> IF i = 2 THEN Null ELSE 40 + i, b |-> 20 + i]]
NotFalling(vs) == \A i \in 2..Len(vs) : vs[i - 1] <= vs[i]
MayMark(rows) ==
  \/ Len(rows[1].k) = 0 /\ NotFalling([i \in DOMAIN rows |-> rows[i].t])
  \/ /\ Len(rows[1].k) = 1 /\ NotFalling([i \in DOMAIN rows |-> rows[i].k[1]])
     /\ \A i \in DOMAIN rows : rows[i].k[1] # Null
Asof(op, l, r, xlut, oom, lm, rm) ==
  [call |-> "asof", op |-> op, L |-> Left(l), R |-> Right(r), xlut |-> xlut, oom |-> oom,
   lmarked |-> lm /\ MayMark(l), rmarked |-> rm /\ MayMark(r)]
\* Two symbols of the left table are one and none of the right one's.
Translation == [v \in 1..2 |-> IF v = 1 THEN 2 ELSE Absent]
Stamped == TimeRows(Keys({1, 2}), {1, 2}) \cup {[k |-> <<Null>>, t |-> 1], [k |-> <<1>>, t |-> Null]}
AsofJob ==
  \/ \E l \in Seqs(Stamped, 2), r \in Seqs(Stamped, 3), x \in {Raw, Translation}, mark \in BOOLEAN :
       job' = Asof("aj", l, r, x, {}, mark, mark)
  \/ \E l, r \in Seqs(TimeRows({1, 2} \X {1, 2}, {1, 2}), 2) :
       job' = Asof("aj", l, r, Raw, {}, FALSE, FALSE)
  \/ \E op \in {"aj", "aj0", "ajf", "ajf0"}, oom \in {{}, {"asof"}}, lm \in BOOLEAN,
        l \in Seqs(TimeRows({<<>>}, {Null, 1, 2}), 2), r \in Seqs(TimeRows({<<>>}, {Null, 1, 2}), 3) :
       job' = Asof(op, l, r, Raw, oom, lm, ~lm)

JCall ==
  /\ job = NoJob
  /\ EngineJob \/ QJob \/ AsofJob
  /\ UNCHANGED out

EngineCall ==
  /\ job.call \in {"join", "anti"} /\ out = <<>>
  /\ out' = <<IF job.call = "join" THEN exec_join(job) ELSE exec_antijoin(job)>>
  /\ UNCHANGED job

Mode(op) == CASE op \in {"lj", "ij", "uj"} -> 0 [] op \in {"ljf", "ijf", "ujf"} -> 1 [] op = "pj" -> 2
QCall ==
  /\ job.call = "q" /\ out = <<>>
  /\ out' = <<CASE job.op = "ej" -> qj_ej_impl(job.x, job.y, job)
                [] job.op \in {"uj", "ujf"} -> qj_ktbl_merge(job.x, job.y, Mode(job.op), job)
                [] OTHER -> qj_lj_core(job.x, job.y, Mode(job.op), job.op \in {"ij", "ijf"}, job)>>
  /\ UNCHANGED job

AsofCall ==
  /\ job.call = "asof" /\ out = <<>>
  /\ out' = <<qj_aj_core(job, job.op \in {"aj0", "ajf0"}, job.op \in {"ajf", "ajf0"})>>
  /\ UNCHANGED job

JoinNext == JCall \/ EngineCall \/ QCall \/ AsofCall \/ Return

(* The pairs of an engine join: each pair of equal keys once, each left row   *)
(* without one in a left or full join, each right row without one in a full.  *)
RefPairs ==
  LET l == DOMAIN job.L
      r == DOMAIN job.R
      hits == {p \in l \X r : job.L[p[1]] = job.R[p[2]]}
  IN  hits \cup {<<i, Miss>> : i \in IF job.type >= 1 THEN l \ {p[1] : p \in hits} ELSE {}}
           \cup {<<Miss, i>> : i \in IF job.type = 2 THEN r \ {p[2] : p \in hits} ELSE {}}

Answered(call) == job.call = call /\ out # <<>> /\ out[1].st = "ok"

(* Whatever table is built, on whichever side and after whatever failure, by  *)
(* workers in whatever order, the pairs are those and none comes twice.       *)
PairsExact ==
  /\ Answered("join") => Range(out[1].pairs) = RefPairs /\ Len(out[1].pairs) = Cardinality(RefPairs)
  /\ Answered("anti") => out[1].pairs = SelectSeq(Ascending(1, Len(job.L)),
                                          LAMBDA l : job.L[l] \notin Range(job.R))

(* The tables of q: its rows are those of the left table in their order, with *)
(* the first right row of their key, and do not depend on the engine's order. *)
RefFirst(i) == LET m == {r \in DOMAIN job.y : job.y[r].k = job.x[i].k}
               IN  IF m = {} THEN Miss ELSE Min(m)
RefShared(i, r) ==
  LET xv == job.x[i].v
      yv == IF r = Miss THEN Null ELSE job.y[r].v
  IN  CASE job.op \in {"lj", "ij", "uj"} -> IF r = Miss THEN xv ELSE yv
        [] job.op \in {"ljf", "ijf", "ujf"} -> IF yv = Null THEN xv ELSE yv
        [] job.op = "pj" -> IF xv = Null THEN Null ELSE xv + (IF yv = Null THEN 0 ELSE yv)
RefRow(i) ==
  LET r == RefFirst(i)
      b == IF r = Miss THEN Null ELSE job.y[r].b
  IN  [k |-> job.x[i].k, v |-> RefShared(i, r), a |-> job.x[i].a,
       b |-> IF job.op = "pj" /\ b = Null THEN 0 ELSE b]
RefTable ==
  LET rows(keep(_)) == LET s == SelectSeq(<<1, 2>>, keep) IN [p \in DOMAIN s |-> RefRow(s[p])]
      new == SelectSeq(<<1, 2, 3>>, LAMBDA r : \A i \in DOMAIN job.x : job.x[i].k # job.y[r].k)
      pairs == SelectSeq(<<<<1, 1>>, <<1, 2>>, <<1, 3>>, <<2, 1>>, <<2, 2>>, <<2, 3>>>>,
                         LAMBDA p : job.x[p[1]].k = job.y[p[2]].k)
  IN  CASE job.op = "ej" -> [p \in DOMAIN pairs |->
             [k |-> job.x[pairs[p][1]].k, v |-> job.y[pairs[p][2]].v,
              a |-> job.x[pairs[p][1]].a, b |-> job.y[pairs[p][2]].b]]
        [] job.op \in {"ij", "ijf"} -> rows(LAMBDA i : RefFirst(i) # Miss)
        [] job.op \in {"uj", "ujf"} -> rows(LAMBDA i : TRUE) \o [p \in DOMAIN new |->
             [k |-> job.y[new[p]].k, v |-> job.y[new[p]].v, a |-> Null, b |-> job.y[new[p]].b]]
        [] OTHER -> rows(LAMBDA i : TRUE)
TablesExact == Answered("q") => out[1].pairs = RefTable

(* An asof join takes the last right row of the latest time that is not after *)
(* the left one's, in the same partition, however the sides came sorted.      *)
RefAsof(i) ==
  LET l == job.L[i]
      eq == [k \in DOMAIN l.k |-> IF job.xlut = Raw THEN l.k[k]
                                  ELSE IF l.k[k] \in DOMAIN job.xlut THEN job.xlut[l.k[k]] ELSE Absent]
      may == {r \in DOMAIN job.R : ~AnyNull(job.R[r]) /\ job.R[r].k = eq /\ job.R[r].t <= l.t}
      best == {r \in may : \A s \in may : job.R[s].t < job.R[r].t \/ (job.R[s].t = job.R[r].t /\ s <= r)}
  IN  IF AnyNull(l) \/ may = {} THEN Miss ELSE CHOOSE r \in best : TRUE
AsofExact ==
  Answered("asof") =>
    \A i \in DOMAIN job.L :
      LET r == RefAsof(i)
          fill == job.op \in {"ajf", "ajf0"}
          row == out[1].pairs[i]
          y == IF r = Miss THEN [t |-> Null, v |-> Null, b |-> Null] ELSE job.R[r]
      IN  /\ row.b = y.b
          /\ row.v = IF fill /\ y.v = Null THEN job.L[i].v ELSE y.v
          /\ row.t = IF job.op \in {"aj", "ajf"} \/ (fill /\ y.t = Null) THEN job.L[i].t ELSE y.t

(* A join fails only when memory does, after an interrupt, or for what it     *)
(* says it cannot do: string keys, and more rows than it can number.          *)
FailsHonestly ==
  job.call \in {"join", "anti", "q", "asof"} /\ out # <<>> /\ out[1].st # "ok" =>
    IF out[1].st = "nyi" THEN job.str \/ TooLong(job) ELSE job.oom # {} \/ job.intr # Never

(* exec_join, exec_antijoin, exec_window_join and the joins of q on them.     *)
JoinExact == PairsExact /\ TablesExact /\ AsofExact /\ FailsHonestly

----------------------------------------------------------------------------
(* Symbols: plain names, paths with and without a dot at the start, one    *)
(* that repeats a segment, and names with dots that are no paths.          *)

Syms == {<<"a">>, <<"b">>, <<"a", "b">>, <<"", "a", "b">>, <<"", "a">>, <<"b", "">>,
         <<"c", "a", "b">>, <<"c", "", "a">>, <<"a", "a">>}
\* Whole hashes collide, and their low bits do.
Hashes == [n \in Syms \cup {EmptyName, <<"c">>} |->
             CASE n \in {<<"a">>, <<"a", "b">>, <<"", "a">>, <<"b", "">>, <<"a", "a">>} -> 1
               [] n = <<"b">> -> 6
               [] OTHER -> 3]
LongSyms == {<<"a", "b">>, <<"", "a">>, <<"c", "a", "b">>}

----------------------------------------------------------------------------
KInit ==
  /\ part \in Parts
  /\ h = <<>> /\ present = {}
  /\ PartInit
  /\ job = NoJob /\ out = <<>>
  /\ SymInit

KNext ==
  \/ part = "timers" /\ TimersNext /\ UNCHANGED <<part, job, out, partvars, symvars>>
  \/ part = "tasks" /\ PartNext /\ UNCHANGED <<part, job, out, h, present, symvars>>
  \/ part = "sort" /\ SortNext /\ UNCHANGED <<part, h, present, partvars, symvars>>
  \/ part = "join" /\ JoinNext /\ UNCHANGED <<part, h, present, partvars, symvars>>
  \/ part = "sym" /\ SymNext /\ UNCHANGED <<part, h, present, job, out, partvars>>

KSpec == KInit /\ [][KNext]_mcvars
===============================================================================
