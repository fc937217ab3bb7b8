-------------------------------- MODULE QJoin --------------------------------
(***************************************************************************)
(* The asof join of ops/join.c, and the joins of q in qlang/ops/q_join.c.  *)
(* q leaves the matching to the engine: it joins the key columns and the   *)
(* numbers of the rows, sorts the pairs that come back, and gathers every  *)
(* column by them.                                                         *)
(*                                                                         *)
(* A row of a q table is a record: its key k, in an asof join its time t,  *)
(* the column v that both tables have, and a column of its own, a on the   *)
(* left and b on the right.                                                *)
(***************************************************************************)
EXTENDS Join

----------------------------------------------------------------------------
(* The asof join.  Its equality keys and its time are integers; a row with *)
(* a null among them matches nothing.  xlut leads from the symbols of the  *)
(* left table to those of the right one when they have domains of their    *)
(* own, and Raw stands for one domain.                                     *)

Raw == <<>>
Absent == -1

asof_eq_lread(j, l) ==
  LET translated(v) == IF v \in DOMAIN j.xlut THEN j.xlut[v] ELSE Absent
  IN  [k \in DOMAIN j.L[l].k |-> IF j.xlut = Raw THEN j.L[l].k[k] ELSE translated(j.L[l].k[k])]

AnyNull(row) == row.t = Null \/ \E k \in DOMAIN row.k : row.k[k] = Null

LexLess(a, b) == \E k \in DOMAIN a : a[k] < b[k] /\ \A m \in 1..(k - 1) : a[m] = b[m]

\* What the merge sort compares.
SortKey(row, eq) == <<IF AnyNull(row) THEN 1 ELSE 0>> \o eq \o <<row.t>>

RECURSIVE AsofMerge(_, _, _)
AsofMerge(keys, a, b) ==
  IF a = <<>> THEN b ELSE IF b = <<>> THEN a
  ELSE IF LexLess(keys[b[1]], keys[a[1]]) THEN <<b[1]>> \o AsofMerge(keys, a, Tail(b))
  ELSE <<a[1]>> \o AsofMerge(keys, Tail(a), b)

RECURSIVE AsofSort(_, _, _)
AsofSort(keys, s, width) ==
  LET run(p) == SubSeq(s, p * width + 1, MinOf((p + 1) * width, Len(s)))
  IN  IF width >= Len(s) THEN s
      ELSE AsofSort(keys, FlattenSeq([p \in 1..DivUp(Len(s), 2 * width) |->
             AsofMerge(keys, run(2 * p - 2), run(2 * p - 1))]), 2 * width)

\* With an index on its only equality key that says `parted`, or a time that
\* is marked sorted if there is none, a side may be in order as it is.
asof_time_sorted_within_parts(rows) ==
  \A i \in 2..Len(rows) : rows[i].k = rows[i - 1].k => rows[i - 1].t <= rows[i].t
Presorted(rows, marked) ==
  /\ marked /\ rows # <<>>
  /\ \/ Len(rows[1].k) = 0
     \/ /\ Len(rows[1].k) = 1 /\ \A i \in DOMAIN rows : rows[i].t # Null
        /\ asof_time_sorted_within_parts(rows)

LeftOrder(j) ==
  LET id == Ascending(1, Len(j.L))
  IN  IF j.xlut = Raw /\ Presorted(j.L, j.lmarked) THEN id
      ELSE AsofSort([l \in DOMAIN j.L |-> SortKey(j.L[l], asof_eq_lread(j, l))], id, 1)
RightOrder(j) ==
  LET id == Ascending(1, Len(j.R))
  IN  IF Presorted(j.R, j.rmarked) THEN id
      ELSE AsofSort([r \in DOMAIN j.R |-> SortKey(j.R[r], j.R[r].k)], id, 1)

\* Back over the right rows that are not below the left row in any key.
RECURSIVE Rewind(_, _, _, _)
Rewind(j, ri, rp, l) ==
  IF rp = 1 \/ AnyNull(j.R[ri[rp - 1]])
     \/ \E k \in DOMAIN j.L[l].k : j.R[ri[rp - 1]].k[k] < asof_eq_lread(j, l)[k]
    THEN rp ELSE Rewind(j, ri, rp - 1, l)

\* Forward to the first right row past the left one; the last candidate on
\* the way is the best.
RECURSIVE Advance(_, _, _, _)
Advance(j, ri, w, l) ==
  LET r == ri[w.rp]
      eq == asof_eq_lread(j, l)
  IN  IF w.rp > Len(ri) THEN w
      ELSE IF AnyNull(j.R[r]) \/ LexLess(j.R[r].k, eq)
        THEN Advance(j, ri, [w EXCEPT !.rp = @ + 1], l)
      ELSE IF LexLess(eq, j.R[r].k) \/ j.R[r].t > j.L[l].t THEN w
      ELSE Advance(j, ri, [w EXCEPT !.rp = @ + 1, !.best = r], l)

\* Fault: the best match of one partition is carried into the next.
PartitionCarried(j, ri, w, l) ==
  IF w.prev # Miss /\ j.L[w.prev].k # j.L[l].k
    THEN [w EXCEPT !.rp = Rewind(j, ri, w.rp, l)] ELSE w
Partition0(j, ri, w, l) ==
  IF w.prev # Miss /\ j.L[w.prev].k # j.L[l].k
    THEN [w EXCEPT !.best = Miss, !.rp = Rewind(j, ri, w.rp, l)] ELSE w

\* One left row of the walk over both orders.
MergeStep(j, ri, w, l) ==
  IF AnyNull(j.L[l]) THEN w
  ELSE LET x == Advance(j, ri, Partition0(j, ri, w, l), l)
       IN  [x EXCEPT !.prev = l, !.match[l] = x.best]

\* The right row of each left row.
exec_window_join(j) ==
  LET ri == RightOrder(j)
      start == [rp |-> 1, best |-> Miss, prev |-> Miss,
                match |-> [l \in DOMAIN j.L |-> Miss]]
      walk == FoldLeft(LAMBDA w, l : MergeStep(j, ri, w, l), start, LeftOrder(j))
  IN  IF "asof" \in j.oom THEN Failed("oom") ELSE Ok(walk.match)

----------------------------------------------------------------------------
(* The pairs as q uses them                                                *)

KeysOf(rows) == [i \in DOMAIN rows |-> rows[i].k]

qj_pair_cmp(a, b) == IF a[1] # b[1] THEN a[1] < b[1] ELSE a[2] < b[2]

KeyJob(x, y, job) == [job EXCEPT !.L = KeysOf(x), !.R = KeysOf(y), !.type = 1]

\* No result is a type error.
Typed(res) == IF res.st = "null" THEN Failed("type") ELSE res

\* Fault: the pairs stay in the order of the engine.
qj_join_pairsUnsorted(x, y, job) == Typed(exec_join(KeyJob(x, y, job)))
qj_join_pairs(x, y, job) ==
  Then(Typed(exec_join(KeyJob(x, y, job))), LAMBDA pairs :
    IF "malloc" \in job.oom THEN Failed("wsfull") ELSE Ok(SortSeq(pairs, qj_pair_cmp)))

\* The first match of each left row.
qj_first_map(pairs, n) ==
  FoldLeft(LAMBDA fmap, p :
             IF p[2] # Miss /\ fmap[p[1]] = Miss THEN [fmap EXCEPT ![p[1]] = p[2]] ELSE fmap,
           [i \in 1..n |-> Miss], pairs)

\* A cell gathered by a map: a miss is null.
Gathered(rows, col, r) == IF r = Miss THEN Null ELSE rows[r][col]
FillWith(d, v) == IF v = Null THEN d ELSE v
Plus(a, b) == IF a = Null \/ b = Null THEN Null ELSE a + b

qj_merge_col(x, y, i, r, mode) ==
  CASE mode = 0 -> IF r = Miss THEN x[i].v ELSE y[r].v
    [] mode = 1 -> FillWith(x[i].v, Gathered(y, "v", r))
    [] mode = 2 -> Plus(x[i].v, FillWith(0, Gathered(y, "v", r)))

LjRow(x, y, i, r, mode) ==
  [k |-> x[i].k, v |-> qj_merge_col(x, y, i, r, mode), a |-> x[i].a,
   b |-> IF mode = 2 THEN FillWith(0, Gathered(y, "b", r)) ELSE Gathered(y, "b", r)]
LjRows(x, y, fmap, mode, inner) ==
  LET kept == SelectSeq(Ascending(1, Len(x)), LAMBDA i : ~inner \/ fmap[i] # Miss)
  IN  [p \in DOMAIN kept |-> LjRow(x, y, kept[p], fmap[kept[p]], mode)]

\* mode 0: lj, ij; 1: ljf, ijf; 2: pj.
qj_lj_core(x, y, mode, inner, job) ==
  Then(qj_join_pairs(x, y, job), LAMBDA pairs :
    Ok(LjRows(x, y, qj_first_map(pairs, Len(x)), mode, inner)))

\* Each pair is a row, with the shared column of the right table.
EjRow(x, y, p) == [k |-> x[p[1]].k, v |-> y[p[2]].v, a |-> x[p[1]].a, b |-> y[p[2]].b]
EjRows(x, y, hits) == [p \in DOMAIN hits |-> EjRow(x, y, hits[p])]
qj_ej_impl(x, y, job) ==
  Then(qj_join_pairs(x, y, job), LAMBDA pairs :
    Ok(EjRows(x, y, SelectSeq(pairs, LAMBDA p : p[2] # Miss))))

\* The right rows that have no left one.
NewRows(y, rmap) ==
  LET new == SelectSeq(Ascending(1, Len(y)), LAMBDA i : rmap[i] = Miss)
  IN  [p \in DOMAIN new |->
         [k |-> y[new[p]].k, v |-> y[new[p]].v, a |-> Null, b |-> y[new[p]].b]]

\* uj and ujf of keyed tables: the left rows updated, and the new ones behind.
qj_ktbl_merge(x, y, mode, job) ==
  Then(qj_lj_core(x, y, mode, FALSE, job), LAMBDA rows :
    Then(qj_join_pairs(y, x, [job EXCEPT !.order = Ascending(1, Len(x))]), LAMBDA pairs :
      Ok(rows \o NewRows(y, qj_first_map(pairs, Len(y))))))

\* aj, aj0, ajf and ajf0: a row of the result, given the right row r.
AjRow(j, i, r, t0mode, fill) ==
  LET cell(col) == FillWith(IF fill THEN j.L[i][col] ELSE Null, Gathered(j.R, col, r))
  IN  [k |-> j.L[i].k, t |-> IF t0mode THEN cell("t") ELSE j.L[i].t,
       v |-> cell("v"), a |-> j.L[i].a, b |-> Gathered(j.R, "b", r)]

qj_aj_core(j, t0mode, fill) ==
  Then(exec_window_join(j), LAMBDA map :
    Ok([i \in DOMAIN j.L |-> AjRow(j, i, map[i], t0mode, fill)]))

===============================================================================
