-------------------------------- MODULE Join --------------------------------
(***************************************************************************)
(* The hash joins of ops/join.c: which rows of two tables belong together. *)
(* QJoin adds the asof join and the joins of q.                            *)
(*                                                                         *)
(* A join j is a record: the keys L and R of the rows of both tables, the  *)
(* type (0 inner, 1 left, 2 full outer), whether a key column holds        *)
(* strings (str), the allocations oom that fail,                           *)
(* the check by which an interrupt has come (intr, Never if none has), the *)
(* order in which workers win the insertions into a shared table, and the  *)
(* thresholds th.  A key is a tuple with one value for each key column.    *)
(* Null is negative like the sentinels of the code, and one value among    *)
(* others: it matches null.  Rows count from 1, and 0 is the row of a miss *)
(* (-1 in the code).                                                       *)
(***************************************************************************)
EXTENDS RowSeq

CONSTANTS
  HashBits,   \* bits of a row's hash
  JoinHash    \* the hash of each value

Null == -1
Miss == 0
Never == 9

Ok(pairs) == [st |-> "ok", pairs |-> pairs]
Failed(st) == [st |-> st, pairs |-> <<>>]
\* What is made of a result, if there is one.
Then(res, F(_)) == IF res.st = "ok" THEN F(res.pairs) ELSE res
\* The radix join gives up, and the chained table takes over.
FallBack == Failed("fall back")

\* An interrupt stays: every later check sees it.
Cancelled(j, check) == j.intr <= check

----------------------------------------------------------------------------
(* Keys                                                                    *)

ray_hash_combine(h, kh) == (2 * h + kh) % 2^HashBits

hash_row_keys(key) ==
  FoldLeft(ray_hash_combine, JoinHash[key[1]], [k \in 1..(Len(key) - 1) |-> JoinHash[key[k + 1]]])

join_keys_eq(a, b) == a = b

----------------------------------------------------------------------------
(* Partitions.  An entry is a row and its hash.                            *)

radix_join_bits(n, th) ==
  MaxOf(th.minBits, Min({b \in 0..th.maxBits : b = th.maxBits \/ th.target * 2^b >= n}))

\* Task t has the same rows in both passes.
TaskRows(n, tasks, t) ==
  LET chunk == DivUp(n, tasks) IN (t * chunk + 1)..MinOf(t * chunk + chunk, n)

PartOf(h, bits) == h \div 2^(HashBits - bits)

join_radix_hist(hashes, bits, tasks) ==
  [t \in 0..(tasks - 1) |-> [p \in 0..(2^bits - 1) |->
     Cardinality({r \in TaskRows(Len(hashes), tasks, t) : PartOf(hashes[r], bits) = p})]]

\* Task t writes its entries of partition p behind those of the tasks before
\* it, in the order of the rows; the buffers it collects them in keep it.
join_radix_scatter(hashes, bits, tasks, hist, p) ==
  LET offset(t) == MapThenSumSet(LAMBDA u : hist[u][p], 0..(t - 1))
      writes == UNION {
        LET own == {r \in TaskRows(Len(hashes), tasks, t) : PartOf(hashes[r], bits) = p}
        IN  {<<offset(t) + Cardinality({q \in own : q <= r}), r>> : r \in own}
        : t \in 0..(tasks - 1)}
      count == offset(tasks)
      row(x) == (CHOOSE w \in writes : w[1] = x)[2]
  IN  AsSeq([x \in 1..count |-> [row |-> row(x), hash |-> hashes[row(x)]]], count)

join_radix_partition(keys, bits, th) ==
  LET n == Len(keys)
      tasks == IF n > th.par THEN th.workers ELSE 1
      hashes == AsSeq([r \in 1..n |-> hash_row_keys(keys[r])], n)
      hist == join_radix_hist(hashes, bits, tasks)
  IN  [p \in 0..(2^bits - 1) |-> join_radix_scatter(hashes, bits, tasks, hist, p)]

----------------------------------------------------------------------------
(* One partition: an open-addressing table of the build side is probed     *)
(* with the rows of the other.                                             *)

NoEntry == [row |-> Miss, hash |-> 0]

\* The slots from a hash on, to the first empty one.
Run(ht, h) ==
  LET cap == Len(ht)
      slot(d) == ((h + d) % cap) + 1
      free == Min({d \in 0..(cap - 1) : ht[slot(d)] = NoEntry})
  IN  [slots |-> [d \in 1..free |-> slot(d - 1)], free |-> slot(free)]

\* The table with one more entry, or <<>> when its key is repeated too often.
InsertEntry(ht, e, run, dup) ==
  IF Cardinality({d \in DOMAIN run.slots : ht[run.slots[d]].hash = e.hash}) > dup THEN <<>>
  ELSE [ht EXCEPT ![run.free] = e]

Build(entries, cap, dup) ==
  FoldLeft(LAMBDA ht, e : IF ht = <<>> THEN ht ELSE InsertEntry(ht, e, Run(ht, e.hash), dup),
           [s \in 1..cap |-> NoEntry], entries)

\* At least twice the rows, and a power of two.
TableCap(n, th) == Min({2^b : b \in {c \in 0..HashBits + 1 : 2^c >= th.cap /\ 2^c >= 2 * n}})

\* The build rows of one probe row, in the order of the table.
ProbeRun(ht, e, probe, build) ==
  LET hits == SelectSeq(Run(ht, e.hash).slots, LAMBDA s :
                ht[s].hash = e.hash /\ join_keys_eq(probe[e.row], build[ht[s].row]))
  IN  [k \in DOMAIN hits |-> ht[hits[k]].row]

\* The pairs of one probe row; a left or full join keeps the row without one.
PairsOf(row, hits, type) ==
  IF hits = <<>> /\ type >= 1 THEN <<<<row, Miss>>>>
  ELSE [k \in DOMAIN hits |-> <<row, hits[k]>>]

\* Without build rows every probe row is a miss.
NoBuild(lp, type, oom) ==
  LET misses == FlattenSeq([i \in DOMAIN lp |-> PairsOf(lp[i].row, <<>>, type)])
  IN  IF "buf" \in oom /\ misses # <<>> THEN Failed("error") ELSE Ok(misses)

\* The buffer of the pairs grows when it is full.
Grown(pairs, room, oom) ==
  IF "grow" \in oom /\ Len(pairs) > room THEN Failed("error") ELSE Ok(pairs)

Probe(ht, probe, build, lp, room, type, oom) ==
  IF ht = <<>> THEN Failed("pathological")
  ELSE Grown(FlattenSeq([i \in DOMAIN lp |->
               PairsOf(lp[i].row, ProbeRun(ht, lp[i], probe, build), type)]), room, oom)

join_radix_build_probe(probe, build, lp, rp, type, oom, th) ==
  IF rp = <<>> THEN NoBuild(lp, type, oom)
  ELSE IF "buf" \in oom THEN Failed("error")
  ELSE Probe(Build(rp, TableCap(Len(rp), th), th.dup), probe, build, lp,
             MaxOf(th.buf, MaxOf(Len(lp), Len(rp))), type, oom)

----------------------------------------------------------------------------
(* The radix join                                                          *)

\* Right rows no pair has, for a full join.
Unmatched(j, pairs) ==
  LET rows == SelectSeq(Ascending(1, Len(j.R)),
                        LAMBDA r : j.type = 2 /\ \A k \in DOMAIN pairs : pairs[k][2] # r)
  IN  [k \in DOMAIN rows |-> <<Miss, rows[k]>>]

Swapped(j) == j.type = 0 /\ Len(j.L) < Len(j.R)

\* Fault: partitions of the smaller side are joined as if it were the right.
PhysicalAsIs(j, pairs) == pairs
Physical(j, pairs) ==
  IF Swapped(j) THEN [k \in DOMAIN pairs |-> <<pairs[k][2], pairs[k][1]>>] ELSE pairs

WithUnmatched(j, pairs) == pairs \o Unmatched(j, pairs)

\* Every partition is joined by a task of its own, and one that fails fails all.
Consolidate(j, done) ==
  LET all == WithUnmatched(j, Physical(j,
               FlattenSeq([p \in 1..Cardinality(DOMAIN done) |-> done[p - 1].pairs])))
  IN  IF Cancelled(j, 3) THEN Failed("cancel")
      ELSE IF \E p \in DOMAIN done : done[p].st # "ok" THEN FallBack
      ELSE IF "out" \in j.oom /\ all # <<>> THEN Failed("oom")
      ELSE Ok(all)

RadixJoin(j) ==
  LET build == IF Swapped(j) THEN j.L ELSE j.R
      probe == IF Swapped(j) THEN j.R ELSE j.L
      bits == radix_join_bits(Len(build), j.th)
      rps == join_radix_partition(build, bits, j.th)
      lps == join_radix_partition(probe, bits, j.th)
  IN  IF "hashes" \in j.oom THEN FallBack
      ELSE IF Cancelled(j, 1) THEN Failed("cancel")
      ELSE IF "parts" \in j.oom THEN FallBack
      ELSE IF Cancelled(j, 2) THEN Failed("cancel")
      ELSE IF "matched" \in j.oom /\ j.type = 2 THEN FallBack
      ELSE IF "meta" \in j.oom THEN FallBack
      ELSE Consolidate(j, [p \in 0..(2^bits - 1) |->
             join_radix_build_probe(probe, build, lps[p], rps[p], j.type, j.oom, j.th)])

----------------------------------------------------------------------------
(* The chained table.  Workers insert their rows with compare-and-swap on  *)
(* the head of a chain, so that a chain is the reverse of the order in     *)
(* which they won.                                                         *)

\* Rows of one table whose key cannot be among the keys of the other, told
\* by a bitmap of those that are small and not negative.
Filtered(j, keys, others, r) ==
  LET top == Max({0} \cup {others[i][1] : i \in DOMAIN others})
  IN  /\ "sel" \notin j.oom /\ top < j.th.selMax
      /\ keys[r][1] \in 0..top /\ \A i \in DOMAIN others : others[i][1] # keys[r][1]

SingleInner(j) == j.type = 0 /\ (j.L \o j.R = <<>> \/ Len((j.L \o j.R)[1]) = 1)
\* The left table is the count of an expansion, or is much the longer one.
AspSkips(j, r) ==
  SingleInner(j) /\ j.factorized /\ Len(j.R) > 2 * Len(j.L) /\ Filtered(j, j.R, j.L, r)
SjoinSkips(j, l) == SingleInner(j) /\ Len(j.L) > 2 * Len(j.R) /\ Filtered(j, j.L, j.R, l)

join_build(j) ==
  [s \in 0..(TableCap(Len(j.R), j.th) - 1) |->
     Reverse(SelectSeq(j.order, LAMBDA r :
       ~AspSkips(j, r) /\ hash_row_keys(j.R[r]) % TableCap(Len(j.R), j.th) = s))]

ChainHits(j, heads, l) ==
  SelectSeq(heads[hash_row_keys(j.L[l]) % TableCap(Len(j.R), j.th)], LAMBDA r : join_keys_eq(j.L[l], j.R[r]))

join_count(j, heads, l) ==
  LET n == IF SjoinSkips(j, l) THEN 0 ELSE Len(ChainHits(j, heads, l))
  IN  IF n = 0 /\ j.type >= 1 THEN 1 ELSE n

join_fill(j, heads, l) ==
  PairsOf(l, IF SjoinSkips(j, l) THEN <<>> ELSE ChainHits(j, heads, l), j.type)

Unwritten == <<Miss, Miss>>

\* Morsels are counted, their counts summed, and the pairs of each written
\* from its sum on.
CountThenFill(j, heads) ==
  LET size == j.th.morsel
      n == Len(j.L)
      rows(t) == Ascending((t - 1) * size + 1, MinOf(t * size, n))
      morsels == 1..MaxOf(1, DivUp(n, size))
      count(t) == MapThenSumSet(LAMBDA l : join_count(j, heads, l), Range(rows(t)))
      offset(t) == MapThenSumSet(count, 1..(t - 1))
      pairs(t) == FlattenSeq([i \in DOMAIN rows(t) |-> join_fill(j, heads, rows(t)[i])])
      total == MapThenSumSet(count, morsels)
      writes == UNION {{<<offset(t) + k, pairs(t)[k]>> : k \in DOMAIN pairs(t)} : t \in morsels}
      cell(x) == LET at == {w \in writes : w[1] = x}
                 IN  IF at = {} THEN Unwritten ELSE (CHOOSE w \in at : TRUE)[2]
  IN  AsSeq([x \in 1..total |-> cell(x)], total)

\* "null": the clean-up is reached without a result and without an error.
ChainedResult(j, pairs) ==
  IF "matched2" \in j.oom /\ j.type = 2 /\ j.R # <<>> THEN Failed("null")
  ELSE IF "out2" \in j.oom /\ pairs # <<>> THEN Failed("null")
  ELSE IF Cancelled(j, 5) THEN Failed("cancel")
  ELSE IF "more" \in j.oom /\ Unmatched(j, pairs) # <<>> THEN Failed("null")
  ELSE Ok(WithUnmatched(j, pairs))

ChainedJoin(j) ==
  IF "table" \in j.oom THEN Failed("oom")
  ELSE IF Cancelled(j, 4) THEN Failed("cancel")
  ELSE IF "counts" \in j.oom THEN Failed("oom")
  ELSE ChainedResult(j, CountThenFill(j, join_build(j)))

OrChained(j, radix) == IF radix = FallBack THEN ChainedJoin(j) ELSE radix

\* Rows are numbered with 32 bits, strings have no key word, and a symbol
\* column of a domain of its own needs a table of its ids.
TooLong(j) == MaxOf(Len(j.L), Len(j.R)) > j.th.maxRows
Admit(j) == IF j.str THEN Failed("nyi") ELSE IF "luts" \in j.oom THEN Failed("oom") ELSE Ok(<<>>)

exec_join(j) ==
  IF TooLong(j) THEN Failed("nyi")
  ELSE Then(Admit(j), LAMBDA none :
         OrChained(j, IF Len(j.R) > j.th.par THEN RadixJoin(j) ELSE FallBack))

\* The left rows without a match.
exec_antijoin(j) ==
  LET heads == join_build(j)
      rows == SelectSeq(Ascending(1, Len(j.L)), LAMBDA l : ChainHits(j, heads, l) = <<>>)
      found == IF "table" \in j.oom THEN Failed("oom")
               ELSE IF Cancelled(j, 4) THEN Failed("cancel")
               ELSE IF "out2" \in j.oom THEN Failed("oom")
               ELSE Ok(rows)
  IN  IF TooLong(j) THEN Failed("nyi")
      ELSE IF j.R = <<>> \/ j.L = <<>> THEN Ok(Ascending(1, Len(j.L)))
      ELSE Then(Admit(j), LAMBDA none : found)

===============================================================================
