------------------------------- MODULE Group -------------------------------
(***************************************************************************)
(* Group-by: ops/group.c exec_group_run and the engine of ops/agg_engine.c *)
(* that it prefers, ops/pivot.c through pivot_ingest_run.                  *)
(*                                                                         *)
(* One query runs at a time.  Its strategy is chosen from the shape of the *)
(* query and of its keys, and is left again when the guess was wrong or    *)
(* memory runs out.  The rows of a strategy are tasks that the pool's      *)
(* workers take in any order; what a worker builds is its own, flags are   *)
(* shared.                                                                 *)
(*                                                                         *)
(* A hash table is a function from key to accumulator.  A dense table or   *)
(* direct array is a function from slot to accumulator.  Columns are       *)
(* integers with NullVal for null, sums wrap at Modulus.                   *)
(***************************************************************************)
EXTENDS Integers, Sequences, FiniteSets, FiniteSetsExt, SequencesExt

CONSTANTS
  NW,         \* threads of the pool, thread 0 is the one that dispatches
  Queries,    \* [keys, vals, sel, op, sym]: a table with two key columns
  Parts,      \* radix partitions
  PartFns,    \* what the low bits of the key hash may be
  TaskRows,   \* rows of a pool task
  ChunkRows,  \* AGG_SH_CHUNK
  Promote,    \* AGG_SH_PROMOTE
  MaxSlots,   \* DENSE_MAX_SLOTS, DA_MAX_COMPOSITE_SLOTS
  ParMin,     \* RAY_PARALLEL_THRESHOLD
  Modulus,    \* sums wrap
  MaxFail,    \* allocations that fail in one query
  NoSel, NotBuilt

ASSUME GroupAssumption ==
  /\ NW \in Nat \ {0} /\ TaskRows \in Nat \ {0} /\ ChunkRows \in Nat \ {0}

VARIABLES
  pc,      \* the strategy that runs, "begin", or "done"
  on,      \* its tables are allocated and its tasks handed out
  query,   \* the query
  part,    \* partition of each key
  todo,    \* tasks not taken yet
  at,      \* chunks each worker still has of its task
  tab,     \* each worker's table
  buf,     \* each worker's rows by partition
  built,   \* each partition's table, NotBuilt before
  oom,     \* workers, then partitions, that ran out of memory
  flag,    \* ctx.overflow, ctx.phase1_oom, v2p1.oom, v2p2.oom
  fails,   \* allocations that failed
  lossy,   \* history: the second pass over fat entries ran out of memory
  intr,    \* g_eval_interrupted
  result   \* the answer

vars == <<pc, on, query, part, todo, at, tab, buf, built, oom, flag, fails, lossy, intr, result>>

W == 0 .. NW - 1
NullVal == -100       \* NULL_I64: the least integer
IntMax == 100
NoTable == <<>>
Pending == [kind |-> "pending"]
Error(e) == [kind |-> "error", what |-> e]
Engine2 == {"dense", "hash", "small", "scatter", "group", "serial2"}
Legacy == {"da", "direct", "merge", "fat", "agg", "serial"}

(***************************************************************************)
(* The rows of the query.                                                  *)
(***************************************************************************)
NRows == Len(query.keys)
AllRows == [i \in 1 .. NRows |-> i]
Passes(r) == query.sel # NoSel => r \in query.sel
Selected == SelectSeq(AllRows, Passes)
KeyHasNulls == \E r \in 1 .. NRows : NullVal \in Range(query.keys[r])

\* ray_pool_dispatch: contiguous ranges of at most TaskRows
Split(s, n) == [i \in 1 .. (Len(s) + n - 1) \div n |->
                  SubSeq(s, (i - 1) * n + 1, IF i * n < Len(s) THEN i * n ELSE Len(s))]

(***************************************************************************)
(* Slots of a dense table: agg_dense_plan, agg_dense_slot.  The direct     *)
(* array of exec_group_run packs the keys the other way round and finds    *)
(* them again from the slot.                                               *)
(***************************************************************************)
KeyMin(rows, k) == Min({query.keys[r][k] : r \in Range(rows)})
KeyRange(rows, k) == Max({query.keys[r][k] : r \in Range(rows)}) - KeyMin(rows, k) + 1
Stride(rows, k) == IF k = 1 THEN 1 ELSE KeyRange(rows, 1)
Slots(rows) == KeyRange(rows, 1) * KeyRange(rows, 2)
DensePlan(rows) == rows # <<>> /\ ~KeyHasNulls /\ Slots(rows) <= MaxSlots
Slot(rows, r) == (query.keys[r][1] - KeyMin(rows, 1)) * Stride(rows, 1)
                   + (query.keys[r][2] - KeyMin(rows, 2)) * Stride(rows, 2)
DaStride(rows, k) == IF k = 2 THEN 1 ELSE KeyRange(rows, 2)
DaGid(rows, r) == (query.keys[r][1] - KeyMin(rows, 1)) * DaStride(rows, 1)
                    + (query.keys[r][2] - KeyMin(rows, 2)) * DaStride(rows, 2)
KeyOfSlot(rows, s) == [k \in 1 .. 2 |->
                         KeyMin(rows, k) + ((s \div DaStride(rows, k)) % KeyRange(rows, k))]

(***************************************************************************)
(* Accumulators: agg_stream.c, da_accum_row, accum_from_entry.             *)
(***************************************************************************)
EmptyAcc == [n |-> 0, nn |-> 0, sum |-> 0, min |-> IntMax, max |-> NullVal,
             fr |-> IntMax, lr |-> 0]

\* the row-layout tables of the legacy hash path take a null as a number
SkipsNull == pc \notin Legacy \/ pc = "da"

TakeValue(a, v) ==
  [a EXCEPT !.nn = @ + 1, !.sum = (@ + v) % Modulus,
            !.min = IF v < @ THEN v ELSE @,
            !.max = IF v > @ THEN v ELSE @]

Update(a, r) ==
  LET b == [a EXCEPT !.n = @ + 1,
                     !.fr = IF r < @ THEN r ELSE @,
                     !.lr = IF r > @ THEN r ELSE @]
  IN  IF query.vals[r] = NullVal /\ SkipsNull THEN b ELSE TakeValue(b, query.vals[r])

\* Fault: FIRST and LAST follow the order in which the workers are merged
MergeInWorkerOrder(a, b) ==
  [n |-> a.n + b.n, nn |-> a.nn + b.nn, sum |-> (a.sum + b.sum) % Modulus,
   min |-> IF b.nn > 0 /\ b.min < a.min THEN b.min ELSE a.min,
   max |-> IF b.nn > 0 /\ b.max > a.max THEN b.max ELSE a.max,
   fr |-> IF a.n > 0 THEN a.fr ELSE b.fr,
   lr |-> IF b.n > 0 THEN b.lr ELSE a.lr]

Merge(a, b) ==
  [n |-> a.n + b.n, nn |-> a.nn + b.nn, sum |-> (a.sum + b.sum) % Modulus,
   min |-> IF b.nn > 0 /\ b.min < a.min THEN b.min ELSE a.min,
   max |-> IF b.nn > 0 /\ b.max > a.max THEN b.max ELSE a.max,
   fr |-> IF b.fr < a.fr THEN b.fr ELSE a.fr,
   lr |-> IF b.lr > a.lr THEN b.lr ELSE a.lr]

At(t, g) == IF g \in DOMAIN t THEN t[g] ELSE EmptyAcc
With(t, g, a) == [h \in DOMAIN t \cup {g} |-> IF h = g THEN a ELSE t[h]]

Group(r) == CASE pc = "dense" -> Slot(Selected, r)
              [] pc = "da"    -> DaGid(Selected, r)
              [] OTHER        -> query.keys[r]

Insert(t, rows) == FoldLeft(LAMBDA u, r : With(u, Group(r), Update(At(u, Group(r)), r)), t, rows)

Together(t, u) == [g \in DOMAIN t \cup DOMAIN u |-> Merge(At(t, g), At(u, g))]

\* the workers' tables, in worker order
MergeTabs(ts) == FoldLeft(LAMBDA t, w : Together(t, ts[w]), NoTable, [i \in 1 .. NW |-> i - 1])

\* one worker's direct-insert tables are one table, cut by partition
Cut(t, p) == [g \in {k \in DOMAIN t : part[k] = p} |-> t[g]]

(***************************************************************************)
(* The answer.                                                             *)
(***************************************************************************)
Final(a) ==
  CASE query.op = "scan"      -> <<a.n, a.sum, IF a.nn > 0 THEN a.min ELSE NullVal,
                                   IF a.nn > 0 THEN a.max ELSE NullVal>>
    [] query.op = "firstlast" -> <<query.vals[a.fr], query.vals[a.lr]>>
    [] OTHER                  -> <<a.n, a.sum>>

\* the key of a group: a member row, except in the direct array
KeyCol(t, g) == IF pc = "da" THEN KeyOfSlot(Selected, g) ELSE query.keys[t[g].fr]

Emit(t) == [kind |-> "table", len |-> Cardinality(DOMAIN t),
            rows |-> {<<KeyCol(t, g), Final(t[g])>> : g \in DOMAIN t}]

EmitParts == Emit(FoldFunction(LAMBDA t, u : t @@ u, NoTable,
                               [p \in Parts |-> IF built[p] = NotBuilt THEN NoTable ELSE built[p]]))

(***************************************************************************)
(* A query comes in.  The interrupt flag is cleared with each statement.   *)
(***************************************************************************)
Clear ==
  /\ todo' = <<>> /\ at' = [w \in W |-> <<>>]
  /\ tab' = [w \in W |-> NoTable] /\ buf' = [w \in W |-> [p \in Parts |-> <<>>]]
  /\ built' = [p \in Parts |-> NotBuilt]
  /\ oom' = {} /\ flag' = FALSE /\ on' = FALSE

Begin ==
  /\ pc = "done"
  /\ query' \in Queries /\ part' \in PartFns
  /\ pc' = "begin" /\ fails' = 0 /\ lossy' = FALSE /\ intr' = FALSE /\ result' = Pending
  /\ Clear

\* SIGINT
Interrupt ==
  /\ pc # "done" /\ ~intr
  /\ intr' = TRUE
  /\ UNCHANGED <<pc, on, query, part, todo, at, tab, buf, built, oom, flag, fails, lossy, result>>

Same == UNCHANGED <<query, part, fails, lossy, intr>>
Fails == fails < MaxFail /\ fails' = fails + 1 /\ UNCHANGED <<query, part, intr>>
Failing == Fails /\ UNCHANGED lossy

Goto(s) == pc' = s /\ Clear /\ UNCHANGED result
Finish(a) == pc' = "done" /\ result' = a /\ Clear

(***************************************************************************)
(* The choice of a strategy.                                               *)
(***************************************************************************)
\* agg_v2_can_handle: plain columns and aggregates of the registry
V2CanHandle == query.op = "scan"

\* exec_group_v2_run.  The cardinality is estimated from a sample, and the
\* size of the accumulators decides whether a dense plan fits a worker.
RouteV2 ==
  IF Len(Selected) < ParMin THEN {"serial2"}
  ELSE IF KeyHasNulls THEN {"hash"}
  ELSE {"small", "scatter"} \cup (IF DensePlan(Selected) THEN {"dense"} ELSE {})

\* exec_group_run from ht_path
HtPath ==
  IF NRows < ParMin \/ NW = 1 THEN "serial"
  ELSE IF query.op = "expr" /\ ~query.sym THEN "direct"
  ELSE "fat"

RouteLegacy == IF query.op # "pivot" /\ DensePlan(Selected) THEN {"da"} ELSE {HtPath}

Route ==
  /\ pc = "begin"
  /\ ~intr
  /\ \E s \in IF V2CanHandle THEN RouteV2 ELSE RouteLegacy : Goto(s)
  /\ Same

\* exec_node's checkpoint
RouteCancelled ==
  /\ pc = "begin"
  /\ intr
  /\ Finish(Error("cancel"))
  /\ Same

\* the prefix of a selection cannot be allocated
RouteFails ==
  /\ pc = "begin"
  /\ ~intr /\ V2CanHandle /\ query.sel # NoSel
  /\ Finish(Error("oom"))
  /\ Failing

(***************************************************************************)
(* A strategy allocates its tables and hands out its tasks.  The second    *)
(* passes run over partitions and keep what the first pass built.          *)
(***************************************************************************)
\* the legacy scans walk all rows and skip those that do not pass
Tasks ==
  CASE pc \in {"group", "merge", "agg"} -> SetToSeq({<<p>> : p \in Parts})
    [] pc \in {"direct", "fat"}         -> Split(AllRows, TaskRows)
    [] pc = "da" /\ NRows < ParMin      -> <<Selected>>
    [] OTHER                            -> Split(Selected, TaskRows)

Launch ==
  /\ pc \in (Engine2 \cup Legacy) \ {"serial", "serial2"} /\ ~on
  /\ on' = TRUE /\ todo' = Tasks
  /\ UNCHANGED <<pc, at, tab, buf, built, oom, flag, result>>
  /\ Same

\* where a strategy goes that has no memory
GiveUp ==
  CASE pc = "da"                                -> Goto(HtPath)
    [] pc \in {"direct", "merge"}               -> Goto("fat")
    [] pc \in {"fat", "agg"} /\ query.op # "pivot" -> Goto("serial")
    [] OTHER                                    -> Finish(Error("oom"))

LaunchFails ==
  /\ pc \in (Engine2 \cup Legacy) \ {"group", "merge"} /\ ~on
  /\ GiveUp
  /\ Failing

(***************************************************************************)
(* Workers.                                                                *)
(***************************************************************************)
\* the chunks between which a worker looks at shared state
Chunks(rows) == IF pc = "small" THEN Split(rows, ChunkRows) ELSE <<rows>>

\* a task is left at its start
Skips(w) ==
  \/ pc \in {"dense", "hash", "small"} /\ w \in oom
  \/ pc \in {"direct", "merge"} /\ flag
  \/ pc \in {"direct", "fat"} /\ intr

Idle(w) == at[w] = <<>>

Claim(w) ==
  /\ on /\ todo # <<>> /\ Idle(w)
  /\ pc = "da" /\ NRows < ParMin => w = 0
  /\ todo' = Tail(todo)
  /\ at' = [at EXCEPT ![w] = IF Skips(w) THEN <<>> ELSE Chunks(Head(todo))]
  /\ UNCHANGED <<pc, on, tab, buf, built, oom, flag, result>>
  /\ Same

Now(w) == Head(at[w])
Rest(w) == at' = [at EXCEPT ![w] = Tail(@)]
Abort(w) == at' = [at EXCEPT ![w] = <<>>]

\* the rows of a task go into the worker's own table
Gather(w) ==
  /\ ~Idle(w)
  /\ tab' = [tab EXCEPT ![w] = Insert(@, SelectSeq(Now(w), Passes))]
  /\ Rest(w)
  /\ UNCHANGED <<pc, on, todo, buf, built, oom, flag, result>>
  /\ Same

HashPhaseA(w) == pc = "hash" /\ Gather(w)
DensePhaseA(w) == pc = "dense" /\ Gather(w)
ArrayAccum(w) == pc = "da" /\ Gather(w)
DirectPhase1(w) == pc = "direct" /\ Gather(w)

\* agg_sh_phaseA_fn: one chunk, between two looks at ctx.overflow
Tripped(w) == Cardinality(DOMAIN tab[w]) > Promote

SmallChunk(w) ==
  /\ pc = "small" /\ ~Idle(w)
  /\ flag' = (flag \/ Tripped(w))
  /\ IF flag' THEN Abort(w) /\ UNCHANGED tab
              ELSE Rest(w) /\ tab' = [tab EXCEPT ![w] = Insert(@, Now(w))]
  /\ UNCHANGED <<pc, on, todo, buf, built, oom, result>>
  /\ Same

\* the rows of a scan that come before the one whose allocation fails
Before(w) == {SubSeq(SelectSeq(Now(w), Passes), 1, i) : i \in 0 .. Len(SelectSeq(Now(w), Passes)) - 1}

GatherFails(w) ==
  /\ pc \in {"dense", "hash", "small"} /\ ~Idle(w)
  /\ pc = "small" => ~flag /\ ~Tripped(w)
  /\ oom' = oom \cup {w}
  /\ Abort(w)
  /\ UNCHANGED <<pc, on, todo, tab, buf, built, flag, result>>
  /\ Failing

DirectFails(w) ==
  /\ pc = "direct" /\ ~Idle(w)
  /\ \E rows \in Before(w) : tab' = [tab EXCEPT ![w] = Insert(@, rows)]
  /\ flag' = TRUE
  /\ Abort(w)
  /\ UNCHANGED <<pc, on, todo, buf, built, oom, result>>
  /\ Failing

Push(b, rows) == [p \in Parts |-> b[p] \o SelectSeq(rows, LAMBDA r : part[query.keys[r]] = p)]

\* the rows of a task go into the worker's buffers
PushRows(w, rows) ==
  /\ ~Idle(w)
  /\ buf' = [buf EXCEPT ![w] = Push(@, rows)]
  /\ Rest(w)
  /\ UNCHANGED <<pc, on, todo, tab, built, oom, flag, result>>
  /\ Same

RadixScatter(w) == pc = "scatter" /\ PushRows(w, Now(w))

FatPhase1(w) == pc = "fat" /\ PushRows(w, SelectSeq(Now(w), Passes))

\* agg_radix_scatter_one gives the task up
RadixScatterFails(w) ==
  /\ pc = "scatter" /\ ~Idle(w)
  /\ \E pre \in Before(w) : buf' = [buf EXCEPT ![w] = Push(@, pre)]
  /\ flag' = TRUE
  /\ Abort(w)
  /\ UNCHANGED <<pc, on, todo, tab, built, oom, result>>
  /\ Failing

\* radix_buf_push drops the row and marks the buffer
FatPushFails(w) ==
  /\ pc = "fat" /\ ~Idle(w)
  /\ LET rows == SelectSeq(Now(w), Passes) IN
     \E i \in DOMAIN rows : buf' = [buf EXCEPT ![w] = Push(@, RemoveAt(rows, i))]
  /\ oom' = oom \cup {w}
  /\ Rest(w)
  /\ UNCHANGED <<pc, on, todo, tab, built, flag, result>>
  /\ Failing

\* all rows of a partition, in worker order
RowsOf(p) == FlattenSeq([i \in 1 .. NW |-> buf[i - 1][p]])

\* a partition's table; an empty partition keeps none
Build(w, t) ==
  /\ built' = IF t = NoTable THEN built ELSE [built EXCEPT ![Head(Now(w))] = t]
  /\ Rest(w)
  /\ UNCHANGED <<pc, on, todo, tab, buf, oom, flag, result>>
  /\ Same

RadixGroup(w) == pc = "group" /\ ~Idle(w) /\ Build(w, Insert(NoTable, RowsOf(Head(Now(w)))))
FatPhase2(w) == pc = "agg" /\ ~Idle(w) /\ Build(w, Insert(NoTable, RowsOf(Head(Now(w)))))
DirectPhase2(w) == pc = "merge" /\ ~Idle(w)
                   /\ Build(w, MergeTabs([v \in W |-> Cut(tab[v], Head(Now(w)))]))

\* a flag on the partition
RadixGroupFails(w) ==
  /\ pc = "group" /\ ~Idle(w) /\ RowsOf(Head(Now(w))) # <<>>
  /\ oom' = oom \cup {Head(Now(w))}
  /\ Rest(w)
  /\ UNCHANGED <<pc, on, todo, tab, buf, built, flag, result>>
  /\ Failing

\* a shared flag
DirectPhase2Fails(w) ==
  /\ pc = "merge" /\ ~Idle(w) /\ \E v \in W : Cut(tab[v], Head(Now(w))) # NoTable
  /\ flag' = TRUE
  /\ Rest(w)
  /\ UNCHANGED <<pc, on, todo, tab, buf, built, oom, result>>
  /\ Failing

\* a partition that has no table, or one that cannot grow for a new group
NewGroup(rows, i) == \A j \in 1 .. i - 1 : query.keys[rows[j]] # query.keys[rows[i]]

FatPhase2Fails(w) ==
  /\ pc = "agg" /\ ~Idle(w) /\ RowsOf(Head(Now(w))) # <<>>
  /\ LET p == Head(Now(w)) IN
     \/ UNCHANGED <<built, oom>>
     \/ \E i \in 2 .. Len(RowsOf(p)) :
          /\ NewGroup(RowsOf(p), i)
          /\ built' = [built EXCEPT ![p] = Insert(NoTable, RemoveAt(RowsOf(p), i))]
          /\ oom' = oom \cup {p}
  /\ Rest(w)
  /\ lossy' = TRUE
  /\ UNCHANGED <<pc, on, todo, tab, buf, flag, result>>
  /\ Fails

(***************************************************************************)
(* The dispatch has returned: every task is done.                          *)
(***************************************************************************)
Joined == on /\ todo = <<>> /\ \A w \in W : Idle(w)

\* the second pass starts from what the first one built
Pass2(s) == pc' = s /\ on' = FALSE /\ oom' = {} /\ flag' = FALSE
            /\ UNCHANGED <<todo, at, tab, buf, built, result>>

\* an out-of-memory worker fails the query
JoinTables ==
  /\ Joined
  /\ Finish(IF oom # {} THEN Error("oom") ELSE Emit(MergeTabs(tab)))
  /\ Same

JoinHash == pc = "hash" /\ JoinTables
JoinDense == pc = "dense" /\ JoinTables

\* Fault: promotion starts the small hash again instead of the radix path
JoinSmallAgain ==
  /\ pc = "small" /\ Joined
  /\ IF flag THEN Goto("small")
     ELSE Finish(IF oom # {} THEN Error("oom") ELSE Emit(MergeTabs(tab)))
  /\ Same

\* Fault: the partial tables of the small hash are not discarded
JoinSmallKeeps ==
  /\ pc = "small" /\ Joined
  /\ IF flag THEN pc' = "scatter" /\ on' = FALSE /\ flag' = FALSE /\ UNCHANGED <<todo, at, tab, buf, built, oom, result>>
     ELSE Finish(IF oom # {} THEN Error("oom") ELSE Emit(MergeTabs(tab)))
  /\ Same

\* exec_group_v2_parallel_smallhash: promotion comes before anything else
JoinSmall ==
  /\ pc = "small" /\ Joined
  /\ IF flag THEN Goto("scatter")
     ELSE Finish(IF oom # {} THEN Error("oom") ELSE Emit(MergeTabs(tab)))
  /\ Same

\* exec_group_v2_parallel_radix
JoinScatter ==
  /\ pc = "scatter" /\ Joined
  /\ IF flag THEN Finish(Error("oom")) ELSE Pass2("group")
  /\ Same

JoinGroup ==
  /\ pc = "group" /\ Joined
  /\ Finish(IF oom # {} THEN Error("oom") ELSE EmitParts)
  /\ Same

\* the merge of the workers' tables, or the columns, cannot be allocated
JoinFails ==
  /\ pc \in {"dense", "hash", "small", "group"} /\ Joined
  /\ pc = "small" => ~flag
  /\ Finish(Error("oom"))
  /\ Failing

\* the direct array; CHECK_CANCEL_GOTO follows each legacy dispatch
JoinArray ==
  /\ pc = "da" /\ Joined
  /\ Finish(IF intr THEN Error("cancel") ELSE Emit(MergeTabs(tab)))
  /\ Same

\* the direct-insert tables: no memory leads to v2_done
JoinDirect ==
  /\ pc = "direct" /\ Joined
  /\ IF intr THEN Finish(Error("cancel"))
     ELSE IF flag THEN GiveUp ELSE Pass2("merge")
  /\ Same

JoinMerge ==
  /\ pc = "merge" /\ Joined
  /\ IF intr THEN Finish(Error("cancel"))
     ELSE IF flag THEN GiveUp ELSE Finish(EmitParts)
  /\ Same

\* the fat-entry buffers, for exec_group_run and for pivot_ingest_run
JoinFat ==
  /\ pc = "fat" /\ Joined
  /\ IF intr THEN Finish(Error("cancel"))
     ELSE IF oom # {} THEN GiveUp
     ELSE Pass2("agg")
  /\ Same

\* only pivot_ingest_run looks for partitions without memory
Truncated == oom # {} \/ \E p \in Parts : built[p] = NotBuilt /\ RowsOf(p) # <<>>

JoinAgg ==
  /\ pc = "agg" /\ Joined
  /\ Finish(IF intr THEN Error("cancel")
            ELSE IF query.op = "pivot" /\ Truncated THEN Error("oom")
            ELSE EmitParts)
  /\ Same

\* one table on the dispatching thread; the legacy one stops when interrupted
Sequential ==
  /\ pc = "serial"
  /\ Finish(IF intr THEN Error("cancel") ELSE Emit(Insert(NoTable, Selected)))
  /\ Same

Serial2 ==
  /\ pc = "serial2"
  /\ Finish(Emit(Insert(NoTable, Selected)))
  /\ Same

Init ==
  /\ pc = "done" /\ on = FALSE /\ query \in Queries /\ part \in PartFns
  /\ todo = <<>> /\ at = [w \in W |-> <<>>] /\ tab = [w \in W |-> NoTable]
  /\ buf = [w \in W |-> [p \in Parts |-> <<>>]] /\ built = [p \in Parts |-> NotBuilt]
  /\ oom = {} /\ flag = FALSE /\ fails = 0 /\ lossy = FALSE /\ intr = FALSE /\ result = Error("none yet")

Work(w) ==
  \/ Claim(w) \/ SmallChunk(w)
  \/ HashPhaseA(w) \/ DensePhaseA(w) \/ ArrayAccum(w) \/ DirectPhase1(w)
  \/ RadixScatter(w) \/ FatPhase1(w) \/ RadixGroup(w) \/ FatPhase2(w) \/ DirectPhase2(w)

WorkFails(w) ==
  \/ GatherFails(w) \/ DirectFails(w) \/ RadixScatterFails(w) \/ FatPushFails(w)
  \/ RadixGroupFails(w) \/ DirectPhase2Fails(w) \/ FatPhase2Fails(w)

Join ==
  \/ JoinHash \/ JoinDense \/ JoinSmall \/ JoinScatter \/ JoinGroup
  \/ JoinArray \/ JoinDirect \/ JoinMerge \/ JoinFat \/ JoinAgg

Main == Route \/ RouteCancelled \/ Launch \/ Join \/ Sequential \/ Serial2

Next ==
  \/ Begin \/ Interrupt \/ Main
  \/ RouteFails \/ LaunchFails \/ JoinFails
  \/ \E w \in W : Work(w) \/ WorkFails(w)

Spec == Init /\ [][Next]_vars

\* some thread of the query goes on: the pool's workers and the dispatching
\* thread run until the tasks are done
FairSpec == Spec /\ WF_vars(Main \/ \E w \in W : Work(w))

(***************************************************************************)
(* Properties.                                                             *)
(***************************************************************************)
Sum(S, f) == FoldSet(LAMBDA x, n : n + f[x], 0, S)
Counted(t) == Sum(DOMAIN t, [g \in DOMAIN t |-> t[g].n])
Answer == {"error", "table", "pending"}

\* Types of the variables of a group-by.
TypeOK ==
  /\ pc \in Engine2 \cup Legacy \cup {"begin", "done"}
  /\ on \in BOOLEAN /\ flag \in BOOLEAN /\ lossy \in BOOLEAN /\ intr \in BOOLEAN
  /\ query \in Queries /\ part \in PartFns /\ fails \in 0 .. MaxFail
  /\ oom \subseteq W \cup Parts /\ result.kind \in Answer
  /\ \A w \in W : /\ DOMAIN buf[w] = Parts
                  /\ \A i \in DOMAIN at[w] : Range(at[w][i]) \subseteq 1 .. NRows \cup Parts
                  /\ \A p \in Parts : Range(buf[w][p]) \subseteq Range(Selected)
                  /\ pc # "dense" /\ pc # "da" => DOMAIN tab[w] \subseteq Range(query.keys)

Waiting == FlattenSeq(todo) \o FlattenSeq([i \in 1 .. NW |-> FlattenSeq(at[i - 1])])

\* While no allocation has failed, no interrupt has come and no worker has
\* tripped the small hash, each selected row is in exactly one place: in a
\* task nobody has taken, in a task a worker has not come to, in one
\* worker's table or buffer, or in one partition.  What an abandoned
\* strategy counted (promotion to radix, v2_done, sequential_fallback) is
\* not counted again.
EachRowOnce ==
  on /\ fails = 0 /\ ~intr /\ ~flag =>
    Len(Selected) =
      IF pc \in {"group", "merge", "agg"}
      THEN LET left == Range(Waiting) IN
           Sum(Parts, [p \in Parts |->
             IF p \notin left THEN (IF built[p] = NotBuilt THEN 0 ELSE Counted(built[p]))
             ELSE Len(RowsOf(p)) + Sum(W, [w \in W |-> Counted(Cut(tab[w], p))])])
      ELSE Len(SelectSeq(Waiting, Passes))
           + Sum(W, [w \in W |-> Counted(tab[w]) + Sum(Parts, [p \in Parts |-> Len(buf[w][p])])])

\* The passes lose no row and count none twice, and keep to their partitions
\* and keys.
RowsExact == TypeOK /\ EachRowOnce

\* What the query means, from its rows alone.
KeysOf == {query.keys[r] : r \in Range(Selected)}
Members(k) == {r \in Range(Selected) : query.keys[r] = k}
Values(k) == {r \in Members(k) : query.vals[r] # NullVal}
Reference(k) ==
  LET val == [r \in Values(k) |-> query.vals[r]]
      sum == Sum(Values(k), val) % Modulus
      ext == IF Values(k) = {} THEN {NullVal} ELSE Range(val)
  IN  CASE query.op = "scan" -> <<Cardinality(Members(k)), sum, Min(ext), Max(ext)>>
        [] query.op = "firstlast" -> <<query.vals[Min(Members(k))], query.vals[Max(Members(k))]>>
        [] OTHER -> <<Cardinality(Members(k)), sum>>

\* A group-by that answers with a table answers with one row per distinct
\* key of the selected rows and with the aggregates of exactly its rows,
\* whatever strategy ran, whichever workers took which tasks, whatever was
\* abandoned, interrupted or out of memory on the way.
NeverTruncated ==
  pc = "done" /\ result.kind = "table" =>
    /\ result.rows = {<<k, Reference(k)>> : k \in KeysOf}
    /\ result.len = Cardinality(KeysOf)

\* That holds but for one case: the second pass over fat entries ran out of
\* memory in exec_group_run, which does not look for it (group.c:8140; the
\* pivot does).  Even then no group is made up and none comes twice.
Exact ==
  /\ ~lossy \/ query.op = "pivot" => NeverTruncated
  /\ pc = "done" /\ result.kind = "table" =>
       /\ {g[1] : g \in result.rows} \subseteq KeysOf
       /\ result.len = Cardinality({g[1] : g \in result.rows})

\* An error says what happened: "oom" only after an allocation failed in
\* this query, "cancel" only after an interrupt.  A flag that one strategy
\* leaves behind is never taken for the failure of the next.
ErrorsHonest ==
  pc = "done" => /\ result = Error("oom") => fails > 0
                 /\ result = Error("cancel") => intr

\* Whatever exec_group returns is true: the table, but for what its second
\* pass lost, or the error's reason.
Answers == Exact /\ ErrorsHonest

\* Every group-by is answered: the strategies that hand over to another one
\* (small hash to radix, direct array to hash, direct insert to fat entries,
\* fat entries to one table) never hand over in a circle.
Terminates == []<>(pc = "done")
=============================================================================
