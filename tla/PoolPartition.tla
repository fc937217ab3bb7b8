----------------------------- MODULE PoolPartition -----------------------------
(***************************************************************************)
(* How the dispatchers of src/src/core/pool.c cut their work into tasks.   *)
(* ray_pool_dispatch: [0, total_elems) at the standard grain, the growth   *)
(* of the ring, the clamp to the ring with a re-derived grain, the fill    *)
(* loop.  ray_pool_dispatch_n: one task per index, clamped as well.        *)
(***************************************************************************)
EXTENDS Integers, Sequences

CONSTANTS
  Grain,        \* TASK_GRAIN, elements per task
  InitCap,      \* ring capacity at creation
  MaxRingCap,   \* RAY_POOL_MAX_TASKS
  IntMax,       \* INT64_MAX
  Width,        \* bits of n_tasks (32)
  MaxTotal      \* bound: largest total_elems tried

ASSUME PartitionAssumption ==
  /\ Grain \in Nat \ {0} /\ InitCap \in Nat \ {0} /\ MaxRingCap \in Nat
  /\ IntMax \in Nat /\ Width \in Nat /\ MaxTotal \in Nat
  /\ InitCap <= MaxRingCap
  /\ Grain * 2^Width <= IntMax + 1        \* 2^13 * 2^32 in the build, and 2^63
  /\ MaxTotal <= Grain * (2^Width - 1)   \* totals the task counter can hold

VARIABLES
  total_elems,  \* the argument (n_tasks as asked for in dispatch_n)
  each,         \* in ray_pool_dispatch_n
  task_cap,     \* ring capacity
  n_tasks, grain, total,   \* the locals; total is total_elems once clamped
  ranges,       \* the <<start, end>> pairs filled so far
  stage

partvars == <<total_elems, each, task_cap, n_tasks, grain, total, ranges, stage>>

PartTypeOK ==
  /\ total_elems \in 0..MaxTotal /\ total \in 0..IntMax /\ each \in BOOLEAN
  /\ task_cap \in InitCap..MaxRingCap /\ n_tasks \in 0..(2^Width - 1)
  /\ grain \in Nat /\ stage \in {"idle", "clamp", "fill"}
  /\ \A k \in DOMAIN ranges : ranges[k][2] <= total

PartInit ==
  /\ total_elems = 0 /\ total = 0 /\ each = FALSE /\ task_cap = InitCap
  /\ n_tasks = 0 /\ grain = Grain /\ ranges = <<>> /\ stage = "idle"

CeilDiv(a, b) == (a + b - 1) \div b

(* total_elems <= 0 returns at once.  The count is truncated to its width.    *)
Count(n) ==
  /\ stage = "idle"
  /\ n > 0
  /\ total_elems' = n /\ each' = FALSE
  /\ total' = IF n > IntMax - Grain + 1 THEN IntMax - Grain + 1 ELSE n
  /\ grain' = Grain
  /\ n_tasks' = CeilDiv(total', Grain) % 2^Width
  /\ ranges' = <<>>
  /\ stage' = "clamp"
  /\ UNCHANGED task_cap

(* ray_pool_dispatch_n: task i is [i, i + 1), 0 tasks return at once; the     *)
(* argument has the width of the counter.                                     *)
CountEach(n) ==
  /\ stage = "idle"
  /\ n > 0 /\ n < 2^Width
  /\ total_elems' = n /\ each' = TRUE /\ total' = n
  /\ grain' = 1
  /\ n_tasks' = n
  /\ ranges' = <<>>
  /\ stage' = "clamp"
  /\ UNCHANGED task_cap

(* The capacity after doubling while the tasks do not fit and the ceiling is  *)
(* not reached; a realloc that fails leaves the ring as it is.                *)
Doubled(n) ==
  {c \in task_cap..MaxRingCap :
     /\ \E e \in 1..MaxRingCap : c = task_cap * 2^e
     /\ n <= c \/ c = MaxRingCap
     /\ n > c \div 2}

(* Fault: the clamp keeps the standard grain.                                 *)
ClampKeepsGrain ==
  /\ stage = "clamp"
  /\ n_tasks' = IF n_tasks > task_cap THEN task_cap ELSE n_tasks
  /\ stage' = "fill"
  /\ UNCHANGED <<total_elems, each, total, task_cap, grain, ranges>>

(* The ring grows, or stays when the realloc fails; what does not fit is      *)
(* spread over fewer, larger tasks - or, in dispatch_n, dropped.              *)
Clamp ==
  /\ stage = "clamp"
  /\ \E c \in {task_cap} \cup Doubled(n_tasks) :
       /\ task_cap' = c
       /\ n_tasks' = IF n_tasks > c THEN c ELSE n_tasks
       /\ grain' = IF n_tasks > c /\ ~each THEN CeilDiv(total, c) ELSE grain
  /\ stage' = "fill"
  /\ UNCHANGED <<total_elems, each, total, ranges>>

(* One iteration of the fill loop.                                            *)
Fill ==
  /\ stage = "fill"
  /\ Len(ranges) < n_tasks
  /\ LET start == Len(ranges) * grain
         end   == IF start + grain > total THEN total ELSE start + grain
     IN  ranges' = Append(ranges, <<start, end>>)
  /\ UNCHANGED <<total_elems, each, total, task_cap, n_tasks, grain, stage>>

Filled ==
  /\ stage = "fill"
  /\ Len(ranges) = n_tasks
  /\ stage' = "idle"
  /\ UNCHANGED <<total_elems, each, total, task_cap, n_tasks, grain, ranges>>

PartNext ==
  \/ \E n \in 1..MaxTotal : Count(n) \/ CountEach(n)
  \/ Clamp \/ Fill \/ Filled

PartSpec == PartInit /\ [][PartNext]_partvars
-------------------------------------------------------------------------------
Elems(r) == r[1]..(r[2] - 1)
Owners(x) == {k \in DOMAIN ranges : x \in Elems(ranges[k])}

(* Whatever the ring could grow to, the tasks of one ray_pool_dispatch cover  *)
(* every element it was asked for, each in exactly one task, and no task      *)
(* reaches past the end of the data.                                          *)
CoversOnce ==
  stage = "idle" /\ ~each =>
    /\ \A x \in 0..(total_elems - 1) : \E k \in Owners(x) : Owners(x) = {k}
    /\ \A k \in DOMAIN ranges : Elems(ranges[k]) \subseteq 0..(total_elems - 1)

(* The tasks ray_pool_dispatch cuts: within the counters' widths, and each    *)
(* element in exactly one of them.                                            *)
RangesExact == PartTypeOK /\ CoversOnce
===============================================================================
