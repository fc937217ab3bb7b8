--------------------------------- MODULE Pool ---------------------------------
(***************************************************************************)
(* The persistent thread pool of src/src/core/pool.c: one producer (the    *)
(* main thread, worker 0) publishes a window of tasks in a ring and takes  *)
(* part in running it; background workers sleep on a semaphore.            *)
(*                                                                         *)
(* Every atomic operation of pool.c on a shared field is a step of its     *)
(* own, so a thread may be delayed between any two of them.  A task is     *)
(* abstracted to the ticket it was filled for: tasks[s] = k says that slot *)
(* s holds the fn/ctx/start/end written for ticket k.  How a dispatch cuts *)
(* its elements into ranges is the module PoolPartition.                   *)
(*                                                                         *)
(* Threads are sequentially consistent here.  The code's acquire/release   *)
(* pairs (task_limit, pending, shutdown) give the orders the steps below   *)
(* rely on: a claimer that reads the new task_limit sees the ring fill.    *)
(***************************************************************************)
EXTENDS Integers, FiniteSets

CONSTANTS
  Worker,       \* background threads, pool->n_workers of them
  Main,         \* the dispatching thread, worker 0
  InitCap,      \* ring capacity at creation (1024 in the code)
  MaxRingCap,   \* RAY_POOL_MAX_TASKS, the ring's ceiling
  MaxTasks,     \* bound: tasks asked for by one dispatch
  MaxTicket     \* bound: tickets handed out in the life of one pool

ASSUME PoolAssumption ==
  /\ IsFiniteSet(Worker)
  /\ Main \notin Worker
  /\ InitCap \in Nat \ {0}
  /\ MaxRingCap \in Nat
  /\ InitCap <= MaxRingCap
  /\ MaxTasks \in Nat
  /\ MaxTicket \in Nat

Thread   == Worker \cup {Main}
NWorkers == Cardinality(Worker)

VARIABLES
  task_claim, task_limit,   \* the two monotonic cursors
  tasks, task_cap,          \* ring contents and capacity
  pending,                  \* tasks of the window not completed yet
  work_ready,               \* semaphore count
  n_active, n_running,      \* admission cap (q `\s`) and workers past the gate
  shutdown, cancelled,
  parallel,                 \* ray_parallel_flag
  rc_sync,                  \* the main thread's ray_rc_sync
  pc,                       \* where each thread is
  cur,                      \* pool_claim's `cur`, then the claimed ticket `idx`
  old,                      \* what the worker's fetch_add on n_running returned
  base, n_tasks, i,         \* the dispatcher's locals (i also counts signals)
  ran, skipped,             \* history: tickets executed / skipped as cancelled
  repeated,                 \* history: some ticket was executed a second time
  peak                      \* history: highest n_active since n_running was 0

cursors == <<task_claim, task_limit>>
ring    == <<tasks, task_cap>>
gate    == <<n_active, n_running, peak>>
flags   == <<shutdown, cancelled, parallel, rc_sync>>
locals  == <<base, n_tasks, i>>
history == <<ran, skipped, repeated>>
vars    == <<task_claim, task_limit, tasks, task_cap, pending, work_ready,
             n_active, n_running, shutdown, cancelled, parallel, rc_sync,
             pc, cur, old, base, n_tasks, i, ran, skipped, repeated, peak>>

ClaimPc  == {"load", "limit", "cas"}
TicketPc == {"claimed", "run", "finish"}
MainPc   == ClaimPc \cup TicketPc \cup
            {"spawn", "idle", "fill", "arm", "publish", "flag", "sync", "signal",
             "spin", "unflag", "unsync", "wake", "join", "freed"}
WorkerPc == ClaimPc \cup TicketPc \cup
            {"unborn", "wait", "woken", "enter", "gate", "reject", "leave", "exited"}
Spawned  == {w \in Worker : pc[w] # "unborn"}

TypeOK ==
  /\ task_claim \in Nat /\ task_limit \in Nat
  /\ task_cap \in InitCap..MaxRingCap
  /\ tasks \in [0..(MaxRingCap - 1) -> Nat \cup {-1}]
  /\ pending \in Nat /\ work_ready \in Nat
  /\ n_active \in 0..NWorkers /\ n_running \in Nat /\ peak \in 0..NWorkers
  /\ shutdown \in BOOLEAN /\ cancelled \in BOOLEAN
  /\ parallel \in BOOLEAN /\ rc_sync \in BOOLEAN
  /\ pc \in [Thread -> MainPc \cup WorkerPc]
  /\ pc[Main] \in MainPc /\ \A w \in Worker : pc[w] \in WorkerPc
  /\ cur \in [Thread -> Nat] /\ old \in [Worker -> Nat]
  /\ base \in Nat /\ n_tasks \in Nat /\ i \in Nat
  /\ ran \subseteq Nat /\ skipped \subseteq Nat /\ repeated \in BOOLEAN

-------------------------------------------------------------------------------
(* ray_pool_create up to its spawn loop: all fields set, no thread yet.       *)
Init ==
  /\ task_claim = 0 /\ task_limit = 0
  /\ task_cap = InitCap /\ tasks = [s \in 0..(MaxRingCap - 1) |-> -1]
  /\ pending = 0 /\ work_ready = 0
  /\ n_active = NWorkers /\ n_running = 0 /\ peak = NWorkers
  /\ shutdown = FALSE /\ cancelled = FALSE
  /\ parallel = FALSE /\ rc_sync = FALSE
  /\ pc = [t \in Thread |-> IF t = Main THEN "spawn" ELSE "unborn"]
  /\ cur = [t \in Thread |-> 0] /\ old = [w \in Worker |-> 0]
  /\ base = 0 /\ n_tasks = 0 /\ i = 0
  /\ ran = {} /\ skipped = {} /\ repeated = FALSE

Goto(t, from, to) == pc[t] = from /\ pc' = [pc EXCEPT ![t] = to]

(* Ring slot of a ticket: ticket & (task_cap - 1), task_cap a power of two.   *)
Slot(k) == k % task_cap

(* The highest cap since the pool was last without admitted workers.          *)
NotePeak ==
  peak' = IF n_running' = 0 \/ n_active' > peak THEN n_active' ELSE peak

-------------------------------------------------------------------------------
(* pool_claim and the task loop, the same code in worker_loop and in both     *)
(* dispatch functions.  cur and old are set to 0 where the local is dead.     *)

LoadClaim(t) ==
  /\ Goto(t, "load", "limit")
  /\ cur' = [cur EXCEPT ![t] = task_claim]
  /\ UNCHANGED <<cursors, ring, pending, work_ready, gate, flags, old, locals, history>>

(* The window is exhausted, or a CAS is worth trying.                         *)
LoadLimit(t) ==
  /\ Goto(t, "limit",
          IF cur[t] < task_limit THEN "cas"
          ELSE IF t = Main THEN "spin" ELSE "leave")
  /\ cur' = [cur EXCEPT ![t] = IF @ < task_limit THEN @ ELSE 0]
  /\ UNCHANGED <<cursors, ring, pending, work_ready, gate, flags, old, locals, history>>

(* Fault: the cursor is advanced by a plain store, without the compare.       *)
ClaimBlindly(t) ==
  /\ Goto(t, "cas", "claimed")
  /\ task_claim' = cur[t] + 1
  /\ UNCHANGED <<task_limit, ring, pending, work_ready, gate, flags, cur, old, locals, history>>

ClaimCas(t) ==
  /\ Goto(t, "cas", "claimed")
  /\ task_claim = cur[t]
  /\ task_claim' = task_claim + 1
  /\ UNCHANGED <<task_limit, ring, pending, work_ready, gate, flags, cur, old, locals, history>>

(* Fault: the exchange is tried again with the cursor read before.            *)
ClaimRetryStale(t) == pc[t] = "cas" /\ UNCHANGED vars

(* compare_exchange_weak fails: because the cursor moved, or spuriously.      *)
ClaimRetry(t) ==
  /\ Goto(t, "cas", "limit")
  /\ cur' = [cur EXCEPT ![t] = task_claim]
  /\ UNCHANGED <<cursors, ring, pending, work_ready, gate, flags, old, locals, history>>

SkipCancelled(t) ==
  /\ cancelled
  /\ Goto(t, "claimed", "finish")
  /\ skipped' = skipped \cup {cur[t]}
  /\ UNCHANGED <<cursors, ring, pending, work_ready, gate, flags, cur, old, locals, ran, repeated>>

(* The slot is read and t->fn entered: the ticket that ran is what it holds.  *)
RunTask(t) ==
  /\ ~cancelled
  /\ Goto(t, "claimed", "run")
  /\ ran' = ran \cup {tasks[Slot(cur[t])]}
  /\ repeated' = (repeated \/ tasks[Slot(cur[t])] \in ran)
  /\ UNCHANGED <<cursors, ring, pending, work_ready, gate, flags, cur, old, locals, skipped>>

ReturnTask(t) ==
  /\ Goto(t, "run", "finish")
  /\ UNCHANGED <<cursors, ring, pending, work_ready, gate, flags, cur, old, locals, history>>

FinishTask(t) ==
  /\ Goto(t, "finish", "load")
  /\ pending' = pending - 1
  /\ cur' = [cur EXCEPT ![t] = 0]
  /\ UNCHANGED <<cursors, ring, work_ready, gate, flags, old, locals, history>>

-------------------------------------------------------------------------------
(* worker_loop                                                                *)

SemWait(w) ==
  /\ Goto(w, "wait", "woken")
  /\ work_ready > 0
  /\ work_ready' = work_ready - 1
  /\ UNCHANGED <<cursors, ring, pending, gate, flags, cur, old, locals, history>>

CheckShutdown(w) ==
  /\ Goto(w, "woken", IF shutdown THEN "exited" ELSE "enter")
  /\ UNCHANGED <<cursors, ring, pending, work_ready, gate, flags, cur, old, locals, history>>

Enter(w) ==
  /\ Goto(w, "enter", "gate")
  /\ old' = [old EXCEPT ![w] = n_running]
  /\ n_running' = n_running + 1
  /\ UNCHANGED <<cursors, ring, pending, work_ready, n_active, peak, flags, cur, locals, history>>

(* Fault: the gate is off by one.                                             *)
GateOffByOne(w) ==
  /\ Goto(w, "gate", IF old[w] > n_active THEN "reject" ELSE "load")
  /\ old' = [old EXCEPT ![w] = 0]
  /\ UNCHANGED <<cursors, ring, pending, work_ready, gate, flags, cur, locals, history>>

(* A surplus wake-up is turned away when the cap is already reached.          *)
Gate(w) ==
  /\ Goto(w, "gate", IF old[w] >= n_active THEN "reject" ELSE "load")
  /\ old' = [old EXCEPT ![w] = 0]
  /\ UNCHANGED <<cursors, ring, pending, work_ready, gate, flags, cur, locals, history>>

Leave(w) ==
  /\ pc[w] \in {"reject", "leave"}
  /\ pc' = [pc EXCEPT ![w] = "wait"]
  /\ n_running' = n_running - 1
  /\ n_active' = n_active
  /\ NotePeak
  /\ UNCHANGED <<cursors, ring, pending, work_ready, flags, cur, old, locals, history>>
-------------------------------------------------------------------------------
(* ray_pool_create's spawn loop.  A worker may run as soon as it exists.       *)

Spawn(w) ==
  /\ pc[Main] = "spawn"
  /\ Goto(w, "unborn", "wait")
  /\ UNCHANGED <<cursors, ring, pending, work_ready, gate, flags, cur, old, locals, history>>

SpawnDone ==
  /\ Goto(Main, "spawn", "idle")
  /\ Spawned = Worker
  /\ UNCHANGED <<cursors, ring, pending, work_ready, gate, flags, cur, old, locals, history>>

(* A context or a thread cannot be had: the threads started so far are told   *)
(* to stop and joined.                                                        *)
SpawnFail ==
  /\ Goto(Main, "spawn", "wake")
  /\ Spawned # Worker
  /\ shutdown' = TRUE
  /\ i' = 0
  /\ UNCHANGED <<cursors, ring, pending, work_ready, gate, cancelled, parallel,
                 rc_sync, cur, old, base, n_tasks, history>>

-------------------------------------------------------------------------------
(* ray_pool_dispatch / ray_pool_dispatch_n, in the order of their stores.     *)

(* The capacity after doubling while the tasks do not fit and the ceiling is  *)
(* not reached; a realloc that fails leaves the ring as it is.                *)
Doubled(n) ==
  {c \in task_cap..MaxRingCap :
     /\ \E e \in 1..MaxRingCap : c = task_cap * 2^e
     /\ n <= c \/ c = MaxRingCap
     /\ n > c \div 2}

MinOf(a, b) == IF a <= b THEN a ELSE b

(* Ring growth, the clamp of n_tasks to it, and the window's base.            *)
DispatchBegin(n) ==
  /\ Goto(Main, "idle", "fill")
  /\ task_limit + n <= MaxTicket
  /\ \E c \in {task_cap} \cup Doubled(n) :
       /\ task_cap' = c
       /\ n_tasks' = MinOf(n, c)
  /\ base' = task_limit
  /\ i' = 0
  /\ UNCHANGED <<cursors, tasks, pending, work_ready, gate, flags, cur, old, history>>

(* One iteration of the fill loop, or its end.                                *)
FillSlot ==
  /\ pc[Main] = "fill" /\ i < n_tasks
  /\ tasks' = [tasks EXCEPT ![Slot(base + i)] = base + i]
  /\ i' = i + 1
  /\ UNCHANGED <<cursors, task_cap, pending, work_ready, gate, flags, pc, cur, old,
                 base, n_tasks, history>>

FillDone ==
  /\ Goto(Main, "fill", "arm") /\ i = n_tasks
  /\ UNCHANGED <<cursors, ring, pending, work_ready, gate, flags, cur, old, locals, history>>

StorePending ==
  /\ Goto(Main, "arm", "publish")
  /\ pending' = n_tasks
  /\ UNCHANGED <<cursors, ring, work_ready, gate, flags, cur, old, locals, history>>

(* The store-release on task_limit opens the window.                          *)
Publish ==
  /\ Goto(Main, "publish", "flag")
  /\ task_limit' = base + n_tasks
  /\ UNCHANGED <<task_claim, ring, pending, work_ready, gate, flags, cur, old, locals, history>>

(* Fault: the parallel region is entered without raising the flag.            *)
SetParallelNot ==
  /\ Goto(Main, "flag", "sync")
  /\ UNCHANGED <<cursors, ring, pending, work_ready, gate, flags, cur, old, locals, history>>

SetParallel ==
  /\ Goto(Main, "flag", "sync")
  /\ parallel' = TRUE
  /\ UNCHANGED <<cursors, ring, pending, work_ready, gate, shutdown, cancelled, rc_sync,
                 cur, old, locals, history>>

SetRcSync ==
  /\ Goto(Main, "sync", "signal")
  /\ rc_sync' = TRUE
  /\ i' = 0
  /\ UNCHANGED <<cursors, ring, pending, work_ready, gate, shutdown, cancelled, parallel,
                 cur, old, base, n_tasks, history>>

(* One wake-up per admissible worker; only this thread changes n_active.      *)
Signal ==
  /\ pc[Main] = "signal" /\ i < n_active
  /\ work_ready' = work_ready + 1
  /\ i' = i + 1
  /\ UNCHANGED <<cursors, ring, pending, gate, flags, pc, cur, old, base, n_tasks, history>>

SignalDone ==
  /\ Goto(Main, "signal", "load") /\ i = n_active
  /\ UNCHANGED <<cursors, ring, pending, work_ready, gate, flags, cur, old, locals, history>>

(* Fault: dispatch returns as soon as the window is exhausted.                *)
SpinNot ==
  /\ Goto(Main, "spin", "unflag")
  /\ UNCHANGED <<cursors, ring, pending, work_ready, gate, flags, cur, old, locals, history>>

(* The barrier: spin until pending is 0.                                      *)
SpinDone ==
  /\ Goto(Main, "spin", "unflag")
  /\ pending = 0
  /\ UNCHANGED <<cursors, ring, pending, work_ready, gate, flags, cur, old, locals, history>>

ClearParallel ==
  /\ Goto(Main, "unflag", "unsync")
  /\ parallel' = FALSE
  /\ UNCHANGED <<cursors, ring, pending, work_ready, gate, shutdown, cancelled, rc_sync,
                 cur, old, locals, history>>

ClearRcSync ==
  /\ Goto(Main, "unsync", "idle")
  /\ rc_sync' = FALSE
  /\ UNCHANGED <<cursors, ring, pending, work_ready, gate, shutdown, cancelled, parallel,
                 cur, old, locals, history>>

-------------------------------------------------------------------------------
(* What else the main thread does with the pool between dispatches.           *)

(* ray_execute: a query starts, any cancellation of an earlier one is dropped.*)
QueryStart ==
  /\ pc[Main] = "idle"
  /\ cancelled' = FALSE
  /\ UNCHANGED <<cursors, ring, pending, work_ready, gate, shutdown, parallel, rc_sync,
                 pc, cur, old, locals, history>>

(* q `\s v` after launch: at most n_workers, and not 0 while workers exist.    *)
SetActive(v) ==
  /\ pc[Main] = "idle"
  /\ v \in 1..NWorkers
  /\ n_active' = v
  /\ n_running' = n_running
  /\ NotePeak
  /\ UNCHANGED <<cursors, ring, pending, work_ready, flags, pc, cur, old, locals, history>>

(* ray_cancel, from any thread at any time the pool is ready.                 *)
Cancel ==
  /\ pc[Main] \notin {"spawn", "wake", "join", "freed"}
  /\ cancelled' = TRUE
  /\ UNCHANGED <<cursors, ring, pending, work_ready, gate, shutdown, parallel, rc_sync,
                 pc, cur, old, locals, history>>

(* ray_pool_free: stop flag, one signal per worker, join.                     *)
FreeBegin ==
  /\ Goto(Main, "idle", "wake")
  /\ shutdown' = TRUE
  /\ i' = 0
  /\ UNCHANGED <<cursors, ring, pending, work_ready, gate, cancelled, parallel, rc_sync,
                 cur, old, base, n_tasks, history>>

FreeSignal ==
  /\ pc[Main] = "wake" /\ i < Cardinality(Spawned)
  /\ work_ready' = work_ready + 1
  /\ i' = i + 1
  /\ UNCHANGED <<cursors, ring, pending, gate, flags, pc, cur, old, base, n_tasks, history>>

FreeSignalDone ==
  /\ Goto(Main, "wake", "join") /\ i = Cardinality(Spawned)
  /\ UNCHANGED <<cursors, ring, pending, work_ready, gate, flags, cur, old, locals, history>>

(* Every join has returned; the struct is cleared.                            *)
JoinDone ==
  /\ Goto(Main, "join", "freed")
  /\ \A w \in Spawned : pc[w] = "exited"
  /\ UNCHANGED <<cursors, ring, pending, work_ready, gate, flags, cur, old, locals, history>>

(* The next ray_pool_create starts from a zeroed struct.                      *)
Recreate ==
  /\ pc[Main] = "freed"
  /\ task_claim' = 0 /\ task_limit' = 0
  /\ task_cap' = InitCap /\ tasks' = [s \in 0..(MaxRingCap - 1) |-> -1]
  /\ pending' = 0 /\ work_ready' = 0
  /\ n_active' = NWorkers /\ n_running' = 0 /\ peak' = NWorkers
  /\ shutdown' = FALSE /\ cancelled' = FALSE
  /\ pc' = [t \in Thread |-> IF t = Main THEN "spawn" ELSE "unborn"]
  /\ cur' = [t \in Thread |-> 0] /\ old' = [w \in Worker |-> 0]
  /\ base' = 0 /\ n_tasks' = 0 /\ i' = 0
  /\ ran' = {} /\ skipped' = {} /\ repeated' = FALSE
  /\ UNCHANGED <<parallel, rc_sync>>

-------------------------------------------------------------------------------
TaskLoop(t) ==
  \/ LoadClaim(t) \/ LoadLimit(t) \/ ClaimCas(t) \/ ClaimRetry(t)
  \/ SkipCancelled(t) \/ RunTask(t) \/ ReturnTask(t) \/ FinishTask(t)

WorkerStep(w) ==
  \/ SemWait(w) \/ CheckShutdown(w) \/ Enter(w) \/ Gate(w) \/ Leave(w)
  \/ TaskLoop(w)

(* The steps the main thread takes once it is inside create, dispatch or free.*)
MainStep ==
  \/ (\E w \in Worker : Spawn(w)) \/ SpawnDone
  \/ FillSlot \/ FillDone \/ StorePending \/ Publish \/ SetParallel \/ SetRcSync
  \/ Signal \/ SignalDone \/ TaskLoop(Main) \/ SpinDone
  \/ ClearParallel \/ ClearRcSync
  \/ FreeSignal \/ FreeSignalDone \/ JoinDone

(* What the program around the pool may ask for.                              *)
Request ==
  \/ SpawnFail \/ QueryStart \/ Cancel \/ FreeBegin \/ Recreate
  \/ \E n \in 1..MaxTasks : DispatchBegin(n)
  \/ \E v \in 1..NWorkers : SetActive(v)

Next == MainStep \/ Request \/ \E w \in Worker : WorkerStep(w)

(* The OS schedules every runnable thread; a weak CAS that keeps finding its  *)
(* expected value does not fail spuriously forever.                           *)
Fairness ==
  /\ WF_vars(MainStep) /\ SF_vars(ClaimCas(Main))
  /\ \A w \in Worker : WF_vars(WorkerStep(w)) /\ SF_vars(ClaimCas(w))

Spec     == Init /\ [][Next]_vars
FairSpec == Spec /\ Fairness
-------------------------------------------------------------------------------
(* Properties                                                                 *)

(* Threads between a successful claim and the decrement of pending.           *)
Holding  == {t \in Thread : pc[t] \in TicketPc}
(* Workers the gate let in and that have not left their claim loop.           *)
Admitted == {w \in Worker : pc[w] \in ClaimPc \cup TicketPc \cup {"leave"}}
(* The main thread is in the part of dispatch in which a window is open.      *)
WindowPc == ClaimPc \cup TicketPc \cup {"flag", "sync", "signal", "spin"}

(* pending counts exactly the tasks of the window nobody has completed:       *)
(* unclaimed ones and those a thread holds, cancelled or not (dispatch spins  *)
(* on it, so one too many hangs the query and one too few releases it early). *)
PendingExact ==
  pending = Cardinality(Holding) + (task_limit - task_claim)
            + (IF pc[Main] = "publish" THEN n_tasks ELSE 0)

(* The barrier of ray_pool_dispatch: outside an open window no thread holds a *)
(* ticket and none is left to claim, so the main thread may refill the ring,  *)
(* grow it, collect worker heaps or free the pool, even though late workers   *)
(* are still in their claim loop.                                             *)
Barrier ==
  pc[Main] \notin WindowPc => Holding = {} /\ task_claim = task_limit

(* Every published task is executed exactly once or skipped by a cancellation,*)
(* and all of them are accounted for when dispatch returns.                   *)
ExactlyOnce ==
  /\ ~repeated
  /\ ran \cap skipped = {}
  /\ pc[Main] \notin WindowPc => ran \cup skipped = 0..(task_limit - 1)

(* A claimed ticket finds its own task in the ring: neither a late claim, nor *)
(* a growth of the ring, nor the reuse of a slot shows it another one.        *)
SlotIntact == \A t \in Thread : pc[t] = "claimed" => tasks[Slot(cur[t])] = cur[t]

(* The accounts of pool_claim and the task loop as one: the counters do not   *)
(* wrap, pending is what is unclaimed or held, a claimed ticket finds its own *)
(* task in the ring, and every ticket is run once or skipped once.            *)
TicketsExact == TypeOK /\ PendingExact /\ SlotIntact /\ ExactlyOnce

(* While a worker executes a task the parallel flag and the main thread's     *)
(* atomic refcounts are on, or the main thread is still between opening the   *)
(* window and switching them on, where it touches neither heaps nor counts.   *)
RegionCovers ==
  (\E w \in Worker : pc[w] = "run") =>
    /\ parallel \/ pc[Main] = "flag"
    /\ rc_sync \/ pc[Main] \in {"flag", "sync"}

(* Surplus semaphore tokens never admit more workers than the largest `\s`    *)
(* in force since the pool was last without admitted workers.                 *)
CapRespected == Cardinality(Admitted) <= peak

(* ray_pool_dispatch returns, whatever is cancelled and whoever is late.      *)
DispatchReturns == pc[Main] = "fill" ~> pc[Main] = "idle"

(* ray_pool_free (and a failed create) joins every worker it started.         *)
FreeReturns == pc[Main] = "wake" ~> pc[Main] = "freed"

(* The main thread is never left spinning or joining.                         *)
PoolReturns == DispatchReturns /\ FreeReturns
===============================================================================
