# peachq in TLA+

peachq is an implementation of the q language in C on *rayforce*, a columnar
engine with a work-sharing thread pool, per-thread buddy heaps, an event loop
and IPC. This directory models the parts of it in which the order of steps
matters, checks them with TLC on small instances, and proves the most important
safety properties with TLAPS for all instances.

Paths below are relative to the repository's `src/` directory (`core/pool.c` is
`src/src/core/pool.c` in `PROJECT.json`). Line numbers are those of the
commit modelled. `PROJECT.json` maps every definition to the lines it stands
for, lists the runs, the mutants that show that each property can fail, the
findings, the hazards and the theorems.

Contents: [inventory](#1-inventory), [plan](#2-plan), [modules](#3-modules-and-code),
[runs](#4-runs), [bounds](#5-bounds), [fairness](#6-fairness), [proofs](#7-proofs),
[findings](#8-findings), [limits](#9-what-is-not-modelled).

## 1. Inventory

### Concurrency and memory (engine)

| component | state | operations | hard because |
|---|---|---|---|
| **thread pool** `core/pool.c` | task ring and its capacity, the cursors `task_claim` and `task_limit`, `pending`, semaphore, `n_active` / `n_running`, `shutdown`, `cancelled`; the global flags `ray_parallel_flag` and `ray_rc_sync` | create, dispatch, dispatch_n, worker loop, cancel, `\s`, free; `ray_pool_get / init / destroy` of the singleton | every access is an atomic of its own; workers of the last window are still claiming when the next one is filled; surplus semaphore tokens survive; create and realloc fail |
| **heap allocator** `mem/heap.c`, `mem/cow.c` | per thread: pools, freelists with the `avail` mask, slabs, foreign list, byte counts; per block: count and order | alloc (slab, split, new pool), release and free (slab, coalesce, foreign), gc in four passes, heap init and destroy | blocks are freed by threads that do not own them; a block's count is read by its buddy's owner without a lock; gc unmaps pools |
| **reference counts, copy on write** `mem/cow.*` | counts, plain or atomic by `ray_rc_sync` | retain, release, cow | the switch between plain and atomic counts at the borders of a dispatch |
| **symbol table** `table/sym.c`, arena `mem/arena.c` | hash table, string array, path segments, arena chunk; one lock | intern, ensure_cap, find, borrow the array | a dotted name is several symbols and must appear whole or not at all when memory runs out; growth under readers without the lock |
| **group-by** `ops/group.c`, `ops/agg_engine.c`, `ops/pivot.c` | per query: strategy, tables per worker and per partition, flags shared by the workers | dense, direct-array, hash and radix strategies, merge, emit | a strategy is guessed and abandoned half way; workers run out of memory one by one; the answer must not depend on any of it |
| **sorting** `ops/sort.c`, `qlang/ops/q_sort.c` | per call: keys, scratch arrays, thresholds | insertion, intro-, three radix sorts, parallel merge sort, top-k, grade of tables | one result from six algorithms, chosen by size, key width and available memory; order by encoded bits |
| **joins** `ops/join.c`, `qlang/ops/q_join.c` | per call: partitions, a table per partition or one shared by the workers, the pairs of rows | inner, left, full, anti and asof join; lj, ij, pj, ej, uj, aj | two hash joins of which one takes over from the other in the middle; workers race into a shared table; a merge that carries its state over partitions |
| **other operators** `ops/`, `vec/`, `table/` | none of their own | window, string, ... | only through the pool and the heap |

### Event loop and processes

| component | state | operations | hard because |
|---|---|---|---|
| **timers** `core/timer.c`, `\t` in `qlang/ops/q_sys.c` | binary heap of timers, capacity, next id; `g_timer_id`, `g_timer_ms` | add, delete, fire_expired, destroy; `\t N`, `\t 0` | callbacks add, delete and change `\t` while their own timer is out of the heap; slow callbacks; a re-push without capacity check |
| **event loop** `core/epoll.c`, `kqueue.c`, `iocp*.c` | selector slots, one per descriptor, with read and close functions | register, deregister, run | events of one batch address slots by number; callbacks free and reuse slots |
| **IPC** `core/ipc.c`, `sock.c` | per connection: phase, read state, a waiting synchronous call, sequence numbers, a deferred reply | handshake, frames, sync and async sends, nested dispatch, `-30!`, hooks, close | nested evaluation while a call waits; handles reused; no time limits |
| **handles, workers** `qlang/io/q_handles.c`, `q_conn.c`, `q_worker.c` | records by descriptor, owned processes | open, close, own, reap, fork, spawn | descriptor reuse, process exit against the link handshake |
| **log, file formats** `q_log.c`, `q_wirefile.c`, `q_splay.c` | files | append, replay, replace by rename | a writer that stops in the middle of a record |
| **HTTP, WebSocket, TLS, Kafka** `qlang/net/`, `q_kafka.c` | per connection parsers | upgrade, frames, negotiation | partial input, deadlines |

### Language

| component | state | operations | hard because |
|---|---|---|---|
| **views** `qlang/eval/q_view.c` | per view: expression, cache, PENDING, INRECALC; the roster; `g_in_zvs` | define, read, invalidate on set/unbind, `.z.vs`, reset | recalculation runs user code that reads, sets and redefines other views and may fail half way |
| **global environment** `qlang/q_env.c` | bindings, namespaces, frames | set, unbind, member set, take/settle (park) | a parked name is visible to user code |
| **evaluator, parser, built-ins, console** | stacks of frames | evaluate | sequential |

How they interact. The main thread is the only one that evaluates q, runs the
event loop and dispatches. A kernel calls `ray_pool_dispatch`; from the moment the
window is published until the barrier, workers allocate and free in their own
heaps and count references atomically. Between dispatches the main thread may
collect every heap. `ray_poll_run` calls connections' read functions and then
`ray_timers_fire_expired`; both run q code, which may re-enter all of the above.
A set of a global runs the invalidation of views and then `.z.vs`, which is q code
again.

What makes each part correct: *pool*: every element processed once, nothing touched
after the barrier, every dispatch and shutdown returns. *Heap*: memory handed out
is nobody else's, nothing in use is unmapped, nothing is lost. *Timers*: never
early, in order, none lost, none starved. *Views*: a read gives what the expression
is worth now. *IPC*: every request gets its own response, and a connection's end is
reported once. *Loop*: a callback is called for its own connection only. *Handles*: a
number never stands for what held it before; every worker is reaped. *Log*: replay sees
whole records, once and in order, and what was acknowledged. *Group-by, sort, join*: the result
is that of the definition, whichever path computed it. *Symbols*: one id a name.

## 2. Plan

| step | modules | status |
|---|---|---|
| 1 | `Pool`, `PoolPartition`, `PoolSingleton` and their proofs | done |
| 2 | `TimerHeap`, `Timers` implementing `TimerQueue` | done |
| 3 | `Views` over the root of the environment | done |
| 4 | `Heap` implementing `Allocator` | done, merge/pending queue left out |
| 5 | `Ipc`: selector slots and batches of the event loop; handshake, frames, nested synchronous calls, deferred replies, hooks, close | done |
| 6 | `Handles`: descriptors, aliases, workers | done |
| 7 | `Log`: append, crash, recovery, replay | done |
| 8 | `Group`: strategies and their fall-backs on the pool's workers | done |
| 9 | `Sort`, `Join`, `QJoin`, `Sym`: algorithms against definitions, driven by `MCKernels` | done |
| 10 | `RefCount`: copy on write at the borders of a dispatch; composed with `Pool` | left |
| 11 | environment frames, WebSocket frames, window joins and upsert | left |

Abstract specifications: the allocator and the timer queue are stated and refined; a
request/response channel for `Ipc` and an append-only sequence for `Log` would say what
`NobodyForgotten`, `NoStrayReply` and `ReplayExact` say now piece by piece. Theorems beyond
section 7: `OneIdEach` of `Sym`, once the re-insertion into a grown table is stated without a fold, and `RowsExact` of `Group`.

## 3. Modules and code

**Pool** (`core/pool.c` but its partition; `\s` in `q_sys.c`; the reset of `cancelled` in
`ops/exec.c`). One action per atomic access, so a thread can be delayed between any
two. `pc[t]` is the place in `worker_loop` or `ray_pool_dispatch`, `cur[t]` the claim
cursor it read and then the ticket it holds. A task is abstracted to the ticket it was
written for: `tasks[s] = k`. `pool_claim` and the run loop are the same definitions
for workers and main thread (`TaskLoop`). The weak compare-exchange may fail
spuriously. `Doubled` is the ring's growth, which may fail, `SpawnFail` a creation that
may fail half way, `Recreate` the next pool in the cleared struct. Memory is
sequentially consistent: the acquire/release pairs on `task_limit`, `pending` and
`shutdown` order what the steps rely on; effects of weaker orders are outside.

**PoolPartition** (`ray_pool_dispatch` and `ray_pool_dispatch_n` up to the fill loop). Sequential:
count of tasks with its width, growth or clamp with the re-derived grain, one fill
iteration per step.

**PoolSingleton** (`pool.c:449-536`). The state word and the three functions that move it.

**TimerHeap**, **Timers** (`core/timer.c`, `.time.timer.set/del` in `ops/system.c`, `\t` in `q_sys.c`,
the loop's call in `epoll.c`). `TimerHeap` holds the array algorithms as operators with the
code's indices. The loops of `heap_up` and `heap_down` are stated by the path they take: the least set of places that holds the first one and is
closed under the loop's step, along which the entries move by one; `MCKernels` has the loops as the code writes them, and `PathsAreLoops`, a
part of `HeapExact`, says that both give the same array. In `Timers` a callback lasts from `Pop` to `ReturnFire`, and between them
the user's actions are enabled. Deadlines are relative to the present, so time is
unbounded while the state space is finite; `fnow` is the `now` that `fire_expired` has read
and that ages with it. User code may delete any number, that of `\t`'s timer too; the history variable `severed` says that it has.

**TimerQueue**: the queue `timer.h` promises, as a set.

**Views** (`q_view.c`, with `q_env_set`, unbind, member set and park of `q_env.c`, name reads and
assignments of `q_eval.c`, the amend by name of `q_eval_apply.c`). An expression is the
sequence of its reads and writes; what it computes from the reads is the parameter
`Value`. A read or write stands in the expression itself or in a lambda inside it (`where`): `deps_scan` does not look
into lambdas, so `Deps` counts the first kind only, while the properties speak of all that an expression `Uses`. Evaluations nest on
`stack`: recalculations, `.z.vs`, and amends with their parked
binding. An error is a flag that `Unwind` takes through the frames. `quiet` is a history variable: the names whose last change no view was
told of (a set of a dictionary's
member, and an amend whose new value found no memory on its way into the environment, `AmendLost`). `live` says
that the carrier a frame recalculates is still the one bound. `Marked` is the
closure that `mark_dependents` computes.

**Heap** (`mem/heap.c`, `mem/cow.c`). Addresses count min-blocks. In a dispatch a thread touches
only its own lists, so a call is one step, but for the moment between
`ray_release`'s decrement and the guard of `ray_free` (`dropped`), when another thread can
read count 0. `torn` records that a block was unlinked which was on no list: the code
then writes through a value's bytes, and the model stops there. `phase` is the part of
`Pool` the heaps depend on (`Pool.RegionCovers` says which steps of the workers fall
where), `gc` the pass the collection is in.

**Allocator**: what callers of `ray_alloc` and `ray_free` are promised.

**Ipc** (`core/epoll.c`, `core/ipc.c`). One process, one thread, which re-enters its connections.
The C stack is part of the state (`stack`): the loop's batch, `ipc_read_payload` with its evaluation,
`sync_send` with its pump, `.z.pc`, each as an activation that keeps the slot and the record address it
will use again after user code returns. User code is any sequence of sends, closes, opens, deferred
and late replies. A connection is known to the code by its slot and the address of its record;
both may be given out again. The history variable `misled` says whether that has led the process astray: `"address"` once a
newcomer has been taken for a closed connection, `"deferral"` once an answered deferral has been displaced by another one
while its own frame was still running. `slip`, of a connection, says that a call on it gave up waiting (`WaitFails`,
`ipc.c:2292-2295`) while its answer was still to come. Bytes are whole frames; writes do not fail.

**Handles** (`q_handles.c`, `q_provider.c`, `q_worker.c`, `q_conn.c` and what they use of `ipc.c`). The kernel's
descriptor table and the registry that is keyed by its numbers. Objects behind the numbers are
counted, so "the same number, another object" can be told. Aliases keep a descriptor and an open
stamp; workers die at any time; `.z.pc` and the drain before a use run user code. The drain reads whatever connection
holds the token's number, the alias's own or another's, and only then compares stamps (`StampAgrees`); that it is skipped while a call waits on that connection
is left out.

**Log** (`q_log.c`, `wf_append_path` and `wf_put` of `q_wirefile.c`, `q_io.c`). A writer process that stops between
any two bytes, has a write fail or the last flush of a whole image fail unseen (`FlushLost`, `RollRename`), an operator who counts, cuts
and restarts, and a reader whose
window moves over the same file. `wf_append_path` writes the records and then the count, but where there is no file, or an empty one, it writes an image
whose header counts records that follow (`AppendAbsent`); `wf_put` writes a new file in place and replaces an old one by rename. `log_scan` and `log_fill`
are steps, so the file changes between reads; a chunk that does not decode for want of memory is taken for a short one (`DecodeFails`).
Two history variables record what the code loses: `lost`, that acknowledged records are gone and nobody was told, `over`, that the header counts records that are not
there. Behind a torn record the writer of the model appends nothing (the guard `~Torn` of `AppendList` is a bound: the code does not look).
A byte of a file names its record, its place in it and the record's size; where records end (`Ends`) and how many end up to a place
(`RecNo`) are defined by sets of places, so that they can be reasoned about without induction.

**Group** (`exec_group_run` and its strategies, `agg_engine.c`, `pivot_ingest_run`). `pc` is the strategy that runs; a
strategy's set-up, each chunk of a worker's task and the merge are steps; any allocation may
fail (`MaxFail`), and a strategy that fails or overflows hands over to the next, from the first row. `lossy` records that the second pass over fat entries
dropped groups, which its caller does not look for.
A hash table is a function from keys to accumulators, so the probing is abstracted; the
partition of a key is any function of it (`PartFns`).

**Sort** (`ops/sort.c`, `q_sort.c`). Operators only. Keys are encoded in words of `W` bits and sorted
by digits of `D`; the thresholds are fields of a record, so few rows take every path. Parallel
phases are the composition of their tasks: each task writes its own range.

**Join** (`exec_join`, `exec_antijoin` of `ops/join.c`). Operators from the keys of two tables to pairs of row
numbers. The radix join partitions both sides by the high bits of the hash and probes a table for each
partition; string keys and more rows than 32 bits number are refused (`Admit`, `TooLong`); when memory fails, or a key has too many rows,
it gives up and the chained table starts from
nothing. That one is filled by workers with compare-and-swap: a chain is the reverse of the order in which
they won, which is a field of the job, as are the allocations that fail and the first of the five checks that sees an
interrupt.

**QJoin** (`exec_window_join`, `qlang/ops/q_join.c`). The asof join as the code has it: both sides sorted, or taken
as they are when an attribute says so, and a walk that carries the best match along and rewinds at a new
partition. q's joins sort the engine's pairs and gather by them; a row is a record with the key, a column both
tables have and a column of its own. A single function merges such columns for `lj`, `ljf` and `pj`.

`RowSeq` holds the sequences of row numbers that both use.

**Sym** (`table/sym.c`, `mem/arena.c`). A lock is held through every call, so a call is a step; the
bucket array with its linear probing, the growth of both arrays and the space left in the arena
chunk are kept, and each kind of allocation may fail, those of the commit phase independently of
those of the reservation. A name is the sequence of the texts between its dots.

Proofs are in modules of their own, which extend the module they are about: `PoolProofs`, `PoolPartsProofs` (of `PoolSingleton` and
`PoolPartition`, whose names differ so that one module can extend both), `TimersProofs`, `ViewsProofs`, `HeapProofs`,
`HandlesProofs`, `IpcProofs` and `LogProofs`.

MC modules only give values: `MCPool` two workers, `MCViews` the
expressions and hooks, `MCHeap` the address space, `MCGroup` the tables, `MCIpc` a view that leaves out what
the network still holds for a closed connection. `MCKernels` drives what is a function of its
input: the operators of `TimerHeap` through every sequence of insertions and removals, `PoolPartition` through
every total, `Sort` through every small column, `Join` and `QJoin` through small tables, and `Sym`. `part` chooses one of them in the first state.

A definition whose name is that of another one with a suffix, under a comment that begins with "Fault", is the
form a plausible bug would give it: the mutants of `PROJECT.json` put it in the place of the original.

## 4. Runs

| run | result | what it shows |
|---|---|---|
| `pool_live` | holds, 212 175 states | no task lost, repeated or read from another's slot (`TicketsExact`), nobody holds a task outside the window (`Barrier`, `RegionCovers`), surplus tokens do not pass the cap (`CapRespected`), every dispatch and every free returns (`PoolReturns`) |
| `singleton` | holds, 17 180 | one owner at a time and ready means whole (`WordExact`), nobody gets a pool that never was ready (`GetMeansReady`), spinners return (`CallsReturn`) |
| `timers` | holds, 79 889 | the head is the earliest, the array is at most one entry over, what `\t` would delete is its own timer, there unless user code deleted it by its number (`HeapSound`), the heap implements `TimerQueue` (`ImplementsQueue`), every due timer fires unless an endless one of 0 ms exists (`DueFires`) |
| `views` | holds, 509 103 | the pending set is closed (`MarksClosed`), valid views that the marking reaches are fresh (`Fresh`) |
| `heap` | holds, 397 921 | blocks at home, exact masks and byte counts, complete coalescing (`ListsExact`), tiling (`Tiled`), no dangling block (`NoDangling`), refinement of `Allocator` (`ImplementsAllocator`) |
| `ipc` | holds, 2 543 901 | a blocked peer is never forgotten unless a newcomer was taken for a closed connection (`NobodyForgotten`), it gets one answer at most and nobody else does, but for the two causes `misled` names (`NoStrayReply`), a call takes its own answer unless one before it on the connection gave up waiting, and a handle is busy only while a call waits (`WaitsExact`), a connection is closed once (`ClosedOnce`) |
| `ipc_defer` | violated | `RepliesOnce` fails when a nested request displaces an answered deferral |
| `handles` | holds, 398 026 | the kind of a number is that of its present holder and nothing leaks (`RecordsExact`), workers are owned by their own link and none survives (`WorkersExact`), an alias talks to its own peer (`OwnPeer`), nobody closes another's connection (`NoForeignClose`), zombies are reaped (`ZombieReaped`) |
| `log` | holds, 922 657 | replay evaluates whole records, once, in order, all of them (`ReplayExact`); with memory for every chunk the length `(-2;x)` names is a safe cut (`CutExact`); acknowledged records survive crash, cut and restart and the count promises none that is missing, but for the ways `lost` and `over` name (`Durable`); only a roll whose flush fails unseen loses a header (`HeaderStays`), a replay ends although the file grows, is cut or replaced (`ScanEnds`) |
| `group` | holds, 33 205 | every row is in exactly one place of a running strategy (`RowsExact`), a table that is returned is the answer, but for groups the second pass over fat entries lost, and an error has a cause (`Answers`), every query ends (`Terminates`) |
| `kernels` | holds, 645 432 | heap order, contents, and paths that are those of the loops (`HeapExact`), ranges that cover each element once (`RangesExact`), sorted rows on every path or an error for memory, but for the cases of section 8 that the property names (`SortExact`), top-k up to ties and grades of tables and lists (`GradeExact`), the pairs of a join whatever table finds them, q's joins independent of their order, the right row of an asof join, and failure only for a cause (`JoinExact`), one id a name but for repeated segments, and nothing half done (`SymExact`) |
| `sort_stable` | violated | `StableGrade` fails when the encoded keys never increase and some are equal |

Properties ending in `Exact`, `Sound`, `Closed` or `Durable` and `Answers` and `PoolReturns` are conjunctions of
named parts, defined just above them. The type invariant of a module is one of the parts.

Deadlock is checked but in `ipc` and `handles`, where the system stops when the bounded peers and users
have no operation left. In `Heap` only a torn state stutters (`Stopped`): the parts of `heap` that a torn
list would falsify (`Tiled`, `Coalesced`, `BytesExact`) are stated for states in which no list has been torn
(see section 8).

## 5. Bounds

* `pool_live`: two workers, ring of 1 slot that can double once (`InitCap`, `MaxRingCap`), requests
  of one or two tasks (`MaxTasks`), 2 tickets in the life of a pool (`MaxTicket`). The second window meets
  late workers of the first and reuses its slot; a request is clamped, or the ring grows, but only in the first dispatch of a pool, when nobody
  is late yet. Three tickets take longer than the five minutes a run is given, so growth while workers are late
  rests on the theorem `TicketsCorrect`, which holds for every value.
* `singleton`: three threads: an owner and two that wait for different reasons.
* `timers`: three timers in the life of a heap (`MaxId`), intervals of 0 and 2 ticks (`\t`: 1), endless or two fires, deadlines noticed up
  to 2 ticks late (`MaxLate`), an array of one slot so that growth and the slot past the end happen.
* `views`: four names, values below `Radix` 3, expressions of up to two effects, one of them with a read in a lambda, amends that read no view, four nested frames
  (`MaxFrames`; the evaluator's own limit is larger and has the same effect, an error).
* `heap`: a worker and the main thread; two standard pools of two min-blocks and an oversized
  one of eight (`Site`), orders 0 and 2 asked for (`Req`), two blocks in use (`MaxLive`), one block per
  slab, at most two blocks freed into foreign lists or lost with one (`MaxForeign`): splits over two orders,
  merges across them, cross-thread frees, reclaim of an oversized pool, a worker that comes and goes.
* `ipc`: two connections open and one to come (`MaxConn`), three operations of user code (`MaxOps`) and three
  of the peers and of waits that fail (`MaxPeer`): a call inside a request inside a call, a close and an open below them, a newcomer at the
  old address, a deferred reply that outlives its connection. The displaced deferral takes four operations: `ipc_defer` has them, with one
  connection. The theorems hold for every value.
* `handles`: three descriptor numbers, four objects, a plain alias and a worker alias, four operations: each
  number is used again, by another kind of object, while a record, a row or an owned process still names it.
* `log`: header of one byte, window of 2 growing to 4 (`LOG_MAX`), records of 1, 3 and 5 (smaller than, larger
  than the window, and larger than it may grow), two records, batches of two, one roll, two faults: a stop in the middle of a record, the cut, and a second failure after it. The theorems hold for every
  value for which `LOG_MAX` is a window that doubling reaches, as in the code (2^20 and 2^32).
* `group`: two workers, tables of five rows and of two (below the parallel threshold), two partitions, tasks of two
  rows in chunks of one, four dense slots, promotion after one key, two failed allocations, 8-valued sums:
  overflow of the guess on either worker, fall-back from every strategy to every later one.
* `kernels`: timer heaps of seven, a full third level, so a deletion's replacement can come from another branch.
  Partition with grain 2, ring 2 to 8, totals to 30, 5-bit task counter: exact multiples, remainders, totals beyond the
  ceiling, failed growth. Words of 6 bits with digits of 2, narrow keys of 2 bits, three tasks, columns
  of up to five rows, one, two or three keys; on the radix paths, and for tables in chunks, the index array, the keys or ranks, the second
  copies, the histograms or all
  scratch memory failing (top-k without failures). Joins: tables of up to three rows, one or two keys
  of which one may be null, hashes of 3 bits in which null and a value collide, two and four partitions, tables of two and
  four slots, each of the modelled allocations failing on the radix path, on the chained one and on one after the other, an interrupt at each check, orders of
  insertion other than that of the rows; asof joins of two and three rows with nulls, symbols of another domain, and every attribute a
  column may carry. Symbols: nine names with colliding hashes, buckets from 2 to 8
  (five symbols fill them), arena chunks of 4 units, so that every limit is met.
  Among the columns are those for which the code does something else than the definition (section 8): floats with NaN or both signs as one of
  several packed keys, zeros of either sign, the greatest integer beside nulls last, null orders other than the default for
  several keys; and among the names a path that repeats a segment. `SortExact` and `SymExact` name these cases (`OutOfOrder`, `TwoZeros`, `TwiceInPath`) and say what
  still holds of them.

## 6. Fairness

* `Pool`: weak fairness of each thread's steps (the OS runs runnable threads and
  semaphores wake waiters) and strong fairness of each compare-exchange that succeeds
  (a weak one does not fail spuriously for ever). Requests are never forced: nothing says
  that a dispatch starts, a query is cancelled or the pool is freed.
* `PoolSingleton`: weak fairness of each thread inside a call. `CallsReturn` is conditional
  on callers no longer starting new calls: with endless create and destroy a spinner may
  miss every settled state, which the code's spin allows.
* `Timers`: weak fairness of the loop (it runs, callbacks return) and of the clock.
  Users' actions are not forced.
* `Handles`: weak fairness of the loop (`Serve`): a hang-up that is there is read in the end, since the loop polls
  every connection. Users and workers are not forced.
* `Log`: weak fairness of the reader's steps: a process that reads a file is scheduled. The writer may stop for ever.
* `Group`: weak fairness of the query's threads together: some thread that can run does.
* `Ipc` states none: a synchronous call has no time limit in the code, so nothing must happen.

## 7. Proofs

`PoolProofs` proves for any finite set of workers, any ring capacities and any bounds that
`Spec` implies always

* `TypeOK` (`TypeCorrect`): among others, the unsigned `pending` and `n_running` never wrap;
* `PendingExact` (`PendingCorrect`), `Barrier` (`BarrierCorrect`), `SlotIntact` (`SlotCorrect`),
  `ExactlyOnce` (`ExactlyOnceCorrect`), `RegionCovers` (`RegionCorrect`); `TicketsCorrect` puts together the ones
  that `TicketsExact` consists of.

The only assumption is `PoolAssumption` of `Pool` (finitely many workers, `Main` not one of
them, capacities in order), which TLC evaluates in the runs. The code's power-of-two capacity
is not needed once a slot is `k % task_cap`.

None of these is inductive alone. `Inv` adds: the cursor never passes the limit and a
claimer's copy never passes the cursor (`CursorInv`); `n_running` counts the
workers between its increment and its decrement (`RunningExact`); the fill loop's progress and
that the window fits the ring (`FillInv`); unclaimed tickets of an open window lie in their
slots (`WindowInv`); every ticket below the cursor has run, was skipped, or is in exactly one
thread's hands (`TicketInv`); the main thread's place determines the flags (`FlagInv`). The
argument: a successful compare-exchange moves one ticket from the unclaimed part of
`pending` to the held part, so the count is kept; a return from the spin means `pending = 0` with the window
exhausted, so nobody holds a ticket, although late workers may stand anywhere in
`pool_claim`; they can succeed again only when the cursor they read lies below a new limit, and
by then the ring has been filled. `SlotsDiffer` (two tickets less than a ring apart have
different slots) carries the slot arguments, also across growth. There is one lemma per
conjunct and one step per action; cardinalities are moved by `FiniteSetTheorems`.

`CapRespected` (`CapCorrect`) takes a strengthening of its own (`CapInv`): a worker at the gate has read `n_running` already and
is admitted later, under whatever cap `\s` has set by then. So the invariant counts, for every cap from the peak upwards, those admitted together with those
such a cap would admit.

`PoolPartsProofs` proves `OwnedByOne` and `ReadyMeansBuilt` for any set of threads, with the type invariant in `WordCorrect`. The
strengthening (`WordInv`) is that the word tells which thing an owner is doing and that an
owner exists whenever it says so. `GetMeansReady` (`GetMeansReadyCorrect`) needs besides that every call in progress since the pool became
ready is marked as having seen it.

It also proves `RangesExact` (`PartitionExact`) from `PartitionAssumption`, for every grain, ring, width and total. The invariant (`Exact`): the
total is the one asked for (`Whole`), the k-th range filled is the k-th cut (`Filling`), and the counted tasks reach to the end of the data, after a
clamp as well, since the grain is derived again (`Reach`). That an element has one owner is then division with remainder by the grain. The proof
brought out what the widths have to satisfy: `Grain * 2^Width <= IntMax + 1`, or the total is cut before it is counted (2^45 and 2^63 in the build), totals
that the 32-bit counter can hold, and in `ray_pool_dispatch_n` an argument of the counter's width.

`TimersProofs` proves `HeapSound` (`TimersSound`) and the refinement of `TimerQueue` (`TimersImplement`) from `TimersAssumption`, for any intervals, counts, numbers
of timers and array sizes. First the array: `heap_up` mends an array whose only fault is an entry earlier than its parent (`ButUp`), `heap_down` one
whose only fault is an entry later than those below it (`ButDown`), if the parent of that entry is earlier than what is below it (`Bridged`); both
permute the entries. So `Push`, `HeapRemove` and `HeapPop` keep the heap and have the entries they should (`PushHeap`, `RemoveHeap`, `PopHeap`),
and the head is the earliest (`HeadLeast`). After a deletion the tail is sifted down and then up: `heap_down` leaves `ButUp`, which is why one of the two always does
nothing and both are needed. The induction along a path is replaced by least sets: the
set of places with the property to be shown is closed under the step, hence holds the path. The
invariant of the loop (`Sound`): ids are distinct, also between the array and the timer in flight (`InFlight`), without which a re-push could put the same id twice;
array and flight together are at most one over the capacity (`Room`; `OneOver` alone is not inductive, as the place of the timer in flight may be taken by an add); a
`.z.ts` timer runs for ever (`Dated`), so that the timer `\t` owns is lost only by `\t` or by a deletion of its number (`Owned`, with `severed`).

`ViewsProofs` proves for any names, values, expressions and hooks that types are kept (`TypeCorrect`) and that `MarksClosed` holds
(`MarksCorrect`). Hypotheses: `ValueTyped`, an expression that returns has a value among `Values` (`Value` is a
parameter of the model, so this is its type); and for `MarksClosed` `PureBodies`, that view expressions assign nothing. The second
is needed: the view `v::(w;a:1)` with `w` resting on `a` ends its recalculation not pending, while its assignment has marked `w`,
on which it rests, pending (`q_view.c:147` clears the bit of `v` at the end whatever happened since). Hooks, amends and plain sets
are not restricted. The invariant: a view in recalculation has a frame that will clear its INRECALC bit, and a live frame's expression is the one bound
(`FramesOK`); recalculations of pure views are on top of the stack, each at the read of the one above it, which it rests on, and the
views an expression has read so far are not pending unless it rests on itself (`RecalcOK`). That "rests on" is transitive and that
`Marked` is closed under it are the lemmas everything else uses (`Rests`, `Fed`).

`Fresh` (`FreshCorrect`) has a third hypothesis, `QuietAmends`: what an amend evaluates while its name is parked neither assigns nor runs a
view. Without it the failing
amend of section 8 is a counterexample. What a name is worth (`Worth`) is the cache of a view, the saved value of a parked name, and else its value. The invariant
(`WorthInv`): an amend is alone on the stack (`AmendsOK`); a view that is not pending has a cache (`CachedOK`); a view in recalculation is
pending and has one frame (`RunsOK`), which has
collected what the names it read are worth, unless it rests on itself (`AccsOK`); a view that is valid, reached by the marking from all it
rests on (`Reached`) and names no quietly changed name has
a cache computed from what its names are worth (`SureOK`). A change of a name's worth makes every listed view that rests on it pending, by the closure of
`Marked`; the end of a recalculation changes the worth of a view that was pending, so none of the valid ones rests on it (`PendingClosed`),
and nothing pure assigns meanwhile. The proof attempt without
the roster's part of `Reached` failed at the marking, and TLC gave the four views of section 8; `Rests` is the closure over all that expressions use, functions
in them included, which `Reached` makes the closure over what `deps_scan` finds.

`HeapProofs` proves `ListsExact`, `Tiled`, `NoDangling` and the refinement of `Allocator` (`HeapImplements`), for any threads, orders, slab
sizes and sites, from `HeapAssumption`. The invariant (`Sound`, `HeapInvCorrect`): pools do not meet and have one owner (`PoolsApart`);
every block is at a multiple of its size behind
the header of a pool, of its own heap's if it is free or cached, of another's if it is foreign (`AllSeated`); unless a list was torn, the places are apart, cover the
pools, hold no two free buddies and are what the byte counters count (`Tidy`); where a block may be between `ray_release` and `ray_free` (`Calm`);
and the bits (`AvailExact`) and limits (`Counted`) of the lists. Splitting and coalescing are chains of buddies: that blocks in place are nested or disjoint,
that a buddy is in place and that the parent is the two of them are lemmas about multiples of powers of two, which are brought in as the numbers of subsets of an
interval, since the prover has no theory of exponents; the chain that a coalescing follows ends at the least order for which the merge
stops, by well-foundedness instead of
induction. `Size` is a number of cells, so the byte counters are moved by `FiniteSetTheorems`. `NoDangling` follows from `AllSeated`, and so
holds in torn states too.

`HandlesProofs` proves for any numbers of descriptors, objects, aliases and operations `RecordsExact`, `WorkersExact`, `OwnPeer` and the action
property `NoForeignClose`. The invariant relates five tables: an open object has a descriptor of its own (`ObjsOK`); file and alias
records name the object on their descriptor (`RecsOK`; a socket's record may be stale, which is why it is checked when it is used); the
processes to end are those not reaped, each under the descriptor of its own link (`WorkersOK`); *an alias has no live connection but
the one its row names* (`RowsOK`), without which a token that is out of date could name another connection of the same alias; and
each suspended `.z.pc` stands for one connection that is being closed (`StackOK`), and a suspended use that drains the connection it wants drains one its alias
opened. Closing is a composition of functional
updates (`Closed`, `Dead`, `DropToken`), each shown to keep the tables before the actions are.

`IpcProofs` proves for any numbers of connections, operations and steps of the peers `ClosedOnce`, `WaitsExact`, `NobodyForgotten` and
`NoStrayReply`, all from one invariant (`InvCorrect`). None of them is inductive, since each is about what an activation deep in the stack finds when
user code above it returns. `HomesOK` says what the stack and the slots have to do with each other: an activation whose connection is not
closed still has its slot, two activations on one slot are of one connection while the older's lives, and a connection is being closed exactly
while its `.z.pc` is on the stack, with nothing above it on its slot. `AnsOK`: of a synchronous call's answer there is at most one, in one
place: not yet sent, on the wire, deposited, or with `.z.bm`, on a connection where no call gave up waiting (`slip`); on the others an
answer more is under way for each that did, and nothing is said of whose it is. `NumOK`: request numbers on the stack, in
`cur_sync_seq` and `defer_seq` never pass `sync_seq`, one request at most is unread and its number is the next one, and the number
a peer is blocked on is unread, on the stack or owed. `RepOK`, as long as nothing has misled the process: a request on the stack
is the one its peer is blocked on, or it was deferred and answered. The step that has no counterpart in the
conclusion is the displaced deferral: the proof of `NoStrayReply` failed there, and TLC confirmed the behaviour (section 8). That
`misled` has two members only is the content of the theorem: no third way exists.

Lemmas of `IpcProofs` are per operation on one connection (`DepositOK`, `CallOK`, `ReturnOK`, `DeferOK`, `SentOK`, `AskedOK`, ...), with one lemma that the other
connections are not touched (`OthersOK`), and one lemma per action.

`LogProofs` proves `ReplayExact`, `CutExact`, `Durable` and the action property `HeaderStays`, for every size of header, window and record, every
number of records, rolls and faults. `WF` says what a file is: the header, then records one behind the other, of which the last may be torn. From it
follows `NextRecord`: from a place where a record ends the next one ends its size further on, is numbered one more, and none ends between. The
invariant (`InvCorrect`): every file the path has named is well formed; the bytes in the window are those of its file at `pos` (`Held`); the scan
stands at the end of a record and has consumed those before it, none too large for a window (`Seen`); the records still to be
written continue the file (`Appending`, `Creating`); the count and the acknowledged records are in the file (`KeptOK`); an answer given by a scan that
saw the file at rest is a judgement of it (`Judged`), which `JudgedExact` shows to be the exact answer. A file only grows while a scan runs,
and growth keeps what the scan has seen (`ScanGrown`); it is cut only when none runs, at the place the answer names, behind which no record ends
if the answer was about a file at rest (`NothingBehind`: this is where the guard of `Recover` on the length of the tail is needed). Two things came out of
the proof: a window has to be able to become exactly `LOG_MAX` (`WindowAssumption`), or a record between the last window and `LOG_MAX` would be called torn by
`CutExact`'s measure; and the only way to lose a header is a roll whose flush fails unseen, which is how `HeaderStays` is stated now. `Durable` needs no
hypothesis: where the code breaks a promise `lost` or `over` is set, by the step that breaks it and by no other.

The assumptions of all theorems
are those named in the modules and evaluated by TLC (`PoolAssumption`, `PartitionAssumption`, `TimersAssumption`, `ViewsAssumption`,
`HeapAssumption`, `HandlesAssumption`,
`BoundsAssumption`, `LogAssumption`, `WindowAssumption`), besides the hypotheses above (`ValueTyped`, `PureBodies`, `QuietAmends`).

Only model-checked: the liveness properties (`PoolReturns`, `CallsReturn`, `DueFires`, `ZombieReaped`, `ScanEnds`, `Terminates`: fairness
is out of the prover's reach);
that the paths of `TimerHeap` are those of the loops (`PathsAreLoops`, a recursion); and what folds and recursive definitions over
sequences compute (`SortExact`, `GradeExact`, `JoinExact`, `SymExact`, `RowsExact` and `Answers` of `Group`), which needs induction over data.

## 8. Findings

With a run (quoted in `PROJECT.json`):

1. `ipc_defer`: a connection has one deferral (`defer_seq`). A request that defers, is answered by handle and then calls back on the same connection
   may have the peer's next request evaluated inside the call; if that one defers, the answered deferral is displaced (`ipc.c:2395`), and
   the outer request's return, which no longer finds itself deferred (`ipc.c:1405`), sends a second reply. `ipc.c:839` says it is not sent
   on top. The peer takes it for the answer to its second request.
2. `sort_stable`: when the encoded keys never increase (those of a column that falls, or, descending, of one that rises) the packed radix path reverses the rows
   as a whole (`sort.c:2428`), equal neighbours included, although "q's grade must be" stable (`sort.c:128`). A column of more than 4096
   rows with ties shows it.

Met while modelling, without a run of their own. Pool, timers, views and heap:

* An endless timer of 0 ms, which `.time.timer.set` accepts (`system.c:440`), is due again as soon as it is pushed: `fire_expired` does not return
  (`timer.c:175`) and timers that are due later never fire. `DueFires` excepts it.
* `.time.timer.del` deletes any number, also that of `\t`'s timer (`system.c:462-468`): `\t` then goes on showing its interval
  with no timer behind it. `QTimerExists` says that this is the only way.
* A failing amend rebinds the parked global without invalidating views that were computed from
  the parked `::` (`q_eval_apply.c:1950`); the amends of `MCViews` run no view while the name is parked, so `Fresh` does not cover it.
* When the set at the end of an amend finds no memory the name is left with the parked `::` (`q_eval_apply.c:1954-1956`), or, through `q_env_settle`
  (`q_env.c:375`), with the new value, bound without marking a view. `AmendLost` is the step; `Fresh` excepts views that name such a name until it is set again.
* A view whose expression uses a global only inside a lambda does not depend on it (`q_view.c:116-118`), and keeps its cache when the global changes.
* Between `ray_release`'s decrement and `ray_free`'s guard the owner of the pool can take the block for a free
  buddy (`heap.c:391`, against the comment at 385). `Heap` reaches it: `torn`.
* `\t N` issued inside `.z.ts` cannot delete the timer in flight and adds a second one; both
  fire from then on, where `q_sys.c:738` says the double fire is transient.
* Tasks can be claimed from the store of `task_limit` on, before the two flags are set
  (`pool.c:303-310`); a worker still awake may run a task with the flags off. `RegionCovers` says
  exactly how far this reaches.
* Lowering `\s` does not affect workers already admitted, so the new cap is exceeded until
  they leave; `CapRespected` is stated with the highest cap since the pool was last empty.
* `ray_pool_dispatch_n` clamps its task count to the ring without a word (`pool.c:383`), although `pool.h:103`
  promises exactly `n_tasks`; `ops/query.c:3539` passes it an unchecked number of groups. `CoversOnce` is about `ray_pool_dispatch` only.
* A clamped dispatch can have trailing ranges with start past end (`pool.c:278`): they are empty, and
  tasks are called with them.
* `ray_pool_init` returns `RAY_OK` also when the create it waited for failed, or while the pool is being
  destroyed (`pool.c:517`).
* The re-push after a callback may write one slot past the heap's array (`timer.c:210`); the
  allocation's rounding to pages absorbs it. `OneOver` shows it is never two.
* `d.k:x` invalidates no view of `d`: the set is announced under the dotted name.
* When `roster_add` has no memory the view stays bound and is never invalidated again; the comment
  says the roster heals, and healing only removes. Views that rest on it are not marked either; and when a cycle of views is broken behind a view that
  is off the roster, a listed view stays valid with a stale cache (TLC: `u::v`, `v::x`, `w::u`, `x::w` with two of them unlisted), hence `Reached` in `Fresh`.
* A view whose expression assigns one of its own dependencies is marked pending by that
  assignment, and the bit is cleared when it ends (`q_view.c:147`); views it rests on may be pending then (section 7).
* Workers' foreign lists are flushed by nobody, where `heap.c:1670` expects it "on their next
  dispatch entry"; `ray_parallel_end`, on which comments rely, has no caller; a worker that exits
  loses what its foreign list holds (`lost` in `Heap`).
* `ray_sym_strings_borrow` (`sym.c:788`) hands out an array that the next growth frees; whether a kernel interns
  meanwhile is up to its callers.
* `heap.h:269-284`: the header of a min-order block at a 32 MB boundary inside an oversized pool
  has the fields `ray_pool_of` tests for, but one.

Event loop and IPC:

* After a request was evaluated, `ipc_read_payload` takes the connection for live if the slot's data pointer is the old one
  (`ipc.c:1378`; `sync_send` does the same, `ipc.c:2266`). Slot and address can both have been given to a connection opened meanwhile, which then gets a reply it
  did not ask for. The open stamp that `q_provider.c` compares would tell them apart. Run `ipc` reaches it: `misled = {"address"}`.
* A hang-up closes whatever selector is in the slot when it is handled (`epoll.c:250-259`), and the
  error path of `ipc_read_payload` deregisters the slot without looking at it again after `.z.bm` (`ipc.c:1401`).
* A peer that never stops sending keeps the pump of a synchronous call busy for ever; processes that
  call each other in a ring wait for ever (`ipc.c:2292`): a call has no time limit.
* When waiting for the socket fails, `sync_send` clears `sync_waiting` and returns `'io` with the connection open (`ipc.c:2292-2295`). The answer is
  still to come: the next call on the handle takes it for its own, and every later call is one answer behind. `OwnAnswer` excepts such connections (`slip`).
* A broadcast that fails at one connection has been written to the ones before it (`ipc.c:2370`).

Log:

* An append after a failed append follows the torn record, so everything after it is beyond
  the valid part. Nothing in the code holds it back; the writer of `Log` stops on the error and is started again after the cut.
* A stop between the records and the count leaves a file that `get` calls corrupt, while `(-2;x)` finds it whole and names no cut.
* `q_io_write_all` ignores the result of `fclose` (`q_io.c:166`). The 8 bytes of an empty list wait in the stdio buffer, so every failure to write them is unseen and
  the rename installs a file that is cut short; the append that creates a log may return for records that are not in it. The exceptions of
  `HeaderStays` and `AckedSurvive`.
* An append where there is no file writes the count before the records (`q_wirefile.c:926-933`): a stop in it leaves a header that promises records the file has
  not. The exception of `CountBehind` (`over`).
* A chunk that does not decode for want of memory is taken for a torn one (`q_log.c:104-105`): `(-2;x)` names a cut in front of whole records,
  and a replay answers `'badtail`.
* A record larger than the largest window can be written and never replayed.

Group-by:

* When the second pass over fat entries inside `exec_group_run` runs out of memory, for a partition's table (`group.c:3416`) or
  for its growth (`group.c:2788`), the result lacks groups: nothing is read after the dispatch at `group.c:8140`. The pivot checks for both "so callers never see
  a silently-truncated result" (`group.c:9945-9954`). `Answers` excepts it (`lossy`).
* The legacy hash path does not skip null aggregate values (`group.c:2627-2715`) where 7911-7915 says it does (7108-7113 admits it).
* The direct-array path reads 2-byte keys unsigned (`group.c:4809-4816`), the scan that computes their range
  signed (`internal.h:211-214`).
* `ray_agg_engine_v2` is `true` (`agg_engine.c:12`) where `agg_engine.h:9` and `internal.h:644` say that it is off by default; it
  does not look at `pool->cancelled`.
* The legacy emit leaves out a key column it has no memory for (about `group.c:8747`); the growth of median and
  top-k buffers is not checked; a table whose rehash fails when it is full is probed for ever.

Sort:

* Floats as one of several keys that are packed into one word: the encoded key is cast to a signed word, so an infinity
  and its negative, or an infinity and a null, come back in the wrong order (about `sort.c:1111` and 2587), against "Nulls
  sort FIRST" of `q_sort.c`. A table of more than 64 rows shows it.
* A failed histogram allocation on the plain radix path leaves the pointer to the result NULL (`sort.c:2481-2485`), and the copy at `sort.c:2919` reads from it:
  the result `"crash"` of the model. The two arrays of the prescan are not checked either when there are more than 512 workers times keys
  (`sort.c:2529-2538`, not modelled).
* With nulls last an integer null ties with the greatest integer; packed keys ignore `nulls_first`; negative zero and
  zero differ in the radix paths and are equal to the comparator.
* `packed_detect_fn` looks at pairs across tasks only at multiples of the grain, which `pool.c:279` changes when it clamps.
* `topk_take_vec` has nulls first when descending (`sort.c:3224`), the sort when ascending.

Joins (read in the code; the gathers of columns are not modelled):

* `exec_join` leaves out left columns past the 16th, and right ones, without an error (`join.c:1379`, 1406).
* `exec_antijoin` skips a column whose vector cannot be allocated, and yields none when nothing is left (`join.c:1659-1699`).
* A left column whose vector cannot be allocated is skipped among the outputs and not among the sources
  (`join.c:1383` against 1425): the columns after it get the data of the one before.
* In the chained path a failed allocation of the flags or of the pairs leaves without result and without error
  (`join.c:1265`, 1310, 1344), which q reports as a type error (`q_join.c:206`). `Failed("null")` in the model.
* `exec_join` does not look for an interrupt after the gathers, whose tasks it makes the pool skip.
* The filter of the factorised side looks at the type of the left key only, and reads the right one as 8-byte integers
  (`join.c:1180`, 711).
* A null matches a null in a hash join (`join.c:436`) and nothing in an asof join (`join.c:1887`).

Symbols:

* A path with a repeated segment that is not yet interned (`a.a`) commits the segment twice (`sym.c:590-637`), and there are two ids for
  one name, where `sym.c:451` asks its callers for the opposite. `OneIdEach` excepts it (`TwiceInPath`).
* `ray_sym_ensure_cap` rounds a need beyond 2^31 buckets up to 0 and reports success.
* `sym_cache_segments` is never needed: `PathsExact` shows that every symbol is scanned when its intern returns.

## 9. What is not modelled

The parts of section 1 that `PROJECT.json` lists as `not_modelled`, with the reason for each. By lines they are
most of the repository: the q parser and evaluator, the verbs, the query planner, the columnar kernels for
windows, strings and dates, the Lisp dialect of the engine, loaders, formatters and foreign libraries. They are sequential code over values:
what is to be said of them is what each verb computes, and a model of that would be the verb again. The map
covers the code in which order, failure or a choice between algorithms decides the result.

In the modelled ones: weak memory orders (pool), `ray_heap_merge` and the queue
of pending merges (no caller), the backing of pools by files, `madvise`, `ray_alloc_copy` (heap), the test-only
pump (timers), namespaces, lambda frames and autoload (environment), and the listings of views,
which change nothing; TLS, websockets, HTTP and the partial reads of a frame (`Ipc`), kqueue and iocp, which have the
loop of epoll; writes to a connection that fail or stop half-way (`Ipc`); the handshake's time limit of a worker as a clock (`Handles` lets
it expire at any time); splayed tables and
enumerations (`Log`); median, top-k and string aggregates, and the emission of columns (`Group`: one accumulator
with count, sum, first and last row stands for all); the string radix sort, whose keys the
model's "wide" values stand for (`Sort`); the gathers of a join's columns, window joins, upsert and `uj` of plain tables (`Join`, `QJoin`);
the spin lock and the readers that
do not take it (`Sym`). `Fresh` leaves out views that rest on themselves
(their value is defined by their previous one), views that rest on a view off the roster or on what a function uses, and views that name a
name whose last change was quiet, as said above.
