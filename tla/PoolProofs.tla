------------------------------ MODULE PoolProofs ------------------------------
(***************************************************************************)
(* The theorems about Pool: for any number of workers, any ring and any    *)
(* sequence of dispatches, the task window is exact, its slots are intact, *)
(* every task runs once, and the barrier holds.                            *)
(***************************************************************************)
EXTENDS Pool, FiniteSetTheorems, TLAPS

(* Workers that have passed the fetch_add on n_running and not the fetch_sub. *)
Inside == {w \in Worker : pc[w] \in ClaimPc \cup TicketPc \cup {"gate", "reject", "leave"}}

(* The claim cursor never passes the published end, what a claimer compares   *)
(* with is not ahead of it, and the main thread spins only once the window    *)
(* is exhausted.                                                              *)
CursorInv ==
  /\ task_claim <= task_limit
  /\ \A t \in Thread :
       /\ pc[t] \in {"limit", "cas"} => cur[t] <= task_claim
       /\ pc[t] = "cas" => cur[t] < task_limit
       /\ pc[t] \in TicketPc => cur[t] < task_claim
  /\ pc[Main] = "spin" => task_claim = task_limit

(* n_running counts the workers inside.                                       *)
RunningExact == n_running = Cardinality(Inside)

(* The fill loop's progress: the window starts at the published end and fits  *)
(* the ring, and the slots of its first i tickets are written.                *)
FillInv ==
  /\ pc[Main] \in {"fill", "arm", "publish"} =>
       /\ base = task_limit /\ n_tasks <= task_cap /\ i <= n_tasks
       /\ \A j \in 0..(i - 1) : tasks[Slot(base + j)] = base + j
  /\ pc[Main] \in {"arm", "publish"} => i = n_tasks

(* While the window is open its unclaimed tickets are in their slots.         *)
WindowInv ==
  pc[Main] \in WindowPc => \A k \in task_claim..(task_limit - 1) : tasks[Slot(k)] = k

(* Every ticket below the cursor was executed, skipped, or is in the hands of *)
(* exactly one thread that has done neither yet.                              *)
TicketInv ==
  /\ ~repeated
  /\ ran \cap skipped = {}
  /\ \A k \in Nat : k < task_claim <=>
       \/ k \in ran \cup skipped
       \/ \E t \in Thread : pc[t] = "claimed" /\ cur[t] = k
  /\ \A t \in Thread : pc[t] = "claimed" => cur[t] \notin ran \cup skipped
  /\ \A s, t \in Thread : pc[s] = "claimed" /\ pc[t] = "claimed" /\ s # t => cur[s] # cur[t]

(* Where the main thread is determines the two region flags.                  *)
FlagInv ==
  /\ pc[Main] \in (WindowPc \ {"flag"}) \cup {"unflag"} => parallel
  /\ pc[Main] \in (WindowPc \ {"flag", "sync"}) \cup {"unflag", "unsync"} => rc_sync

Inv ==
  /\ TypeOK /\ CursorInv /\ RunningExact /\ PendingExact /\ Barrier
  /\ FillInv /\ WindowInv /\ SlotIntact /\ TicketInv /\ FlagInv

-------------------------------------------------------------------------------
(* Facts about the operators the model is built from.                         *)

(* Two tickets of one window, less than a ring apart, have different slots.   *)
LEMMA SlotsDiffer ==
  ASSUME NEW c \in Nat \ {0}, NEW a \in Nat, NEW b \in Nat, a < b, b - a < c
  PROVE  a % c # b % c
<1>1. a = c * (a \div c) + (a % c) /\ b = c * (b \div c) + (b % c)
  OBVIOUS
<1>2. SUFFICES ASSUME a % c = b % c PROVE FALSE
  OBVIOUS
<1>3. PICK p \in Int, q \in Int : p = a \div c /\ q = b \div c
  OBVIOUS
<1>4. b - a = c * (q - p)
  BY <1>1, <1>2, <1>3
<1>5. CASE q - p <= 0
  BY <1>4, <1>5
<1>6. CASE q - p >= 1
  <2>1. c * (q - p) >= c
    BY <1>6
  <2>2. QED BY <2>1, <1>4
<1>7. QED BY <1>3, <1>5, <1>6

(* A slot is an index of the ring.                                            *)
LEMMA SlotInRing ==
  ASSUME NEW c \in Nat \ {0}, NEW a \in Nat, c <= MaxRingCap
  PROVE  a % c \in 0..(MaxRingCap - 1)
  BY PoolAssumption

(* The sets that are counted are finite.                                      *)
LEMMA Countable ==
  /\ IsFiniteSet(Thread) /\ IsFiniteSet(Holding) /\ IsFiniteSet(Inside)
  /\ Cardinality(Holding) \in Nat /\ Cardinality(Inside) \in Nat /\ NWorkers \in Nat
<1>1. IsFiniteSet(Thread)
  BY PoolAssumption, FS_AddElement DEF Thread
<1>2. Holding \subseteq Thread /\ Inside \subseteq Worker
  BY DEF Holding, Inside
<1>3. IsFiniteSet(Holding) /\ IsFiniteSet(Inside)
  BY <1>1, <1>2, PoolAssumption, FS_Subset
<1>4. QED
  BY <1>1, <1>3, PoolAssumption, FS_CardinalityType DEF NWorkers

(* Every step keeps the types.                                                 *)
LEMMA TypeStep == Inv /\ [Next]_vars => TypeOK'
<1> SUFFICES ASSUME Inv, [Next]_vars PROVE TypeOK'
  OBVIOUS
<1> USE PoolAssumption, Countable DEF Inv, TypeOK, Thread, MainPc, WorkerPc,
  ClaimPc, TicketPc, Goto, cursors, ring, gate, flags, locals, history
<1>1. CASE UNCHANGED vars
  BY <1>1 DEF vars
<1>2. ASSUME NEW t \in Thread, TaskLoop(t) PROVE TypeOK'
  <2>1. CASE LoadClaim(t)
    BY <2>1 DEF LoadClaim
  <2>2. CASE LoadLimit(t)
    BY <2>2 DEF LoadLimit
  <2>3. CASE ClaimCas(t)
    BY <2>3 DEF ClaimCas
  <2>4. CASE ClaimRetry(t)
    BY <2>4 DEF ClaimRetry
  <2>5. CASE SkipCancelled(t)
    BY <2>5 DEF SkipCancelled
  <2>6. CASE ReturnTask(t)
    BY <2>6 DEF ReturnTask
  <2>7. CASE RunTask(t)
    <3>1. tasks[Slot(cur[t])] = cur[t]
      BY <2>7 DEF RunTask, SlotIntact
    <3>2. QED BY <3>1, <2>7 DEF RunTask
  <2>8. CASE FinishTask(t)
    <3>1. pending \in Nat \ {0}
      <4>1. t \in Holding
        BY <2>8 DEF FinishTask, Holding
      <4>2. Cardinality(Holding) # 0
        BY <4>1, Countable, FS_EmptySet
      <4>3. QED BY <4>2, Countable DEF PendingExact, CursorInv
    <3>2. QED BY <3>1, <2>8 DEF FinishTask
  <2>9. QED BY <1>2, <2>1, <2>2, <2>3, <2>4, <2>5, <2>6, <2>7, <2>8 DEF TaskLoop
<1>3. ASSUME NEW w \in Worker, Spawn(w) \/ (WorkerStep(w) /\ ~TaskLoop(w)) PROVE TypeOK'
  <2>1. CASE SemWait(w)
    BY <2>1 DEF SemWait
  <2>2. CASE CheckShutdown(w)
    BY <2>2 DEF CheckShutdown
  <2>3. CASE Enter(w)
    BY <2>3 DEF Enter
  <2>4. CASE Gate(w)
    BY <2>4 DEF Gate
  <2>5. CASE Spawn(w)
    BY <2>5 DEF Spawn
  <2>6. CASE Leave(w)
    <3>1. n_running \in Nat \ {0}
      <4>1. w \in Inside
        BY <2>6 DEF Leave, Inside
      <4>2. Cardinality(Inside) # 0
        BY <4>1, Countable, FS_EmptySet
      <4>3. QED BY <4>2, Countable DEF RunningExact
    <3>2. QED BY <3>1, <2>6 DEF Leave, NotePeak
  <2>7. QED BY <1>3, <2>1, <2>2, <2>3, <2>4, <2>5, <2>6 DEF WorkerStep
<1>4. CASE SpawnDone
  BY <1>4 DEF SpawnDone
<1>5. CASE FillDone
  BY <1>5 DEF FillDone
<1>6. CASE StorePending
  BY <1>6 DEF StorePending
<1>7. CASE Publish
  BY <1>7 DEF Publish
<1>8. CASE SetParallel
  BY <1>8 DEF SetParallel
<1>9. CASE SetRcSync
  BY <1>9 DEF SetRcSync
<1>10. CASE Signal
  BY <1>10 DEF Signal
<1>11. CASE SignalDone
  BY <1>11 DEF SignalDone
<1>12. CASE SpinDone
  BY <1>12 DEF SpinDone
<1>13. CASE ClearParallel
  BY <1>13 DEF ClearParallel
<1>14. CASE ClearRcSync
  BY <1>14 DEF ClearRcSync
<1>15. CASE FreeSignal
  BY <1>15 DEF FreeSignal
<1>16. CASE FreeSignalDone
  BY <1>16 DEF FreeSignalDone
<1>17. CASE JoinDone
  BY <1>17 DEF JoinDone
<1>18. CASE SpawnFail
  BY <1>18 DEF SpawnFail
<1>19. CASE QueryStart
  BY <1>19 DEF QueryStart
<1>20. CASE Cancel
  BY <1>20 DEF Cancel
<1>21. CASE FreeBegin
  BY <1>21 DEF FreeBegin
<1>22. CASE FillSlot
  <2>1. base + i \in Nat /\ Slot(base + i) \in 0..(MaxRingCap - 1)
    BY SlotInRing DEF Slot
  <2>2. QED BY <2>1, <1>22 DEF FillSlot
<1>23. CASE Recreate
  <2>1. pc' \in [Thread -> MainPc \cup WorkerPc] /\ pc'[Main] = "spawn"
    BY <1>23 DEF Recreate
  <2>2. \A w \in Worker : pc'[w] = "unborn"
    BY <1>23 DEF Recreate
  <2>3. cur' \in [Thread -> Nat] /\ old' \in [Worker -> Nat]
    BY <1>23 DEF Recreate
  <2>4. tasks' \in [0..(MaxRingCap - 1) -> Nat \cup {-1}]
    BY <1>23 DEF Recreate
  <2>5. ran' \subseteq Nat /\ skipped' \subseteq Nat /\ repeated' \in BOOLEAN
    BY <1>23 DEF Recreate
  <2>6. parallel' \in BOOLEAN /\ rc_sync' \in BOOLEAN /\ shutdown' \in BOOLEAN /\ cancelled' \in BOOLEAN
    BY <1>23 DEF Recreate
  <2>7. QED BY <2>1, <2>2, <2>3, <2>4, <2>5, <2>6, <1>23 DEF Recreate
<1>24. ASSUME NEW n \in 1..MaxTasks, DispatchBegin(n) PROVE TypeOK'
  BY <1>24 DEF DispatchBegin, Doubled, MinOf
<1>25. ASSUME NEW v \in 1..NWorkers, SetActive(v) PROVE TypeOK'
  BY <1>25 DEF SetActive, NotePeak
<1>26. QED
  BY <1>1, <1>2, <1>3, <1>4, <1>5, <1>6, <1>7, <1>8, <1>9, <1>10, <1>11, <1>12,
    <1>13, <1>14, <1>15, <1>16, <1>17, <1>18, <1>19, <1>20, <1>21, <1>22,
    <1>23, <1>24, <1>25
  DEF Next, MainStep, Request, Thread, WorkerStep

(* A claim stays below the published end; only a new pool resets the cursors.   *)
LEMMA CursorStep == Inv /\ [Next]_vars => CursorInv'
<1> SUFFICES ASSUME Inv, [Next]_vars PROVE CursorInv'
  OBVIOUS
<1> USE PoolAssumption DEF Inv, TypeOK, Thread, MainPc, WorkerPc, ClaimPc,
  TicketPc, Goto, cursors, ring, gate, flags, locals, history, CursorInv,
  WindowPc, FillInv
<1>1. CASE UNCHANGED vars
  BY <1>1 DEF vars
<1>2. ASSUME NEW t \in Thread, TaskLoop(t) PROVE CursorInv'
  <2>1. CASE LoadClaim(t)
    BY <2>1 DEF LoadClaim
  <2>2. CASE LoadLimit(t)
    BY <2>2 DEF LoadLimit
  <2>3. CASE ClaimCas(t)
    BY <2>3 DEF ClaimCas
  <2>4. CASE ClaimRetry(t)
    BY <2>4 DEF ClaimRetry
  <2>5. CASE SkipCancelled(t)
    BY <2>5 DEF SkipCancelled
  <2>6. CASE RunTask(t)
    BY <2>6 DEF RunTask
  <2>7. CASE ReturnTask(t)
    BY <2>7 DEF ReturnTask
  <2>8. CASE FinishTask(t)
    BY <2>8 DEF FinishTask
  <2>9. QED BY <1>2, <2>1, <2>2, <2>3, <2>4, <2>5, <2>6, <2>7, <2>8 DEF TaskLoop
<1>3. ASSUME NEW w \in Worker, Spawn(w) \/ (WorkerStep(w) /\ ~TaskLoop(w)) PROVE CursorInv'
  <2>1. CASE SemWait(w)
    BY <2>1 DEF SemWait
  <2>2. CASE CheckShutdown(w)
    BY <2>2 DEF CheckShutdown
  <2>3. CASE Enter(w)
    BY <2>3 DEF Enter
  <2>4. CASE Gate(w)
    BY <2>4 DEF Gate
  <2>5. CASE Leave(w)
    BY <2>5 DEF Leave, NotePeak
  <2>6. CASE Spawn(w)
    BY <2>6 DEF Spawn
  <2>7. QED BY <1>3, <2>1, <2>2, <2>3, <2>4, <2>5, <2>6 DEF WorkerStep
<1>4. CASE SpawnDone
  BY <1>4 DEF SpawnDone
<1>5. CASE FillSlot
  BY <1>5 DEF FillSlot
<1>6. CASE FillDone
  BY <1>6 DEF FillDone
<1>7. CASE StorePending
  BY <1>7 DEF StorePending
<1>8. CASE Publish
  BY <1>8 DEF Publish
<1>9. CASE SetParallel
  BY <1>9 DEF SetParallel
<1>10. CASE SetRcSync
  BY <1>10 DEF SetRcSync
<1>11. CASE Signal
  BY <1>11 DEF Signal
<1>12. CASE SignalDone
  BY <1>12 DEF SignalDone
<1>13. CASE SpinDone
  BY <1>13 DEF SpinDone
<1>14. CASE ClearParallel
  BY <1>14 DEF ClearParallel
<1>15. CASE ClearRcSync
  BY <1>15 DEF ClearRcSync
<1>16. CASE FreeSignal
  BY <1>16 DEF FreeSignal
<1>17. CASE FreeSignalDone
  BY <1>17 DEF FreeSignalDone
<1>18. CASE JoinDone
  BY <1>18 DEF JoinDone
<1>19. CASE SpawnFail
  BY <1>19 DEF SpawnFail
<1>20. CASE QueryStart
  BY <1>20 DEF QueryStart
<1>21. CASE Cancel
  BY <1>21 DEF Cancel
<1>22. CASE FreeBegin
  BY <1>22 DEF FreeBegin
<1>23. CASE Recreate
  BY <1>23 DEF Recreate
<1>24. ASSUME NEW n \in 1..MaxTasks, DispatchBegin(n) PROVE CursorInv'
  BY <1>24 DEF DispatchBegin, Doubled, MinOf
<1>25. ASSUME NEW v \in 1..NWorkers, SetActive(v) PROVE CursorInv'
  BY <1>25 DEF SetActive, NotePeak
<1>26. QED
  BY <1>1, <1>2, <1>3, <1>4, <1>5, <1>6, <1>7, <1>8, <1>9, <1>10, <1>11, <1>12,
    <1>13, <1>14, <1>15, <1>16, <1>17, <1>18, <1>19, <1>20, <1>21, <1>22,
    <1>23, <1>24, <1>25
  DEF Next, MainStep, Request, Thread, WorkerStep

(* A worker is counted once between its entry and its leaving, also when the
   gate turns it away. *)
LEMMA RunningStep == Inv /\ [Next]_vars => RunningExact'
<1> SUFFICES ASSUME Inv, [Next]_vars PROVE RunningExact'
  OBVIOUS
<1> USE PoolAssumption, Countable DEF Inv, TypeOK, Thread, MainPc, WorkerPc,
  ClaimPc, TicketPc, Goto, cursors, ring, gate, flags, locals, history
<1>1. CASE UNCHANGED vars
  <2>1. Inside' = Inside
    BY <1>1 DEF vars, Inside
  <2>2. QED BY <2>1, <1>1 DEF vars, RunningExact
<1>2. ASSUME NEW t \in Thread, TaskLoop(t) PROVE RunningExact'
  <2>1. CASE LoadClaim(t) \/ ClaimCas(t) \/ ClaimRetry(t)
    <3>1. Inside' = Inside
      BY <2>1 DEF LoadClaim, ClaimCas, ClaimRetry, Inside
    <3>2. QED BY <3>1, <2>1 DEF LoadClaim, ClaimCas, ClaimRetry, RunningExact
  <2>2. CASE SkipCancelled(t) \/ RunTask(t) \/ ReturnTask(t)
    <3>1. Inside' = Inside
      BY <2>2 DEF SkipCancelled, RunTask, ReturnTask, Inside
    <3>2. QED BY <3>1, <2>2 DEF SkipCancelled, RunTask, ReturnTask, RunningExact
  <2>3. CASE FinishTask(t)
    <3>1. Inside' = Inside
      BY <2>3 DEF FinishTask, Inside
    <3>2. QED BY <3>1, <2>3 DEF FinishTask, RunningExact
  <2>4. CASE LoadLimit(t)
    <3>1. Inside' = Inside
      BY <2>4 DEF LoadLimit, Inside
    <3>2. QED BY <3>1, <2>4 DEF LoadLimit, RunningExact
  <2>5. QED BY <1>2, <2>1, <2>2, <2>3, <2>4 DEF TaskLoop
<1>3. ASSUME NEW w \in Worker, Spawn(w) \/ (WorkerStep(w) /\ ~TaskLoop(w)) PROVE RunningExact'
  <2>1. CASE SemWait(w) \/ CheckShutdown(w) \/ Gate(w)
    <3>1. Inside' = Inside
      BY <2>1 DEF SemWait, CheckShutdown, Gate, Inside
    <3>2. QED BY <3>1, <2>1 DEF SemWait, CheckShutdown, Gate, RunningExact
  <2>2. CASE Spawn(w)
    <3>1. Inside' = Inside
      BY <2>2 DEF Spawn, Inside
    <3>2. QED BY <3>1, <2>2 DEF Spawn, RunningExact
  <2>3. CASE Enter(w)
    <3>1. Inside' = Inside \cup {w} /\ w \notin Inside
      BY <2>3 DEF Enter, Inside
    <3>2. Cardinality(Inside') = Cardinality(Inside) + 1
      BY <3>1, FS_AddElement
    <3>3. QED BY <3>2, <2>3 DEF Enter, RunningExact
  <2>4. CASE Leave(w)
    <3>1. Inside' = Inside \ {w} /\ w \in Inside
      BY <2>4 DEF Leave, Inside
    <3>2. Cardinality(Inside') = Cardinality(Inside) - 1
      BY <3>1, FS_RemoveElement
    <3>3. QED BY <3>2, <2>4 DEF Leave, RunningExact
  <2>5. QED BY <1>3, <2>1, <2>2, <2>3, <2>4 DEF WorkerStep
<1>4. CASE SpawnDone \/ FillSlot \/ FillDone
  <2>1. Inside' = Inside
    BY <1>4 DEF SpawnDone, FillSlot, FillDone, Inside
  <2>2. QED BY <2>1, <1>4 DEF SpawnDone, FillSlot, FillDone, RunningExact
<1>5. CASE StorePending \/ Publish \/ SetParallel
  <2>1. Inside' = Inside
    BY <1>5 DEF StorePending, Publish, SetParallel, Inside
  <2>2. QED BY <2>1, <1>5 DEF StorePending, Publish, SetParallel, RunningExact
<1>6. CASE SetRcSync \/ Signal \/ SignalDone
  <2>1. Inside' = Inside
    BY <1>6 DEF SetRcSync, Signal, SignalDone, Inside
  <2>2. QED BY <2>1, <1>6 DEF SetRcSync, Signal, SignalDone, RunningExact
<1>7. CASE SpinDone \/ ClearParallel \/ ClearRcSync
  <2>1. Inside' = Inside
    BY <1>7 DEF SpinDone, ClearParallel, ClearRcSync, Inside
  <2>2. QED BY <2>1, <1>7 DEF SpinDone, ClearParallel, ClearRcSync, RunningExact
<1>8. CASE FreeSignal \/ FreeSignalDone \/ JoinDone
  <2>1. Inside' = Inside
    BY <1>8 DEF FreeSignal, FreeSignalDone, JoinDone, Inside
  <2>2. QED BY <2>1, <1>8 DEF FreeSignal, FreeSignalDone, JoinDone, RunningExact
<1>9. CASE SpawnFail \/ QueryStart \/ Cancel
  <2>1. Inside' = Inside
    BY <1>9 DEF SpawnFail, QueryStart, Cancel, Inside
  <2>2. QED BY <2>1, <1>9 DEF SpawnFail, QueryStart, Cancel, RunningExact
<1>10. CASE FreeBegin
  <2>1. Inside' = Inside
    BY <1>10 DEF FreeBegin, Inside
  <2>2. QED BY <2>1, <1>10 DEF FreeBegin, RunningExact
<1>11. CASE Recreate
  <2>1. \A w \in Worker : pc'[w] = "unborn"
    BY <1>11 DEF Recreate
  <2>2. Inside' = {}
    BY <2>1 DEF Inside
  <2>3. QED BY <2>2, FS_EmptySet, <1>11 DEF Recreate, RunningExact
<1>12. ASSUME NEW n \in 1..MaxTasks, DispatchBegin(n) PROVE RunningExact'
  <2>1. Inside' = Inside
    BY <1>12 DEF DispatchBegin, Doubled, MinOf, Inside
  <2>2. QED BY <2>1, <1>12 DEF DispatchBegin, Doubled, MinOf, RunningExact
<1>13. ASSUME NEW v \in 1..NWorkers, SetActive(v) PROVE RunningExact'
  <2>1. Inside' = Inside
    BY <1>13 DEF SetActive, NotePeak, Inside
  <2>2. QED BY <2>1, <1>13 DEF SetActive, NotePeak, RunningExact
<1>14. QED
  BY <1>1, <1>2, <1>3, <1>4, <1>5, <1>6, <1>7, <1>8, <1>9, <1>10, <1>11, <1>12,
    <1>13
  DEF Next, MainStep, Request, Thread, WorkerStep

(* pending follows the tickets: armed before the window opens, one less for
   each ticket let go of. *)
LEMMA PendingStep == Inv /\ [Next]_vars => PendingExact'
<1> SUFFICES ASSUME Inv, [Next]_vars PROVE PendingExact'
  OBVIOUS
<1> USE PoolAssumption, Countable DEF Inv, TypeOK, Thread, MainPc, WorkerPc,
  ClaimPc, TicketPc, Goto, cursors, ring, gate, flags, locals, history
<1>1. CASE UNCHANGED vars
  <2>1. Holding' = Holding
    BY <1>1 DEF vars, Holding
  <2>2. QED BY <2>1, <1>1 DEF vars, PendingExact
<1>2. ASSUME NEW t \in Thread, TaskLoop(t) PROVE PendingExact'
  <2>1. CASE LoadClaim(t) \/ LoadLimit(t) \/ ClaimRetry(t) \/ SkipCancelled(t)
    \/ RunTask(t) \/ ReturnTask(t)
    <3>1. Holding' = Holding
      BY <2>1 DEF LoadClaim, LoadLimit, ClaimRetry, SkipCancelled, RunTask,
        ReturnTask, Holding
    <3>2. QED BY <3>1, <2>1 DEF LoadClaim, LoadLimit, ClaimRetry,
      SkipCancelled, RunTask, ReturnTask, PendingExact
  <2>2. CASE ClaimCas(t)
    <3>1. Holding' = Holding \cup {t} /\ t \notin Holding
      BY <2>2 DEF ClaimCas, Holding
    <3>2. Cardinality(Holding') = Cardinality(Holding) + 1
      BY <3>1, FS_AddElement
    <3>3. pc[Main] # "publish" /\ pc'[Main] # "publish"
      BY <2>2 DEF ClaimCas, CursorInv, Barrier, WindowPc
    <3>4. QED BY <3>2, <3>3, <2>2 DEF ClaimCas, PendingExact
  <2>3. CASE FinishTask(t)
    <3>1. Holding' = Holding \ {t} /\ t \in Holding
      BY <2>3 DEF FinishTask, Holding
    <3>2. Cardinality(Holding') = Cardinality(Holding) - 1
      BY <3>1, FS_RemoveElement
    <3>3. pc[Main] # "publish" /\ pc'[Main] # "publish"
      BY <3>1, <2>3 DEF FinishTask, Barrier, WindowPc
    <3>4. QED BY <3>2, <3>3, <2>3 DEF FinishTask, PendingExact
  <2>4. QED BY <1>2, <2>1, <2>2, <2>3 DEF TaskLoop
<1>3. ASSUME NEW w \in Worker, Spawn(w) \/ (WorkerStep(w) /\ ~TaskLoop(w)) PROVE PendingExact'
  <2>1. CASE SemWait(w) \/ CheckShutdown(w) \/ Enter(w) \/ Gate(w) \/ Leave(w)
    \/ Spawn(w)
    <3>1. Holding' = Holding
      BY <2>1 DEF SemWait, CheckShutdown, Enter, Gate, Leave, NotePeak, Spawn, Holding
    <3>2. QED BY <3>1, <2>1 DEF SemWait, CheckShutdown, Enter, Gate, Leave,
      NotePeak, Spawn, PendingExact
  <2>2. QED BY <1>3, <2>1 DEF WorkerStep
<1>4. CASE SpawnDone \/ FillSlot \/ FillDone \/ SetParallel \/ SetRcSync \/
  Signal \/ SignalDone
  <2>1. Holding' = Holding
    BY <1>4 DEF SpawnDone, FillSlot, FillDone, SetParallel, SetRcSync, Signal,
      SignalDone, Holding
  <2>2. QED BY <2>1, <1>4 DEF SpawnDone, FillSlot, FillDone, SetParallel,
    SetRcSync, Signal, SignalDone, PendingExact
<1>5. CASE SpinDone \/ ClearParallel \/ ClearRcSync \/ FreeSignal \/
  FreeSignalDone \/ JoinDone \/ SpawnFail
  <2>1. Holding' = Holding
    BY <1>5 DEF SpinDone, ClearParallel, ClearRcSync, FreeSignal,
      FreeSignalDone, JoinDone, SpawnFail, Holding
  <2>2. QED BY <2>1, <1>5 DEF SpinDone, ClearParallel, ClearRcSync, FreeSignal,
    FreeSignalDone, JoinDone, SpawnFail, PendingExact
<1>6. CASE QueryStart \/ Cancel \/ FreeBegin
  <2>1. Holding' = Holding
    BY <1>6 DEF QueryStart, Cancel, FreeBegin, Holding
  <2>2. QED BY <2>1, <1>6 DEF QueryStart, Cancel, FreeBegin, PendingExact
<1>7. CASE StorePending
  <2>1. Holding = {} /\ task_claim = task_limit
    BY <1>7 DEF StorePending, Barrier, WindowPc
  <2>2. Holding' = {}
    BY <2>1, <1>7 DEF StorePending, Holding
  <2>3. Cardinality(Holding') = 0
    BY <2>2, FS_EmptySet
  <2>4. QED BY <2>1, <2>3, <1>7 DEF StorePending, PendingExact
<1>8. CASE Publish
  <2>1. Holding' = Holding
    BY <1>8 DEF Publish, Holding
  <2>2. base = task_limit
    BY <1>8 DEF Publish, FillInv
  <2>3. QED BY <2>1, <2>2, <1>8 DEF Publish, PendingExact
<1>9. CASE Recreate
  <2>1. pc'[Main] = "spawn" /\ \A w \in Worker : pc'[w] = "unborn"
    BY <1>9 DEF Recreate
  <2>2. Holding' = {}
    BY <2>1 DEF Holding
  <2>3. QED BY <2>1, <2>2, FS_EmptySet, <1>9 DEF Recreate, PendingExact
<1>10. ASSUME NEW n \in 1..MaxTasks, DispatchBegin(n) PROVE PendingExact'
  <2>1. Holding' = Holding
    BY <1>10 DEF DispatchBegin, Doubled, MinOf, Holding
  <2>2. QED BY <2>1, <1>10 DEF DispatchBegin, Doubled, MinOf, PendingExact
<1>11. ASSUME NEW v \in 1..NWorkers, SetActive(v) PROVE PendingExact'
  <2>1. Holding' = Holding
    BY <1>11 DEF SetActive, NotePeak, Holding
  <2>2. QED BY <2>1, <1>11 DEF SetActive, NotePeak, PendingExact
<1>12. QED
  BY <1>1, <1>2, <1>3, <1>4, <1>5, <1>6, <1>7, <1>8, <1>9, <1>10, <1>11
  DEF Next, MainStep, Request, Thread, WorkerStep

(* The main thread leaves the window only when pending is 0, and nobody claims
   outside it. *)
LEMMA BarrierStep == Inv /\ [Next]_vars => Barrier'
<1> SUFFICES ASSUME Inv, [Next]_vars PROVE Barrier'
  OBVIOUS
<1> USE PoolAssumption, Countable DEF Inv, TypeOK, Thread, MainPc, WorkerPc,
  ClaimPc, TicketPc, Goto, cursors, ring, gate, flags, locals, history
<1>1. CASE UNCHANGED vars
  <2>1. Holding' = Holding
    BY <1>1 DEF vars, Holding
  <2>2. QED BY <2>1, <1>1 DEF vars, Barrier, WindowPc
<1>2. ASSUME NEW t \in Thread, TaskLoop(t) PROVE Barrier'
  <2>1. CASE LoadClaim(t) \/ LoadLimit(t) \/ ClaimRetry(t) \/ SkipCancelled(t)
    \/ RunTask(t) \/ ReturnTask(t)
    <3>1. Holding' = Holding
      BY <2>1 DEF LoadClaim, LoadLimit, ClaimRetry, SkipCancelled, RunTask,
        ReturnTask, Holding
    <3>2. QED BY <3>1, <2>1 DEF LoadClaim, LoadLimit, ClaimRetry,
      SkipCancelled, RunTask, ReturnTask, Barrier, WindowPc
  <2>2. CASE ClaimCas(t)
    <3>1. pc[Main] \in WindowPc
      BY <2>2 DEF ClaimCas, CursorInv, Barrier, WindowPc
    <3>2. QED BY <3>1, <2>2 DEF ClaimCas, Barrier, WindowPc
  <2>3. CASE FinishTask(t)
    <3>1. t \in Holding
      BY <2>3 DEF FinishTask, Holding
    <3>2. pc[Main] \in WindowPc
      BY <3>1 DEF Barrier
    <3>3. QED BY <3>2, <2>3 DEF FinishTask, Barrier, WindowPc
  <2>4. QED BY <1>2, <2>1, <2>2, <2>3 DEF TaskLoop
<1>3. ASSUME NEW w \in Worker, Spawn(w) \/ (WorkerStep(w) /\ ~TaskLoop(w)) PROVE Barrier'
  <2>1. CASE SemWait(w) \/ CheckShutdown(w) \/ Enter(w) \/ Gate(w) \/ Leave(w)
    \/ Spawn(w)
    <3>1. Holding' = Holding
      BY <2>1 DEF SemWait, CheckShutdown, Enter, Gate, Leave, NotePeak, Spawn, Holding
    <3>2. QED BY <3>1, <2>1 DEF SemWait, CheckShutdown, Enter, Gate, Leave,
      NotePeak, Spawn, Barrier, WindowPc
  <2>2. QED BY <1>3, <2>1 DEF WorkerStep
<1>4. CASE SpawnDone \/ FillSlot \/ FillDone \/ StorePending \/ SetParallel \/
  SetRcSync \/ Signal
  <2>1. Holding' = Holding
    BY <1>4 DEF SpawnDone, FillSlot, FillDone, StorePending, SetParallel,
      SetRcSync, Signal, Holding
  <2>2. QED BY <2>1, <1>4 DEF SpawnDone, FillSlot, FillDone, StorePending,
    SetParallel, SetRcSync, Signal, Barrier, WindowPc
<1>5. CASE SignalDone \/ ClearParallel \/ ClearRcSync \/ FreeSignal \/
  FreeSignalDone \/ JoinDone \/ SpawnFail
  <2>1. Holding' = Holding
    BY <1>5 DEF SignalDone, ClearParallel, ClearRcSync, FreeSignal,
      FreeSignalDone, JoinDone, SpawnFail, Holding
  <2>2. QED BY <2>1, <1>5 DEF SignalDone, ClearParallel, ClearRcSync,
    FreeSignal, FreeSignalDone, JoinDone, SpawnFail, Barrier, WindowPc
<1>6. CASE QueryStart \/ Cancel \/ FreeBegin
  <2>1. Holding' = Holding
    BY <1>6 DEF QueryStart, Cancel, FreeBegin, Holding
  <2>2. QED BY <2>1, <1>6 DEF QueryStart, Cancel, FreeBegin, Barrier, WindowPc
<1>7. CASE Publish
  BY <1>7 DEF Publish, Barrier, WindowPc
<1>8. CASE SpinDone
  <2>1. task_claim = task_limit
    BY <1>8 DEF SpinDone, CursorInv
  <2>2. Cardinality(Holding) = 0
    BY <2>1, <1>8 DEF SpinDone, PendingExact
  <2>3. Holding = {}
    BY <2>2, FS_EmptySet
  <2>4. Holding' = Holding
    BY <1>8 DEF SpinDone, Holding
  <2>5. QED BY <2>1, <2>3, <2>4, <1>8 DEF SpinDone, Barrier
<1>9. CASE Recreate
  <2>1. pc'[Main] = "spawn" /\ \A w \in Worker : pc'[w] = "unborn"
    BY <1>9 DEF Recreate
  <2>2. Holding' = {}
    BY <2>1 DEF Holding
  <2>3. QED BY <2>2, <1>9 DEF Recreate, Barrier
<1>10. ASSUME NEW n \in 1..MaxTasks, DispatchBegin(n) PROVE Barrier'
  <2>1. Holding' = Holding
    BY <1>10 DEF DispatchBegin, Doubled, MinOf, Holding
  <2>2. QED BY <2>1, <1>10 DEF DispatchBegin, Doubled, MinOf, Barrier, WindowPc
<1>11. ASSUME NEW v \in 1..NWorkers, SetActive(v) PROVE Barrier'
  <2>1. Holding' = Holding
    BY <1>11 DEF SetActive, NotePeak, Holding
  <2>2. QED BY <2>1, <1>11 DEF SetActive, NotePeak, Barrier, WindowPc
<1>12. QED
  BY <1>1, <1>2, <1>3, <1>4, <1>5, <1>6, <1>7, <1>8, <1>9, <1>10, <1>11
  DEF Next, MainStep, Request, Thread, WorkerStep

(* The two flags are switched at the edges of the region. *)
LEMMA FlagStep == Inv /\ [Next]_vars => FlagInv'
<1> SUFFICES ASSUME Inv, [Next]_vars PROVE FlagInv'
  OBVIOUS
<1> USE PoolAssumption DEF Inv, TypeOK, Thread, MainPc, WorkerPc, ClaimPc,
  TicketPc, Goto, cursors, ring, gate, flags, locals, history, FlagInv,
  WindowPc
<1>1. CASE UNCHANGED vars
  BY <1>1 DEF vars
<1>2. ASSUME NEW t \in Thread, TaskLoop(t) PROVE FlagInv'
  <2>1. CASE LoadClaim(t) \/ LoadLimit(t) \/ ClaimCas(t) \/ ClaimRetry(t) \/
    SkipCancelled(t) \/ RunTask(t) \/ ReturnTask(t)
    BY <2>1 DEF LoadClaim, LoadLimit, ClaimCas, ClaimRetry, SkipCancelled,
      RunTask, ReturnTask
  <2>2. CASE FinishTask(t)
    BY <2>2 DEF FinishTask
  <2>3. QED BY <1>2, <2>1, <2>2 DEF TaskLoop
<1>3. ASSUME NEW w \in Worker, Spawn(w) \/ (WorkerStep(w) /\ ~TaskLoop(w)) PROVE FlagInv'
  <2>1. CASE SemWait(w) \/ CheckShutdown(w) \/ Enter(w) \/ Gate(w) \/ Leave(w)
    \/ Spawn(w)
    BY <2>1 DEF SemWait, CheckShutdown, Enter, Gate, Leave, NotePeak, Spawn
  <2>2. QED BY <1>3, <2>1 DEF WorkerStep
<1>4. CASE SpawnDone \/ FillSlot \/ FillDone \/ StorePending \/ Publish \/
  SetParallel \/ SetRcSync
  <2>1. CASE SpawnDone
    BY <2>1 DEF SpawnDone
  <2>2. CASE FillSlot
    BY <2>2 DEF FillSlot
  <2>3. CASE FillDone
    BY <2>3 DEF FillDone
  <2>4. CASE StorePending
    BY <2>4 DEF StorePending
  <2>5. CASE Publish
    BY <2>5 DEF Publish
  <2>6. CASE SetParallel
    BY <2>6 DEF SetParallel
  <2>7. CASE SetRcSync
    BY <2>7 DEF SetRcSync
  <2>8. QED BY <1>4, <2>1, <2>2, <2>3, <2>4, <2>5, <2>6, <2>7
<1>5. CASE Signal \/ SignalDone \/ SpinDone \/ ClearParallel \/ ClearRcSync \/
  FreeSignal \/ FreeSignalDone
  <2>1. CASE Signal
    BY <2>1 DEF Signal
  <2>2. CASE SignalDone
    BY <2>2 DEF SignalDone
  <2>3. CASE SpinDone
    BY <2>3 DEF SpinDone
  <2>4. CASE ClearParallel
    BY <2>4 DEF ClearParallel
  <2>5. CASE ClearRcSync
    BY <2>5 DEF ClearRcSync
  <2>6. CASE FreeSignal
    BY <2>6 DEF FreeSignal
  <2>7. CASE FreeSignalDone
    BY <2>7 DEF FreeSignalDone
  <2>8. QED BY <1>5, <2>1, <2>2, <2>3, <2>4, <2>5, <2>6, <2>7
<1>6. CASE JoinDone \/ SpawnFail \/ QueryStart \/ Cancel \/ FreeBegin \/
  Recreate
  <2>1. CASE JoinDone
    BY <2>1 DEF JoinDone
  <2>2. CASE SpawnFail
    BY <2>2 DEF SpawnFail
  <2>3. CASE QueryStart
    BY <2>3 DEF QueryStart
  <2>4. CASE Cancel
    BY <2>4 DEF Cancel
  <2>5. CASE FreeBegin
    BY <2>5 DEF FreeBegin
  <2>6. CASE Recreate
    BY <2>6 DEF Recreate
  <2>7. QED BY <1>6, <2>1, <2>2, <2>3, <2>4, <2>5, <2>6
<1>7. ASSUME NEW n \in 1..MaxTasks, DispatchBegin(n) PROVE FlagInv'
  BY <1>7 DEF DispatchBegin, Doubled, MinOf
<1>8. ASSUME NEW v \in 1..NWorkers, SetActive(v) PROVE FlagInv'
  BY <1>8 DEF SetActive, NotePeak
<1>9. QED
  BY <1>1, <1>2, <1>3, <1>4, <1>5, <1>6, <1>7, <1>8
  DEF Next, MainStep, Request, Thread, WorkerStep

(* The fill loop writes the slots of its window one by one; a window no longer
   than the ring gives every ticket a slot of its own. *)
LEMMA FillStep == Inv /\ [Next]_vars => FillInv'
<1> SUFFICES ASSUME Inv, [Next]_vars PROVE FillInv'
  OBVIOUS
<1> USE PoolAssumption DEF Inv, TypeOK, Thread, MainPc, WorkerPc, ClaimPc,
  TicketPc, Goto, cursors, ring, gate, flags, locals, history, FillInv, Slot
<1>1. CASE UNCHANGED vars
  BY <1>1 DEF vars
<1>2. ASSUME NEW t \in Thread, TaskLoop(t) PROVE FillInv'
  <2>1. CASE LoadClaim(t) \/ LoadLimit(t) \/ ClaimCas(t) \/ ClaimRetry(t) \/
    SkipCancelled(t) \/ RunTask(t) \/ ReturnTask(t)
    BY <2>1 DEF LoadClaim, LoadLimit, ClaimCas, ClaimRetry, SkipCancelled,
      RunTask, ReturnTask
  <2>2. CASE FinishTask(t)
    BY <2>2 DEF FinishTask
  <2>3. QED BY <1>2, <2>1, <2>2 DEF TaskLoop
<1>3. ASSUME NEW w \in Worker, Spawn(w) \/ (WorkerStep(w) /\ ~TaskLoop(w)) PROVE FillInv'
  <2>1. CASE SemWait(w) \/ CheckShutdown(w) \/ Enter(w) \/ Gate(w) \/ Leave(w)
    \/ Spawn(w)
    BY <2>1 DEF SemWait, CheckShutdown, Enter, Gate, Leave, NotePeak, Spawn
  <2>2. QED BY <1>3, <2>1 DEF WorkerStep
<1>4. CASE SpawnDone \/ FillDone \/ StorePending \/ Publish \/ SetParallel \/
  SetRcSync \/ Signal
  BY <1>4 DEF SpawnDone, FillDone, StorePending, Publish, SetParallel, SetRcSync, Signal
<1>5. CASE SignalDone \/ SpinDone \/ ClearParallel \/ ClearRcSync \/ FreeSignal
  \/ FreeSignalDone \/ JoinDone
  BY <1>5 DEF SignalDone, SpinDone, ClearParallel, ClearRcSync, FreeSignal,
    FreeSignalDone, JoinDone
<1>6. CASE SpawnFail \/ QueryStart \/ Cancel \/ FreeBegin \/ Recreate
  BY <1>6 DEF SpawnFail, QueryStart, Cancel, FreeBegin, Recreate
<1>7. CASE FillSlot
  <2> DEFINE k == base + i
  <2>1. k \in Nat /\ Slot(k) \in 0..(MaxRingCap - 1) /\ task_cap \in Nat \ {0} /\ n_tasks <= task_cap
    BY SlotInRing, <1>7 DEF FillSlot
  <2>2. tasks' = [tasks EXCEPT ![Slot(k)] = k] /\ i' = i + 1 /\ base' = base /\ task_cap' = task_cap
    BY <1>7 DEF FillSlot
  <2>3. tasks'[Slot(k)] = k
    BY <2>1, <2>2
  <2>4. ASSUME NEW j \in 0..(i - 1) PROVE tasks'[Slot(base + j)] = base + j
    <3>1. base + j \in Nat /\ base + j < k /\ k - (base + j) < task_cap
      BY <2>1, <1>7 DEF FillSlot
    <3>2. Slot(base + j) # Slot(k)
      BY <3>1, <2>1, SlotsDiffer
    <3>3. tasks[Slot(base + j)] = base + j
      BY <1>7 DEF FillSlot
    <3>4. Slot(base + j) \in 0..(MaxRingCap - 1)
      BY <3>1, <2>1, SlotInRing
    <3>5. QED BY <2>2, <3>2, <3>3, <3>4
  <2>5. ASSUME NEW j \in 0..i PROVE tasks'[Slot(base + j)] = base + j
    <3>1. CASE j = i
      BY <3>1, <2>3
    <3>2. CASE j # i
      <4>1. j \in 0..(i - 1)
        BY <3>2
      <4>2. QED BY <4>1, <2>4
    <3>3. QED BY <3>1, <3>2
  <2>6. QED BY <2>2, <2>5, <1>7 DEF FillSlot
<1>8. ASSUME NEW n \in 1..MaxTasks, DispatchBegin(n) PROVE FillInv'
  BY <1>8 DEF DispatchBegin, Doubled, MinOf
<1>9. ASSUME NEW v \in 1..NWorkers, SetActive(v) PROVE FillInv'
  BY <1>9 DEF SetActive, NotePeak
<1>10. QED
  BY <1>1, <1>2, <1>3, <1>4, <1>5, <1>6, <1>7, <1>8, <1>9
  DEF Next, MainStep, Request, Thread, WorkerStep

(* The window opens on filled slots and only shrinks from below. *)
LEMMA WindowStep == Inv /\ [Next]_vars => WindowInv'
<1> SUFFICES ASSUME Inv, [Next]_vars PROVE WindowInv'
  OBVIOUS
<1> USE PoolAssumption DEF Inv, TypeOK, Thread, MainPc, WorkerPc, ClaimPc,
  TicketPc, Goto, cursors, ring, gate, flags, locals, history, WindowInv,
  WindowPc, Slot, CursorInv
<1>1. CASE UNCHANGED vars
  BY <1>1 DEF vars
<1>2. ASSUME NEW t \in Thread, TaskLoop(t) PROVE WindowInv'
  <2>1. CASE LoadClaim(t) \/ ClaimRetry(t) \/ SkipCancelled(t)
    BY <2>1 DEF LoadClaim, ClaimRetry, SkipCancelled
  <2>2. CASE RunTask(t) \/ ReturnTask(t) \/ FinishTask(t)
    BY <2>2 DEF RunTask, ReturnTask, FinishTask
  <2>3. CASE LoadLimit(t)
    BY <2>3 DEF LoadLimit
  <2>4. CASE ClaimCas(t)
    BY <2>4 DEF ClaimCas
  <2>5. QED BY <1>2, <2>1, <2>2, <2>3, <2>4 DEF TaskLoop
<1>3. ASSUME NEW w \in Worker, Spawn(w) \/ (WorkerStep(w) /\ ~TaskLoop(w)) PROVE WindowInv'
  <2>1. CASE SemWait(w) \/ CheckShutdown(w) \/ Enter(w)
    BY <2>1 DEF SemWait, CheckShutdown, Enter
  <2>2. CASE Gate(w) \/ Leave(w) \/ Spawn(w)
    BY <2>2 DEF Gate, Leave, NotePeak, Spawn
  <2>3. QED BY <1>3, <2>1, <2>2 DEF WorkerStep
<1>4. CASE SpawnDone \/ FillSlot \/ FillDone
  BY <1>4 DEF SpawnDone, FillSlot, FillDone
<1>5. CASE StorePending \/ SetParallel \/ SetRcSync
  BY <1>5 DEF StorePending, SetParallel, SetRcSync
<1>6. CASE Signal \/ SignalDone \/ SpinDone
  BY <1>6 DEF Signal, SignalDone, SpinDone
<1>7. CASE ClearParallel \/ ClearRcSync \/ FreeSignal
  BY <1>7 DEF ClearParallel, ClearRcSync, FreeSignal
<1>8. CASE FreeSignalDone \/ JoinDone \/ SpawnFail
  BY <1>8 DEF FreeSignalDone, JoinDone, SpawnFail
<1>9. CASE QueryStart \/ Cancel \/ FreeBegin
  BY <1>9 DEF QueryStart, Cancel, FreeBegin
<1>10. CASE Recreate
  BY <1>10 DEF Recreate
<1>11. CASE Publish
  <2>1. task_claim = base /\ i = n_tasks /\ \A j \in 0..(i - 1) : tasks[Slot(base + j)] = base + j
    BY <1>11 DEF Publish, FillInv, Barrier
  <2>2. ASSUME NEW k \in task_claim..(base + n_tasks - 1) PROVE tasks[Slot(k)] = k
    <3>1. k - base \in 0..(i - 1) /\ base + (k - base) = k
      BY <2>1
    <3>2. QED BY <2>1, <3>1
  <2>3. QED BY <2>2, <1>11 DEF Publish
<1>12. ASSUME NEW n \in 1..MaxTasks, DispatchBegin(n) PROVE WindowInv'
  BY <1>12 DEF DispatchBegin, Doubled, MinOf
<1>13. ASSUME NEW v \in 1..NWorkers, SetActive(v) PROVE WindowInv'
  BY <1>13 DEF SetActive, NotePeak
<1>14. QED
  BY <1>1, <1>2, <1>3, <1>4, <1>5, <1>6, <1>7, <1>8, <1>9, <1>10, <1>11, <1>12,
    <1>13
  DEF Next, MainStep, Request, Thread, WorkerStep

(* A claim takes a ticket of the window, whose slot is not written while a
   ticket is held. *)
LEMMA SlotStep == Inv /\ [Next]_vars => SlotIntact'
<1> SUFFICES ASSUME Inv, [Next]_vars PROVE SlotIntact'
  OBVIOUS
<1> USE PoolAssumption DEF Inv, TypeOK, Thread, MainPc, WorkerPc, ClaimPc,
  TicketPc, Goto, cursors, ring, gate, flags, locals, history, SlotIntact,
  WindowPc, Slot
<1>1. CASE UNCHANGED vars
  BY <1>1 DEF vars
<1>2. ASSUME NEW t \in Thread, TaskLoop(t) PROVE SlotIntact'
  <2>1. CASE LoadClaim(t) \/ LoadLimit(t) \/ ClaimRetry(t) \/ SkipCancelled(t)
    \/ RunTask(t) \/ ReturnTask(t) \/ FinishTask(t)
    BY <2>1 DEF LoadClaim, LoadLimit, ClaimRetry, SkipCancelled, RunTask,
      ReturnTask, FinishTask
  <2>2. CASE ClaimCas(t)
    <3>1. pc[Main] \in WindowPc /\ task_claim < task_limit
      BY <2>2 DEF ClaimCas, CursorInv, Barrier
    <3>2. tasks[Slot(task_claim)] = task_claim
      BY <3>1 DEF WindowInv
    <3>3. QED BY <3>2, <2>2 DEF ClaimCas
  <2>3. QED BY <1>2, <2>1, <2>2 DEF TaskLoop
<1>3. ASSUME NEW w \in Worker, Spawn(w) \/ (WorkerStep(w) /\ ~TaskLoop(w)) PROVE SlotIntact'
  <2>1. CASE SemWait(w) \/ CheckShutdown(w) \/ Enter(w) \/ Gate(w) \/ Leave(w)
    \/ Spawn(w)
    BY <2>1 DEF SemWait, CheckShutdown, Enter, Gate, Leave, NotePeak, Spawn
  <2>2. QED BY <1>3, <2>1 DEF WorkerStep
<1>4. CASE SpawnDone \/ FillDone \/ StorePending \/ Publish \/ SetParallel \/
  SetRcSync \/ Signal
  BY <1>4 DEF SpawnDone, FillDone, StorePending, Publish, SetParallel, SetRcSync, Signal
<1>5. CASE SignalDone \/ SpinDone \/ ClearParallel \/ ClearRcSync \/ FreeSignal
  \/ FreeSignalDone \/ JoinDone
  BY <1>5 DEF SignalDone, SpinDone, ClearParallel, ClearRcSync, FreeSignal,
    FreeSignalDone, JoinDone
<1>6. CASE SpawnFail \/ QueryStart \/ Cancel \/ FreeBegin \/ Recreate
  BY <1>6 DEF SpawnFail, QueryStart, Cancel, FreeBegin, Recreate
<1>7. CASE FillSlot
  <2>1. \A t \in Thread : pc[t] # "claimed"
    BY <1>7 DEF FillSlot, Barrier, Holding
  <2>2. QED BY <2>1, <1>7 DEF FillSlot
<1>8. ASSUME NEW n \in 1..MaxTasks, DispatchBegin(n) PROVE SlotIntact'
  <2>1. \A t \in Thread : pc[t] # "claimed"
    BY <1>8 DEF DispatchBegin, Barrier, Holding
  <2>2. QED BY <2>1, <1>8 DEF DispatchBegin
<1>9. ASSUME NEW v \in 1..NWorkers, SetActive(v) PROVE SlotIntact'
  BY <1>9 DEF SetActive, NotePeak
<1>10. QED
  BY <1>1, <1>2, <1>3, <1>4, <1>5, <1>6, <1>7, <1>8, <1>9
  DEF Next, MainStep, Request, Thread, WorkerStep

(* A ticket is claimed by the one thread that moved the cursor over it, and
   leaves its hands as executed or as skipped. *)
LEMMA TicketStep == Inv /\ [Next]_vars => TicketInv'
<1> SUFFICES ASSUME Inv, [Next]_vars PROVE TicketInv'
  OBVIOUS
<1> USE PoolAssumption DEF Inv, TypeOK, Thread, MainPc, WorkerPc, ClaimPc,
  TicketPc, Goto, cursors, ring, gate, flags, locals, history, TicketInv
<1>1. CASE UNCHANGED vars
  BY <1>1 DEF vars
<1>2. ASSUME NEW t \in Thread, TaskLoop(t) PROVE TicketInv'
  <2>1. CASE LoadClaim(t)
    BY <2>1 DEF LoadClaim
  <2>2. CASE LoadLimit(t)
    BY <2>2 DEF LoadLimit
  <2>3. CASE ClaimRetry(t)
    BY <2>3 DEF ClaimRetry
  <2>4. CASE ReturnTask(t)
    BY <2>4 DEF ReturnTask
  <2>5. CASE FinishTask(t)
    BY <2>5 DEF FinishTask
  <2>6. CASE ClaimCas(t)
    <3>1. /\ cur[t] = task_claim /\ task_claim' = task_claim + 1 /\ cur' = cur
          /\ ran' = ran /\ skipped' = skipped /\ repeated' = repeated
      BY <2>6 DEF ClaimCas
    <3>2. pc[t] # "claimed" /\ \A s \in Thread : pc'[s] = IF s = t THEN "claimed" ELSE pc[s]
      BY <2>6 DEF ClaimCas
    <3>3. \A s \in Thread : pc[s] = "claimed" => cur[s] < task_claim
      BY DEF CursorInv
    <3>4. task_claim \notin ran \cup skipped
      OBVIOUS
    <3>5. \A k \in Nat : k < task_claim' <=>
             \/ k \in ran' \cup skipped'
             \/ \E s \in Thread : pc'[s] = "claimed" /\ cur'[s] = k
      <4> SUFFICES ASSUME NEW k \in Nat
           PROVE k < task_claim' <=>
             \/ k \in ran' \cup skipped'
             \/ \E s \in Thread : pc'[s] = "claimed" /\ cur'[s] = k
        OBVIOUS
      <4>1. k < task_claim' <=> k < task_claim \/ k = task_claim
        BY <3>1
      <4>2. k < task_claim <=> k \in ran \cup skipped \/ \E s \in Thread : pc[s] = "claimed" /\ cur[s] = k
        OBVIOUS
      <4>3. (\E s \in Thread : pc'[s] = "claimed" /\ cur'[s] = k)
             <=> k = task_claim \/ \E s \in Thread : pc[s] = "claimed" /\ cur[s] = k
        BY <3>1, <3>2
      <4>4. QED BY <3>1, <4>1, <4>2, <4>3
    <3>6. \A s \in Thread : pc'[s] = "claimed" => cur'[s] \notin ran' \cup skipped'
      BY <3>1, <3>2, <3>4
    <3>7. \A r, s \in Thread : pc'[r] = "claimed" /\ pc'[s] = "claimed" /\ r # s => cur'[r] # cur'[s]
      <4>1. \A r, s \in Thread : pc[r] = "claimed" /\ pc[s] = "claimed" /\ r # s => cur[r] # cur[s]
        BY DEF TicketInv
      <4>2. \A s \in Thread : pc[s] = "claimed" => cur[s] # cur[t]
        BY <3>1, <3>3
      <4> HIDE DEF TypeOK, Inv
      <4>3. QED BY <4>1, <4>2, <3>1, <3>2
    <3>8. QED BY <3>1, <3>5, <3>6, <3>7
  <2>7. CASE SkipCancelled(t)
    <3>3. /\ skipped' = skipped \cup {cur[t]} /\ ran' = ran
          /\ repeated' = repeated /\ task_claim' = task_claim
      BY <2>7 DEF SkipCancelled
    <3>4. cur' = cur /\ pc[t] = "claimed" /\ \A s \in Thread : pc'[s] = IF s = t THEN "finish" ELSE pc[s]
      BY <2>7 DEF SkipCancelled
    <3>11. \A s \in Thread : pc[s] = "claimed" /\ s # t => cur[s] # cur[t]
      BY <3>4 DEF TicketInv
    <3>12. ran \cap skipped = {} /\ cur[t] \notin ran \cup skipped /\ ~repeated
      BY <3>4 DEF TicketInv
    <3>13. \A s \in Thread : pc[s] = "claimed" => cur[s] \notin ran \cup skipped
      BY DEF TicketInv
    <3>14. \A r, s \in Thread : pc[r] = "claimed" /\ pc[s] = "claimed" /\ r # s => cur[r] # cur[s]
      BY DEF TicketInv
    <3> HIDE DEF TypeOK, Inv
    <3>5. \A s \in Thread : pc'[s] = "claimed" => pc[s] = "claimed" /\ cur'[s] = cur[s] /\ cur[s] # cur[t]
      BY <3>4, <3>11
    <3>6. \A k \in Nat : k < task_claim' <=>
             \/ k \in ran' \cup skipped'
             \/ \E s \in Thread : pc'[s] = "claimed" /\ cur'[s] = k
      <4> SUFFICES ASSUME NEW k \in Nat
           PROVE k < task_claim' <=>
             \/ k \in ran' \cup skipped'
             \/ \E s \in Thread : pc'[s] = "claimed" /\ cur'[s] = k
        OBVIOUS
      <4>1. k < task_claim' <=> k \in ran \cup skipped \/ \E s \in Thread : pc[s] = "claimed" /\ cur[s] = k
        BY <3>3 DEF Inv
      <4>2. CASE k = cur[t]
        BY <4>1, <4>2, <3>3, <3>4
      <4>3. CASE k # cur[t]
        BY <4>1, <4>3, <3>3, <3>4
      <4>4. QED BY <4>2, <4>3
    <3>7. ran' \cap skipped' = {} /\ ~repeated'
      BY <3>3, <3>12
    <3>8. \A s \in Thread : pc'[s] = "claimed" => cur'[s] \notin ran' \cup skipped'
      BY <3>3, <3>5, <3>13
    <3>9. \A r, s \in Thread : pc'[r] = "claimed" /\ pc'[s] = "claimed" /\ r # s => cur'[r] # cur'[s]
      BY <3>5, <3>14
    <3>10. QED BY <3>6, <3>7, <3>8, <3>9
  <2>8. CASE RunTask(t)
    <3>1. tasks[Slot(cur[t])] = cur[t]
      BY <2>8 DEF RunTask, SlotIntact
    <3>2. cur[t] \notin ran
      BY <2>8 DEF RunTask
    <3>3. /\ ran' = ran \cup {cur[t]} /\ skipped' = skipped
          /\ repeated' = FALSE /\ task_claim' = task_claim
      BY <3>1, <3>2, <2>8 DEF RunTask
    <3>4. cur' = cur /\ pc[t] = "claimed" /\ \A s \in Thread : pc'[s] = IF s = t THEN "run" ELSE pc[s]
      BY <2>8 DEF RunTask
    <3>11. \A s \in Thread : pc[s] = "claimed" /\ s # t => cur[s] # cur[t]
      BY <3>4 DEF TicketInv
    <3>12. ran \cap skipped = {} /\ cur[t] \notin ran \cup skipped /\ ~repeated
      BY <3>4 DEF TicketInv
    <3>13. \A s \in Thread : pc[s] = "claimed" => cur[s] \notin ran \cup skipped
      BY DEF TicketInv
    <3>14. \A r, s \in Thread : pc[r] = "claimed" /\ pc[s] = "claimed" /\ r # s => cur[r] # cur[s]
      BY DEF TicketInv
    <3> HIDE DEF TypeOK, Inv
    <3>5. \A s \in Thread : pc'[s] = "claimed" => pc[s] = "claimed" /\ cur'[s] = cur[s] /\ cur[s] # cur[t]
      BY <3>4, <3>11
    <3>6. \A k \in Nat : k < task_claim' <=>
             \/ k \in ran' \cup skipped'
             \/ \E s \in Thread : pc'[s] = "claimed" /\ cur'[s] = k
      <4> SUFFICES ASSUME NEW k \in Nat
           PROVE k < task_claim' <=>
             \/ k \in ran' \cup skipped'
             \/ \E s \in Thread : pc'[s] = "claimed" /\ cur'[s] = k
        OBVIOUS
      <4>1. k < task_claim' <=> k \in ran \cup skipped \/ \E s \in Thread : pc[s] = "claimed" /\ cur[s] = k
        BY <3>3 DEF Inv
      <4>2. CASE k = cur[t]
        BY <4>1, <4>2, <3>3, <3>4
      <4>3. CASE k # cur[t]
        BY <4>1, <4>3, <3>3, <3>4
      <4>4. QED BY <4>2, <4>3
    <3>7. ran' \cap skipped' = {} /\ ~repeated'
      BY <3>3, <3>12
    <3>8. \A s \in Thread : pc'[s] = "claimed" => cur'[s] \notin ran' \cup skipped'
      BY <3>3, <3>5, <3>13
    <3>9. \A r, s \in Thread : pc'[r] = "claimed" /\ pc'[s] = "claimed" /\ r # s => cur'[r] # cur'[s]
      BY <3>5, <3>14
    <3>10. QED BY <3>6, <3>7, <3>8, <3>9
  <2>9. QED BY <1>2, <2>1, <2>2, <2>3, <2>4, <2>5, <2>6, <2>7, <2>8 DEF TaskLoop
<1>3. ASSUME NEW w \in Worker, Spawn(w) \/ (WorkerStep(w) /\ ~TaskLoop(w)) PROVE TicketInv'
  <2>1. CASE SemWait(w)
    BY <2>1 DEF SemWait
  <2>2. CASE CheckShutdown(w)
    BY <2>2 DEF CheckShutdown
  <2>3. CASE Enter(w)
    BY <2>3 DEF Enter
  <2>4. CASE Gate(w)
    BY <2>4 DEF Gate
  <2>5. CASE Leave(w)
    BY <2>5 DEF Leave, NotePeak
  <2>6. CASE Spawn(w)
    BY <2>6 DEF Spawn
  <2>7. QED BY <1>3, <2>1, <2>2, <2>3, <2>4, <2>5, <2>6 DEF WorkerStep
<1>4. CASE SpawnDone
  BY <1>4 DEF SpawnDone
<1>5. CASE FillSlot
  BY <1>5 DEF FillSlot
<1>6. CASE FillDone
  BY <1>6 DEF FillDone
<1>7. CASE StorePending
  BY <1>7 DEF StorePending
<1>8. CASE Publish
  BY <1>8 DEF Publish
<1>9. CASE SetParallel
  BY <1>9 DEF SetParallel
<1>10. CASE SetRcSync
  BY <1>10 DEF SetRcSync
<1>11. CASE Signal
  BY <1>11 DEF Signal
<1>12. CASE SignalDone
  BY <1>12 DEF SignalDone
<1>13. CASE SpinDone
  BY <1>13 DEF SpinDone
<1>14. CASE ClearParallel
  BY <1>14 DEF ClearParallel
<1>15. CASE ClearRcSync
  BY <1>15 DEF ClearRcSync
<1>16. CASE FreeSignal
  BY <1>16 DEF FreeSignal
<1>17. CASE FreeSignalDone
  BY <1>17 DEF FreeSignalDone
<1>18. CASE JoinDone
  BY <1>18 DEF JoinDone
<1>19. CASE SpawnFail
  BY <1>19 DEF SpawnFail
<1>20. CASE QueryStart
  BY <1>20 DEF QueryStart
<1>21. CASE Cancel
  BY <1>21 DEF Cancel
<1>22. CASE FreeBegin
  BY <1>22 DEF FreeBegin
<1>23. CASE Recreate
  <2>1. \A t \in Thread : pc'[t] # "claimed"
    BY <1>23 DEF Recreate
  <2>2. task_claim' = 0 /\ ran' = {} /\ skipped' = {} /\ ~repeated'
    BY <1>23 DEF Recreate
  <2>3. QED BY <2>1, <2>2
<1>24. ASSUME NEW n \in 1..MaxTasks, DispatchBegin(n) PROVE TicketInv'
  BY <1>24 DEF DispatchBegin, Doubled, MinOf
<1>25. ASSUME NEW v \in 1..NWorkers, SetActive(v) PROVE TicketInv'
  BY <1>25 DEF SetActive, NotePeak
<1>26. QED
  BY <1>1, <1>2, <1>3, <1>4, <1>5, <1>6, <1>7, <1>8, <1>9, <1>10, <1>11, <1>12,
    <1>13, <1>14, <1>15, <1>16, <1>17, <1>18, <1>19, <1>20, <1>21, <1>22,
    <1>23, <1>24, <1>25
  DEF Next, MainStep, Request, Thread, WorkerStep

(* Inv is inductive.                                                          *)
LEMMA Inductive == Inv /\ [Next]_vars => Inv'
  BY TypeStep, CursorStep, RunningStep, PendingStep, BarrierStep, FillStep, WindowStep,
     SlotStep, TicketStep, FlagStep
  DEF Inv

(* The state ray_pool_create sets up satisfies Inv.                           *)
LEMMA Initial == Init => Inv
<1> SUFFICES ASSUME Init PROVE Inv
  OBVIOUS
<1> USE PoolAssumption, Countable DEF Init, Thread
<1>1. pc[Main] = "spawn" /\ \A w \in Worker : pc[w] = "unborn"
  OBVIOUS
<1>2. Holding = {} /\ Inside = {}
  BY <1>1 DEF Holding, Inside, TicketPc, ClaimPc
<1>3. TypeOK
  <2>1. pc \in [Thread -> MainPc \cup WorkerPc]
    BY DEF MainPc, WorkerPc
  <2>2. tasks \in [0..(MaxRingCap - 1) -> Nat \cup {-1}]
    OBVIOUS
  <2>3. cur \in [Thread -> Nat] /\ old \in [Worker -> Nat]
    OBVIOUS
  <2>4. pc[Main] \in MainPc /\ \A w \in Worker : pc[w] \in WorkerPc
    BY <1>1 DEF MainPc, WorkerPc
  <2>5. task_cap \in InitCap..MaxRingCap /\ n_active \in 0..NWorkers /\ peak \in 0..NWorkers
    OBVIOUS
  <2>6. QED BY <2>1, <2>2, <2>3, <2>4, <2>5 DEF TypeOK
<1>4. CursorInv /\ FlagInv
  BY <1>1 DEF CursorInv, FlagInv, TicketPc, ClaimPc, WindowPc
<1>5. RunningExact /\ PendingExact
  BY <1>1, <1>2, FS_EmptySet DEF RunningExact, PendingExact
<1>6. Barrier
  BY <1>2 DEF Barrier
<1>7. FillInv /\ WindowInv /\ SlotIntact
  BY <1>1 DEF FillInv, WindowInv, SlotIntact, WindowPc, TicketPc, ClaimPc
<1>8. TicketInv
  <2>1. \A t \in Thread : pc[t] # "claimed"
    BY <1>1
  <2>2. QED BY <2>1 DEF TicketInv
<1>9. QED BY <1>3, <1>4, <1>5, <1>6, <1>7, <1>8 DEF Inv

(* Inv holds in every reachable state.                                        *)
LEMMA Invariant == Spec => []Inv
  BY Initial, Inductive, PTL DEF Spec

-------------------------------------------------------------------------------
(* Every field of the pool keeps its type; in particular pending and          *)
(* n_running, which are unsigned in the code, are never decremented below 0.  *)
THEOREM TypeCorrect == Spec => []TypeOK
<1>1. Inv => TypeOK
  BY DEF Inv
<1>2. QED BY Invariant, <1>1, PTL

(* pending is exact: the spin of ray_pool_dispatch neither hangs nor ends     *)
(* early, however workers and cancellations interleave.                       *)
THEOREM PendingCorrect == Spec => []PendingExact
<1>1. Inv => PendingExact
  BY DEF Inv
<1>2. QED BY Invariant, <1>1, PTL

(* When the main thread is not inside an open window, no ticket is held and   *)
(* none can be claimed.                                                       *)
THEOREM BarrierCorrect == Spec => []Barrier
<1>1. Inv => Barrier
  BY DEF Inv
<1>2. QED BY Invariant, <1>1, PTL

(* A claimed ticket's slot holds that ticket's task.                          *)
THEOREM SlotCorrect == Spec => []SlotIntact
<1>1. Inv => SlotIntact
  BY DEF Inv
<1>2. QED BY Invariant, <1>1, PTL

(* Every task of every window is executed once, or skipped once.              *)
THEOREM ExactlyOnceCorrect == Spec => []ExactlyOnce
<1>1. Inv => ExactlyOnce
  <2> SUFFICES ASSUME Inv PROVE ExactlyOnce
    OBVIOUS
  <2>1. ~repeated /\ ran \cap skipped = {}
    BY DEF Inv, TicketInv
  <2>2. ASSUME pc[Main] \notin WindowPc PROVE ran \cup skipped = 0..(task_limit - 1)
    <3>1. task_claim = task_limit /\ \A t \in Thread : pc[t] # "claimed"
      BY <2>2 DEF Inv, Barrier, Holding, TicketPc
    <3>2. \A k \in Nat : k < task_limit <=> k \in ran \cup skipped
      BY <3>1 DEF Inv, TicketInv
    <3>3. ran \cup skipped \subseteq Nat /\ task_limit \in Nat
      BY DEF Inv, TypeOK
    <3>4. QED BY <3>2, <3>3
  <2>3. QED BY <2>1, <2>2 DEF ExactlyOnce
<1>2. QED BY Invariant, <1>1, PTL

(* While a worker runs a task the region flags are on, or the main thread is  *)
(* still on its way to set them.                                              *)
THEOREM RegionCorrect == Spec => []RegionCovers
<1>1. Inv => RegionCovers
  BY DEF Inv, RegionCovers, Barrier, FlagInv, Holding, Thread, TicketPc, WindowPc
<1>2. QED BY Invariant, <1>1, PTL

(* Together: the accounts of the claim loop are exact for any number of       *)
(* workers, any ring and any sequence of windows.                             *)
THEOREM TicketsCorrect == Spec => []TicketsExact
<1>1. TypeOK /\ PendingExact /\ SlotIntact /\ ExactlyOnce => TicketsExact
  BY DEF TicketsExact
<1>2. QED BY TypeCorrect, PendingCorrect, SlotCorrect, ExactlyOnceCorrect, <1>1, PTL

-------------------------------------------------------------------------------
(* The admission cap.  A worker at the gate is a candidate under a cap m if   *)
(* fewer than m workers were inside when it came: it would be let in.         *)
Candidates(m) ==
  {w \in Worker : \/ pc[w] \in ClaimPc \cup TicketPc \cup {"leave"}
                  \/ pc[w] = "gate" /\ old[w] < m}

(* Whatever cap from the peak upwards `\s` may set next, those admitted and   *)
(* those it would admit are no more than that cap.                            *)
CapInv ==
  /\ n_active <= peak
  /\ \A m \in Nat : m >= peak => Cardinality(Candidates(m)) <= m

(* Candidates are inside, so n_running bounds them.                           *)
LEMMA CandidatesInside ==
  ASSUME NEW m
  PROVE  /\ Candidates(m) \subseteq Inside
         /\ IsFiniteSet(Candidates(m))
         /\ Cardinality(Candidates(m)) \in Nat
         /\ Cardinality(Candidates(m)) <= Cardinality(Inside)
<1>1. Candidates(m) \subseteq Inside
  BY DEF Candidates, Inside
<1>2. QED BY <1>1, Countable, FS_Subset, FS_CardinalityType

(* A step that brings no candidate and does not lower the peak keeps CapInv.  *)
LEMMA NoNewCandidate ==
  ASSUME TypeOK, TypeOK', CapInv, n_active' <= peak', peak <= peak',
         \A m \in Nat : m >= peak' => Candidates(m)' \subseteq Candidates(m)
  PROVE  CapInv'
<1> SUFFICES ASSUME NEW m \in Nat, m >= peak' PROVE Cardinality(Candidates(m)') <= m
  BY DEF CapInv
<1>1. Candidates(m)' \subseteq Candidates(m)
  OBVIOUS
<1>2. Cardinality(Candidates(m)) <= m
  BY Countable DEF CapInv, TypeOK
<1>3. QED BY <1>1, <1>2, CandidatesInside, FS_Subset, FS_CardinalityType

(* The gate judges a worker by the count at its entry, and the cap may have   *)
(* moved since: a step keeps CapInv all the same.                             *)
LEMMA CapStep == Inv /\ Inv' /\ CapInv /\ [Next]_vars => CapInv'
<1> SUFFICES ASSUME Inv, Inv', CapInv, [Next]_vars PROVE CapInv'
  OBVIOUS
<1> USE PoolAssumption, Countable DEF Thread, MainPc, WorkerPc, ClaimPc, TicketPc,
  Goto, cursors, ring, gate, flags, locals, history
<1>0. TypeOK /\ TypeOK'
  BY DEF Inv
<1>0a. n_active \in Nat /\ peak \in Nat /\ n_active <= peak /\ old \in [Worker -> Nat]
  BY <1>0 DEF CapInv, TypeOK
<1>1. ASSUME UNCHANGED <<n_active, peak, old>>,
             \A w \in Worker : pc'[w] = pc[w]
      PROVE  CapInv'
  <2>1. \A m \in Nat : Candidates(m)' \subseteq Candidates(m)
    BY <1>1 DEF Candidates
  <2>2. QED BY <1>0, <1>1, <2>1, <1>0a, NoNewCandidate
<1>2. ASSUME NEW t \in Thread, TaskLoop(t) PROVE CapInv'
  <2>1. UNCHANGED <<n_active, peak, old>>
    BY <1>2 DEF TaskLoop, LoadClaim, LoadLimit, ClaimCas, ClaimRetry, SkipCancelled,
      RunTask, ReturnTask, FinishTask
  <2>2. /\ pc[t] \in ClaimPc \cup TicketPc
        /\ t \in Worker => pc'[t] \in ClaimPc \cup TicketPc \cup {"leave"}
        /\ \A w \in Worker : w # t => pc'[w] = pc[w]
    <3>1. CASE LoadClaim(t) \/ ClaimCas(t) \/ ClaimRetry(t)
      BY <1>0, <3>1 DEF LoadClaim, ClaimCas, ClaimRetry, TypeOK
    <3>2. CASE SkipCancelled(t) \/ RunTask(t) \/ ReturnTask(t) \/ FinishTask(t)
      BY <1>0, <3>2 DEF SkipCancelled, RunTask, ReturnTask, FinishTask, TypeOK
    <3>3. CASE LoadLimit(t)
      BY <1>0, <3>3 DEF LoadLimit, TypeOK
    <3>4. QED BY <1>2, <3>1, <3>2, <3>3 DEF TaskLoop
  <2>3. \A m \in Nat : Candidates(m)' \subseteq Candidates(m)
    BY <2>1, <2>2 DEF Candidates
  <2>4. QED BY <1>0, <2>1, <2>3, <1>0a, NoNewCandidate
<1>3. ASSUME NEW w \in Worker, SemWait(w) \/ CheckShutdown(w) \/ Spawn(w) PROVE CapInv'
  <2>1. UNCHANGED <<n_active, peak, old>> /\ (\A u \in Worker : u # w => pc'[u] = pc[u])
    BY <1>0, <1>3 DEF SemWait, CheckShutdown, Spawn, TypeOK
  <2>2. pc'[w] \in {"wait", "woken", "enter", "exited"}
    BY <1>0, <1>3 DEF SemWait, CheckShutdown, Spawn, TypeOK
  <2>3. \A m \in Nat : Candidates(m)' \subseteq Candidates(m)
    BY <2>1, <2>2 DEF Candidates
  <2>4. QED BY <1>0, <2>1, <2>3, <1>0a, NoNewCandidate
<1>4. ASSUME NEW w \in Worker, Enter(w) PROVE CapInv'
  <2>1. UNCHANGED <<n_active, peak>> /\ n_running = Cardinality(Inside)
    BY <1>4 DEF Enter, Inv, RunningExact
  <2>2. SUFFICES ASSUME NEW m \in Nat, m >= peak PROVE Cardinality(Candidates(m)') <= m
    BY <2>1 DEF CapInv
  <2>3. Cardinality(Candidates(m)) <= m
    BY <2>2 DEF CapInv
  <2>4. CASE n_running < m
    <3>1. Candidates(m)' = Candidates(m) \cup {w} /\ w \notin Candidates(m)
      BY <1>0, <1>4, <2>4 DEF Enter, Candidates, TypeOK
    <3>2. Cardinality(Candidates(m)') = Cardinality(Candidates(m)) + 1
      BY <3>1, CandidatesInside, FS_AddElement
    <3>3. QED BY <2>1, <2>4, <3>2, CandidatesInside
  <2>5. CASE ~(n_running < m)
    <3>1. Candidates(m)' = Candidates(m)
      BY <1>0, <1>4, <2>5 DEF Enter, Candidates, TypeOK
    <3>2. QED BY <2>3, <3>1
  <2>6. QED BY <2>4, <2>5
<1>5. ASSUME NEW w \in Worker, Gate(w) PROVE CapInv'
  <2>1. UNCHANGED <<n_active, peak>>
    BY <1>5 DEF Gate
  <2>2. ASSUME NEW m \in Nat, m >= peak PROVE Candidates(m)' \subseteq Candidates(m)
    <3>1. CASE old[w] >= n_active
      BY <1>0, <1>5, <3>1 DEF Gate, Candidates, TypeOK
    <3>2. CASE old[w] < n_active
      <4>1. old[w] < m
        BY <1>0a, <2>2, <3>2
      <4>2. w \in Candidates(m)
        BY <1>5, <4>1 DEF Gate, Candidates
      <4>3. \A u \in Worker : u # w => pc'[u] = pc[u] /\ old'[u] = old[u]
        BY <1>0, <1>5 DEF Gate, TypeOK
      <4>4. QED BY <4>2, <4>3 DEF Candidates
    <3>3. QED BY <1>0a, <3>1, <3>2
  <2>3. QED BY <1>0, <2>1, <2>2, <1>0a, NoNewCandidate
<1>6. ASSUME NEW w \in Worker, Leave(w) PROVE CapInv'
  <2>1. n_active' <= peak' /\ (n_running' # 0 => peak <= peak')
    BY <1>0, <1>6 DEF Leave, NotePeak, CapInv, TypeOK
  <2>2. \A m \in Nat : Candidates(m)' \subseteq Candidates(m)
    BY <1>0, <1>6 DEF Leave, Candidates, TypeOK
  <2>3. CASE n_running' # 0
    BY <1>0, <2>1, <2>2, <2>3, NoNewCandidate
  <2>4. CASE n_running' = 0
    <3>1. Inside' = {}
      <4>1. Cardinality(Inside') = 0
        BY <2>4 DEF Inv, RunningExact
      <4>2. IsFiniteSet(Inside')
        BY FS_Subset DEF Inside
      <4>3. QED BY <4>1, <4>2, FS_EmptySet
    <3>2. \A m \in Nat : Candidates(m)' = {}
      BY <3>1 DEF Candidates, Inside
    <3>3. QED BY <2>1, <3>2, FS_EmptySet DEF CapInv
  <2>5. QED BY <2>3, <2>4
<1>7. ASSUME NEW v \in 1..NWorkers, SetActive(v) PROVE CapInv'
  <2>1. n_active' <= peak' /\ (n_running' # 0 => peak <= peak')
    BY <1>0, <1>7 DEF SetActive, NotePeak, CapInv, TypeOK
  <2>2. \A m \in Nat : Candidates(m)' \subseteq Candidates(m)
    BY <1>0, <1>7 DEF SetActive, Candidates, TypeOK
  <2>3. CASE n_running' # 0
    BY <1>0, <2>1, <2>2, <2>3, NoNewCandidate
  <2>4. CASE n_running' = 0
    <3>1. Inside = {}
      BY <1>7, <2>4, FS_EmptySet DEF SetActive, Inv, RunningExact
    <3>2. \A m \in Nat : Candidates(m)' = {}
      BY <2>2, <3>1 DEF Candidates, Inside
    <3>3. QED BY <2>1, <3>2, FS_EmptySet DEF CapInv
  <2>5. QED BY <2>3, <2>4
<1>8. CASE Recreate
  <2>1. \A w \in Worker : pc'[w] = "unborn"
    BY <1>8 DEF Recreate
  <2>2. \A m \in Nat : Candidates(m)' = {}
    BY <2>1 DEF Candidates
  <2>3. \A m \in Nat : Cardinality(Candidates(m)') <= m
    BY <2>2, FS_EmptySet
  <2>4. n_active' <= peak'
    BY <1>8 DEF Recreate
  <2>5. QED BY <2>3, <2>4 DEF CapInv
<1>9. CASE SpawnDone \/ FillSlot \/ FillDone \/ StorePending \/ Publish \/ SetParallel
  BY <1>0, <1>1, <1>9 DEF SpawnDone, FillSlot, FillDone, StorePending, Publish, SetParallel, TypeOK
<1>10. CASE SetRcSync \/ Signal \/ SignalDone \/ SpinDone \/ ClearParallel \/ ClearRcSync
  BY <1>0, <1>1, <1>10 DEF SetRcSync, Signal, SignalDone, SpinDone, ClearParallel, ClearRcSync, TypeOK
<1>11. CASE FreeSignal \/ FreeSignalDone \/ JoinDone \/ SpawnFail \/ QueryStart \/ Cancel \/ FreeBegin
  BY <1>0, <1>1, <1>11 DEF FreeSignal, FreeSignalDone, JoinDone, SpawnFail, QueryStart, Cancel,
    FreeBegin, TypeOK
<1>12. ASSUME NEW n \in 1..MaxTasks, DispatchBegin(n) PROVE CapInv'
  BY <1>0, <1>1, <1>12 DEF DispatchBegin, TypeOK
<1>13. CASE UNCHANGED vars
  BY <1>1, <1>13 DEF vars
<1>14. QED
  BY <1>2, <1>3, <1>4, <1>5, <1>6, <1>7, <1>8, <1>9, <1>10, <1>11, <1>12, <1>13
  DEF Next, MainStep, Request, WorkerStep

(* The gate of worker_loop keeps `\s`: for any number of workers and surplus  *)
(* wake-ups, and however the cap changes while workers are inside, no more    *)
(* are admitted than the highest cap since the pool was last empty.           *)
THEOREM CapCorrect == Spec => []CapRespected
<1>1. Init => CapInv
  <2> SUFFICES ASSUME Init PROVE CapInv
    OBVIOUS
  <2>1. \A w \in Worker : pc[w] = "unborn"
    BY PoolAssumption DEF Init, Thread
  <2>2. \A m \in Nat : Candidates(m) = {}
    BY <2>1 DEF Candidates, ClaimPc, TicketPc
  <2>3. \A m \in Nat : Cardinality(Candidates(m)) <= m
    BY <2>2, FS_EmptySet
  <2>4. n_active <= peak
    BY Countable DEF Init
  <2>5. QED BY <2>3, <2>4 DEF CapInv
<1>2. Inv /\ CapInv => CapRespected
  <2> SUFFICES ASSUME Inv, CapInv PROVE CapRespected
    OBVIOUS
  <2>1. peak \in Nat
    BY Countable DEF Inv, TypeOK
  <2>2. Admitted \subseteq Candidates(peak)
    BY DEF Admitted, Candidates
  <2>3. Cardinality(Admitted) <= Cardinality(Candidates(peak)) /\ Cardinality(Admitted) \in Nat
    BY <2>2, CandidatesInside, FS_Subset, FS_CardinalityType
  <2>4. Cardinality(Candidates(peak)) <= peak
    BY <2>1 DEF CapInv
  <2>5. QED BY <2>1, <2>3, <2>4, CandidatesInside DEF CapRespected
<1>3. QED BY Invariant, <1>1, <1>2, CapStep, PTL DEF Spec
===============================================================================
