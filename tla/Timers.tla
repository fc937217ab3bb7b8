-------------------------------- MODULE Timers --------------------------------
(***************************************************************************)
(* The timer heap of src/src/core/timer.c, driven by the event loop        *)
(* (ray_poll_run) and used by q's `\t N` (h_t in qlang/ops/q_sys.c) and by *)
(* .time.timer.set / .time.timer.del (ops/system.c).                       *)
(*                                                                         *)
(* A callback runs between the pop of its timer and the re-push; while it  *)
(* runs it may add and delete timers, and change `\t`.  Deadlines and the  *)
(* loop's cached `now` are relative to the current time (0), which makes   *)
(* the clock unbounded: a tick moves every deadline one step closer.       *)
(***************************************************************************)
EXTENDS TimerHeap

CONSTANTS
  InitCap,    \* slots of a new heap (16 in the code)
  Tics,       \* intervals of user timers, in ticks
  Nums,       \* fire counts of user timers; 0 = forever
  QTics,      \* arguments of `\t N`, N > 0
  MaxId,      \* bound: timers created in the life of one heap
  MaxLate     \* bound: how late, in ticks, a deadline is noticed

ASSUME TimersAssumption ==
  /\ InitCap \in Nat \ {0} /\ MaxId \in Nat /\ MaxLate \in Nat
  /\ Tics \subseteq Nat /\ Nums \subseteq Nat /\ QTics \subseteq Nat \ {0}

VARIABLES
  heap,          \* t->heap[0 .. n-1]; heap[i + 1] is the code's heap[i]
  cap, next_id,
  pc,            \* idle (in poll), loop (fire_expired's test), callback
  fnow,          \* fire_expired's `now`
  firing,        \* the timer popped, as a sequence of at most one
  g_timer_id,    \* the id `\t` thinks it owns, -1 = none
  g_timer_on,    \* g_timer_ms > 0
  severed        \* history: `\t`'s timer was deleted by its number

vars == <<heap, cap, next_id, pc, fnow, firing, g_timer_id, g_timer_on, severed>>
qstate == <<g_timer_id, g_timer_on, severed>>

TypeOK ==
  /\ \A k \in DOMAIN heap : heap[k].exp >= -MaxLate /\ heap[k].id < next_id
  /\ cap \in Nat /\ next_id \in 0..MaxId
  /\ pc \in {"idle", "loop", "callback"} /\ fnow \in (-MaxLate)..0
  /\ Len(firing) = (IF pc = "callback" THEN 1 ELSE 0)
  /\ g_timer_id \in -1..(MaxId - 1) /\ g_timer_on \in BOOLEAN
  /\ severed \in BOOLEAN

Init ==
  /\ heap = <<>> /\ cap = InitCap /\ next_id = 0
  /\ pc = "idle" /\ fnow = 0 /\ firing = <<>>
  /\ g_timer_id = -1 /\ g_timer_on = FALSE /\ severed = FALSE

-------------------------------------------------------------------------------
(* ray_timers_del's effect on the heap; an id that is not there changes       *)
(* nothing.                                                                   *)
Without(id) ==
  LET Found == {k \in DOMAIN heap : heap[k].id = id}
  IN  IF Found = {} THEN heap ELSE HeapRemove(heap, (CHOOSE k \in Found : TRUE) - 1)

New(tic, num, q) == [id |-> next_id, tic |-> tic, num |-> num, exp |-> tic, q |-> q]

Grown(h) == IF Len(h) >= cap THEN cap * 2 ELSE cap

-------------------------------------------------------------------------------
(* Code that runs between polls or inside a callback.                         *)

(* The timers that exist: waiting, or in flight.                              *)
Entries == {heap[k] : k \in DOMAIN heap} \cup {firing[k] : k \in DOMAIN firing}

User == pc \in {"idle", "callback"}

(* .time.timer.set                                                            *)
TimerAdd(tic, num) ==
  /\ User /\ next_id < MaxId
  /\ cap' = Grown(heap)
  /\ heap' = Push(heap, New(tic, num, FALSE))
  /\ next_id' = next_id + 1
  /\ UNCHANGED <<pc, fnow, firing, qstate>>

(* No memory for the timer, after the array had grown or could not grow.      *)
TimerAddFails ==
  /\ User /\ next_id < MaxId
  /\ cap' \in {cap, Grown(heap)}
  /\ UNCHANGED <<heap, next_id, pc, fnow, firing, qstate>>

(* .time.timer.del of any number: one that .time.timer.set returned, a stale  *)
(* one, or that of the timer `\t` made, which `\t` is not told of.            *)
TimerDel(id) ==
  /\ User
  /\ heap' = Without(id)
  /\ severed' = (severed \/ (id = g_timer_id /\ \E k \in DOMAIN heap : heap[k].id = id))
  /\ UNCHANGED <<cap, next_id, pc, fnow, firing, g_timer_id, g_timer_on>>

(* Fault: the deleted timer's id and interval are kept.                       *)
StopQForgets ==
  /\ User
  /\ heap' = IF g_timer_id >= 0 THEN Without(g_timer_id) ELSE heap
  /\ UNCHANGED <<cap, next_id, pc, fnow, firing, qstate>>

(* `\t 0`                                                                     *)
StopQ ==
  /\ User
  /\ heap' = IF g_timer_id >= 0 THEN Without(g_timer_id) ELSE heap
  /\ g_timer_id' = -1 /\ g_timer_on' = FALSE /\ severed' = FALSE
  /\ UNCHANGED <<cap, next_id, pc, fnow, firing>>

(* `\t N`: the timer it knows of is deleted, a new one is added.              *)
SetQ(v) ==
  /\ User /\ next_id < MaxId
  /\ LET h == IF g_timer_id >= 0 THEN Without(g_timer_id) ELSE heap
     IN  /\ cap' = Grown(h)
         /\ heap' = Push(h, New(v, 0, TRUE))
  /\ next_id' = next_id + 1
  /\ g_timer_id' = next_id /\ g_timer_on' = TRUE /\ severed' = FALSE
  /\ UNCHANGED <<pc, fnow, firing>>

(* `\t N` whose add fails, after the array had grown or could not, leaves the *)
(* timer off.                                                                 *)
SetQFails ==
  /\ User
  /\ LET h == IF g_timer_id >= 0 THEN Without(g_timer_id) ELSE heap
     IN  heap' = h /\ cap' \in {cap, Grown(h)}
  /\ g_timer_id' = -1 /\ g_timer_on' = FALSE /\ severed' = FALSE
  /\ UNCHANGED <<next_id, pc, fnow, firing>>

-------------------------------------------------------------------------------
(* ray_timers_fire_expired, called at the end of every poll iteration, which  *)
(* waits no longer than the first deadline.                                   *)

FireBegin ==
  /\ pc = "idle" /\ heap # <<>> /\ At(heap, 0).exp <= 0
  /\ fnow' = 0 /\ pc' = "loop"
  /\ UNCHANGED <<heap, cap, next_id, firing, qstate>>

(* The head is popped and its callback entered.                               *)
Pop ==
  /\ pc = "loop" /\ heap # <<>> /\ At(heap, 0).exp <= fnow
  /\ firing' = <<At(heap, 0)>>
  /\ heap' = HeapPop(heap)
  /\ pc' = "callback" /\ fnow' = 0
  /\ UNCHANGED <<cap, next_id, qstate>>

(* Fault: the next deadline counts from the end of the callback, not from     *)
(* the deadline that was met.                                                 *)
ReturnFromNow ==
  /\ pc = "callback"
  /\ LET t == Head(firing)
     IN  heap' = IF t.num = 1 THEN heap ELSE Push(heap, [t EXCEPT !.exp = t.tic])
  /\ firing' = <<>>
  /\ pc' = "loop" /\ fnow' = 0
  /\ UNCHANGED <<cap, next_id, qstate>>

(* Fault: the deadline is not advanced.                                       *)
ReturnSameDeadline ==
  /\ pc = "callback"
  /\ LET t == Head(firing)
     IN  heap' = IF t.num = 1 THEN heap
                 ELSE Push(heap, [t EXCEPT !.num = IF @ = 0 THEN 0 ELSE @ - 1])
  /\ firing' = <<>>
  /\ pc' = "loop" /\ fnow' = 0
  /\ UNCHANGED <<cap, next_id, qstate>>

(* The callback returned (its error, if any, is printed).  The re-push has no *)
(* capacity check; `now` is refreshed.                                        *)
ReturnFire ==
  /\ pc = "callback"
  /\ LET t == Head(firing)
     IN  IF t.num = 1 THEN UNCHANGED heap
         ELSE heap' = Push(heap, [t EXCEPT !.exp = @ + t.tic, !.num = IF @ = 0 THEN 0 ELSE @ - 1])
  /\ firing' = <<>>
  /\ pc' = "loop" /\ fnow' = 0
  /\ UNCHANGED <<cap, next_id, qstate>>

FireEnd ==
  /\ pc = "loop"
  /\ heap # <<>> => At(heap, 0).exp > fnow
  /\ pc' = "idle" /\ fnow' = 0
  /\ UNCHANGED <<heap, cap, next_id, firing, qstate>>

Sooner(s) == [k \in DOMAIN s |-> [s[k] EXCEPT !.exp = @ - 1]]

(* A millisecond passes, anywhere; fnow is live only in the loop test.        *)
Tick ==
  /\ \A k \in DOMAIN heap : heap[k].exp > -MaxLate
  /\ \A k \in DOMAIN firing : firing[k].exp > -MaxLate
  /\ fnow > -MaxLate
  /\ heap' = Sooner(heap) /\ firing' = Sooner(firing)
  /\ fnow' = IF pc = "loop" THEN fnow - 1 ELSE fnow
  /\ UNCHANGED <<cap, next_id, pc, qstate>>

(* The poll is destroyed with its timers, and a new runtime starts.           *)
Restart ==
  /\ pc = "idle"
  /\ heap' = <<>> /\ cap' = InitCap /\ next_id' = 0
  /\ g_timer_id' = -1 /\ g_timer_on' = FALSE /\ severed' = FALSE
  /\ UNCHANGED <<pc, fnow, firing>>

Users ==
  \/ \E tic \in Tics, num \in Nums : TimerAdd(tic, num)
  \/ TimerAddFails \/ StopQ \/ SetQFails \/ Restart
  \/ \E id \in 0..(MaxId - 1) : TimerDel(id)
  \/ \E v \in QTics : SetQ(v)

Loop == FireBegin \/ Pop \/ ReturnFire \/ FireEnd

Next == Users \/ Loop \/ Tick
Spec == Init /\ [][Next]_vars

(* The event loop runs, callbacks return, and the clock goes on.              *)
FairSpec == Spec /\ WF_vars(Loop) /\ WF_vars(Tick)

-------------------------------------------------------------------------------
(* No timer is due before the head, also right after a deletion or a re-push  *)
(* from a callback: ray_poll_run sleeps until the head's deadline and would   *)
(* oversleep an earlier one.                                                  *)
HeadFirst == \A k \in DOMAIN heap : k = 1 \/ heap_less(At(heap, 0), heap[k])

(* The array holds at most one entry more than its slots, and that one only   *)
(* until the next add: never two.                                             *)
OneOver == Len(heap) <= cap + 1

(* The timer `\t` believes it owns exists, waiting or in flight, until user   *)
(* code deletes it by its number; and the number it would delete is never     *)
(* that of a user's timer.                                                    *)
QTimerExists ==
  /\ g_timer_on /\ ~severed <=> \E t \in Entries : t.id = g_timer_id
  /\ \A t \in Entries : t.id = g_timer_id => t.q

(* The heap implements the abstract queue: timers fire one at a time, never   *)
(* early, earliest first, at drift-free deadlines, and none is lost.          *)
TQ == INSTANCE TimerQueue WITH
        Tic    <- Tics \cup QTics,
        Num    <- Nums,
        Id     <- -1..(MaxId - 1),
        queue  <- {heap[k] : k \in DOMAIN heap},
        flight <- {firing[k] : k \in DOMAIN firing}
ImplementsQueue == TQ!Spec

(* An endless timer of interval 0, which .time.timer.set accepts: its re-push *)
(* is due at once, and fire_expired does not return while it exists.          *)
Endless(t) == t.tic = 0 /\ t.num = 0

(* Every timer that is due is fired or deleted, however busy the others, also *)
(* those of interval 0 that fire a number of times, and however slow the      *)
(* callbacks: fire_expired serves deadlines in order.  Only an endless timer  *)
(* of interval 0 can keep a later one waiting.                                *)
DueFires ==
  \A id \in 0..(MaxId - 1) :
    (\E k \in DOMAIN heap : heap[k].id = id /\ heap[k].exp <= 0)
      ~> \/ \A k \in DOMAIN heap : heap[k].id # id
         \/ \E t \in Entries : Endless(t)

(* What timer.c and `\t` rely on from one callback to the next, whatever user *)
(* code did in between: the head is the earliest, the re-push is at most one  *)
(* entry over the array, and `\t` would delete its own timer or none.          *)
HeapSound == TypeOK /\ HeadFirst /\ OneOver /\ QTimerExists
===============================================================================
