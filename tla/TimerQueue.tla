------------------------------ MODULE TimerQueue ------------------------------
(***************************************************************************)
(* What src/src/core/timer.h promises of a timer heap, with the heap       *)
(* abstracted to the set of its timers: ids are never reused, timers fire  *)
(* one at a time, never early, the earliest first (the older of two that   *)
(* are due together), and a timer is lost only by its last fire or by      *)
(* ray_timers_del.  A timer in flight is not in the queue, so its own      *)
(* callback cannot delete it.                                              *)
(*                                                                         *)
(* Deadlines are relative to the current time: exp = 0 is due now.         *)
(***************************************************************************)
EXTENDS Integers, FiniteSets

CONSTANTS
  Tic, Num, Id     \* intervals, fire counts and ids that may be asked for

VARIABLES
  queue,      \* the timers waiting
  flight,     \* the timer whose callback is running, as a set
  next_id

vars == <<queue, flight, next_id>>

Timer == [id : Nat, tic : Nat, num : Nat, exp : Int, q : BOOLEAN]

TypeOK ==
  /\ queue \subseteq Timer /\ flight \subseteq Timer
  /\ next_id \in Nat

Init == queue = {} /\ flight = {} /\ next_id = 0

(* Lower deadline first; of equal deadlines the lower id.                     *)
Less(a, b) == a.exp < b.exp \/ (a.exp = b.exp /\ a.id < b.id)

Add(tic, num, q) ==
  /\ queue' = queue \cup {[id |-> next_id, tic |-> tic, num |-> num, exp |-> tic, q |-> q]}
  /\ next_id' = next_id + 1
  /\ UNCHANGED flight

Del(id) ==
  /\ queue' = {t \in queue : t.id # id}
  /\ UNCHANGED <<flight, next_id>>

(* `\t N`: the timer it set last is replaced.                                 *)
Replace(id, tic) ==
  /\ queue' = {t \in queue : t.id # id}
              \cup {[id |-> next_id, tic |-> tic, num |-> 0, exp |-> tic, q |-> TRUE]}
  /\ next_id' = next_id + 1
  /\ UNCHANGED flight

(* The earliest timer, already due, starts its callback.                      *)
Fire(t) ==
  /\ flight = {}
  /\ t \in queue /\ t.exp <= 0
  /\ \A u \in queue \ {t} : Less(t, u)
  /\ queue' = queue \ {t} /\ flight' = {t}
  /\ UNCHANGED next_id

(* The callback is over: the next deadline is one interval after the last     *)
(* one, and the last of num fires ends the timer.                             *)
Return ==
  /\ flight # {}
  /\ queue' = queue \cup
       {[t EXCEPT !.exp = @ + t.tic, !.num = IF @ = 0 THEN 0 ELSE @ - 1] :
          t \in {u \in flight : u.num # 1}}
  /\ flight' = {}
  /\ UNCHANGED next_id

Later(S) == {[t EXCEPT !.exp = @ - 1] : t \in S}

Tick == queue' = Later(queue) /\ flight' = Later(flight) /\ UNCHANGED next_id

Restart == flight = {} /\ queue' = {} /\ next_id' = 0 /\ UNCHANGED flight

Next ==
  \/ \E tic \in Tic, num \in Num, q \in BOOLEAN : Add(tic, num, q)
  \/ \E id \in Id : Del(id) \/ \E tic \in Tic : Replace(id, tic)
  \/ (\E t \in queue : Fire(t)) \/ Return \/ Tick \/ Restart

Spec == Init /\ [][Next]_vars
===============================================================================
