---------------------------- MODULE PoolPartsProofs ----------------------------
(***************************************************************************)
(* Proofs about the two parts of pool.c around a dispatch.  The state word *)
(* of PoolSingleton is a lock: for any set of threads, one thread at a     *)
(* time creates or frees the pool, and the word is ready only over a whole *)
(* pool.  The cutting of work into tasks of PoolPartition: for every       *)
(* grain, ring, counter width and total the tasks of one                   *)
(* ray_pool_dispatch cover each element once, whether the ring grew, grew  *)
(* in part or could not grow.                                              *)
(***************************************************************************)
EXTENDS PoolSingleton, PoolPartition, FiniteSetTheorems, TLAPS

-------------------------------------------------------------------------------
(* The state word                                                             *)

(* The word tells which of the two an owner is doing, and an owner exists     *)
(* whenever it says so: what makes the lock inductive.                        *)
WordInv ==
  /\ \A t \in Threads : pc[t] \in {"creating", "initing"} => state = Initializing
  /\ \A t \in Threads : pc[t] = "freeing" => state = Destroying
  /\ state = Initializing => \E t \in Threads : pc[t] \in {"creating", "initing"}
  /\ state = Destroying => \E t \in Threads : pc[t] = "freeing"

OneOwner == \A t, u \in Owner : t = u

IInv == TypeOK /\ WordInv /\ OneOwner /\ ReadyMeansBuilt

LEMMA InitInv == Init => IInv
<1> SUFFICES ASSUME Init PROVE IInv
  OBVIOUS
<1> USE DEF Init, Uninit, Initializing, Ready, Destroying
<1>1. TypeOK BY DEF TypeOK
<1>2. WordInv /\ OneOwner BY DEF WordInv, OneOwner, Owner
<1>3. ReadyMeansBuilt BY DEF ReadyMeansBuilt
<1> QED BY <1>1, <1>2, <1>3 DEF IInv

LEMMA StepInv == IInv /\ [Next]_vars => IInv'
<1> SUFFICES ASSUME IInv, [Next]_vars PROVE IInv'
  OBVIOUS
<1> USE DEF IInv, Uninit, Initializing, Ready, Destroying, Goto, Return, Store, Quiet
<1>1. ASSUME NEW t \in Threads, NEW c \in Calls, Call(t, c) PROVE IInv'
  <2>1. TypeOK' BY <1>1 DEF Call, Calls, TypeOK
  <2>2. (WordInv /\ OneOwner)' BY <1>1 DEF Call, Calls, TypeOK, WordInv, OneOwner, Owner
  <2>3. ReadyMeansBuilt' BY <1>1 DEF Call, Calls, ReadyMeansBuilt, TypeOK, WordInv
  <2> QED BY <2>1, <2>2, <2>3
<1>2. ASSUME NEW t \in Threads, Get(t) PROVE IInv'
  <2>1. TypeOK' BY <1>2 DEF Get, TypeOK
  <2>2. (WordInv /\ OneOwner)' BY <1>2 DEF Get, TypeOK, WordInv, OneOwner, Owner
  <2>3. ReadyMeansBuilt' BY <1>2 DEF Get, ReadyMeansBuilt, TypeOK, WordInv
  <2> QED BY <2>1, <2>2, <2>3
<1>3. ASSUME NEW t \in Threads, GetCas(t) PROVE IInv'
  <2>1. TypeOK' BY <1>3 DEF GetCas, TypeOK
  <2>2. (WordInv /\ OneOwner)' BY <1>3 DEF GetCas, TypeOK, WordInv, OneOwner, Owner
  <2>3. ReadyMeansBuilt' BY <1>3 DEF GetCas, ReadyMeansBuilt, TypeOK, WordInv
  <2> QED BY <2>1, <2>2, <2>3
<1>4. ASSUME NEW t \in Threads, GetCreated(t) PROVE IInv'
  <2>1. TypeOK' BY <1>4 DEF GetCreated, TypeOK
  <2>2. (WordInv /\ OneOwner)' BY <1>4 DEF GetCreated, TypeOK, WordInv, OneOwner, Owner
  <2>3. ReadyMeansBuilt' BY <1>4 DEF GetCreated, ReadyMeansBuilt, TypeOK, WordInv
  <2> QED BY <2>1, <2>2, <2>3
<1>5. ASSUME NEW t \in Threads, GetSpin(t) PROVE IInv'
  <2>1. TypeOK' BY <1>5 DEF GetSpin, TypeOK
  <2>2. (WordInv /\ OneOwner)' BY <1>5 DEF GetSpin, TypeOK, WordInv, OneOwner, Owner
  <2>3. ReadyMeansBuilt' BY <1>5 DEF GetSpin, ReadyMeansBuilt, TypeOK, WordInv
  <2> QED BY <2>1, <2>2, <2>3
<1>6. ASSUME NEW t \in Threads, InitCas(t) PROVE IInv'
  <2>1. TypeOK' BY <1>6 DEF InitCas, TypeOK
  <2>2. (WordInv /\ OneOwner)' BY <1>6 DEF InitCas, TypeOK, WordInv, OneOwner, Owner
  <2>3. ReadyMeansBuilt' BY <1>6 DEF InitCas, ReadyMeansBuilt, TypeOK, WordInv
  <2> QED BY <2>1, <2>2, <2>3
<1>7. ASSUME NEW t \in Threads, InitWait(t) PROVE IInv'
  <2>1. TypeOK' BY <1>7 DEF InitWait, TypeOK
  <2>2. (WordInv /\ OneOwner)' BY <1>7 DEF InitWait, TypeOK, WordInv, OneOwner, Owner
  <2>3. ReadyMeansBuilt' BY <1>7 DEF InitWait, ReadyMeansBuilt, TypeOK, WordInv
  <2> QED BY <2>1, <2>2, <2>3
<1>8. ASSUME NEW t \in Threads, InitCreated(t) PROVE IInv'
  <2>1. TypeOK' BY <1>8 DEF InitCreated, TypeOK
  <2>2. (WordInv /\ OneOwner)' BY <1>8 DEF InitCreated, TypeOK, WordInv, OneOwner, Owner
  <2>3. ReadyMeansBuilt' BY <1>8 DEF InitCreated, ReadyMeansBuilt, TypeOK, WordInv
  <2> QED BY <2>1, <2>2, <2>3
<1>9. ASSUME NEW t \in Threads, DestroyCas(t) PROVE IInv'
  <2>1. TypeOK' BY <1>9 DEF DestroyCas, TypeOK
  <2>2. (WordInv /\ OneOwner)' BY <1>9 DEF DestroyCas, TypeOK, WordInv, OneOwner, Owner
  <2>3. ReadyMeansBuilt' BY <1>9 DEF DestroyCas, ReadyMeansBuilt, TypeOK, WordInv
  <2> QED BY <2>1, <2>2, <2>3
<1>10. ASSUME NEW t \in Threads, Destroyed(t) PROVE IInv'
  <2>1. TypeOK' BY <1>10 DEF Destroyed, TypeOK
  <2>2. (WordInv /\ OneOwner)' BY <1>10 DEF Destroyed, TypeOK, WordInv, OneOwner, Owner
  <2>3. ReadyMeansBuilt' BY <1>10 DEF Destroyed, ReadyMeansBuilt, TypeOK, WordInv
  <2> QED BY <2>1, <2>2, <2>3
<1>11. CASE UNCHANGED vars
  BY <1>11 DEF vars, TypeOK, WordInv, OneOwner, Owner, ReadyMeansBuilt
<1> QED
  BY <1>1, <1>2, <1>3, <1>4, <1>5, <1>6, <1>7, <1>8, <1>9, <1>10, <1>11 DEF Next, Step

(* For any set of threads at most one is inside ray_pool_create or            *)
(* ray_pool_free, and g_pool_init_state says so to the others.                *)
THEOREM OwnedByOneCorrect == Spec => []OwnedByOne
<1>1. IInv => OwnedByOne
  BY DEF IInv, TypeOK, WordInv, OneOwner, OwnedByOne, Owner, Uninit, Initializing, Ready, Destroying
<1> QED
  BY InitInv, StepInv, <1>1, PTL DEF Spec

(* A thread that reads the word as ready gets a whole pool, and create starts *)
(* from a freed one.                                                          *)
THEOREM ReadyMeansBuiltCorrect == Spec => []ReadyMeansBuilt
<1>1. IInv => ReadyMeansBuilt
  BY DEF IInv
<1> QED
  BY InitInv, StepInv, <1>1, PTL DEF Spec

(* Together: the state word tells the truth to any number of threads.         *)
THEOREM WordCorrect == Spec => []WordExact
<1>1. IInv => TypeOK
  BY DEF IInv
<1>2. TypeOK /\ OwnedByOne /\ ReadyMeansBuilt => WordExact
  BY DEF WordExact
<1> QED
  BY InitInv, StepInv, <1>1, <1>2, OwnedByOneCorrect, ReadyMeansBuiltCorrect, PTL DEF Spec
-------------------------------------------------------------------------------
(* A thread inside a call has seen every pool that is ready now: the call     *)
(* began under a ready word, or the word became ready during it.              *)
SawInv ==
  /\ \A t \in Threads : pc[t] # "idle" /\ state = Ready => saw[t]
  /\ GetMeansReady

LEMMA InitSaw == Init => SawInv
BY DEF Init, SawInv, GetMeansReady, Uninit, Ready

LEMMA StepSaw == TypeOK /\ SawInv /\ [Next]_vars => SawInv'
<1> SUFFICES ASSUME TypeOK, SawInv, [Next]_vars PROVE SawInv'
  OBVIOUS
<1> USE DEF SawInv, GetMeansReady, TypeOK, Uninit, Initializing, Ready, Destroying,
            Goto, Return, Store, Quiet
<1>1. ASSUME NEW t \in Threads, NEW c \in Calls, Call(t, c) PROVE SawInv'
  BY <1>1 DEF Call, Calls
<1>2. ASSUME NEW t \in Threads, Get(t) PROVE SawInv'
  BY <1>2 DEF Get
<1>3. ASSUME NEW t \in Threads, GetCas(t) PROVE SawInv'
  BY <1>3 DEF GetCas
<1>4. ASSUME NEW t \in Threads, GetCreated(t) PROVE SawInv'
  <2>1. CASE built' = TRUE /\ Store(Ready) /\ Return(t, "pool")
    <3>1. \A u \in Threads : pc[u] # "idle" => saw'[u]
      BY <2>1
    <3>2. \A u \in Threads : saw[u] => saw'[u]
      BY <2>1
    <3>3. pc[t] # "idle"
      BY <1>4 DEF GetCreated
    <3>4. \A u \in Threads : u # t => result'[u] = result[u] /\ pc'[u] = pc[u]
      BY <2>1
    <3>5. \A u \in Threads : pc'[u] # "idle" => saw'[u]
      BY <3>1, <3>3, <3>4
    <3>6. \A u \in Threads : result'[u] = "pool" => saw'[u]
      BY <3>1, <3>2, <3>3, <3>4
    <3> QED BY <3>5, <3>6
  <2>2. CASE built' = FALSE /\ Store(Uninit) /\ Return(t, "null")
    BY <1>4, <2>2 DEF GetCreated
  <2> QED BY <1>4, <2>1, <2>2 DEF GetCreated
<1>5. ASSUME NEW t \in Threads, GetSpin(t) PROVE SawInv'
  BY <1>5 DEF GetSpin
<1>6. ASSUME NEW t \in Threads, InitCas(t) PROVE SawInv'
  BY <1>6 DEF InitCas
<1>7. ASSUME NEW t \in Threads, InitWait(t) PROVE SawInv'
  BY <1>7 DEF InitWait
<1>8. ASSUME NEW t \in Threads, InitCreated(t) PROVE SawInv'
  <2>1. CASE built' = TRUE /\ Store(Ready) /\ Return(t, "ok")
    <3>1. \A u \in Threads : pc[u] # "idle" => saw'[u]
      BY <2>1
    <3>2. \A u \in Threads : saw[u] => saw'[u]
      BY <2>1
    <3>3. \A u \in Threads : u # t => result'[u] = result[u] /\ pc'[u] = pc[u]
      BY <2>1
    <3>4. pc'[t] = "idle" /\ result'[t] = "ok"
      BY <2>1
    <3>5. \A u \in Threads : pc'[u] # "idle" => saw'[u]
      BY <3>1, <3>3, <3>4
    <3>6. \A u \in Threads : result'[u] = "pool" => saw'[u]
      BY <3>2, <3>3, <3>4
    <3> QED BY <3>5, <3>6
  <2>2. CASE built' = FALSE /\ Store(Uninit) /\ Return(t, "error")
    BY <1>8, <2>2 DEF InitCreated
  <2> QED BY <1>8, <2>1, <2>2 DEF InitCreated
<1>9. ASSUME NEW t \in Threads, DestroyCas(t) PROVE SawInv'
  BY <1>9 DEF DestroyCas
<1>10. ASSUME NEW t \in Threads, Destroyed(t) PROVE SawInv'
  BY <1>10 DEF Destroyed
<1>11. CASE UNCHANGED vars
  BY <1>11 DEF vars
<1> QED
  BY <1>1, <1>2, <1>3, <1>4, <1>5, <1>6, <1>7, <1>8, <1>9, <1>10, <1>11 DEF Next, Step

(* ray_pool_get returns the pool only if it was ready at some moment of that  *)
(* call, however many threads create, fail and destroy around it.             *)
THEOREM GetMeansReadyCorrect == Spec => []GetMeansReady
<1>1. IInv => TypeOK
  BY DEF IInv
<1>2. SawInv => GetMeansReady
  BY DEF SawInv
<1> QED
  BY InitInv, StepInv, InitSaw, StepSaw, <1>1, <1>2, PTL DEF Spec

-------------------------------------------------------------------------------
(* The cutting into tasks                                                     *)

(* The k-th task as the fill loop makes it.                                   *)
Cut(k) ==
  <<(k - 1) * grain, IF (k - 1) * grain + grain > total THEN total ELSE (k - 1) * grain + grain>>

(* The totals fit the task counter, so nothing is cut off before the tasks    *)
(* are counted; a dispatch of nothing has returned.                           *)
Whole ==
  /\ total_elems \in 0..MaxTotal /\ total = total_elems
  /\ stage = "clamp" => total >= 1

(* What is filled is what the loop makes, and no more than n_tasks of it.     *)
Filling ==
  /\ ranges \in Seq(Int \X Int)
  /\ Len(ranges) <= n_tasks
  /\ \A k \in 1..Len(ranges) : ranges[k] = Cut(k)
  /\ stage = "clamp" => ranges = <<>>
  /\ stage = "idle" => Len(ranges) = n_tasks

(* The counted tasks reach to the end of the data: after the clamp as well,   *)
(* since the grain is derived again.                                          *)
Reach == ~each => n_tasks * grain >= total

Counters ==
  /\ total \in 0..IntMax /\ each \in BOOLEAN
  /\ task_cap \in InitCap..MaxRingCap /\ n_tasks \in 0..(2^Width - 1)
  /\ grain \in Nat \ {0} /\ stage \in {"idle", "clamp", "fill"}

Exact == Counters /\ Whole /\ Filling /\ Reach

-------------------------------------------------------------------------------
(* Arithmetic                                                                 *)

(* A power of two is a positive number: it counts the subsets of a set.       *)
LEMMA PowType ==
  ASSUME NEW n \in Nat
  PROVE  2^n \in Nat /\ 2^n >= 1
<1> DEFINE S == 1..n
<1>1. IsFiniteSet(S) /\ Cardinality(S) = n
  BY FS_Interval
<1> HIDE DEF S
<1>2. IsFiniteSet(SUBSET S) /\ Cardinality(SUBSET S) = 2^n
  BY <1>1, FS_SUBSET
<1>3. 2^n \in Nat
  BY <1>2, FS_CardinalityType
<1>4. SUBSET S # {}
  OBVIOUS
<1>5. 2^n # 0
  BY <1>2, <1>4, FS_EmptySet
<1> QED
  BY <1>3, <1>5

(* Multiples of n lie n apart.                                                *)
LEMMA MulLess ==
  ASSUME NEW n \in Nat, n >= 1, NEW a \in Int, NEW b \in Int, a < b
  PROVE  a * n + n <= b * n
<1>1. PICK d \in Nat : b = a + 1 + d
  <2>1. b - a - 1 \in Nat /\ b = a + 1 + (b - a - 1)
    OBVIOUS
  <2> QED
    BY <2>1
<1>2. b * n = a * n + n + d * n
  BY <1>1
<1>3. d * n \in Nat /\ a * n \in Int /\ b * n \in Int
  OBVIOUS
<1> QED
  BY <1>2, <1>3

(* Every number is a multiple of n and a remainder.                           *)
LEMMA DivMod ==
  ASSUME NEW n \in Nat, n >= 1, NEW a \in Nat
  PROVE  /\ a \div n \in Nat /\ a % n \in 0..(n - 1)
         /\ (a \div n) * n \in Nat /\ a = (a \div n) * n + (a % n)
<1> DEFINE y == a \div n
           m == a % n
<1>1. y \in Int /\ m \in 0..(n - 1) /\ a = n * y + m
  OBVIOUS
<1>2. n * y = y * n /\ y * n \in Int
  BY <1>1
<1> HIDE DEF y, m
<1>3. y \in Nat
  <2> SUFFICES ASSUME y < 0 PROVE FALSE
    BY <1>1
  <2>1. y * n + n <= 0 * n
    BY <1>1, MulLess
  <2> QED
    BY <1>1, <1>2, <2>1
<1>4. y * n \in Nat
  BY <1>3
<1> QED
  BY <1>1, <1>2, <1>3, <1>4 DEF y, m

(* The tasks of size b that CeilDiv counts reach to a, and one fewer do not.  *)
LEMMA CeilReach ==
  ASSUME NEW a \in Nat, NEW b \in Nat, b >= 1
  PROVE  /\ CeilDiv(a, b) \in Nat
         /\ CeilDiv(a, b) * b >= a
         /\ CeilDiv(a, b) * b < a + b
         /\ a >= 1 => CeilDiv(a, b) >= 1
<1> DEFINE q == (a + b - 1) \div b
           r == (a + b - 1) % b
<1>1. a + b - 1 \in Nat
  OBVIOUS
<1>2. q \in Nat /\ r \in 0..(b - 1) /\ q * b \in Nat /\ a + b - 1 = q * b + r
  BY <1>1, DivMod
<1>3. CeilDiv(a, b) = q
  BY DEF CeilDiv
<1> HIDE DEF q, r
<1>4. a >= 1 => q >= 1
  <2> SUFFICES ASSUME a >= 1, q < 1 PROVE FALSE
    BY <1>2
  <2>1. q = 0
    BY <1>2
  <2>2. q * b = 0
    BY <2>1
  <2> QED
    BY <1>2, <2>2
<1> QED
  BY <1>2, <1>3, <1>4

(* No dispatch needs more tasks than the counter can hold.                    *)
LEMMA CountFits ==
  ASSUME NEW n \in 1..MaxTotal
  PROVE  /\ CeilDiv(n, Grain) \in 0..(2^Width - 1)
         /\ CeilDiv(n, Grain) % 2^Width = CeilDiv(n, Grain)
<1> DEFINE q == CeilDiv(n, Grain)
           w == 2^Width
<1>1. Grain \in Nat /\ Grain >= 1 /\ MaxTotal \in Nat /\ n \in Nat /\ n <= MaxTotal
  BY PartitionAssumption
<1>2. w \in Nat /\ w >= 1
  BY PowType, PartitionAssumption
<1>3. n <= Grain * (w - 1)
  BY <1>1, <1>2, PartitionAssumption
<1>4. q \in Nat /\ q * Grain < n + Grain
  BY <1>1, CeilReach
<1> HIDE DEF q, w
<1>5. Grain * (w - 1) = (w - 1) * Grain /\ (w - 1) * Grain \in Int /\ q * Grain \in Int
  BY <1>1, <1>2, <1>4
<1>6. ~(w - 1 < q)
  <2> SUFFICES ASSUME w - 1 < q PROVE FALSE
    OBVIOUS
  <2>1. (w - 1) * Grain + Grain <= q * Grain
    BY <1>1, <1>2, <1>4, MulLess
  <2> QED
    BY <1>1, <1>3, <1>4, <1>5, <2>1
<1>7. q \in 0..(w - 1)
  BY <1>2, <1>4, <1>6
<1>8. q % w = q
  BY <1>2, <1>7
<1> QED
  BY <1>7, <1>8 DEF q, w

(* A total that the counter can hold is below the clamp that guards the       *)
(* addition of the grain.                                                     *)
LEMMA NoOverflow ==
  ASSUME NEW n \in 1..MaxTotal
  PROVE  ~(n > IntMax - Grain + 1) /\ n \in 0..IntMax
<1> DEFINE w == 2^Width
           g == Grain * w
<1>1. Grain \in Nat /\ Grain >= 1 /\ MaxTotal \in Nat /\ n \in Nat /\ n <= MaxTotal /\ IntMax \in Nat
  BY PartitionAssumption
<1>2. w \in Nat /\ w >= 1
  BY PowType, PartitionAssumption
<1>3. MaxTotal <= Grain * (w - 1) /\ g <= IntMax + 1
  BY PartitionAssumption
<1>4. Grain * (w - 1) = g - Grain /\ g \in Nat
  BY <1>1, <1>2
<1> HIDE DEF w, g
<1> QED
  BY <1>1, <1>3, <1>4

(* An argument of ray_pool_dispatch_n fits every counter.                     *)
LEMMA EachFits ==
  ASSUME NEW n \in Nat, n < 2^Width
  PROVE  n \in 0..IntMax /\ n \in 0..(2^Width - 1)
<1> DEFINE w == 2^Width
           g == Grain * w
<1>1. Grain \in Nat /\ Grain >= 1 /\ IntMax \in Nat /\ g <= IntMax + 1
  BY PartitionAssumption
<1>2. w \in Nat /\ w >= 1 /\ n < w
  BY PowType, PartitionAssumption
<1>3. g >= w /\ g \in Nat
  BY <1>1, <1>2
<1> HIDE DEF g
<1>4. n \in 0..IntMax /\ n \in 0..(w - 1)
  <2> HIDE DEF w
  <2> QED
    BY <1>1, <1>2, <1>3
<1> QED
  BY <1>4

-------------------------------------------------------------------------------
(* Each step preserves the invariant                                          *)

LEMMA ExactInit ==
  ASSUME PartInit
  PROVE  Exact
<1>1. InitCap \in InitCap..MaxRingCap /\ 0 \in 0..(2^Width - 1) /\ Grain \in Nat \ {0}
      /\ 0 \in 0..IntMax /\ 0 \in 0..MaxTotal /\ FALSE \in BOOLEAN
  BY PowType, PartitionAssumption
<1>2. Counters
  BY <1>1 DEF PartInit, Counters
<1>3. Whole
  BY <1>1 DEF PartInit, Whole
<1>4. Filling
  BY DEF PartInit, Filling
<1>5. Reach
  BY <1>1 DEF PartInit, Reach
<1> QED
  BY <1>2, <1>3, <1>4, <1>5 DEF Exact

(* No task is there before the fill loop, so nothing is wrong with one.       *)
LEMMA NothingFilled ==
  ASSUME ranges' = <<>>, n_tasks' \in Nat, stage' = "clamp"
  PROVE  Filling'
<1>1. ranges' \in Seq(Int \X Int) /\ Len(ranges') = 0
  OBVIOUS
<1> QED
  BY <1>1 DEF Filling

LEMMA ExactCount ==
  ASSUME Exact, NEW n \in 1..MaxTotal, Count(n)
  PROVE  Exact'
<1>1. Grain \in Nat \ {0} /\ n \in Nat /\ n >= 1 /\ MaxTotal \in Nat /\ n \in 0..MaxTotal
  BY PartitionAssumption
<1>2. total' = n /\ n \in 0..IntMax /\ total_elems' = n
  BY NoOverflow DEF Count
<1>3. n_tasks' = CeilDiv(n, Grain) /\ n_tasks' \in 0..(2^Width - 1)
  BY <1>2, CountFits DEF Count
<1>4. n_tasks' \in Nat /\ n_tasks' * Grain >= n
  BY <1>1, <1>3, CeilReach
<1>5. Counters'
  BY <1>1, <1>2, <1>3 DEF Count, Exact, Counters
<1>6. Whole'
  BY <1>1, <1>2 DEF Whole
<1>7. Filling'
  BY <1>4, NothingFilled DEF Count
<1>8. Reach'
  BY <1>2, <1>4 DEF Count, Reach
<1> QED
  BY <1>5, <1>6, <1>7, <1>8 DEF Exact

LEMMA ExactCountEach ==
  ASSUME Exact, NEW n \in 1..MaxTotal, CountEach(n)
  PROVE  Exact'
<1>1. n \in Nat /\ MaxTotal \in Nat /\ n \in 0..MaxTotal /\ n < 2^Width
  BY PartitionAssumption DEF CountEach
<1>2. n \in 0..IntMax /\ n \in 0..(2^Width - 1)
  BY <1>1, EachFits
<1>3. Counters'
  BY <1>2 DEF CountEach, Exact, Counters
<1>4. Whole'
  BY <1>1 DEF CountEach, Whole
<1>5. Filling'
  BY <1>1, NothingFilled DEF CountEach
<1>6. Reach'
  BY DEF CountEach, Reach
<1> QED
  BY <1>3, <1>4, <1>5, <1>6 DEF Exact

LEMMA ExactClamp ==
  ASSUME Exact, Clamp
  PROVE  Exact'
<1>1. PICK c \in {task_cap} \cup Doubled(n_tasks) :
        /\ task_cap' = c
        /\ n_tasks' = IF n_tasks > c THEN c ELSE n_tasks
        /\ grain' = IF n_tasks > c /\ ~each THEN CeilDiv(total, c) ELSE grain
  BY DEF Clamp
<1>2. InitCap \in Nat \ {0} /\ MaxRingCap \in Nat /\ IntMax \in Nat
  BY PartitionAssumption
<1>3. c \in InitCap..MaxRingCap /\ c \in Nat /\ c >= 1
  BY <1>1, <1>2 DEF Exact, Counters, Doubled
<1>4. /\ total \in Nat /\ n_tasks \in 0..(2^Width - 1) /\ n_tasks \in Nat /\ 2^Width \in Nat
      /\ grain \in Nat \ {0} /\ each \in BOOLEAN /\ total \in 0..IntMax
  BY <1>2, PowType, PartitionAssumption DEF Exact, Counters
<1>5. n_tasks' \in 0..(2^Width - 1) /\ n_tasks' \in Nat
  BY <1>1, <1>3, <1>4
<1>6. /\ grain' \in Nat \ {0}
      /\ ~each => n_tasks' * grain' >= total
  <2>1. CASE n_tasks > c /\ ~each
    <3>1. n_tasks' = c /\ grain' = CeilDiv(total, c)
      BY <1>1, <2>1
    <3>2. total >= 1
      BY DEF Exact, Whole, Clamp
    <3>3. grain' \in Nat /\ grain' * c >= total /\ grain' >= 1
      BY <1>3, <1>4, <3>1, <3>2, CeilReach
    <3>4. n_tasks' * grain' >= total
      BY <1>3, <3>1, <3>3
    <3> QED
      BY <3>3, <3>4
  <2>2. CASE ~(n_tasks > c /\ ~each)
    <3>1. grain' = grain /\ (~each => n_tasks' = n_tasks)
      BY <1>1, <2>2
    <3> QED
      BY <1>4, <3>1 DEF Exact, Reach
  <2> QED
    BY <2>1, <2>2
<1>7. Counters'
  BY <1>1, <1>3, <1>4, <1>5, <1>6 DEF Clamp, Counters
<1>8. Whole'
  BY DEF Clamp, Exact, Whole
<1>9. Filling'
  <2>1. ranges' = <<>> /\ stage' = "fill"
    BY DEF Clamp, Exact, Filling
  <2>2. ranges' \in Seq(Int \X Int) /\ Len(ranges') = 0
    BY <2>1
  <2> QED
    BY <1>5, <2>1, <2>2 DEF Filling
<1>10. Reach'
  BY <1>6 DEF Clamp, Reach
<1> QED
  BY <1>7, <1>8, <1>9, <1>10 DEF Exact

LEMMA ExactFill ==
  ASSUME Exact, Fill
  PROVE  Exact'
<1> DEFINE start == Len(ranges) * grain
           end   == IF start + grain > total THEN total ELSE start + grain
           l     == Len(ranges)
<1>1. /\ ranges' = Append(ranges, <<start, end>>) /\ l < n_tasks /\ stage = "fill"
      /\ stage' = stage /\ total' = total /\ grain' = grain /\ n_tasks' = n_tasks
      /\ each' = each /\ total_elems' = total_elems /\ task_cap' = task_cap
  BY DEF Fill
<1>2. ranges \in Seq(Int \X Int) /\ l \in Nat
  BY DEF Exact, Filling
<1>3. grain \in Nat /\ n_tasks \in Nat /\ total \in Nat
  BY PowType, PartitionAssumption DEF Exact, Counters
<1>4. start \in Int /\ end \in Int
  BY <1>2, <1>3
<1>5. /\ <<start, end>> = Cut(l + 1)
  <2>1. (l + 1) - 1 = l
    BY <1>2
  <2> QED
    BY <2>1 DEF Cut
<1>6. \A k : Cut(k)' = Cut(k)
  BY <1>1 DEF Cut
<1> HIDE DEF start, end
<1>7. <<start, end>> \in Int \X Int
  BY <1>4
<1>8. /\ ranges' \in Seq(Int \X Int) /\ Len(ranges') = l + 1
      /\ ranges'[l + 1] = <<start, end>> /\ \A k \in 1..l : ranges'[k] = ranges[k]
  BY <1>1, <1>2, <1>7
<1>9. \A k \in 1..Len(ranges') : ranges'[k] = Cut(k)'
  <2> SUFFICES ASSUME NEW k \in 1..Len(ranges') PROVE ranges'[k] = Cut(k)
    BY <1>6
  <2>1. CASE k = l + 1
    BY <1>5, <1>8, <2>1
  <2>2. CASE k \in 1..l
    BY <1>8, <2>2 DEF Exact, Filling
  <2> QED
    BY <1>2, <1>8, <2>1, <2>2
<1>10. Filling'
  BY <1>1, <1>2, <1>3, <1>8, <1>9 DEF Filling
<1>11. Counters' /\ Whole' /\ Reach'
  BY <1>1 DEF Exact, Counters, Whole, Reach
<1> QED
  BY <1>10, <1>11 DEF Exact

LEMMA ExactFilled ==
  ASSUME Exact, Filled
  PROVE  Exact'
<1>1. \A k : Cut(k)' = Cut(k)
  BY DEF Filled, Cut
<1>2. Filling'
  BY <1>1 DEF Exact, Filled, Filling
<1>3. Counters' /\ Whole' /\ Reach'
  BY DEF Exact, Filled, Counters, Whole, Reach
<1> QED
  BY <1>2, <1>3 DEF Exact

LEMMA ExactStutter ==
  ASSUME Exact, UNCHANGED partvars
  PROVE  Exact'
<1>1. \A k : Cut(k)' = Cut(k)
  BY DEF partvars, Cut
<1>2. Filling'
  BY <1>1 DEF Exact, partvars, Filling
<1>3. Counters' /\ Whole' /\ Reach'
  BY DEF Exact, partvars, Counters, Whole, Reach
<1> QED
  BY <1>2, <1>3 DEF Exact

LEMMA ExactNext ==
  ASSUME Exact, [PartNext]_partvars
  PROVE  Exact'
<1>1. ASSUME NEW n \in 1..MaxTotal, Count(n) PROVE Exact'
  BY <1>1, ExactCount
<1>2. ASSUME NEW n \in 1..MaxTotal, CountEach(n) PROVE Exact'
  BY <1>2, ExactCountEach
<1>3. CASE Clamp
  BY <1>3, ExactClamp
<1>4. CASE Fill
  BY <1>4, ExactFill
<1>5. CASE Filled
  BY <1>5, ExactFilled
<1>6. CASE UNCHANGED partvars
  BY <1>6, ExactStutter
<1> QED
  BY <1>1, <1>2, <1>3, <1>4, <1>5, <1>6 DEF PartNext

-------------------------------------------------------------------------------
(* What the invariant says of the tasks                                       *)

(* The k-th task has the elements whose quotient by the grain is k - 1.       *)
LEMMA InCut ==
  ASSUME Exact, NEW k \in 1..Len(ranges), NEW x \in Int
  PROVE  x \in Elems(ranges[k]) <=> (k - 1) * grain <= x /\ x < (k - 1) * grain + grain /\ x < total
<1> DEFINE s == (k - 1) * grain
<1>1. grain \in Nat /\ total \in Nat /\ Len(ranges) \in Nat /\ k \in Nat
  BY PartitionAssumption DEF Exact, Counters, Filling
<1>2. s \in Int
  BY <1>1
<1>3. ranges[k] = <<s, IF s + grain > total THEN total ELSE s + grain>>
  BY DEF Exact, Filling, Cut
<1> HIDE DEF s
<1>4. Elems(ranges[k]) = s..((IF s + grain > total THEN total ELSE s + grain) - 1)
  BY <1>3 DEF Elems
<1>5. x \in Elems(ranges[k]) <=> s <= x /\ x < s + grain /\ x < total
  BY <1>1, <1>2, <1>4
<1> QED
  BY <1>5 DEF s

LEMMA ExactTypes ==
  ASSUME Exact
  PROVE  PartTypeOK
<1>1. \A k \in DOMAIN ranges : ranges[k][2] <= total
  <2> SUFFICES ASSUME NEW k \in DOMAIN ranges PROVE ranges[k][2] <= total
    OBVIOUS
  <2> DEFINE s == (k - 1) * grain
  <2>1. grain \in Nat /\ total \in Nat /\ Len(ranges) \in Nat /\ k \in 1..Len(ranges)
    BY PartitionAssumption DEF Exact, Counters, Filling
  <2>2. s \in Int
    BY <2>1
  <2>3. ranges[k] = <<s, IF s + grain > total THEN total ELSE s + grain>>
    BY <2>1 DEF Exact, Filling, Cut
  <2> HIDE DEF s
  <2> QED
    BY <2>1, <2>2, <2>3
<1> QED
  BY <1>1 DEF Exact, Counters, Whole, PartTypeOK

LEMMA ExactCovers ==
  ASSUME Exact
  PROVE  CoversOnce
<1> SUFFICES ASSUME stage = "idle", ~each
             PROVE  /\ \A x \in 0..(total_elems - 1) : \E k \in Owners(x) : Owners(x) = {k}
                    /\ \A k \in DOMAIN ranges : Elems(ranges[k]) \subseteq 0..(total_elems - 1)
  BY DEF CoversOnce
<1>1. /\ grain \in Nat /\ grain >= 1 /\ total \in Nat /\ n_tasks \in Nat
      /\ total_elems = total /\ n_tasks * grain >= total
      /\ Len(ranges) = n_tasks /\ DOMAIN ranges = 1..n_tasks
  BY PowType, PartitionAssumption DEF Exact, Counters, Whole, Filling, Reach
<1>2. ASSUME NEW x \in 0..(total - 1)
      PROVE  \E k \in Owners(x) : Owners(x) = {k}
  <2> DEFINE q == x \div grain
             r == x % grain
  <2>1. x \in Nat /\ x < total
    BY <1>1
  <2>2. q \in Nat /\ r \in 0..(grain - 1) /\ q * grain \in Nat /\ x = q * grain + r
    BY <1>1, <2>1, DivMod
  <2> HIDE DEF q, r
  <2>3. q < n_tasks
    <3> SUFFICES ASSUME ~(q < n_tasks) PROVE FALSE
      OBVIOUS
    <3>1. n_tasks * grain <= q * grain
      <4>1. CASE n_tasks = q
        BY <1>1, <2>2, <4>1
      <4>2. CASE n_tasks < q
        <5>1. n_tasks * grain + grain <= q * grain
          BY <1>1, <2>2, <4>2, MulLess
        <5>2. n_tasks * grain \in Int
          BY <1>1
        <5> QED
          BY <1>1, <2>2, <5>1, <5>2
      <4> QED
        BY <1>1, <2>2, <4>1, <4>2
    <3>2. n_tasks * grain \in Int
      BY <1>1
    <3> QED
      BY <1>1, <2>1, <2>2, <3>1, <3>2
  <2>4. q + 1 \in 1..n_tasks /\ (q + 1) - 1 = q
    BY <1>1, <2>2, <2>3
  <2>5. q + 1 \in Owners(x)
    <3>1. x \in Elems(ranges[q + 1])
      BY <1>1, <2>1, <2>2, <2>4, InCut
    <3> QED
      BY <1>1, <2>4, <3>1 DEF Owners
  <2>6. ASSUME NEW k \in Owners(x) PROVE k = q + 1
    <3>1. k \in 1..n_tasks /\ x \in Elems(ranges[k])
      BY <1>1, <2>6 DEF Owners
    <3> DEFINE j == k - 1
    <3>2. j * grain <= x /\ x < j * grain + grain
      BY <1>1, <2>1, <3>1, InCut
    <3>3. j \in Int /\ j * grain \in Int
      BY <1>1, <3>1
    <3>4. k = j + 1
      BY <1>1, <3>1
    <3> HIDE DEF j
    <3>5. ~(j < q)
      <4> SUFFICES ASSUME j < q PROVE FALSE
        OBVIOUS
      <4>1. j * grain + grain <= q * grain
        BY <1>1, <2>2, <3>3, MulLess
      <4> QED
        BY <1>1, <2>2, <3>2, <3>3, <4>1
    <3>6. ~(q < j)
      <4> SUFFICES ASSUME q < j PROVE FALSE
        OBVIOUS
      <4>1. q * grain + grain <= j * grain
        BY <1>1, <2>2, <3>3, MulLess
      <4> QED
        BY <1>1, <2>2, <3>2, <3>3, <4>1
    <3> QED
      BY <2>2, <3>3, <3>4, <3>5, <3>6
  <2>7. Owners(x) = {q + 1}
    BY <2>5, <2>6
  <2> QED
    BY <2>5, <2>7
<1>3. ASSUME NEW k \in DOMAIN ranges, NEW x \in Elems(ranges[k])
      PROVE  x \in 0..(total - 1)
  <2> DEFINE s == (k - 1) * grain
  <2>1. k \in 1..Len(ranges) /\ k - 1 \in Nat
    BY <1>1
  <2>2. x \in Int
    BY <1>3 DEF Elems
  <2>3. s <= x /\ x < total
    BY <1>3, <2>1, <2>2, InCut
  <2>4. s \in Nat
    BY <1>1, <2>1
  <2> HIDE DEF s
  <2> QED
    BY <1>1, <2>2, <2>3, <2>4
<1> QED
  BY <1>1, <1>2, <1>3

-------------------------------------------------------------------------------
(* Theorems                                                                   *)

(* ray_pool_dispatch: whatever the total, and whether the ring grew to the    *)
(* tasks it needs, to its ceiling, or not at all, the tasks filled cover each *)
(* element once and none beyond the end; the counters stay in their widths.   *)
THEOREM PartitionExact == PartSpec => []RangesExact
<1>1. PartInit => Exact
  BY ExactInit
<1>2. Exact /\ [PartNext]_partvars => Exact'
  BY ExactNext
<1>3. Exact => RangesExact
  BY ExactTypes, ExactCovers DEF RangesExact
<1> QED
  BY <1>1, <1>2, <1>3, PTL DEF PartSpec
===============================================================================
