--------------------------------- MODULE Heap ---------------------------------
(***************************************************************************)
(* The per-thread buddy heaps of src/src/mem/heap.c.  Each thread has      *)
(* pools it cuts into power-of-two blocks, freelists per order with a      *)
(* bitmask of the non-empty ones, a cache of small blocks (slab) and a     *)
(* list of blocks of other heaps it has freed (foreign).  Workers allocate *)
(* and free only inside a dispatch (Pool.tla, RegionCovers); the main      *)
(* thread collects between dispatches.                                     *)
(*                                                                         *)
(* Addresses count min-blocks, so orders start at 0.  In a dispatch a      *)
(* thread touches only its own lists, which makes one call one step, with  *)
(* one exception: the reference count is 0 between ray_release's decrement *)
(* and the guard ray_free stores, and other threads read it there.         *)
(***************************************************************************)
EXTENDS Integers, FiniteSets, FiniteSetsExt

CONSTANTS
  Worker, Main,
  PoolOrder,    \* RAY_HEAP_POOL_ORDER, the standard pool
  MaxOrder,     \* RAY_HEAP_MAX_ORDER
  SlabMax,      \* largest order kept in slabs
  SlabCap,      \* blocks a slab keeps per order
  MaxPools,     \* RAY_MAX_POOLS
  Site,         \* pools [at, ord] the OS may map, self-aligned
  Req,          \* bound: the orders asked for
  MaxLive,      \* bound: blocks in use at a time
  MaxForeign    \* bound: blocks of others a worker has freed, in its life and before

Thread == Worker \cup {Main}
Order  == 0..MaxOrder

Cells(b) == b.at..(b.at + 2^b.ord - 1)
Meets(b, c) == Cells(b) \cap Cells(c) # {}

ASSUME HeapAssumption ==
  /\ Main \notin Worker
  /\ PoolOrder \in Nat \ {0} /\ MaxOrder \in Nat /\ PoolOrder <= MaxOrder
  /\ SlabMax \in Nat /\ SlabMax < PoolOrder /\ SlabCap \in Nat \ {0}
  /\ MaxPools \in Nat /\ Req \subseteq 0..MaxOrder /\ MaxLive \in Nat /\ MaxForeign \in Nat
  /\ Site \subseteq [at : Nat, ord : PoolOrder..MaxOrder]
  /\ \A s \in Site : s.at % 2^s.ord = 0

VARIABLES
  up,        \* threads with a heap
  pools,     \* h->pools
  free,      \* h->freelist, all orders; count 0 in the header
  avail,     \* h->avail, which may have stale bits
  slab,      \* h->slabs; count 1
  foreign,   \* h->foreign; count 1
  bytes,     \* h->stats.bytes_allocated
  live,      \* blocks in use
  dropped,   \* a block whose count a thread has brought to 0, ray_free to come
  phase,     \* seq, opening (window open, flag not yet set), region
  gc,        \* where ray_heap_gc is: no, foreign, slabs, reclaim
  lost,      \* history: blocks no list leads to any more
  torn       \* a block that is on no freelist was unlinked from one

lists == <<pools, free, avail, slab, foreign, bytes>>
vars  == <<up, lists, live, dropped, phase, gc, lost, torn>>

Init ==
  /\ up = {Main}
  /\ pools = [t \in Thread |-> {}] /\ free = [t \in Thread |-> {}]
  /\ avail = [t \in Thread |-> {}] /\ slab = [t \in Thread |-> {}]
  /\ foreign = [t \in Thread |-> {}] /\ bytes = [t \in Thread |-> 0]
  /\ live = {} /\ dropped = [t \in Thread |-> {}]
  /\ phase = "seq" /\ gc = "no" /\ lost = {} /\ torn = FALSE

(* Who may run code that allocates and frees; a torn list is the end of       *)
(* defined behaviour.                                                         *)
Runs(t) ==
  /\ ~torn
  /\ \/ t = Main /\ phase \in {"seq", "region"} /\ gc = "no"
     \/ t \in Worker \cap up /\ phase \in {"opening", "region"}

Idle(t) == Runs(t) /\ dropped[t] = {}

parallel_flag == phase = "region"

Mapped == UNION {pools[t] : t \in Thread}
(* ray_pool_of / heap_find_pool: the pool an address lies in, its owner.      *)
PoolOf(b)  == CHOOSE p \in Mapped : b.at \in Cells(p)
Owner(p)   == CHOOSE t \in Thread : p \in pools[t]
Local(t, b) == \E p \in pools[t] : b.at \in Cells(p)

OfOrder(S, o) == {b \in S : b.ord = o}
Orders(S)     == {b.ord : b \in S}

-------------------------------------------------------------------------------
(* Coalescing                                                                 *)

(* ray_buddy_of, for the block of order j that contains b.                    *)
Start(b, j, p) == p.at + ((b.at - p.at) \div 2^j) * 2^j
Buddy(b, j, p) ==
  LET s == Start(b, j, p)
  IN  [at |-> IF ((s - p.at) \div 2^j) % 2 = 0 THEN s + 2^j ELSE s - 2^j, ord |-> j]

(* The header at that address has count 0 and this order.                     *)
CountZero(x) == \E t \in Thread : x \in free[t] \cup dropped[t]

(* In a parallel region only buddies in a pool of this heap.                  *)
Mergeable(h, x, p) == CountZero(x) /\ (parallel_flag => p \in pools[h])

(* The order at which the loop stops.                                         *)
Top(h, b, p) ==
  CHOOSE k \in b.ord..p.ord :
    /\ \A j \in b.ord..(k - 1) : Mergeable(h, Buddy(b, j, p), p)
    /\ k = p.ord \/ ~Mergeable(h, Buddy(b, k, p), p)

(* heap_coalesce(h, b): the buddies leave whatever list they are on (fl_remove *)
(* needs no list head), h's own bits are refreshed, the whole is inserted.    *)
heap_coalesce(h, b, p) ==
  LET k   == Top(h, b, p)
      Out == {Buddy(b, j, p) : j \in b.ord..(k - 1)}
      In  == [at |-> Start(b, k, p), ord |-> k]
      Rest == free[h] \ Out
  IN  /\ free' = [t \in Thread |-> (free[t] \ Out) \cup (IF t = h THEN {In} ELSE {})]
      /\ avail' = [avail EXCEPT ![h] = (@ \ (b.ord..(k - 1) \ Orders(Rest))) \cup {k}]
      /\ torn' = (torn \/ \E x \in Out : \A t \in Thread : x \notin free[t])

-------------------------------------------------------------------------------
(* ray_alloc                                                                  *)

SlabHit(t, o) == o <= SlabMax /\ OfOrder(slab[t], o) # {}

AllocSlab(t, o) ==
  /\ Idle(t) /\ SlabHit(t, o)
  /\ \E b \in OfOrder(slab[t], o) :
       /\ slab' = [slab EXCEPT ![t] = @ \ {b}]
       /\ live' = live \cup {b}
  /\ bytes' = [bytes EXCEPT ![t] = @ + 2^o]
  /\ UNCHANGED <<up, pools, free, avail, foreign, dropped, phase, gc, lost, torn>>

(* Candidate orders, and those whose list is not empty.                       *)
Candidates(t, o) == {j \in avail[t] : j >= o}
Found(t, o)      == {j \in Candidates(t, o) : OfOrder(free[t], j) # {}}

(* heap_split_block: the right halves, from order j - 1 down to o.            *)
Halves(b, o) == {[at |-> b.at + 2^j, ord |-> j] : j \in o..(b.ord - 1)}

(* Fault: the remainder of a split is forgotten at the requested order.       *)
AllocNoSplit(t, o) ==
  /\ Idle(t) /\ ~SlabHit(t, o) /\ Found(t, o) # {}
  /\ LET f == Min(Found(t, o))
     IN  \E b \in OfOrder(free[t], f) :
           LET Rest == free[t] \ {b}
           IN  /\ free' = [free EXCEPT ![t] = Rest \cup Halves(b, o + 1)]
               /\ avail' = [avail EXCEPT ![t] =
                              {j \in @ : j < o \/ j > f} \cup ({f} \cap Orders(Rest)) \cup (o + 1)..(f - 1)]
               /\ live' = live \cup {[at |-> b.at, ord |-> o]}
  /\ bytes' = [bytes EXCEPT ![t] = @ + 2^o]
  /\ UNCHANGED <<up, pools, slab, foreign, dropped, phase, gc, lost, torn>>

(* Fault: a block that fits exactly stays on its list.                        *)
AllocKeeps(t, o) ==
  /\ Idle(t) /\ ~SlabHit(t, o) /\ Found(t, o) # {}
  /\ LET f == Min(Found(t, o))
     IN  \E b \in OfOrder(free[t], f) :
           LET Rest == free[t] \ (IF f = o THEN {} ELSE {b})
           IN  /\ free' = [free EXCEPT ![t] = Rest \cup Halves(b, o)]
               /\ avail' = [avail EXCEPT ![t] =
                              {j \in @ : j < o \/ j > f} \cup ({f} \cap Orders(Rest)) \cup o..(f - 1)]
               /\ live' = live \cup {[at |-> b.at, ord |-> o]}
  /\ bytes' = [bytes EXCEPT ![t] = @ + 2^o]
  /\ UNCHANGED <<up, pools, slab, foreign, dropped, phase, gc, lost, torn>>

(* The smallest order that fits; stale bits met on the way are cleared.       *)
AllocFree(t, o) ==
  /\ Idle(t) /\ ~SlabHit(t, o) /\ Found(t, o) # {}
  /\ LET f == Min(Found(t, o))
     IN  \E b \in OfOrder(free[t], f) :
           LET Rest == free[t] \ {b}
           IN  /\ free' = [free EXCEPT ![t] = Rest \cup Halves(b, o)]
               /\ avail' = [avail EXCEPT ![t] =
                              {j \in @ : j < o \/ j > f} \cup ({f} \cap Orders(Rest)) \cup o..(f - 1)]
               /\ live' = live \cup {[at |-> b.at, ord |-> o]}
  /\ bytes' = [bytes EXCEPT ![t] = @ + 2^o]
  /\ UNCHANGED <<up, pools, slab, foreign, dropped, phase, gc, lost, torn>>

(* The order of a new pool: one more than a block that would fill it.         *)
NewOrder(o) == IF o >= PoolOrder THEN o + 1 ELSE PoolOrder

(* heap_add_pool, whatever backs it, then the block of order o of its         *)
(* cascading split.  The first min-block is the header.                       *)
AllocGrow(t, o) ==
  /\ Idle(t) /\ ~SlabHit(t, o) /\ Found(t, o) = {}
  /\ Cardinality(pools[t]) < MaxPools /\ NewOrder(o) <= MaxOrder
  /\ \E p \in OfOrder(Site, NewOrder(o)) :
       /\ \A q \in Mapped : ~Meets(p, q)
       /\ pools' = [pools EXCEPT ![t] = @ \cup {p}]
       /\ free' = [free EXCEPT ![t] =
                     @ \cup {[at |-> p.at + 2^j, ord |-> j] : j \in (0..(p.ord - 1)) \ {o}}]
       /\ avail' = [avail EXCEPT ![t] = ({j \in @ : j < o} \cup 0..(p.ord - 1)) \ {o}]
       /\ live' = live \cup {[at |-> p.at + 2^o, ord |-> o]}
  /\ bytes' = [bytes EXCEPT ![t] = @ + 2^o]
  /\ UNCHANGED <<up, slab, foreign, dropped, phase, gc, lost, torn>>

(* No pool to be had: NULL, the stale bits are cleared.                       *)
AllocFail(t, o) ==
  /\ Idle(t) /\ ~SlabHit(t, o) /\ Found(t, o) = {}
  /\ avail' = [avail EXCEPT ![t] = {j \in @ : j < o}]
  /\ UNCHANGED <<up, pools, free, slab, foreign, bytes, live, dropped, phase, gc, lost, torn>>

-------------------------------------------------------------------------------
(* ray_release brings the count of any block in use to 0 ...                  *)
Release(t, b) ==
  /\ Idle(t) /\ b \in live
  /\ Local(t, b) \/ Cardinality(foreign[t] \cup lost) < MaxForeign
  /\ live' = live \ {b}
  /\ dropped' = [dropped EXCEPT ![t] = {b}]
  /\ UNCHANGED <<up, lists, phase, gc, lost, torn>>

(* ... and calls ray_free, which first stores the guard: another heap's block *)
(* goes to the foreign list,                                                  *)
FreeForeign(t, b) ==
  /\ Runs(t) /\ b \in dropped[t] /\ ~Local(t, b)
  /\ foreign' = [foreign EXCEPT ![t] = @ \cup {b}]
  /\ dropped' = [dropped EXCEPT ![t] = {}]
  /\ UNCHANGED <<up, pools, free, avail, slab, bytes, live, phase, gc, lost, torn>>

SlabRoom(t, b) == b.ord <= SlabMax /\ Cardinality(OfOrder(slab[t], b.ord)) < SlabCap

(* a small local one into the slab while there is room,                       *)
FreeSlab(t, b) ==
  /\ Runs(t) /\ b \in dropped[t] /\ Local(t, b) /\ SlabRoom(t, b)
  /\ slab' = [slab EXCEPT ![t] = @ \cup {b}]
  /\ bytes' = [bytes EXCEPT ![t] = @ - 2^b.ord]
  /\ dropped' = [dropped EXCEPT ![t] = {}]
  /\ UNCHANGED <<up, pools, free, avail, foreign, live, phase, gc, lost, torn>>

(* and any other one to the freelists.                                        *)
FreeLocal(t, b) ==
  /\ Runs(t) /\ b \in dropped[t] /\ Local(t, b) /\ ~SlabRoom(t, b)
  /\ heap_coalesce(t, b, PoolOf(b))
  /\ bytes' = [bytes EXCEPT ![t] = @ - 2^b.ord]
  /\ dropped' = [dropped EXCEPT ![t] = {}]
  /\ UNCHANGED <<up, pools, slab, foreign, live, phase, gc, lost>>

-------------------------------------------------------------------------------
(* ray_heap_gc of the main thread between dispatches, its passes in order.    *)

Gc(from, to) == phase = "seq" /\ gc = from /\ gc' = to

GcBegin ==
  /\ Gc("no", "foreign") /\ dropped[Main] = {}
  /\ UNCHANGED <<up, lists, live, dropped, phase, lost, torn>>

(* Fault: foreign blocks are absorbed by the heap that freed them.            *)
GcForeignAbsorbed ==
  /\ Gc("foreign", "foreign")
  /\ \E b \in foreign[Main] :
       /\ foreign' = [foreign EXCEPT ![Main] = @ \ {b}]
       /\ bytes' = [bytes EXCEPT ![Owner(PoolOf(b))] = @ - 2^b.ord]
       /\ heap_coalesce(Main, b, PoolOf(b))
  /\ UNCHANGED <<up, pools, slab, live, dropped, phase, lost>>

(* Pass 1: each foreign block goes home, its owner's account with it,         *)
GcForeign ==
  /\ Gc("foreign", "foreign")
  /\ \E b \in foreign[Main] :
       LET o == Owner(PoolOf(b))
       IN  /\ foreign' = [foreign EXCEPT ![Main] = @ \ {b}]
           /\ bytes' = [bytes EXCEPT ![o] = @ - 2^b.ord]
           /\ heap_coalesce(o, b, PoolOf(b))
  /\ UNCHANGED <<up, pools, slab, live, dropped, phase, lost>>

GcForeignDone ==
  /\ Gc("foreign", "slabs") /\ foreign[Main] = {}
  /\ UNCHANGED <<up, lists, live, dropped, phase, lost, torn>>

(* and the slabs are emptied.                                                 *)
GcSlab ==
  /\ Gc("slabs", "slabs")
  /\ \E b \in slab[Main] :
       /\ slab' = [slab EXCEPT ![Main] = @ \ {b}]
       /\ heap_coalesce(Main, b, PoolOf(b))
  /\ UNCHANGED <<up, pools, foreign, bytes, live, dropped, phase, lost>>

(* Pass 2 moves blocks of other heaps off the main heap's freelists; there    *)
(* are none (AtHome).  Pass 3 leaves the workers' slabs and lists alone.      *)
GcSlabDone ==
  /\ Gc("slabs", "reclaim") /\ slab[Main] = {}
  /\ UNCHANGED <<up, lists, live, dropped, phase, lost, torn>>

Inside(S, p) == {b \in S : b.at \in Cells(p)}
Size(S) == Cardinality(UNION {{b} \X Cells(b) : b \in S})

(* Fault: what waits on foreign lists counts as free, and is not looked for.  *)
ReclaimableForeign(h, p) ==
  /\ p \in pools[h] /\ p.ord > PoolOrder /\ Cardinality(pools[h]) > 1
  /\ Size(Inside(free[h], p)) + Size(Inside(slab[h], p))
       + Size(UNION {Inside(foreign[t], p) : t \in Thread}) >= 2^p.ord - 1

(* Pass 4: an oversized pool, not the heap's last one, all of it on its       *)
(* owner's own lists, and nothing of it on another heap's foreign list.       *)
Reclaimable(h, p) ==
  /\ p \in pools[h] /\ p.ord > PoolOrder /\ Cardinality(pools[h]) > 1
  /\ Size(Inside(free[h], p)) + Size(Inside(slab[h], p)) >= 2^p.ord - 1
  /\ \A t \in Thread \ {h} : Inside(foreign[t], p) = {}

GcReclaim(h, p) ==
  /\ Gc("reclaim", "reclaim") /\ Reclaimable(h, p)
  /\ pools' = [pools EXCEPT ![h] = @ \ {p}]
  /\ free' = [free EXCEPT ![h] = @ \ Inside(@, p)]
  /\ slab' = [slab EXCEPT ![h] = @ \ Inside(@, p)]
  /\ avail' = [avail EXCEPT ![h] =
                 @ \ (Orders(Inside(free[h], p)) \ Orders(free[h] \ Inside(free[h], p)))]
  /\ UNCHANGED <<up, foreign, bytes, live, dropped, phase, lost, torn>>

GcDone ==
  /\ Gc("reclaim", "no")
  /\ \A h \in Thread, p \in Mapped : ~Reclaimable(h, p)
  /\ UNCHANGED <<up, lists, live, dropped, phase, lost, torn>>

-------------------------------------------------------------------------------
(* ray_pool_dispatch as the heaps see it: workers may run from the publish of *)
(* the window on, the flag follows, and both end when all tasks are done.     *)
Open ==
  /\ phase = "seq" /\ gc = "no" /\ dropped[Main] = {} /\ phase' = "opening"
  /\ UNCHANGED <<up, lists, live, dropped, gc, lost, torn>>

Flag ==
  /\ phase = "opening" /\ phase' = "region"
  /\ UNCHANGED <<up, lists, live, dropped, gc, lost, torn>>

Close ==
  /\ phase = "region" /\ phase' = "seq"
  /\ \A t \in Thread : dropped[t] = {}
  /\ UNCHANGED <<up, lists, live, dropped, gc, lost, torn>>

(* ray_heap_init of a new worker.                                             *)
HeapInit(t) ==
  /\ t \notin up /\ phase = "seq" /\ gc = "no"
  /\ up' = up \cup {t}
  /\ UNCHANGED <<lists, live, dropped, phase, gc, lost, torn>>

(* ray_heap_destroy of a worker that exits: its blocks leave the other heaps' *)
(* foreign lists and its pools are unmapped; what its own foreign list held   *)
(* is never given back.  `\s` sees to it that no value of its is in use.      *)
HeapDestroy(t) ==
  /\ t \in Worker \cap up /\ phase = "seq" /\ gc = "no"
  /\ dropped[Main] = {} /\ \A b \in live : ~Local(t, b)
  /\ up' = up \ {t}
  /\ foreign' = [u \in Thread |-> IF u = t THEN {} ELSE {b \in foreign[u] : ~Local(t, b)}]
  /\ lost' = {b \in lost : ~Local(t, b)} \cup foreign[t]
  /\ pools' = [pools EXCEPT ![t] = {}] /\ free' = [free EXCEPT ![t] = {}]
  /\ avail' = [avail EXCEPT ![t] = {}] /\ slab' = [slab EXCEPT ![t] = {}]
  /\ bytes' = [bytes EXCEPT ![t] = 0]
  /\ UNCHANGED <<live, dropped, phase, gc, torn>>

-------------------------------------------------------------------------------
Alloc(t, o) ==
  /\ Cardinality(live) < MaxLive
  /\ AllocSlab(t, o) \/ AllocFree(t, o) \/ AllocGrow(t, o) \/ AllocFail(t, o)
Free(t, b)  == FreeForeign(t, b) \/ FreeSlab(t, b) \/ FreeLocal(t, b)
Collect == \/ GcBegin \/ GcForeign \/ GcForeignDone \/ GcSlab \/ GcSlabDone \/ GcDone
           \/ \E h \in Thread, p \in Mapped : GcReclaim(h, p)

Stopped == torn /\ UNCHANGED vars

Next ==
  \/ \E t \in Thread, o \in Req : Alloc(t, o)
  \/ \E t \in Thread, b \in live : Release(t, b)
  \/ \E t \in Thread : \E b \in dropped[t] : Free(t, b)
  \/ Collect
  \/ Open \/ Flag \/ Close
  \/ \E t \in Worker : HeapInit(t) \/ HeapDestroy(t)
  \/ Stopped

Spec == Init /\ [][Next]_vars
-------------------------------------------------------------------------------
(* Every block the heaps know, with the place it is in.                       *)
Places ==
  {<<"live", Main, b>> : b \in live} \cup {<<"lost", Main, b>> : b \in lost}
    \cup UNION {{<<"dropped", t, b>> : b \in dropped[t]} \cup {<<"free", t, b>> : b \in free[t]}
                  \cup {<<"slab", t, b>> : b \in slab[t]} \cup {<<"foreign", t, b>> : b \in foreign[t]}
                : t \in Thread}
Blocks == {e[3] : e \in Places}
Block  == [at : Nat, ord : Order]

TypeOK ==
  /\ up \subseteq Thread /\ Main \in up
  /\ pools \in [Thread -> SUBSET Site] /\ avail \in [Thread -> SUBSET Order]
  /\ Blocks \subseteq Block
  /\ bytes \in [Thread -> Nat]
  /\ \A t \in Thread : /\ Cardinality(dropped[t]) <= 1 /\ Cardinality(pools[t]) <= MaxPools
                       /\ \A o \in 0..SlabMax : Cardinality(OfOrder(slab[t], o)) <= SlabCap
                       /\ t \notin up => pools[t] = {} /\ foreign[t] = {} /\ dropped[t] = {}
  /\ phase \in {"seq", "opening", "region"} /\ gc \in {"no", "foreign", "slabs", "reclaim"}
  /\ torn \in BOOLEAN

(* Splitting, coalescing, slabs and foreign lists keep every pool tiled: each *)
(* min-block but the header belongs to exactly one block in exactly one       *)
(* place, so none is handed out twice and none disappears.                    *)
Tiled ==
  ~torn => \A p \in Mapped : \A c \in Cells(p) :
             Cardinality({e \in Places : c \in Cells(e[3])}) = IF c = p.at THEN 0 ELSE 1

(* Nothing in use and nothing on a list lies in memory ray_heap_gc or         *)
(* ray_heap_destroy has unmapped.                                             *)
NoDangling == \A b \in Blocks : \E p \in Mapped : Cells(b) \subseteq Cells(p)

(* Free and cached blocks are in their owner's lists, foreign lists hold only *)
(* blocks of others: what heap_coalesce relies on when it edits freelists in  *)
(* a parallel region without a lock.                                          *)
AtHome ==
  \A t \in Thread : /\ \A b \in free[t] \cup slab[t] : Local(t, b)
                    /\ \A b \in foreign[t] : ~Local(t, b)

(* The bits, kept by hand wherever a list changes, say which freelists have   *)
(* blocks: without its bit free memory is passed over and a new pool mapped.  *)
AvailExact == \A t \in Thread : avail[t] = Orders(free[t])

(* Coalescing is complete: no free block has its buddy free as well.          *)
Coalesced ==
  ~torn => \A t, u \in Thread : \A b \in free[t], c \in free[u] :
             b.ord = c.ord /\ PoolOf(b) = PoolOf(c) => Buddy(b, b.ord, PoolOf(b)) # c

(* bytes_allocated of a heap is what its pools have given out and not got     *)
(* back, a foreign block counting until it has come home.                     *)
BytesExact ==
  ~torn => \A t \in Thread :
             bytes[t] = Size({b \in Blocks : Local(t, b)} \ (free[t] \cup slab[t]))

(* The lists of heap.c after any sequence of calls of any thread: blocks at   *)
(* home, exact bits and byte counts, nothing left unmerged.                   *)
ListsExact == TypeOK /\ AtHome /\ AvailExact /\ Coalesced /\ BytesExact

(* The heaps implement the allocator their callers are promised.              *)
A == INSTANCE Allocator WITH
       Cell   <- UNION {Cells(s) : s \in Site},
       held   <- live,
       mapped <- UNION {Cells(p) : p \in Mapped}
ImplementsAllocator == A!Spec
===============================================================================
