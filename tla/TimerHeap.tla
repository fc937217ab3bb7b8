------------------------------- MODULE TimerHeap -------------------------------
(***************************************************************************)
(* The array operations of src/src/core/timer.c: a binary min-heap on      *)
(* (deadline, id).  A heap is a sequence; indices are the code's, from 0.  *)
(*                                                                         *)
(* The two loops swap an entry step by step along a path of the tree; here *)
(* the path is the least set of places closed under the loop's step, and   *)
(* its entries move by one.                                                *)
(***************************************************************************)
EXTENDS Integers, Sequences

heap_less(a, b) == a.exp < b.exp \/ (a.exp = b.exp /\ a.id < b.id)

At(h, j) == h[j + 1]
Slots(h) == 0..(Len(h) - 1)
Parent(j) == (j - 1) \div 2

(* The places the entry of j comes to in heap_up: with each the parent, while *)
(* the entry is less than the one there.                                      *)
UpPath(h, j) ==
  {k \in 0..j : \A S \in SUBSET (0..j) :
     /\ j \in S
     /\ \A i \in S : i > 0 /\ heap_less(At(h, j), At(h, Parent(i))) => Parent(i) \in S
     => k \in S}

heap_up(h, j) ==
  LET P == UpPath(h, j)
  IN  [k \in DOMAIN h |-> IF k - 1 \notin P THEN h[k]
                          ELSE IF k > 1 /\ Parent(k - 1) \in P THEN At(h, Parent(k - 1))
                          ELSE At(h, j)]

(* The child of i that heap_down swaps with an entry x at i: the least, of    *)
(* those that are less than x.                                                *)
Kids(h, x, i) == {k \in Slots(h) : k \in {2 * i + 1, 2 * i + 2} /\ heap_less(At(h, k), x)}
IsBest(h, x, i, k) ==
  k \in Kids(h, x, i) /\ \A l \in Kids(h, x, i) \ {k} : heap_less(At(h, k), At(h, l))

(* The places the entry of j comes to in heap_down.                           *)
DownPath(h, j) ==
  {k \in Slots(h) : \A S \in SUBSET Slots(h) :
     /\ j \in S
     /\ \A i \in S : \A l \in Kids(h, At(h, j), i) : IsBest(h, At(h, j), i, l) => l \in S
     => k \in S}

heap_down(h, j) ==
  LET P == DownPath(h, j)
      x == At(h, j)
  IN  [k \in DOMAIN h |-> IF k - 1 \notin P THEN h[k]
                          ELSE IF Kids(h, x, k - 1) = {} THEN x
                          ELSE At(h, CHOOSE l \in Slots(h) : IsBest(h, x, k - 1, l))]

Push(h, t) == heap_up(Append(h, t), Len(h))

(* Fault: the tail that replaces the deleted timer is only sifted down.       *)
HeapRemoveDownOnly(h, j) ==
  LET last == Len(h) - 1
      cut  == SubSeq(h, 1, last)
  IN  IF j < last THEN heap_down([cut EXCEPT ![j + 1] = At(h, last)], j) ELSE cut

(* The tail takes the place of entry j and is sifted down, then up.           *)
HeapRemove(h, j) ==
  LET last == Len(h) - 1
      cut  == SubSeq(h, 1, last)
  IN  IF j < last
      THEN heap_up(heap_down([cut EXCEPT ![j + 1] = At(h, last)], j), j)
      ELSE cut

(* The head is replaced by the tail, which is sifted down.                    *)
HeapPop(h) ==
  IF Len(h) = 1 THEN <<>>
  ELSE heap_down([SubSeq(h, 1, Len(h) - 1) EXCEPT ![1] = h[Len(h)]], 0)
===============================================================================
