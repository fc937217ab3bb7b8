-------------------------------- MODULE MCHeap --------------------------------
(* Heap on a small address space: two standard pools of two min-blocks and    *)
(* one oversized pool of eight.                                               *)
EXTENDS Heap

MCSite == {[at |-> 0, ord |-> 1], [at |-> 2, ord |-> 1], [at |-> 8, ord |-> 3]}
===============================================================================
