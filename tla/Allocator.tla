------------------------------- MODULE Allocator -------------------------------
(***************************************************************************)
(* What src/src/mem/heap.c promises its callers, whatever its lists look   *)
(* like: ray_alloc hands out memory that is mapped and that nobody else    *)
(* holds, ray_free ends one holding, and memory somebody holds is never    *)
(* unmapped.                                                               *)
(***************************************************************************)
EXTENDS Integers

CONSTANTS
  Cell,      \* addresses
  Cells(_)   \* the cells of a block

VARIABLES
  held,      \* the blocks in use
  mapped     \* the cells that are mapped

Init == held = {} /\ mapped = {}

Disjoint(b) == \A c \in held : Cells(b) \cap Cells(c) = {}

(* The allocator may map more memory on the way.                              *)
Alloc(b) ==
  /\ Disjoint(b)
  /\ held' = held \cup {b}
  /\ mapped \subseteq mapped' /\ mapped' \subseteq Cell
  /\ Cells(b) \subseteq mapped'

Free(b) ==
  /\ b \in held
  /\ held' = held \ {b}
  /\ UNCHANGED mapped

Unmap ==
  /\ mapped' \subseteq mapped
  /\ \A b \in held : Cells(b) \subseteq mapped'
  /\ UNCHANGED held

Next == Unmap \/ (\E b \in held' : Alloc(b)) \/ (\E b \in held : Free(b))
Spec == Init /\ [][Next]_<<held, mapped>>
===============================================================================
