------------------------------ MODULE MCGroup ------------------------------
(***************************************************************************)
(* Small tables for Group: keys that pack into four slots, keys that do    *)
(* not, a null key, and a table below the parallel threshold.              *)
(***************************************************************************)
EXTENDS Group

A == <<0, 0>>
B == <<0, 1>>
C == <<1, 0>>
Far == <<5, 5>>
NullKey == <<NullVal, 0>>

Near == <<A, B, A, C, B>>
FarOff == <<A, Far, A, B, Far>>
Spread == <<A, Far, B, C, A>>
Nulls == <<A, NullKey, NullKey, A, B>>
Short == <<A, Far>>

Holes == <<3, NullVal, 6, 3, NullVal>>
Full == <<3, 5, 6, 3, 7>>
Q(k, v, s, o, y) == [keys |-> k, vals |-> v, sel |-> s, op |-> o, sym |-> y]

MCQueries ==
  {Q(k, Holes, s, "scan", FALSE) : k \in {Near, FarOff, Spread, Nulls, Short}, s \in {NoSel, {}, {1, 2, 4, 5}}}
    \cup {Q(k, Full, s, "expr", FALSE) : k \in {Near, FarOff}, s \in {NoSel, {2, 4}}}
    \cup {Q(FarOff, Full, NoSel, "expr", TRUE), Q(FarOff, Full, NoSel, "pivot", FALSE),
          Q(Short, Full, NoSel, "pivot", FALSE)}
    \cup {Q(k, Full, s, "firstlast", FALSE) : k \in {Near, FarOff}, s \in {NoSel, {2, 3, 4, 5}}}

\* keys that collide in one partition, and keys that do not
MCKeys == {A, B, C, Far, NullKey}
MCPartFns == {[k \in MCKeys |-> 10], [k \in MCKeys |-> IF k = A THEN 10 ELSE 11]}
=============================================================================
