-------------------------------- MODULE RowSeq --------------------------------
(***************************************************************************)
(* Sequences of row numbers, as the engine's kernels on columns use them.  *)
(***************************************************************************)
EXTENDS Integers, Sequences, SequencesExt, FiniteSetsExt

DivUp(a, b) == (a + b - 1) \div b
MinOf(a, b) == IF a < b THEN a ELSE b
MaxOf(a, b) == IF a < b THEN b ELSE a

\* A function on 1..n as a sequence.
AsSeq(f, n) == SubSeq(f, 1, n)

Ascending(lo, hi) == SubSeq([j \in 1..hi |-> j], lo, hi)
Descending(hi, lo) == [j \in 1..(hi - lo + 1) |-> hi - j + 1]
===============================================================================
