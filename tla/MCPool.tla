-------------------------------- MODULE MCPool --------------------------------
(* Model values for Pool: two workers, and a ring of one slot that must grow  *)
(* (or be clamped) for a dispatch of two tasks.                               *)
EXTENDS Pool

CONSTANTS w1, w2

MCWorker == {w1, w2}
===============================================================================
