-------------------------------- MODULE MCViews --------------------------------
(* Views on small instances: a and d are plain globals, d a dictionary, v and *)
(* w may be views.  A view is worth the sum of what it read, plus one, below  *)
(* Radix; -1 stands for ::.                                                   *)
EXTENDS Views, FiniteSetsExt

CONSTANT Radix

R(n) == [op |-> "read", name |-> n, val |-> 0, where |-> "expr"]
L(n) == [op |-> "read", name |-> n, val |-> 0, where |-> "lambda"]
W(n, x) == [op |-> "write", name |-> n, val |-> x, where |-> "expr"]
F(n) == [op |-> "fail", name |-> n, val |-> 0, where |-> "expr"]

MCNames  == {"a", "d", "v", "w"}
MCNull   == -1
MCValues == {MCNull} \cup 0..(Radix - 1)
MCValue(e, s) ==
  IF \E k \in DOMAIN s : s[k] \notin 0..(Radix - 1) THEN MCNull
  ELSE (MapThenSumSet(LAMBDA k : s[k], DOMAIN s) + 1) % Radix

Table(A, D, V, WW) == [n \in MCNames |-> CASE n = "a" -> A [] n = "d" -> D [] n = "v" -> V [] n = "w" -> WW]

MCSetVals == Table({0, 1}, {0, 1}, {0}, {})
MCDicts   == {"d"}

(* Views of globals, of views, of themselves and of each other; an expression *)
(* that fails half way; one that assigns a global before it reads; one that   *)
(* applies a function that reads a view.                                      *)
MCBodies == Table({}, {},
  {<<R("w"), R("a")>>, <<W("a", 1), R("w")>>, <<R("a"), L("w")>>},
  {<<R("a")>>, <<R("d")>>, <<R("w"), R("a")>>, <<R("v")>>, <<R("a"), F("a")>>})
MCAmends == Table({<<>>}, {}, {}, {})
MCHooks  == {<<>>, <<R("v")>>, <<W("a", 0), R("w"), F("a")>>}
===============================================================================
