--------------------------------- MODULE Views ---------------------------------
(***************************************************************************)
(* q views (src/src/qlang/eval/q_view.c) over the global environment       *)
(* (q_env.c): `name::expr` binds a carrier that caches the value of expr   *)
(* and is recalculated when it is read after a name of expr changed.       *)
(*                                                                         *)
(* An expression is the sequence of its effects: it reads globals, which   *)
(* recalculates the views among them, and may assign globals, in its own   *)
(* text or in the text of a function it applies.  A set runs               *)
(* the .z.vs hook, itself such a sequence.  Modified and indexed assigns,  *)
(* insert and the name forms of @ and . park the binding (q_env_take) while*)
(* the new value is worked out.  Evaluations nest: the frames form a       *)
(* stack, and an error unwinds it.                                         *)
(***************************************************************************)
EXTENDS Integers, Sequences, FiniteSets

CONSTANTS
  Names,        \* undotted global names
  Values, Null, \* what a global may hold; Null is `::`
  None,         \* no value: an unbound name, a view that has no cache yet
  Value(_, _),  \* the value of an expression that read the given values
  Bodies,       \* Bodies[n]: the expressions that may define n as a view
  SetVals,      \* SetVals[n]: what statements may assign to n
  Dicts,        \* names that hold a dictionary: `d.k:x` writes a member
  Amends,       \* Amends[n]: what the function of @[`n;i;f;x] may do
  Hooks,        \* what .z.vs may do; {} when it is not set
  MaxFrames     \* frames the evaluator may nest (ENV_FRAME_MAX)

Instr == [op : {"read", "write", "fail"}, name : Names, val : Values, where : {"expr", "lambda"}]
Prog  == Seq(Instr)

ASSUME ViewsAssumption ==
  /\ Null \in Values /\ None \notin Values
  /\ Bodies \in [Names -> SUBSET Prog] /\ (\A n \in Names : <<>> \notin Bodies[n])
  /\ SetVals \in [Names -> SUBSET Values]
  /\ Amends \in [Names -> SUBSET Prog] /\ Hooks \subseteq Prog /\ Dicts \subseteq Names
  /\ MaxFrames \in Nat \ {0}

VARIABLES
  val,       \* the value a name is bound to; None when unbound or a view
  body,      \* body[n] # <<>>: n is bound to a view with this expression
  pending,   \* VIEW_PENDING of the view n is bound to
  inrecalc,  \* VIEW_INRECALC
  cache,     \* s[3]: the last value, None before the first
  roster,    \* g_names
  g_in_zvs,  \* the hook is running
  stack,     \* the frames, innermost last
  err,       \* an error is on its way to a frame that stops it
  quiet      \* history: names whose last change no view was told of

view == <<body, pending, inrecalc, cache, roster>>
vars == <<val, view, g_in_zvs, stack, err, quiet>>

Frame == [kind : {"view", "hook", "amend"}, name : Names, prog : Prog, pc : Nat,
          acc : Seq(Values), live : BOOLEAN, saved : Values \cup {None}]

IsView(n) == body[n] # <<>>
Top  == stack[Len(stack)]
Rest == SubSeq(stack, 1, Len(stack) - 1)

(* Bits and carriers are in order, and no view is left in recalculation once  *)
(* the frames are gone: neither a result nor an error leaves one wedged.      *)
TypeOK ==
  /\ val \in [Names -> Values \cup {None}] /\ cache \in [Names -> Values \cup {None}]
  /\ pending \in [Names -> BOOLEAN] /\ inrecalc \in [Names -> BOOLEAN]
  /\ \A n \in Names : body[n] = <<>> \/ body[n] \in Bodies[n]
  /\ roster \subseteq Names /\ g_in_zvs \in BOOLEAN /\ err \in BOOLEAN /\ quiet \subseteq Names
  /\ \A k \in DOMAIN stack : stack[k] \in Frame
  /\ \A n \in Names :
       /\ IsView(n) => val[n] = None
       /\ ~IsView(n) => cache[n] = None /\ ~pending[n] /\ ~inrecalc[n]
       /\ inrecalc[n] => \E k \in DOMAIN stack :
                           stack[k].kind = "view" /\ stack[k].name = n /\ stack[k].live
  /\ g_in_zvs <=> \E k \in DOMAIN stack : stack[k].kind = "hook"

Init ==
  /\ val = [n \in Names |-> None] /\ body = [n \in Names |-> <<>>]
  /\ pending = [n \in Names |-> FALSE] /\ inrecalc = [n \in Names |-> FALSE]
  /\ cache = [n \in Names |-> None]
  /\ roster = {} /\ g_in_zvs = FALSE /\ stack = <<>> /\ err = FALSE /\ quiet = {}

-------------------------------------------------------------------------------
(* deps_scan: every undotted name of the expression, assigned ones included,  *)
(* but not the names of a function in it, which it does not descend into.     *)
Deps(b) == {b[k].name : k \in {j \in DOMAIN b : b[j].op # "fail" /\ b[j].where = "expr"}}

(* Fault: only the views that name a changed name are marked, not the views   *)
(* of views.                                                                  *)
MarkedDirect(N, bd, pd, ro) ==
  {m \in Names : pd[m]} \cup {m \in ro : bd[m] # <<>> /\ N \cap Deps(bd[m]) # {}}

(* mark_dependents: the views that are pending once the names N have changed, *)
(* in an environment with these bodies, bits and roster: those that were,     *)
(* those on the roster that name one of N, and those on the roster that name  *)
(* a pending view.                                                            *)
Marked(N, bd, pd, ro) ==
  LET Seed == {m \in Names : pd[m]} \cup {m \in ro : bd[m] # <<>> /\ N \cap Deps(bd[m]) # {}}
      Closed(S) == /\ Seed \subseteq S
                   /\ \A m \in ro : bd[m] # <<>> /\ (\E k \in Deps(bd[m]) : k \in S /\ bd[k] # <<>>)
                                      => m \in S
  IN  {m \in Names : \A S \in SUBSET Names : Closed(S) => m \in S}

(* roster_heal                                                                *)
Healed(bd, ro) == {m \in ro : bd[m] # <<>>}

(* A frame that recalculates the carrier n was bound to keeps its own         *)
(* reference, but what it computes no longer reaches the environment.         *)
Detach(s, n) == [k \in DOMAIN s |->
                   IF s[k].kind = "view" /\ s[k].name = n THEN [s[k] EXCEPT !.live = FALSE] ELSE s[k]]

HookFrame(n, p) == [kind |-> "hook", name |-> n, prog |-> p, pc |-> 1, acc |-> <<>>,
                    live |-> TRUE, saved |-> None]

(* The hook fires after a set, unless it is running already.                  *)
Fire(n, s) ==
  IF g_in_zvs \/ Hooks = {} \/ Len(s) >= MaxFrames THEN stack' = s /\ UNCHANGED g_in_zvs
  ELSE \E p \in Hooks : stack' = Append(s, HookFrame(n, p)) /\ g_in_zvs' = TRUE

(* q_env_set of a value: bind, then q_view_on_global_set.  s: the frames      *)
(* that go on afterwards.                                                     *)
Bind(n, x, s) ==
  LET bd == [body EXCEPT ![n] = <<>>]
      ro == Healed(bd, roster)
      pd == Marked({n}, bd, [pending EXCEPT ![n] = FALSE], ro)
  IN  /\ val' = [val EXCEPT ![n] = x]
      /\ body' = bd /\ roster' = ro
      /\ cache' = [cache EXCEPT ![n] = None] /\ inrecalc' = [inrecalc EXCEPT ![n] = FALSE]
      /\ pending' = [m \in Names |-> m \in pd]
      /\ quiet' = quiet \ {n}
      /\ Fire(n, Detach(s, n))

-------------------------------------------------------------------------------
(* Statements, typed at the prompt or received.                               *)

Idle == stack = <<>> /\ ~err

Set(n, x) == Idle /\ Bind(n, x, stack) /\ UNCHANGED err

(* delete n from `.; no hook.                                                 *)
Unbind(n) ==
  /\ Idle
  /\ val' = [val EXCEPT ![n] = None]
  /\ body' = [body EXCEPT ![n] = <<>>] /\ roster' = Healed(body', roster)
  /\ cache' = [cache EXCEPT ![n] = None]
  /\ pending' = [m \in Names |-> m \in Marked({n}, body', [pending EXCEPT ![n] = FALSE], roster')]
  /\ quiet' = quiet \ {n}
  /\ UNCHANGED <<inrecalc, g_in_zvs, stack, err>>

(* d.k:x binds a new dictionary to d under the name d.k, which no view        *)
(* depends on.                                                                *)
SetMember(n, x) ==
  /\ Idle
  /\ n \in Dicts /\ val[n] # None /\ val[n] # Null
  /\ val' = [val EXCEPT ![n] = x]
  /\ pending' = [m \in Names |-> m \in Marked({}, body, pending, roster)]
  /\ quiet' = quiet \cup {n}
  /\ Fire(n, stack)
  /\ UNCHANGED <<body, inrecalc, cache, roster, err>>

(* The binding of view_define: a fresh carrier, pending, with this roster.    *)
BindView(n, b, ro) ==
  LET bd == [body EXCEPT ![n] = b]
      pd == Marked({n}, bd, [pending EXCEPT ![n] = TRUE], ro)
  IN  /\ body' = bd /\ roster' = ro
      /\ val' = [val EXCEPT ![n] = None] /\ cache' = [cache EXCEPT ![n] = None]
      /\ pending' = [m \in Names |-> m \in pd]
      /\ quiet' = quiet \ {n}
      /\ Fire(n, stack)
      /\ UNCHANGED <<inrecalc, err>>

(* Fault: a redefinition keeps the old value and marks no dependent.          *)
DefineForgets(n, b) ==
  /\ Idle
  /\ body' = [body EXCEPT ![n] = b] /\ roster' = roster \cup {n}
  /\ val' = [val EXCEPT ![n] = None]
  /\ pending' = [pending EXCEPT ![n] = TRUE]
  /\ Fire(n, stack)
  /\ UNCHANGED <<cache, inrecalc, err, quiet>>

(* n::b, a statement                                                          *)
Define(n, b) == Idle /\ BindView(n, b, roster \cup {n})

(* roster_add had no memory to grow: the view is bound all the same.          *)
DefineUnlisted(n, b) == Idle /\ n \notin roster /\ BindView(n, b, roster)

AmendFrame(n, p) == [kind |-> "amend", name |-> n, prog |-> p, pc |-> 1, acc |-> <<>>,
                     live |-> TRUE, saved |-> val[n]]

(* @[`n;i;f;x] and its kin: the binding is parked, then f runs.               *)
Amend(n, p) ==
  /\ Idle
  /\ val[n] \notin {None, Null}
  /\ val' = [val EXCEPT ![n] = Null]
  /\ stack' = <<AmendFrame(n, p)>>
  /\ UNCHANGED <<view, g_in_zvs, err, quiet>>

-------------------------------------------------------------------------------
(* Evaluation: the innermost frame takes its next step.                       *)

ViewFrame(n) == [kind |-> "view", name |-> n, prog |-> body[n], pc |-> 1, acc |-> <<>>,
                 live |-> TRUE, saved |-> None]

(* view_recalc of the view n, for a reader whose frames are got once it has   *)
(* the value: the cache is valid or its own recalculation asks (first case),  *)
(* there is nothing to give (second), or the expression runs (third).         *)
Deref(n, got) ==
  \/ /\ cache[n] # None /\ (~pending[n] \/ inrecalc[n])
     /\ stack' = got
     /\ UNCHANGED <<inrecalc, err>>
  \/ /\ \/ cache[n] = None /\ inrecalc[n]
        \/ (pending[n] \/ cache[n] = None) /\ ~inrecalc[n] /\ Len(stack) >= MaxFrames
     /\ err' = TRUE
     /\ UNCHANGED <<inrecalc, stack>>
  \/ /\ (pending[n] \/ cache[n] = None) /\ ~inrecalc[n] /\ Len(stack) < MaxFrames
     /\ inrecalc' = [inrecalc EXCEPT ![n] = TRUE]
     /\ stack' = Append(stack, ViewFrame(n))
     /\ UNCHANGED err

(* A statement that reads a view; what it does with the value is not ours.    *)
Read(n) ==
  /\ Idle /\ IsView(n)
  /\ Deref(n, stack)
  /\ UNCHANGED <<val, body, pending, cache, roster, g_in_zvs, quiet>>

Running == stack # <<>> /\ ~err
Cur == Top.prog[Top.pc]
Doing(op) == Running /\ Top.pc \in DOMAIN Top.prog /\ Cur.op = op

(* A frame behind the read that gave it x.                                    *)
Fed(f, x) == [f EXCEPT !.pc = @ + 1, !.acc = Append(@, x)]
Took(x) == Append(Rest, Fed(Top, x))

ReadValue ==
  /\ Doing("read") /\ ~IsView(Cur.name)
  /\ IF val[Cur.name] = None THEN err' = TRUE /\ UNCHANGED stack
                             ELSE stack' = Took(val[Cur.name]) /\ UNCHANGED err
  /\ UNCHANGED <<val, view, g_in_zvs, quiet>>

ReadView ==
  /\ Doing("read") /\ IsView(Cur.name)
  /\ Deref(Cur.name, Took(cache[Cur.name]))
  /\ UNCHANGED <<val, body, pending, cache, roster, g_in_zvs, quiet>>

Write ==
  /\ Doing("write")
  /\ Bind(Cur.name, Cur.val, Append(Rest, [Top EXCEPT !.pc = @ + 1]))
  /\ UNCHANGED err

Fail == Doing("fail") /\ err' = TRUE /\ UNCHANGED <<val, view, g_in_zvs, stack, quiet>>

Ended(kind) == Running /\ Top.kind = kind /\ Top.pc = Len(Top.prog) + 1

(* The reader below goes on with the value.                                   *)
HandBack(x) ==
  IF Rest = <<>> THEN Rest
  ELSE [Rest EXCEPT ![Len(Rest)] = Fed(@, x)]

(* The value of the recalculation is cached, in the carrier, and handed back. *)
Recalculated ==
  /\ Ended("view")
  /\ LET x == Value(Top.prog, Top.acc)
     IN  /\ stack' = HandBack(x)
         /\ IF Top.live
            THEN /\ cache' = [cache EXCEPT ![Top.name] = x]
                 /\ pending' = [pending EXCEPT ![Top.name] = FALSE]
                 /\ inrecalc' = [inrecalc EXCEPT ![Top.name] = FALSE]
            ELSE UNCHANGED <<cache, pending, inrecalc>>
  /\ UNCHANGED <<val, body, roster, g_in_zvs, err, quiet>>

HookEnds ==
  /\ Ended("hook")
  /\ stack' = Rest /\ g_in_zvs' = FALSE
  /\ UNCHANGED <<val, view, err, quiet>>

(* The amended value is bound.                                                *)
AmendSettles(x) ==
  /\ Ended("amend") /\ x \in SetVals[Top.name]
  /\ Bind(Top.name, x, Rest)
  /\ UNCHANGED err

(* The amend itself fails: a wrong type or index.                             *)
AmendFails ==
  /\ Ended("amend")
  /\ err' = TRUE
  /\ UNCHANGED <<val, view, g_in_zvs, stack, quiet>>

(* The amended value finds no memory on its way into the environment: x is    *)
(* what the name is left with, the park or, from q_env_settle, the new value  *)
(* bound without a word to the views.  (A name under amend is never a view:   *)
(* views are defined at the prompt.)                                          *)
AmendLost(x) ==
  /\ Ended("amend") /\ ~IsView(Top.name)
  /\ x \in SetVals[Top.name] \cup {val[Top.name]}
  /\ val' = [val EXCEPT ![Top.name] = x]
  /\ quiet' = quiet \cup {Top.name}
  /\ stack' = Rest /\ err' = TRUE
  /\ UNCHANGED <<view, g_in_zvs>>

(* An error leaves the innermost frame: a view stays pending and keeps its    *)
(* cache, a parked value is bound again, the hook's errors are swallowed, and *)
(* the statement reports the rest.                                            *)
Unwind ==
  /\ err /\ UNCHANGED quiet
  /\ IF stack = <<>> THEN err' = FALSE /\ UNCHANGED <<val, view, g_in_zvs, stack>>
     ELSE /\ stack' = Rest
          /\ err' = (Top.kind # "hook")
          /\ g_in_zvs' = (g_in_zvs /\ Top.kind # "hook")
          /\ val' = IF Top.kind = "amend" THEN [val EXCEPT ![Top.name] = Top.saved] ELSE val
          /\ inrecalc' = IF Top.kind = "view" /\ Top.live
                         THEN [inrecalc EXCEPT ![Top.name] = FALSE] ELSE inrecalc
          /\ UNCHANGED <<body, pending, cache, roster>>

(* q_view_reset: the runtime is torn down.                                    *)
Reset ==
  /\ Idle
  /\ val' = [n \in Names |-> None] /\ body' = [n \in Names |-> <<>>]
  /\ pending' = [n \in Names |-> FALSE] /\ inrecalc' = [n \in Names |-> FALSE]
  /\ cache' = [n \in Names |-> None] /\ roster' = {} /\ g_in_zvs' = FALSE /\ quiet' = {}
  /\ UNCHANGED <<stack, err>>

Statement ==
  \E n \in Names :
    \/ \E x \in SetVals[n] : Set(n, x) \/ SetMember(n, x)
    \/ \E b \in Bodies[n] : Define(n, b) \/ DefineUnlisted(n, b)
    \/ \E p \in Amends[n] : Amend(n, p)
    \/ Unbind(n) \/ Read(n)

Eval ==
  \/ ReadValue \/ ReadView \/ Write \/ Fail
  \/ Recalculated \/ HookEnds \/ AmendFails \/ Unwind
  \/ \E x \in Values : AmendSettles(x) \/ AmendLost(x)

Next == Statement \/ Eval \/ Reset
Spec == Init /\ [][Next]_vars

-------------------------------------------------------------------------------
(* The names an expression uses, itself or in a function it applies.          *)
Uses(b) == {b[k].name : k \in {j \in DOMAIN b : b[j].op # "fail"}}

(* The names that the value of n rests on, through views.                     *)
RestsOn(n) ==
  {m \in Names : \A S \in SUBSET Names :
     Uses(body[n]) \subseteq S /\ (\A k \in S : Uses(body[k]) \subseteq S) => m \in S}

(* Views whose value is a function of other names: a view that rests on       *)
(* itself is computed from its previous value instead.                        *)
Valid(n) == n \in roster /\ IsView(n) /\ ~pending[n] /\ n \notin RestsOn(n)

(* No valid view names a pending one, so \B shows all that a change touched   *)
(* and a read of a valid view may skip recalculating what it rests on.        *)
PendingClosed ==
  \A n \in Names : Valid(n) => \A k \in Deps(body[n]) : IsView(k) => ~pending[k]

(* The marking reaches n from all it rests on: the views in between are on    *)
(* the roster, and they and n name all they use.                              *)
Reached(n) ==
  /\ Uses(body[n]) = Deps(body[n])
  /\ \A k \in RestsOn(n) : IsView(k) => k \in roster /\ Uses(body[k]) = Deps(body[k])

Now(k) == IF IsView(k) THEN cache[k] ELSE val[k]

(* Where an expression reads, and the place of its i-th read.                 *)
Reads(b) == {j \in DOMAIN b : b[j].op = "read"}
ReadAt(b, i) == CHOOSE j \in Reads(b) : Cardinality({k \in Reads(b) : k <= j}) = i

Parked == \E k \in DOMAIN stack : stack[k].kind = "amend"

(* The cached value of a valid view is what its expression is worth now,      *)
(* whatever was set, unbound, redefined or failed since it was computed.      *)
(* Left out are the views that no marking reaches: those that rest on what a  *)
(* function uses or on a view off the roster, and those that name a name      *)
(* whose last change was quiet (a member set, an amend lost for memory).      *)
FreshView(n) ==
  LET b == body[n]
  IN  cache[n] = Value(b, [i \in 1..Cardinality(Reads(b)) |-> Now(b[ReadAt(b, i)].name)])
Fresh ==
  ~Parked => \A n \in Names :
    Valid(n) /\ Reached(n) /\ Deps(body[n]) \cap quiet = {} => FreshView(n)

(* The marks of the views are coherent: no view is left in recalculation by   *)
(* an error, and what rests on a pending view is pending (mark_dependents).   *)
MarksClosed == TypeOK /\ PendingClosed
===============================================================================
