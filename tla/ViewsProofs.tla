------------------------------ MODULE ViewsProofs ------------------------------
(***************************************************************************)
(* The theorems about Views: for any names, expressions, hooks and nesting *)
(* no error or rebinding leaves a view wedged in recalculation; where view *)
(* expressions assign nothing, what rests on a pending view is pending;    *)
(* and where amends are quiet as well, the cache of a view that is not     *)
(* pending is what its expression is worth.                                *)
(***************************************************************************)
EXTENDS Views, SequenceTheorems, FiniteSetTheorems, TLAPS

(* An expression that returns at all returns a value.                         *)
ValueTyped == \A b \in Prog, s \in Seq(Values) : Value(b, s) \in Values

(* The frames st agree with the bodies bd, the recalculation bits ir and the  *)
(* hook flag z: a live recalculation is that of the view its name is bound    *)
(* to, a parked name is not a view, one hook runs at a time and the flag says *)
(* so, and a view in recalculation has a frame that will take the bit down.   *)
FramesOK(st, bd, ir, z) ==
  /\ st \in Seq(Frame)
  /\ \A k \in DOMAIN st :
       /\ st[k].kind = "view" /\ st[k].live => bd[st[k].name] = st[k].prog /\ st[k].prog # <<>>
       /\ st[k].kind = "amend" => bd[st[k].name] = <<>>
  /\ \A j, k \in DOMAIN st : st[j].kind = "hook" /\ st[k].kind = "hook" => j = k
  /\ z <=> \E k \in DOMAIN st : st[k].kind = "hook"
  /\ \A n \in Names : ir[n] => \E k \in DOMAIN st :
                                  st[k].kind = "view" /\ st[k].name = n /\ st[k].live

(* What is bound to a name: a value or a view, and a view's bits and cache    *)
(* only for a view.                                                           *)
BindingsOK ==
  /\ val \in [Names -> Values \cup {None}] /\ cache \in [Names -> Values \cup {None}]
  /\ pending \in [Names -> BOOLEAN] /\ inrecalc \in [Names -> BOOLEAN]
  /\ body \in [Names -> Prog]
  /\ \A n \in Names : body[n] = <<>> \/ body[n] \in Bodies[n]
  /\ roster \subseteq Names /\ g_in_zvs \in BOOLEAN /\ err \in BOOLEAN
  /\ \A n \in Names :
       /\ IsView(n) => val[n] = None
       /\ ~IsView(n) => cache[n] = None /\ ~pending[n] /\ ~inrecalc[n]

Inv == BindingsOK /\ FramesOK(stack, body, inrecalc, g_in_zvs)

LEMMA InvTypeOK == Inv /\ quiet \subseteq Names => TypeOK
  BY DEF Inv, BindingsOK, FramesOK, TypeOK

-------------------------------------------------------------------------------
(* The stack of frames.                                                       *)

(* The innermost frame and the rest.                                          *)
LEMMA SplitStack ==
  ASSUME NEW st \in Seq(Frame), st # <<>>
  PROVE  /\ Len(st) \in Nat /\ Len(st) >= 1 /\ DOMAIN st = 1..Len(st)
         /\ Len(st) \in DOMAIN st /\ st[Len(st)] \in Frame
         /\ SubSeq(st, 1, Len(st) - 1) \in Seq(Frame)
         /\ DOMAIN SubSeq(st, 1, Len(st) - 1) = 1..(Len(st) - 1)
         /\ Len(SubSeq(st, 1, Len(st) - 1)) = Len(st) - 1
         /\ \A k \in 1..(Len(st) - 1) : SubSeq(st, 1, Len(st) - 1)[k] = st[k]
<1>1. Len(st) \in Nat /\ Len(st) >= 1 /\ DOMAIN st = 1..Len(st)
  BY EmptySeq, LenProperties
<1>2. \A k \in 1..Len(st) : st[k] \in Frame
  BY ElementOfSeq
<1> DEFINE r == SubSeq(st, 1, Len(st) - 1)
<1>3. \A k \in 1..(Len(st) - 1) : st[k] \in Frame
  BY <1>1, <1>2
<1>4. /\ r \in Seq(Frame)
      /\ Len(r) = IF 1 <= Len(st) - 1 THEN Len(st) - 1 - 1 + 1 ELSE 0
      /\ \A k \in 1..(Len(st) - 1 - 1 + 1) : r[k] = st[1 + k - 1]
  BY <1>1, <1>3, SubSeqProperties
<1>5. Len(r) = Len(st) - 1 /\ \A k \in 1..(Len(st) - 1) : r[k] = st[k]
  BY <1>1, <1>4
<1>6. DOMAIN r = 1..(Len(st) - 1)
  BY <1>4, <1>5, LenProperties
<1>7. QED
  <2> HIDE DEF r
  <2>1. Len(st) \in DOMAIN st /\ st[Len(st)] \in Frame
    BY <1>1, <1>2
  <2>2. QED BY <1>1, <1>4, <1>5, <1>6, <2>1 DEF r

(* A frame pushed.                                                            *)
LEMMA PushStack ==
  ASSUME NEW st \in Seq(Frame), NEW f \in Frame
  PROVE  /\ Append(st, f) \in Seq(Frame)
         /\ DOMAIN st = 1..Len(st) /\ Len(st) \in Nat
         /\ DOMAIN Append(st, f) = 1..(Len(st) + 1)
         /\ Append(st, f)[Len(st) + 1] = f
         /\ \A k \in 1..Len(st) : Append(st, f)[k] = st[k]
  OBVIOUS

(* Replacing the innermost frame is the same as popping it and pushing the    *)
(* new one.                                                                   *)
LEMMA Replace ==
  ASSUME NEW st \in Seq(Frame), st # <<>>, NEW f \in Frame
  PROVE  /\ Append(SubSeq(st, 1, Len(st) - 1), f) = [st EXCEPT ![Len(st)] = f]
         /\ [st EXCEPT ![Len(st)] = f] \in Seq(Frame)
<1> DEFINE r == SubSeq(st, 1, Len(st) - 1)
<1>1. Append(r, f) \in Seq(Frame) /\ DOMAIN Append(r, f) = DOMAIN st
  BY SplitStack, PushStack
<1>2. \A k \in DOMAIN st : Append(r, f)[k] = [st EXCEPT ![Len(st)] = f][k]
  BY SplitStack, PushStack
<1>3. [st EXCEPT ![Len(st)] = f] \in Seq(Frame) /\ Len([st EXCEPT ![Len(st)] = f]) = Len(st)
  BY SplitStack, ExceptSeq
<1>4. Len(Append(r, f)) = Len(st)
  BY <1>1, SplitStack, LenProperties, AppendProperties
<1>5. Append(r, f) = [st EXCEPT ![Len(st)] = f]
  <2> HIDE DEF r
  <2>1. \A k \in 1..Len(Append(r, f)) : Append(r, f)[k] = [st EXCEPT ![Len(st)] = f][k]
    BY <1>2, <1>4, SplitStack
  <2>2. QED BY <1>1, <1>3, <1>4, <2>1, SeqEqual
<1>6. QED BY <1>3, <1>5

(* A frame leaves, with a result or an error, and takes its bit or the hook   *)
(* flag with it.                                                              *)
LEMMA PopFrames ==
  ASSUME NEW st, NEW bd, NEW ir \in [Names -> BOOLEAN], NEW z \in BOOLEAN,
         FramesOK(st, bd, ir, z), st # <<>>
  PROVE  FramesOK(SubSeq(st, 1, Len(st) - 1), bd,
                  IF st[Len(st)].kind = "view" /\ st[Len(st)].live
                  THEN [ir EXCEPT ![st[Len(st)].name] = FALSE] ELSE ir,
                  z /\ st[Len(st)].kind # "hook")
<1> DEFINE r == SubSeq(st, 1, Len(st) - 1)
           t == st[Len(st)]
           ir2 == IF t.kind = "view" /\ t.live THEN [ir EXCEPT ![t.name] = FALSE] ELSE ir
<1>1. /\ r \in Seq(Frame) /\ DOMAIN r = 1..(Len(st) - 1)
      /\ \A k \in DOMAIN r : r[k] = st[k] /\ k \in DOMAIN st /\ k # Len(st)
      /\ \A k \in DOMAIN st : k \in DOMAIN r \/ k = Len(st)
      /\ Len(st) \in DOMAIN st /\ t \in Frame
  BY SplitStack DEF FramesOK
<1>2. \A k \in DOMAIN r :
       /\ r[k].kind = "view" /\ r[k].live => bd[r[k].name] = r[k].prog /\ r[k].prog # <<>>
       /\ r[k].kind = "amend" => bd[r[k].name] = <<>>
  BY <1>1 DEF FramesOK
<1>3. \A j, k \in DOMAIN r : r[j].kind = "hook" /\ r[k].kind = "hook" => j = k
  BY <1>1 DEF FramesOK
<1>4. (z /\ t.kind # "hook") <=> \E k \in DOMAIN r : r[k].kind = "hook"
  BY <1>1 DEF FramesOK
<1>5. ASSUME NEW n \in Names, ir2[n]
      PROVE  \E k \in DOMAIN r : r[k].kind = "view" /\ r[k].name = n /\ r[k].live
  <2>1. ir[n] /\ ~(t.kind = "view" /\ t.live /\ t.name = n)
    BY <1>1, <1>5 DEF Frame
  <2>2. PICK k \in DOMAIN st : st[k].kind = "view" /\ st[k].name = n /\ st[k].live
    BY <2>1 DEF FramesOK
  <2>3. QED BY <1>1, <2>1, <2>2
<1>6. QED
  <2> HIDE DEF r, ir2
  <2>1. FramesOK(r, bd, ir2, z /\ t.kind # "hook")
    BY <1>1, <1>2, <1>3, <1>4, <1>5 DEF FramesOK
  <2>2. QED BY <2>1 DEF r, ir2

(* The innermost frame goes on.                                               *)
LEMMA AdvanceFrames ==
  ASSUME NEW st, NEW bd, NEW ir, NEW z, FramesOK(st, bd, ir, z), st # <<>>,
         NEW f \in Frame,
         LET t == st[Len(st)]
         IN  f.kind = t.kind /\ f.name = t.name /\ f.prog = t.prog /\ f.live = t.live
  PROVE  FramesOK([st EXCEPT ![Len(st)] = f], bd, ir, z)
<1> DEFINE s == [st EXCEPT ![Len(st)] = f]
<1>1. s \in Seq(Frame)
  BY Replace DEF FramesOK
<1>2. DOMAIN s = DOMAIN st
  OBVIOUS
<1>3. \A k \in DOMAIN st : /\ s[k].kind = st[k].kind /\ s[k].name = st[k].name
                           /\ s[k].prog = st[k].prog /\ s[k].live = st[k].live
  BY SplitStack DEF FramesOK
<1>4. QED
  <2> HIDE DEF s
  <2>1. FramesOK(s, bd, ir, z)
    BY <1>1, <1>2, <1>3 DEF FramesOK
  <2>2. QED BY <2>1 DEF s

(* A recalculation begins.                                                    *)
LEMMA PushView ==
  ASSUME NEW st, NEW bd, NEW ir \in [Names -> BOOLEAN], NEW z, FramesOK(st, bd, ir, z),
         NEW f \in Frame, f.kind = "view", f.live, f.prog = bd[f.name], f.prog # <<>>
  PROVE  FramesOK(Append(st, f), bd, [ir EXCEPT ![f.name] = TRUE], z)
<1> DEFINE s == Append(st, f)
           ir2 == [ir EXCEPT ![f.name] = TRUE]
<1>1. /\ s \in Seq(Frame) /\ DOMAIN s = 1..(Len(st) + 1) /\ Len(st) \in Nat
      /\ DOMAIN st = 1..Len(st)
      /\ s[Len(st) + 1] = f /\ \A k \in DOMAIN st : s[k] = st[k] /\ k \in DOMAIN s
      /\ \A k \in DOMAIN s : k \in DOMAIN st \/ k = Len(st) + 1
      /\ Len(st) + 1 \in DOMAIN s
  BY PushStack DEF FramesOK
<1>2. \A k \in DOMAIN s :
       /\ s[k].kind = "view" /\ s[k].live => bd[s[k].name] = s[k].prog /\ s[k].prog # <<>>
       /\ s[k].kind = "amend" => bd[s[k].name] = <<>>
  BY <1>1 DEF FramesOK
<1>3. \A j, k \in DOMAIN s : s[j].kind = "hook" /\ s[k].kind = "hook" => j = k
  BY <1>1 DEF FramesOK
<1>4. z <=> \E k \in DOMAIN s : s[k].kind = "hook"
  BY <1>1 DEF FramesOK
<1>5. ASSUME NEW n \in Names, ir2[n]
      PROVE  \E k \in DOMAIN s : s[k].kind = "view" /\ s[k].name = n /\ s[k].live
  <2>1. CASE n = f.name
    BY <1>1, <2>1
  <2>2. CASE n # f.name
    <3>1. ir[n]
      BY <1>5, <2>2
    <3>2. QED BY <1>1, <3>1 DEF FramesOK
  <2>3. QED BY <2>1, <2>2
<1>6. QED
  <2> HIDE DEF s, ir2
  <2>1. FramesOK(s, bd, ir2, z)
    BY <1>1, <1>2, <1>3, <1>4, <1>5 DEF FramesOK
  <2>2. QED BY <2>1 DEF s, ir2

(* The hook begins, if it is not running.                                     *)
LEMMA PushHook ==
  ASSUME NEW st, NEW bd, NEW ir, FramesOK(st, bd, ir, FALSE),
         NEW f \in Frame, f.kind = "hook"
  PROVE  FramesOK(Append(st, f), bd, ir, TRUE)
<1> DEFINE s == Append(st, f)
<1>1. /\ s \in Seq(Frame) /\ DOMAIN s = 1..(Len(st) + 1) /\ Len(st) \in Nat
      /\ DOMAIN st = 1..Len(st)
      /\ s[Len(st) + 1] = f /\ \A k \in DOMAIN st : s[k] = st[k] /\ k \in DOMAIN s
      /\ \A k \in DOMAIN s : k \in DOMAIN st \/ k = Len(st) + 1
      /\ Len(st) + 1 \in DOMAIN s
  BY PushStack DEF FramesOK
<1>2. \A k \in DOMAIN st : st[k].kind # "hook"
  BY DEF FramesOK
<1>3. QED
  <2> HIDE DEF s
  <2>1. FramesOK(s, bd, ir, TRUE)
    BY <1>1, <1>2 DEF FramesOK
  <2>2. QED BY <2>1 DEF s

(* A name is rebound: the recalculations of what it named are cut loose.      *)
LEMMA DetachFrames ==
  ASSUME NEW st, NEW bd \in [Names -> Prog], NEW ir \in [Names -> BOOLEAN], NEW z,
         FramesOK(st, bd, ir, z), NEW n \in Names
  PROVE  FramesOK(Detach(st, n), [bd EXCEPT ![n] = <<>>], [ir EXCEPT ![n] = FALSE], z)
<1> DEFINE s == Detach(st, n)
           bd2 == [bd EXCEPT ![n] = <<>>]
           ir2 == [ir EXCEPT ![n] = FALSE]
<1>1. DOMAIN s = DOMAIN st /\ DOMAIN st = 1..Len(st) /\ Len(st) \in Nat
  BY DEF Detach, FramesOK
<1>2. \A k \in DOMAIN st :
        /\ s[k] \in Frame
        /\ s[k].kind = st[k].kind /\ s[k].name = st[k].name /\ s[k].prog = st[k].prog
        /\ s[k].live <=> st[k].live /\ ~(st[k].kind = "view" /\ st[k].name = n)
        /\ st[k].name \in Names
  <2> SUFFICES ASSUME NEW k \in DOMAIN st
               PROVE  /\ s[k] \in Frame
                      /\ s[k].kind = st[k].kind /\ s[k].name = st[k].name /\ s[k].prog = st[k].prog
                      /\ s[k].live <=> st[k].live /\ ~(st[k].kind = "view" /\ st[k].name = n)
                      /\ st[k].name \in Names
    OBVIOUS
  <2>1. st[k] \in Frame
    BY DEF FramesOK
  <2>2. s[k] = IF st[k].kind = "view" /\ st[k].name = n THEN [st[k] EXCEPT !.live = FALSE] ELSE st[k]
    BY DEF Detach
  <2>3. CASE st[k].kind = "view" /\ st[k].name = n
    <3>1. s[k] = [st[k] EXCEPT !.live = FALSE]
      BY <2>2, <2>3
    <3>2. QED BY <2>1, <2>3, <3>1 DEF Frame
  <2>4. CASE ~(st[k].kind = "view" /\ st[k].name = n)
    BY <2>1, <2>2, <2>4 DEF Frame
  <2>5. QED BY <2>3, <2>4
<1>3. s \in Seq(Frame)
  <2>1. s = [k \in 1..Len(st) |-> s[k]]
    BY <1>1 DEF Detach
  <2>2. QED BY <1>1, <1>2, <2>1
<1>4. QED
  <2> HIDE DEF s
  <2>1. \A k \in DOMAIN s :
          /\ s[k].kind = "view" /\ s[k].live => bd2[s[k].name] = s[k].prog /\ s[k].prog # <<>>
          /\ s[k].kind = "amend" => bd2[s[k].name] = <<>>
    BY <1>1, <1>2 DEF FramesOK
  <2>2. \A j, k \in DOMAIN s : s[j].kind = "hook" /\ s[k].kind = "hook" => j = k
    BY <1>1, <1>2 DEF FramesOK
  <2>3. z <=> \E k \in DOMAIN s : s[k].kind = "hook"
    BY <1>1, <1>2 DEF FramesOK
  <2>4. ASSUME NEW m \in Names, ir2[m]
        PROVE  \E k \in DOMAIN s : s[k].kind = "view" /\ s[k].name = m /\ s[k].live
    <3>1. ir[m] /\ m # n
      BY <2>4
    <3>2. PICK k \in DOMAIN st : st[k].kind = "view" /\ st[k].name = m /\ st[k].live
      BY <3>1 DEF FramesOK
    <3>3. QED BY <1>1, <1>2, <3>1, <3>2
  <2>5. FramesOK(s, bd2, ir2, z)
    <3> HIDE DEF bd2, ir2
    <3>1. QED BY <1>3, <2>1, <2>2, <2>3, <2>4 DEF FramesOK
  <2>6. QED BY <2>5 DEF s

-------------------------------------------------------------------------------
(* mark_dependents.                                                           *)

(* Only views are marked.                                                     *)
LEMMA MarkedViews ==
  ASSUME NEW N, NEW bd, NEW pd, NEW ro \in SUBSET Names,
         \A m \in Names : pd[m] => bd[m] # <<>>
  PROVE  \A m \in Marked(N, bd, pd, ro) : m \in Names /\ bd[m] # <<>>
<1> SUFFICES ASSUME NEW m \in Marked(N, bd, pd, ro) PROVE m \in Names /\ bd[m] # <<>>
  OBVIOUS
<1> DEFINE V == {k \in Names : bd[k] # <<>>}
<1>1. V \in SUBSET Names
  OBVIOUS
<1>2. /\ {k \in Names : pd[k]} \cup {k \in ro : bd[k] # <<>> /\ N \cap Deps(bd[k]) # {}} \subseteq V
      /\ \A k \in ro : bd[k] # <<>> /\ (\E j \in Deps(bd[k]) : j \in V /\ bd[j] # <<>>) => k \in V
  OBVIOUS
<1>3. m \in V
  <2> HIDE DEF V
  <2>1. QED BY <1>1, <1>2 DEF Marked
<1>4. QED BY <1>3

(* What names a marked view is marked, if it is a listed view.                *)
LEMMA MarkedClosed ==
  ASSUME NEW N, NEW bd, NEW pd, NEW ro \in SUBSET Names,
         NEW m \in ro, bd[m] # <<>>, NEW k \in Deps(bd[m]),
         k \in Marked(N, bd, pd, ro), bd[k] # <<>>
  PROVE  m \in Marked(N, bd, pd, ro)
<1> DEFINE Seed == {j \in Names : pd[j]} \cup {j \in ro : bd[j] # <<>> /\ N \cap Deps(bd[j]) # {}}
           Closed(S) == /\ Seed \subseteq S
                        /\ \A j \in ro : bd[j] # <<>> /\ (\E i \in Deps(bd[j]) : i \in S /\ bd[i] # <<>>)
                                           => j \in S
<1>1. Marked(N, bd, pd, ro) = {j \in Names : \A S \in SUBSET Names : Closed(S) => j \in S}
  BY DEF Marked
<1>2. \A S \in SUBSET Names : Closed(S) => k \in S
  BY <1>1
<1>3. \A S \in SUBSET Names : Closed(S) => m \in S
  BY <1>2
<1>4. QED
  <2> HIDE DEF Closed
  <2>1. QED BY <1>1, <1>3

-------------------------------------------------------------------------------
(* One step.                                                                  *)

LEMMA FrameTyped ==
  ASSUME BindingsOK, NEW n \in Names
  PROVE  /\ \A p \in Hooks : HookFrame(n, p) \in Frame
         /\ \A p \in Amends[n] : AmendFrame(n, p) \in Frame
         /\ ViewFrame(n) \in Frame
  BY ViewsAssumption, EmptySeq DEF BindingsOK, Frame, HookFrame, AmendFrame, ViewFrame

(* The hook that a set may start.                                             *)
LEMMA FireFrames ==
  ASSUME BindingsOK, NEW n \in Names, NEW s, NEW bd, NEW ir,
         FramesOK(s, bd, ir, g_in_zvs), Fire(n, s)
  PROVE  FramesOK(stack', bd, ir, g_in_zvs') /\ g_in_zvs' \in BOOLEAN
<1>1. CASE stack' = s /\ UNCHANGED g_in_zvs
  BY <1>1 DEF BindingsOK
<1>2. CASE ~g_in_zvs /\ \E p \in Hooks : stack' = Append(s, HookFrame(n, p)) /\ g_in_zvs' = TRUE
  <2>1. PICK p \in Hooks : stack' = Append(s, HookFrame(n, p)) /\ g_in_zvs' = TRUE
    BY <1>2
  <2>2. HookFrame(n, p) \in Frame /\ HookFrame(n, p).kind = "hook"
    BY FrameTyped DEF HookFrame
  <2>3. FramesOK(s, bd, ir, FALSE)
    <3>1. g_in_zvs = FALSE
      BY <1>2 DEF BindingsOK
    <3>2. QED BY <3>1
  <2>4. QED BY <2>1, <2>2, <2>3, PushHook
<1>3. QED BY <1>1, <1>2 DEF Fire

(* Binding a value, by a statement, an expression or a hook.                  *)
LEMMA BindStep ==
  ASSUME BindingsOK, NEW n \in Names, NEW x \in Values, NEW s,
         FramesOK(s, body, inrecalc, g_in_zvs), Bind(n, x, s), UNCHANGED err
  PROVE  Inv'
<1> DEFINE bd == [body EXCEPT ![n] = <<>>]
           ro == Healed(bd, roster)
           pd == [pending EXCEPT ![n] = FALSE]
           M  == Marked({n}, bd, pd, ro)
<1>1. /\ val' = [val EXCEPT ![n] = x] /\ body' = bd /\ roster' = ro
      /\ cache' = [cache EXCEPT ![n] = None] /\ inrecalc' = [inrecalc EXCEPT ![n] = FALSE]
      /\ pending' = [m \in Names |-> m \in M]
      /\ Fire(n, Detach(s, n)) /\ err' = err
  BY DEF Bind
<1>2. ro \in SUBSET Names
  BY DEF Healed, BindingsOK
<1>3. \A m \in Names : pd[m] => bd[m] # <<>>
  BY DEF BindingsOK, IsView
<1>4. \A m \in M : bd[m] # <<>>
  <2> HIDE DEF bd, ro, pd
  <2>1. QED BY <1>2, <1>3, MarkedViews
<1>5. FramesOK(stack', body', inrecalc', g_in_zvs') /\ g_in_zvs' \in BOOLEAN
  <2>1. FramesOK(Detach(s, n), bd, inrecalc', g_in_zvs)
    BY <1>1, DetachFrames DEF BindingsOK
  <2>2. QED BY <1>1, <2>1, FireFrames
<1>6. BindingsOK'
  <2> HIDE DEF M, ro
  <2>1. val' \in [Names -> Values \cup {None}] /\ cache' \in [Names -> Values \cup {None}]
    BY <1>1 DEF BindingsOK
  <2>2. pending' \in [Names -> BOOLEAN] /\ inrecalc' \in [Names -> BOOLEAN]
    BY <1>1 DEF BindingsOK
  <2>3. body' \in [Names -> Prog] /\ \A m \in Names : body'[m] = <<>> \/ body'[m] \in Bodies[m]
    BY <1>1, EmptySeq DEF BindingsOK, Prog
  <2>4. roster' \subseteq Names /\ err' \in BOOLEAN
    BY <1>1, <1>2 DEF BindingsOK
  <2>5. \A m \in Names : body'[m] # <<>> => val'[m] = None
    BY <1>1 DEF BindingsOK, IsView
  <2>6. \A m \in Names : body'[m] = <<>> => cache'[m] = None /\ ~pending'[m] /\ ~inrecalc'[m]
    BY <1>1, <1>4 DEF BindingsOK, IsView
  <2>7. QED BY <1>5, <2>1, <2>2, <2>3, <2>4, <2>5, <2>6 DEF BindingsOK, IsView
<1>7. QED BY <1>5, <1>6 DEF Inv

(* Nothing is in recalculation between statements.                            *)
LEMMA IdleFrames ==
  ASSUME Inv, stack = <<>>
  PROVE  ~g_in_zvs /\ \A n \in Names : ~inrecalc[n]
  BY DEF Inv, FramesOK

(* With no frames, any bodies will do.                                        *)
LEMMA EmptyFrames ==
  ASSUME NEW bd, NEW ir, \A n \in Names : ~ir[n]
  PROVE  FramesOK(<<>>, bd, ir, FALSE)
  BY EmptySeq DEF FramesOK

(* Binding a view.                                                            *)
LEMMA BindViewStep ==
  ASSUME Inv, Idle, NEW n \in Names, NEW b \in Bodies[n],
         NEW ro \in SUBSET Names, BindView(n, b, ro)
  PROVE  Inv'
<1> DEFINE bd == [body EXCEPT ![n] = b]
           pd == [pending EXCEPT ![n] = TRUE]
           M  == Marked({n}, bd, pd, ro)
<1>1. /\ val' = [val EXCEPT ![n] = None] /\ body' = bd /\ roster' = ro
      /\ cache' = [cache EXCEPT ![n] = None] /\ inrecalc' = inrecalc
      /\ pending' = [m \in Names |-> m \in M]
      /\ Fire(n, stack) /\ err' = err
  BY DEF BindView
<1>2. b \in Prog /\ b # <<>>
  BY ViewsAssumption
<1>3. \A m \in Names : pd[m] => bd[m] # <<>>
  BY <1>2 DEF Inv, BindingsOK, IsView
<1>4. \A m \in M : bd[m] # <<>>
  <2> HIDE DEF bd, pd
  <2>1. QED BY <1>3, MarkedViews
<1>5. FramesOK(stack', body', inrecalc', g_in_zvs') /\ g_in_zvs' \in BOOLEAN
  <2>1. stack = <<>> /\ g_in_zvs = FALSE
    BY IdleFrames DEF Idle, Inv, BindingsOK
  <2>2. FramesOK(stack, bd, inrecalc', g_in_zvs)
    BY <1>1, <2>1, EmptyFrames, IdleFrames
  <2>3. QED BY <1>1, <2>2, FireFrames DEF Inv
<1>6. BindingsOK'
  <2> HIDE DEF M
  <2>1. val' \in [Names -> Values \cup {None}] /\ cache' \in [Names -> Values \cup {None}]
    BY <1>1 DEF Inv, BindingsOK
  <2>2. pending' \in [Names -> BOOLEAN] /\ inrecalc' \in [Names -> BOOLEAN]
    BY <1>1 DEF Inv, BindingsOK
  <2>3. body' \in [Names -> Prog] /\ \A m \in Names : body'[m] = <<>> \/ body'[m] \in Bodies[m]
    BY <1>1, <1>2 DEF Inv, BindingsOK
  <2>4. roster' \subseteq Names /\ err' \in BOOLEAN
    BY <1>1 DEF Inv, BindingsOK
  <2>5. \A m \in Names : body'[m] # <<>> => val'[m] = None
    BY <1>1 DEF Inv, BindingsOK, IsView
  <2>6. \A m \in Names : body'[m] = <<>> => cache'[m] = None /\ ~pending'[m] /\ ~inrecalc'[m]
    BY <1>1, <1>2, <1>4 DEF Inv, BindingsOK, IsView
  <2>7. QED BY <1>5, <2>1, <2>2, <2>3, <2>4, <2>5, <2>6 DEF BindingsOK, IsView
<1>7. QED BY <1>5, <1>6 DEF Inv
(* A carrier is read: its cache, an error, or a recalculation.                *)
LEMMA DerefStep ==
  ASSUME Inv, NEW n \in Names, IsView(n), NEW got, Deref(n, got),
         cache[n] # None => FramesOK(got, body, inrecalc, g_in_zvs),
         UNCHANGED <<val, body, pending, cache, roster, g_in_zvs>>
  PROVE  Inv'
<1>1. CASE cache[n] # None /\ stack' = got /\ UNCHANGED <<inrecalc, err>>
  BY <1>1 DEF Inv, BindingsOK, IsView
<1>2. CASE err' = TRUE /\ UNCHANGED <<inrecalc, stack>>
  BY <1>2 DEF Inv, BindingsOK, IsView
<1>3. CASE /\ inrecalc' = [inrecalc EXCEPT ![n] = TRUE]
           /\ stack' = Append(stack, ViewFrame(n))
           /\ UNCHANGED err
  <2>1. ViewFrame(n) \in Frame
    BY FrameTyped DEF Inv
  <2>2. /\ ViewFrame(n).kind = "view" /\ ViewFrame(n).live /\ ViewFrame(n).name = n
        /\ ViewFrame(n).prog = body[n]
    BY DEF ViewFrame
  <2>3. FramesOK(Append(stack, ViewFrame(n)), body, [inrecalc EXCEPT ![n] = TRUE], g_in_zvs)
    <3> DEFINE f == ViewFrame(n)
    <3> HIDE DEF f
    <3>1. /\ f \in Frame /\ f.kind = "view" /\ f.live /\ f.name = n /\ f.prog = body[n]
          /\ f.prog # <<>>
      BY <2>1, <2>2 DEF f, IsView
    <3>2. FramesOK(Append(stack, f), body, [inrecalc EXCEPT ![f.name] = TRUE], g_in_zvs)
      BY <3>1, PushView DEF Inv, BindingsOK
    <3>3. QED BY <3>1, <3>2 DEF f
  <2>4. FramesOK(stack', body', inrecalc', g_in_zvs')
    BY <1>3, <2>3
  <2>5. BindingsOK'
    BY <1>3 DEF Inv, BindingsOK, IsView
  <2>6. QED BY <2>4, <2>5 DEF Inv
<1>4. QED BY <1>1, <1>2, <1>3 DEF Deref

(* A frame behind its assignment.                                             *)
Stepped(t) == [t EXCEPT !.pc = @ + 1]

(* A frame that goes on is the same frame.                                    *)
LEMMA FrameMoves ==
  ASSUME NEW t \in Frame, NEW f,
         f = Stepped(t) \/ \E x \in Values : f = Fed(t, x)
  PROVE  /\ f \in Frame /\ f.pc = t.pc + 1
         /\ f.kind = t.kind /\ f.name = t.name /\ f.prog = t.prog /\ f.live = t.live
<1> DEFINE A == Seq(Values)
           K == {"view", "hook", "amend"}
           V == Values \cup {None}
<1>1. Frame = [kind : K, name : Names, prog : Prog, pc : Nat, acc : A, live : BOOLEAN, saved : V]
  BY DEF Frame
<1>2. \A x \in Values : Append(t.acc, x) \in A
  BY AppendProperties DEF Frame
<1> HIDE DEF A, K, V
<1>3. t.pc + 1 \in Nat
  BY <1>1
<1>4. CASE f = Stepped(t)
  BY <1>1, <1>3, <1>4 DEF Stepped
<1>5. ASSUME NEW x \in Values, f = Fed(t, x)
      PROVE  /\ f \in Frame /\ f.pc = t.pc + 1
             /\ f.kind = t.kind /\ f.name = t.name /\ f.prog = t.prog /\ f.live = t.live
  <2> DEFINE p == t.pc + 1
             a == Append(t.acc, x)
  <2>1. f = [t EXCEPT !.pc = p, !.acc = a]
    BY <1>1, <1>5 DEF Fed
  <2>2. p \in Nat /\ a \in A
    BY <1>2, <1>3
  <2> HIDE DEF p, a
  <2>3. /\ t.kind \in K /\ t.name \in Names /\ t.prog \in Prog
        /\ t.live \in BOOLEAN /\ t.saved \in V
    BY <1>1
  <2>4. /\ f.pc = p /\ f.acc = a
        /\ f.kind = t.kind /\ f.name = t.name /\ f.prog = t.prog /\ f.live = t.live
    BY <1>1, <2>1
  <2>5. f \in Frame
    BY <1>1, <2>1, <2>2, <2>3
  <2>6. QED BY <2>4, <2>5 DEF p
<1>6. QED BY <1>4, <1>5

(* The reader goes on behind its read, whichever way the stack is written.    *)
LEMMA MovedFrames ==
  ASSUME NEW st, NEW bd, NEW ir, NEW z, FramesOK(st, bd, ir, z), st # <<>>, NEW f,
         f = Stepped(st[Len(st)]) \/ \E x \in Values : f = Fed(st[Len(st)], x)
  PROVE  /\ FramesOK([st EXCEPT ![Len(st)] = f], bd, ir, z)
         /\ Append(SubSeq(st, 1, Len(st) - 1), f) = [st EXCEPT ![Len(st)] = f]
<1> DEFINE t == st[Len(st)]
<1>1. t \in Frame /\ st \in Seq(Frame)
  BY SplitStack DEF FramesOK
<1>2. /\ f \in Frame /\ f.kind = t.kind /\ f.name = t.name /\ f.prog = t.prog
      /\ f.live = t.live
  <2> HIDE DEF t
  <2>1. f = Stepped(t) \/ \E x \in Values : f = Fed(t, x)
    BY DEF t
  <2>2. QED BY <1>1, <2>1, FrameMoves
<1>3. QED BY <1>1, <1>2, AdvanceFrames, Replace
(* The innermost frame, and the instruction it is at.                         *)
LEMMA CurTyped ==
  ASSUME Inv, Running
  PROVE  /\ stack \in Seq(Frame) /\ stack # <<>> /\ Top \in Frame
         /\ Top.pc \in DOMAIN Top.prog => Cur \in Instr /\ Cur.name \in Names /\ Cur.val \in Values
<1>1. stack \in Seq(Frame) /\ stack # <<>>
  BY DEF Inv, FramesOK, Running
<1>2. Top \in Frame
  BY <1>1, SplitStack DEF Top
<1>3. Top.prog \in Seq(Instr)
  BY <1>2 DEF Frame, Prog
<1>4. ASSUME Top.pc \in DOMAIN Top.prog PROVE Cur \in Instr
  <2> DEFINE q == Top.prog
  <2> HIDE DEF q
  <2>1. q \in Seq(Instr) /\ Top.pc \in 1..Len(q)
    BY <1>3, <1>4, LenProperties DEF q
  <2>2. q[Top.pc] \in Instr
    BY <2>1, ElementOfSeq
  <2>3. QED BY <2>2 DEF Cur, q
<1>5. QED BY <1>1, <1>2, <1>4 DEF Instr

LEMMA TookStep ==
  ASSUME Inv, Running, NEW x \in Values
  PROVE  /\ Took(x) = [stack EXCEPT ![Len(stack)] = Fed(Top, x)]
         /\ FramesOK(Took(x), body, inrecalc, g_in_zvs)
<1>1. stack # <<>> /\ FramesOK(stack, body, inrecalc, g_in_zvs)
  BY DEF Inv, Running
<1>2. Took(x) = Append(Rest, Fed(Top, x))
  BY DEF Took
<1> DEFINE f == Fed(Top, x)
<1>3. \E y \in Values : f = Fed(stack[Len(stack)], y)
  BY DEF Top
<1>4. Rest = SubSeq(stack, 1, Len(stack) - 1)
  BY DEF Rest
<1> HIDE DEF f
<1>5. /\ FramesOK([stack EXCEPT ![Len(stack)] = f], body, inrecalc, g_in_zvs)
      /\ Append(Rest, f) = [stack EXCEPT ![Len(stack)] = f]
  BY <1>1, <1>3, <1>4, MovedFrames
<1>6. QED BY <1>2, <1>5 DEF f

LEMMA StatementInv == ASSUME Inv, Statement PROVE Inv'
<1>1. ASSUME NEW n \in Names, NEW x \in SetVals[n], Set(n, x) PROVE Inv'
  <2>1. x \in Values
    BY ViewsAssumption
  <2>2. QED BY <1>1, <2>1, BindStep DEF Set, Inv
<1>2. ASSUME NEW n \in Names, NEW x \in SetVals[n], SetMember(n, x) PROVE Inv'
  <2>1. x \in Values
    BY ViewsAssumption
  <2>2. ~IsView(n)
    BY <1>2 DEF SetMember, Inv, BindingsOK
  <2> DEFINE M == Marked({}, body, pending, roster)
  <2>3. pending' = [m \in Names |-> m \in M]
    BY <1>2 DEF SetMember
  <2>4. \A m \in M : body[m] # <<>>
    BY MarkedViews DEF Inv, BindingsOK, IsView
  <2>5. FramesOK(stack', body', inrecalc', g_in_zvs') /\ g_in_zvs' \in BOOLEAN
    <3>1. Fire(n, stack) /\ body' = body /\ inrecalc' = inrecalc
      BY <1>2 DEF SetMember
    <3>2. QED BY <3>1, FireFrames DEF Inv
  <2> HIDE DEF M
  <2>6. BindingsOK'
    <3>1. \A m \in Names : body[m] = <<>> => ~pending'[m]
      BY <2>3, <2>4
    <3>1a. pending' \in [Names -> BOOLEAN]
      BY <2>3
    <3>2. val' \in [Names -> Values \cup {None}] /\ \A m \in Names : IsView(m) => val'[m] = None
      BY <1>2, <2>1, <2>2 DEF SetMember, Inv, BindingsOK
    <3>3. UNCHANGED <<body, inrecalc, cache, roster, err>>
      BY <1>2 DEF SetMember
    <3>4. QED BY <2>5, <3>1, <3>1a, <3>2, <3>3 DEF Inv, BindingsOK, IsView
  <2>7. QED BY <2>5, <2>6 DEF Inv
<1>3. ASSUME NEW n \in Names, NEW b \in Bodies[n], Define(n, b) PROVE Inv'
  <2>1. roster \cup {n} \in SUBSET Names
    BY DEF Inv, BindingsOK
  <2>2. QED BY <1>3, <2>1, BindViewStep DEF Define
<1>4. ASSUME NEW n \in Names, NEW b \in Bodies[n], DefineUnlisted(n, b) PROVE Inv'
  <2>1. roster \in SUBSET Names
    BY DEF Inv, BindingsOK
  <2>2. QED BY <1>4, <2>1, BindViewStep DEF DefineUnlisted
<1>5. ASSUME NEW n \in Names, NEW p \in Amends[n], Amend(n, p) PROVE Inv'
  <2>1. /\ stack = <<>> /\ val[n] \notin {None, Null} /\ val' = [val EXCEPT ![n] = Null]
        /\ stack' = <<AmendFrame(n, p)>>
        /\ UNCHANGED <<body, pending, inrecalc, cache, roster, g_in_zvs, err>>
    BY <1>5 DEF Amend, Idle, view
  <2>2. ~IsView(n)
    BY <2>1 DEF Inv, BindingsOK
  <2>3. BindingsOK'
    BY <2>1, <2>2, ViewsAssumption DEF Inv, BindingsOK, IsView
  <2>4. FramesOK(stack', body', inrecalc', g_in_zvs')
    <3> DEFINE f == AmendFrame(n, p)
    <3>1. f \in Frame /\ f.kind = "amend" /\ f.name = n
      BY FrameTyped DEF Inv, AmendFrame
    <3> HIDE DEF f
    <3>2. stack' = <<f>>
      BY <2>1 DEF f
    <3>3. ~g_in_zvs /\ \A m \in Names : ~inrecalc[m]
      BY <2>1, IdleFrames
    <3>4. <<f>> \in Seq(Frame) /\ DOMAIN <<f>> = {1} /\ <<f>>[1] = f
      BY <3>1
    <3>5. FramesOK(<<f>>, body, inrecalc, g_in_zvs)
      BY <2>2, <3>1, <3>3, <3>4 DEF FramesOK, IsView
    <3>6. QED BY <2>1, <3>2, <3>5
  <2>5. QED BY <2>3, <2>4 DEF Inv
<1>6. ASSUME NEW n \in Names, Unbind(n) PROVE Inv'
  <2> DEFINE bd == [body EXCEPT ![n] = <<>>]
             ro == Healed(bd, roster)
             pd == [pending EXCEPT ![n] = FALSE]
             M == Marked({n}, bd, pd, ro)
  <2>1. /\ stack = <<>> /\ val' = [val EXCEPT ![n] = None] /\ body' = bd /\ roster' = ro
        /\ cache' = [cache EXCEPT ![n] = None] /\ pending' = [m \in Names |-> m \in M]
        /\ UNCHANGED <<inrecalc, g_in_zvs, stack, err>>
    BY <1>6 DEF Unbind, Idle
  <2>2. ro \in SUBSET Names
    BY DEF Healed, Inv, BindingsOK
  <2>3. \A m \in Names : pd[m] => bd[m] # <<>>
    BY DEF Inv, BindingsOK, IsView
  <2>4. \A m \in M : bd[m] # <<>>
    <3> HIDE DEF bd, ro, pd
    <3>1. QED BY <2>2, <2>3, MarkedViews
  <2>5. ~g_in_zvs /\ \A m \in Names : ~inrecalc[m]
    BY <2>1, IdleFrames
  <2>6. FramesOK(stack', body', inrecalc', g_in_zvs')
    <3>1. stack' = <<>> /\ g_in_zvs' = FALSE /\ \A m \in Names : ~inrecalc'[m]
      BY <2>1, <2>5 DEF Inv, BindingsOK
    <3>2. QED BY <3>1, EmptyFrames
  <2>7. BindingsOK'
    <3> HIDE DEF M, ro
    <3>1. val' \in [Names -> Values \cup {None}] /\ cache' \in [Names -> Values \cup {None}]
      BY <2>1 DEF Inv, BindingsOK
    <3>2. pending' \in [Names -> BOOLEAN] /\ inrecalc' \in [Names -> BOOLEAN]
      BY <2>1 DEF Inv, BindingsOK
    <3>3. body' \in [Names -> Prog] /\ \A m \in Names : body'[m] = <<>> \/ body'[m] \in Bodies[m]
      BY <2>1, EmptySeq DEF Inv, BindingsOK, Prog
    <3>4. roster' \subseteq Names /\ err' \in BOOLEAN /\ g_in_zvs' \in BOOLEAN
      BY <2>1, <2>2 DEF Inv, BindingsOK
    <3>5. \A m \in Names : body'[m] # <<>> => val'[m] = None
      BY <2>1 DEF Inv, BindingsOK, IsView
    <3>6. \A m \in Names : body'[m] = <<>> => cache'[m] = None /\ ~pending'[m] /\ ~inrecalc'[m]
      BY <2>1, <2>4, <2>5 DEF Inv, BindingsOK, IsView
    <3>7. QED BY <3>1, <3>2, <3>3, <3>4, <3>5, <3>6 DEF BindingsOK, IsView
  <2>8. QED BY <2>6, <2>7 DEF Inv
<1>7. ASSUME NEW n \in Names, Read(n) PROVE Inv'
  <2>1. FramesOK(stack, body, inrecalc, g_in_zvs)
    BY DEF Inv
  <2>2. QED BY <1>7, <2>1, DerefStep DEF Read
<1>8. QED BY <1>1, <1>2, <1>3, <1>4, <1>5, <1>6, <1>7 DEF Statement

LEMMA EvalInv == ASSUME ValueTyped, Inv, Eval PROVE Inv'
<1>1. CASE ReadValue
  <2>1. Running /\ Top.pc \in DOMAIN Top.prog
    BY <1>1 DEF ReadValue, Doing
  <2>2. Cur.name \in Names
    BY <2>1, CurTyped
  <2>3. UNCHANGED <<val, body, pending, inrecalc, cache, roster, g_in_zvs>>
    BY <1>1 DEF ReadValue, view
  <2>4. CASE val[Cur.name] = None
    <3>1. err' = TRUE /\ stack' = stack
      BY <1>1, <2>4 DEF ReadValue
    <3>2. QED BY <2>3, <3>1 DEF Inv, BindingsOK, IsView
  <2>5. CASE val[Cur.name] # None
    <3>1. stack' = Took(val[Cur.name]) /\ err' = err
      BY <1>1, <2>5 DEF ReadValue
    <3>2. val[Cur.name] \in Values
      BY <2>2, <2>5 DEF Inv, BindingsOK
    <3>3. FramesOK(Took(val[Cur.name]), body, inrecalc, g_in_zvs)
      BY <2>1, <3>2, TookStep
    <3>4. FramesOK(stack', body', inrecalc', g_in_zvs')
      BY <2>3, <3>1, <3>3
    <3>5. BindingsOK'
      BY <2>3, <3>1 DEF Inv, BindingsOK, IsView
    <3>6. QED BY <3>4, <3>5 DEF Inv
  <2>6. QED BY <2>4, <2>5
<1>2. CASE ReadView
  <2>1. Running /\ Top.pc \in DOMAIN Top.prog /\ IsView(Cur.name)
    BY <1>2 DEF ReadView, Doing
  <2>2. Cur.name \in Names
    BY <2>1, CurTyped
  <2>3. cache[Cur.name] # None => FramesOK(Took(cache[Cur.name]), body, inrecalc, g_in_zvs)
    <3>1. cache[Cur.name] # None => cache[Cur.name] \in Values
      BY <2>2 DEF Inv, BindingsOK
    <3>2. QED BY <2>1, <3>1, TookStep
  <2>4. QED BY <1>2, <2>1, <2>2, <2>3, DerefStep DEF ReadView
<1>3. CASE Write
  <2>1. Running /\ Top.pc \in DOMAIN Top.prog
    BY <1>3 DEF Write, Doing
  <2>2. Cur.name \in Names /\ Cur.val \in Values
    BY <2>1, CurTyped
  <2> DEFINE s == Append(Rest, [Top EXCEPT !.pc = @ + 1])
  <2>3. s = Append(SubSeq(stack, 1, Len(stack) - 1), Stepped(stack[Len(stack)]))
    BY DEF Rest, Top, Stepped
  <2>4. FramesOK(s, body, inrecalc, g_in_zvs)
    <3> DEFINE f == Stepped(stack[Len(stack)])
    <3>1. f = Stepped(stack[Len(stack)])
      OBVIOUS
    <3> HIDE DEF f
    <3>2. stack # <<>> /\ FramesOK(stack, body, inrecalc, g_in_zvs)
      BY <2>1 DEF Inv, Running
    <3>3. /\ FramesOK([stack EXCEPT ![Len(stack)] = f], body, inrecalc, g_in_zvs)
          /\ Append(SubSeq(stack, 1, Len(stack) - 1), f) = [stack EXCEPT ![Len(stack)] = f]
      BY <3>1, <3>2, MovedFrames
    <3>4. s = [stack EXCEPT ![Len(stack)] = f]
      BY <2>3, <3>1, <3>3
    <3>5. QED BY <3>3, <3>4
  <2>5. Bind(Cur.name, Cur.val, s) /\ UNCHANGED err
    BY <1>3 DEF Write
  <2> HIDE DEF s
  <2>6. QED BY <2>2, <2>4, <2>5, BindStep DEF Inv
<1>4. CASE Fail \/ AmendFails
  <2>1. err' = TRUE /\ UNCHANGED <<val, body, pending, inrecalc, cache, roster, g_in_zvs, stack>>
    BY <1>4 DEF Fail, AmendFails, view
  <2>2. QED BY <2>1 DEF Inv, BindingsOK, IsView
<1>5. CASE Recalculated
  <2> DEFINE x == Value(Top.prog, Top.acc)
  <2>1. Running /\ Top.kind = "view" /\ stack \in Seq(Frame) /\ stack # <<>> /\ Top \in Frame
    BY <1>5, CurTyped DEF Recalculated, Ended
  <2>2. x \in Values
    BY <2>1 DEF ValueTyped, Frame
  <2>3. /\ stack' = HandBack(x)
        /\ IF Top.live THEN /\ cache' = [cache EXCEPT ![Top.name] = x]
                            /\ pending' = [pending EXCEPT ![Top.name] = FALSE]
                            /\ inrecalc' = [inrecalc EXCEPT ![Top.name] = FALSE]
           ELSE UNCHANGED <<cache, pending, inrecalc>>
        /\ UNCHANGED <<val, body, roster, g_in_zvs, err>>
    BY <1>5 DEF Recalculated
  <2> HIDE DEF x
  <2>4. Top.name \in Names /\ (Top.live => IsView(Top.name))
    <3>1. Len(stack) \in DOMAIN stack
      BY <2>1, SplitStack
    <3>2. QED BY <2>1, <3>1 DEF Inv, FramesOK, Top, Frame, IsView
  <2>5. FramesOK(Rest, body', inrecalc', g_in_zvs')
    <3>1. FramesOK(Rest, body, IF Top.kind = "view" /\ Top.live
                               THEN [inrecalc EXCEPT ![Top.name] = FALSE] ELSE inrecalc,
                   g_in_zvs /\ Top.kind # "hook")
      BY <2>1, PopFrames DEF Inv, BindingsOK, Rest, Top
    <3>2. inrecalc' = (IF Top.kind = "view" /\ Top.live
                       THEN [inrecalc EXCEPT ![Top.name] = FALSE] ELSE inrecalc)
      BY <2>1, <2>3
    <3>3. g_in_zvs' = (g_in_zvs /\ Top.kind # "hook")
      BY <2>1, <2>3 DEF Inv, BindingsOK
    <3>4. QED BY <2>3, <3>1, <3>2, <3>3
  <2>6. FramesOK(HandBack(x), body', inrecalc', g_in_zvs')
    <3>1. CASE Rest = <<>>
      BY <2>5, <3>1 DEF HandBack
    <3>2. CASE Rest # <<>>
      <4> DEFINE f == Fed(Rest[Len(Rest)], x)
      <4>1. HandBack(x) = [Rest EXCEPT ![Len(Rest)] = f]
        BY <3>2 DEF HandBack
      <4>2. \E y \in Values : f = Fed(Rest[Len(Rest)], y)
        BY <2>2
      <4> HIDE DEF f
      <4>3. FramesOK([Rest EXCEPT ![Len(Rest)] = f], body', inrecalc', g_in_zvs')
        BY <2>5, <3>2, <4>2, MovedFrames
      <4>4. QED BY <4>1, <4>3
    <3>3. QED BY <3>1, <3>2
  <2>7. BindingsOK'
    <3>1. CASE Top.live
      BY <2>2, <2>3, <2>4, <3>1 DEF Inv, BindingsOK, IsView
    <3>2. CASE ~Top.live
      BY <2>3, <3>2 DEF Inv, BindingsOK, IsView
    <3>3. QED BY <3>1, <3>2
  <2>8. QED BY <2>3, <2>6, <2>7 DEF Inv
<1>6. CASE HookEnds
  <2>1. /\ stack # <<>> /\ Top.kind = "hook" /\ stack' = Rest /\ g_in_zvs' = FALSE
        /\ UNCHANGED <<val, body, pending, inrecalc, cache, roster, err>>
    BY <1>6 DEF HookEnds, Ended, Running, view
  <2>2. FramesOK(Rest, body, IF Top.kind = "view" /\ Top.live
                             THEN [inrecalc EXCEPT ![Top.name] = FALSE] ELSE inrecalc,
                 g_in_zvs /\ Top.kind # "hook")
    BY <2>1, PopFrames DEF Inv, BindingsOK, Rest, Top
  <2>3. (g_in_zvs /\ Top.kind # "hook") = FALSE
    BY <2>1
  <2>4. FramesOK(stack', body', inrecalc', g_in_zvs')
    BY <2>1, <2>2, <2>3
  <2>5. BindingsOK'
    BY <2>1 DEF Inv, BindingsOK, IsView
  <2>6. QED BY <2>4, <2>5 DEF Inv
<1>7. ASSUME NEW x \in Values, AmendSettles(x) PROVE Inv'
  <2>1. Running /\ Top.kind = "amend" /\ Bind(Top.name, x, Rest) /\ UNCHANGED err
    BY <1>7 DEF AmendSettles, Ended
  <2>2. stack # <<>> /\ Top \in Frame /\ Top.name \in Names
    BY <2>1, CurTyped DEF Frame
  <2>3. FramesOK(Rest, body, IF Top.kind = "view" /\ Top.live
                             THEN [inrecalc EXCEPT ![Top.name] = FALSE] ELSE inrecalc,
                 g_in_zvs /\ Top.kind # "hook")
    BY <2>2, PopFrames DEF Inv, BindingsOK, Rest, Top
  <2>4. (g_in_zvs /\ Top.kind # "hook") = g_in_zvs
    BY <2>1 DEF Inv, BindingsOK
  <2>5. FramesOK(Rest, body, inrecalc, g_in_zvs)
    BY <2>1, <2>3, <2>4
  <2>6. QED BY <2>1, <2>2, <2>5, BindStep DEF Inv
<1>10. ASSUME NEW x \in Values, AmendLost(x) PROVE Inv'
  <2>1. /\ Running /\ Top.kind = "amend" /\ ~IsView(Top.name) /\ val' = [val EXCEPT ![Top.name] = x]
        /\ stack' = Rest /\ err' = TRUE /\ UNCHANGED <<body, pending, inrecalc, cache, roster, g_in_zvs>>
    BY <1>10 DEF AmendLost, Ended, view
  <2>2. stack # <<>> /\ Top \in Frame /\ Top.name \in Names
    BY <2>1, CurTyped DEF Frame
  <2>3. FramesOK(Rest, body, IF Top.kind = "view" /\ Top.live
                             THEN [inrecalc EXCEPT ![Top.name] = FALSE] ELSE inrecalc,
                 g_in_zvs /\ Top.kind # "hook")
    BY <2>2, PopFrames DEF Inv, BindingsOK, Rest, Top
  <2>4. (g_in_zvs /\ Top.kind # "hook") = g_in_zvs
    BY <2>1 DEF Inv, BindingsOK
  <2>5. FramesOK(stack', body', inrecalc', g_in_zvs')
    BY <2>1, <2>3, <2>4
  <2>6. BindingsOK'
    BY <2>1, <2>2 DEF Inv, BindingsOK, IsView
  <2>7. QED BY <2>5, <2>6 DEF Inv
<1>8. CASE Unwind
  <2>1. CASE stack = <<>>
    <3>1. err' = FALSE /\ UNCHANGED <<val, body, pending, inrecalc, cache, roster, g_in_zvs, stack>>
      BY <1>8, <2>1 DEF Unwind, view
    <3>2. QED BY <3>1 DEF Inv, BindingsOK, IsView
  <2>2. CASE stack # <<>>
    <3>1. /\ stack' = Rest
          /\ err' = (Top.kind # "hook")
          /\ g_in_zvs' = (g_in_zvs /\ Top.kind # "hook")
          /\ val' = IF Top.kind = "amend" THEN [val EXCEPT ![Top.name] = Top.saved] ELSE val
          /\ inrecalc' = IF Top.kind = "view" /\ Top.live
                         THEN [inrecalc EXCEPT ![Top.name] = FALSE] ELSE inrecalc
          /\ UNCHANGED <<body, pending, cache, roster>>
      BY <1>8, <2>2 DEF Unwind
    <3>2. FramesOK(stack', body', inrecalc', g_in_zvs')
      BY <2>2, <3>1, PopFrames DEF Inv, BindingsOK, Rest, Top
    <3>3. Len(stack) \in DOMAIN stack /\ Top \in Frame
      BY <2>2, SplitStack DEF Inv, FramesOK, Top
    <3>4. /\ Top.name \in Names /\ Top.saved \in Values \cup {None}
          /\ Top.kind = "amend" => ~IsView(Top.name)
      BY <3>3 DEF Inv, FramesOK, Top, Frame, IsView
    <3>5. val' \in [Names -> Values \cup {None}] /\ \A n \in Names : IsView(n) => val'[n] = None
      BY <3>1, <3>4 DEF Inv, BindingsOK
    <3>6. inrecalc' \in [Names -> BOOLEAN] /\ \A n \in Names : ~IsView(n) => ~inrecalc'[n]
      BY <3>1, <3>4 DEF Inv, BindingsOK
    <3>7. err' \in BOOLEAN /\ g_in_zvs' \in BOOLEAN
      BY <3>1 DEF Inv, BindingsOK
    <3>8. BindingsOK'
      BY <3>1, <3>5, <3>6, <3>7 DEF Inv, BindingsOK, IsView
    <3>9. QED BY <3>2, <3>8 DEF Inv
  <2>3. QED BY <2>1, <2>2
<1>9. QED BY <1>1, <1>2, <1>3, <1>4, <1>5, <1>6, <1>7, <1>8, <1>10 DEF Eval

LEMMA StepInv == ASSUME ValueTyped PROVE Inv /\ [Next]_vars => Inv'
<1> SUFFICES ASSUME Inv, [Next]_vars PROVE Inv'
  OBVIOUS
<1>1. CASE Reset
  <2>1. /\ stack' = <<>> /\ g_in_zvs' = FALSE /\ \A n \in Names : ~inrecalc'[n]
    BY <1>1 DEF Reset, Idle
  <2>2. FramesOK(stack', body', inrecalc', g_in_zvs')
    BY <2>1, EmptyFrames
  <2>3. BindingsOK'
    BY <1>1, EmptySeq DEF Reset, Inv, BindingsOK, IsView, Prog
  <2>4. QED BY <2>2, <2>3 DEF Inv
<1>2. CASE UNCHANGED vars
  BY <1>2 DEF vars, view, Inv, BindingsOK, IsView
<1>3. QED BY <1>1, <1>2, StatementInv, EvalInv DEF Next

LEMMA InitInv == Init => Inv
<1> SUFFICES ASSUME Init PROVE Inv
  OBVIOUS
<1>1. stack = <<>> /\ g_in_zvs = FALSE /\ \A n \in Names : ~inrecalc[n]
  BY DEF Init
<1>2. FramesOK(stack, body, inrecalc, g_in_zvs)
  BY <1>1, EmptyFrames
<1>3. BindingsOK
  BY EmptySeq DEF Init, BindingsOK, IsView, Prog
<1>4. QED BY <1>2, <1>3 DEF Inv

(* The history of quiet changes names names.                                  *)
LEMMA QuietStep ==
  ASSUME Inv, quiet \subseteq Names, [Next]_vars PROVE quiet' \subseteq Names
<1>1. CASE Statement
  <2>1. PICK n \in Names : quiet' = quiet \/ quiet' = quiet \ {n} \/ quiet' = quiet \cup {n}
    BY <1>1 DEF Statement, Set, SetMember, Define, DefineUnlisted, Amend, Unbind, Read, Bind, BindView
  <2>2. QED BY <2>1
<1>2. CASE Eval
  <2>1. CASE Write
    BY <2>1 DEF Write, Bind
  <2>2. ASSUME NEW x \in Values, AmendSettles(x) PROVE quiet' \subseteq Names
    BY <2>2 DEF AmendSettles, Bind
  <2>3. ASSUME NEW x \in Values, AmendLost(x) PROVE quiet' \subseteq Names
    <3>1. Running /\ quiet' = quiet \cup {Top.name}
      BY <2>3 DEF AmendLost, Ended
    <3>2. Top.name \in Names
      BY <3>1, CurTyped DEF Frame
    <3>3. QED BY <3>1, <3>2
  <2>4. CASE ReadValue \/ ReadView \/ Fail \/ Recalculated \/ HookEnds \/ AmendFails \/ Unwind
    BY <2>4 DEF ReadValue, ReadView, Fail, Recalculated, HookEnds, AmendFails, Unwind
  <2>5. QED BY <1>2, <2>1, <2>2, <2>3, <2>4 DEF Eval
<1>3. CASE Reset
  BY <1>3 DEF Reset
<1>4. CASE UNCHANGED vars
  BY <1>4 DEF vars
<1>5. QED BY <1>1, <1>2, <1>3, <1>4 DEF Next

(* Whatever expressions, hooks and amends do to each other, however deep they *)
(* nest and wherever one fails: the bits of a view are those of what its name *)
(* is bound to, a view in recalculation has a frame that will take its bit    *)
(* down, and the hook flag is up exactly while the hook runs.                 *)
THEOREM TypeCorrect == ASSUME ValueTyped PROVE Spec => []TypeOK
<1> DEFINE I == Inv /\ quiet \subseteq Names
<1>1. Init => I
  BY InitInv DEF Init
<1>2. I /\ [Next]_vars => I'
  BY StepInv, QuietStep
<1>3. I => TypeOK
  BY InvTypeOK
<1>4. QED BY <1>1, <1>2, <1>3, PTL DEF Spec
-------------------------------------------------------------------------------
(* The marks.  A view whose expression assigns nothing changes no mark but    *)
(* its own while it is recalculated; one that assigns may make pending what   *)
(* it, or the view that reads it, has read already.                           *)
PureBodies ==
  \A n \in Names : \A b \in Bodies[n] : \A k \in DOMAIN b : b[k].op # "write"

(* RestsOn, for the bodies bd.                                                *)
Rests(bd, n) ==
  {m \in Names : \A S \in SUBSET Names :
     Uses(bd[n]) \subseteq S /\ (\A k \in S : Uses(bd[k]) \subseteq S) => m \in S}

(* Of the frames st: views are recalculated on top of everything else, *)
ViewsOnTop(st) ==
  \A j, k \in DOMAIN st : st[j].kind = "view" /\ j <= k => st[k].kind = "view" /\ st[k].live
(* each because the one below, which rests on it, is at the read of it, *)
AtRead(f, n) == f.pc \in DOMAIN f.prog /\ f.prog[f.pc].op = "read" /\ f.prog[f.pc].name = n
ReadBelow(st) ==
  \A k \in DOMAIN st : st[k].kind = "view" /\ k - 1 \in DOMAIN st => AtRead(st[k - 1], st[k].name)
RestChain(st, bd) ==
  \A j, k \in DOMAIN st : st[j].kind = "view" /\ j < k => st[k].name \in Rests(bd, st[j].name)
(* and the views an expression has read are valid, unless it rests on itself. *)
HasRead(f, bd, pd) ==
  \A j \in DOMAIN f.prog :
    j < f.pc /\ f.prog[j].op = "read" /\ bd[f.prog[j].name] # <<>>
      => ~pd[f.prog[j].name] \/ f.name \in Rests(bd, f.name)
ReadValid(st, bd, pd) ==
  \A k \in DOMAIN st : st[k].kind = "view" => HasRead(st[k], bd, pd)

RecalcOK(st, bd, pd) ==
  ViewsOnTop(st) /\ ReadBelow(st) /\ RestChain(st, bd) /\ ReadValid(st, bd, pd)

RecalcInv == RecalcOK(stack, body, pending)

(* The reads of an expression are what it rests on, *)
LEMMA RestsUses ==
  ASSUME NEW bd, NEW n, Uses(bd[n]) \subseteq Names
  PROVE  Uses(bd[n]) \subseteq Rests(bd, n)
  BY DEF Rests

(* and with a view it rests on what that rests on.                            *)
LEMMA RestsTrans ==
  ASSUME NEW bd, NEW n, NEW m \in Rests(bd, n)
  PROVE  Rests(bd, m) \subseteq Rests(bd, n) /\ m \in Names
<1>1. m \in Names
  BY DEF Rests
<1>2. ASSUME NEW p \in Rests(bd, m) PROVE p \in Rests(bd, n)
  <2>1. p \in Names
    BY DEF Rests
  <2>2. ASSUME NEW S \in SUBSET Names, Uses(bd[n]) \subseteq S,
               \A k \in S : Uses(bd[k]) \subseteq S
        PROVE  p \in S
    <3>1. m \in S
      BY <2>2 DEF Rests
    <3>2. Uses(bd[m]) \subseteq S
      BY <2>2, <3>1
    <3>3. QED BY <2>2, <3>2 DEF Rests
  <2>3. QED BY <2>1, <2>2 DEF Rests
<1>3. QED BY <1>1, <1>2

LEMMA DepsTyped ==
  ASSUME NEW b \in Prog
  PROVE  /\ Deps(b) \subseteq Uses(b) /\ Uses(b) \subseteq Names /\ Deps(b) \subseteq Names
         /\ \A k \in DOMAIN b : b[k] \in Instr /\ b[k].name \in Names
         /\ \A k \in DOMAIN b : b[k].op # "fail" => b[k].name \in Uses(b)
<1>1. DOMAIN b = 1..Len(b) /\ \A k \in 1..Len(b) : b[k] \in Instr
  BY LenProperties, ElementOfSeq DEF Prog
<1>2. QED BY <1>1 DEF Deps, Uses, Instr

(* A frame that reads a name which is in recalculation further down, or its   *)
(* own, rests on itself.                                                      *)
LEMMA ReaderRests ==
  ASSUME NEW bd \in [Names -> Prog], NEW n \in Names, NEW m, NEW pc \in DOMAIN bd[n],
         bd[n][pc].op = "read", bd[n][pc].name = m
  PROVE  m \in Rests(bd, n) /\ m \in Names
<1>1. bd[n] \in Prog
  OBVIOUS
<1> DEFINE b == bd[n]
<1> HIDE DEF b
<1>2. b \in Prog /\ pc \in DOMAIN b /\ b[pc].op = "read" /\ b[pc].name = m
  BY <1>1 DEF b
<1>3. m \in Uses(b) /\ Uses(b) \subseteq Names
  BY <1>2, DepsTyped
<1>4. QED BY <1>3, RestsUses DEF b

LEMMA NoViewsRecalc ==
  ASSUME NEW st, NEW bd, NEW pd, \A k \in DOMAIN st : st[k].kind # "view"
  PROVE  RecalcOK(st, bd, pd)
  BY DEF RecalcOK, ViewsOnTop, ReadBelow, RestChain, ReadValid

(* Frames go, marks go.                                                       *)
LEMMA FewerFrames ==
  ASSUME NEW st \in Seq(Frame), NEW bd, NEW pd, NEW pd2, RecalcOK(st, bd, pd),
         \A m \in Names : pd2[m] => pd[m],
         NEW r, DOMAIN r \subseteq DOMAIN st, \A k \in DOMAIN r : r[k] = st[k]
  PROVE  RecalcOK(r, bd, pd2)
<1>1. ViewsOnTop(r)
  BY DEF RecalcOK, ViewsOnTop
<1>2. ReadBelow(r)
  BY DEF RecalcOK, ReadBelow
<1>3. RestChain(r, bd)
  BY DEF RecalcOK, RestChain
<1>4. ReadValid(r, bd, pd2)
  <2> SUFFICES ASSUME NEW k \in DOMAIN r, r[k].kind = "view" PROVE HasRead(r[k], bd, pd2)
    BY DEF ReadValid
  <2> DEFINE f == r[k]
  <2> HIDE DEF f
  <2>1. f = st[k] /\ k \in DOMAIN st /\ f.kind = "view"
    BY DEF f
  <2>2. f \in Frame
    <3>1. k \in 1..Len(st)
      BY <2>1, LenProperties
    <3>2. QED BY <2>1, <3>1, ElementOfSeq
  <2>3. HasRead(f, bd, pd)
    BY <2>1 DEF RecalcOK, ReadValid
  <2>4. \A j \in DOMAIN f.prog : f.prog[j].name \in Names
    BY <2>2, DepsTyped DEF Frame
  <2>5. HasRead(f, bd, pd2)
    BY <2>3, <2>4 DEF HasRead
  <2>6. QED BY <2>5 DEF f
<1>5. QED BY <1>1, <1>2, <1>3, <1>4 DEF RecalcOK

(* A recalculation begins, at the prompt or at the read of the innermost      *)
(* frame.                                                                     *)
LEMMA PushRecalc ==
  ASSUME NEW st \in Seq(Frame), NEW bd \in [Names -> Prog], NEW pd, RecalcOK(st, bd, pd),
         NEW f \in Frame, f.kind = "view", f.live, f.pc = 1,
         \A k \in DOMAIN st : st[k].kind = "view" => bd[st[k].name] = st[k].prog,
         st # <<>> => AtRead(st[Len(st)], f.name)
  PROVE  RecalcOK(Append(st, f), bd, pd)
<1> DEFINE r == Append(st, f)
           L == Len(st)
<1>1. /\ DOMAIN st = 1..L /\ L \in Nat /\ DOMAIN r = 1..(L + 1)
      /\ r[L + 1] = f /\ \A k \in 1..L : r[k] = st[k] /\ st[k] \in Frame
  BY PushStack, ElementOfSeq
<1> HIDE DEF r
<1>2. ViewsOnTop(r)
  BY <1>1 DEF RecalcOK, ViewsOnTop
<1>3. L # 0 => AtRead(st[L], f.name)
  BY <1>1, EmptySeq
<1> HIDE DEF L
<1>4. ReadBelow(r)
  <2> SUFFICES ASSUME NEW k \in 1..(L + 1), r[k].kind = "view", k - 1 \in 1..(L + 1)
               PROVE  AtRead(r[k - 1], r[k].name)
    BY <1>1 DEF ReadBelow
  <2>1. CASE k = L + 1
    <3>1. k - 1 = L /\ L # 0 /\ L \in 1..L
      BY <1>1, <2>1
    <3>2. QED BY <1>1, <1>3, <2>1, <3>1
  <2>2. CASE k # L + 1
    <3>1. k \in 1..L /\ k - 1 \in 1..L
      BY <1>1, <2>2
    <3>2. QED BY <1>1, <3>1 DEF RecalcOK, ReadBelow
  <2>3. QED BY <2>1, <2>2
<1>5. RestChain(r, bd)
  <2> SUFFICES ASSUME NEW j \in 1..(L + 1), NEW k \in 1..(L + 1), r[j].kind = "view", j < k
               PROVE  r[k].name \in Rests(bd, r[j].name)
    BY <1>1 DEF RestChain
  <2>1. CASE k # L + 1
    <3>1. k \in 1..L /\ j \in 1..L
      BY <1>1, <2>1
    <3>2. QED BY <1>1, <3>1 DEF RecalcOK, RestChain
  <2>2. CASE k = L + 1
    <3>1. j \in 1..L /\ L # 0 /\ L \in 1..L /\ j <= L /\ r[j] = st[j]
      BY <1>1, <2>2
    <3>2. st[L].kind = "view"
      BY <1>1, <3>1 DEF RecalcOK, ViewsOnTop
    <3>3. f.name \in Rests(bd, st[L].name)
      <4> DEFINE n == st[L].name
                 pc == st[L].pc
      <4>1. n \in Names /\ bd[n] = st[L].prog
        BY <1>1, <3>1, <3>2 DEF Frame
      <4>2. pc \in DOMAIN bd[n] /\ bd[n][pc].op = "read" /\ bd[n][pc].name = f.name
        BY <1>3, <3>1, <4>1 DEF AtRead
      <4> HIDE DEF n, pc
      <4>3. f.name \in Rests(bd, n)
        BY <4>1, <4>2, ReaderRests
      <4>4. QED BY <4>3 DEF n
    <3>4. CASE j = L
      BY <1>1, <2>2, <3>1, <3>3, <3>4
    <3>5. CASE j < L
      <4>1. st[L].name \in Rests(bd, st[j].name)
        BY <1>1, <3>1, <3>5 DEF RecalcOK, RestChain
      <4>2. QED BY <1>1, <2>2, <3>1, <3>3, <4>1, RestsTrans
    <3>6. QED BY <1>1, <3>1, <3>4, <3>5
  <2>3. QED BY <2>1, <2>2
<1>6. ReadValid(r, bd, pd)
  <2>1. HasRead(f, bd, pd)
    <3>1. DOMAIN f.prog = 1..Len(f.prog) /\ Len(f.prog) \in Nat
      BY LenProperties DEF Frame, Prog
    <3>2. QED BY <3>1 DEF HasRead
  <2>2. \A k \in 1..L : r[k].kind = "view" => HasRead(r[k], bd, pd)
    BY <1>1 DEF RecalcOK, ReadValid
  <2>3. \A k \in 1..(L + 1) : k \in 1..L \/ k = L + 1
    BY <1>1
  <2>4. QED BY <1>1, <2>1, <2>2, <2>3 DEF ReadValid
<1>7. QED BY <1>2, <1>4, <1>5, <1>6 DEF RecalcOK, r

(* The innermost frame has read a name.                                       *)
LEMMA FeedRecalc ==
  ASSUME NEW st \in Seq(Frame), st # <<>>, NEW bd, NEW pd, RecalcOK(st, bd, pd), NEW f \in Frame,
         NEW t, t = st[Len(st)], f.kind = t.kind, f.name = t.name, f.prog = t.prog,
         f.live = t.live, f.pc = t.pc + 1,
         t.kind = "view" /\ bd[t.prog[t.pc].name] # <<>>
           => ~pd[t.prog[t.pc].name] \/ t.name \in Rests(bd, t.name)
  PROVE  RecalcOK([st EXCEPT ![Len(st)] = f], bd, pd)
<1> DEFINE r == [st EXCEPT ![Len(st)] = f]
           L == Len(st)
<1>1. /\ DOMAIN st = 1..L /\ L \in Nat /\ L \in 1..L /\ DOMAIN r = 1..L
      /\ r[L] = f /\ (\A k \in 1..L : k # L => r[k] = st[k]) /\ t \in Frame
  BY SplitStack
<1>2. \A k \in 1..L : r[k].kind = st[k].kind /\ r[k].name = st[k].name /\ r[k].live = st[k].live
  BY <1>1
<1> HIDE DEF r
<1>3. ViewsOnTop(r)
  BY <1>1, <1>2 DEF RecalcOK, ViewsOnTop
<1>4. ReadBelow(r)
  <2> SUFFICES ASSUME NEW k \in 1..L, r[k].kind = "view", k - 1 \in 1..L
               PROVE  AtRead(r[k - 1], r[k].name)
    BY <1>1 DEF ReadBelow
  <2>1. k - 1 # L
    BY <1>1
  <2>2. QED BY <1>1, <1>2, <2>1 DEF RecalcOK, ReadBelow
<1>5. RestChain(r, bd)
  BY <1>1, <1>2 DEF RecalcOK, RestChain
<1>6. ReadValid(r, bd, pd)
  <2>1. ASSUME f.kind = "view" PROVE HasRead(f, bd, pd)
    <3>1. HasRead(t, bd, pd)
      BY <1>1, <2>1 DEF RecalcOK, ReadValid
    <3>2. t.pc \in Nat /\ DOMAIN f.prog = 1..Len(f.prog) /\ Len(f.prog) \in Nat
      BY <1>1, LenProperties DEF Frame, Prog
    <3>3. \A j \in DOMAIN f.prog : j < f.pc => j < t.pc \/ j = t.pc
      BY <3>2
    <3>4. QED BY <2>1, <3>1, <3>3 DEF HasRead
  <2>2. \A k \in 1..L : k # L /\ r[k].kind = "view" => HasRead(r[k], bd, pd)
    BY <1>1 DEF RecalcOK, ReadValid
  <2>3. QED BY <1>1, <2>1, <2>2 DEF ReadValid
<1>7. QED BY <1>3, <1>4, <1>5, <1>6 DEF RecalcOK, r

-------------------------------------------------------------------------------
(* Marks, action by action.                                                   *)

LEMMA RestsIsRestsOn == \A n : RestsOn(n) = Rests(body, n) /\ RestsOn(n)' = Rests(body', n)
  BY DEF RestsOn, Rests

(* Marking closes the marks over the listed views.                            *)
LEMMA MarkedPending ==
  ASSUME NEW N, NEW bd, NEW pd, NEW ro \in SUBSET Names,
         body' = bd, roster' = ro, body' \in [Names -> Prog],
         pending' = [m \in Names |-> m \in Marked(N, bd, pd, ro)]
  PROVE  PendingClosed'
<1> SUFFICES ASSUME NEW n \in Names, n \in ro, bd[n] # <<>>, ~pending'[n],
                    NEW k \in Deps(bd[n]), bd[k] # <<>>
             PROVE  ~pending'[k]
  BY DEF PendingClosed, Valid, IsView
<1>1. k \in Names
  BY DepsTyped
<1>2. n \notin Marked(N, bd, pd, ro)
  OBVIOUS
<1>3. k \notin Marked(N, bd, pd, ro)
  BY <1>2, MarkedClosed
<1>4. QED BY <1>1, <1>3

(* A step that changes neither bindings nor marks.                            *)
LEMMA QuietMarks ==
  ASSUME PendingClosed, UNCHANGED <<body, pending, roster>>
  PROVE  PendingClosed'
<1>1. \A n : RestsOn(n)' = RestsOn(n)
  BY DEF RestsOn
<1>2. QED BY <1>1 DEF PendingClosed, Valid, IsView

(* A set, outside any recalculation.                                          *)
LEMMA FireNoViews ==
  ASSUME BindingsOK, NEW n \in Names, NEW s \in Seq(Frame), Fire(n, s),
         \A k \in DOMAIN s : s[k].kind # "view"
  PROVE  RecalcInv'
<1>1. ASSUME NEW f \in Frame, f.kind = "hook", stack' = Append(s, f)
      PROVE  \A k \in DOMAIN stack' : stack'[k].kind # "view"
  <2>1. /\ DOMAIN s = 1..Len(s) /\ DOMAIN stack' = 1..(Len(s) + 1) /\ Len(s) \in Nat
        /\ stack'[Len(s) + 1] = f /\ \A k \in 1..Len(s) : stack'[k] = s[k]
    BY <1>1, PushStack
  <2>2. QED BY <1>1, <2>1
<1>2. \A k \in DOMAIN stack' : stack'[k].kind # "view"
  <2>1. CASE stack' = s
    BY <2>1
  <2>2. CASE \E p \in Hooks : stack' = Append(s, HookFrame(n, p))
    <3>1. PICK p \in Hooks : stack' = Append(s, HookFrame(n, p))
      BY <2>2
    <3>2. HookFrame(n, p) \in Frame /\ HookFrame(n, p).kind = "hook"
      BY FrameTyped DEF HookFrame
    <3>3. QED BY <1>1, <3>1, <3>2
  <2>3. QED BY <2>1, <2>2 DEF Fire
<1>3. QED BY <1>2, NoViewsRecalc DEF RecalcInv

LEMMA BindMarks ==
  ASSUME BindingsOK, Inv', NEW n \in Names, NEW x \in Values, NEW s, Bind(n, x, s),
         FramesOK(s, body, inrecalc, g_in_zvs), \A k \in DOMAIN s : s[k].kind # "view"
  PROVE  RecalcInv' /\ PendingClosed'
<1>1. Detach(s, n) \in Seq(Frame)
  <2>1. body \in [Names -> Prog] /\ inrecalc \in [Names -> BOOLEAN]
    BY DEF BindingsOK
  <2>2. FramesOK(Detach(s, n), [body EXCEPT ![n] = <<>>], [inrecalc EXCEPT ![n] = FALSE], g_in_zvs)
    BY <2>1, DetachFrames
  <2>3. QED BY <2>2 DEF FramesOK
<1>2. \A k \in DOMAIN Detach(s, n) : Detach(s, n)[k].kind # "view"
  BY DEF Detach
<1>3. RecalcInv'
  <2>1. Fire(n, Detach(s, n))
    BY DEF Bind
  <2> DEFINE d == Detach(s, n)
  <2> HIDE DEF d
  <2>2. d \in Seq(Frame) /\ Fire(n, d) /\ \A k \in DOMAIN d : d[k].kind # "view"
    BY <1>1, <1>2, <2>1 DEF d
  <2>3. QED BY <2>2, FireNoViews
<1>4. PendingClosed'
  <2> DEFINE bd == [body EXCEPT ![n] = <<>>]
             ro == Healed(bd, roster)
             pd == [pending EXCEPT ![n] = FALSE]
  <2>1. /\ body' = bd /\ roster' = ro
        /\ pending' = [m \in Names |-> m \in Marked({n}, bd, pd, ro)]
    BY DEF Bind
  <2>2. ro \in SUBSET Names /\ body' \in [Names -> Prog]
    BY DEF Healed, BindingsOK, Inv
  <2> HIDE DEF bd, ro, pd
  <2>3. QED BY <2>1, <2>2, MarkedPending
<1>5. QED BY <1>3, <1>4

LEMMA BindViewMarks ==
  ASSUME Inv, Inv', Idle, NEW n \in Names, NEW b, NEW ro \in SUBSET Names, BindView(n, b, ro)
  PROVE  RecalcInv' /\ PendingClosed'
<1>1. RecalcInv'
  <2>1. Fire(n, stack) /\ stack = <<>>
    BY DEF BindView, Idle
  <2>2. stack \in Seq(Frame) /\ \A k \in DOMAIN stack : stack[k].kind # "view"
    BY <2>1, EmptySeq
  <2>3. QED BY <2>1, <2>2, FireNoViews DEF Inv
<1>2. PendingClosed'
  <2> DEFINE bd == [body EXCEPT ![n] = b]
             pd == [pending EXCEPT ![n] = TRUE]
  <2>1. /\ body' = bd /\ roster' = ro
        /\ pending' = [m \in Names |-> m \in Marked({n}, bd, pd, ro)]
    BY DEF BindView
  <2>2. body' \in [Names -> Prog]
    BY DEF Inv, BindingsOK
  <2> HIDE DEF bd, pd
  <2>3. QED BY <2>1, <2>2, MarkedPending
<1>3. QED BY <1>1, <1>2

(* A frame of a view is live, and its expression is the view's and assigns    *)
(* nothing.                                                                   *)
LEMMA ViewFrames ==
  ASSUME PureBodies, Inv, RecalcInv, NEW k \in DOMAIN stack, stack[k].kind = "view"
  PROVE  /\ stack[k] \in Frame /\ stack[k].live
         /\ body[stack[k].name] = stack[k].prog /\ IsView(stack[k].name)
         /\ \A j \in DOMAIN stack[k].prog : stack[k].prog[j].op # "write"
<1>1. stack \in Seq(Frame) /\ k \in 1..Len(stack)
  BY LenProperties DEF Inv, FramesOK
<1>2. stack[k] \in Frame
  BY <1>1, ElementOfSeq
<1>3. stack[k].live
  <2>1. k <= k
    BY <1>1, LenProperties
  <2>2. QED BY <2>1 DEF RecalcInv, RecalcOK, ViewsOnTop
<1>4. body[stack[k].name] = stack[k].prog /\ IsView(stack[k].name) /\ stack[k].name \in Names
  BY <1>2, <1>3 DEF Inv, FramesOK, IsView, Frame
<1>5. stack[k].prog \in Bodies[stack[k].name]
  BY <1>4 DEF Inv, BindingsOK, IsView
<1>6. QED BY <1>2, <1>3, <1>4, <1>5 DEF PureBodies

(* Nothing is in recalculation below a frame of another kind.                 *)
LEMMA TopNotView ==
  ASSUME Inv, RecalcInv, stack # <<>>, Top.kind # "view"
  PROVE  \A k \in DOMAIN stack : stack[k].kind # "view"
<1> SUFFICES ASSUME NEW k \in DOMAIN stack, stack[k].kind = "view" PROVE FALSE
  OBVIOUS
<1>1. stack \in Seq(Frame)
  BY DEF Inv, FramesOK
<1>2. Len(stack) \in DOMAIN stack /\ k <= Len(stack)
  BY <1>1, SplitStack
<1>3. QED BY <1>2 DEF RecalcInv, RecalcOK, ViewsOnTop, Top

(* The innermost frame goes on behind its read: of a name that is not a view, *)
(* of a valid view, or of one in recalculation, on which it then rests.       *)
LEMMA TookMarks ==
  ASSUME PureBodies, Inv, RecalcInv, Doing("read"), NEW x \in Values,
         IsView(Cur.name) => ~pending[Cur.name] \/ inrecalc[Cur.name],
         stack' = Took(x), UNCHANGED <<body, pending>>
  PROVE  RecalcInv'
<1> DEFINE m == Cur.name
           f == Fed(Top, x)
           L == Len(stack)
<1>1. /\ Running /\ stack \in Seq(Frame) /\ stack # <<>> /\ Top \in Frame /\ m \in Names
      /\ Top.pc \in DOMAIN Top.prog /\ Top.prog[Top.pc].op = "read" /\ Top.prog[Top.pc].name = m
  BY CurTyped DEF Doing, Cur
<1>2. L \in DOMAIN stack /\ DOMAIN stack = 1..L /\ L \in Nat /\ Top = stack[L]
  BY <1>1, SplitStack DEF Top
<1>3. stack' = [stack EXCEPT ![L] = f]
  BY <1>1, TookStep
<1>4. /\ f \in Frame /\ f.pc = Top.pc + 1
      /\ f.kind = Top.kind /\ f.name = Top.name /\ f.prog = Top.prog /\ f.live = Top.live
  <2> DEFINE t == Top
  <2>1. t \in Frame /\ \E y \in Values : f = Fed(t, y)
    BY <1>1
  <2> HIDE DEF t, f
  <2>2. QED BY <2>1, FrameMoves DEF t
<1> HIDE DEF m, f
<1>5. ASSUME Top.kind = "view", body[m] # <<>>
      PROVE  ~pending[m] \/ Top.name \in Rests(body, Top.name)
  <2>1. body[Top.name] = Top.prog /\ Top.name \in Names /\ body \in [Names -> Prog]
    BY <1>1, <1>2, <1>5, ViewFrames DEF Inv, BindingsOK, Frame
  <2>2. m \in Rests(body, Top.name)
    <3> DEFINE n == Top.name
               pc == Top.pc
    <3>1. n \in Names /\ pc \in DOMAIN body[n] /\ body[n][pc].op = "read" /\ body[n][pc].name = m
      BY <1>1, <2>1
    <3> HIDE DEF n, pc
    <3>2. m \in Rests(body, n)
      BY <2>1, <3>1, ReaderRests
    <3>3. QED BY <3>2 DEF n
  <2>3. CASE ~pending[m]
    BY <2>3
  <2>4. CASE inrecalc[m]
    <3>1. PICK i \in DOMAIN stack : stack[i].kind = "view" /\ stack[i].name = m
      BY <1>1, <2>4 DEF Inv, FramesOK
    <3>2. CASE i = L
      BY <1>2, <2>2, <3>1, <3>2
    <3>3. CASE i # L
      <4>1. i < L
        BY <1>2, <3>1, <3>3
      <4>2. Top.name \in Rests(body, m)
        BY <1>2, <3>1, <4>1 DEF RecalcInv, RecalcOK, RestChain
      <4>3. QED BY <2>2, <4>2, RestsTrans
    <3>4. QED BY <3>2, <3>3
  <2>5. QED BY <1>5, <2>3, <2>4 DEF m, IsView
<1>6. RecalcOK([stack EXCEPT ![L] = f], body, pending)
  <2> DEFINE t == Top
  <2>1. /\ t = stack[Len(stack)] /\ f.kind = t.kind /\ f.name = t.name /\ f.prog = t.prog
        /\ f.live = t.live /\ f.pc = t.pc + 1 /\ t.prog[t.pc].name = m
        /\ t.kind = "view" /\ body[m] # <<>> => ~pending[m] \/ t.name \in Rests(body, t.name)
    BY <1>1, <1>2, <1>4, <1>5
  <2> HIDE DEF t
  <2>2. QED BY <1>1, <1>4, <2>1, FeedRecalc DEF RecalcInv
<1>7. QED BY <1>3, <1>6 DEF RecalcInv

(* A view is read, by a statement or by the innermost frame.                  *)
LEMMA DerefMarks ==
  ASSUME PureBodies, Inv, RecalcInv, NEW n \in Names, IsView(n), NEW got, Deref(n, got),
         UNCHANGED <<body, pending>>,
         stack # <<>> => AtRead(Top, n),
         cache[n] # None /\ (~pending[n] \/ inrecalc[n]) /\ stack' = got => RecalcInv'
  PROVE  RecalcInv'
<1>1. CASE cache[n] # None /\ (~pending[n] \/ inrecalc[n]) /\ stack' = got
  BY <1>1
<1>2. CASE stack' = stack
  BY <1>2 DEF RecalcInv
<1>3. CASE stack' = Append(stack, ViewFrame(n))
  <2> DEFINE f == ViewFrame(n)
  <2>1. f \in Frame /\ f.kind = "view" /\ f.live /\ f.pc = 1 /\ f.name = n
    BY FrameTyped DEF ViewFrame, Inv
  <2>2. /\ stack \in Seq(Frame) /\ body \in [Names -> Prog]
        /\ \A k \in DOMAIN stack : stack[k].kind = "view" => body[stack[k].name] = stack[k].prog
    BY ViewFrames DEF Inv, FramesOK, BindingsOK
  <2>3. stack # <<>> => AtRead(stack[Len(stack)], f.name)
    BY <2>1 DEF Top
  <2> HIDE DEF f
  <2>4. RecalcOK(Append(stack, f), body, pending)
    BY <2>1, <2>2, <2>3, PushRecalc DEF RecalcInv
  <2>5. QED BY <1>3, <2>4 DEF RecalcInv, f
<1>4. QED BY <1>1, <1>2, <1>3 DEF Deref

(* The innermost frame leaves, with the marks as they are.                    *)
LEMMA PopMarks ==
  ASSUME Inv, RecalcInv, stack # <<>>, NEW pd, \A m \in Names : pd[m] => pending[m]
  PROVE  RecalcOK(Rest, body, pd)
<1>1. stack \in Seq(Frame)
  BY DEF Inv, FramesOK
<1>2. DOMAIN Rest \subseteq DOMAIN stack /\ \A k \in DOMAIN Rest : Rest[k] = stack[k]
  BY <1>1, SplitStack DEF Rest
<1>3. QED BY <1>1, <1>2, FewerFrames DEF RecalcInv

(* A recalculation ends: its view was computed from valid ones only, or rests *)
(* on itself.                                                                 *)
LEMMA RecalculatedMarks ==
  ASSUME PureBodies, ValueTyped, Inv, RecalcInv, PendingClosed, Recalculated
  PROVE  RecalcInv' /\ PendingClosed'
<1> DEFINE x == Value(Top.prog, Top.acc)
           n == Top.name
           L == Len(stack)
<1>1. /\ Running /\ Top.kind = "view" /\ Top.pc = Len(Top.prog) + 1
      /\ stack \in Seq(Frame) /\ stack # <<>> /\ Top \in Frame /\ n \in Names
  BY CurTyped DEF Recalculated, Ended, Frame
<1>2. L \in DOMAIN stack /\ DOMAIN stack = 1..L /\ L \in Nat /\ Top = stack[L]
  BY <1>1, SplitStack DEF Top
<1>3. Top.live /\ body[n] = Top.prog /\ \A j \in DOMAIN Top.prog : Top.prog[j].op # "write"
  BY <1>1, <1>2, ViewFrames
<1>4. /\ stack' = HandBack(x)
      /\ pending' = [pending EXCEPT ![n] = FALSE]
      /\ body' = body /\ roster' = roster
  BY <1>3 DEF Recalculated
<1>5. x \in Values
  BY <1>1 DEF ValueTyped, Frame
<1> HIDE DEF x, n
<1>6. pending \in [Names -> BOOLEAN] /\ \A m \in Names : pending'[m] => pending[m]
  BY <1>1, <1>4 DEF Inv, BindingsOK
<1>7. RecalcInv'
  <2>1. RecalcOK(Rest, body, pending')
    BY <1>1, <1>6, PopMarks
  <2>2. CASE Rest = <<>>
    BY <1>4, <2>1, <2>2 DEF HandBack, RecalcInv
  <2>3. CASE Rest # <<>>
    <3> DEFINE r == Rest
               t == r[Len(r)]
               f == Fed(t, x)
    <3>1. stack' = [r EXCEPT ![Len(r)] = f]
      BY <1>4, <2>3 DEF HandBack
    <3>2. r \in Seq(Frame) /\ Len(r) = L - 1 /\ L - 1 \in 1..(L - 1) /\ t = stack[L - 1]
      <4>1. r \in Seq(Frame) /\ Len(r) = L - 1 /\ \A k \in 1..(L - 1) : r[k] = stack[k]
        BY <1>1, SplitStack DEF Rest
      <4>2. Len(r) # 0 /\ Len(r) \in Nat
        BY <2>3, <4>1, EmptySeq, LenProperties
      <4> HIDE DEF r
      <4>3. QED BY <4>1, <4>2
    <3>3. AtRead(t, n)
      <4>1. L - 1 \in DOMAIN stack
        BY <1>2, <3>2
      <4>2. QED BY <1>1, <1>2, <3>2, <4>1 DEF RecalcInv, RecalcOK, ReadBelow, n
    <3>4. r # <<>> /\ RecalcOK(r, body, pending')
      BY <2>1, <2>3
    <3> HIDE DEF r
    <3>5. t \in Frame
      BY <3>2, <3>4, SplitStack
    <3>6. /\ f \in Frame /\ f.pc = t.pc + 1
          /\ f.kind = t.kind /\ f.name = t.name /\ f.prog = t.prog /\ f.live = t.live
      <4>1. \E y \in Values : f = Fed(t, y)
        BY <1>5
      <4> HIDE DEF t, f
      <4>2. QED BY <3>5, <4>1, FrameMoves
    <3>7. ~pending'[t.prog[t.pc].name]
      BY <1>1, <1>4, <1>6, <3>3 DEF AtRead
    <3>8. t = r[Len(r)]
      OBVIOUS
    <3> HIDE DEF t, f
    <3>9. RecalcOK([r EXCEPT ![Len(r)] = f], body, pending')
      BY <3>2, <3>4, <3>6, <3>7, <3>8, FeedRecalc
    <3>10. QED BY <1>4, <3>1, <3>9 DEF RecalcInv
  <2>4. QED BY <2>2, <2>3
<1>8. PendingClosed'
  <2> SUFFICES ASSUME NEW v \in Names, v \in roster, body[v] # <<>>, ~pending'[v],
                      v \notin Rests(body, v), NEW k \in Deps(body[v]), body[k] # <<>>
               PROVE  ~pending'[k]
    BY <1>4, RestsIsRestsOn DEF PendingClosed, Valid, IsView
  <2>1. k \in Names
    BY DepsTyped DEF Inv, BindingsOK
  <2>2. CASE v # n
    <3>1. Valid(v)
      BY <1>4, <1>6, <2>2, RestsIsRestsOn DEF Valid, IsView
    <3>2. ~pending[k]
      BY <3>1 DEF PendingClosed, IsView
    <3>3. QED BY <1>6, <2>1, <3>2
  <2>3. CASE v = n
    <3>1. PICK j \in DOMAIN Top.prog : Top.prog[j].op # "fail" /\ k = Top.prog[j].name
      BY <1>3, <2>3 DEF Deps
    <3>2. Top.prog \in Prog
      BY <1>1 DEF Frame
    <3>3. Top.prog[j] \in Instr
      BY <3>1, <3>2, DepsTyped
    <3>4. Top.prog[j].op = "read"
      BY <1>3, <3>1, <3>3 DEF Instr
    <3>5. j < Top.pc
      <4> DEFINE q == Top.prog
      <4>1. q \in Seq(Instr) /\ Top.pc = Len(q) + 1 /\ j \in DOMAIN q
        BY <1>1, <3>1, <3>2 DEF Prog
      <4> HIDE DEF q
      <4>2. j \in 1..Len(q) /\ Len(q) \in Nat
        BY <4>1, LenProperties
      <4>3. QED BY <4>1, <4>2
    <3>6. HasRead(Top, body, pending)
      BY <1>1, <1>2 DEF RecalcInv, RecalcOK, ReadValid
    <3>7. ~pending[k]
      BY <2>3, <3>1, <3>4, <3>5, <3>6 DEF HasRead, n
    <3>8. QED BY <1>6, <2>1, <3>7
  <2>4. QED BY <2>2, <2>3
<1>9. QED BY <1>7, <1>8

LEMMA StatementMarks ==
  ASSUME PureBodies, Inv, Inv', RecalcInv, PendingClosed, Statement
  PROVE  RecalcInv' /\ PendingClosed'
<1>1. PICK n \in Names : \/ \E x \in SetVals[n] : Set(n, x) \/ SetMember(n, x)
                         \/ \E b \in Bodies[n] : Define(n, b) \/ DefineUnlisted(n, b)
                         \/ \E p \in Amends[n] : Amend(n, p)
                         \/ Unbind(n) \/ Read(n)
  BY DEF Statement
<1>2. stack = <<>> /\ stack \in Seq(Frame) /\ Idle /\ BindingsOK /\ roster \subseteq Names
  BY <1>1, EmptySeq
     DEF Set, SetMember, Define, DefineUnlisted, Amend, Unbind, Read, Idle, Inv, BindingsOK
<1>3. \A k \in DOMAIN stack : stack[k].kind # "view"
  BY <1>2
<1>4. ASSUME NEW x \in SetVals[n], Set(n, x) PROVE RecalcInv' /\ PendingClosed'
  <2>1. x \in Values /\ Bind(n, x, stack) /\ FramesOK(stack, body, inrecalc, g_in_zvs)
    BY <1>4, ViewsAssumption DEF Set, Inv
  <2>2. QED BY <1>2, <1>3, <2>1, BindMarks
<1>5. ASSUME NEW x \in SetVals[n], SetMember(n, x) PROVE RecalcInv' /\ PendingClosed'
  <2>1. /\ Fire(n, stack) /\ body' = body /\ roster' = roster
        /\ pending' = [m \in Names |-> m \in Marked({}, body, pending, roster)]
    BY <1>5 DEF SetMember
  <2>2. RecalcInv'
    BY <1>2, <1>3, <2>1, FireNoViews
  <2>3. PendingClosed'
    <3>1. body' \in [Names -> Prog]
      BY DEF Inv, BindingsOK
    <3>2. QED BY <1>2, <2>1, <3>1, MarkedPending
  <2>4. QED BY <2>2, <2>3
<1>6. ASSUME NEW b \in Bodies[n], Define(n, b) \/ DefineUnlisted(n, b)
      PROVE  RecalcInv' /\ PendingClosed'
  <2>1. \/ BindView(n, b, roster \cup {n})
        \/ BindView(n, b, roster)
    BY <1>6 DEF Define, DefineUnlisted
  <2>2. QED BY <1>2, <2>1, BindViewMarks
<1>7. ASSUME NEW p \in Amends[n], Amend(n, p) PROVE RecalcInv' /\ PendingClosed'
  <2>1. stack' = <<AmendFrame(n, p)>> /\ UNCHANGED <<body, pending, roster>>
    BY <1>7 DEF Amend, view
  <2>2. AmendFrame(n, p).kind = "amend"
    BY DEF AmendFrame
  <2>3. \A k \in DOMAIN stack' : stack'[k].kind # "view"
    <3> DEFINE f == AmendFrame(n, p)
    <3>1. f.kind = "amend" /\ stack' = <<f>>
      BY <2>1, <2>2
    <3> HIDE DEF f
    <3>2. QED BY <3>1
  <2>4. QED BY <2>1, <2>3, NoViewsRecalc, QuietMarks DEF RecalcInv
<1>8. ASSUME Unbind(n) PROVE RecalcInv' /\ PendingClosed'
  <2>1. /\ body' = [body EXCEPT ![n] = <<>>] /\ roster' = Healed(body', roster) /\ stack' = stack
        /\ pending' = [m \in Names |-> m \in Marked({n}, body', [pending EXCEPT ![n] = FALSE], roster')]
    BY <1>8 DEF Unbind
  <2>2. RecalcInv'
    BY <1>3, <2>1, NoViewsRecalc DEF RecalcInv
  <2>3. PendingClosed'
    <3> DEFINE pd == [pending EXCEPT ![n] = FALSE]
               bd == body'
               ro == roster'
    <3>1. bd \in [Names -> Prog] /\ ro \in SUBSET Names
      BY DEF Inv, BindingsOK
    <3>2. pending' = [m \in Names |-> m \in Marked({n}, bd, pd, ro)] /\ body' = bd /\ roster' = ro
      BY <2>1
    <3> HIDE DEF pd, bd, ro
    <3>3. QED BY <3>1, <3>2, MarkedPending
  <2>4. QED BY <2>2, <2>3
<1>9. ASSUME Read(n) PROVE RecalcInv' /\ PendingClosed'
  <2>1. IsView(n) /\ Deref(n, stack) /\ UNCHANGED <<body, pending, roster>>
    BY <1>9 DEF Read
  <2>2. stack' = stack => RecalcInv'
    BY <2>1 DEF RecalcInv
  <2>3. QED BY <1>2, <2>1, <2>2, DerefMarks, QuietMarks
<1>10. QED BY <1>1, <1>4, <1>5, <1>6, <1>7, <1>8, <1>9

LEMMA EvalMarks ==
  ASSUME PureBodies, ValueTyped, Inv, Inv', RecalcInv, PendingClosed, Eval
  PROVE  RecalcInv' /\ PendingClosed'
<1>1. CASE ReadValue
  <2>1. Doing("read") /\ ~IsView(Cur.name) /\ UNCHANGED <<body, pending, roster>>
    BY <1>1 DEF ReadValue, view
  <2>2. CASE stack' = stack
    BY <2>1, <2>2, QuietMarks DEF RecalcInv
  <2>3. CASE val[Cur.name] # None /\ stack' = Took(val[Cur.name])
    <3>1. Cur.name \in Names
      BY <2>1, CurTyped DEF Doing
    <3>2. val[Cur.name] \in Values
      BY <2>3, <3>1 DEF Inv, BindingsOK
    <3>3. QED BY <2>1, <2>3, <3>2, TookMarks, QuietMarks
  <2>4. QED BY <1>1, <2>2, <2>3 DEF ReadValue
<1>2. CASE ReadView
  <2> DEFINE m == Cur.name
  <2>1. /\ Doing("read") /\ IsView(m) /\ Deref(m, Took(cache[m]))
        /\ UNCHANGED <<body, pending, roster>>
    BY <1>2 DEF ReadView
  <2>2. m \in Names /\ AtRead(Top, m)
    BY <2>1, CurTyped DEF Doing, AtRead, Cur
  <2>3. cache[m] # None => cache[m] \in Values
    BY <2>2 DEF Inv, BindingsOK
  <2>4. ASSUME cache[m] # None, ~pending[m] \/ inrecalc[m], stack' = Took(cache[m]) PROVE RecalcInv'
    BY <2>1, <2>3, <2>4, TookMarks
  <2> DEFINE got == Took(cache[m])
  <2>5. cache[m] # None /\ (~pending[m] \/ inrecalc[m]) /\ stack' = got => RecalcInv'
    BY <2>4
  <2>6. Deref(m, got)
    BY <2>1
  <2> HIDE DEF m, got
  <2>7. QED BY <2>1, <2>2, <2>5, <2>6, DerefMarks, QuietMarks
<1>3. CASE Write
  <2>1. Doing("write") /\ Running /\ Top.pc \in DOMAIN Top.prog /\ Cur.op = "write"
    BY <1>3 DEF Write, Doing
  <2>2. /\ Cur.name \in Names /\ Cur.val \in Values
        /\ stack \in Seq(Frame) /\ stack # <<>> /\ Top \in Frame
    BY <2>1, CurTyped
  <2>3. Len(stack) \in DOMAIN stack /\ Top = stack[Len(stack)] /\ DOMAIN stack = 1..Len(stack)
    BY <2>2, SplitStack DEF Top
  <2>4. Top.kind # "view"
    BY <2>1, <2>3, ViewFrames DEF Cur
  <2>5. \A k \in DOMAIN stack : stack[k].kind # "view"
    BY <2>2, <2>4, TopNotView
  <2> DEFINE f == Stepped(stack[Len(stack)])
             s == [stack EXCEPT ![Len(stack)] = f]
  <2>6. f.kind = Top.kind
    <3> DEFINE t == Top
    <3>1. t \in Frame /\ f = Stepped(t)
      BY <2>2, <2>3
    <3> HIDE DEF t, f
    <3>2. QED BY <3>1, FrameMoves DEF t
  <2>7. FramesOK(s, body, inrecalc, g_in_zvs) /\ Append(SubSeq(stack, 1, Len(stack) - 1), f) = s
    <3>1. f = Stepped(stack[Len(stack)])
      OBVIOUS
    <3> HIDE DEF f
    <3>2. QED BY <2>2, <3>1, MovedFrames DEF Inv
  <2>8. Bind(Cur.name, Cur.val, s)
    <3>1. Append(Rest, [Top EXCEPT !.pc = @ + 1]) = Append(SubSeq(stack, 1, Len(stack) - 1), f)
      BY DEF Rest, Top, Stepped
    <3>2. QED BY <1>3, <2>7, <3>1 DEF Write
  <2>9. \A k \in DOMAIN s : s[k].kind # "view"
    <3> HIDE DEF f
    <3>1. QED BY <2>4, <2>5, <2>6
  <2> HIDE DEF s
  <2>10. QED BY <2>2, <2>7, <2>8, <2>9, BindMarks DEF Inv
<1>4. CASE Fail \/ AmendFails
  <2>1. UNCHANGED <<body, pending, roster, stack>>
    BY <1>4 DEF Fail, AmendFails, view
  <2>2. QED BY <2>1, QuietMarks DEF RecalcInv
<1>5. CASE Recalculated
  BY <1>5, RecalculatedMarks
<1>6. CASE HookEnds \/ (Unwind /\ stack # <<>>)
  <2>1. stack # <<>> /\ stack' = Rest /\ UNCHANGED <<body, pending, roster>>
    BY <1>6 DEF HookEnds, Ended, Running, Unwind, view
  <2>2. QED BY <2>1, PopMarks, QuietMarks DEF RecalcInv
<1>7. CASE Unwind /\ stack = <<>>
  <2>1. UNCHANGED <<body, pending, roster, stack>>
    BY <1>7 DEF Unwind, view
  <2>2. QED BY <2>1, QuietMarks DEF RecalcInv
<1>8. ASSUME NEW x \in Values, AmendSettles(x) PROVE RecalcInv' /\ PendingClosed'
  <2>1. Running /\ Top.kind = "amend" /\ Bind(Top.name, x, Rest)
    BY <1>8 DEF AmendSettles, Ended
  <2>2. stack \in Seq(Frame) /\ stack # <<>> /\ Top \in Frame /\ Top.name \in Names
    BY <2>1, CurTyped DEF Frame
  <2>3. \A k \in DOMAIN stack : stack[k].kind # "view"
    BY <2>1, <2>2, TopNotView
  <2>4. \A k \in DOMAIN Rest : Rest[k].kind # "view"
    BY <2>2, <2>3, SplitStack DEF Rest
  <2>5. FramesOK(Rest, body, IF Top.kind = "view" /\ Top.live
                             THEN [inrecalc EXCEPT ![Top.name] = FALSE] ELSE inrecalc,
                 g_in_zvs /\ Top.kind # "hook")
    BY <2>2, PopFrames DEF Inv, BindingsOK, Rest, Top
  <2>6. (g_in_zvs /\ Top.kind # "hook") = g_in_zvs
    BY <2>1 DEF Inv, BindingsOK
  <2>7. FramesOK(Rest, body, inrecalc, g_in_zvs)
    BY <2>1, <2>5, <2>6
  <2>8. QED BY <2>1, <2>2, <2>4, <2>7, BindMarks DEF Inv
<1>9. ASSUME NEW x \in Values, AmendLost(x) PROVE RecalcInv' /\ PendingClosed'
  <2>1. stack # <<>> /\ stack' = Rest /\ UNCHANGED <<body, pending, roster>>
    BY <1>9 DEF AmendLost, Ended, Running, view
  <2>2. QED BY <2>1, PopMarks, QuietMarks DEF RecalcInv
<1>10. QED BY <1>1, <1>2, <1>3, <1>4, <1>5, <1>6, <1>7, <1>8, <1>9 DEF Eval

(* The marks at the start and after a step.                                   *)
LEMMA MarksInit == Init => Inv /\ RecalcInv /\ PendingClosed
<1> SUFFICES ASSUME Init PROVE Inv /\ RecalcInv /\ PendingClosed
  OBVIOUS
<1>1. RecalcInv
  BY NoViewsRecalc DEF Init, RecalcInv
<1>2. PendingClosed
  BY DEF Init, PendingClosed, Valid
<1>3. QED BY <1>1, <1>2, InitInv

LEMMA MarksStep ==
  ASSUME ValueTyped, PureBodies, Inv, RecalcInv, PendingClosed, [Next]_vars
  PROVE  Inv' /\ RecalcInv' /\ PendingClosed'
<1>1. Inv'
  BY StepInv
<1>2. CASE Reset
  <2>1. stack' = <<>> /\ roster' = {}
    BY <1>2 DEF Reset, Idle
  <2>2. RecalcInv'
    BY <2>1, NoViewsRecalc DEF RecalcInv
  <2>3. PendingClosed'
    BY <2>1 DEF PendingClosed, Valid
  <2>4. QED BY <1>1, <2>2, <2>3
<1>3. CASE UNCHANGED vars
  <2>1. UNCHANGED <<body, pending, roster, stack>>
    BY <1>3 DEF vars, view
  <2>2. QED BY <1>1, <2>1, QuietMarks DEF RecalcInv
<1>4. QED BY <1>1, <1>2, <1>3, StatementMarks, EvalMarks DEF Next

(* Where the expressions of views assign nothing: however sets, redefinitions, *)
(* hooks, amends, reads and failures interleave, a listed view that is not     *)
(* pending, and does not rest on itself, names no pending view                 *)
(* (mark_dependents, and view_recalc's clearing of PENDING).                   *)
THEOREM MarksCorrect == ASSUME ValueTyped, PureBodies PROVE Spec => []MarksClosed
<1>1. Inv /\ RecalcInv /\ PendingClosed /\ [Next]_vars => (Inv /\ RecalcInv /\ PendingClosed)'
  BY MarksStep
<1>2. TypeOK /\ PendingClosed => MarksClosed
  BY DEF MarksClosed
<1>3. Spec => []TypeOK
  BY TypeCorrect
<1>4. QED BY MarksInit, <1>1, <1>2, <1>3, PTL DEF Spec

-------------------------------------------------------------------------------
(* The values.  An amend works out the new value without running a view or    *)
(* assigning anything; one that runs a view may fail after that view was      *)
(* computed from the parked name.                                             *)
QuietProg(p) ==
  \A j \in DOMAIN p : p[j].op = "fail" \/ (p[j].op = "read" /\ Bodies[p[j].name] = {})
QuietAmends == \A n \in Names : \A p \in Amends[n] : QuietProg(p)

(* What the names are worth: a view its cache, and a parked name what it will *)
(* be bound to again if the amend fails.                                      *)
WorthOf(st, bd, ca, vl) ==
  [k \in Names |->
     IF bd[k] # <<>> THEN ca[k]
     ELSE IF st # <<>> /\ st[1].kind = "amend" /\ st[1].name = k THEN st[1].saved
     ELSE vl[k]]
Worth == WorthOf(stack, body, cache, val)

(* An amend is alone on the stack, with a quiet program.                      *)
AmendsOK(st) ==
  \A k \in DOMAIN st : st[k].kind = "amend" => Len(st) = 1 /\ QuietProg(st[k].prog)

(* A view whose mark is down has a value.                                     *)
CachedOK(bd, pd, ca) == \A n \in Names : bd[n] # <<>> /\ ~pd[n] => ca[n] # None

(* A view in recalculation is pending and has one frame,                      *)
RunsOK(st, pd, ir) ==
  /\ \A k \in DOMAIN st : st[k].kind = "view" => pd[st[k].name] /\ ir[st[k].name]
  /\ \A j, k \in DOMAIN st : st[j].kind = "view" /\ st[k].kind = "view" /\ st[j].name = st[k].name
                               => j = k
(* which has collected what the names it read are worth, w, unless it rests   *)
(* on itself.                                                                 *)
AccOK(f, bd, w) ==
  /\ f.pc = Len(f.acc) + 1 /\ f.pc <= Len(f.prog) + 1
  /\ \A j \in 1..Len(f.acc) :
       /\ f.prog[j].op = "read"
       /\ f.name \in Rests(bd, f.name) \/ f.acc[j] = w[f.prog[j].name]
AccsOK(st, bd, w) == \A k \in DOMAIN st : st[k].kind = "view" => AccOK(st[k], bd, w)

(* A view has the value of its expression, all of which was run.              *)
Computed(n, bd, ca, w) ==
  /\ \A j \in DOMAIN bd[n] : bd[n][j].op = "read"
  /\ ca[n] = Value(bd[n], [i \in 1..Len(bd[n]) |-> w[bd[n][i].name]])
(* The views Fresh is about.                                                  *)
Sure(n, bd, pd, ro, qu) ==
  /\ n \in ro /\ bd[n] # <<>> /\ ~pd[n] /\ n \notin Rests(bd, n)
  /\ Uses(bd[n]) = Deps(bd[n])
  /\ \A k \in Rests(bd, n) : bd[k] # <<>> => k \in ro /\ Uses(bd[k]) = Deps(bd[k])
  /\ Deps(bd[n]) \cap qu = {}
SureOK(bd, pd, ro, ca, w, qu) ==
  \A n \in Names : Sure(n, bd, pd, ro, qu) => Computed(n, bd, ca, w)

WorthInv ==
  /\ AmendsOK(stack) /\ CachedOK(body, pending, cache) /\ RunsOK(stack, pending, inrecalc)
  /\ AccsOK(stack, body, Worth) /\ SureOK(body, pending, roster, cache, Worth, quiet)

-------------------------------------------------------------------------------
(* Marking reaches what it must.                                              *)

(* Marks are kept, and the listed views that name one of N are marked.        *)
LEMMA MarkedSeed ==
  ASSUME NEW N, NEW bd, NEW pd, NEW ro \in SUBSET Names
  PROVE  /\ \A m \in Names : pd[m] => m \in Marked(N, bd, pd, ro)
         /\ \A m \in ro : bd[m] # <<>> /\ N \cap Deps(bd[m]) # {} => m \in Marked(N, bd, pd, ro)
  BY DEF Marked

LEMMA UsesEmpty == Uses(<<>>) = {}
  BY DEF Uses

(* A listed view that is not marked after n changed does not rest on n, if    *)
(* what it rests on is listed.                                                *)
LEMMA Unreached ==
  ASSUME NEW n \in Names, NEW bd \in [Names -> Prog], NEW pd, NEW ro \in SUBSET Names,
         NEW m \in ro, bd[m] # <<>>, m \notin Marked({n}, bd, pd, ro),
         Uses(bd[m]) = Deps(bd[m]),
         \A k \in Rests(bd, m) : bd[k] # <<>> => k \in ro /\ Uses(bd[k]) = Deps(bd[k])
  PROVE  n \notin Rests(bd, m)
<1> DEFINE M == Marked({n}, bd, pd, ro)
           R == Rests(bd, m)
           T == {k \in R : k # n /\ (bd[k] # <<>> => k \notin M)}
<1>1. \A k \in Names : Uses(bd[k]) \subseteq Names
  BY DepsTyped
<1>2. Uses(bd[m]) \subseteq R /\ R \subseteq Names /\ \A k \in R : Uses(bd[k]) \subseteq R
  <2>1. Uses(bd[m]) \subseteq R
    BY <1>1, RestsUses
  <2>2. R \subseteq Names
    BY RestsTrans
  <2>3. ASSUME NEW k \in R PROVE Uses(bd[k]) \subseteq R
    BY <1>1, <2>2, RestsUses, RestsTrans
  <2>4. QED BY <2>1, <2>2, <2>3
<1>3. ASSUME NEW j \in ro, bd[j] # <<>>, j \notin M, NEW d \in Deps(bd[j])
      PROVE  d # n /\ (bd[d] # <<>> => d \notin M)
  <2>1. d # n
    BY <1>3, MarkedSeed
  <2>2. bd[d] # <<>> => d \notin M
    BY <1>3, MarkedClosed
  <2>3. QED BY <2>1, <2>2
<1>4. /\ m \notin M /\ Uses(bd[m]) = Deps(bd[m])
      /\ \A k \in R : bd[k] # <<>> => k \in ro /\ Uses(bd[k]) = Deps(bd[k])
  OBVIOUS
<1> HIDE DEF M
<1>5. Uses(bd[m]) \subseteq T
  BY <1>2, <1>3, <1>4
<1>6. ASSUME NEW k \in T PROVE Uses(bd[k]) \subseteq T
  <2>1. CASE bd[k] = <<>>
    BY <2>1, UsesEmpty
  <2>2. CASE bd[k] # <<>>
    BY <1>2, <1>3, <1>4, <2>2
  <2>3. QED BY <2>1, <2>2
<1>7. T \in SUBSET Names /\ n \notin T
  BY <1>2
<1> HIDE DEF T
<1>8. QED BY <1>5, <1>6, <1>7 DEF Rests

(* Rebinding n takes nothing away from what m rests on, if that is not n.     *)
LEMMA RestsSame ==
  ASSUME NEW n \in Names, NEW bd \in [Names -> Prog], NEW bd2 \in [Names -> Prog],
         \A k \in Names : k # n => bd2[k] = bd[k], NEW m \in Names, m # n, n \notin Rests(bd2, m)
  PROVE  Rests(bd, m) \subseteq Rests(bd2, m)
<1> DEFINE R == Rests(bd2, m)
<1>1. \A k \in Names : Uses(bd2[k]) \subseteq Names
  BY DepsTyped
<1>2. Uses(bd2[m]) \subseteq R
  BY <1>1, RestsUses
<1>3. R \in SUBSET Names
  BY RestsTrans
<1>4. ASSUME NEW k \in R PROVE Uses(bd2[k]) \subseteq R
  BY <1>1, <1>3, RestsUses, RestsTrans
<1>5. n \notin R
  OBVIOUS
<1> HIDE DEF R
<1>6. Uses(bd[m]) \subseteq R /\ \A k \in R : Uses(bd[k]) \subseteq R
  BY <1>2, <1>3, <1>4, <1>5
<1>7. Rests(bd, m) \subseteq R
  BY <1>3, <1>6 DEF Rests
<1>8. QED BY <1>7 DEF R

(* A value stays right while the names it was computed from are worth the     *)
(* same.                                                                      *)
LEMMA ComputedSame ==
  ASSUME NEW m, NEW bd, NEW bd2, NEW ca, NEW ca2, NEW w, NEW w2, bd[m] \in Prog,
         bd2[m] = bd[m], ca2[m] = ca[m], \A k \in Uses(bd[m]) : w2[k] = w[k],
         Computed(m, bd, ca, w)
  PROVE  Computed(m, bd2, ca2, w2)
<1> DEFINE b == bd[m]
<1>1. b \in Prog /\ DOMAIN b = 1..Len(b)
  BY LenProperties DEF Prog
<1>2. \A i \in 1..Len(b) : b[i].op = "read"
  BY <1>1 DEF Computed
<1> HIDE DEF b
<1>3. \A i \in 1..Len(b) : b[i].name \in Uses(b)
  BY <1>1, <1>2, DepsTyped
<1>4. \A i \in 1..Len(b) : w2[b[i].name] = w[b[i].name]
  BY <1>3 DEF b
<1>5. [i \in 1..Len(b) |-> w2[b[i].name]] = [i \in 1..Len(b) |-> w[b[i].name]]
  BY <1>4
<1>6. QED BY <1>5 DEF Computed, b

(* Rebinding n: the views that are sure afterwards were so before, and name   *)
(* nothing that changed.                                                      *)
LEMMA SureRebound ==
  ASSUME NEW n \in Names, NEW bd \in [Names -> Prog], NEW bd2 \in [Names -> Prog],
         NEW pd, NEW pd0, NEW pd2, NEW ro \in SUBSET Names, NEW ro2 \in SUBSET Names,
         NEW ca, NEW ca2, NEW w, NEW w2, NEW qu, NEW qu2,
         \A k \in Names : k # n => bd2[k] = bd[k] /\ ca2[k] = ca[k] /\ w2[k] = w[k],
         \A k \in ro2 : k # n => k \in ro,
         \A k \in qu : k # n => k \in qu2,
         \A k \in Names : k # n /\ pd[k] => pd0[k],
         bd2[n] # <<>> => pd0[n],
         \A k \in Names : pd2[k] <=> k \in Marked({n}, bd2, pd0, ro2),
         SureOK(bd, pd, ro, ca, w, qu)
  PROVE  SureOK(bd2, pd2, ro2, ca2, w2, qu2)
<1> SUFFICES ASSUME NEW m \in Names, Sure(m, bd2, pd2, ro2, qu2) PROVE Computed(m, bd2, ca2, w2)
  BY DEF SureOK
<1>1. /\ m \in ro2 /\ bd2[m] # <<>> /\ ~pd2[m] /\ m \notin Rests(bd2, m)
      /\ Uses(bd2[m]) = Deps(bd2[m])
      /\ \A k \in Rests(bd2, m) : bd2[k] # <<>> => k \in ro2 /\ Uses(bd2[k]) = Deps(bd2[k])
      /\ Deps(bd2[m]) \cap qu2 = {}
  BY DEF Sure
<1>2. m \notin Marked({n}, bd2, pd0, ro2) /\ ~pd0[m]
  BY <1>1, MarkedSeed
<1>3. m # n
  BY <1>1, <1>2
<1>4. n \notin Rests(bd2, m)
  BY <1>1, <1>2, Unreached
<1>5. Rests(bd, m) \subseteq Rests(bd2, m)
  BY <1>3, <1>4, RestsSame
<1>6. \A k \in Rests(bd2, m) : k \in Names /\ k # n
  BY <1>4, RestsTrans
<1>9. Uses(bd2[m]) \subseteq Names /\ bd2[m] \in Prog
  BY DepsTyped
<1>10. Uses(bd2[m]) \subseteq Rests(bd2, m)
  BY <1>9, RestsUses
<1>7. Sure(m, bd, pd, ro, qu)
  BY <1>1, <1>2, <1>3, <1>5, <1>6, <1>10 DEF Sure
<1>8. Computed(m, bd, ca, w)
  BY <1>7 DEF SureOK
<1>11. \A k \in Uses(bd[m]) : w2[k] = w[k]
  BY <1>3, <1>6, <1>10
<1>12. QED BY <1>3, <1>8, <1>9, <1>11, ComputedSame

-------------------------------------------------------------------------------
(* What names are worth, step by step.                                        *)

(* Without an amend every name is worth what it is bound to.                  *)
LEMMA WorthPlain ==
  ASSUME NEW st \in Seq(Frame), NEW bd, NEW ca, NEW vl, \A k \in DOMAIN st : st[k].kind # "amend"
  PROVE  \A k \in Names : WorthOf(st, bd, ca, vl)[k] = IF bd[k] # <<>> THEN ca[k] ELSE vl[k]
<1>1. st # <<>> => 1 \in DOMAIN st
  BY SplitStack
<1>2. ~(st # <<>> /\ st[1].kind = "amend")
  BY <1>1
<1>3. QED BY <1>2 DEF WorthOf

(* An amend is the innermost frame and the only one.                          *)
LEMMA AmendTop ==
  ASSUME NEW st \in Seq(Frame), st # <<>>, AmendsOK(st)
  PROVE  /\ st[Len(st)].kind # "amend" => \A k \in DOMAIN st : st[k].kind # "amend"
         /\ st[Len(st)].kind = "amend" => Len(st) = 1 /\ DOMAIN st = {1}
<1>1. DOMAIN st = 1..Len(st) /\ Len(st) \in Nat /\ Len(st) \in DOMAIN st
  BY SplitStack
<1>2. QED BY <1>1 DEF AmendsOK

(* Without recalculations and amends the frames have nothing to keep.         *)
LEMMA PlainFrames ==
  ASSUME NEW st, NEW bd, NEW pd, NEW ir, NEW w, \A k \in DOMAIN st : st[k].kind \notin {"view", "amend"}
  PROVE  AmendsOK(st) /\ RunsOK(st, pd, ir) /\ AccsOK(st, bd, w)
  BY DEF AmendsOK, RunsOK, AccsOK

(* The hook that a set may start.                                             *)
LEMMA FirePlain ==
  ASSUME BindingsOK, NEW n \in Names, NEW s \in Seq(Frame), Fire(n, s),
         \A k \in DOMAIN s : s[k].kind \notin {"view", "amend"}
  PROVE  \A k \in DOMAIN stack' : stack'[k].kind \notin {"view", "amend"}
<1>1. ASSUME NEW f \in Frame, f.kind = "hook", stack' = Append(s, f)
      PROVE  \A k \in DOMAIN stack' : stack'[k].kind \notin {"view", "amend"}
  <2>1. /\ DOMAIN s = 1..Len(s) /\ DOMAIN stack' = 1..(Len(s) + 1) /\ Len(s) \in Nat
        /\ stack'[Len(s) + 1] = f /\ \A k \in 1..Len(s) : stack'[k] = s[k]
    BY <1>1, PushStack
  <2>2. QED BY <1>1, <2>1
<1>2. CASE stack' = s
  BY <1>2
<1>3. CASE \E p \in Hooks : stack' = Append(s, HookFrame(n, p))
  <2>1. PICK p \in Hooks : stack' = Append(s, HookFrame(n, p))
    BY <1>3
  <2>2. HookFrame(n, p) \in Frame /\ HookFrame(n, p).kind = "hook"
    BY FrameTyped DEF HookFrame
  <2>3. QED BY <1>1, <2>1, <2>2
<1>4. QED BY <1>2, <1>3 DEF Fire

(* n is bound to something else: a value, a view or nothing.                  *)
LEMMA ReboundWorth ==
  ASSUME Inv, Inv', WorthInv, NEW n \in Names, NEW pd0,
         \A k \in Names : k # n => body'[k] = body[k] /\ cache'[k] = cache[k] /\ val'[k] = val[k],
         \A k \in roster' : k # n => k \in roster, \A k \in quiet : k # n => k \in quiet',
         \A k \in Names : k # n /\ pending[k] => pd0[k],
         body'[n] # <<>> => pd0[n],
         pending' = [m \in Names |-> m \in Marked({n}, body', pd0, roster')],
         \A k \in DOMAIN stack : stack[k].kind = "amend" => stack[k].name = n,
         \A k \in DOMAIN stack' : stack'[k].kind \notin {"view", "amend"}
  PROVE  WorthInv'
<1>1. /\ stack \in Seq(Frame) /\ stack' \in Seq(Frame) /\ body \in [Names -> Prog] /\ body' \in [Names -> Prog]
      /\ roster \in SUBSET Names /\ roster' \in SUBSET Names
  BY DEF Inv, FramesOK, BindingsOK
<1>2. \A k \in Names : k # n => Worth[k] = IF body[k] # <<>> THEN cache[k] ELSE val[k]
  <2>1. stack # <<>> => 1 \in DOMAIN stack
    BY <1>1, SplitStack
  <2>2. stack # <<>> /\ stack[1].kind = "amend" => stack[1].name = n
    BY <2>1
  <2>3. QED BY <2>2 DEF Worth, WorthOf
<1>3. \A k \in Names : Worth'[k] = IF body'[k] # <<>> THEN cache'[k] ELSE val'[k]
  BY <1>1, WorthPlain DEF Worth
<1>4. \A k \in Names : k # n => Worth'[k] = Worth[k]
  BY <1>2, <1>3
<1>5. \A m \in Names : pending'[m] <=> m \in Marked({n}, body', pd0, roster')
  OBVIOUS
<1>6. SureOK(body', pending', roster', cache', Worth', quiet')
  <2> DEFINE bd2 == body'
             pd2 == pending'
             ro2 == roster'
             ca2 == cache'
             w2 == Worth'
             qu2 == quiet'
  <2>1. /\ \A k \in Names : k # n => bd2[k] = body[k] /\ ca2[k] = cache[k] /\ w2[k] = Worth[k]
        /\ \A k \in ro2 : k # n => k \in roster
        /\ \A k \in quiet : k # n => k \in qu2
        /\ bd2[n] # <<>> => pd0[n]
        /\ \A k \in Names : pd2[k] <=> k \in Marked({n}, bd2, pd0, ro2)
        /\ bd2 \in [Names -> Prog] /\ ro2 \in SUBSET Names
    BY <1>1, <1>4, <1>5
  <2>2. SureOK(body, pending, roster, cache, Worth, quiet)
    BY DEF WorthInv
  <2> HIDE DEF bd2, pd2, ro2, ca2, w2, qu2
  <2>3. SureOK(bd2, pd2, ro2, ca2, w2, qu2)
    BY <1>1, <2>1, <2>2, SureRebound
  <2>4. QED BY <2>3 DEF bd2, pd2, ro2, ca2, w2, qu2
<1>7. CachedOK(body', pending', cache')
  <2> SUFFICES ASSUME NEW m \in Names, body'[m] # <<>>, ~pending'[m] PROVE cache'[m] # None
    BY DEF CachedOK
  <2>1. ~pd0[m]
    BY <1>1, <1>5, MarkedSeed
  <2>2. m # n /\ ~pending[m]
    BY <2>1
  <2>3. QED BY <2>2 DEF WorthInv, CachedOK
<1>8. AmendsOK(stack') /\ RunsOK(stack', pending', inrecalc') /\ AccsOK(stack', body', Worth')
  BY PlainFrames
<1>9. QED BY <1>6, <1>7, <1>8 DEF WorthInv

(* A set of a value, with the frames s to go on.                              *)
LEMMA BindWorth ==
  ASSUME Inv, Inv', WorthInv, NEW n \in Names, NEW x \in Values, NEW s \in Seq(Frame), Bind(n, x, s),
         \A k \in DOMAIN s : s[k].kind \notin {"view", "amend"},
         \A k \in DOMAIN stack : stack[k].kind = "amend" => stack[k].name = n
  PROVE  WorthInv'
<1> DEFINE bd == [body EXCEPT ![n] = <<>>]
           pd0 == [pending EXCEPT ![n] = FALSE]
           d == Detach(s, n)
<1>1. /\ body' = bd /\ roster' = Healed(bd, roster)
      /\ val' = [val EXCEPT ![n] = x] /\ cache' = [cache EXCEPT ![n] = None]
      /\ pending' = [m \in Names |-> m \in Marked({n}, body', pd0, roster')]
      /\ quiet' = quiet \ {n}
      /\ Fire(n, d)
  BY DEF Bind
<1>2. d = s
  <2>1. \A k \in DOMAIN s : s[k].kind # "view"
    OBVIOUS
  <2>2. d = [k \in DOMAIN s |-> s[k]]
    BY <2>1 DEF Detach
  <2>3. QED BY <2>2
<1>3. \A k \in DOMAIN stack' : stack'[k].kind \notin {"view", "amend"}
  BY <1>1, <1>2, FirePlain DEF Inv
<1>4. \A k \in Names : k # n => body'[k] = body[k] /\ cache'[k] = cache[k] /\ val'[k] = val[k]
  BY <1>1 DEF Inv, BindingsOK
<1>5. body'[n] = <<>> /\ \A k \in Names : k # n /\ pending[k] => pd0[k]
  BY <1>1 DEF Inv, BindingsOK
<1>6. \A k \in roster' : k # n => k \in roster
  BY <1>1 DEF Healed
<1> HIDE DEF pd0
<1>7. QED BY <1>1, <1>3, <1>4, <1>5, <1>6, ReboundWorth

(* A view is defined.                                                         *)
LEMMA BindViewWorth ==
  ASSUME Inv, Inv', WorthInv, Idle, NEW n \in Names, NEW b, NEW ro \in SUBSET (roster \cup {n}),
         BindView(n, b, ro)
  PROVE  WorthInv'
<1> DEFINE pd0 == [pending EXCEPT ![n] = TRUE]
<1>1. /\ body' = [body EXCEPT ![n] = b] /\ roster' = ro
      /\ val' = [val EXCEPT ![n] = None] /\ cache' = [cache EXCEPT ![n] = None]
      /\ pending' = [m \in Names |-> m \in Marked({n}, body', pd0, roster')]
      /\ quiet' = quiet \ {n}
      /\ Fire(n, stack) /\ stack = <<>>
  BY DEF BindView, Idle
<1>2. stack \in Seq(Frame) /\ DOMAIN stack = {}
  BY <1>1, EmptySeq
<1>3. \A k \in DOMAIN stack' : stack'[k].kind \notin {"view", "amend"}
  BY <1>1, <1>2, FirePlain DEF Inv
<1>4. \A k \in Names : k # n => body'[k] = body[k] /\ cache'[k] = cache[k] /\ val'[k] = val[k]
  BY <1>1 DEF Inv, BindingsOK
<1>5. pd0[n] /\ \A k \in Names : k # n /\ pending[k] => pd0[k]
  BY DEF Inv, BindingsOK
<1>6. \A k \in roster' : k # n => k \in roster
  BY <1>1
<1> HIDE DEF pd0
<1>7. QED BY <1>1, <1>2, <1>3, <1>4, <1>5, <1>6, ReboundWorth

LEMMA UnbindWorth ==
  ASSUME Inv, Inv', WorthInv, NEW n \in Names, Unbind(n)
  PROVE  WorthInv'
<1> DEFINE pd0 == [pending EXCEPT ![n] = FALSE]
<1>1. /\ body' = [body EXCEPT ![n] = <<>>] /\ roster' = Healed(body', roster)
      /\ val' = [val EXCEPT ![n] = None] /\ cache' = [cache EXCEPT ![n] = None]
      /\ pending' = [m \in Names |-> m \in Marked({n}, body', pd0, roster')]
      /\ quiet' = quiet \ {n}
      /\ stack' = stack /\ stack = <<>>
  BY DEF Unbind, Idle
<1>2. DOMAIN stack = {} /\ DOMAIN stack' = {}
  BY <1>1, EmptySeq
<1>4. \A k \in Names : k # n => body'[k] = body[k] /\ cache'[k] = cache[k] /\ val'[k] = val[k]
  BY <1>1 DEF Inv, BindingsOK
<1>5. body'[n] = <<>> /\ \A k \in Names : k # n /\ pending[k] => pd0[k]
  BY <1>1 DEF Inv, BindingsOK
<1>6. \A k \in roster' : k # n => k \in roster
  BY <1>1 DEF Healed
<1> HIDE DEF pd0
<1>7. QED BY <1>1, <1>2, <1>4, <1>5, <1>6, ReboundWorth

(* A name changes quietly: views that name it are not claimed to be fresh.    *)
LEMMA QuietWorth ==
  ASSUME WorthInv, NEW n, body \in [Names -> Prog], UNCHANGED <<body, cache, roster>>,
         quiet' = quiet \cup {n},
         \A k \in Names : k # n => Worth'[k] = Worth[k], \A m \in Names : ~pending'[m] => ~pending[m]
  PROVE  SureOK(body', pending', roster', cache', Worth', quiet')
<1> SUFFICES ASSUME NEW m \in Names, Sure(m, body, pending', roster, quiet')
             PROVE  Computed(m, body, cache, Worth')
  BY DEF SureOK
<1>1. Sure(m, body, pending, roster, quiet) /\ n \notin Uses(body[m])
  BY DEF Sure
<1>2. Computed(m, body, cache, Worth)
  BY <1>1 DEF WorthInv, SureOK
<1>3. body[m] \in Prog /\ Uses(body[m]) \subseteq Names
  BY DepsTyped
<1> DEFINE w2 == Worth'
<1>4. \A k \in Uses(body[m]) : w2[k] = Worth[k]
  BY <1>1, <1>3
<1> HIDE DEF w2
<1>5. Computed(m, body, cache, w2)
  BY <1>2, <1>3, <1>4, ComputedSame
<1>6. QED BY <1>5 DEF w2

(* A member of a dictionary is written.                                       *)
LEMMA SetMemberWorth ==
  ASSUME Inv, Inv', WorthInv, NEW n \in Names, NEW x \in Values, SetMember(n, x)
  PROVE  WorthInv'
<1>1. /\ stack = <<>> /\ quiet' = quiet \cup {n} /\ val' = [val EXCEPT ![n] = x] /\ Fire(n, stack)
      /\ pending' = [m \in Names |-> m \in Marked({}, body, pending, roster)]
      /\ body' = body /\ cache' = cache /\ roster' = roster
  BY DEF SetMember, Idle
<1>2. stack \in Seq(Frame) /\ stack' \in Seq(Frame) /\ DOMAIN stack = {}
  BY <1>1, EmptySeq DEF Inv, FramesOK
<1>3. \A k \in DOMAIN stack' : stack'[k].kind \notin {"view", "amend"}
  BY <1>1, <1>2, FirePlain DEF Inv
<1>4. \A k \in Names : Worth[k] = IF body[k] # <<>> THEN cache[k] ELSE val[k]
  BY <1>1 DEF Worth, WorthOf
<1>5. \A k \in Names : Worth'[k] = IF body'[k] # <<>> THEN cache'[k] ELSE val'[k]
  BY <1>2, <1>3, WorthPlain DEF Worth
<1>6. \A k \in Names : k # n => Worth'[k] = Worth[k]
  BY <1>1, <1>4, <1>5 DEF Inv, BindingsOK
<1>7. body \in [Names -> Prog] /\ roster \in SUBSET Names
  BY DEF Inv, BindingsOK
<1>8. \A m \in Names : ~pending'[m] => ~pending[m]
  BY <1>1, <1>7, MarkedSeed
<1>9. SureOK(body', pending', roster', cache', Worth', quiet')
  BY <1>1, <1>6, <1>7, <1>8, QuietWorth
<1>10. CachedOK(body', pending', cache')
  BY <1>1, <1>8 DEF WorthInv, CachedOK
<1>11. AmendsOK(stack') /\ RunsOK(stack', pending', inrecalc') /\ AccsOK(stack', body', Worth')
  BY <1>3, PlainFrames
<1>12. QED BY <1>9, <1>10, <1>11 DEF WorthInv

(* The innermost frame of st goes on behind its read of m, with x.            *)
LEMMA FedFrame ==
  ASSUME NEW t \in Frame, NEW x \in Values
  PROVE  /\ Fed(t, x) \in Frame /\ Fed(t, x).pc = t.pc + 1 /\ Fed(t, x).acc = Append(t.acc, x)
         /\ Fed(t, x).kind = t.kind /\ Fed(t, x).name = t.name /\ Fed(t, x).prog = t.prog
         /\ Fed(t, x).live = t.live /\ Fed(t, x).saved = t.saved
<1> DEFINE f == Fed(t, x)
           p == t.pc + 1
           a == Append(t.acc, x)
<1>1. \E y \in Values : f = Fed(t, y)
  OBVIOUS
<1>2. f = [t EXCEPT !.pc = p, !.acc = a]
  BY DEF Fed, Frame
<1> HIDE DEF p, a
<1>3. f.acc = a /\ f.saved = t.saved
  BY <1>2 DEF Frame
<1> HIDE DEF f
<1>4. /\ f \in Frame /\ f.pc = t.pc + 1
      /\ f.kind = t.kind /\ f.name = t.name /\ f.prog = t.prog /\ f.live = t.live
  BY <1>1, FrameMoves
<1>5. QED BY <1>3, <1>4 DEF f, a

LEMMA FeedWorth ==
  ASSUME NEW st \in Seq(Frame), st # <<>>, NEW bd, NEW pd, NEW ir, NEW w, NEW x \in Values, NEW m,
         NEW t, t = st[Len(st)], AtRead(t, m), t.kind = "view" => x = w[m],
         AmendsOK(st), RunsOK(st, pd, ir), AccsOK(st, bd, w)
  PROVE  /\ AmendsOK([st EXCEPT ![Len(st)] = Fed(t, x)])
         /\ RunsOK([st EXCEPT ![Len(st)] = Fed(t, x)], pd, ir)
         /\ AccsOK([st EXCEPT ![Len(st)] = Fed(t, x)], bd, w)
<1> DEFINE f == Fed(t, x)
           r == [st EXCEPT ![Len(st)] = f]
           L == Len(st)
<1>1. t \in Frame /\ DOMAIN st = 1..L /\ L \in 1..L /\ L \in Nat
  BY SplitStack
<1>2. /\ f \in Frame /\ f.pc = t.pc + 1 /\ f.acc = Append(t.acc, x)
      /\ f.kind = t.kind /\ f.name = t.name /\ f.prog = t.prog
  BY <1>1, FedFrame
<1> HIDE DEF f
<1>3. r \in Seq(Frame) /\ Len(r) = L /\ DOMAIN r = 1..L /\ r[L] = f /\ \A k \in 1..L : k # L => r[k] = st[k]
  BY <1>1, <1>2, Replace, ExceptSeq
<1>4. \A k \in 1..L : r[k].kind = st[k].kind /\ r[k].name = st[k].name /\ r[k].prog = st[k].prog
  BY <1>2, <1>3
<1> HIDE DEF r
<1>5. AmendsOK(r)
  BY <1>1, <1>3, <1>4 DEF AmendsOK
<1>6. RunsOK(r, pd, ir)
  BY <1>1, <1>3, <1>4 DEF RunsOK
<1>7. ASSUME t.kind = "view" PROVE AccOK(f, bd, w)
  <2> DEFINE a == t.acc
             q == t.prog
  <2>1. /\ a \in Seq(Values) /\ q \in Seq(Instr) /\ t.pc \in DOMAIN q
        /\ q[t.pc].op = "read" /\ q[t.pc].name = m
    BY <1>1 DEF Frame, Prog, AtRead
  <2>2. /\ t.pc = Len(a) + 1
        /\ \A j \in 1..Len(a) : q[j].op = "read" /\ (t.name \in Rests(bd, t.name) \/ a[j] = w[q[j].name])
    BY <1>1, <1>7 DEF AccsOK, AccOK
  <2>3. f.acc = Append(a, x) /\ f.prog = q /\ f.name = t.name /\ f.pc = t.pc + 1
    BY <1>2
  <2> HIDE DEF a, q
  <2>4. Len(a) \in Nat /\ Len(q) \in Nat /\ t.pc \in 1..Len(q)
    BY <2>1, LenProperties
  <2>5. /\ Len(Append(a, x)) = Len(a) + 1 /\ Append(a, x)[Len(a) + 1] = x
        /\ \A j \in 1..Len(a) : Append(a, x)[j] = a[j]
    BY <2>1, AppendProperties
  <2>6. f.pc = Len(f.acc) + 1 /\ f.pc <= Len(f.prog) + 1
    BY <2>2, <2>3, <2>4, <2>5
  <2>7. ASSUME NEW j \in 1..(Len(a) + 1)
        PROVE  q[j].op = "read" /\ (t.name \in Rests(bd, t.name) \/ Append(a, x)[j] = w[q[j].name])
    <3>1. CASE j = Len(a) + 1
      BY <1>7, <2>1, <2>2, <2>5, <3>1
    <3>2. CASE j \in 1..Len(a)
      BY <2>2, <2>5, <3>2
    <3>3. QED BY <2>4, <3>1, <3>2
  <2>8. QED BY <2>3, <2>5, <2>6, <2>7 DEF AccOK
<1>8. AccsOK(r, bd, w)
  BY <1>1, <1>2, <1>3, <1>7 DEF AccsOK
<1>9. QED BY <1>5, <1>6, <1>8 DEF r, f

(* Bindings, marks and values stay.                                           *)
LEMMA SteadyWorth ==
  ASSUME WorthInv, UNCHANGED <<body, pending, roster, cache, quiet>>, Worth' = Worth,
         AmendsOK(stack'), RunsOK(stack', pending', inrecalc'), AccsOK(stack', body', Worth')
  PROVE  WorthInv'
<1>1. SureOK(body', pending', roster', cache', Worth', quiet')
  BY DEF WorthInv
<1>2. CachedOK(body', pending', cache')
  BY DEF WorthInv
<1>3. QED BY <1>1, <1>2 DEF WorthInv

(* Frames move, and nothing else.                                             *)
LEMMA SameWorth ==
  ASSUME NEW st \in Seq(Frame), NEW r \in Seq(Frame), NEW bd, NEW ca, NEW vl,
         \/ \A k \in DOMAIN st : st[k].kind # "amend"
         \/ DOMAIN st = {1} /\ DOMAIN r = {1} /\ r[1].saved = st[1].saved,
         \A k \in DOMAIN r \cap DOMAIN st : r[k].kind = st[k].kind /\ r[k].name = st[k].name,
         \A k \in DOMAIN r : k \notin DOMAIN st => r[k].kind # "amend"
  PROVE  WorthOf(r, bd, ca, vl) = WorthOf(st, bd, ca, vl)
<1>1. CASE \A k \in DOMAIN st : st[k].kind # "amend"
  <2>1. \A k \in DOMAIN r : r[k].kind # "amend"
    BY <1>1
  <2>2. \A k \in Names : WorthOf(r, bd, ca, vl)[k] = WorthOf(st, bd, ca, vl)[k]
    BY <1>1, <2>1, WorthPlain
  <2>3. QED BY <2>2 DEF WorthOf
<1>2. CASE DOMAIN st = {1} /\ DOMAIN r = {1} /\ r[1].saved = st[1].saved
  <2>1. r[1].kind = st[1].kind /\ r[1].name = st[1].name
    BY <1>2
  <2>2. DOMAIN st # {} /\ DOMAIN r # {}
    BY <1>2
  <2>3. st # <<>> /\ r # <<>>
    BY <2>2
  <2>4. QED BY <1>2, <2>1, <2>3 DEF WorthOf
<1>3. QED BY <1>1, <1>2

(* The innermost frame has its value: of a name or of a cache.                *)
LEMMA TookWorth ==
  ASSUME Inv, Inv', WorthInv, Doing("read"), NEW x \in Values, stack' = Took(x),
         Top.kind = "view" => x = Worth[Cur.name],
         UNCHANGED <<val, body, pending, inrecalc, cache, roster, quiet>>
  PROVE  WorthInv'
<1> DEFINE t == Top
           L == Len(stack)
           r == [stack EXCEPT ![L] = Fed(t, x)]
<1>1. /\ stack \in Seq(Frame) /\ stack # <<>> /\ t \in Frame /\ AtRead(t, Cur.name) /\ t = stack[L]
  BY CurTyped DEF Doing, AtRead, Cur, Top
<1>2. stack' = r /\ r \in Seq(Frame)
  <2>1. Running
    BY DEF Doing
  <2>2. QED BY <2>1, TookStep DEF Inv, FramesOK
<1>3. DOMAIN stack = 1..L /\ L \in 1..L /\ L \in Nat
  BY <1>1, SplitStack
<1>4. Fed(t, x).kind = t.kind /\ Fed(t, x).name = t.name /\ Fed(t, x).saved = t.saved
  BY <1>1, FedFrame
<1>5. Worth' = Worth
  <2>1. DOMAIN r = DOMAIN stack /\ \A k \in DOMAIN r : r[k].kind = stack[k].kind /\ r[k].name = stack[k].name
    BY <1>1, <1>3, <1>4
  <2>2. CASE t.kind = "amend"
    <3>1. DOMAIN stack = {1} /\ L = 1
      BY <1>1, <2>2, AmendTop DEF WorthInv
    <3>2. r[1].saved = stack[1].saved
      BY <1>1, <1>4, <3>1
    <3> HIDE DEF r
    <3>3. QED BY <1>1, <1>2, <2>1, <3>1, <3>2, SameWorth DEF Worth
  <2>3. CASE t.kind # "amend"
    <3>1. \A k \in DOMAIN stack : stack[k].kind # "amend"
      BY <1>1, <2>3, AmendTop DEF WorthInv
    <3> HIDE DEF r
    <3>2. QED BY <1>1, <1>2, <2>1, <3>1, SameWorth DEF Worth
  <2>4. QED BY <2>2, <2>3
<1>6. AmendsOK(r) /\ RunsOK(r, pending, inrecalc) /\ AccsOK(r, body, Worth)
  <2> DEFINE m == Cur.name
  <2>1. AtRead(t, m) /\ (t.kind = "view" => x = Worth[m])
    BY <1>1
  <2>2. AmendsOK(stack) /\ RunsOK(stack, pending, inrecalc) /\ AccsOK(stack, body, Worth)
    BY DEF WorthInv
  <2> HIDE DEF m, t
  <2>3. QED BY <1>1, <2>1, <2>2, FeedWorth
<1> HIDE DEF r
<1>7. QED BY <1>2, <1>5, <1>6, SteadyWorth

(* A recalculation begins: of a view that is pending.                         *)
LEMMA PushWorth ==
  ASSUME NEW st \in Seq(Frame), NEW bd, NEW pd, NEW ir \in [Names -> BOOLEAN], NEW w, NEW f \in Frame,
         f.kind = "view", f.pc = 1, f.acc = <<>>, pd[f.name], ~ir[f.name],
         \A k \in DOMAIN st : st[k].kind # "amend", RunsOK(st, pd, ir), AccsOK(st, bd, w)
  PROVE  /\ AmendsOK(Append(st, f))
         /\ RunsOK(Append(st, f), pd, [ir EXCEPT ![f.name] = TRUE])
         /\ AccsOK(Append(st, f), bd, w)
<1> DEFINE r == Append(st, f)
           L == Len(st)
           ir2 == [ir EXCEPT ![f.name] = TRUE]
<1>1. /\ DOMAIN st = 1..L /\ L \in Nat /\ DOMAIN r = 1..(L + 1)
      /\ r[L + 1] = f /\ \A k \in 1..L : r[k] = st[k] /\ st[k] \in Frame
  BY PushStack, ElementOfSeq
<1> HIDE DEF r, L
<1>2. \A k \in 1..(L + 1) : k \in 1..L \/ k = L + 1
  BY <1>1
<1>3. AmendsOK(r)
  BY <1>1, <1>2 DEF AmendsOK
<1>4. \A k \in 1..L : st[k].kind = "view" => pd[st[k].name] /\ ir[st[k].name] /\ st[k].name # f.name
  BY <1>1 DEF RunsOK
<1>5. f.name \in Names /\ \A k \in 1..L : st[k].name \in Names
  BY <1>1 DEF Frame
<1>6. ir2[f.name] /\ \A k \in 1..L : ir[st[k].name] => ir2[st[k].name]
  BY <1>5
<1> HIDE DEF ir2
<1>7. RunsOK(r, pd, ir2)
  <2>1. \A k \in 1..(L + 1) : r[k].kind = "view" => pd[r[k].name] /\ ir2[r[k].name]
    BY <1>1, <1>2, <1>4, <1>6
  <2>2. ASSUME NEW j \in 1..(L + 1), NEW k \in 1..(L + 1), r[j].kind = "view", r[k].kind = "view",
               r[j].name = r[k].name
        PROVE  j = k
    <3>1. CASE j \in 1..L /\ k \in 1..L
      BY <1>1, <2>2, <3>1 DEF RunsOK
    <3>2. CASE j = L + 1 \/ k = L + 1
      BY <1>1, <1>2, <1>4, <2>2, <3>2
    <3>3. QED BY <1>2, <3>1, <3>2
  <2>3. QED BY <1>1, <2>1, <2>2 DEF RunsOK
<1>8. AccOK(f, bd, w)
  <2> DEFINE a == f.acc
             q == f.prog
  <2>1. a = <<>> /\ q \in Seq(Instr) /\ f.pc = 1
    BY DEF Frame, Prog
  <2> HIDE DEF a, q
  <2>2. Len(a) = 0 /\ Len(q) \in Nat
    BY <2>1, EmptySeq, LenProperties
  <2>3. QED BY <2>1, <2>2 DEF AccOK, a, q
<1>9. AccsOK(r, bd, w)
  BY <1>1, <1>2, <1>8 DEF AccsOK
<1>10. QED BY <1>3, <1>7, <1>9 DEF r, ir2

LEMMA DerefWorth ==
  ASSUME Inv, Inv', WorthInv, NEW n \in Names, IsView(n), NEW got, Deref(n, got),
         UNCHANGED <<val, body, pending, cache, roster, quiet>>,
         \A k \in DOMAIN stack : stack[k].kind # "amend",
         cache[n] # None /\ stack' = got /\ inrecalc' = inrecalc => WorthInv'
  PROVE  WorthInv'
<1>1. CASE cache[n] # None /\ stack' = got /\ inrecalc' = inrecalc
  BY <1>1
<1>2. CASE stack' = stack /\ inrecalc' = inrecalc
  <2>1. Worth' = Worth
    BY <1>2 DEF Worth
  <2>2. QED BY <1>2, <2>1, SteadyWorth DEF WorthInv
<1>3. CASE /\ pending[n] \/ cache[n] = None
           /\ ~inrecalc[n]
           /\ inrecalc' = [inrecalc EXCEPT ![n] = TRUE]
           /\ stack' = Append(stack, ViewFrame(n))
  <2> DEFINE f == ViewFrame(n)
             r == Append(stack, f)
  <2>1. f \in Frame /\ f.kind = "view" /\ f.pc = 1 /\ f.acc = <<>> /\ f.name = n
    BY FrameTyped DEF ViewFrame, Inv
  <2>2. pending[n]
    BY <1>3 DEF WorthInv, CachedOK, IsView
  <2>3. /\ stack \in Seq(Frame) /\ r \in Seq(Frame) /\ inrecalc \in [Names -> BOOLEAN]
        /\ inrecalc' = [inrecalc EXCEPT ![f.name] = TRUE]
    BY <1>3, <2>1, PushStack DEF Inv, FramesOK, BindingsOK
  <2> HIDE DEF f
  <2>4. AmendsOK(r) /\ RunsOK(r, pending, inrecalc') /\ AccsOK(r, body, Worth)
    <3>1. RunsOK(stack, pending, inrecalc) /\ AccsOK(stack, body, Worth)
      BY DEF WorthInv
    <3>2. pending[f.name] /\ ~inrecalc[f.name]
      BY <1>3, <2>1, <2>2
    <3>3. /\ AmendsOK(r) /\ RunsOK(r, pending, [inrecalc EXCEPT ![f.name] = TRUE])
          /\ AccsOK(r, body, Worth)
      BY <2>1, <2>3, <3>1, <3>2, PushWorth
    <3>4. QED BY <2>3, <3>3
  <2>5. WorthOf(r, body, cache, val) = WorthOf(stack, body, cache, val)
    <3>1. /\ DOMAIN stack = 1..Len(stack) /\ DOMAIN r = 1..(Len(stack) + 1) /\ Len(stack) \in Nat
          /\ r[Len(stack) + 1] = f /\ \A k \in 1..Len(stack) : r[k] = stack[k]
      BY <2>1, <2>3, PushStack
    <3>2. \A k \in DOMAIN r : k \notin DOMAIN stack => r[k].kind # "amend"
      BY <2>1, <3>1
    <3>3. \A k \in DOMAIN r \cap DOMAIN stack : r[k].kind = stack[k].kind /\ r[k].name = stack[k].name
      BY <3>1
    <3> HIDE DEF r
    <3>4. QED BY <2>3, <3>2, <3>3, SameWorth
  <2>6. stack' = r
    BY <1>3 DEF f
  <2> HIDE DEF r
  <2>7. Worth' = Worth
    BY <2>5, <2>6 DEF Worth
  <2>8. QED BY <2>4, <2>6, <2>7, SteadyWorth
<1>4. QED BY <1>1, <1>2, <1>3 DEF Deref

(* The innermost frame leaves; the marks of the others are as they were.      *)
LEMMA PopWorth ==
  ASSUME NEW st \in Seq(Frame), st # <<>>, NEW bd, NEW pd, NEW pd2, NEW ir, NEW ir2, NEW w,
         AmendsOK(st), RunsOK(st, pd, ir), AccsOK(st, bd, w),
         \A n \in Names : st[Len(st)].kind = "view" => n = st[Len(st)].name \/ pd2[n] = pd[n],
         \A n \in Names : st[Len(st)].kind = "view" => n = st[Len(st)].name \/ ir2[n] = ir[n],
         st[Len(st)].kind # "view" => \A k \in DOMAIN st : st[k].kind # "view"
  PROVE  /\ AmendsOK(SubSeq(st, 1, Len(st) - 1))
         /\ RunsOK(SubSeq(st, 1, Len(st) - 1), pd2, ir2)
         /\ AccsOK(SubSeq(st, 1, Len(st) - 1), bd, w)
<1> DEFINE r == SubSeq(st, 1, Len(st) - 1)
           L == Len(st)
           t == st[L]
<1>1. /\ DOMAIN st = 1..L /\ L \in Nat /\ L \in 1..L /\ DOMAIN r = 1..(L - 1)
      /\ \A k \in 1..(L - 1) : r[k] = st[k] /\ k \in 1..L /\ k # L
  BY SplitStack
<1>2. \A k \in 1..L : st[k].name \in Names
  <2>1. \A k \in 1..L : st[k] \in Frame
    BY ElementOfSeq
  <2>2. QED BY <2>1 DEF Frame
<1> HIDE DEF r
<1>3. AmendsOK(r)
  <2> SUFFICES ASSUME NEW k \in 1..(L - 1), r[k].kind = "amend" PROVE FALSE
    BY <1>1 DEF AmendsOK
  <2>1. L = 1
    BY <1>1 DEF AmendsOK
  <2>2. QED BY <2>1
<1>4. RunsOK(r, pd2, ir2)
  <2>1. ASSUME NEW k \in 1..(L - 1), r[k].kind = "view" PROVE pd2[r[k].name] /\ ir2[r[k].name]
    <3>1. st[k].kind = "view" /\ k \in DOMAIN st /\ k # L /\ r[k] = st[k] /\ L \in DOMAIN st
      BY <1>1, <2>1
    <3>2. t.kind = "view"
      BY <3>1
    <3>3. st[k].name # t.name /\ pd[st[k].name] /\ ir[st[k].name]
      BY <3>1, <3>2 DEF RunsOK
    <3>4. QED BY <1>1, <1>2, <3>1, <3>2, <3>3
  <2>2. \A j, k \in 1..(L - 1) : r[j].kind = "view" /\ r[k].kind = "view" /\ r[j].name = r[k].name
                                   => j = k
    <3> SUFFICES ASSUME NEW j \in 1..(L - 1), NEW k \in 1..(L - 1), r[j].kind = "view",
                        r[k].kind = "view", r[j].name = r[k].name
                 PROVE  j = k
      OBVIOUS
    <3>1. j \in DOMAIN st /\ k \in DOMAIN st /\ r[j] = st[j] /\ r[k] = st[k]
      BY <1>1
    <3>2. QED BY <3>1 DEF RunsOK
  <2>3. QED BY <1>1, <2>1, <2>2 DEF RunsOK
<1>5. AccsOK(r, bd, w)
  BY <1>1 DEF AccsOK
<1>6. QED BY <1>3, <1>4, <1>5 DEF r

(* What remains of a stack is worth what the stack was.                       *)
LEMMA RestWorth ==
  ASSUME NEW st \in Seq(Frame), st # <<>>, NEW bd, NEW ca, NEW vl, AmendsOK(st),
         st[Len(st)].kind # "amend"
  PROVE  WorthOf(SubSeq(st, 1, Len(st) - 1), bd, ca, vl) = WorthOf(st, bd, ca, vl)
<1> DEFINE r == SubSeq(st, 1, Len(st) - 1)
<1>1. \A k \in DOMAIN st : st[k].kind # "amend"
  BY AmendTop
<1>2. r \in Seq(Frame) /\ DOMAIN r \subseteq DOMAIN st /\ \A k \in DOMAIN r : r[k] = st[k]
  BY SplitStack
<1> HIDE DEF r
<1>3. WorthOf(r, bd, ca, vl) = WorthOf(st, bd, ca, vl)
  BY <1>1, <1>2, SameWorth
<1>4. QED BY <1>3 DEF r

(* A recalculation ends.  Whoever has read its view before, or was computed   *)
(* from it, rests on itself: for the view was pending.  Its own value is that *)
(* of its expression, as nothing it read has changed meanwhile.               *)
LEMMA RecalculatedWorth ==
  ASSUME PureBodies, ValueTyped, Inv, Inv', RecalcInv, PendingClosed, WorthInv, Recalculated
  PROVE  WorthInv'
<1> DEFINE x == Value(Top.prog, Top.acc)
           n == Top.name
           L == Len(stack)
<1>1. /\ Running /\ Top.kind = "view" /\ Top.pc = Len(Top.prog) + 1
      /\ stack \in Seq(Frame) /\ stack # <<>> /\ Top \in Frame /\ n \in Names
  BY CurTyped DEF Recalculated, Ended, Frame
<1>2. L \in DOMAIN stack /\ DOMAIN stack = 1..L /\ L \in Nat /\ Top = stack[L]
  BY <1>1, SplitStack DEF Top
<1>3. Top.live /\ body[n] = Top.prog /\ IsView(n)
  BY <1>1, <1>2, ViewFrames
<1>4. /\ stack' = HandBack(x)
      /\ pending' = [pending EXCEPT ![n] = FALSE]
      /\ inrecalc' = [inrecalc EXCEPT ![n] = FALSE]
      /\ cache' = [cache EXCEPT ![n] = x]
      /\ body' = body /\ roster' = roster /\ val' = val
  BY <1>3 DEF Recalculated
<1>5. x \in Values /\ x # None
  <2>1. x \in Values
    BY <1>1 DEF ValueTyped, Frame
  <2>2. QED BY <2>1, ViewsAssumption
<1>6. AccOK(Top, body, Worth) /\ pending[n]
  BY <1>1, <1>2 DEF WorthInv, AccsOK, RunsOK
<1>7. x = Value(Top.prog, Top.acc) /\ n = Top.name
  OBVIOUS
<1> HIDE DEF x, n
<1>8. \A k \in DOMAIN stack : stack[k].kind # "amend"
  <2>1. stack[Len(stack)].kind # "amend"
    BY <1>1, <1>2
  <2>2. QED BY <1>1, <2>1, AmendTop DEF WorthInv
<1>9. /\ body \in [Names -> Prog] /\ pending \in [Names -> BOOLEAN] /\ inrecalc \in [Names -> BOOLEAN]
      /\ cache \in [Names -> Values \cup {None}] /\ stack' \in Seq(Frame) /\ roster \in SUBSET Names
  BY DEF Inv, BindingsOK, FramesOK
<1>10. /\ \A k \in Names : k # n => pending'[k] = pending[k] /\ inrecalc'[k] = inrecalc[k] /\ cache'[k] = cache[k]
       /\ cache'[n] = x /\ ~pending'[n]
  BY <1>1, <1>4, <1>9
<1>11. AmendsOK(Rest) /\ RunsOK(Rest, pending', inrecalc') /\ AccsOK(Rest, body, Worth)
  <2> DEFINE pd2 == pending'
             ir2 == inrecalc'
  <2>1. /\ \A m \in Names : stack[Len(stack)].kind = "view" => m = stack[Len(stack)].name \/ pd2[m] = pending[m]
        /\ \A m \in Names : stack[Len(stack)].kind = "view" => m = stack[Len(stack)].name \/ ir2[m] = inrecalc[m]
    BY <1>2, <1>7, <1>10
  <2>2. stack[Len(stack)].kind = "view"
    BY <1>1, <1>2
  <2>3. AmendsOK(stack) /\ RunsOK(stack, pending, inrecalc) /\ AccsOK(stack, body, Worth)
    BY DEF WorthInv
  <2> HIDE DEF pd2, ir2
  <2>4. /\ AmendsOK(SubSeq(stack, 1, Len(stack) - 1))
        /\ RunsOK(SubSeq(stack, 1, Len(stack) - 1), pd2, ir2)
        /\ AccsOK(SubSeq(stack, 1, Len(stack) - 1), body, Worth)
    BY <1>1, <2>1, <2>2, <2>3, PopWorth
  <2>5. QED BY <2>4 DEF Rest, pd2, ir2
<1>12. /\ Rest \in Seq(Frame) /\ Len(Rest) = L - 1 /\ DOMAIN Rest = 1..(L - 1)
       /\ \A k \in 1..(L - 1) : Rest[k] = stack[k] /\ k \in DOMAIN stack
  BY <1>1, <1>2, SplitStack DEF Rest
<1>13. ASSUME Rest # <<>>
       PROVE  /\ L - 1 \in 1..(L - 1) /\ AtRead(Rest[Len(Rest)], n) /\ Rest[Len(Rest)] \in Frame
              /\ stack' = [Rest EXCEPT ![Len(Rest)] = Fed(Rest[Len(Rest)], x)]
  <2>1. Len(Rest) # 0
    BY <1>12, <1>13, EmptySeq
  <2>2. L - 1 \in 1..(L - 1) /\ L - 1 \in DOMAIN stack
    BY <1>2, <1>12, <2>1
  <2>3. AtRead(stack[L - 1], n)
    BY <1>1, <1>2, <1>7, <2>2 DEF RecalcInv, RecalcOK, ReadBelow
  <2>4. Rest[Len(Rest)] \in Frame
    BY <1>12, <1>13, SplitStack
  <2>5. QED BY <1>4, <1>12, <1>13, <2>2, <2>3, <2>4 DEF HandBack
<1>14. \A k \in DOMAIN stack' : stack'[k].kind # "amend"
  <2>1. CASE Rest = <<>>
    BY <1>4, <2>1 DEF HandBack
  <2>2. CASE Rest # <<>>
    <3> DEFINE r == Rest
               f == Fed(r[Len(r)], x)
    <3>1. f.kind = r[Len(r)].kind
      BY <1>5, <1>13, <2>2, FedFrame
    <3>2. stack' = [r EXCEPT ![Len(r)] = f]
      BY <1>13, <2>2
    <3>3. \A k \in DOMAIN r : r[k].kind # "amend"
      BY <1>8, <1>12
    <3> HIDE DEF r, f
    <3>4. QED BY <3>1, <3>2, <3>3
  <2>3. QED BY <2>1, <2>2
<1>15. \A k \in Names : Worth[k] = IF body[k] # <<>> THEN cache[k] ELSE val[k]
  BY <1>1, <1>8, WorthPlain DEF Worth
<1>16. \A k \in Names : Worth'[k] = IF body'[k] # <<>> THEN cache'[k] ELSE val'[k]
  BY <1>9, <1>14, WorthPlain DEF Worth
<1>17. Worth'[n] = x /\ \A k \in Names : k # n => Worth'[k] = Worth[k]
  BY <1>1, <1>3, <1>4, <1>10, <1>15, <1>16 DEF IsView
<1> DEFINE w2 == Worth'
<1>18. w2[n] = x /\ \A k \in Names : k # n => w2[k] = Worth[k]
  BY <1>17
<1> HIDE DEF w2
<1>19. AccsOK(Rest, body, w2)
  <2> SUFFICES ASSUME NEW k \in 1..(L - 1), stack[k].kind = "view" PROVE AccOK(stack[k], body, w2)
    BY <1>12 DEF AccsOK
  <2> DEFINE f == stack[k]
  <2>1. f \in Frame /\ f.kind = "view" /\ k \in DOMAIN stack
    BY <1>1, <1>2, <1>12, ElementOfSeq
  <2>2. AccOK(f, body, Worth) /\ HasRead(f, body, pending)
    BY <2>1 DEF WorthInv, AccsOK, RecalcInv, RecalcOK, ReadValid
  <2> HIDE DEF f
  <2>3. f.prog \in Prog /\ f.acc \in Seq(Values)
    BY <2>1 DEF Frame
  <2>4. ASSUME NEW j \in 1..Len(f.acc), f.name \notin Rests(body, f.name)
        PROVE  f.acc[j] = w2[f.prog[j].name]
    <3>1. Len(f.acc) \in Nat /\ Len(f.prog) \in Nat /\ DOMAIN f.prog = 1..Len(f.prog)
      BY <2>3, LenProperties DEF Prog
    <3>2. j \in DOMAIN f.prog /\ j < f.pc /\ f.prog[j].op = "read" /\ f.acc[j] = Worth[f.prog[j].name]
      BY <2>2, <2>4, <3>1 DEF AccOK
    <3>3. f.prog[j].name \in Names
      BY <2>3, <3>2, DepsTyped
    <3>4. f.prog[j].name # n
      BY <1>3, <1>6, <2>2, <2>4, <3>2 DEF HasRead, IsView
    <3>5. QED BY <1>18, <3>2, <3>3, <3>4
  <2>5. AccOK(f, body, w2)
    BY <2>2, <2>4 DEF AccOK
  <2>6. QED BY <2>5 DEF f
<1>20. AmendsOK(stack') /\ RunsOK(stack', pending', inrecalc') /\ AccsOK(stack', body, w2)
  <2>1. CASE Rest = <<>>
    <3>1. stack' = Rest
      BY <1>4, <2>1 DEF HandBack
    <3>2. QED BY <1>11, <1>19, <3>1
  <2>2. CASE Rest # <<>>
    <3> DEFINE r == Rest
               t == r[Len(r)]
               pd2 == pending'
               ir2 == inrecalc'
    <3>1. /\ r \in Seq(Frame) /\ r # <<>> /\ AtRead(t, n) /\ AmendsOK(r) /\ RunsOK(r, pd2, ir2)
          /\ AccsOK(r, body, w2) /\ stack' = [r EXCEPT ![Len(r)] = Fed(t, x)] /\ x = w2[n]
      BY <1>11, <1>12, <1>13, <1>18, <1>19, <2>2
    <3>2. t = r[Len(r)]
      OBVIOUS
    <3> HIDE DEF r, t, pd2, ir2
    <3>3. /\ AmendsOK([r EXCEPT ![Len(r)] = Fed(t, x)]) /\ RunsOK([r EXCEPT ![Len(r)] = Fed(t, x)], pd2, ir2)
          /\ AccsOK([r EXCEPT ![Len(r)] = Fed(t, x)], body, w2)
      BY <1>5, <3>1, <3>2, FeedWorth
    <3>4. QED BY <3>1, <3>3 DEF pd2, ir2
  <2>3. QED BY <2>1, <2>2
<1>21. SureOK(body, pending', roster, cache', w2, quiet)
  <2> SUFFICES ASSUME NEW m \in Names, Sure(m, body, pending', roster, quiet)
               PROVE  Computed(m, body, cache', w2)
    BY DEF SureOK
  <2>1. /\ m \in roster /\ body[m] # <<>> /\ ~pending'[m] /\ m \notin Rests(body, m)
        /\ body[m] \in Prog /\ Uses(body[m]) \subseteq Names /\ Uses(body[m]) = Deps(body[m])
    BY <1>9, DepsTyped DEF Sure
  <2>2. CASE m # n
    <3>1. Sure(m, body, pending, roster, quiet) /\ Valid(m)
      BY <1>10, <2>1, <2>2, RestsIsRestsOn DEF Sure, Valid, IsView
    <3>2. Computed(m, body, cache, Worth)
      BY <3>1 DEF WorthInv, SureOK
    <3>3. n \notin Uses(body[m])
      BY <1>3, <1>6, <2>1, <3>1 DEF PendingClosed
    <3>4. cache'[m] = cache[m] /\ \A k \in Uses(body[m]) : w2[k] = Worth[k]
      BY <1>10, <1>18, <2>1, <2>2, <3>3
    <3> DEFINE ca2 == cache'
    <3>5. ca2[m] = cache[m]
      BY <3>4
    <3> HIDE DEF ca2
    <3>6. Computed(m, body, ca2, w2)
      BY <2>1, <3>2, <3>4, <3>5, ComputedSame
    <3>7. QED BY <3>6 DEF ca2
  <2>3. CASE m = n
    <3> DEFINE b == Top.prog
               a == Top.acc
    <3>1. b = body[n] /\ b \in Prog /\ b \in Seq(Instr) /\ a \in Seq(Values) /\ Top.pc = Len(b) + 1 /\ x = Value(b, a)
      BY <1>1, <1>3, <1>7 DEF Frame, Prog
    <3>2. /\ Top.pc = Len(a) + 1
          /\ \A j \in 1..Len(a) : b[j].op = "read" /\ (n \in Rests(body, n) \/ a[j] = Worth[b[j].name])
      BY <1>6, <1>7 DEF AccOK
    <3> HIDE DEF a, b
    <3>3. Len(a) \in Nat /\ Len(b) \in Nat /\ Len(a) = Len(b) /\ DOMAIN b = 1..Len(b) /\ DOMAIN a = 1..Len(b)
      BY <3>1, <3>2, LenProperties
    <3>4. \A j \in 1..Len(b) : b[j].op = "read" /\ a[j] = Worth[b[j].name]
      BY <2>1, <2>3, <3>2, <3>3
    <3>5. \A j \in 1..Len(b) : b[j].name \in Uses(b)
      BY <3>1, <3>3, <3>4, DepsTyped
    <3>6. n \notin Uses(b) /\ Uses(b) \subseteq Names
      BY <2>1, <2>3, <3>1, RestsUses
    <3>7. \A j \in 1..Len(b) : a[j] = w2[b[j].name]
      BY <1>18, <3>4, <3>5, <3>6
    <3>8. a = [j \in 1..Len(b) |-> w2[b[j].name]]
      <4>1. a = [j \in 1..Len(a) |-> a[j]]
        BY <3>1
      <4>2. QED BY <3>3, <3>7, <4>1
    <3>9. \A j \in DOMAIN body[n] : body[n][j].op = "read"
      BY <3>1, <3>3, <3>4
    <3>10. cache'[n] = Value(body[n], [j \in 1..Len(body[n]) |-> w2[body[n][j].name]])
      BY <1>10, <3>1, <3>8
    <3>11. QED BY <2>3, <3>9, <3>10 DEF Computed
  <2>4. QED BY <2>2, <2>3
<1>22. CachedOK(body, pending', cache')
  <2> SUFFICES ASSUME NEW m \in Names, body[m] # <<>>, ~pending'[m] PROVE cache'[m] # None
    BY DEF CachedOK
  <2>1. QED BY <1>5, <1>10 DEF WorthInv, CachedOK
<1>23. quiet' = quiet
  BY DEF Recalculated
<1>24. QED BY <1>4, <1>20, <1>21, <1>22, <1>23 DEF WorthInv, w2

LEMMA StatementWorth ==
  ASSUME QuietAmends, Inv, Inv', WorthInv, Statement
  PROVE  WorthInv'
<1>1. PICK n \in Names : \/ \E x \in SetVals[n] : Set(n, x) \/ SetMember(n, x)
                         \/ \E b \in Bodies[n] : Define(n, b) \/ DefineUnlisted(n, b)
                         \/ \E p \in Amends[n] : Amend(n, p)
                         \/ Unbind(n) \/ Read(n)
  BY DEF Statement
<1>2. stack = <<>> /\ Idle
  BY <1>1 DEF Set, SetMember, Define, DefineUnlisted, Amend, Unbind, Read, Idle
<1>3. stack \in Seq(Frame) /\ stack' \in Seq(Frame) /\ DOMAIN stack = {}
  BY <1>2 DEF Inv, FramesOK
<1>4. ASSUME NEW x \in SetVals[n], Set(n, x) PROVE WorthInv'
  <2>1. x \in Values /\ Bind(n, x, stack)
    BY <1>4, ViewsAssumption DEF Set
  <2>2. QED BY <1>3, <2>1, BindWorth
<1>5. ASSUME NEW x \in SetVals[n], SetMember(n, x) PROVE WorthInv'
  <2>1. x \in Values
    BY ViewsAssumption
  <2>2. QED BY <1>5, <2>1, SetMemberWorth
<1>6. ASSUME NEW b \in Bodies[n], Define(n, b) \/ DefineUnlisted(n, b) PROVE WorthInv'
  <2>1. \/ BindView(n, b, roster \cup {n})
        \/ BindView(n, b, roster)
    BY <1>6 DEF Define, DefineUnlisted
  <2>2. QED BY <1>2, <2>1, BindViewWorth
<1>7. ASSUME NEW p \in Amends[n], Amend(n, p) PROVE WorthInv'
  <2> DEFINE f == AmendFrame(n, p)
  <2>1. /\ stack' = <<f>> /\ val' = [val EXCEPT ![n] = Null] /\ val[n] # None
        /\ UNCHANGED <<body, pending, inrecalc, cache, roster, quiet>>
    BY <1>7 DEF Amend, view
  <2>2. f.kind = "amend" /\ f.name = n /\ f.prog = p /\ f.saved = val[n]
    BY DEF AmendFrame
  <2> HIDE DEF f
  <2>3. stack' # <<>> /\ stack'[1] = f /\ DOMAIN stack' = {1} /\ Len(stack') = 1
    BY <2>1
  <2>4. \A k \in Names : Worth'[k] = Worth[k]
    <3> SUFFICES ASSUME NEW k \in Names PROVE Worth'[k] = Worth[k]
      OBVIOUS
    <3>1. Worth[k] = IF body[k] # <<>> THEN cache[k] ELSE val[k]
      BY <1>2 DEF Worth, WorthOf
    <3>2. Worth'[k] = IF body'[k] # <<>> THEN cache'[k] ELSE IF n = k THEN val[n] ELSE val'[k]
      BY <2>2, <2>3 DEF Worth, WorthOf
    <3>3. k # n => val'[k] = val[k]
      BY <2>1 DEF Inv, BindingsOK
    <3>4. QED BY <2>1, <3>1, <3>2, <3>3
  <2>5. Worth' = Worth
    BY <2>4 DEF Worth, WorthOf
  <2>6. AmendsOK(stack')
    BY <2>2, <2>3 DEF AmendsOK, QuietAmends
  <2>7. RunsOK(stack', pending', inrecalc') /\ AccsOK(stack', body', Worth')
    BY <2>2, <2>3 DEF RunsOK, AccsOK
  <2>8. QED BY <2>1, <2>5, <2>6, <2>7, SteadyWorth
<1>8. ASSUME Unbind(n) PROVE WorthInv'
  BY <1>8, UnbindWorth
<1>9. ASSUME Read(n) PROVE WorthInv'
  <2>1. IsView(n) /\ Deref(n, stack) /\ UNCHANGED <<val, body, pending, cache, roster, quiet>>
    BY <1>9 DEF Read
  <2>2. ASSUME stack' = stack, inrecalc' = inrecalc PROVE WorthInv'
    <3>1. Worth' = Worth
      BY <2>1, <2>2 DEF Worth
    <3>2. QED BY <2>1, <2>2, <3>1, SteadyWorth DEF WorthInv
  <2>3. QED BY <1>3, <2>1, <2>2, DerefWorth
<1>10. QED BY <1>1, <1>4, <1>5, <1>6, <1>7, <1>8, <1>9

LEMMA EvalWorth ==
  ASSUME PureBodies, QuietAmends, ValueTyped, Inv, Inv', RecalcInv, PendingClosed, WorthInv, Eval
  PROVE  WorthInv'
<1>0. stack \in Seq(Frame) /\ stack' \in Seq(Frame)
      /\ AmendsOK(stack) /\ RunsOK(stack, pending, inrecalc) /\ AccsOK(stack, body, Worth)
  BY DEF Inv, FramesOK, WorthInv
<1>1. CASE ReadValue
  <2>1. /\ Doing("read") /\ ~IsView(Cur.name)
        /\ UNCHANGED <<val, body, pending, inrecalc, cache, roster, quiet>>
    BY <1>1 DEF ReadValue, view
  <2>2. CASE stack' = stack
    <3>1. Worth' = Worth
      BY <2>1, <2>2 DEF Worth
    <3>2. QED BY <1>0, <2>1, <2>2, <3>1, SteadyWorth
  <2>3. CASE val[Cur.name] # None /\ stack' = Took(val[Cur.name])
    <3> DEFINE m == Cur.name
    <3>1. m \in Names /\ stack # <<>> /\ Top = stack[Len(stack)]
      BY <2>1, CurTyped DEF Doing, Top
    <3>2. val[m] \in Values
      BY <2>3, <3>1 DEF Inv, BindingsOK
    <3>3. ASSUME Top.kind = "view" PROVE val[m] = Worth[m]
      <4>1. \A k \in DOMAIN stack : stack[k].kind # "amend"
        BY <1>0, <3>1, <3>3, AmendTop
      <4>2. QED BY <1>0, <2>1, <3>1, <4>1, WorthPlain DEF Worth, IsView
    <3>4. QED BY <2>1, <2>3, <3>2, <3>3, TookWorth
  <2>4. QED BY <1>1, <2>2, <2>3 DEF ReadValue
<1>2. CASE ReadView
  <2> DEFINE m == Cur.name
             got == Took(cache[m])
  <2>1. /\ Doing("read") /\ IsView(m) /\ Deref(m, got)
        /\ UNCHANGED <<val, body, pending, cache, roster, quiet>>
    BY <1>2 DEF ReadView
  <2>2. m \in Names /\ stack # <<>> /\ Top \in Frame /\ Top = stack[Len(stack)] /\ AtRead(Top, m)
    BY <2>1, CurTyped DEF Doing, Top, AtRead, Cur
  <2>3. Top.kind # "amend"
    <3> SUFFICES ASSUME Top.kind = "amend" PROVE FALSE
      OBVIOUS
    <3>1. Len(stack) \in DOMAIN stack
      BY <1>0, <2>2, SplitStack
    <3>2. QuietProg(Top.prog)
      BY <1>0, <2>2, <3>1 DEF AmendsOK
    <3>3. Bodies[m] = {}
      BY <2>2, <3>2 DEF QuietProg, AtRead
    <3>4. QED BY <2>1, <2>2, <3>3 DEF Inv, BindingsOK, IsView
  <2>4. \A k \in DOMAIN stack : stack[k].kind # "amend"
    BY <1>0, <2>2, <2>3, AmendTop
  <2>5. cache[m] # None => cache[m] \in Values
    BY <2>2 DEF Inv, BindingsOK
  <2>6. Worth[m] = cache[m]
    BY <2>1, <2>2 DEF Worth, WorthOf, IsView
  <2>7. cache[m] # None /\ stack' = got /\ inrecalc' = inrecalc => WorthInv'
    BY <2>1, <2>5, <2>6, TookWorth
  <2> HIDE DEF m, got
  <2>8. QED BY <2>1, <2>2, <2>4, <2>7, DerefWorth
<1>3. CASE Write
  <2>1. Doing("write") /\ Running /\ Top.pc \in DOMAIN Top.prog /\ Cur.op = "write"
    BY <1>3 DEF Write, Doing
  <2>2. /\ Cur.name \in Names /\ Cur.val \in Values /\ stack # <<>> /\ Top \in Frame
    BY <2>1, CurTyped
  <2>3. Len(stack) \in DOMAIN stack /\ Top = stack[Len(stack)] /\ DOMAIN stack = 1..Len(stack)
    BY <1>0, <2>2, SplitStack DEF Top
  <2>4. Top.kind # "view"
    BY <2>1, <2>3, ViewFrames DEF Cur
  <2>5. Top.kind # "amend"
    BY <1>0, <2>1, <2>3 DEF AmendsOK, QuietProg, Cur
  <2>6. \A k \in DOMAIN stack : stack[k].kind \notin {"view", "amend"}
    BY <1>0, <2>2, <2>3, <2>4, <2>5, TopNotView, AmendTop
  <2> DEFINE f == Stepped(Top)
             s == Append(Rest, f)
  <2>7. f \in Frame /\ f.kind = Top.kind
    <3> DEFINE t == Top
    <3>1. t \in Frame /\ f = Stepped(t)
      BY <2>2
    <3> HIDE DEF t, f
    <3>2. QED BY <3>1, FrameMoves DEF t
  <2>8. Bind(Cur.name, Cur.val, s)
    BY <1>3 DEF Write, Stepped
  <2> HIDE DEF f
  <2>9. s \in Seq(Frame) /\ s = [stack EXCEPT ![Len(stack)] = f]
    BY <1>0, <2>2, <2>7, Replace DEF Rest
  <2>10. \A k \in DOMAIN s : s[k].kind \notin {"view", "amend"}
    BY <2>3, <2>6, <2>7, <2>9
  <2> HIDE DEF s
  <2>11. QED BY <2>2, <2>6, <2>8, <2>9, <2>10, BindWorth
<1>4. CASE Fail \/ AmendFails
  <2>1. UNCHANGED <<val, body, pending, inrecalc, cache, roster, stack, quiet>>
    BY <1>4 DEF Fail, AmendFails, view
  <2>2. Worth' = Worth
    BY <2>1 DEF Worth
  <2>3. QED BY <1>0, <2>1, <2>2, SteadyWorth
<1>5. CASE Recalculated
  BY <1>5, RecalculatedWorth
<1>6. CASE HookEnds \/ (Unwind /\ stack # <<>>)
  <2>1. /\ stack # <<>> /\ stack' = Rest /\ UNCHANGED <<body, pending, cache, roster, quiet>>
        /\ Top = stack[Len(stack)]
        /\ val' = IF Top.kind = "amend" THEN [val EXCEPT ![Top.name] = Top.saved] ELSE val
        /\ inrecalc' = IF Top.kind = "view" /\ Top.live
                       THEN [inrecalc EXCEPT ![Top.name] = FALSE] ELSE inrecalc
    BY <1>6 DEF HookEnds, Ended, Running, Unwind, view, Top
  <2>2. Top \in Frame /\ Top.name \in Names
    BY <1>0, <2>1, SplitStack DEF Frame
  <2>3. Top.kind # "view" => \A k \in DOMAIN stack : stack[k].kind # "view"
    BY <2>1, TopNotView
  <2>4. \A m \in Names : m = Top.name \/ inrecalc'[m] = inrecalc[m]
    BY <2>1, <2>2 DEF Inv, BindingsOK
  <2>5. AmendsOK(Rest) /\ RunsOK(Rest, pending, inrecalc') /\ AccsOK(Rest, body, Worth)
    <3> DEFINE ir2 == inrecalc'
    <3>1. \A m \in Names : m = stack[Len(stack)].name \/ ir2[m] = inrecalc[m]
      BY <2>1, <2>4
    <3> HIDE DEF ir2
    <3>2. stack[Len(stack)].kind # "view" => \A k \in DOMAIN stack : stack[k].kind # "view"
      BY <2>1, <2>3
    <3>3. /\ AmendsOK(SubSeq(stack, 1, Len(stack) - 1)) /\ RunsOK(SubSeq(stack, 1, Len(stack) - 1), pending, ir2)
          /\ AccsOK(SubSeq(stack, 1, Len(stack) - 1), body, Worth)
      BY <1>0, <2>1, <3>1, <3>2, PopWorth
    <3>4. QED BY <3>3 DEF Rest, ir2
  <2>6. Worth' = Worth
    <3>1. CASE Top.kind # "amend"
      <4>1. WorthOf(Rest, body, cache, val) = WorthOf(stack, body, cache, val)
        BY <1>0, <2>1, <3>1, RestWorth DEF Rest
      <4>2. QED BY <2>1, <3>1, <4>1 DEF Worth
    <3>2. CASE Top.kind = "amend"
      <4>1. Len(stack) = 1 /\ stack[1] = Top
        BY <1>0, <2>1, <3>2, AmendTop
      <4>2. stack' = <<>>
        BY <1>0, <2>1, <4>1 DEF Rest
      <4>3. \A k \in Names : Worth'[k] = IF body'[k] # <<>> THEN cache'[k] ELSE val'[k]
        BY <4>2 DEF Worth, WorthOf
      <4>4. \A k \in Names : Worth[k] = IF body[k] # <<>> THEN cache[k]
                                        ELSE IF Top.name = k THEN Top.saved ELSE val[k]
        BY <2>1, <3>2, <4>1 DEF Worth, WorthOf
      <4>5. \A k \in Names : val'[k] = IF Top.name = k THEN Top.saved ELSE val[k]
        BY <2>1, <3>2 DEF Inv, BindingsOK
      <4>6. \A k \in Names : Worth'[k] = Worth[k]
        BY <2>1, <4>3, <4>4, <4>5
      <4>7. QED BY <4>6 DEF Worth, WorthOf
    <3>3. QED BY <3>1, <3>2
  <2>7. QED BY <2>1, <2>5, <2>6, SteadyWorth
<1>7. CASE Unwind /\ stack = <<>>
  <2>1. UNCHANGED <<val, body, pending, inrecalc, cache, roster, stack, quiet>>
    BY <1>7 DEF Unwind, view
  <2>2. Worth' = Worth
    BY <2>1 DEF Worth
  <2>3. QED BY <1>0, <2>1, <2>2, SteadyWorth
<1>8. ASSUME NEW x \in Values, AmendSettles(x) PROVE WorthInv'
  <2>1. Running /\ Top.kind = "amend" /\ Bind(Top.name, x, Rest)
    BY <1>8 DEF AmendSettles, Ended
  <2>2. stack # <<>> /\ Top \in Frame /\ Top.name \in Names /\ Top = stack[Len(stack)]
    BY <2>1, CurTyped DEF Frame, Top
  <2>3. Len(stack) = 1 /\ DOMAIN stack = {1}
    BY <1>0, <2>1, <2>2, AmendTop
  <2>4. Rest \in Seq(Frame) /\ DOMAIN Rest = {}
    BY <1>0, <2>2, <2>3, SplitStack DEF Rest
  <2>5. \A k \in DOMAIN stack : stack[k].name = Top.name
    BY <2>2, <2>3
  <2>6. QED BY <2>1, <2>2, <2>4, <2>5, BindWorth
<1>9. ASSUME NEW x \in Values, AmendLost(x) PROVE WorthInv'
  <2>1. /\ Running /\ Top.kind = "amend" /\ val' = [val EXCEPT ![Top.name] = x]
        /\ stack' = Rest /\ quiet' = quiet \cup {Top.name}
        /\ UNCHANGED <<body, pending, inrecalc, cache, roster>>
    BY <1>9 DEF AmendLost, Ended, view
  <2>2. stack # <<>> /\ Top \in Frame /\ Top.name \in Names /\ Top = stack[Len(stack)]
    BY <2>1, CurTyped DEF Frame, Top
  <2>3. Len(stack) = 1 /\ DOMAIN stack = {1} /\ stack[1] = Top
    BY <1>0, <2>1, <2>2, AmendTop
  <2>4. Rest = <<>> /\ DOMAIN Rest = {}
    BY <1>0, <2>2, <2>3, SplitStack DEF Rest
  <2>5. \A k \in Names : k # Top.name => Worth'[k] = Worth[k]
    BY <2>1, <2>2, <2>3, <2>4 DEF Worth, WorthOf, Inv, BindingsOK
  <2>6. SureOK(body', pending', roster', cache', Worth', quiet')
    BY <2>1, <2>5, QuietWorth DEF Inv, BindingsOK
  <2>7. CachedOK(body', pending', cache')
    BY <2>1 DEF WorthInv
  <2>8. AmendsOK(stack') /\ RunsOK(stack', pending', inrecalc') /\ AccsOK(stack', body', Worth')
    BY <2>1, <2>4, PlainFrames
  <2>9. QED BY <2>6, <2>7, <2>8 DEF WorthInv
<1>10. QED BY <1>1, <1>2, <1>3, <1>4, <1>5, <1>6, <1>7, <1>8, <1>9 DEF Eval

(* The values at the start, after the runtime is torn down, and after a step. *)
LEMMA NoViewsWorth ==
  ASSUME NEW st, NEW bd, NEW pd, NEW ir, NEW ro, NEW ca, NEW w, NEW qu, st = <<>>, \A n \in Names : bd[n] = <<>>
  PROVE  /\ AmendsOK(st) /\ CachedOK(bd, pd, ca) /\ RunsOK(st, pd, ir)
         /\ AccsOK(st, bd, w) /\ SureOK(bd, pd, ro, ca, w, qu)
<1>1. DOMAIN st = {}
  OBVIOUS
<1>2. AmendsOK(st) /\ RunsOK(st, pd, ir) /\ AccsOK(st, bd, w)
  BY <1>1, PlainFrames
<1>3. CachedOK(bd, pd, ca) /\ SureOK(bd, pd, ro, ca, w, qu)
  BY DEF CachedOK, SureOK, Sure
<1>4. QED BY <1>2, <1>3

LEMMA InitWorth == Init => WorthInv
<1> SUFFICES ASSUME Init PROVE WorthInv
  OBVIOUS
<1>1. stack = <<>> /\ \A n \in Names : body[n] = <<>>
  BY DEF Init
<1>2. QED BY <1>1, NoViewsWorth DEF WorthInv

LEMMA StepWorth ==
  ASSUME ValueTyped, PureBodies, QuietAmends, Inv, Inv', RecalcInv, PendingClosed, WorthInv, [Next]_vars
  PROVE  WorthInv'
<1>1. CASE Reset
  <2>1. stack' = <<>> /\ \A n \in Names : body'[n] = <<>>
    BY <1>1 DEF Reset, Idle
  <2>2. QED BY <2>1, NoViewsWorth DEF WorthInv
<1>2. CASE UNCHANGED vars
  <2>1. UNCHANGED <<val, body, pending, inrecalc, roster, cache, stack, quiet>>
    BY <1>2 DEF vars, view
  <2>2. Worth' = Worth
    BY <2>1 DEF Worth
  <2>3. AmendsOK(stack') /\ RunsOK(stack', pending', inrecalc') /\ AccsOK(stack', body', Worth')
    BY <2>1, <2>2 DEF WorthInv
  <2>4. QED BY <2>1, <2>2, <2>3, SteadyWorth
<1>3. QED BY <1>1, <1>2, StatementWorth, EvalWorth DEF Next

(* The places of the reads of an expression that only reads.                  *)
LEMMA ReadsInOrder ==
  ASSUME NEW b \in Prog, \A j \in DOMAIN b : b[j].op = "read"
  PROVE  Cardinality(Reads(b)) = Len(b) /\ \A i \in 1..Len(b) : ReadAt(b, i) = i
<1>1. Len(b) \in Nat /\ DOMAIN b = 1..Len(b)
  BY LenProperties DEF Prog
<1>2. Reads(b) = 1..Len(b)
  BY <1>1 DEF Reads
<1>3. \A j \in 1..Len(b) : Cardinality({k \in Reads(b) : k <= j}) = j
  <2>1. ASSUME NEW j \in 1..Len(b) PROVE Cardinality({k \in Reads(b) : k <= j}) = j
    <3>1. {k \in Reads(b) : k <= j} = 1..j
      BY <1>1, <1>2
    <3>2. j \in Int /\ ~(1 > j)
      BY <1>1
    <3>3. Cardinality(1..j) = IF 1 > j THEN 0 ELSE j - 1 + 1
      BY <3>2, FS_Interval
    <3>4. Cardinality(1..j) = j
      BY <3>2, <3>3
    <3>5. QED BY <3>1, <3>4
  <2>2. QED BY <2>1
<1>4. Cardinality(Reads(b)) = Len(b)
  <2>1. Cardinality(1..Len(b)) = IF 1 > Len(b) THEN 0 ELSE Len(b) - 1 + 1
    BY <1>1, FS_Interval
  <2>2. QED BY <1>1, <1>2, <2>1
<1>5. ASSUME NEW i \in 1..Len(b) PROVE ReadAt(b, i) = i
  <2> DEFINE P(j) == Cardinality({k \in Reads(b) : k <= j}) = i
  <2>1. \A j \in Reads(b) : P(j) <=> j = i
    BY <1>2, <1>3
  <2>2. i \in Reads(b)
    BY <1>2
  <2> HIDE DEF P
  <2>3. (CHOOSE j \in Reads(b) : P(j)) = i
    BY <2>1, <2>2
  <2>4. QED BY <2>3 DEF ReadAt, P
<1>6. QED BY <1>4, <1>5

(* The invariant gives Fresh.                                                 *)
LEMMA WorthFresh == ASSUME Inv, WorthInv PROVE Fresh
<1> SUFFICES ASSUME ~Parked, NEW n \in Names, Valid(n), Reached(n), Deps(body[n]) \cap quiet = {}
             PROVE  FreshView(n)
  BY DEF Fresh
<1> DEFINE b == body[n]
<1>1. b \in Prog /\ body \in [Names -> Prog] /\ stack \in Seq(Frame)
  BY DEF Inv, BindingsOK, FramesOK
<1>2. Sure(n, body, pending, roster, quiet)
  BY RestsIsRestsOn DEF Sure, Valid, Reached, IsView
<1>3. Computed(n, body, cache, Worth)
  BY <1>2 DEF WorthInv, SureOK
<1>4. \A j \in DOMAIN b : b[j].op = "read"
  BY <1>3 DEF Computed
<1>5. cache[n] = Value(b, [i \in 1..Len(b) |-> Worth[b[i].name]])
  BY <1>3 DEF Computed
<1>6. \A k \in Names : Worth[k] = Now(k)
  <2>1. \A k \in DOMAIN stack : stack[k].kind # "amend"
    BY DEF Parked
  <2>2. QED BY <1>1, <2>1, WorthPlain DEF Worth, Now, IsView
<1> HIDE DEF b
<1>7. \A i \in 1..Len(b) : b[i].name \in Names
  <2>1. \A i \in 1..Len(b) : b[i] \in Instr
    BY <1>1, ElementOfSeq DEF Prog
  <2>2. QED BY <2>1 DEF Instr
<1>8. Cardinality(Reads(b)) = Len(b) /\ \A i \in 1..Len(b) : ReadAt(b, i) = i
  BY <1>1, <1>4, ReadsInOrder
<1>9. [i \in 1..Cardinality(Reads(b)) |-> Now(b[ReadAt(b, i)].name)]
        = [i \in 1..Len(b) |-> Worth[b[i].name]]
  BY <1>6, <1>7, <1>8
<1>10. cache[n] = Value(b, [i \in 1..Cardinality(Reads(b)) |-> Now(b[ReadAt(b, i)].name)])
  BY <1>5, <1>9
<1>11. QED BY <1>10 DEF FreshView, b

(* Where the expressions of views assign nothing and amends neither assign nor *)
(* run a view: however sets, redefinitions, deletions, hooks, amends, reads    *)
(* and failures interleave and nest, the cache of a listed view that is not    *)
(* pending is the value its expression has now (view_recalc's early return,    *)
(* with mark_dependents at every set), unless it rests on itself, on a view    *)
(* the roster lost or on what a function uses, or names a name whose last      *)
(* change no view was told of (a member set, an amend lost for memory).        *)
THEOREM FreshCorrect == ASSUME ValueTyped, PureBodies, QuietAmends PROVE Spec => []Fresh
<1> DEFINE I == Inv /\ RecalcInv /\ PendingClosed /\ WorthInv
<1>1. Init => I
  BY MarksInit, InitWorth
<1>2. I /\ [Next]_vars => I'
  BY MarksStep, StepWorth
<1>3. I => Fresh
  BY WorthFresh
<1>4. QED BY <1>1, <1>2, <1>3, PTL DEF Spec
===============================================================================
