------------------------------ MODULE IpcProofs ------------------------------
(***************************************************************************)
(* The theorems about Ipc, for any number of connections, of operations    *)
(* and of what peers do: a connection is closed once, a synchronous call   *)
(* takes its own answer, a blocked peer is never forgotten, and a response *)
(* goes where it does not belong only for the two causes `misled` names.   *)
(***************************************************************************)
EXTENDS Ipc, FiniteSetTheorems, SequenceTheorems, WellFoundedInduction, TLAPS

Phases == {"none", "hs", "open", "closing", "closed"}
CD == [st : Phases, ptr : 0..MaxConn, wait : BOOLEAN, ready : BOOLEAN, bad : BOOLEAN,
       resp : 0..MaxOps, seq : Nat, cur : Nat, dseq : Nat, drep : BOOLEAN,
       slip : BOOLEAN]
Message == [t : {"creds", "sync", "badsync", "async", "badasync", "badhdr"}]
           \cup [t : {"resp", "badresp"}, n : 1..MaxOps]
Frame == [k : {"ev"}, id : Slots, hup : BOOLEAN] \cup [k : {"tm"}]
         \cup [k : {"po", "pc"}, id : Slots, c : Conns]
         \cup [k : {"pay"}, id : Slots, c : Conns, ptr : 0..MaxConn, n : Nat, prev : Nat]
         \cup [k : {"bm"}, id : Slots, c : Conns, ptr : 0..MaxConn, n : Nat, resp : {FALSE}]
         \cup [k : {"bm"}, id : Slots, c : Conns, ptr : 0..MaxConn, n : {0}, resp : {TRUE}]
         \cup [k : {"wait"}, id : Slots, c : Conns, ptr : 0..MaxConn, n : 1..MaxOps]

----------------------------------------------------------------------------
(* The invariant.                                                          *)

(* Of slots s and records d: a connection that is not closed has a slot of *)
(* its own, and only one that has been opened waits.                       *)
LiveIn(d, c) == d[c].st \in {"hs", "open", "closing"}
TableOK(s, d) ==
    /\ s \in [Slots -> Conns \cup {None}] /\ d \in [Conns -> CD]
    /\ \A i, j \in Slots : s[i] = s[j] /\ s[i] # None => i = j
    /\ \A c \in Conns : LiveIn(d, c) <=> \E i \in Slots : s[i] = c
    /\ \A c \in Conns : /\ d[c].ready => d[c].wait
                        /\ d[c].wait => d[c].st \in {"open", "closing"}

(* Of the stack st: an activation of a connection that is not closed has   *)
(* its slot; two that name one slot are of one connection if the older's   *)
(* is not closed; and a connection is being closed while its .z.pc runs,   *)
(* with nothing above it on its slot.                                      *)
HasConn(f) == f.k \in {"po", "pc", "pay", "bm", "wait"}
HomesOK(st, s, d) ==
    /\ st \in Seq(Frame)
    /\ \A j \in DOMAIN st : HasConn(st[j]) =>
         /\ d[st[j].c].st \notin {"none", "hs"}
         /\ LiveIn(d, st[j].c) => s[st[j].id] = st[j].c
         /\ st[j].k \in {"pay", "bm", "wait"} => st[j].ptr = d[st[j].c].ptr
         /\ st[j].k = "pc" => d[st[j].c].st = "closing"
    /\ \A i, j \in DOMAIN st :
         /\ i < j /\ st[i].k = "pc" /\ st[j].k # "tm" => st[j].id # st[i].id
         /\ i < j /\ HasConn(st[i]) /\ HasConn(st[j]) /\ LiveIn(d, st[i].c) /\ st[i].id = st[j].id
              => st[i].c = st[j].c
    /\ \A c \in Conns : d[c].st = "closing" => \E j \in DOMAIN st : st[j].k = "pc" /\ st[j].c = c

(* The activations of connection c that keep a request or an answer.       *)
At(st, c) == {j \in DOMAIN st : st[j].k \in {"wait", "pay", "bm"} /\ st[j].c = c}
Waiters(st, c)  == {j \in At(st, c) : st[j].k = "wait"}
Reqs(st, c)     == {j \in At(st, c) : st[j].k \in {"pay", "bm"}}
Pays(st, c)     == {j \in At(st, c) : st[j].k = "pay"}
BadResps(st, c) == {j \in At(st, c) : st[j].k = "bm" /\ st[j].resp}
Resps(q) == {i \in DOMAIN q : q[i].t \in {"resp", "badresp"}}

(* Of connection c with record r: it waits while one call waits on it.     *)
WaitOK(c, r, st) ==
    /\ \A i, j \in Waiters(st, c) : i = j
    /\ r.st = "open" => (r.wait <=> Waiters(st, c) # {})

(* With the queue q and the unanswered calls a: one answer at most is      *)
(* under way, in one place, and it answers the call that waits; where no   *)
(* call gave up, that is.                                                  *)
Straight(c, r, q, a, st) ==
    /\ ~r.wait => a = <<>> /\ Resps(q) = {} /\ BadResps(st, c) = {}
    /\ \A j \in Waiters(st, c) :
         /\ \A i \in DOMAIN a : a[i] = st[j].n
         /\ \A i \in Resps(q) : q[i].n = st[j].n
         /\ r.ready => r.bad \/ r.resp = st[j].n
    /\ Len(a) <= 1 /\ (\A i, j \in Resps(q) : i = j) /\ (\A i, j \in BadResps(st, c) : i = j)
    /\ a # <<>> => Resps(q) = {} /\ BadResps(st, c) = {} /\ ~r.ready
    /\ Resps(q) # {} => BadResps(st, c) = {} /\ ~r.ready
    /\ BadResps(st, c) # {} => ~r.ready
AnsOK(c, r, q, a, st) == ~r.slip => Straight(c, r, q, a, st)

(* With w the request its peer is blocked on: numbers of requests do not   *)
(* pass the last one read, but for the one that is not read yet; and the   *)
(* peer is blocked on what is unread, on the stack or owed.                *)
NumOK(c, r, q, w, st) ==
    /\ r.cur <= r.seq /\ r.dseq <= r.seq
    /\ \A j \in Reqs(st, c) : st[j].n <= r.seq
    /\ \A j \in Pays(st, c) : st[j].prev <= r.seq
    /\ \A i, j \in SyncsIn(q) : i = j
    /\ SyncsIn(q) # {} => w = r.seq + 1
    /\ SyncsIn(q) = {} => w <= r.seq
    /\ r.dseq # 0 /\ r.drep => r.dseq # w
    /\ w # 0 /\ SyncsIn(q) = {} =>
         (\E j \in Reqs(st, c) : st[j].n = w) \/ (r.dseq = w /\ ~r.drep)

(* What is replied is what the peer is blocked on: a request on the stack  *)
(* is the peer's or was answered by handle, a deferral not yet answered is *)
(* the peer's, and cur_sync_seq and its saved values are of the stack.     *)
RepOK(c, r, w, st) ==
    /\ \A i, j \in Reqs(st, c) : st[i].n = st[j].n /\ st[i].n # 0 => i = j
    /\ r.cur # 0 => \E j \in Pays(st, c) : st[j].n = r.cur
    /\ \A i \in Pays(st, c) : st[i].prev # 0 => \E j \in Pays(st, c) : j < i /\ st[j].n = st[i].prev
    /\ \A j \in Pays(st, c) : st[j].n # 0 => w = st[j].n \/ (r.dseq = st[j].n /\ r.drep)
    /\ \A j \in Reqs(st, c) : st[j].k = "bm" /\ st[j].n # 0 => w = st[j].n /\ r.dseq # st[j].n
    /\ r.dseq # 0 /\ ~r.drep => w = r.dseq

(* What has not opened has sent nothing but its credentials.               *)
NewOK(r, q, a, w, m) ==
    /\ r.st = "none" => q = <<>> /\ a = <<>> /\ w = 0
    /\ r.st = "hs" => /\ \A i \in DOMAIN q : q[i].t = "creds"
                      /\ a = <<>> /\ w = 0
                      /\ "address" \notin m => r.seq = 0 /\ r.cur = 0 /\ r.dseq = 0

ConnOK(c, r, q, a, w, st, m) ==
    /\ WaitOK(c, r, st) /\ NewOK(r, q, a, w, m)
    /\ r.st = "open" => /\ AnsOK(c, r, q, a, st)
                        /\ "address" \notin m => NumOK(c, r, q, w, st)
                        /\ m = {} => RepOK(c, r, w, st)

NetOK(q, a, w) ==
    /\ q \in [Conns -> Seq(Message)] /\ a \in [Conns -> Seq(1..MaxOps)] /\ w \in [Conns -> Nat]

(* The rest: the batch, the counters and what has gone wrong.              *)
RestOK ==
    /\ hung \in [Conns -> BOOLEAN]
    /\ ops \in 0..MaxOps /\ env \in 0..MaxPeer /\ backlog \in 0..env
    /\ evs \in Seq([id : Slots \cup {Listener}, hup : BOOLEAN])
    /\ \A i, j \in DOMAIN evs : evs[i].id = evs[j].id => i = j
    /\ \A i \in DOMAIN evs : evs[i].id = Listener => backlog > 0
    /\ stray \in BOOLEAN /\ misled \in SUBSET {"address", "deferral"}
    /\ stray => misled # {}

ConnsOK == \A c \in Conns : ConnOK(c, cds[c], inq[c], asks[c], waits[c], stack, misled)

Inv ==
    /\ TableOK(sels, cds) /\ HomesOK(stack, sels, cds)
    /\ NetOK(inq, asks, waits) /\ RestOK /\ ConnsOK

----------------------------------------------------------------------------
(* The stack.                                                              *)

(* st2 is st with one more activation, f.                                  *)
On(st, st2, f, L) ==
    /\ st \in Seq(Frame) /\ st2 \in Seq(Frame) /\ f \in Frame /\ L \in Nat
    /\ DOMAIN st = 1..L /\ DOMAIN st2 = 1..(L + 1) /\ L + 1 \notin DOMAIN st
    /\ st2[L + 1] = f /\ \A j \in DOMAIN st : j \in DOMAIN st2 /\ st2[j] = st[j] /\ j < L + 1
    /\ \A j \in DOMAIN st2 : j \in DOMAIN st \/ j = L + 1

LEMMA PushOn ==
  ASSUME NEW st \in Seq(Frame), NEW f \in Frame
  PROVE  On(st, Append(st, f), f, Len(st))
<1> DEFINE L == Len(st)
           s == Append(st, f)
<1>1. /\ s \in Seq(Frame) /\ DOMAIN st = 1..L /\ L \in Nat /\ DOMAIN s = 1..(L + 1)
      /\ s[L + 1] = f /\ \A j \in 1..L : s[j] = st[j]
  OBVIOUS
<1> HIDE DEF L, s
<1>2. QED BY <1>1 DEF On, L, s

LEMMA PopOn ==
  ASSUME NEW st \in Seq(Frame), st # <<>>
  PROVE  On(SubSeq(st, 1, Len(st) - 1), st, st[Len(st)], Len(st) - 1)
<1> DEFINE L == Len(st)
           s == SubSeq(st, 1, L - 1)
<1>1. L \in Nat /\ L >= 1 /\ DOMAIN st = 1..L /\ \A k \in 1..L : st[k] \in Frame
  BY EmptySeq, LenProperties, ElementOfSeq
<1>2. \A k \in 1..(L - 1) : st[k] \in Frame
  BY <1>1
<1>3. /\ s \in Seq(Frame)
      /\ Len(s) = IF 1 <= L - 1 THEN L - 1 - 1 + 1 ELSE 0
      /\ \A k \in 1..(L - 1 - 1 + 1) : s[k] = st[1 + k - 1]
  BY <1>1, <1>2, SubSeqProperties
<1>4. Len(s) = L - 1 /\ \A k \in 1..(L - 1) : s[k] = st[k]
  BY <1>1, <1>3
<1>5. DOMAIN s = 1..(L - 1) /\ L - 1 \in Nat /\ (L - 1) + 1 = L
  BY <1>1, <1>3, <1>4, LenProperties
<1> HIDE DEF L, s
<1>6. QED BY <1>1, <1>3, <1>4, <1>5 DEF On, L, s

(* The part of the stack that ConnOK of x looks at.                        *)
Keeps(f, x) == f.k \in {"wait", "pay", "bm"} /\ f.c = x
Aside(st, st2, x) == At(st2, x) = At(st, x) /\ \A j \in At(st, x) : st2[j] = st[j]

LEMMA OnAside ==
  ASSUME NEW st, NEW st2, NEW f, NEW L, NEW x, On(st, st2, f, L), ~Keeps(f, x)
  PROVE  Aside(st, st2, x) /\ Aside(st2, st, x)
  BY DEF On, Keeps, Aside, At

LEMMA OnKept ==
  ASSUME NEW st, NEW st2, NEW f, NEW L, NEW x, On(st, st2, f, L), Keeps(f, x)
  PROVE  /\ At(st2, x) = At(st, x) \cup {L + 1} /\ L + 1 \notin At(st, x) /\ st2[L + 1] = f
         /\ \A j \in At(st, x) : st2[j] = st[j] /\ j < L + 1
  BY DEF On, Keeps, At

(* The kinds of activations in an unchanged part.                          *)
LEMMA AsideKinds ==
  ASSUME NEW st, NEW st2, NEW x, Aside(st, st2, x)
  PROVE  /\ Waiters(st2, x) = Waiters(st, x) /\ Reqs(st2, x) = Reqs(st, x)
         /\ Pays(st2, x) = Pays(st, x) /\ BadResps(st2, x) = BadResps(st, x)
         /\ \A j \in Waiters(st, x) \cup Reqs(st, x) \cup Pays(st, x) : st2[j] = st[j]
  BY DEF Aside, Waiters, Reqs, Pays, BadResps

LEMMA AsideOK ==
  ASSUME NEW x, NEW r, NEW q, NEW a, NEW w, NEW st, NEW st2, NEW m, NEW m2,
         ConnOK(x, r, q, a, w, st, m), Aside(st, st2, x), m \subseteq m2
  PROVE  ConnOK(x, r, q, a, w, st2, m2)
<1>1. /\ Waiters(st2, x) = Waiters(st, x) /\ Reqs(st2, x) = Reqs(st, x)
      /\ Pays(st2, x) = Pays(st, x) /\ BadResps(st2, x) = BadResps(st, x)
      /\ \A j \in Waiters(st, x) : st2[j] = st[j]
      /\ \A j \in Reqs(st, x) : st2[j] = st[j]
      /\ \A j \in Pays(st, x) : st2[j] = st[j]
  BY AsideKinds
<1>2. WaitOK(x, r, st2)
  BY <1>1 DEF ConnOK, WaitOK
<1>3. NewOK(r, q, a, w, m2)
  BY DEF ConnOK, NewOK
<1>4. ASSUME AnsOK(x, r, q, a, st)
      PROVE  AnsOK(x, r, q, a, st2)
  BY <1>1, <1>4 DEF AnsOK, Straight
<1>5. ASSUME NumOK(x, r, q, w, st)
      PROVE  NumOK(x, r, q, w, st2)
  BY <1>1, <1>5 DEF NumOK
<1>6. ASSUME RepOK(x, r, w, st)
      PROVE  RepOK(x, r, w, st2)
  <2>1. /\ \A i, j \in Reqs(st2, x) : st2[i].n = st2[j].n /\ st2[i].n # 0 => i = j
        /\ r.cur # 0 => \E j \in Pays(st2, x) : st2[j].n = r.cur
        /\ \A j \in Pays(st2, x) : st2[j].n # 0 => w = st2[j].n \/ (r.dseq = st2[j].n /\ r.drep)
        /\ \A j \in Reqs(st2, x) : st2[j].k = "bm" /\ st2[j].n # 0 => w = st2[j].n /\ r.dseq # st2[j].n
        /\ r.dseq # 0 /\ ~r.drep => w = r.dseq
    BY <1>1, <1>6 DEF RepOK
  <2>2. \A i \in Pays(st2, x) : st2[i].prev # 0 => \E j \in Pays(st2, x) : j < i /\ st2[j].n = st2[i].prev
    BY <1>1, <1>6 DEF RepOK
  <2>3. QED BY <2>1, <2>2 DEF RepOK
<1>7. QED BY <1>2, <1>3, <1>4, <1>5, <1>6 DEF ConnOK

(* A connection that is closed or being closed owes nothing.               *)
LEMMA ShutOK ==
  ASSUME NEW x, NEW r, NEW q, NEW a, NEW w, NEW st, NEW m,
         r.st \in {"closing", "closed"}, \A i, j \in Waiters(st, x) : i = j
  PROVE  ConnOK(x, r, q, a, w, st, m)
  BY DEF ConnOK, WaitOK, NewOK

(* An activation returns, which is none of x, or x is closed.              *)
LEMMA PopOK ==
  ASSUME NEW x, NEW r, NEW q, NEW a, NEW w, NEW st, NEW st2, NEW f, NEW L, NEW m,
         ConnOK(x, r, q, a, w, st2, m), On(st, st2, f, L),
         r.st \in {"closing", "closed"} \/ ~Keeps(f, x)
  PROVE  ConnOK(x, r, q, a, w, st, m)
<1>1. CASE ~Keeps(f, x)
  BY <1>1, OnAside, AsideOK
<1>2. CASE Keeps(f, x) /\ r.st \in {"closing", "closed"}
  <2>1. \A i \in Waiters(st, x) : i \in Waiters(st2, x)
    <3>1. \A j \in At(st, x) : j \in At(st2, x) /\ st2[j] = st[j]
      BY DEF On, At
    <3>2. QED BY <3>1 DEF Waiters
  <2>2. \A i, j \in Waiters(st, x) : i = j
    BY <2>1 DEF ConnOK, WaitOK
  <2>3. QED BY <1>2, <2>2, ShutOK
<1>3. QED BY <1>1, <1>2

----------------------------------------------------------------------------
(* Slots and records.                                                      *)

(* Only the record of c changes.                                           *)
Same(d, d2, c) == \A x \in Conns \ {c} : d2[x] = d[x]

LEMMA FrameTypes ==
  ASSUME NEW st \in Seq(Frame), NEW j \in DOMAIN st
  PROVE  /\ st[j] \in Frame
         /\ st[j].k # "tm" => st[j].id \in Slots
         /\ HasConn(st[j]) => st[j].c \in Conns
<1>1. st[j] \in Frame
  BY LenProperties, ElementOfSeq
<1>2. QED BY <1>1 DEF Frame, HasConn

(* The phase and the address stay.                                         *)
LEMMA HomesFields ==
  ASSUME NEW st, NEW s, NEW d, NEW d2, HomesOK(st, s, d),
         \A x \in Conns : d2[x].st = d[x].st /\ d2[x].ptr = d[x].ptr
  PROVE  HomesOK(st, s, d2)
<1>1. \A j \in DOMAIN st : HasConn(st[j]) => st[j].c \in Conns
  BY FrameTypes DEF HomesOK
<1>2. \A x \in Conns : LiveIn(d2, x) <=> LiveIn(d, x)
  BY DEF LiveIn
<1>3. QED BY <1>1, <1>2 DEF HomesOK

LEMMA HomesPop ==
  ASSUME NEW st, NEW st2, NEW s, NEW d, NEW f, NEW L, HomesOK(st2, s, d), On(st, st2, f, L),
         f.k # "pc"
  PROVE  HomesOK(st, s, d)
  BY DEF HomesOK, On

(* An activation begins for a connection that is open and has the slot, or *)
(* an event or a timer at the bottom of the stack.                         *)
LEMMA HomesPush ==
  ASSUME NEW st, NEW st2, NEW s, NEW d, NEW f, NEW L, HomesOK(st, s, d), On(st, st2, f, L),
         f.k # "pc",
         HasConn(f) => d[f.c].st = "open" /\ s[f.id] = f.c,
         f.k \in {"pay", "bm", "wait"} => f.ptr = d[f.c].ptr,
         ~HasConn(f) => L = 0
  PROVE  HomesOK(st2, s, d)
<1>1. CASE HasConn(f)
  <2>1. ASSUME NEW j \in DOMAIN st2, HasConn(st2[j])
        PROVE  /\ d[st2[j].c].st \notin {"none", "hs"}
               /\ LiveIn(d, st2[j].c) => s[st2[j].id] = st2[j].c
               /\ st2[j].k \in {"pay", "bm", "wait"} => st2[j].ptr = d[st2[j].c].ptr
               /\ st2[j].k = "pc" => d[st2[j].c].st = "closing"
    BY <1>1, <2>1 DEF HomesOK, On
  <2>2. ASSUME NEW i \in DOMAIN st2, NEW j \in DOMAIN st2, i < j
        PROVE  /\ st2[i].k = "pc" /\ st2[j].k # "tm" => st2[j].id # st2[i].id
               /\ HasConn(st2[i]) /\ HasConn(st2[j]) /\ LiveIn(d, st2[i].c) /\ st2[i].id = st2[j].id
                    => st2[i].c = st2[j].c
    <3>1. i \in DOMAIN st /\ st2[i] = st[i]
      BY <2>2 DEF On
    <3>2. CASE j \in DOMAIN st
      BY <2>2, <3>1, <3>2 DEF HomesOK, On
    <3>3. CASE j = L + 1
      <4>1. st2[j] = f
        BY <3>3 DEF On
      <4>2. HasConn(st[i]) /\ LiveIn(d, st[i].c) => s[st[i].id] = st[i].c
        BY <3>1 DEF HomesOK
      <4>3. st[i].k = "pc" => HasConn(st[i]) /\ d[st[i].c].st = "closing" /\ LiveIn(d, st[i].c)
        BY <3>1 DEF HomesOK, HasConn, LiveIn
      <4>4. QED BY <1>1, <3>1, <4>1, <4>2, <4>3
    <3>4. QED BY <3>2, <3>3 DEF On
  <2>3. \A c \in Conns : d[c].st = "closing" => \E j \in DOMAIN st2 : st2[j].k = "pc" /\ st2[j].c = c
    BY DEF HomesOK, On
  <2>4. QED BY <2>1, <2>2, <2>3 DEF HomesOK, On
<1>2. CASE ~HasConn(f)
  <2>1. DOMAIN st = {} /\ DOMAIN st2 = {1} /\ st2[1] = f
    BY <1>2 DEF On
  <2>2. \A c \in Conns : d[c].st # "closing"
    BY <2>1 DEF HomesOK
  <2>3. st2 \in Seq(Frame)
    BY DEF On
  <2>4. QED BY <1>2, <2>1, <2>2, <2>3 DEF HomesOK
<1>3. QED BY <1>1, <1>2

(* .z.pc begins for a connection that is open.                             *)
LEMMA HomesClose ==
  ASSUME NEW st, NEW st2, NEW s, NEW d, NEW d2, NEW f, NEW L, NEW c \in Conns,
         HomesOK(st, s, d), On(st, st2, f, L), f.k = "pc", f.c = c, s[f.id] = c,
         d[c].st = "open", Same(d, d2, c), d2[c].st = "closing", d2[c].ptr = d[c].ptr
  PROVE  HomesOK(st2, s, d2)
<1>1. \A j \in DOMAIN st : HasConn(st[j]) => st[j].c \in Conns
  BY FrameTypes DEF HomesOK
<1>2. \A x \in Conns : /\ d2[x].ptr = d[x].ptr /\ (LiveIn(d2, x) <=> LiveIn(d, x))
                       /\ x # c => d2[x] = d[x]
  BY DEF Same, LiveIn
<1>3. ASSUME NEW j \in DOMAIN st2, HasConn(st2[j])
      PROVE  /\ d2[st2[j].c].st \notin {"none", "hs"}
             /\ LiveIn(d2, st2[j].c) => s[st2[j].id] = st2[j].c
             /\ st2[j].k \in {"pay", "bm", "wait"} => st2[j].ptr = d2[st2[j].c].ptr
             /\ st2[j].k = "pc" => d2[st2[j].c].st = "closing"
  <2>1. CASE j \in DOMAIN st
    BY <1>1, <1>2, <1>3, <2>1 DEF HomesOK, On
  <2>2. CASE j = L + 1
    BY <1>3, <2>2 DEF On
  <2>3. QED BY <2>1, <2>2 DEF On
<1>4. ASSUME NEW i \in DOMAIN st2, NEW j \in DOMAIN st2, i < j
      PROVE  /\ st2[i].k = "pc" /\ st2[j].k # "tm" => st2[j].id # st2[i].id
             /\ HasConn(st2[i]) /\ HasConn(st2[j]) /\ LiveIn(d2, st2[i].c) /\ st2[i].id = st2[j].id
                  => st2[i].c = st2[j].c
  <2>1. i \in DOMAIN st /\ st2[i] = st[i]
    BY <1>4 DEF On
  <2>2. CASE j \in DOMAIN st
    BY <1>1, <1>2, <1>4, <2>1, <2>2 DEF HomesOK, On
  <2>3. CASE j = L + 1
    <3>1. st2[j] = f
      BY <2>3 DEF On
    <3>2. HasConn(st[i]) /\ LiveIn(d, st[i].c) => s[st[i].id] = st[i].c
      BY <2>1 DEF HomesOK
    <3>3. st[i].k = "pc" => HasConn(st[i]) /\ d[st[i].c].st = "closing" /\ LiveIn(d, st[i].c)
      BY <2>1 DEF HomesOK, HasConn, LiveIn
    <3>4. QED BY <1>1, <1>2, <2>1, <3>1, <3>2, <3>3
  <2>4. QED BY <2>2, <2>3 DEF On
<1>5. ASSUME NEW x \in Conns, d2[x].st = "closing"
      PROVE  \E j \in DOMAIN st2 : st2[j].k = "pc" /\ st2[j].c = x
  <2>1. CASE x = c
    <3>1. L + 1 \in DOMAIN st2 /\ st2[L + 1] = f
      BY DEF On
    <3>2. QED BY <2>1, <3>1
  <2>2. CASE x # c
    <3>1. d[x].st = "closing"
      BY <1>2, <1>5, <2>2
    <3>2. QED BY <3>1 DEF HomesOK, On
  <2>3. QED BY <2>1, <2>2
<1>6. QED BY <1>3, <1>4, <1>5 DEF HomesOK, On

(* A connection that is not being closed leaves its slot.                  *)
LEMMA HomesDrop ==
  ASSUME NEW st, NEW s, NEW s2, NEW d, NEW d2, NEW c \in Conns, NEW id \in Slots,
         TableOK(s, d), HomesOK(st, s, d), s[id] = c, d[c].st # "closing",
         s2 = [s EXCEPT ![id] = None], Same(d, d2, c), d2[c].st = "closed", d2[c].ptr = d[c].ptr
  PROVE  HomesOK(st, s2, d2)
<1>1. \A j \in DOMAIN st : (HasConn(st[j]) => st[j].c \in Conns) /\ (st[j].k # "tm" => st[j].id \in Slots)
  BY FrameTypes DEF HomesOK
<1>2. \A x \in Conns : /\ d2[x].ptr = d[x].ptr /\ (LiveIn(d2, x) => LiveIn(d, x) /\ x # c)
                       /\ x # c => d2[x] = d[x]
  BY DEF Same, LiveIn
<1>3. \A i \in Slots : s[i] # c => s2[i] = s[i]
  BY DEF TableOK
<1>4. ASSUME NEW j \in DOMAIN st, HasConn(st[j])
      PROVE  /\ d2[st[j].c].st \notin {"none", "hs"}
             /\ LiveIn(d2, st[j].c) => s2[st[j].id] = st[j].c
             /\ st[j].k \in {"pay", "bm", "wait"} => st[j].ptr = d2[st[j].c].ptr
             /\ st[j].k = "pc" => d2[st[j].c].st = "closing"
  <2>1. st[j].k # "tm" /\ st[j].id \in Slots /\ st[j].c \in Conns
    BY <1>1, <1>4 DEF HasConn
  <2>2. /\ d[st[j].c].st \notin {"none", "hs"}
        /\ LiveIn(d, st[j].c) => s[st[j].id] = st[j].c
        /\ st[j].k \in {"pay", "bm", "wait"} => st[j].ptr = d[st[j].c].ptr
        /\ st[j].k = "pc" => d[st[j].c].st = "closing"
    BY <1>4 DEF HomesOK
  <2>3. QED BY <1>2, <1>3, <2>1, <2>2
<1>5. ASSUME NEW i \in DOMAIN st, NEW j \in DOMAIN st, i < j
      PROVE  /\ st[i].k = "pc" /\ st[j].k # "tm" => st[j].id # st[i].id
             /\ HasConn(st[i]) /\ HasConn(st[j]) /\ LiveIn(d2, st[i].c) /\ st[i].id = st[j].id
                  => st[i].c = st[j].c
  BY <1>1, <1>2, <1>5 DEF HomesOK
<1>6. \A x \in Conns : d2[x].st = "closing" => \E j \in DOMAIN st : st[j].k = "pc" /\ st[j].c = x
  <2>1. \A x \in Conns : d2[x].st = "closing" => d[x].st = "closing"
    BY <1>2
  <2>2. QED BY <2>1 DEF HomesOK
<1>7. QED BY <1>4, <1>5, <1>6 DEF HomesOK

(* .z.pc, the activation f, returns and its connection leaves its slot.    *)
Gone(st, st2, s, s2, d, d2, f, L, c, id) ==
    /\ On(st, st2, f, L) /\ f.k = "pc" /\ f.c = c /\ f.id = id /\ c \in Conns /\ id \in Slots
    /\ s2 = [s EXCEPT ![id] = None] /\ Same(d, d2, c) /\ d2[c].st = "closed" /\ d2[c].ptr = d[c].ptr

LEMMA HomesClosed ==
  ASSUME NEW st, NEW st2, NEW s, NEW s2, NEW d, NEW d2, NEW f, NEW L, NEW c, NEW id,
         TableOK(s, d), HomesOK(st2, s, d), Gone(st, st2, s, s2, d, d2, f, L, c, id)
  PROVE  s[id] = c /\ d[c].st = "closing" /\ HomesOK(st, s2, d2)
<1>0. /\ On(st, st2, f, L) /\ f.k = "pc" /\ f.c = c /\ f.id = id /\ c \in Conns /\ id \in Slots
      /\ s2 = [s EXCEPT ![id] = None] /\ Same(d, d2, c) /\ d2[c].st = "closed" /\ d2[c].ptr = d[c].ptr
  BY DEF Gone
<1> USE <1>0
<1>1. \A j \in DOMAIN st : (HasConn(st[j]) => st[j].c \in Conns) /\ (st[j].k # "tm" => st[j].id \in Slots)
  BY FrameTypes DEF On
<1>2. \A x \in Conns : /\ d2[x].ptr = d[x].ptr /\ (LiveIn(d2, x) => LiveIn(d, x) /\ x # c)
                       /\ x # c => d2[x] = d[x]
  BY DEF Same, LiveIn
<1>3. s[id] = c /\ d[c].st = "closing"
  <2>1. L + 1 \in DOMAIN st2 /\ st2[L + 1] = f /\ HasConn(f)
    BY DEF On, HasConn
  <2>2. d[c].st = "closing" /\ (LiveIn(d, c) => s[id] = c)
    BY <2>1 DEF HomesOK
  <2>3. QED BY <2>2 DEF LiveIn
<1>4. \A i \in Slots : s[i] # c => s2[i] = s[i]
  BY <1>3 DEF TableOK
<1>5. ASSUME NEW j \in DOMAIN st, HasConn(st[j])
      PROVE  /\ d[st[j].c].st \notin {"none", "hs"}
             /\ LiveIn(d, st[j].c) => s[st[j].id] = st[j].c
             /\ st[j].k \in {"pay", "bm", "wait"} => st[j].ptr = d[st[j].c].ptr
             /\ st[j].k = "pc" => d[st[j].c].st = "closing" /\ st[j].id # id
  BY <1>5 DEF HomesOK, On
<1>6. ASSUME NEW j \in DOMAIN st, HasConn(st[j])
      PROVE  /\ d2[st[j].c].st \notin {"none", "hs"}
             /\ LiveIn(d2, st[j].c) => s2[st[j].id] = st[j].c
             /\ st[j].k \in {"pay", "bm", "wait"} => st[j].ptr = d2[st[j].c].ptr
             /\ st[j].k = "pc" => d2[st[j].c].st = "closing"
  <2>1. st[j].k # "tm" /\ st[j].id \in Slots /\ st[j].c \in Conns
    BY <1>1, <1>6 DEF HasConn
  <2>2. st[j].k = "pc" => st[j].c # c
    <3>1. SUFFICES ASSUME st[j].k = "pc", st[j].c = c PROVE FALSE
      OBVIOUS
    <3>2. s[st[j].id] = c /\ st[j].id # id
      BY <1>3, <1>5, <1>6, <3>1 DEF LiveIn
    <3>3. None \notin Conns
      BY BoundsAssumption DEF None, Conns
    <3>4. QED BY <1>3, <2>1, <3>2, <3>3 DEF TableOK
  <2>3. QED BY <1>2, <1>4, <1>5, <1>6, <2>1, <2>2
<1>7. ASSUME NEW i \in DOMAIN st, NEW j \in DOMAIN st, i < j
      PROVE  /\ st[i].k = "pc" /\ st[j].k # "tm" => st[j].id # st[i].id
             /\ HasConn(st[i]) /\ HasConn(st[j]) /\ LiveIn(d2, st[i].c) /\ st[i].id = st[j].id
                  => st[i].c = st[j].c
  BY <1>1, <1>2, <1>7 DEF HomesOK, On
<1>8. ASSUME NEW x \in Conns, d2[x].st = "closing"
      PROVE  \E j \in DOMAIN st : st[j].k = "pc" /\ st[j].c = x
  <2>1. x # c /\ d[x].st = "closing"
    BY <1>2, <1>8
  <2>2. PICK j \in DOMAIN st2 : st2[j].k = "pc" /\ st2[j].c = x
    BY <2>1 DEF HomesOK
  <2>3. QED BY <2>1, <2>2 DEF On
<1>9. st \in Seq(Frame)
  BY DEF On
<1>10. QED BY <1>3, <1>6, <1>7, <1>8, <1>9 DEF HomesOK

(* A connection is made in an empty slot.                                  *)
LEMMA HomesRegister ==
  ASSUME NEW st, NEW s, NEW s2, NEW d, NEW d2, NEW c \in Conns, NEW id \in Slots,
         TableOK(s, d), HomesOK(st, s, d), s[id] = None, d[c].st = "none",
         s2 = [s EXCEPT ![id] = c], Same(d, d2, c), d2[c].st \in {"hs", "open"}
  PROVE  HomesOK(st, s2, d2)
<1>1. \A j \in DOMAIN st : (HasConn(st[j]) => st[j].c \in Conns) /\ (st[j].k # "tm" => st[j].id \in Slots)
  BY FrameTypes DEF HomesOK
<1>2. None \notin Conns
  BY BoundsAssumption DEF None, Conns
<1>3. \A j \in DOMAIN st : HasConn(st[j]) => st[j].c # c /\ d2[st[j].c] = d[st[j].c]
  BY <1>1 DEF HomesOK, Same
<1>4. \A i \in Slots : s[i] # None => s2[i] = s[i]
  BY DEF TableOK
<1>5. ASSUME NEW j \in DOMAIN st, HasConn(st[j])
      PROVE  /\ d2[st[j].c].st \notin {"none", "hs"}
             /\ LiveIn(d2, st[j].c) => s2[st[j].id] = st[j].c
             /\ st[j].k \in {"pay", "bm", "wait"} => st[j].ptr = d2[st[j].c].ptr
             /\ st[j].k = "pc" => d2[st[j].c].st = "closing"
  <2>1. st[j].k # "tm" /\ st[j].id \in Slots /\ st[j].c \in Conns /\ d2[st[j].c] = d[st[j].c]
    BY <1>1, <1>3, <1>5 DEF HasConn
  <2>2. LiveIn(d2, st[j].c) => s[st[j].id] = st[j].c
    BY <1>5, <2>1 DEF HomesOK, LiveIn
  <2>3. LiveIn(d2, st[j].c) => s2[st[j].id] = st[j].c
    BY <1>2, <1>4, <2>1, <2>2
  <2>4. QED BY <1>5, <2>1, <2>3 DEF HomesOK
<1>6. ASSUME NEW i \in DOMAIN st, NEW j \in DOMAIN st, i < j
      PROVE  /\ st[i].k = "pc" /\ st[j].k # "tm" => st[j].id # st[i].id
             /\ HasConn(st[i]) /\ HasConn(st[j]) /\ LiveIn(d2, st[i].c) /\ st[i].id = st[j].id
                  => st[i].c = st[j].c
  <2>1. HasConn(st[i]) /\ LiveIn(d2, st[i].c) => LiveIn(d, st[i].c)
    BY <1>3 DEF LiveIn
  <2>2. QED BY <1>6, <2>1 DEF HomesOK
<1>7. \A x \in Conns : d2[x].st = "closing" => \E j \in DOMAIN st : st[j].k = "pc" /\ st[j].c = x
  <2>1. \A x \in Conns : d2[x].st = "closing" => d[x].st = "closing"
    BY DEF Same
  <2>2. QED BY <2>1 DEF HomesOK
<1>8. QED BY <1>5, <1>6, <1>7 DEF HomesOK

(* The record of c changes and it stays as open or not as it was.          *)
LEMMA TableFields ==
  ASSUME NEW s, NEW d, NEW d2 \in [Conns -> CD], NEW c \in Conns, TableOK(s, d), Same(d, d2, c),
         LiveIn(d2, c) <=> LiveIn(d, c),
         d2[c].ready => d2[c].wait, d2[c].wait => d2[c].st \in {"open", "closing"}
  PROVE  TableOK(s, d2)
<1>1. \A x \in Conns : (LiveIn(d2, x) <=> LiveIn(d, x)) /\ (x # c => d2[x] = d[x])
  BY DEF Same, LiveIn
<1>2. \A x \in Conns : (d2[x].ready => d2[x].wait) /\ (d2[x].wait => d2[x].st \in {"open", "closing"})
  BY <1>1 DEF TableOK
<1>3. QED BY <1>1, <1>2 DEF TableOK

LEMMA TableDrop ==
  ASSUME NEW s, NEW s2, NEW d, NEW d2 \in [Conns -> CD], NEW c \in Conns, NEW id \in Slots,
         TableOK(s, d), s[id] = c, s2 = [s EXCEPT ![id] = None], Same(d, d2, c),
         d2[c].st = "closed", ~d2[c].wait, ~d2[c].ready
  PROVE  TableOK(s2, d2)
<1>1. None \notin Conns
  BY BoundsAssumption DEF None, Conns
<1>2. \A x \in Conns : (x # c => d2[x] = d[x] /\ (LiveIn(d2, x) <=> LiveIn(d, x))) /\ (x = c => ~LiveIn(d2, x))
  BY DEF Same, LiveIn
<1>3. \A x \in Conns : (d2[x].ready => d2[x].wait) /\ (d2[x].wait => d2[x].st \in {"open", "closing"})
  BY <1>2 DEF TableOK
<1>4. s2 \in [Slots -> Conns \cup {None}] /\ \A i \in Slots : s2[i] = IF i = id THEN None ELSE s[i]
  BY DEF TableOK
<1>5. \A i, j \in Slots : s2[i] = s2[j] /\ s2[i] # None => i = j
  BY <1>4 DEF TableOK
<1>6. ASSUME NEW x \in Conns
      PROVE  LiveIn(d2, x) <=> \E i \in Slots : s2[i] = x
  <2>1. CASE x = c
    BY <1>1, <1>2, <1>4, <2>1 DEF TableOK
  <2>2. CASE x # c
    BY <1>1, <1>2, <1>4, <2>2 DEF TableOK
  <2>3. QED BY <2>1, <2>2
<1>7. QED BY <1>3, <1>4, <1>5, <1>6 DEF TableOK

LEMMA TableRegister ==
  ASSUME NEW s, NEW s2, NEW d, NEW d2 \in [Conns -> CD], NEW c \in Conns, NEW id \in Slots,
         TableOK(s, d), s[id] = None, d[c].st = "none", s2 = [s EXCEPT ![id] = c], Same(d, d2, c),
         d2[c].st \in {"hs", "open"}, ~d2[c].wait, ~d2[c].ready
  PROVE  TableOK(s2, d2)
<1>1. None \notin Conns
  BY BoundsAssumption DEF None, Conns
<1>2. /\ \A x \in Conns : x # c => d2[x] = d[x] /\ (LiveIn(d2, x) <=> LiveIn(d, x))
      /\ LiveIn(d2, c) /\ ~LiveIn(d, c)
  BY DEF Same, LiveIn
<1>3. \A x \in Conns : (d2[x].ready => d2[x].wait) /\ (d2[x].wait => d2[x].st \in {"open", "closing"})
  BY <1>2 DEF TableOK
<1>4. s2 \in [Slots -> Conns \cup {None}] /\ \A i \in Slots : s2[i] = IF i = id THEN c ELSE s[i]
  BY DEF TableOK
<1>5. \A i \in Slots : s[i] # c
  BY <1>2 DEF TableOK
<1>6. \A i, j \in Slots : s2[i] = s2[j] /\ s2[i] # None => i = j
  BY <1>4, <1>5 DEF TableOK
<1>7. ASSUME NEW x \in Conns
      PROVE  LiveIn(d2, x) <=> \E i \in Slots : s2[i] = x
  <2>1. CASE x = c
    BY <1>2, <1>4, <2>1
  <2>2. CASE x # c
    BY <1>1, <1>2, <1>4, <2>2 DEF TableOK
  <2>3. QED BY <2>1, <2>2
<1>8. QED BY <1>3, <1>4, <1>6, <1>7 DEF TableOK

(* The lowest of some numbers exists.                                      *)
LEMMA LeastExists ==
  ASSUME NEW T \in SUBSET Nat, T # {}
  PROVE  \E x \in T : \A y \in T : x <= y
<1>1. PICK x \in T : \A y \in T : ~(<<y, x>> \in OpToRel(<, Nat))
  BY NatLessThanWellFounded, WFMin
<1>2. \A y \in T : ~(y < x)
  BY <1>1 DEF OpToRel
<1>3. QED BY <1>2

(* While there is a connection to make there is a slot for it.             *)
LEMMA FreshConn ==
  ASSUME TableOK(sels, cds), CanOpen
  PROVE  /\ NextConn \in Conns /\ cds[NextConn].st = "none"
         /\ FreeSlot \in Slots /\ sels[FreeSlot] = None
<1> DEFINE U == {c \in Conns : cds[c].st = "none"}
           E == {i \in Slots : sels[i] = None}
<1>1. U \in SUBSET Nat /\ E \in SUBSET Nat /\ U # {}
  BY BoundsAssumption DEF CanOpen, Conns, Slots
<1>2. NextConn \in Conns /\ cds[NextConn].st = "none"
  <2>1. \E c \in U : \A e \in U : c <= e
    BY <1>1, LeastExists
  <2>2. \E c \in Conns : cds[c].st = "none" /\ \A e \in Conns : cds[e].st = "none" => c <= e
    BY <2>1
  <2>3. QED BY <2>2 DEF NextConn
<1>3. E # {}
  <2>1. SUFFICES ASSUME E = {} PROVE FALSE
    OBVIOUS
  <2> DEFINE c == NextConn
             T == Conns \ {c}
  <2>2. IsFiniteSet(Slots) /\ Cardinality(Slots) = MaxConn /\ IsFiniteSet(Conns) /\ Cardinality(Conns) = MaxConn
    BY FS_Interval, BoundsAssumption DEF Slots, Conns
  <2>3. c \in Conns /\ \A i \in Slots : sels[i] # c
    <3>1. ~LiveIn(cds, c)
      BY <1>2 DEF LiveIn
    <3>2. QED BY <1>2, <3>1 DEF TableOK
  <2> HIDE DEF c
  <2>4. IsFiniteSet(T) /\ Cardinality(T) = MaxConn - 1
    BY <2>2, <2>3, FS_RemoveElement
  <2>5. sels \in [Slots -> T]
    BY <2>1, <2>3 DEF TableOK
  <2>6. Cardinality(T) < Cardinality(Slots)
    BY <2>2, <2>4, BoundsAssumption
  <2> HIDE DEF T
  <2>7. \E i, j \in Slots : i # j /\ sels[i] = sels[j]
    BY <2>2, <2>4, <2>5, <2>6, FS_PigeonHole
  <2>8. \A i \in Slots : sels[i] # None
    BY <2>1
  <2>9. QED BY <2>7, <2>8 DEF TableOK
<1>4. FreeSlot \in Slots /\ sels[FreeSlot] = None
  <2>1. \E i \in E : \A j \in E : i <= j
    BY <1>1, <1>3, LeastExists
  <2>2. \E i \in Slots : sels[i] = None /\ \A j \in Slots : sels[j] = None => i <= j
    BY <2>1
  <2>3. QED BY <2>2 DEF FreeSlot
<1>5. QED BY <1>2, <1>4

(* The innermost activation.                                               *)
LEMMA TopIs ==
  ASSUME HomesOK(stack, sels, cds), stack # <<>>
  PROVE  /\ On(Pop, stack, Top, Len(stack) - 1) /\ Top \in Frame
         /\ Top.k # "tm" => Top.id \in Slots
         /\ HasConn(Top) => /\ Top.c \in Conns /\ cds[Top.c].st \notin {"none", "hs"}
                            /\ LiveIn(cds, Top.c) => sels[Top.id] = Top.c
                            /\ Top.k \in {"pay", "bm", "wait"} => Top.ptr = cds[Top.c].ptr
<1>1. stack \in Seq(Frame)
  BY DEF HomesOK
<1>2. On(Pop, stack, Top, Len(stack) - 1)
  BY <1>1, PopOn DEF Pop, Top
<1>3. PICK j \in DOMAIN stack : Top = stack[j]
  BY <1>2 DEF On
<1>4. QED BY <1>1, <1>2, <1>3, FrameTypes DEF HomesOK

(* It does not work on a connection whose .z.pc is running.                *)
LEMMA TopSlot ==
  ASSUME TableOK(sels, cds), HomesOK(stack, sels, cds), stack # <<>>,
         Top.k \notin {"pc", "tm"}, sels[Top.id] # None
  PROVE  /\ Top.id \in Slots /\ sels[Top.id] \in Conns /\ cds[sels[Top.id]].st \in {"hs", "open"}
<1>1. /\ On(Pop, stack, Top, Len(stack) - 1) /\ Top.id \in Slots
  BY TopIs
<1> DEFINE c == sels[Top.id]
           L == Len(stack) - 1
<1>2. c \in Conns /\ LiveIn(cds, c)
  BY <1>1 DEF TableOK
<1>3. ASSUME cds[c].st = "closing"
      PROVE  FALSE
  <2>1. PICK j \in DOMAIN stack : stack[j].k = "pc" /\ stack[j].c = c
    BY <1>2, <1>3 DEF HomesOK
  <2>2. HasConn(stack[j]) /\ sels[stack[j].id] = c
    BY <1>2, <2>1 DEF HomesOK, HasConn
  <2>3. L + 1 \in DOMAIN stack /\ stack[L + 1] = Top /\ j < L + 1
    BY <1>1, <2>1 DEF On
  <2>4. Top.id # stack[j].id
    BY <2>1, <2>3 DEF HomesOK
  <2>5. stack[j].id \in Slots
    BY <2>1, FrameTypes DEF HomesOK
  <2>6. QED BY <1>1, <1>2, <2>2, <2>4, <2>5 DEF TableOK
<1>4. QED BY <1>1, <1>2, <1>3 DEF LiveIn

(* What ray_poll_deregister does of a connection that is not being closed. *)
LEMMA DeregisterOK ==
  ASSUME TableOK(sels, cds), NEW stk, HomesOK(stk, sels, cds), NEW id \in Slots, NEW c \in Conns,
         sels[id] = c, cds[c].st \in {"hs", "open"}, NEW local, Deregister(id, stk, local)
  PROVE  /\ TableOK(sels', cds') /\ HomesOK(stack', sels', cds') /\ Same(cds, cds', c)
         /\ cds'[c].st \in {"closing", "closed"} /\ \A x \in Conns : Aside(stk, stack', x)
<1>1. cds \in [Conns -> CD] /\ cds[c] \in CD /\ stk \in Seq(Frame)
  BY DEF TableOK, HomesOK
<1>2. CASE cds[c].st = "open" /\ ~local
  <2> DEFINE r == [cds[c] EXCEPT !.st = "closing"]
             f == [k |-> "pc", id |-> id, c |-> c]
  <2>1. /\ r \in CD /\ r.st = "closing" /\ r.ptr = cds[c].ptr /\ r.wait = cds[c].wait /\ r.ready = cds[c].ready
    BY <1>1 DEF CD, Phases
  <2>2. f \in Frame /\ f.k = "pc" /\ f.c = c /\ f.id = id
    BY DEF Frame
  <2>3. cds' = [cds EXCEPT ![c] = r] /\ stack' = Append(stk, f) /\ sels' = sels
    BY <1>2 DEF Deregister
  <2> HIDE DEF r, f
  <2>4. cds' \in [Conns -> CD] /\ cds'[c] = r /\ Same(cds, cds', c)
    BY <1>1, <2>1, <2>3 DEF Same
  <2>5. On(stk, stack', f, Len(stk))
    BY <1>1, <2>2, <2>3, PushOn
  <2>6. TableOK(sels', cds')
    <3>1. LiveIn(cds', c) /\ LiveIn(cds, c)
      BY <1>2, <2>1, <2>4 DEF LiveIn
    <3>2. (cds'[c].ready => cds'[c].wait) /\ (cds'[c].wait => cds'[c].st \in {"open", "closing"})
      BY <2>1, <2>4 DEF TableOK
    <3>3. QED BY <2>3, <2>4, <3>1, <3>2, TableFields
  <2>7. HomesOK(stack', sels', cds')
    BY <1>2, <2>1, <2>2, <2>3, <2>4, <2>5, HomesClose
  <2>8. \A x \in Conns : Aside(stk, stack', x)
    BY <2>2, <2>5, OnAside DEF Keeps
  <2>9. QED BY <2>1, <2>4, <2>6, <2>7, <2>8
<1>3. CASE ~(cds[c].st = "open" /\ ~local)
  <2> DEFINE r == Fresh(cds[c].ptr, "closed")
  <2>1. r \in CD /\ r.st = "closed" /\ r.ptr = cds[c].ptr /\ r.wait = FALSE /\ r.ready = FALSE
    BY <1>1, BoundsAssumption DEF CD, Phases, Fresh
  <2>2. cds' = [cds EXCEPT ![c] = r] /\ stack' = stk /\ sels' = [sels EXCEPT ![id] = None]
    BY <1>3 DEF Deregister, Drop
  <2> HIDE DEF r
  <2>3. cds' \in [Conns -> CD] /\ cds'[c] = r /\ Same(cds, cds', c)
    BY <1>1, <2>1, <2>2 DEF Same
  <2>4. TableOK(sels', cds')
    BY <2>1, <2>2, <2>3, TableDrop
  <2>5. HomesOK(stack', sels', cds')
    BY <2>1, <2>2, <2>3, HomesDrop
  <2>6. \A x \in Conns : Aside(stk, stack', x)
    BY <2>2 DEF Aside
  <2>7. QED BY <2>1, <2>3, <2>4, <2>5, <2>6
<1>4. QED BY <1>2, <1>3

----------------------------------------------------------------------------
(* Queues and kinds of activations.                                        *)

(* One connection at most changes.                                         *)
LEMMA OthersOK ==
  ASSUME ConnsOK, NEW c \in Conns, misled \subseteq misled',
         \A x \in Conns \ {c} : /\ cds'[x] = cds[x] /\ inq'[x] = inq[x] /\ asks'[x] = asks[x]
                                /\ waits'[x] = waits[x] /\ Aside(stack, stack', x),
         ConnOK(c, cds'[c], inq'[c], asks'[c], waits'[c], stack', misled')
  PROVE  ConnsOK'
<1>1. ASSUME NEW x \in Conns \ {c}
      PROVE  ConnOK(x, cds'[x], inq'[x], asks'[x], waits'[x], stack', misled')
  <2>1. ConnOK(x, cds[x], inq[x], asks[x], waits[x], stack, misled)
    BY DEF ConnsOK
  <2> DEFINE s2 == stack'
             m2 == misled'
             r == cds[x]
             q == inq[x]
             a == asks[x]
             w == waits[x]
  <2>2. Aside(stack, s2, x) /\ misled \subseteq m2 /\ ConnOK(x, r, q, a, w, stack, misled)
    BY <2>1
  <2> HIDE DEF s2, m2, r, q, a, w
  <2>3. ConnOK(x, r, q, a, w, s2, m2)
    BY <2>2, AsideOK
  <2>4. QED BY <2>3 DEF s2, m2, r, q, a, w
<1>2. QED BY <1>1 DEF ConnsOK

(* An activation of x more: which kinds it adds to.                        *)
Kept(st, st2, x, K) ==
    /\ \A j \in Waiters(st, x) : st2[j] = st[j]
    /\ \A j \in Reqs(st, x) : st2[j] = st[j] /\ j < K
    /\ \A j \in Pays(st, x) : st2[j] = st[j] /\ j < K
    /\ K \notin Waiters(st, x) /\ K \notin Reqs(st, x) /\ K \notin Pays(st, x) /\ K \notin BadResps(st, x)

LEMMA PayKinds ==
  ASSUME NEW st, NEW st2, NEW f, NEW L, NEW x, On(st, st2, f, L), Keeps(f, x), f.k = "pay"
  PROVE  /\ Waiters(st2, x) = Waiters(st, x) /\ Reqs(st2, x) = Reqs(st, x) \cup {L + 1}
         /\ Pays(st2, x) = Pays(st, x) \cup {L + 1} /\ BadResps(st2, x) = BadResps(st, x)
         /\ st2[L + 1] = f /\ Kept(st, st2, x, L + 1)
<1>1. /\ At(st2, x) = At(st, x) \cup {L + 1} /\ L + 1 \notin At(st, x) /\ st2[L + 1] = f
      /\ \A j \in At(st, x) : st2[j] = st[j] /\ j < L + 1
  BY OnKept
<1>2. QED BY <1>1 DEF Waiters, Reqs, Pays, BadResps, Keeps, Kept

LEMMA BmKinds ==
  ASSUME NEW st, NEW st2, NEW f, NEW L, NEW x, On(st, st2, f, L), Keeps(f, x), f.k = "bm"
  PROVE  /\ Waiters(st2, x) = Waiters(st, x) /\ Reqs(st2, x) = Reqs(st, x) \cup {L + 1}
         /\ Pays(st2, x) = Pays(st, x)
         /\ f.resp => BadResps(st2, x) = BadResps(st, x) \cup {L + 1}
         /\ ~f.resp => BadResps(st2, x) = BadResps(st, x)
         /\ st2[L + 1] = f /\ Kept(st, st2, x, L + 1)
<1>1. /\ At(st2, x) = At(st, x) \cup {L + 1} /\ L + 1 \notin At(st, x) /\ st2[L + 1] = f
      /\ \A j \in At(st, x) : st2[j] = st[j] /\ j < L + 1
  BY OnKept
<1>2. QED BY <1>1 DEF Waiters, Reqs, Pays, BadResps, Keeps, Kept

LEMMA WaitKinds ==
  ASSUME NEW st, NEW st2, NEW f, NEW L, NEW x, On(st, st2, f, L), Keeps(f, x), f.k = "wait"
  PROVE  /\ Waiters(st2, x) = Waiters(st, x) \cup {L + 1} /\ Reqs(st2, x) = Reqs(st, x)
         /\ Pays(st2, x) = Pays(st, x) /\ BadResps(st2, x) = BadResps(st, x)
         /\ st2[L + 1] = f /\ Kept(st, st2, x, L + 1)
<1>1. /\ At(st2, x) = At(st, x) \cup {L + 1} /\ L + 1 \notin At(st, x) /\ st2[L + 1] = f
      /\ \A j \in At(st, x) : st2[j] = st[j] /\ j < L + 1
  BY OnKept
<1>2. QED BY <1>1 DEF Waiters, Reqs, Pays, BadResps, Keeps, Kept

(* The numbers activations carry.                                          *)
LEMMA FrameNums ==
  ASSUME NEW st \in Seq(Frame), NEW x
  PROVE  /\ \A j \in Reqs(st, x) : st[j].n \in Nat /\ (st[j].k = "bm" => (st[j].resp => st[j].n = 0))
         /\ \A j \in Pays(st, x) : st[j].prev \in Nat /\ st[j].n \in Nat
         /\ \A j \in Waiters(st, x) : st[j].n \in 1..MaxOps
<1>1. \A j \in DOMAIN st : st[j] \in Frame
  BY LenProperties, ElementOfSeq
<1>2. ASSUME NEW j \in DOMAIN st
      PROVE  /\ st[j].k \in {"pay", "bm"} => st[j].n \in Nat
             /\ st[j].k = "bm" => (st[j].resp => st[j].n = 0)
             /\ st[j].k = "pay" => st[j].prev \in Nat
             /\ st[j].k = "wait" => st[j].n \in 1..MaxOps
  <2>1. st[j] \in Frame
    BY <1>1
  <2>2. st[j].k \in {"pay", "bm"} => st[j].n \in Nat
    <3>1. st[j].k = "pay" => st[j].n \in Nat
      BY <2>1 DEF Frame
    <3>2. st[j].k = "bm" => st[j].n \in Nat \/ st[j].n = 0
      BY <2>1 DEF Frame
    <3>3. QED BY <3>1, <3>2
  <2>3. st[j].k = "bm" => (st[j].resp = FALSE) \/ st[j].n = 0
    BY <2>1 DEF Frame
  <2>4. st[j].k = "pay" => st[j].prev \in Nat
    BY <2>1 DEF Frame
  <2>5. st[j].k = "wait" => st[j].n \in 1..MaxOps
    BY <2>1 DEF Frame
  <2>6. QED BY <2>2, <2>3, <2>4, <2>5
<1>3. QED BY <1>2 DEF Reqs, Pays, Waiters, At

(* q2 is q without its first frame h.                                      *)
Read(q, q2, h) ==
    /\ q2 \in Seq(Message) /\ h \in Message
    /\ h.t \notin {"sync", "badsync"} => (SyncsIn(q2) = {} <=> SyncsIn(q) = {})
    /\ (\A i, j \in SyncsIn(q) : i = j) => \A i, j \in SyncsIn(q2) : i = j
    /\ (\A i, j \in SyncsIn(q) : i = j) /\ h.t \in {"sync", "badsync"} => SyncsIn(q2) = {} /\ SyncsIn(q) # {}
    /\ h.t \notin {"resp", "badresp"} => (Resps(q2) = {} <=> Resps(q) = {})
    /\ Resps(q) = {} => Resps(q2) = {}
    /\ (\A i, j \in Resps(q) : i = j) => \A i, j \in Resps(q2) : i = j
    /\ (\A i, j \in Resps(q) : i = j) /\ h.t \in {"resp", "badresp"} => Resps(q2) = {}
    /\ h.t \in {"resp", "badresp"} => \E i \in Resps(q) : q[i] = h
    /\ \A i \in Resps(q2) : \E j \in Resps(q) : q2[i] = q[j]
    /\ \E i \in DOMAIN q : q[i] = h

LEMMA TailRead ==
  ASSUME NEW q \in Seq(Message), q # <<>>
  PROVE  Read(q, Tail(q), Head(q))
<1> DEFINE q2 == Tail(q)
           h == Head(q)
<1>1. /\ q2 \in Seq(Message) /\ Len(q2) = Len(q) - 1 /\ Len(q) \in Nat /\ Len(q) >= 1
      /\ h = q[1] /\ \A i \in 1..(Len(q) - 1) : q2[i] = q[i + 1]
  OBVIOUS
<1>2. DOMAIN q = 1..Len(q) /\ DOMAIN q2 = 1..(Len(q) - 1)
  BY <1>1, LenProperties
<1> HIDE DEF q2, h
<1>3. 1 \in DOMAIN q /\ q[1] = h /\ h \in Message
  BY <1>1, <1>2, ElementOfSeq
<1>4. \A i \in DOMAIN q2 : i \in Int /\ i + 1 \in DOMAIN q /\ i + 1 # 1 /\ q2[i] = q[i + 1]
  BY <1>1, <1>2
<1>5. \A i \in DOMAIN q : i \in Int /\ (i # 1 => i - 1 \in DOMAIN q2 /\ q2[i - 1] = q[i])
  <2>1. \A i \in DOMAIN q : i # 1 => i - 1 \in 1..(Len(q) - 1) /\ (i - 1) + 1 = i
    BY <1>1, <1>2
  <2>2. QED BY <1>1, <1>2, <2>1
<1>6. \A i \in SyncsIn(q2) : i \in Int /\ i + 1 \in SyncsIn(q) /\ i + 1 # 1
  BY <1>4 DEF SyncsIn
<1>7. \A i \in SyncsIn(q) : i = 1 \/ i - 1 \in SyncsIn(q2)
  BY <1>5 DEF SyncsIn
<1>8. 1 \in SyncsIn(q) <=> h.t \in {"sync", "badsync"}
  BY <1>3 DEF SyncsIn
<1>9. \A i \in Resps(q2) : i \in Int /\ i + 1 \in Resps(q) /\ i + 1 # 1 /\ q2[i] = q[i + 1]
  BY <1>4 DEF Resps
<1>10. \A i \in Resps(q) : i = 1 \/ i - 1 \in Resps(q2)
  BY <1>5 DEF Resps
<1>11. 1 \in Resps(q) <=> h.t \in {"resp", "badresp"}
  BY <1>3 DEF Resps
<1>12. /\ h.t \notin {"sync", "badsync"} => (SyncsIn(q2) = {} <=> SyncsIn(q) = {})
       /\ (\A i, j \in SyncsIn(q) : i = j) => \A i, j \in SyncsIn(q2) : i = j
       /\ (\A i, j \in SyncsIn(q) : i = j) /\ h.t \in {"sync", "badsync"} => SyncsIn(q2) = {} /\ SyncsIn(q) # {}
  BY <1>6, <1>7, <1>8
<1>13. /\ h.t \notin {"resp", "badresp"} => (Resps(q2) = {} <=> Resps(q) = {})
       /\ Resps(q) = {} => Resps(q2) = {}
       /\ (\A i, j \in Resps(q) : i = j) => \A i, j \in Resps(q2) : i = j
       /\ (\A i, j \in Resps(q) : i = j) /\ h.t \in {"resp", "badresp"} => Resps(q2) = {}
  BY <1>9, <1>10, <1>11
<1>14. /\ h.t \in {"resp", "badresp"} => \E i \in Resps(q) : q[i] = h
       /\ \A i \in Resps(q2) : \E j \in Resps(q) : q2[i] = q[j]
  BY <1>3, <1>9, <1>11
<1>15. Read(q, q2, h)
  BY <1>1, <1>3, <1>12, <1>13, <1>14 DEF Read
<1>16. QED BY <1>15 DEF q2, h

(* q2 is q with the frame f arrived.                                       *)
Arrived(q, q2, f) ==
    /\ q2 \in Seq(Message) /\ q2 # <<>>
    /\ f.t \notin {"sync", "badsync"} => SyncsIn(q2) = SyncsIn(q)
    /\ f.t \in {"sync", "badsync"} => \E i : SyncsIn(q2) = SyncsIn(q) \cup {i}
    /\ f.t \notin {"resp", "badresp"} => Resps(q2) = Resps(q)
    /\ f.t \in {"resp", "badresp"} => \E i : Resps(q2) = Resps(q) \cup {i} /\ q2[i] = f
    /\ \A i \in Resps(q) : q2[i] = q[i]

LEMMA AppendArrived ==
  ASSUME NEW q \in Seq(Message), NEW f \in Message
  PROVE  Arrived(q, Append(q, f), f)
<1> DEFINE q2 == Append(q, f)
           L == Len(q)
<1>1. /\ q2 \in Seq(Message) /\ L \in Nat /\ DOMAIN q = 1..L /\ DOMAIN q2 = 1..(L + 1)
      /\ q2[L + 1] = f /\ q2 # <<>> /\ \A i \in 1..L : q2[i] = q[i]
  OBVIOUS
<1>2. L + 1 \in DOMAIN q2 /\ L + 1 \notin DOMAIN q /\ \A i \in DOMAIN q2 : i \in DOMAIN q \/ i = L + 1
  BY <1>1
<1>3. \A i \in DOMAIN q : i \in DOMAIN q2 /\ q2[i] = q[i]
  BY <1>1
<1> HIDE DEF q2, L
<1>4. SyncsIn(q2) = IF f.t \in {"sync", "badsync"} THEN SyncsIn(q) \cup {L + 1} ELSE SyncsIn(q)
  BY <1>1, <1>2, <1>3 DEF SyncsIn
<1>5. Resps(q2) = IF f.t \in {"resp", "badresp"} THEN Resps(q) \cup {L + 1} ELSE Resps(q)
  BY <1>1, <1>2, <1>3 DEF Resps
<1>6. \A i \in Resps(q) : q2[i] = q[i]
  BY <1>3 DEF Resps
<1>7. Arrived(q, q2, f)
  BY <1>1, <1>4, <1>5, <1>6 DEF Arrived
<1>8. QED BY <1>7 DEF q2

----------------------------------------------------------------------------
(* What the operations do to the connection they work on: its record r,    *)
(* queue q, unanswered calls a, the request w its peer is blocked on and   *)
(* the stack st become r2, q2, a2, w2 and st2.                             *)

(* The records differ in the fields of requests only, or of answers only.  *)
SameAns(r, r2) ==
    /\ r2.st = r.st /\ r2.wait = r.wait /\ r2.ready = r.ready /\ r2.bad = r.bad /\ r2.resp = r.resp
    /\ r2.slip = r.slip
SameNum(r, r2) == r2.st = r.st /\ r2.seq = r.seq /\ r2.cur = r.cur /\ r2.dseq = r.dseq /\ r2.drep = r.drep

(* A frame that is neither request nor answer is read.                     *)
LEMMA SkipOK ==
  ASSUME NEW x, NEW r, NEW q, NEW q2, NEW a, NEW w, NEW st, NEW m, NEW h,
         ConnOK(x, r, q, a, w, st, m), Read(q, q2, h), r.st = "open",
         h.t \notin {"sync", "badsync", "resp", "badresp"}
  PROVE  ConnOK(x, r, q2, a, w, st, m)
<1>1. AnsOK(x, r, q, a, st) /\ WaitOK(x, r, st)
  BY DEF ConnOK
<1>2. AnsOK(x, r, q2, a, st)
  BY <1>1 DEF AnsOK, Straight, Read
<1>3. ASSUME NumOK(x, r, q, w, st)
      PROVE  NumOK(x, r, q2, w, st)
  BY <1>3 DEF NumOK, Read
<1>4. NewOK(r, q2, a, w, m)
  BY DEF NewOK
<1>5. QED BY <1>1, <1>2, <1>3, <1>4 DEF ConnOK

(* The handshake completes.                                                *)
LEMMA OpenOK ==
  ASSUME NEW x, NEW r \in CD, NEW r2, NEW q, NEW q2, NEW a, NEW w, NEW st, NEW m, NEW h,
         ConnOK(x, r, q, a, w, st, m), Read(q, q2, h), r.st = "hs", ~r.wait, At(st, x) = {},
         r2 = [r EXCEPT !.st = "open"]
  PROVE  ConnOK(x, r2, q2, a, w, st, m)
<1>1. /\ r2.st = "open" /\ r2.wait = r.wait /\ r2.ready = r.ready /\ r2.cur = r.cur /\ r2.seq = r.seq
      /\ r2.dseq = r.dseq /\ r2.drep = r.drep
  BY DEF CD
<1>2. Waiters(st, x) = {} /\ Reqs(st, x) = {} /\ Pays(st, x) = {} /\ BadResps(st, x) = {}
  BY DEF Waiters, Reqs, Pays, BadResps
<1>3. a = <<>> /\ w = 0 /\ ("address" \notin m => r.seq = 0 /\ r.cur = 0 /\ r.dseq = 0)
  BY DEF ConnOK, NewOK
<1>4. SyncsIn(q) = {} /\ Resps(q) = {} /\ h.t = "creds"
  BY DEF ConnOK, NewOK, SyncsIn, Resps, Read
<1>5. SyncsIn(q2) = {} /\ Resps(q2) = {}
  BY <1>4 DEF Read
<1>6. Len(a) = 0
  BY <1>3
<1>7. AnsOK(x, r2, q2, a, st)
  BY <1>1, <1>2, <1>3, <1>5, <1>6 DEF AnsOK, Straight
<1>8. ASSUME "address" \notin m
      PROVE  NumOK(x, r2, q2, w, st) /\ RepOK(x, r2, w, st)
  BY <1>1, <1>2, <1>3, <1>5, <1>8 DEF NumOK, RepOK
<1>9. WaitOK(x, r2, st)
  BY <1>1, <1>2 DEF WaitOK
<1>10. NewOK(r2, q2, a, w, m)
  BY <1>1 DEF NewOK
<1>11. m = {} => "address" \notin m
  OBVIOUS
<1>12. QED BY <1>1, <1>7, <1>8, <1>9, <1>10, <1>11 DEF ConnOK

(* A request is read and its evaluation begins.                            *)
LEMMA BeginOK ==
  ASSUME NEW x, NEW r \in CD, NEW r2, NEW q, NEW q2, NEW a, NEW w \in Nat, NEW st, NEW st2, NEW m, NEW h,
         NEW f, NEW L, NEW n \in Nat,
         ConnOK(x, r, q, a, w, st, m), Read(q, q2, h), r.st = "open", On(st, st2, f, L), Keeps(f, x),
         f.k = "pay" /\ f.n = n /\ f.prev = r.cur,
         SameAns(r, r2), r2.seq = (IF n = 0 THEN r.seq ELSE n), r2.cur = n, r2.dseq = r.dseq, r2.drep = r.drep,
         (h.t = "sync" /\ n = r.seq + 1) \/ (h.t = "async" /\ n = 0)
  PROVE  ConnOK(x, r2, q2, a, w, st2, m)
<1>1. AnsOK(x, r, q, a, st) /\ WaitOK(x, r, st)
  BY DEF ConnOK
<1>2. r.seq \in Nat /\ r.cur \in Nat /\ r.dseq \in Nat
  BY DEF CD
<1> DEFINE K == L + 1
<1>3. /\ Waiters(st2, x) = Waiters(st, x) /\ Reqs(st2, x) = Reqs(st, x) \cup {K}
      /\ Pays(st2, x) = Pays(st, x) \cup {K} /\ BadResps(st2, x) = BadResps(st, x)
      /\ st2[K] = f /\ Kept(st, st2, x, K)
  BY PayKinds
<1> HIDE DEF K
<1>4. WaitOK(x, r2, st2)
  BY <1>1, <1>3 DEF WaitOK, SameAns, Kept
<1>5. AnsOK(x, r2, q2, a, st2)
  BY <1>1, <1>3 DEF AnsOK, Straight, Read, SameAns, Kept
<1>6. ASSUME NumOK(x, r, q, w, st)
      PROVE  NumOK(x, r2, q2, w, st2) /\ (RepOK(x, r, w, st) => RepOK(x, r2, w, st2))
  <2>1. CASE n = 0
    <3>1. NumOK(x, r2, q2, w, st2)
      BY <1>2, <1>3, <1>6, <2>1 DEF NumOK, Read, Kept
    <3>2. ASSUME RepOK(x, r, w, st)
          PROVE  RepOK(x, r2, w, st2)
      <4>1. \A i \in Pays(st2, x) : st2[i].prev # 0 => \E j \in Pays(st2, x) : j < i /\ st2[j].n = st2[i].prev
        BY <1>2, <1>3, <3>2 DEF RepOK, Kept
      <4>2. QED BY <1>2, <1>3, <2>1, <3>2, <4>1 DEF RepOK, Kept
    <3>3. QED BY <3>1, <3>2
  <2>2. CASE n # 0
    <3>1. /\ h.t = "sync" /\ n = r.seq + 1 /\ SyncsIn(q) # {} /\ SyncsIn(q2) = {} /\ w = n
      BY <1>6, <2>2 DEF NumOK, Read
    <3>2. \A j \in Reqs(st, x) : st[j].n <= r.seq
      BY <1>6 DEF NumOK
    <3>3. NumOK(x, r2, q2, w, st2)
      <4>1. /\ r2.cur <= r2.seq /\ r2.dseq <= r2.seq /\ w <= r2.seq
            /\ r2.dseq # 0 /\ r2.drep => r2.dseq # w
        BY <1>2, <1>6, <2>2, <3>1 DEF NumOK
      <4>2. \A j \in Reqs(st2, x) : st2[j].n <= r2.seq
        <5>1. \A j \in Reqs(st, x) : st[j].n \in Nat
          BY FrameNums DEF On
        <5>2. QED BY <1>2, <1>3, <2>2, <3>1, <3>2, <5>1 DEF Kept
      <4>3. \A j \in Pays(st2, x) : st2[j].prev <= r2.seq
        <5>1. \A j \in Pays(st, x) : st[j].prev \in Nat
          BY FrameNums DEF On
        <5>2. QED BY <1>2, <1>3, <1>6, <2>2, <3>1, <5>1 DEF NumOK, Kept
      <4>4. \E j \in Reqs(st2, x) : st2[j].n = w
        BY <1>3, <3>1
      <4>5. QED BY <3>1, <4>1, <4>2, <4>3, <4>4 DEF NumOK
    <3>4. ASSUME RepOK(x, r, w, st)
          PROVE  RepOK(x, r2, w, st2)
      <4>1. \A i \in Pays(st2, x) : st2[i].prev # 0 => \E j \in Pays(st2, x) : j < i /\ st2[j].n = st2[i].prev
        BY <1>2, <1>3, <3>4 DEF RepOK, Kept
      <4>2. \A i, j \in Reqs(st2, x) : st2[i].n = st2[j].n /\ st2[i].n # 0 => i = j
        <5>1. \A j \in Reqs(st, x) : st[j].n # n
          BY <1>2, <3>1, <3>2
        <5>2. QED BY <1>3, <3>4, <5>1 DEF RepOK, Kept
      <4>3. \A j \in Pays(st2, x) : st2[j].n # 0 => w = st2[j].n \/ (r2.dseq = st2[j].n /\ r2.drep)
        BY <1>3, <3>1, <3>4 DEF RepOK, Kept
      <4>4. \A j \in Reqs(st2, x) : st2[j].k = "bm" /\ st2[j].n # 0 => w = st2[j].n /\ r2.dseq # st2[j].n
        BY <1>3, <3>4 DEF RepOK, Kept
      <4>5. \E j \in Pays(st2, x) : st2[j].n = r2.cur
        BY <1>3
      <4>6. QED BY <3>4, <4>1, <4>2, <4>3, <4>4, <4>5 DEF RepOK
    <3>5. QED BY <3>3, <3>4
  <2>3. QED BY <2>1, <2>2
<1>7. NewOK(r2, q2, a, w, m)
  BY DEF NewOK, SameAns
<1>8. m = {} => "address" \notin m
  OBVIOUS
<1>9. QED BY <1>4, <1>5, <1>6, <1>7, <1>8 DEF ConnOK, SameAns

(* A malformed message is read and its .z.bm begins.                       *)
LEMMA MalformedOK ==
  ASSUME NEW x, NEW r \in CD, NEW r2, NEW q, NEW q2, NEW a, NEW w \in Nat, NEW st, NEW st2, NEW m, NEW h,
         NEW f, NEW L, NEW n \in Nat,
         ConnOK(x, r, q, a, w, st, m), Read(q, q2, h), r.st = "open", On(st, st2, f, L), Keeps(f, x),
         f.k = "bm" /\ f.n = n, f.resp <=> h.t = "badresp",
         SameAns(r, r2), r2.seq = (IF n = 0 THEN r.seq ELSE n), r2.cur = r.cur, r2.dseq = r.dseq, r2.drep = r.drep,
         (h.t = "badsync" /\ n = r.seq + 1) \/ (h.t \in {"badasync", "badresp"} /\ n = 0)
  PROVE  ConnOK(x, r2, q2, a, w, st2, m)
<1>1. AnsOK(x, r, q, a, st) /\ WaitOK(x, r, st)
  BY DEF ConnOK
<1>2. r.seq \in Nat /\ r.cur \in Nat /\ r.dseq \in Nat
  BY DEF CD
<1> DEFINE K == L + 1
<1>3. /\ Waiters(st2, x) = Waiters(st, x) /\ Reqs(st2, x) = Reqs(st, x) \cup {K}
      /\ Pays(st2, x) = Pays(st, x)
      /\ f.resp => BadResps(st2, x) = BadResps(st, x) \cup {K}
      /\ ~f.resp => BadResps(st2, x) = BadResps(st, x)
      /\ st2[K] = f /\ Kept(st, st2, x, K)
  BY BmKinds
<1> HIDE DEF K
<1>4. WaitOK(x, r2, st2)
  BY <1>1, <1>3 DEF WaitOK, SameAns, Kept
<1>5. AnsOK(x, r2, q2, a, st2)
  <2>1. CASE h.t = "badresp"
    <3>1. SUFFICES ASSUME ~r.slip
                   PROVE  AnsOK(x, r2, q2, a, st2)
      BY DEF AnsOK, SameAns
    <3>2. Resps(q) # {} /\ Resps(q2) = {}
      BY <1>1, <2>1, <3>1 DEF Read, AnsOK, Straight
    <3>3. r.wait /\ a = <<>> /\ BadResps(st, x) = {} /\ ~r.ready
      BY <1>1, <3>1, <3>2 DEF AnsOK, Straight
    <3>4. BadResps(st2, x) = {K}
      BY <1>3, <2>1, <3>3
    <3>5. QED BY <1>1, <1>3, <3>1, <3>2, <3>3, <3>4 DEF AnsOK, Straight, SameAns, Kept
  <2>2. CASE h.t # "badresp"
    <3>1. BadResps(st2, x) = BadResps(st, x) /\ h.t \notin {"resp", "badresp"}
      BY <1>3, <2>2
    <3>2. QED BY <1>1, <1>3, <3>1 DEF AnsOK, Straight, Read, SameAns, Kept
  <2>3. QED BY <2>1, <2>2
<1>6. ASSUME NumOK(x, r, q, w, st)
      PROVE  NumOK(x, r2, q2, w, st2) /\ (RepOK(x, r, w, st) => RepOK(x, r2, w, st2))
  <2>1. CASE n = 0
    <3>1. NumOK(x, r2, q2, w, st2)
      BY <1>2, <1>3, <1>6, <2>1 DEF NumOK, Read, Kept
    <3>2. ASSUME RepOK(x, r, w, st)
          PROVE  RepOK(x, r2, w, st2)
      <4>1. \A i \in Pays(st2, x) : st2[i].prev # 0 => \E j \in Pays(st2, x) : j < i /\ st2[j].n = st2[i].prev
        BY <1>2, <1>3, <3>2 DEF RepOK, Kept
      <4>2. QED BY <1>2, <1>3, <2>1, <3>2, <4>1 DEF RepOK, Kept
    <3>3. QED BY <3>1, <3>2
  <2>2. CASE n # 0
    <3>1. /\ h.t = "badsync" /\ n = r.seq + 1 /\ SyncsIn(q) # {} /\ SyncsIn(q2) = {} /\ w = n
      BY <1>6, <2>2 DEF NumOK, Read
    <3>2. \A j \in Reqs(st, x) : st[j].n <= r.seq
      BY <1>6 DEF NumOK
    <3>3. NumOK(x, r2, q2, w, st2)
      <4>1. /\ r2.cur <= r2.seq /\ r2.dseq <= r2.seq /\ w <= r2.seq
            /\ r2.dseq # 0 /\ r2.drep => r2.dseq # w
        BY <1>2, <1>6, <2>2, <3>1 DEF NumOK
      <4>2. \A j \in Reqs(st2, x) : st2[j].n <= r2.seq
        <5>1. \A j \in Reqs(st, x) : st[j].n \in Nat
          BY FrameNums DEF On
        <5>2. QED BY <1>2, <1>3, <2>2, <3>1, <3>2, <5>1 DEF Kept
      <4>3. \A j \in Pays(st2, x) : st2[j].prev <= r2.seq
        <5>1. \A j \in Pays(st, x) : st[j].prev \in Nat
          BY FrameNums DEF On
        <5>2. QED BY <1>2, <1>3, <1>6, <2>2, <3>1, <5>1 DEF NumOK, Kept
      <4>4. \E j \in Reqs(st2, x) : st2[j].n = w
        BY <1>3, <3>1
      <4>5. QED BY <3>1, <4>1, <4>2, <4>3, <4>4 DEF NumOK
    <3>4. ASSUME RepOK(x, r, w, st)
          PROVE  RepOK(x, r2, w, st2)
      <4>1. \A i \in Pays(st2, x) : st2[i].prev # 0 => \E j \in Pays(st2, x) : j < i /\ st2[j].n = st2[i].prev
        BY <1>2, <1>3, <3>4 DEF RepOK, Kept
      <4>2. \A i, j \in Reqs(st2, x) : st2[i].n = st2[j].n /\ st2[i].n # 0 => i = j
        <5>1. \A j \in Reqs(st, x) : st[j].n # n
          BY <1>2, <3>1, <3>2
        <5>2. QED BY <1>3, <3>4, <5>1 DEF RepOK, Kept
      <4>3. \A j \in Pays(st2, x) : st2[j].n # 0 => w = st2[j].n \/ (r2.dseq = st2[j].n /\ r2.drep)
        BY <1>3, <3>1, <3>4 DEF RepOK, Kept
      <4>4. \A j \in Reqs(st2, x) : st2[j].k = "bm" /\ st2[j].n # 0 => w = st2[j].n /\ r2.dseq # st2[j].n
        <5>1. r.dseq # n
          BY <1>2, <1>6, <3>1 DEF NumOK
        <5>2. QED BY <1>3, <3>1, <3>4, <5>1 DEF RepOK, Kept
      <4>5. r2.cur # 0 => \E j \in Pays(st2, x) : st2[j].n = r2.cur
        BY <1>3, <3>4 DEF RepOK, Kept
      <4>6. QED BY <3>4, <4>1, <4>2, <4>3, <4>4, <4>5 DEF RepOK
    <3>5. QED BY <3>3, <3>4
  <2>3. QED BY <2>1, <2>2
<1>7. NewOK(r2, q2, a, w, m)
  BY DEF NewOK, SameAns
<1>8. m = {} => "address" \notin m
  OBVIOUS
<1>9. QED BY <1>4, <1>5, <1>6, <1>7, <1>8 DEF ConnOK, SameAns

(* The fields of requests and the stack stay: what is left is the answers. *)
LEMMA NumKept ==
  ASSUME NEW x, NEW r, NEW r2, NEW q, NEW q2, NEW w, NEW st, NEW st2, SameNum(r, r2),
         SyncsIn(q2) = {} <=> SyncsIn(q) = {},
         (\A i, j \in SyncsIn(q) : i = j) => \A i, j \in SyncsIn(q2) : i = j,
         Reqs(st2, x) = Reqs(st, x), Pays(st2, x) = Pays(st, x),
         \A j \in Reqs(st, x) : st2[j] = st[j], \A j \in Pays(st, x) : st2[j] = st[j]
  PROVE  /\ NumOK(x, r, q, w, st) => NumOK(x, r2, q2, w, st2)
         /\ RepOK(x, r, w, st) => RepOK(x, r2, w, st2)
<1>1. ASSUME NumOK(x, r, q, w, st)
      PROVE  NumOK(x, r2, q2, w, st2)
  BY <1>1 DEF NumOK, SameNum
<1>2. ASSUME RepOK(x, r, w, st)
      PROVE  RepOK(x, r2, w, st2)
  <2>1. \A i \in Pays(st2, x) : st2[i].prev # 0 => \E j \in Pays(st2, x) : j < i /\ st2[j].n = st2[i].prev
    BY <1>2 DEF RepOK
  <2>2. QED BY <1>2, <2>1 DEF RepOK, SameNum
<1>3. QED BY <1>1, <1>2

(* An answer is read while a call waits for it, and deposited.             *)
LEMMA DepositOK ==
  ASSUME NEW x, NEW r, NEW r2, NEW q, NEW q2, NEW a, NEW w, NEW st, NEW m, NEW h,
         ConnOK(x, r, q, a, w, st, m), Read(q, q2, h), r.st = "open", h.t = "resp",
         SameNum(r, r2), r2.slip = r.slip, r2.wait = r.wait, r2.bad = r.bad, r2.ready = TRUE, r2.resp = h.n
  PROVE  ConnOK(x, r2, q2, a, w, st, m)
<1>1. AnsOK(x, r, q, a, st) /\ WaitOK(x, r, st)
  BY DEF ConnOK
<1>2. PICK i \in Resps(q) : q[i] = h
  BY DEF Read
<1>3. ASSUME ~r.slip
      PROVE  Straight(x, r2, q2, a, st)
  <2>1. Resps(q) # {} /\ Resps(q2) = {}
    BY <1>1, <1>2, <1>3 DEF Read, AnsOK, Straight
  <2>2. r.wait /\ a = <<>> /\ BadResps(st, x) = {} /\ ~r.ready
    BY <1>1, <1>3, <2>1 DEF AnsOK, Straight
  <2>3. \A j \in Waiters(st, x) : st[j].n = h.n
    BY <1>1, <1>2, <1>3 DEF AnsOK, Straight
  <2>4. QED BY <1>1, <1>3, <2>1, <2>2, <2>3 DEF AnsOK, Straight
<1>6. AnsOK(x, r2, q2, a, st)
  BY <1>3 DEF AnsOK
<1>7. /\ NumOK(x, r, q, w, st) => NumOK(x, r2, q2, w, st)
      /\ RepOK(x, r, w, st) => RepOK(x, r2, w, st)
  BY NumKept DEF Read
<1>8. WaitOK(x, r2, st) /\ NewOK(r2, q2, a, w, m)
  BY <1>1 DEF WaitOK, NewOK, SameNum
<1>9. QED BY <1>6, <1>7, <1>8 DEF ConnOK, SameNum

(* An answer nobody takes any more is read and dropped.                    *)
LEMMA DropOK ==
  ASSUME NEW x, NEW r, NEW q, NEW q2, NEW a, NEW w, NEW st, NEW m, NEW h,
         ConnOK(x, r, q, a, w, st, m), Read(q, q2, h), r.st = "open", h.t = "resp", ~(r.wait /\ ~r.ready)
  PROVE  ConnOK(x, r, q2, a, w, st, m)
<1>1. AnsOK(x, r, q, a, st) /\ WaitOK(x, r, st)
  BY DEF ConnOK
<1>2. Resps(q) # {}
  BY DEF Read
<1>3. r.slip
  BY <1>1, <1>2 DEF AnsOK, Straight
<1>4. /\ NumOK(x, r, q, w, st) => NumOK(x, r, q2, w, st)
      /\ RepOK(x, r, w, st) => RepOK(x, r, w, st)
  BY NumKept DEF Read, SameNum
<1>5. NewOK(r, q2, a, w, m)
  BY DEF NewOK
<1>6. QED BY <1>1, <1>3, <1>4, <1>5 DEF ConnOK, AnsOK

(* A synchronous call goes out on a connection nobody waits on.            *)
LEMMA CallOK ==
  ASSUME NEW x, NEW r, NEW r2, NEW q, NEW a \in Seq(1..MaxOps), NEW w, NEW st, NEW st2, NEW m, NEW n \in 1..MaxOps,
         NEW f, NEW L,
         ConnOK(x, r, q, a, w, st, m), r.st = "open", ~r.wait, On(st, st2, f, L), Keeps(f, x),
         f.k = "wait" /\ f.n = n,
         SameNum(r, r2), r2.slip = r.slip, r2.wait = TRUE, r2.ready = FALSE, r2.bad = FALSE
  PROVE  ConnOK(x, r2, q, Append(a, n), w, st2, m)
<1>1. AnsOK(x, r, q, a, st) /\ WaitOK(x, r, st)
  BY DEF ConnOK
<1> DEFINE K == L + 1
<1>2. /\ Waiters(st2, x) = Waiters(st, x) \cup {K} /\ Reqs(st2, x) = Reqs(st, x)
      /\ Pays(st2, x) = Pays(st, x) /\ BadResps(st2, x) = BadResps(st, x)
      /\ st2[K] = f /\ Kept(st, st2, x, K)
  BY WaitKinds
<1> HIDE DEF K
<1>3. Waiters(st, x) = {}
  BY <1>1 DEF WaitOK
<1> DEFINE a2 == Append(a, n)
<1>4. ASSUME ~r.slip
      PROVE  Straight(x, r2, q, a2, st2)
  <2>1. a = <<>> /\ Resps(q) = {} /\ BadResps(st, x) = {}
    BY <1>1, <1>4 DEF AnsOK, Straight
  <2>2. Len(a2) = 1 /\ DOMAIN a2 = {1} /\ a2[1] = n
    BY <2>1
  <2> HIDE DEF a2
  <2>3. QED BY <1>2, <1>3, <2>1, <2>2 DEF Straight
<1> HIDE DEF a2
<1>5. AnsOK(x, r2, q, a2, st2)
  BY <1>4 DEF AnsOK
<1>6. WaitOK(x, r2, st2) /\ NewOK(r2, q, a2, w, m)
  BY <1>2, <1>3 DEF WaitOK, NewOK, SameNum
<1>7. /\ NumOK(x, r, q, w, st) => NumOK(x, r2, q, w, st2)
      /\ RepOK(x, r, w, st) => RepOK(x, r2, w, st2)
  BY <1>2, NumKept DEF Kept
<1>8. QED BY <1>5, <1>6, <1>7 DEF ConnOK, SameNum, a2

(* The call takes its answer and returns.                                  *)
LEMMA AnsweredOK ==
  ASSUME NEW x, NEW r, NEW r2, NEW q, NEW a, NEW w, NEW st, NEW st2, NEW m, NEW f, NEW L,
         ConnOK(x, r, q, a, w, st2, m), r.st = "open", r.ready, On(st, st2, f, L), Keeps(f, x),
         f.k = "wait", SameNum(r, r2), r2.slip = r.slip, r2.wait = FALSE, r2.ready = FALSE
  PROVE  ConnOK(x, r2, q, a, w, st, m)
<1>1. AnsOK(x, r, q, a, st2) /\ WaitOK(x, r, st2)
  BY DEF ConnOK
<1> DEFINE K == L + 1
<1>2. /\ Waiters(st2, x) = Waiters(st, x) \cup {K} /\ Reqs(st2, x) = Reqs(st, x)
      /\ Pays(st2, x) = Pays(st, x) /\ BadResps(st2, x) = BadResps(st, x)
      /\ st2[K] = f /\ Kept(st, st2, x, K)
  BY WaitKinds
<1> HIDE DEF K
<1>3. Waiters(st, x) = {}
  BY <1>1, <1>2 DEF WaitOK, Kept
<1>4. ASSUME ~r.slip
      PROVE  Straight(x, r2, q, a, st)
  <2>1. a = <<>> /\ Resps(q) = {} /\ BadResps(st, x) = {}
    BY <1>1, <1>2, <1>4 DEF AnsOK, Straight
  <2>2. QED BY <1>1, <1>3, <1>4, <2>1 DEF AnsOK, Straight
<1>5. AnsOK(x, r2, q, a, st)
  BY <1>4 DEF AnsOK
<1>6. WaitOK(x, r2, st) /\ NewOK(r2, q, a, w, m)
  BY <1>3 DEF WaitOK, NewOK, SameNum
<1>7. /\ NumOK(x, r, q, w, st2) => NumOK(x, r2, q, w, st)
      /\ RepOK(x, r, w, st2) => RepOK(x, r2, w, st)
  BY <1>2, NumKept DEF Kept
<1>8. QED BY <1>5, <1>6, <1>7 DEF ConnOK, SameNum

(* The call gives up and returns; its answer is still to come.             *)
LEMMA GaveUpOK ==
  ASSUME NEW x, NEW r, NEW r2, NEW q, NEW a, NEW w, NEW st, NEW st2, NEW m, NEW f, NEW L,
         ConnOK(x, r, q, a, w, st2, m), r.st = "open", On(st, st2, f, L), Keeps(f, x),
         f.k = "wait", SameNum(r, r2), r2.slip = TRUE, r2.wait = FALSE
  PROVE  ConnOK(x, r2, q, a, w, st, m)
<1>1. WaitOK(x, r, st2)
  BY DEF ConnOK
<1> DEFINE K == L + 1
<1>2. /\ Waiters(st2, x) = Waiters(st, x) \cup {K} /\ Reqs(st2, x) = Reqs(st, x)
      /\ Pays(st2, x) = Pays(st, x) /\ st2[K] = f /\ Kept(st, st2, x, K)
  BY WaitKinds
<1> HIDE DEF K
<1>3. Waiters(st, x) = {}
  BY <1>1, <1>2 DEF WaitOK, Kept
<1>4. AnsOK(x, r2, q, a, st)
  BY DEF AnsOK
<1>5. WaitOK(x, r2, st) /\ NewOK(r2, q, a, w, m)
  BY <1>3 DEF WaitOK, NewOK, SameNum
<1>6. /\ NumOK(x, r, q, w, st2) => NumOK(x, r2, q, w, st)
      /\ RepOK(x, r, w, st2) => RepOK(x, r2, w, st)
  BY <1>2, NumKept DEF Kept
<1>7. QED BY <1>4, <1>5, <1>6 DEF ConnOK, SameNum

(* The fields of answers stay: what is left is the requests.               *)
LEMMA AnsKept ==
  ASSUME NEW x, NEW r, NEW r2, NEW q, NEW a, NEW st, NEW st2, SameAns(r, r2),
         Waiters(st2, x) = Waiters(st, x), BadResps(st2, x) = BadResps(st, x),
         \A j \in Waiters(st, x) : st2[j] = st[j]
  PROVE  /\ WaitOK(x, r, st) => WaitOK(x, r2, st2)
         /\ AnsOK(x, r, q, a, st) => AnsOK(x, r2, q, a, st2)
  BY DEF WaitOK, AnsOK, Straight, SameAns

(* A request returns on its own connection: its reply is sent (w2 = 0), or *)
(* goes astray (w2 = w # n), or is deferred.                               *)
Returned(r, r2, w, w2, f) ==
    /\ r \in CD /\ w \in Nat /\ r.st = "open" /\ f.k = "pay" /\ f.n \in Nat
    /\ SameAns(r, r2) /\ r2.seq = r.seq /\ r2.cur = f.prev /\ r2.drep = r.drep
    /\ r2.dseq = IF f.n # 0 /\ r.dseq = f.n /\ r.drep THEN 0 ELSE r.dseq
    /\ w2 = IF f.n # 0 /\ r.dseq # f.n /\ w = f.n THEN 0 ELSE w

LEMMA ReturnOK ==
  ASSUME NEW x, NEW r, NEW r2, NEW q, NEW a, NEW w, NEW w2, NEW st, NEW st2, NEW m, NEW f, NEW L,
         ConnOK(x, r, q, a, w, st2, m), On(st, st2, f, L), Keeps(f, x), Returned(r, r2, w, w2, f)
  PROVE  /\ ConnOK(x, r2, q, a, w2, st, m)
         /\ m = {} /\ f.n # 0 /\ r.dseq # f.n => w = f.n
<1> DEFINE n == f.n
<1>0. /\ r \in CD /\ w \in Nat /\ r.st = "open" /\ f.k = "pay" /\ n \in Nat /\ f.n = n
      /\ SameAns(r, r2) /\ r2.seq = r.seq /\ r2.cur = f.prev /\ r2.drep = r.drep
      /\ r2.dseq = (IF n # 0 /\ r.dseq = n /\ r.drep THEN 0 ELSE r.dseq)
      /\ w2 = (IF n # 0 /\ r.dseq # n /\ w = n THEN 0 ELSE w)
  BY DEF Returned
<1> HIDE DEF n
<1> USE <1>0
<1>1. AnsOK(x, r, q, a, st2) /\ WaitOK(x, r, st2)
  BY DEF ConnOK
<1>2. r.seq \in Nat /\ r.cur \in Nat /\ r.dseq \in Nat
  BY DEF CD
<1> DEFINE K == L + 1
<1>3. /\ Waiters(st2, x) = Waiters(st, x) /\ Reqs(st2, x) = Reqs(st, x) \cup {K}
      /\ Pays(st2, x) = Pays(st, x) \cup {K} /\ BadResps(st2, x) = BadResps(st, x)
      /\ st2[K] = f /\ Kept(st, st2, x, K)
  BY PayKinds
<1>4. f.prev \in Nat /\ st2[K].prev \in Nat
  BY <1>3, FrameNums DEF On
<1> HIDE DEF K
<1>5. WaitOK(x, r2, st) /\ AnsOK(x, r2, q, a, st)
  <2>1. \A j \in Waiters(st2, x) : st[j] = st2[j]
    BY <1>3 DEF Kept
  <2>2. QED BY <1>1, <1>3, <2>1, AnsKept
<1>6. ASSUME NumOK(x, r, q, w, st2)
      PROVE  NumOK(x, r2, q, w2, st)
  <2>1. f.prev <= r.seq /\ n <= r.seq
    BY <1>3, <1>6 DEF NumOK
  <2>2. SyncsIn(q) # {} => w2 = w
    BY <1>2, <1>6, <2>1 DEF NumOK
  <2>3. \A j \in Reqs(st, x) : j \in Reqs(st2, x) /\ st2[j] = st[j]
    BY <1>3 DEF Kept
  <2>4. \A j \in Pays(st, x) : j \in Pays(st2, x) /\ st2[j] = st[j]
    BY <1>3 DEF Kept
  <2>5. /\ r2.cur <= r2.seq /\ r2.dseq <= r2.seq
        /\ \A j \in Reqs(st, x) : st[j].n <= r2.seq
        /\ \A j \in Pays(st, x) : st[j].prev <= r2.seq
        /\ \A i, j \in SyncsIn(q) : i = j
        /\ SyncsIn(q) # {} => w2 = r2.seq + 1
        /\ r2.dseq # 0 /\ r2.drep => r2.dseq # w2
    BY <1>2, <1>6, <2>1, <2>2, <2>3, <2>4 DEF NumOK
  <2>6. SyncsIn(q) = {} => w2 <= r2.seq
    BY <1>2, <1>6 DEF NumOK
  <2>7. ASSUME w2 # 0, SyncsIn(q) = {}
        PROVE  (\E j \in Reqs(st, x) : st[j].n = w2) \/ (r2.dseq = w2 /\ ~r2.drep)
    <3>1. w2 = w /\ w # 0
      BY <2>7
    <3>2. CASE \E j \in Reqs(st2, x) : st2[j].n = w
      <4>1. PICK j \in Reqs(st2, x) : st2[j].n = w
        BY <3>2
      <4>2. CASE j = K
        <5>1. n = w /\ n # 0 /\ r.dseq = n
          BY <1>3, <2>7, <3>1, <4>1, <4>2
        <5>2. ~r.drep
          BY <1>6, <5>1 DEF NumOK
        <5>3. QED BY <3>1, <5>1, <5>2
      <4>3. CASE j # K
        BY <1>3, <3>1, <4>1, <4>3 DEF Kept
      <4>4. QED BY <4>2, <4>3
    <3>3. CASE r.dseq = w /\ ~r.drep
      BY <3>1, <3>3
    <3>4. QED BY <1>6, <2>7, <3>1, <3>2, <3>3 DEF NumOK
  <2>8. QED BY <2>5, <2>6, <2>7 DEF NumOK
<1>7. ASSUME RepOK(x, r, w, st2)
      PROVE  /\ RepOK(x, r2, w2, st)
             /\ n # 0 /\ r.dseq # n => w = n
  <2>1. \A j \in Reqs(st, x) : j \in Reqs(st2, x) /\ st2[j] = st[j] /\ j # K
    BY <1>3 DEF Kept
  <2>2. \A j \in Pays(st, x) : j \in Pays(st2, x) /\ st2[j] = st[j] /\ j < K /\ j # K /\ j \in Reqs(st, x)
    BY <1>3 DEF Kept, Pays, Reqs
  <2>3. K \in Reqs(st2, x) /\ K \in Pays(st2, x) /\ st2[K].n = n /\ st2[K].prev = f.prev
    BY <1>3
  <2>4. n # 0 => \A j \in Reqs(st, x) : st[j].n # n
    BY <1>7, <2>1, <2>3 DEF RepOK
  <2>5. n # 0 => w = n \/ (r.dseq = n /\ r.drep)
    BY <1>7, <2>3 DEF RepOK
  <2>6. \A i, j \in Reqs(st, x) : st[i].n = st[j].n /\ st[i].n # 0 => i = j
    BY <1>7, <2>1 DEF RepOK
  <2>7. r2.cur # 0 => \E j \in Pays(st, x) : st[j].n = r2.cur
    <3>1. SUFFICES ASSUME f.prev # 0 PROVE \E j \in Pays(st, x) : st[j].n = f.prev
      OBVIOUS
    <3>2. PICK j \in Pays(st2, x) : j < K /\ st2[j].n = f.prev
      BY <1>7, <2>3, <3>1 DEF RepOK
    <3>3. K \in Int
      BY DEF K, On
    <3>4. j # K
      BY <3>2, <3>3
    <3>5. QED BY <1>3, <2>2, <3>2, <3>4
  <2>8. ASSUME NEW i \in Pays(st, x), st[i].prev # 0
        PROVE  \E j \in Pays(st, x) : j < i /\ st[j].n = st[i].prev
    <3>1. PICK j \in Pays(st2, x) : j < i /\ st2[j].n = st[i].prev
      BY <1>7, <2>2, <2>8 DEF RepOK
    <3>2. K \in Int /\ i \in Int /\ i < K
      BY <2>2 DEF K, On, Pays, At
    <3>3. j # K
      BY <3>1, <3>2
    <3>4. QED BY <1>3, <2>2, <3>1, <3>3
  <2>9. ASSUME NEW j \in Pays(st, x), st[j].n # 0
        PROVE  w2 = st[j].n \/ (r2.dseq = st[j].n /\ r2.drep)
    <3>1. st[j].n # n \/ n = 0
      BY <2>2, <2>4
    <3>2. w = st[j].n \/ (r.dseq = st[j].n /\ r.drep)
      BY <1>7, <2>2, <2>9 DEF RepOK
    <3>3. QED BY <2>9, <3>1, <3>2
  <2>10. ASSUME NEW j \in Reqs(st, x), st[j].k = "bm", st[j].n # 0
         PROVE  w2 = st[j].n /\ r2.dseq # st[j].n
    <3>1. st[j].n # n \/ n = 0
      BY <2>4
    <3>2. w = st[j].n /\ r.dseq # st[j].n
      BY <1>7, <2>1, <2>10 DEF RepOK
    <3>3. QED BY <2>10, <3>1, <3>2
  <2>11. r2.dseq # 0 /\ ~r2.drep => w2 = r2.dseq
    BY <1>7 DEF RepOK
  <2>12. RepOK(x, r2, w2, st)
    BY <2>6, <2>7, <2>8, <2>9, <2>10, <2>11 DEF RepOK
  <2>13. QED BY <2>5, <2>12
<1>8. NewOK(r2, q, a, w2, m)
  BY DEF NewOK, SameAns
<1>9. r2.st = "open"
  BY DEF SameAns
<1>10. QED BY <1>5, <1>6, <1>7, <1>8, <1>9 DEF ConnOK

(* A response that could not be read is answered to its waiter as 'badmsg. *)
LEMMA BadAnswerOK ==
  ASSUME NEW x, NEW r, NEW r2, NEW q, NEW a, NEW w, NEW st, NEW st2, NEW m, NEW f, NEW L,
         ConnOK(x, r, q, a, w, st2, m), r.st = "open", On(st, st2, f, L), Keeps(f, x),
         f.k = "bm", f.resp = TRUE, SameNum(r, r2), r2.slip = r.slip, r2.wait = r.wait,
         r2.ready = TRUE, r2.bad = TRUE
  PROVE  ConnOK(x, r2, q, a, w, st, m)
<1>1. AnsOK(x, r, q, a, st2) /\ WaitOK(x, r, st2)
  BY DEF ConnOK
<1> DEFINE K == L + 1
<1>2. /\ Waiters(st2, x) = Waiters(st, x) /\ Reqs(st2, x) = Reqs(st, x) \cup {K}
      /\ Pays(st2, x) = Pays(st, x) /\ BadResps(st2, x) = BadResps(st, x) \cup {K}
      /\ st2[K] = f /\ Kept(st, st2, x, K)
  <2>1. /\ Waiters(st2, x) = Waiters(st, x) /\ Reqs(st2, x) = Reqs(st, x) \cup {K}
        /\ Pays(st2, x) = Pays(st, x)
        /\ f.resp => BadResps(st2, x) = BadResps(st, x) \cup {K}
        /\ ~f.resp => BadResps(st2, x) = BadResps(st, x)
        /\ st2[K] = f /\ Kept(st, st2, x, K)
    BY BmKinds
  <2>2. QED BY <2>1
<1>3. f.n = 0
  <2>1. K \in Reqs(st2, x) /\ st2[K] = f
    BY <1>2
  <2>2. QED BY <2>1, FrameNums DEF On
<1> HIDE DEF K
<1>4. BadResps(st2, x) # {}
  BY <1>2
<1>5. ASSUME ~r.slip
      PROVE  Straight(x, r2, q, a, st)
  <2>1. BadResps(st, x) = {}
    BY <1>1, <1>2, <1>5 DEF AnsOK, Straight, Kept
  <2>2. r.wait /\ a = <<>> /\ Resps(q) = {} /\ ~r.ready
    BY <1>1, <1>4, <1>5 DEF AnsOK, Straight
  <2>3. QED BY <1>1, <1>2, <1>5, <2>1, <2>2 DEF AnsOK, Straight, Kept
<1>7. AnsOK(x, r2, q, a, st)
  BY <1>5 DEF AnsOK
<1>8. WaitOK(x, r2, st) /\ NewOK(r2, q, a, w, m)
  BY <1>1, <1>2 DEF WaitOK, NewOK, SameNum, Kept
<1>9. ASSUME NumOK(x, r, q, w, st2)
      PROVE  NumOK(x, r2, q, w, st)
  <2>1. w # 0 /\ SyncsIn(q) = {} => (\E j \in Reqs(st, x) : st[j].n = w) \/ (r2.dseq = w /\ ~r2.drep)
    BY <1>2, <1>3, <1>9 DEF NumOK, SameNum, Kept
  <2>2. QED BY <1>2, <1>9, <2>1 DEF NumOK, SameNum, Kept
<1>10. ASSUME RepOK(x, r, w, st2)
       PROVE  RepOK(x, r2, w, st)
  <2>1. \A i \in Pays(st, x) : st[i].prev # 0 => \E j \in Pays(st, x) : j < i /\ st[j].n = st[i].prev
    BY <1>2, <1>10 DEF RepOK, Kept
  <2>2. QED BY <1>2, <1>10, <2>1 DEF RepOK, SameNum, Kept
<1>11. QED BY <1>7, <1>8, <1>9, <1>10 DEF ConnOK, SameNum

(* The reply of the request being evaluated is deferred; no frame below    *)
(* still stands for the deferral this displaces.                           *)
LEMMA DeferOK ==
  ASSUME NEW x, NEW r \in CD, NEW r2, NEW q, NEW a, NEW w \in Nat, NEW st, NEW m, NEW m2,
         ConnOK(x, r, q, a, w, st, m), m \subseteq m2, r.st \in {"hs", "open"},
         r.cur # 0, r.dseq # r.cur, r.dseq = 0 \/ r.drep,
         SameAns(r, r2), r2.seq = r.seq, r2.cur = r.cur, r2.dseq = r.cur, r2.drep = FALSE,
         m2 = {} => ~(r.dseq # 0 /\ \E i \in Pays(st, x) : st[i].n = r.dseq)
  PROVE  ConnOK(x, r2, q, a, w, st, m2)
<1>1. WaitOK(x, r2, st) /\ (r.st = "open" => AnsOK(x, r2, q, a, st))
  BY AnsKept DEF ConnOK
<1>2. NewOK(r2, q, a, w, m2)
  BY DEF NewOK, ConnOK, SameAns
<1>3. r.seq \in Nat /\ r.cur \in Nat /\ r.dseq \in Nat
  BY DEF CD
<1>4. ASSUME NumOK(x, r, q, w, st)
      PROVE  NumOK(x, r2, q, w, st)
  BY <1>3, <1>4 DEF NumOK
<1>5. ASSUME RepOK(x, r, w, st), m2 = {}
      PROVE  RepOK(x, r2, w, st)
  <2>1. PICK k \in Pays(st, x) : st[k].n = r.cur
    BY <1>5 DEF RepOK
  <2>2. w = r.cur
    BY <1>5, <2>1 DEF RepOK
  <2>3. \A j \in Pays(st, x) : st[j].n # 0 => w = st[j].n
    BY <1>5, <2>2 DEF RepOK
  <2>4. \A j \in Reqs(st, x) : st[j].k = "bm" /\ st[j].n # 0 => FALSE
    <3>1. k \in Reqs(st, x) /\ st[k].k = "pay"
      BY <2>1 DEF Pays, Reqs
    <3>2. QED BY <1>5, <2>1, <2>2, <3>1 DEF RepOK
  <2>5. QED BY <1>5, <2>2, <2>3, <2>4 DEF RepOK
<1>6. m2 = {} => m = {}
  OBVIOUS
<1>7. "address" \notin m2 => "address" \notin m
  OBVIOUS
<1>8. QED BY <1>1, <1>2, <1>4, <1>5, <1>6, <1>7 DEF ConnOK, SameAns

(* A deferred reply goes out by handle.                                    *)
Sent(r, r2, w, w2) ==
    /\ r \in CD /\ w \in Nat /\ r.st = "open" /\ r.dseq # 0 /\ ~r.drep
    /\ SameAns(r, r2) /\ r2.seq = r.seq /\ r2.cur = r.cur /\ r2.dseq = r.dseq /\ r2.drep = TRUE
    /\ w2 = IF w = r.dseq THEN 0 ELSE w

LEMMA SentOK ==
  ASSUME NEW x, NEW r, NEW r2, NEW q, NEW a, NEW w, NEW w2, NEW st, NEW m,
         ConnOK(x, r, q, a, w, st, m), Sent(r, r2, w, w2)
  PROVE  ConnOK(x, r2, q, a, w2, st, m) /\ (m = {} => w = r.dseq)
<1> USE DEF Sent
<1>1. WaitOK(x, r2, st) /\ AnsOK(x, r2, q, a, st)
  BY AnsKept DEF ConnOK
<1>2. NewOK(r2, q, a, w2, m)
  BY DEF NewOK, SameAns
<1>3. r.seq \in Nat /\ r.cur \in Nat /\ r.dseq \in Nat
  BY DEF CD
<1>4. ASSUME NumOK(x, r, q, w, st)
      PROVE  NumOK(x, r2, q, w2, st)
  BY <1>3, <1>4 DEF NumOK
<1>5. ASSUME RepOK(x, r, w, st)
      PROVE  w = r.dseq /\ RepOK(x, r2, w2, st)
  <2>1. w = r.dseq
    BY <1>5 DEF RepOK
  <2>2. QED BY <1>5, <2>1 DEF RepOK
<1>6. QED BY <1>1, <1>2, <1>4, <1>5 DEF ConnOK, SameAns

(* The peer, not blocked on anything, sends a request.                     *)
LEMMA AskedOK ==
  ASSUME NEW x, NEW r \in CD, NEW q, NEW q2, NEW a, NEW st, NEW m, NEW f, NEW w2,
         ConnOK(x, r, q, a, 0, st, m), r.st = "open", Arrived(q, q2, f), f.t \in {"sync", "badsync"},
         SyncsIn(q) = {} => w2 = r.seq + 1
  PROVE  ConnOK(x, r, q2, a, w2, st, m)
<1>1. WaitOK(x, r, st) /\ AnsOK(x, r, q, a, st) /\ NewOK(r, q2, a, w2, m)
  BY DEF ConnOK, NewOK
<1>2. r.seq \in Nat /\ r.cur \in Nat /\ r.dseq \in Nat
  BY DEF CD
<1>3. AnsOK(x, r, q2, a, st)
  BY <1>1 DEF AnsOK, Straight, Arrived
<1>4. ASSUME NumOK(x, r, q, 0, st)
      PROVE  NumOK(x, r, q2, w2, st)
  <2>1. SyncsIn(q) = {}
    BY <1>2, <1>4 DEF NumOK
  <2>2. PICK i : SyncsIn(q2) = {i}
    BY <2>1 DEF Arrived
  <2>3. SyncsIn(q2) # {} /\ w2 = r.seq + 1 /\ \A j, k \in SyncsIn(q2) : j = k
    BY <2>1, <2>2
  <2>4. QED BY <1>2, <1>4, <2>3 DEF NumOK
<1>5. ASSUME RepOK(x, r, 0, st)
      PROVE  RepOK(x, r, w2, st)
  BY <1>5 DEF RepOK
<1>6. QED BY <1>1, <1>3, <1>4, <1>5 DEF ConnOK

(* The peer sends something that is neither request nor answer.            *)
LEMMA PushedOK ==
  ASSUME NEW x, NEW r, NEW q, NEW q2, NEW a, NEW w, NEW st, NEW m, NEW f,
         ConnOK(x, r, q, a, w, st, m), r.st = "open", Arrived(q, q2, f),
         f.t \notin {"sync", "badsync", "resp", "badresp"}
  PROVE  ConnOK(x, r, q2, a, w, st, m)
<1>1. WaitOK(x, r, st) /\ AnsOK(x, r, q, a, st) /\ NewOK(r, q2, a, w, m)
  BY DEF ConnOK, NewOK
<1>2. AnsOK(x, r, q2, a, st)
  BY <1>1 DEF AnsOK, Straight, Arrived
<1>3. ASSUME NumOK(x, r, q, w, st)
      PROVE  NumOK(x, r, q2, w, st)
  BY <1>3 DEF NumOK, Arrived
<1>4. QED BY <1>1, <1>2, <1>3 DEF ConnOK

LEMMA Single ==
  ASSUME NEW S, NEW a \in Seq(S), a # <<>>, Len(a) <= 1
  PROVE  1 \in DOMAIN a /\ Head(a) = a[1] /\ Tail(a) = <<>>
<1>1. Len(a) \in Nat /\ DOMAIN a = 1..Len(a) /\ Len(a) # 0
  BY LenProperties, EmptySeq
<1>2. Len(a) = 1
  BY <1>1
<1>3. Tail(a) \in Seq(S) /\ Len(Tail(a)) = Len(a) - 1
  BY HeadTailProperties
<1>4. Head(a) = a[1]
  OBVIOUS
<1>5. Len(Tail(a)) = 0
  BY <1>2, <1>3
<1>6. Tail(a) = <<>>
  BY <1>3, <1>5, EmptySeq
<1>7. QED BY <1>1, <1>2, <1>4, <1>6

(* The peer answers.                                                       *)
LEMMA RepliedOK ==
  ASSUME NEW x, NEW r, NEW q, NEW q2, NEW a \in Seq(1..MaxOps), NEW w, NEW st, NEW m, NEW f,
         ConnOK(x, r, q, a, w, st, m), r.st = "open", a # <<>>, Arrived(q, q2, f),
         f.t \in {"resp", "badresp"}, f.n = Head(a)
  PROVE  ConnOK(x, r, q2, Tail(a), w, st, m)
<1>1. WaitOK(x, r, st) /\ AnsOK(x, r, q, a, st) /\ NewOK(r, q2, Tail(a), w, m)
  BY DEF ConnOK, NewOK
<1>2. ASSUME ~r.slip
      PROVE  Straight(x, r, q2, Tail(a), st)
  <2>1. Straight(x, r, q, a, st) /\ Len(a) <= 1
    BY <1>1, <1>2 DEF AnsOK, Straight
  <2>2. 1 \in DOMAIN a /\ Head(a) = a[1] /\ Tail(a) = <<>>
    BY <2>1, Single
  <2>3. r.wait /\ Resps(q) = {} /\ BadResps(st, x) = {} /\ ~r.ready
    BY <2>1 DEF Straight
  <2>4. \A j \in Waiters(st, x) : st[j].n = f.n
    BY <2>1, <2>2 DEF Straight
  <2>5. PICK i : Resps(q2) = {i} /\ q2[i] = f
    BY <2>3 DEF Arrived
  <2>6. Straight(x, r, q2, <<>>, st)
    BY <2>3, <2>4, <2>5 DEF Straight
  <2>7. QED BY <2>2, <2>6
<1>3. AnsOK(x, r, q2, Tail(a), st)
  BY <1>2 DEF AnsOK
<1>4. ASSUME NumOK(x, r, q, w, st)
      PROVE  NumOK(x, r, q2, w, st)
  BY <1>4 DEF NumOK, Arrived
<1>5. QED BY <1>1, <1>3, <1>4 DEF ConnOK

----------------------------------------------------------------------------
(* The operations.                                                         *)

(* The handshake completes: nothing on the stack is of the connection yet. *)
LEMMA HomesOpen ==
  ASSUME NEW st, NEW s, NEW d, NEW d2, NEW c \in Conns, HomesOK(st, s, d), d[c].st = "hs",
         Same(d, d2, c), d2[c].st = "open"
  PROVE  HomesOK(st, s, d2) /\ At(st, c) = {}
<1>1. \A j \in DOMAIN st : HasConn(st[j]) => st[j].c \in Conns /\ st[j].c # c /\ d2[st[j].c] = d[st[j].c]
  BY FrameTypes DEF HomesOK, Same
<1>2. At(st, c) = {}
  BY <1>1 DEF At, HasConn
<1>3. \A x \in Conns : d2[x].st = "closing" => d[x].st = "closing"
  BY DEF Same
<1>4. ASSUME NEW j \in DOMAIN st, HasConn(st[j])
      PROVE  /\ d2[st[j].c].st \notin {"none", "hs"}
             /\ LiveIn(d2, st[j].c) => s[st[j].id] = st[j].c
             /\ st[j].k \in {"pay", "bm", "wait"} => st[j].ptr = d2[st[j].c].ptr
             /\ st[j].k = "pc" => d2[st[j].c].st = "closing"
  BY <1>1, <1>4 DEF HomesOK, LiveIn
<1>5. ASSUME NEW i \in DOMAIN st, NEW j \in DOMAIN st, i < j
      PROVE  /\ st[i].k = "pc" /\ st[j].k # "tm" => st[j].id # st[i].id
             /\ HasConn(st[i]) /\ HasConn(st[j]) /\ LiveIn(d2, st[i].c) /\ st[i].id = st[j].id
                  => st[i].c = st[j].c
  <2>1. HasConn(st[i]) /\ LiveIn(d2, st[i].c) => LiveIn(d, st[i].c)
    BY <1>1 DEF LiveIn
  <2>2. QED BY <1>5, <2>1 DEF HomesOK
<1>6. \A x \in Conns : d2[x].st = "closing" => \E j \in DOMAIN st : st[j].k = "pc" /\ st[j].c = x
  BY <1>3 DEF HomesOK
<1>7. QED BY <1>2, <1>4, <1>5, <1>6 DEF HomesOK

(* Whoever waits in the slot of the innermost activation is its own        *)
(* connection.                                                             *)
LEMMA WaitsHere ==
  ASSUME Inv, stack # <<>>, Top.k \in {"pay", "bm", "wait"}, sels[Top.id] # None, cds[sels[Top.id]].wait
  PROVE  Top.c = sels[Top.id] /\ cds[Top.c].st = "open"
<1> DEFINE c == sels[Top.id]
           L == Len(stack) - 1
<1>1. TableOK(sels, cds) /\ HomesOK(stack, sels, cds)
  BY DEF Inv
<1>2. On(Pop, stack, Top, L) /\ Top.id \in Slots /\ HasConn(Top)
  BY <1>1, TopIs DEF HasConn
<1>3. c \in Conns /\ cds[c].st \in {"hs", "open"}
  BY <1>1, TopSlot
<1>4. cds[c].st = "open"
  BY <1>1, <1>3 DEF TableOK
<1>5. PICK j \in Waiters(stack, c) : TRUE
  BY <1>3, <1>4 DEF Inv, ConnsOK, ConnOK, WaitOK
<1>6. j \in DOMAIN stack /\ stack[j].k = "wait" /\ stack[j].c = c
  BY <1>5 DEF Waiters, At
<1>7. LiveIn(cds, c) /\ HasConn(stack[j]) /\ stack[j].id \in Slots
  BY <1>1, <1>4, <1>6, FrameTypes DEF LiveIn, HasConn, HomesOK
<1>8. sels[stack[j].id] = c
  BY <1>1, <1>6, <1>7 DEF HomesOK
<1>9. None \notin Conns
  BY BoundsAssumption DEF None, Conns
<1>10. stack[j].id = Top.id
  BY <1>1, <1>2, <1>3, <1>7, <1>8, <1>9 DEF TableOK
<1>11. L + 1 \in DOMAIN stack /\ stack[L + 1] = Top /\ (j = L + 1 \/ j < L + 1)
  BY <1>2, <1>6 DEF On
<1> HIDE DEF L, c
<1>12. CASE j = L + 1
  BY <1>4, <1>6, <1>11, <1>12 DEF c
<1>13. CASE j < L + 1
  <2>1. stack[j].c = Top.c
    BY <1>1, <1>2, <1>6, <1>7, <1>10, <1>11, <1>13 DEF HomesOK
  <2>2. QED BY <1>4, <1>6, <2>1 DEF c
<1>14. QED BY <1>11, <1>12, <1>13

(* A connection is deregistered.                                           *)
LEMMA CloseStep ==
  ASSUME TableOK(sels, cds), NEW stk, HomesOK(stk, sels, cds), NEW id \in Slots, NEW c \in Conns, NEW local,
         sels[id] = c, cds[c].st \in {"hs", "open"}, Deregister(id, stk, local),
         \A x \in Conns \ {c} : ConnOK(x, cds[x], inq[x], asks[x], waits[x], stk, misled),
         \A i, j \in Waiters(stk, c) : i = j,
         \A x \in Conns \ {c} : inq'[x] = inq[x] /\ asks'[x] = asks[x] /\ waits'[x] = waits[x],
         misled \subseteq misled'
  PROVE  TableOK(sels', cds') /\ HomesOK(stack', sels', cds') /\ ConnsOK'
<1>1. /\ TableOK(sels', cds') /\ HomesOK(stack', sels', cds') /\ Same(cds, cds', c)
      /\ cds'[c].st \in {"closing", "closed"} /\ \A x \in Conns : Aside(stk, stack', x)
  BY DeregisterOK
<1> DEFINE s2 == stack'
           m2 == misled'
           r2 == cds'[c]
           q2 == inq'[c]
           a2 == asks'[c]
           w2 == waits'[c]
<1>2. (\A x \in Conns : Aside(stk, s2, x)) /\ misled \subseteq m2 /\ r2.st \in {"closing", "closed"}
  BY <1>1
<1> HIDE DEF s2, m2, r2, q2, a2, w2
<1>3. \A i, j \in Waiters(s2, c) : i = j
  BY <1>2, AsideKinds
<1>4. ConnOK(c, r2, q2, a2, w2, s2, m2)
  BY <1>2, <1>3, ShutOK
<1>5. ASSUME NEW x \in Conns \ {c}
      PROVE  ConnOK(x, cds[x], inq[x], asks[x], waits[x], s2, m2)
  <2> DEFINE r == cds[x]
             q == inq[x]
             a == asks[x]
             w == waits[x]
  <2>1. ConnOK(x, r, q, a, w, stk, misled)
    OBVIOUS
  <2> HIDE DEF r, q, a, w
  <2>2. ConnOK(x, r, q, a, w, s2, m2)
    BY <1>2, <2>1, AsideOK
  <2>3. QED BY <2>2 DEF r, q, a, w
<1>6. ASSUME NEW x \in Conns
      PROVE  ConnOK(x, cds'[x], inq'[x], asks'[x], waits'[x], stack', misled')
  <2>1. CASE x = c
    BY <1>4, <2>1 DEF s2, m2, r2, q2, a2, w2
  <2>2. CASE x # c
    BY <1>1, <1>5, <2>2 DEF Same, s2, m2
  <2>3. QED BY <2>1, <2>2
<1>7. QED BY <1>1, <1>6 DEF ConnsOK

(* An activation returns that is of c or of a connection that is closed.   *)
LEMMA PopParts ==
  ASSUME Inv, stack # <<>>, Top.k # "pc", NEW c \in Conns \cup {None},
         HasConn(Top) => Top.c = c \/ ~LiveIn(cds, Top.c)
  PROVE  /\ HomesOK(Pop, sels, cds)
         /\ \A x \in Conns \ {c} : ConnOK(x, cds[x], inq[x], asks[x], waits[x], Pop, misled)
         /\ \A x \in Conns : \A i, j \in Waiters(Pop, x) : i = j
<1>1. HomesOK(stack, sels, cds) /\ TableOK(sels, cds)
  BY DEF Inv
<1> DEFINE L == Len(stack) - 1
           f == Top
           st == Pop
<1>2. On(st, stack, f, L)
  BY <1>1, TopIs
<1>3. HasConn(f) => f.c \in Conns /\ cds[f.c].st \notin {"none", "hs"}
  BY <1>1, TopIs
<1> HIDE DEF L, f, st
<1>4. HomesOK(st, sels, cds)
  BY <1>1, <1>2, HomesPop DEF f
<1>5. ASSUME NEW x \in Conns \ {c}
      PROVE  ConnOK(x, cds[x], inq[x], asks[x], waits[x], st, misled)
  <2> DEFINE r == cds[x]
             q == inq[x]
             a == asks[x]
             w == waits[x]
  <2>1. ConnOK(x, r, q, a, w, stack, misled)
    BY DEF Inv, ConnsOK
  <2>2. r.st \in {"closing", "closed"} \/ ~Keeps(f, x)
    <3>1. SUFFICES ASSUME Keeps(f, x) PROVE r.st \in {"closing", "closed"}
      OBVIOUS
    <3>2. HasConn(f) /\ f.c = x
      BY <3>1 DEF Keeps, HasConn
    <3>3. cds[x].st \in Phases
      BY <1>1 DEF TableOK, CD
    <3>4. QED BY <1>3, <3>2, <3>3 DEF LiveIn, Phases, f
  <2> HIDE DEF r, q, a, w
  <2>3. ConnOK(x, r, q, a, w, st, misled)
    BY <1>2, <2>1, <2>2, PopOK
  <2>4. QED BY <2>3 DEF r, q, a, w
<1>6. ASSUME NEW x \in Conns
      PROVE  \A i, j \in Waiters(st, x) : i = j
  <2>1. \A i, j \in Waiters(stack, x) : i = j
    BY DEF Inv, ConnsOK, ConnOK, WaitOK
  <2>2. \A j \in At(st, x) : j \in At(stack, x) /\ stack[j] = st[j]
    BY <1>2 DEF On, At
  <2>3. QED BY <2>1, <2>2 DEF Waiters
<1>7. QED BY <1>4, <1>5, <1>6 DEF st

(* The batch, the counters, and `stray` and `misled`, stay.                *)
LEMMA RestSame ==
  ASSUME RestOK, UNCHANGED <<hung, ops, env, backlog, evs, stray, misled>>
  PROVE  RestOK'
  BY DEF RestOK

(* A frame is read that begins no evaluation: the handshake, or an answer. *)
LEMMA ReadStep ==
  ASSUME Inv, stack # <<>>, Top.k \in {"ev", "wait"}, NEW c, c = sels[Top.id], c # None, inq[c] # <<>>,
         ReadFrame(Top.id, c)
  PROVE  Inv'
<1> DEFINE id == Top.id
           h == Head(inq[c])
           r == cds[c]
<1>1. TableOK(sels, cds) /\ HomesOK(stack, sels, cds) /\ NetOK(inq, asks, waits) /\ RestOK /\ ConnsOK
  BY DEF Inv
<1>2. c \in Conns /\ id \in Slots /\ r.st \in {"hs", "open"} /\ sels[id] = c
  BY <1>1, TopSlot
<1>3. /\ inq' = [inq EXCEPT ![c] = Tail(inq[c])]
      /\ UNCHANGED <<hung, asks, backlog, evs, ops, env, waits, stray, misled>>
  BY DEF ReadFrame
<1>4. inq[c] \in Seq(Message) /\ waits[c] \in Nat /\ r \in CD
  BY <1>1, <1>2 DEF NetOK, TableOK
<1>5. Read(inq[c], Tail(inq[c]), h)
  BY <1>4, TailRead
<1>6. /\ inq'[c] = Tail(inq[c]) /\ (\A x \in Conns \ {c} : inq'[x] = inq[x])
      /\ inq' \in [Conns -> Seq(Message)]
  BY <1>1, <1>2, <1>3, <1>5 DEF NetOK, Read
<1>7. NetOK(inq', asks', waits')
  BY <1>1, <1>3, <1>6 DEF NetOK
<1>8. RestOK'
  BY <1>1, <1>3, RestSame
<1> DEFINE q == inq[c]
           q2 == inq'[c]
           a == asks[c]
           w == waits[c]
<1>9. ConnOK(c, r, q, a, w, stack, misled) /\ Read(q, q2, h) /\ w \in Nat
  BY <1>1, <1>2, <1>4, <1>5, <1>6 DEF ConnsOK
<1>10. asks'[c] = a /\ waits'[c] = w /\ misled' = misled /\ misled \subseteq misled'
  BY <1>3
<1>11. h \in Message /\ h.t \in {"creds", "sync", "badsync", "async", "badasync", "badhdr", "resp", "badresp"}
  BY <1>5 DEF Read, Message
<1>12. r.st = "hs" => h.t = "creds"
  <2>1. PICK i \in DOMAIN q : q[i] = h
    BY <1>5 DEF Read
  <2>2. QED BY <1>9, <2>1 DEF ConnOK, NewOK
<1>13. stack \in Seq(Frame) /\ cds \in [Conns -> CD]
  BY <1>1 DEF HomesOK, TableOK
<1>14. ASSUME Deregister(id, stack, FALSE)
       PROVE  Inv'
  <2>1. \A x \in Conns \ {c} : ConnOK(x, cds[x], inq[x], asks[x], waits[x], stack, misled)
    BY <1>1 DEF ConnsOK
  <2>2. \A i, j \in Waiters(stack, c) : i = j
    BY <1>9 DEF ConnOK, WaitOK
  <2>3. \A x \in Conns \ {c} : inq'[x] = inq[x] /\ asks'[x] = asks[x] /\ waits'[x] = waits[x]
    BY <1>3, <1>6
  <2>4. TableOK(sels', cds') /\ HomesOK(stack', sels', cds') /\ ConnsOK'
    BY <1>1, <1>2, <1>10, <1>14, <2>1, <2>2, <2>3, CloseStep
  <2>5. QED BY <1>7, <1>8, <2>4 DEF Inv
<1>15. ASSUME NEW r2 \in CD, NEW f, cds' = [cds EXCEPT ![c] = r2], sels' = sels,
              stack' = Append(stack, f), f \in Frame, f.k \in {"po", "pay", "bm"}, f.id = id, f.c = c,
              f.k \in {"pay", "bm"} => f.ptr = r.ptr,
              r2.st = "open", r2.ptr = r.ptr, r2.wait = r.wait, r2.ready = r.ready,
              \A L \in Nat : On(stack, stack', f, L) => ConnOK(c, r2, q2, a, w, stack', misled')
       PROVE  Inv'
  <2>1. On(stack, stack', f, Len(stack)) /\ Len(stack) \in Nat
    BY <1>13, <1>15, PushOn, LenProperties
  <2>2. cds' \in [Conns -> CD] /\ cds'[c] = r2 /\ Same(cds, cds', c)
    BY <1>2, <1>13, <1>15 DEF Same
  <2>3. TableOK(sels', cds')
    <3>1. LiveIn(cds', c) /\ LiveIn(cds, c)
      BY <1>2, <1>15, <2>2 DEF LiveIn
    <3>2. (cds'[c].ready => cds'[c].wait) /\ (cds'[c].wait => cds'[c].st \in {"open", "closing"})
      BY <1>1, <1>2, <1>15, <2>2 DEF TableOK
    <3>3. QED BY <1>1, <1>2, <1>15, <2>2, <3>1, <3>2, TableFields
  <2>4. HomesOK(stack, sels, cds')
    <3>1. CASE r.st = "hs"
      BY <1>1, <1>2, <1>15, <2>2, <3>1, HomesOpen
    <3>2. CASE r.st = "open"
      <4>1. \A x \in Conns : cds'[x].st = cds[x].st /\ cds'[x].ptr = cds[x].ptr
        BY <1>15, <2>2, <3>2 DEF Same
      <4>2. QED BY <1>1, <4>1, HomesFields
    <3>3. QED BY <1>2, <3>1, <3>2
  <2>5. HomesOK(stack', sels', cds')
    <3>1. HasConn(f) /\ cds'[f.c].st = "open" /\ sels[f.id] = f.c /\ f.k # "pc"
      BY <1>2, <1>15, <2>2 DEF HasConn
    <3>2. f.k \in {"pay", "bm", "wait"} => f.ptr = cds'[f.c].ptr
      BY <1>15, <2>2
    <3>3. QED BY <1>15, <2>1, <2>4, <3>1, <3>2, HomesPush
  <2>6. \A x \in Conns \ {c} : /\ cds'[x] = cds[x] /\ inq'[x] = inq[x] /\ asks'[x] = asks[x]
                               /\ waits'[x] = waits[x] /\ Aside(stack, stack', x)
    <3>1. \A x \in Conns \ {c} : Aside(stack, stack', x)
      BY <1>15, <2>1, OnAside DEF Keeps
    <3>2. QED BY <1>3, <1>6, <2>2, <3>1 DEF Same
  <2>7. ConnOK(c, cds'[c], inq'[c], asks'[c], waits'[c], stack', misled')
    BY <1>10, <1>15, <2>1, <2>2
  <2>8. ConnsOK'
    BY <1>1, <1>2, <1>10, <2>6, <2>7, OthersOK
  <2>9. QED BY <1>7, <1>8, <2>3, <2>5, <2>8 DEF Inv
<1>16. CASE h.t = "creds"
  <2>1. CASE Deregister(id, stack, FALSE)
    BY <1>14, <2>1
  <2>2. CASE /\ cds' = [cds EXCEPT ![c].st = "open"]
             /\ stack' = Append(stack, [k |-> "po", id |-> id, c |-> c])
             /\ UNCHANGED sels
    <3> DEFINE r2 == [r EXCEPT !.st = "open"]
               f == [k |-> "po", id |-> id, c |-> c]
    <3>1. /\ r2 \in CD /\ r2.st = "open" /\ r2.ptr = r.ptr /\ r2.wait = r.wait /\ r2.ready = r.ready
          /\ r.st = "open" => r2 = r
      BY <1>4 DEF CD, Phases
    <3>2. f \in Frame /\ f.k = "po" /\ f.id = id /\ f.c = c
      BY <1>2 DEF Frame
    <3>3. cds' = [cds EXCEPT ![c] = r2] /\ sels' = sels /\ stack' = Append(stack, f)
      BY <2>2
    <3> DEFINE s2 == stack'
    <3>4. stack' = s2
      OBVIOUS
    <3>5. r2 = [r EXCEPT !.st = "open"]
      OBVIOUS
    <3>6. ~r.wait \/ r.st = "open"
      BY <1>1, <1>2 DEF TableOK
    <3>7. Same(cds, cds', c) /\ cds'[c].st = "open"
      BY <1>2, <1>13, <3>1, <3>3 DEF Same
    <3> HIDE DEF r2, f, s2, r, q, q2, a, w, h
    <3>8. ASSUME NEW L \in Nat, On(stack, s2, f, L)
          PROVE  ConnOK(c, r2, q2, a, w, s2, misled)
      <4>1. Aside(stack, s2, c)
        BY <3>2, <3>8, OnAside DEF Keeps
      <4>2. CASE r.st = "open"
        <5>1. ConnOK(c, r, q2, a, w, stack, misled)
          BY <1>9, <1>16, <4>2, SkipOK
        <5>2. ConnOK(c, r2, q2, a, w, stack, misled)
          BY <3>1, <4>2, <5>1
        <5>3. QED BY <4>1, <5>2, AsideOK
      <4>3. CASE r.st = "hs"
        <5>1. At(stack, c) = {}
          BY <1>1, <1>2, <3>7, <4>3, HomesOpen DEF r
        <5>2. ConnOK(c, r2, q2, a, w, stack, misled)
          BY <1>4, <1>9, <3>5, <3>6, <4>3, <5>1, OpenOK
        <5>3. QED BY <4>1, <5>2, AsideOK
      <4>4. QED BY <1>2, <4>2, <4>3 DEF r
    <3>9. \A L \in Nat : On(stack, stack', f, L) => ConnOK(c, r2, q2, a, w, stack', misled')
      BY <1>10, <3>4, <3>8
    <3>10. QED BY <1>15, <3>1, <3>2, <3>3, <3>9
  <2>3. QED BY <1>16, <2>1, <2>2 DEF ReadFrame
<1>17. ASSUME r.st = "open", NEW n \in Nat, (h.t = "sync" /\ n = r.seq + 1) \/ (h.t = "async" /\ n = 0),
              /\ cds' = [cds EXCEPT ![c].seq = IF n = 0 THEN @ ELSE n, ![c].cur = n]
              /\ stack' = Append(stack, [k |-> "pay", id |-> id, c |-> c, ptr |-> cds[c].ptr,
                                         n |-> n, prev |-> cds[c].cur])
              /\ UNCHANGED sels
       PROVE  Inv'
  <2> DEFINE r2 == [r EXCEPT !.seq = IF n = 0 THEN @ ELSE n, !.cur = n]
             f == [k |-> "pay", id |-> id, c |-> c, ptr |-> r.ptr, n |-> n, prev |-> r.cur]
  <2>1. /\ r2 \in CD /\ SameAns(r, r2) /\ r2.ptr = r.ptr /\ r2.dseq = r.dseq /\ r2.drep = r.drep
        /\ r2.cur = n /\ r2.seq = IF n = 0 THEN r.seq ELSE n
    BY <1>4, <1>17 DEF CD, SameAns
  <2>2. f \in Frame /\ f.k = "pay" /\ f.id = id /\ f.c = c /\ f.ptr = r.ptr /\ f.n = n /\ f.prev = r.cur
    BY <1>2, <1>4, <1>17 DEF Frame, CD
  <2>3. cds' = [cds EXCEPT ![c] = r2] /\ sels' = sels /\ stack' = Append(stack, f)
    BY <1>17
  <2> DEFINE s2 == stack'
  <2>4. stack' = s2
    OBVIOUS
  <2> HIDE DEF r2, f, s2, r, q, q2, a, w, h
  <2>5. ASSUME NEW L \in Nat, On(stack, s2, f, L)
        PROVE  ConnOK(c, r2, q2, a, w, s2, misled)
    <3>1. Keeps(f, c)
      BY <2>2 DEF Keeps
    <3>2. QED BY <1>4, <1>9, <1>17, <2>1, <2>2, <2>5, <3>1, BeginOK
  <2>6. \A L \in Nat : On(stack, stack', f, L) => ConnOK(c, r2, q2, a, w, stack', misled')
    BY <1>10, <2>4, <2>5
  <2>7. r2.st = "open" /\ r2.wait = r.wait /\ r2.ready = r.ready
    BY <1>17, <2>1 DEF SameAns
  <2>8. QED BY <1>15, <2>1, <2>2, <2>3, <2>6, <2>7
<1>18. ASSUME r.st = "open", NEW n \in Nat,
              (h.t = "badsync" /\ n = r.seq + 1) \/ (h.t \in {"badasync", "badresp"} /\ n = 0),
              /\ cds' = [cds EXCEPT ![c].seq = IF n = 0 THEN @ ELSE n]
              /\ stack' = Append(stack, [k |-> "bm", id |-> id, c |-> c, ptr |-> cds[c].ptr,
                                         n |-> n, resp |-> h.t = "badresp"])
              /\ UNCHANGED sels
       PROVE  Inv'
  <2> DEFINE r2 == [r EXCEPT !.seq = IF n = 0 THEN @ ELSE n]
             f == [k |-> "bm", id |-> id, c |-> c, ptr |-> r.ptr, n |-> n, resp |-> h.t = "badresp"]
  <2>1. /\ r2 \in CD /\ SameAns(r, r2) /\ r2.ptr = r.ptr /\ r2.dseq = r.dseq /\ r2.drep = r.drep
        /\ r2.cur = r.cur /\ r2.seq = IF n = 0 THEN r.seq ELSE n
    BY <1>4, <1>18 DEF CD, SameAns
  <2>2. /\ f \in Frame /\ f.k = "bm" /\ f.id = id /\ f.c = c /\ f.ptr = r.ptr /\ f.n = n
        /\ (f.resp <=> h.t = "badresp")
    <3>1. CASE h.t = "badresp"
      <4>1. n = 0 /\ f = [k |-> "bm", id |-> id, c |-> c, ptr |-> r.ptr, n |-> 0, resp |-> TRUE]
        BY <1>18, <3>1
      <4>2. r.ptr \in 0..MaxConn
        BY <1>4 DEF CD
      <4>3. f \in Frame
        BY <1>2, <4>1, <4>2 DEF Frame
      <4>4. QED BY <3>1, <4>3
    <3>2. CASE h.t # "badresp"
      <4>1. f = [k |-> "bm", id |-> id, c |-> c, ptr |-> r.ptr, n |-> n, resp |-> FALSE]
        BY <3>2
      <4>2. r.ptr \in 0..MaxConn
        BY <1>4 DEF CD
      <4>3. f \in Frame
        BY <1>2, <1>18, <4>1, <4>2 DEF Frame
      <4>4. QED BY <3>2, <4>3
    <3>3. QED BY <3>1, <3>2
  <2>3. cds' = [cds EXCEPT ![c] = r2] /\ sels' = sels /\ stack' = Append(stack, f)
    BY <1>18
  <2> DEFINE s2 == stack'
  <2>4. stack' = s2
    OBVIOUS
  <2> HIDE DEF r2, f, s2, r, q, q2, a, w, h
  <2>5. ASSUME NEW L \in Nat, On(stack, s2, f, L)
        PROVE  ConnOK(c, r2, q2, a, w, s2, misled)
    <3>1. Keeps(f, c)
      BY <2>2 DEF Keeps
    <3>2. QED BY <1>4, <1>9, <1>18, <2>1, <2>2, <2>5, <3>1, MalformedOK
  <2>6. \A L \in Nat : On(stack, stack', f, L) => ConnOK(c, r2, q2, a, w, stack', misled')
    BY <1>10, <2>4, <2>5
  <2>7. r2.st = "open" /\ r2.wait = r.wait /\ r2.ready = r.ready
    BY <1>18, <2>1 DEF SameAns
  <2>8. QED BY <1>15, <2>1, <2>2, <2>3, <2>6, <2>7
<1>19. CASE h.t = "resp"
  <2>1. r.st = "open"
    BY <1>2, <1>12, <1>19
  <2> DEFINE n == h.n
             r2 == [r EXCEPT !.ready = TRUE, !.resp = n]
  <2>2. n \in 0..MaxOps
    <3>1. h.n \in 1..MaxOps
      BY <1>11, <1>19 DEF Message
    <3>2. QED BY <3>1, BoundsAssumption
  <2>3. /\ r2 \in CD /\ SameNum(r, r2) /\ r2.ptr = r.ptr /\ r2.wait = r.wait /\ r2.bad = r.bad
        /\ r2.ready = TRUE /\ r2.resp = h.n /\ r2.slip = r.slip
    <3> HIDE DEF n
    <3>1. r \in CD
      BY <1>4
    <3> HIDE DEF r
    <3>2. r2 \in CD /\ SameNum(r, r2) /\ r2.ptr = r.ptr /\ r2.wait = r.wait /\ r2.bad = r.bad /\ r2.slip = r.slip
      BY <2>2, <3>1 DEF CD, SameNum
    <3>3. r2.ready = TRUE /\ r2.resp = n
      BY <3>1 DEF CD
    <3>4. QED BY <3>2, <3>3 DEF n
  <2>4. /\ cds' = (IF cds[c].wait /\ ~cds[c].ready THEN [cds EXCEPT ![c].ready = TRUE, ![c].resp = h.n] ELSE cds)
        /\ sels' = sels /\ stack' = stack
    BY <1>19 DEF ReadFrame
  <2>5. r.wait /\ ~r.ready => cds' = [cds EXCEPT ![c] = r2]
    BY <2>4
  <2> HIDE DEF r2, r, q, q2, a, w, h
  <2>15. CASE ~(r.wait /\ ~r.ready)
    <3>1. cds' = cds
      BY <2>4, <2>15 DEF r
    <3>2. ConnOK(c, r, q2, a, w, stack, misled)
      BY <1>9, <1>19, <2>1, <2>15, DropOK
    <3>3. ConnOK(c, cds'[c], inq'[c], asks'[c], waits'[c], stack', misled')
      BY <1>10, <2>4, <3>1, <3>2 DEF q2, r
    <3>4. \A x \in Conns \ {c} : /\ cds'[x] = cds[x] /\ inq'[x] = inq[x] /\ asks'[x] = asks[x]
                                  /\ waits'[x] = waits[x] /\ Aside(stack, stack', x)
      BY <1>3, <1>6, <2>4, <3>1 DEF Aside
    <3>5. ConnsOK'
      BY <1>1, <1>2, <1>10, <3>3, <3>4, OthersOK
    <3>6. TableOK(sels', cds') /\ HomesOK(stack', sels', cds')
      BY <1>1, <2>4, <3>1
    <3>7. QED BY <1>7, <1>8, <3>5, <3>6 DEF Inv
  <2>16. SUFFICES ASSUME r.wait /\ ~r.ready
                  PROVE  Inv'
    BY <2>15
  <2>6. r.wait /\ ~r.ready /\ ConnOK(c, r2, q2, a, w, stack, misled)
    BY <1>9, <1>19, <2>1, <2>3, <2>16, DepositOK
  <2>7. cds' \in [Conns -> CD] /\ cds'[c] = r2 /\ Same(cds, cds', c)
    BY <1>2, <1>13, <2>3, <2>5, <2>6 DEF Same
  <2>8. r2.st = "open" /\ cds[c].st = "open"
    BY <2>1, <2>3 DEF SameNum, r
  <2>9. TableOK(sels', cds')
    <3>1. LiveIn(cds', c) /\ LiveIn(cds, c)
      BY <2>7, <2>8 DEF LiveIn
    <3>2. (cds'[c].ready => cds'[c].wait) /\ (cds'[c].wait => cds'[c].st \in {"open", "closing"})
      BY <2>3, <2>6, <2>7, <2>8
    <3>3. QED BY <1>1, <1>2, <2>4, <2>7, <3>1, <3>2, TableFields
  <2>10. HomesOK(stack', sels', cds')
    <3>1. \A x \in Conns : cds'[x].st = cds[x].st /\ cds'[x].ptr = cds[x].ptr
      BY <2>3, <2>7, <2>8 DEF Same, r
    <3>2. HomesOK(stack, sels, cds')
      BY <1>1, <3>1, HomesFields
    <3>3. QED BY <2>4, <3>2
  <2>11. \A x \in Conns \ {c} : /\ cds'[x] = cds[x] /\ inq'[x] = inq[x] /\ asks'[x] = asks[x]
                                /\ waits'[x] = waits[x] /\ Aside(stack, stack', x)
    BY <1>3, <1>6, <2>4, <2>7 DEF Same, Aside
  <2>12. ConnOK(c, cds'[c], inq'[c], asks'[c], waits'[c], stack', misled')
    BY <1>10, <2>4, <2>6, <2>7 DEF q2
  <2>13. ConnsOK'
    BY <1>1, <1>2, <1>10, <2>11, <2>12, OthersOK
  <2>14. QED BY <1>7, <1>8, <2>9, <2>10, <2>13 DEF Inv
<1>20. CASE h.t = "badhdr"
  BY <1>14, <1>20 DEF ReadFrame
<1>21. CASE h.t \in {"sync", "async", "badsync", "badasync", "badresp"}
  <2>1. r.st = "open" /\ r.seq + 1 \in Nat /\ r.seq \in Nat
    BY <1>2, <1>4, <1>12, <1>21 DEF CD
  <2>2. CASE h.t = "sync"
    BY <1>17, <2>1, <2>2 DEF ReadFrame
  <2>3. CASE h.t = "async"
    BY <1>17, <2>1, <2>3 DEF ReadFrame
  <2>4. CASE h.t = "badsync"
    BY <1>18, <2>1, <2>4 DEF ReadFrame
  <2>5. CASE h.t \in {"badasync", "badresp"}
    BY <1>18, <2>1, <2>5 DEF ReadFrame
  <2>6. QED BY <1>21, <2>2, <2>3, <2>4, <2>5
<1>22. QED BY <1>11, <1>16, <1>19, <1>20, <1>21

(* An activation returns that is of no connection, or of a closed one.     *)
LEMMA PopStep ==
  ASSUME Inv, stack # <<>>, Top.k # "pc", HasConn(Top) => ~LiveIn(cds, Top.c),
         stack' = Pop, UNCHANGED <<sels, cds, inq, asks, waits, misled>>, RestOK'
  PROVE  Inv'
<1>1. /\ HomesOK(Pop, sels, cds)
      /\ \A x \in Conns \ {None} : ConnOK(x, cds[x], inq[x], asks[x], waits[x], Pop, misled)
  BY PopParts
<1>2. None \notin Conns
  BY BoundsAssumption DEF None, Conns
<1>3. ConnsOK'
  BY <1>1, <1>2 DEF ConnsOK
<1>4. TableOK(sels', cds') /\ HomesOK(stack', sels', cds') /\ NetOK(inq', asks', waits')
  BY <1>1 DEF Inv
<1>5. QED BY <1>3, <1>4 DEF Inv

(* It returns, and what is in its slot is closed.                          *)
LEMMA ClosePopStep ==
  ASSUME Inv, stack # <<>>, Top.k \notin {"pc", "tm"}, NEW c, c = sels[Top.id], c # None,
         Deregister(Top.id, Pop, FALSE), UNCHANGED <<inq, asks>>, waits' \in [Conns -> Nat],
         \A x \in Conns \ {c} : waits'[x] = waits[x],
         misled \subseteq misled', RestOK'
  PROVE  Inv'
<1>1. TableOK(sels, cds) /\ HomesOK(stack, sels, cds) /\ NetOK(inq, asks, waits)
  BY DEF Inv
<1>2. c \in Conns /\ Top.id \in Slots /\ cds[c].st \in {"hs", "open"} /\ sels[Top.id] = c
  BY <1>1, TopSlot
<1>3. HasConn(Top) => Top.c = c \/ ~LiveIn(cds, Top.c)
  BY <1>1, <1>2, TopIs
<1>4. /\ HomesOK(Pop, sels, cds)
      /\ \A x \in Conns \ {c} : ConnOK(x, cds[x], inq[x], asks[x], waits[x], Pop, misled)
      /\ \A x \in Conns : \A i, j \in Waiters(Pop, x) : i = j
  BY <1>2, <1>3, PopParts
<1>5. \A x \in Conns \ {c} : inq'[x] = inq[x] /\ asks'[x] = asks[x] /\ waits'[x] = waits[x]
  OBVIOUS
<1>6. \A i, j \in Waiters(Pop, c) : i = j
  BY <1>2, <1>4
<1> DEFINE id == Top.id
           stk == Pop
<1>7. /\ id \in Slots /\ sels[id] = c /\ Deregister(id, stk, FALSE) /\ HomesOK(stk, sels, cds)
      /\ \A x \in Conns \ {c} : ConnOK(x, cds[x], inq[x], asks[x], waits[x], stk, misled)
      /\ \A i, j \in Waiters(stk, c) : i = j
  BY <1>2, <1>4, <1>6
<1> HIDE DEF id, stk
<1>8. TableOK(sels', cds') /\ HomesOK(stack', sels', cds') /\ ConnsOK'
  BY <1>1, <1>2, <1>5, <1>7, CloseStep
<1>9. NetOK(inq', asks', waits')
  BY <1>1 DEF NetOK
<1>10. QED BY <1>8, <1>9 DEF Inv

(* A connection is made.                                                   *)
LEMMA RegisterStep ==
  ASSUME TableOK(sels, cds), HomesOK(stack, sels, cds), NetOK(inq, asks, waits), ConnsOK, CanOpen,
         NEW phase \in {"hs", "open"}, Register(phase), UNCHANGED <<asks, waits, stack, misled>>,
         inq' = IF phase = "hs" THEN [inq EXCEPT ![NextConn] = <<[t |-> "creds"]>>] ELSE inq
  PROVE  TableOK(sels', cds') /\ HomesOK(stack', sels', cds') /\ NetOK(inq', asks', waits') /\ ConnsOK'
<1> DEFINE c == NextConn
           id == FreeSlot
<1>1. c \in Conns /\ cds[c].st = "none" /\ id \in Slots /\ sels[id] = None
  BY FreshConn
<1>2. PICK p \in Addresses(c) : sels' = [sels EXCEPT ![id] = c] /\ cds' = [cds EXCEPT ![c] = Fresh(p, phase)]
  BY DEF Register
<1>3. inq' = IF phase = "hs" THEN [inq EXCEPT ![c] = <<[t |-> "creds"]>>] ELSE inq
  OBVIOUS
<1> HIDE DEF c, id
<1>4. cds \in [Conns -> CD] /\ sels \in [Slots -> Conns \cup {None}]
  BY DEF TableOK
<1>5. p \in 0..MaxConn
  <2>1. c \in 0..MaxConn
    BY <1>1, BoundsAssumption DEF Conns
  <2>2. \A d \in Conns : cds[d].ptr \in 0..MaxConn
    BY <1>4 DEF CD
  <2>3. QED BY <1>2, <2>1, <2>2 DEF Addresses
<1> DEFINE r == Fresh(p, phase)
<1>6. /\ r \in CD /\ r.st = phase /\ r.wait = FALSE /\ r.ready = FALSE /\ r.seq = 0 /\ r.cur = 0
      /\ r.dseq = 0 /\ r.drep = FALSE
  BY <1>5, BoundsAssumption DEF Fresh, CD, Phases
<1>7. cds' = [cds EXCEPT ![c] = r]
  BY <1>2
<1> HIDE DEF r
<1>8. cds' \in [Conns -> CD] /\ cds'[c] = r /\ Same(cds, cds', c)
  BY <1>1, <1>4, <1>6, <1>7 DEF Same
<1>9. TableOK(sels', cds')
  BY <1>1, <1>2, <1>6, <1>8, TableRegister
<1>10. HomesOK(stack', sels', cds')
  <2>1. HomesOK(stack, sels', cds')
    BY <1>1, <1>2, <1>6, <1>8, HomesRegister
  <2>2. QED BY <2>1
<1>11. inq[c] = <<>> /\ asks[c] = <<>> /\ waits[c] = 0
  BY <1>1 DEF ConnsOK, ConnOK, NewOK
<1> DEFINE q == IF phase = "hs" THEN <<[t |-> "creds"]>> ELSE <<>>
<1>12. q \in Seq(Message) /\ (\A i \in DOMAIN q : q[i].t = "creds") /\ (phase = "open" => q = <<>>)
  <2>1. [t |-> "creds"] \in Message
    BY DEF Message
  <2>2. QED BY <2>1
<1>13. inq' \in [Conns -> Seq(Message)] /\ inq'[c] = q /\ \A x \in Conns \ {c} : inq'[x] = inq[x]
  BY <1>1, <1>3, <1>11, <1>12 DEF NetOK
<1> HIDE DEF q
<1>14. NetOK(inq', asks', waits')
  BY <1>13 DEF NetOK
<1>15. At(stack, c) = {}
  <2>1. \A j \in DOMAIN stack : HasConn(stack[j]) => stack[j].c # c
    BY <1>1 DEF HomesOK
  <2>2. QED BY <2>1 DEF At, HasConn
<1>16. Waiters(stack, c) = {} /\ Reqs(stack, c) = {} /\ Pays(stack, c) = {} /\ BadResps(stack, c) = {}
  BY <1>15 DEF Waiters, Reqs, Pays, BadResps
<1>17. ConnOK(c, r, q, <<>>, 0, stack, misled)
  <2>1. WaitOK(c, r, stack) /\ NewOK(r, q, <<>>, 0, misled)
    BY <1>6, <1>12, <1>16 DEF WaitOK, NewOK
  <2>2. ASSUME phase = "open"
        PROVE  AnsOK(c, r, q, <<>>, stack) /\ NumOK(c, r, q, 0, stack) /\ RepOK(c, r, 0, stack)
    <3>1. SyncsIn(q) = {} /\ Resps(q) = {}
      BY <1>12, <2>2 DEF SyncsIn, Resps
    <3>2. AnsOK(c, r, q, <<>>, stack)
      BY <1>6, <1>16, <3>1 DEF AnsOK, Straight
    <3>3. NumOK(c, r, q, 0, stack) /\ RepOK(c, r, 0, stack)
      BY <1>6, <1>16, <3>1 DEF NumOK, RepOK
    <3>4. QED BY <3>2, <3>3
  <2>3. QED BY <1>6, <2>1, <2>2 DEF ConnOK
<1>18. ConnOK(c, cds'[c], inq'[c], asks'[c], waits'[c], stack', misled')
  BY <1>8, <1>11, <1>13, <1>17
<1>19. \A x \in Conns \ {c} : /\ cds'[x] = cds[x] /\ inq'[x] = inq[x] /\ asks'[x] = asks[x]
                              /\ waits'[x] = waits[x] /\ Aside(stack, stack', x)
  BY <1>8, <1>13 DEF Same, Aside
<1>20. ConnsOK'
  BY <1>1, <1>18, <1>19, OthersOK
<1>21. QED BY <1>9, <1>10, <1>14, <1>20

(* The rest of a batch.                                                    *)
LEMMA TailBatch ==
  ASSUME RestOK, evs # <<>>, evs' = Tail(evs)
  PROVE  /\ evs' \in Seq([id : Slots \cup {Listener}, hup : BOOLEAN])
         /\ \A i, j \in DOMAIN evs' : evs'[i].id = evs'[j].id => i = j
         /\ \A i \in DOMAIN evs' : (evs'[i].id = Listener => backlog > 0) /\ evs'[i].id # Head(evs).id
         /\ Head(evs) \in [id : Slots \cup {Listener}, hup : BOOLEAN]
         /\ Head(evs).id = Listener => backlog > 0
<1> DEFINE E == [id : Slots \cup {Listener}, hup : BOOLEAN]
           e2 == Tail(evs)
           h == Head(evs)
<1>1. /\ evs \in Seq(E) /\ (\A i, j \in DOMAIN evs : evs[i].id = evs[j].id => i = j)
      /\ \A i \in DOMAIN evs : evs[i].id = Listener => backlog > 0
  BY DEF RestOK
<1> HIDE DEF E
<1>2. /\ e2 \in Seq(E) /\ Len(e2) = Len(evs) - 1 /\ Len(evs) \in Nat /\ Len(evs) >= 1
      /\ h = evs[1] /\ \A i \in 1..(Len(evs) - 1) : e2[i] = evs[i + 1]
  BY <1>1
<1>3. DOMAIN evs = 1..Len(evs) /\ DOMAIN e2 = 1..(Len(evs) - 1)
  BY <1>1, <1>2, LenProperties
<1> HIDE DEF e2, h
<1>4. 1 \in DOMAIN evs /\ evs[1] = h /\ h \in E
  BY <1>1, <1>2, <1>3, ElementOfSeq
<1>5. \A i \in DOMAIN e2 : i \in Int /\ i + 1 \in DOMAIN evs /\ i + 1 # 1 /\ e2[i] = evs[i + 1]
  BY <1>2, <1>3
<1>6. \A i, j \in DOMAIN e2 : e2[i].id = e2[j].id => i = j
  BY <1>1, <1>5
<1>7. \A i \in DOMAIN e2 : (e2[i].id = Listener => backlog > 0) /\ e2[i].id # h.id
  BY <1>1, <1>4, <1>5
<1>8. evs' = e2
  BY DEF e2
<1>9. h.id = Listener => backlog > 0
  BY <1>1, <1>4
<1>10. QED BY <1>2, <1>4, <1>6, <1>7, <1>8, <1>9 DEF E, h

(* The stack, the connections and the network stay.                        *)
LEMMA CoreSame ==
  ASSUME Inv, UNCHANGED <<sels, cds, inq, asks, waits, stack, misled>>, RestOK'
  PROVE  Inv'
<1>1. TableOK(sels', cds') /\ HomesOK(stack', sels', cds') /\ NetOK(inq', asks', waits')
  BY DEF Inv
<1>2. ConnsOK'
  BY DEF Inv, ConnsOK
<1>3. QED BY <1>1, <1>2 DEF Inv

(* The loop begins an event or a timer.                                    *)
LEMMA BottomStep ==
  ASSUME Inv, stack = <<>>, NEW f \in Frame, ~HasConn(f), stack' = <<f>>,
         UNCHANGED <<sels, cds, inq, asks, waits, misled>>, RestOK'
  PROVE  Inv'
<1>1. TableOK(sels, cds) /\ HomesOK(stack, sels, cds) /\ stack \in Seq(Frame)
  BY DEF Inv, HomesOK
<1>2. stack' = Append(stack, f) /\ Len(stack) = 0
  OBVIOUS
<1>3. On(stack, stack', f, 0)
  BY <1>1, <1>2, PushOn
<1>4. f.k # "pc" /\ f.k \notin {"pay", "bm", "wait"}
  BY DEF HasConn
<1>5. HomesOK(stack', sels, cds)
  BY <1>1, <1>3, <1>4, HomesPush
<1>6. \A x \in Conns : Aside(stack, stack', x)
  BY <1>3, <1>4, OnAside DEF Keeps
<1>7. ASSUME NEW x \in Conns
      PROVE  ConnOK(x, cds[x], inq[x], asks[x], waits[x], stack', misled)
  <2> DEFINE r == cds[x]
             q == inq[x]
             a == asks[x]
             w == waits[x]
             s2 == stack'
  <2>1. ConnOK(x, r, q, a, w, stack, misled) /\ Aside(stack, s2, x)
    BY <1>6 DEF Inv, ConnsOK
  <2> HIDE DEF r, q, a, w, s2
  <2>2. ConnOK(x, r, q, a, w, s2, misled)
    BY <2>1, AsideOK
  <2>3. QED BY <2>2 DEF r, q, a, w, s2
<1>8. ConnsOK'
  BY <1>7 DEF ConnsOK
<1>9. TableOK(sels', cds') /\ HomesOK(stack', sels', cds') /\ NetOK(inq', asks', waits')
  BY <1>1, <1>5 DEF Inv
<1>10. QED BY <1>8, <1>9 DEF Inv

LEMMA EpollWaitInv ==
  ASSUME Inv, EpollWait
  PROVE  Inv'
<1>1. RestOK /\ TableOK(sels, cds)
  BY DEF Inv
<1> DEFINE n == Cardinality(ReadySlots)
           E == [id : Slots \cup {Listener}, hup : BOOLEAN]
<1>2. ReadySlots \subseteq 0..MaxConn /\ ReadySlots \subseteq Slots \cup {Listener}
  BY BoundsAssumption DEF ReadySlots, Slots, Listener
<1>3. n \in Nat
  <2>1. IsFiniteSet(0..MaxConn)
    BY FS_Interval, BoundsAssumption
  <2>2. IsFiniteSet(ReadySlots)
    BY <1>2, <2>1, FS_Subset
  <2>3. QED BY <2>2, FS_CardinalityType
<1>4. /\ evs' \in [1..n -> [id : ReadySlots, hup : BOOLEAN]]
      /\ \A i, j \in DOMAIN evs' : evs'[i].id = evs'[j].id => i = j
  BY DEF EpollWait, Batches
<1> HIDE DEF n
<1>5. evs' \in [1..n -> E]
  BY <1>2, <1>4
<1> HIDE DEF E
<1>6. evs' \in Seq(E)
  BY <1>3, <1>5
<1>7. \A i \in DOMAIN evs' : evs'[i].id = Listener => backlog > 0
  <2>1. \A i \in DOMAIN evs' : evs'[i].id \in ReadySlots
    BY <1>4
  <2>2. Listener \in ReadySlots => backlog > 0
    BY BoundsAssumption DEF ReadySlots, Slots, Listener
  <2>3. QED BY <2>1, <2>2
<1>8. UNCHANGED <<sels, cds, inq, hung, waits, asks, backlog, stack, ops, env, stray, misled>>
  BY DEF EpollWait
<1>9. RestOK'
  BY <1>1, <1>4, <1>6, <1>7, <1>8 DEF RestOK, E
<1>10. QED BY <1>8, <1>9, CoreSame

LEMMA NextEventInv ==
  ASSUME Inv, NextEvent
  PROVE  Inv'
<1>1. RestOK
  BY DEF Inv
<1>2. /\ stack = <<>> /\ evs # <<>> /\ Head(evs).id # Listener /\ evs' = Tail(evs)
      /\ UNCHANGED <<sels, cds, inq, hung, waits, asks, backlog, ops, env, stray, misled>>
  BY DEF NextEvent
<1>3. RestOK'
  BY <1>1, <1>2, TailBatch DEF RestOK
<1>4. CASE sels[Head(evs).id] = None
  BY <1>2, <1>3, <1>4, CoreSame DEF NextEvent
<1>5. CASE sels[Head(evs).id] # None
  <2> DEFINE f == [k |-> "ev", id |-> Head(evs).id, hup |-> Head(evs).hup]
  <2>1. Head(evs) \in [id : Slots \cup {Listener}, hup : BOOLEAN]
    BY <1>1, <1>2, TailBatch
  <2>2. f \in Frame /\ ~HasConn(f)
    BY <1>2, <2>1 DEF Frame, HasConn
  <2>3. stack' = <<f>>
    BY <1>5 DEF NextEvent
  <2> HIDE DEF f
  <2>4. QED BY <1>2, <1>3, <2>2, <2>3, BottomStep
<1>6. QED BY <1>4, <1>5

LEMMA AcceptInv ==
  ASSUME Inv, Accept
  PROVE  Inv'
<1>1. RestOK /\ TableOK(sels, cds) /\ HomesOK(stack, sels, cds) /\ NetOK(inq, asks, waits) /\ ConnsOK
  BY DEF Inv
<1>2. /\ evs # <<>> /\ Head(evs).id = Listener /\ evs' = Tail(evs) /\ backlog' = backlog - 1
      /\ UNCHANGED <<hung, waits, asks, stack, ops, env, stray, misled>>
  BY DEF Accept
<1>3. RestOK'
  <2>1. /\ evs' \in Seq([id : Slots \cup {Listener}, hup : BOOLEAN])
        /\ \A i, j \in DOMAIN evs' : evs'[i].id = evs'[j].id => i = j
        /\ \A i \in DOMAIN evs' : evs'[i].id # Listener
        /\ backlog > 0
    BY <1>1, <1>2, TailBatch
  <2>2. backlog' \in 0..env' /\ env' = env
    BY <1>1, <1>2, <2>1, BoundsAssumption DEF RestOK
  <2>3. QED BY <1>1, <1>2, <2>1, <2>2 DEF RestOK
<1>4. CASE CanOpen
  <2>1. Register("hs") /\ inq' = [inq EXCEPT ![NextConn] = <<[t |-> "creds"]>>]
    BY <1>4 DEF Accept
  <2>2. inq' = IF "hs" = "hs" THEN [inq EXCEPT ![NextConn] = <<[t |-> "creds"]>>] ELSE inq
    BY <2>1
  <2>3. "hs" \in {"hs", "open"}
    OBVIOUS
  <2>4. TableOK(sels', cds') /\ HomesOK(stack', sels', cds') /\ NetOK(inq', asks', waits') /\ ConnsOK'
    BY <1>1, <1>2, <1>4, <2>1, <2>2, <2>3, RegisterStep
  <2>5. QED BY <1>3, <2>4 DEF Inv
<1>5. CASE ~CanOpen
  BY <1>2, <1>3, <1>5, CoreSame DEF Accept
<1>6. QED BY <1>4, <1>5

LEMMA EventReadInv ==
  ASSUME Inv, EventRead
  PROVE  Inv'
  BY ReadStep DEF EventRead, EventConn, Running

LEMMA EventEofInv ==
  ASSUME Inv, EventEof
  PROVE  Inv'
<1>1. /\ stack # <<>> /\ Top.k = "ev" /\ sels[Top.id] # None /\ Deregister(Top.id, Pop, FALSE)
      /\ UNCHANGED <<inq, hung, waits, asks, backlog, evs, ops, env, stray, misled>>
  BY DEF EventEof, EventConn, Running
<1>2. waits' \in [Conns -> Nat] /\ RestOK'
  BY <1>1, RestSame DEF Inv, NetOK
<1>3. QED BY <1>1, <1>2, ClosePopStep

LEMMA EventDoneInv ==
  ASSUME Inv, EventDone
  PROVE  Inv'
<1>1. /\ stack # <<>> /\ Top.k = "ev" /\ ~HasConn(Top)
      /\ UNCHANGED <<inq, hung, waits, asks, backlog, evs, ops, env, stray, misled>>
  BY DEF EventDone, Running, HasConn
<1>2. waits' \in [Conns -> Nat] /\ RestOK'
  BY <1>1, RestSame DEF Inv, NetOK
<1>3. CASE Deregister(Top.id, Pop, FALSE) /\ sels[Top.id] # None
  BY <1>1, <1>2, <1>3, ClosePopStep
<1>4. CASE stack' = Pop /\ UNCHANGED table
  BY <1>1, <1>2, <1>4, PopStep DEF table
<1>5. QED BY <1>3, <1>4 DEF EventDone, DeregisterAny

LEMMA TimerInv ==
  ASSUME Inv, Timer
  PROVE  Inv'
<1> DEFINE f == [k |-> "tm"]
<1>1. f \in Frame /\ ~HasConn(f)
  BY DEF Frame, HasConn
<1>2. /\ stack = <<>> /\ stack' = <<f>>
      /\ UNCHANGED <<sels, cds, inq, hung, waits, asks, backlog, evs, ops, env, stray, misled>>
  BY DEF Timer, Idle
<1> HIDE DEF f
<1>3. RestOK'
  BY <1>2, RestSame DEF Inv
<1>4. QED BY <1>1, <1>2, <1>3, BottomStep

(* A connection is closed while everything on the stack goes on.           *)
LEMMA CloseHereStep ==
  ASSUME Inv, NEW id \in Slots, NEW c \in Conns, NEW local, sels[id] = c, cds[c].st \in {"hs", "open"},
         Deregister(id, stack, local), UNCHANGED <<inq, asks, waits, misled>>, RestOK'
  PROVE  Inv'
<1>1. TableOK(sels, cds) /\ HomesOK(stack, sels, cds) /\ NetOK(inq, asks, waits) /\ ConnsOK
  BY DEF Inv
<1>2. /\ \A x \in Conns \ {c} : ConnOK(x, cds[x], inq[x], asks[x], waits[x], stack, misled)
      /\ \A i, j \in Waiters(stack, c) : i = j
  BY <1>1 DEF ConnsOK, ConnOK, WaitOK
<1>3. \A x \in Conns \ {c} : inq'[x] = inq[x] /\ asks'[x] = asks[x] /\ waits'[x] = waits[x]
  OBVIOUS
<1>4. misled \subseteq misled'
  OBVIOUS
<1>5. TableOK(sels', cds') /\ HomesOK(stack', sels', cds') /\ ConnsOK'
  BY <1>1, <1>2, <1>3, <1>4, CloseStep
<1>6. NetOK(inq', asks', waits')
  BY <1>1
<1>7. QED BY <1>5, <1>6 DEF Inv

LEMMA WaitReadInv ==
  ASSUME Inv, WaitRead
  PROVE  Inv'
  BY ReadStep DEF WaitRead, WaitConn, Running

LEMMA WaitEofInv ==
  ASSUME Inv, WaitEof
  PROVE  Inv'
<1>1. /\ stack # <<>> /\ Top.k = "wait" /\ sels[Top.id] # None /\ Deregister(Top.id, stack, FALSE)
      /\ UNCHANGED <<inq, hung, waits, asks, backlog, evs, ops, env, stray, misled>>
  BY DEF WaitEof, WaitConn, Running
<1>2. RestOK' /\ TableOK(sels, cds) /\ HomesOK(stack, sels, cds)
  BY <1>1, RestSame DEF Inv
<1>3. Top.id \in Slots /\ sels[Top.id] \in Conns /\ cds[sels[Top.id]].st \in {"hs", "open"}
  BY <1>1, <1>2, TopSlot
<1>4. QED BY <1>1, <1>2, <1>3, CloseHereStep

LEMMA WaitReadyInv ==
  ASSUME Inv, WaitReady
  PROVE  Inv'
<1> DEFINE d == sels[Top.id]
           r == cds[d]
           f == Top
           st == Pop
           L == Len(stack) - 1
<1>1. TableOK(sels, cds) /\ HomesOK(stack, sels, cds) /\ NetOK(inq, asks, waits) /\ ConnsOK /\ RestOK
  BY DEF Inv
<1>2. /\ stack # <<>> /\ f.k = "wait" /\ d # None /\ r.ready
      /\ UNCHANGED <<sels, inq, hung, waits, asks, backlog, evs, ops, env, stray, misled>>
  BY DEF WaitReady, WaitConn, Mine, Running
<1>3. On(st, stack, f, L) /\ f.id \in Slots /\ d \in Conns
  BY <1>1, <1>2, TopIs, TopSlot
<1>4. r \in CD /\ cds \in [Conns -> CD] /\ r.wait
  BY <1>1, <1>2, <1>3 DEF TableOK
<1>5. f.c = d /\ r.st = "open"
  BY <1>2, <1>4, WaitsHere
<1>6. RestOK' /\ NetOK(inq', asks', waits')
  BY <1>1, <1>2, RestSame
<1>7. /\ HomesOK(st, sels, cds)
      /\ \A x \in Conns \ {d} : ConnOK(x, cds[x], inq[x], asks[x], waits[x], st, misled)
      /\ \A i, j \in Waiters(st, d) : i = j
  BY <1>2, <1>3, <1>5, PopParts
<1> DEFINE r1 == Consumed(r)
           r2 == [r1 EXCEPT !.st = "closing"]
           g == [k |-> "pc", id |-> f.id, c |-> d]
<1>8. /\ r1 \in CD /\ r1.st = r.st /\ r1.ptr = r.ptr /\ r1.wait = FALSE /\ r1.ready = FALSE /\ SameNum(r, r1)
      /\ r1.slip = r.slip
      /\ r2 \in CD /\ r2.st = "closing" /\ r2.ptr = r.ptr /\ r2.wait = FALSE /\ r2.ready = FALSE
  <2>1. r \in CD /\ 0 \in 0..MaxOps
    BY <1>4, BoundsAssumption
  <2> HIDE DEF r
  <2>2. /\ r1 \in CD /\ r1.st = r.st /\ r1.ptr = r.ptr /\ r1.wait = FALSE /\ r1.ready = FALSE /\ SameNum(r, r1)
        /\ r1.slip = r.slip
    BY <2>1 DEF CD, Consumed, SameNum
  <2> HIDE DEF r1
  <2>3. r2 \in CD /\ r2.st = "closing" /\ r2.ptr = r1.ptr /\ r2.wait = r1.wait /\ r2.ready = r1.ready
    BY <2>2 DEF CD, Phases
  <2>4. QED BY <2>2, <2>3
<1>9. g \in Frame /\ g.k = "pc" /\ g.c = d /\ g.id = f.id
  BY <1>3 DEF Frame
<1>10. \/ cds' = [cds EXCEPT ![d] = r1] /\ stack' = st
       \/ cds' = [cds EXCEPT ![d] = r2] /\ stack' = Append(st, g)
  BY <1>3, <1>4 DEF WaitReady, WaitConn
<1> HIDE DEF r1, r2, g, st, L, f
<1>11. CASE cds' = [cds EXCEPT ![d] = r1] /\ stack' = st
  <2>1. cds' \in [Conns -> CD] /\ cds'[d] = r1 /\ Same(cds, cds', d)
    BY <1>3, <1>4, <1>8, <1>11 DEF Same
  <2>2. TableOK(sels', cds')
    <3>1. LiveIn(cds', d) /\ LiveIn(cds, d)
      BY <1>5, <1>8, <2>1 DEF LiveIn
    <3>2. (cds'[d].ready => cds'[d].wait) /\ (cds'[d].wait => cds'[d].st \in {"open", "closing"})
      BY <1>8, <2>1
    <3>3. TableOK(sels, cds')
      BY <1>1, <1>3, <2>1, <3>1, <3>2, TableFields
    <3>4. QED BY <1>2, <3>3
  <2>3. HomesOK(stack', sels', cds')
    <3>1. \A x \in Conns : cds'[x].st = cds[x].st /\ cds'[x].ptr = cds[x].ptr
      BY <1>8, <2>1 DEF Same
    <3>2. HomesOK(st, sels, cds')
      BY <1>7, <3>1, HomesFields
    <3>3. QED BY <1>2, <1>11, <3>2
  <2> DEFINE q == inq[d]
             a == asks[d]
             w == waits[d]
  <2>4. ConnOK(d, r, q, a, w, stack, misled)
    BY <1>1, <1>3 DEF ConnsOK
  <2>5. Keeps(f, d)
    BY <1>2, <1>5 DEF Keeps
  <2>6. r.st = "open" /\ r.ready /\ f.k = "wait"
    BY <1>2, <1>5
  <2> HIDE DEF q, a, w, d, r
  <2>7. ConnOK(d, r1, q, a, w, st, misled)
    BY <1>3, <1>8, <2>4, <2>5, <2>6, AnsweredOK
  <2>8. ASSUME NEW x \in Conns
        PROVE  ConnOK(x, cds'[x], inq'[x], asks'[x], waits'[x], stack', misled')
    <3>1. CASE x = d
      BY <1>2, <1>11, <2>1, <2>7, <3>1 DEF q, a, w
    <3>2. CASE x # d
      BY <1>2, <1>7, <1>11, <2>1, <3>2 DEF Same
    <3>3. QED BY <3>1, <3>2
  <2>9. ConnsOK'
    BY <2>8 DEF ConnsOK
  <2>10. QED BY <1>6, <2>2, <2>3, <2>9 DEF Inv
<1>12. CASE cds' = [cds EXCEPT ![d] = r2] /\ stack' = Append(st, g)
  <2>1. cds' \in [Conns -> CD] /\ cds'[d] = r2 /\ Same(cds, cds', d)
    BY <1>3, <1>4, <1>8, <1>12 DEF Same
  <2>2. TableOK(sels', cds')
    <3>1. LiveIn(cds', d) /\ LiveIn(cds, d)
      BY <1>5, <1>8, <2>1 DEF LiveIn
    <3>2. (cds'[d].ready => cds'[d].wait) /\ (cds'[d].wait => cds'[d].st \in {"open", "closing"})
      BY <1>8, <2>1
    <3>3. TableOK(sels, cds')
      BY <1>1, <1>3, <2>1, <3>1, <3>2, TableFields
    <3>4. QED BY <1>2, <3>3
  <2>3. st \in Seq(Frame)
    BY <1>3 DEF On
  <2>4. On(st, stack', g, Len(st))
    BY <1>9, <1>12, <2>3, PushOn
  <2>5. HomesOK(stack', sels', cds')
    <3>1. sels[g.id] = d
      BY <1>9 DEF f
    <3>2. HomesOK(stack', sels, cds')
      BY <1>3, <1>5, <1>7, <1>8, <1>9, <2>1, <2>4, <3>1, HomesClose
    <3>3. QED BY <1>2, <3>2
  <2>6. \A x \in Conns : Aside(st, stack', x)
    BY <1>9, <2>4, OnAside DEF Keeps
  <2>7. ASSUME NEW x \in Conns
        PROVE  ConnOK(x, cds'[x], inq[x], asks[x], waits[x], stack', misled)
    <3> DEFINE q == inq[x]
               a == asks[x]
               w == waits[x]
               p == cds[x]
               s2 == stack'
    <3>1. CASE x = d
      <4>1. \A i, j \in Waiters(s2, x) : i = j
        BY <1>7, <2>6, <3>1, AsideKinds
      <4>2. cds'[x].st = "closing"
        BY <1>8, <2>1, <3>1
      <4> DEFINE p2 == cds'[x]
      <4>3. p2.st \in {"closing", "closed"}
        BY <4>2
      <4> HIDE DEF q, a, w, s2, p2
      <4>4. ConnOK(x, p2, q, a, w, s2, misled)
        BY <4>1, <4>3, ShutOK
      <4>5. QED BY <4>4 DEF q, a, w, s2, p2
    <3>2. CASE x # d
      <4>1. ConnOK(x, p, q, a, w, st, misled) /\ Aside(st, s2, x) /\ cds'[x] = p
        BY <1>7, <2>1, <2>6, <3>2 DEF Same
      <4> HIDE DEF q, a, w, p, s2
      <4>2. ConnOK(x, p, q, a, w, s2, misled)
        BY <4>1, AsideOK
      <4>3. QED BY <4>1, <4>2 DEF q, a, w, s2
    <3>3. QED BY <3>1, <3>2
  <2>8. ConnsOK'
    BY <1>2, <2>7 DEF ConnsOK
  <2>9. QED BY <1>6, <2>2, <2>5, <2>8 DEF Inv
<1>13. QED BY <1>10, <1>11, <1>12

LEMMA WaitGoneInv ==
  ASSUME Inv, WaitGone
  PROVE  Inv'
<1>1. /\ stack # <<>> /\ Top.k = "wait" /\ ~Mine /\ stack' = Pop
      /\ UNCHANGED <<sels, cds, inq, hung, waits, asks, backlog, evs, ops, env, stray, misled>>
  BY DEF WaitGone, Running
<1>2. RestOK' /\ HomesOK(stack, sels, cds)
  BY <1>1, RestSame DEF Inv
<1>3. HasConn(Top) => ~LiveIn(cds, Top.c)
  <2>1. None \notin Conns
    BY BoundsAssumption DEF None, Conns
  <2>2. QED BY <1>1, <1>2, <2>1, TopIs DEF HasConn, Mine, WaitConn
<1>4. QED BY <1>1, <1>2, <1>3, PopStep

(* The batch and the backlog stay, and nothing goes astray unexplained.    *)
LEMMA RestStep ==
  ASSUME RestOK, UNCHANGED <<hung, env, backlog, evs>>, ops' \in 0..MaxOps, stray' \in BOOLEAN,
         misled' \in SUBSET {"address", "deferral"}, stray' => misled' # {}
  PROVE  RestOK'
  BY DEF RestOK

LEMMA OpRest ==
  ASSUME RestOK, Op, UNCHANGED <<hung, env, backlog, evs, stray, misled>>
  PROVE  RestOK' /\ ops + 1 \in 1..MaxOps /\ ops' = ops + 1
<1>1. ops' = ops + 1 /\ ops < MaxOps /\ ops \in 0..MaxOps
  BY DEF Op, RestOK
<1>2. ops' \in 0..MaxOps /\ ops + 1 \in 1..MaxOps
  BY <1>1, BoundsAssumption
<1>3. QED BY <1>1, <1>2 DEF RestOK

(* The slot of a connection.                                               *)
LEMMA SlotIs ==
  ASSUME TableOK(sels, cds), NEW c \in Conns, LiveIn(cds, c)
  PROVE  SlotOf(c) \in Slots /\ sels[SlotOf(c)] = c
<1>1. \E i \in Slots : sels[i] = c
  BY DEF TableOK
<1>2. QED BY <1>1 DEF SlotOf

(* The record of c changes in the fields of its requests.                  *)
LEMMA RecordStep ==
  ASSUME Inv, NEW c \in Conns, NEW r2 \in CD, cds' = [cds EXCEPT ![c] = r2], SameAns(cds[c], r2),
         r2.ptr = cds[c].ptr, UNCHANGED <<sels, stack, inq, asks>>, waits' \in [Conns -> Nat],
         \A x \in Conns \ {c} : waits'[x] = waits[x], misled \subseteq misled', RestOK',
         ConnOK(c, r2, inq[c], asks[c], waits'[c], stack, misled')
  PROVE  Inv'
<1>1. TableOK(sels, cds) /\ HomesOK(stack, sels, cds) /\ NetOK(inq, asks, waits) /\ ConnsOK /\ cds \in [Conns -> CD]
  BY DEF Inv, TableOK
<1>2. cds' \in [Conns -> CD] /\ cds'[c] = r2 /\ Same(cds, cds', c)
  BY <1>1 DEF Same
<1>3. TableOK(sels', cds')
  <2>1. LiveIn(cds', c) <=> LiveIn(cds, c)
    BY <1>2 DEF LiveIn, SameAns
  <2>2. (cds'[c].ready => cds'[c].wait) /\ (cds'[c].wait => cds'[c].st \in {"open", "closing"})
    BY <1>1, <1>2 DEF TableOK, SameAns
  <2>3. TableOK(sels, cds')
    BY <1>1, <1>2, <2>1, <2>2, TableFields
  <2>4. QED BY <2>3
<1>4. HomesOK(stack', sels', cds')
  <2>1. \A x \in Conns : cds'[x].st = cds[x].st /\ cds'[x].ptr = cds[x].ptr
    BY <1>2 DEF Same, SameAns
  <2>2. HomesOK(stack, sels, cds')
    BY <1>1, <2>1, HomesFields
  <2>3. QED BY <2>2
<1>5. \A x \in Conns \ {c} : /\ cds'[x] = cds[x] /\ inq'[x] = inq[x] /\ asks'[x] = asks[x]
                             /\ waits'[x] = waits[x] /\ Aside(stack, stack', x)
  BY <1>2 DEF Same, Aside
<1>6. ConnOK(c, cds'[c], inq'[c], asks'[c], waits'[c], stack', misled')
  BY <1>2
<1>7. ConnsOK'
  BY <1>1, <1>5, <1>6, OthersOK
<1>8. NetOK(inq', asks', waits')
  BY <1>1 DEF NetOK
<1>9. QED BY <1>3, <1>4, <1>7, <1>8 DEF Inv

LEMMA SyncSendInv ==
  ASSUME Inv, NEW c \in Conns, SyncSend(c)
  PROVE  Inv'
<1> DEFINE r == cds[c]
           r2 == [r EXCEPT !.wait = TRUE, !.ready = FALSE, !.bad = FALSE, !.resp = 0]
           n == ops + 1
           f == [k |-> "wait", id |-> SlotOf(c), c |-> c, ptr |-> cds[c].ptr, n |-> ops + 1]
<1>1. TableOK(sels, cds) /\ HomesOK(stack, sels, cds) /\ NetOK(inq, asks, waits) /\ ConnsOK /\ RestOK
  BY DEF Inv
<1>2. /\ Op /\ r.st = "open" /\ ~r.wait
      /\ cds' = [cds EXCEPT ![c] = r2] /\ asks' = [asks EXCEPT ![c] = Append(asks[c], n)]
      /\ stack' = Append(stack, f)
      /\ UNCHANGED <<sels, inq, hung, waits, backlog, evs, env, stray, misled>>
  BY <1>1 DEF SyncSend, Resolved, Busy
<1>3. RestOK' /\ n \in 1..MaxOps
  BY <1>1, <1>2, OpRest
<1>4. SlotOf(c) \in Slots /\ sels[SlotOf(c)] = c
  BY <1>1, <1>2, SlotIs DEF LiveIn
<1>5. r \in CD /\ cds \in [Conns -> CD] /\ stack \in Seq(Frame)
  BY <1>1 DEF TableOK, HomesOK
<1>6. f \in Frame /\ f.k = "wait" /\ f.id = SlotOf(c) /\ f.c = c /\ f.ptr = r.ptr /\ f.n = n
  <2>1. cds[c].ptr \in 0..MaxConn
    BY <1>5 DEF CD
  <2>2. QED BY <1>3, <1>4, <2>1 DEF Frame
<1>7. /\ r2 \in CD /\ SameNum(r, r2) /\ r2.ptr = r.ptr /\ r2.wait = TRUE /\ r2.ready = FALSE /\ r2.bad = FALSE
      /\ r2.slip = r.slip
  <2>1. r \in CD /\ 0 \in 0..MaxOps
    BY <1>5, BoundsAssumption
  <2> HIDE DEF r
  <2>2. QED BY <2>1 DEF CD, SameNum
<1> HIDE DEF r2, f, n
<1>8. cds' \in [Conns -> CD] /\ cds'[c] = r2 /\ Same(cds, cds', c) /\ r2.st = "open"
  BY <1>2, <1>5, <1>7 DEF Same, SameNum
<1>9. TableOK(sels', cds')
  <2>1. LiveIn(cds', c) /\ LiveIn(cds, c)
    BY <1>2, <1>8 DEF LiveIn
  <2>2. (cds'[c].ready => cds'[c].wait) /\ (cds'[c].wait => cds'[c].st \in {"open", "closing"})
    BY <1>7, <1>8
  <2>3. TableOK(sels, cds')
    BY <1>1, <1>8, <2>1, <2>2, TableFields
  <2>4. QED BY <1>2, <2>3
<1>10. On(stack, stack', f, Len(stack))
  BY <1>2, <1>5, <1>6, PushOn
<1>11. HomesOK(stack', sels', cds')
  <2>1. \A x \in Conns : cds'[x].st = cds[x].st /\ cds'[x].ptr = cds[x].ptr
    BY <1>2, <1>7, <1>8 DEF Same
  <2>2. HomesOK(stack, sels, cds')
    BY <1>1, <2>1, HomesFields
  <2>3. HasConn(f) /\ cds'[f.c].st = "open" /\ sels[f.id] = f.c /\ f.k # "pc" /\ f.ptr = cds'[f.c].ptr
    BY <1>4, <1>6, <1>7, <1>8 DEF HasConn
  <2>4. HomesOK(stack', sels, cds')
    BY <1>10, <2>2, <2>3, HomesPush
  <2>5. QED BY <1>2, <2>4
<1>12. asks[c] \in Seq(1..MaxOps) /\ asks \in [Conns -> Seq(1..MaxOps)]
  BY <1>1 DEF NetOK
<1>13. Append(asks[c], n) \in Seq(1..MaxOps)
  BY <1>3, <1>12, AppendProperties
<1>14. /\ asks' \in [Conns -> Seq(1..MaxOps)] /\ asks'[c] = Append(asks[c], n)
       /\ \A x \in Conns \ {c} : asks'[x] = asks[x]
  BY <1>2, <1>12, <1>13
<1>15. NetOK(inq', asks', waits')
  BY <1>1, <1>2, <1>14 DEF NetOK
<1>16. ConnOK(c, cds'[c], inq'[c], asks'[c], waits'[c], stack', misled')
  <2> DEFINE q == inq[c]
             a == asks[c]
             w == waits[c]
             s2 == stack'
             L == Len(stack)
  <2>1. ConnOK(c, r, q, a, w, stack, misled) /\ a \in Seq(1..MaxOps) /\ On(stack, s2, f, L)
    BY <1>1, <1>10, <1>12 DEF ConnsOK
  <2>2. Keeps(f, c) /\ r.st = "open" /\ ~r.wait
    BY <1>2, <1>6 DEF Keeps
  <2> HIDE DEF r, q, a, w, s2, L
  <2>3. ConnOK(c, r2, q, Append(a, n), w, s2, misled)
    BY <1>3, <1>6, <1>7, <2>1, <2>2, CallOK
  <2>4. QED BY <1>2, <1>8, <1>14, <2>3 DEF q, a, w, s2
<1>17. \A x \in Conns \ {c} : /\ cds'[x] = cds[x] /\ inq'[x] = inq[x] /\ asks'[x] = asks[x]
                              /\ waits'[x] = waits[x] /\ Aside(stack, stack', x)
  <2>1. \A x \in Conns \ {c} : Aside(stack, stack', x)
    BY <1>6, <1>10, OnAside DEF Keeps
  <2>2. QED BY <1>2, <1>8, <1>14, <2>1 DEF Same
<1>18. misled \subseteq misled'
  BY <1>2
<1>19. ConnsOK'
  BY <1>1, <1>16, <1>17, <1>18, OthersOK
<1>20. QED BY <1>3, <1>9, <1>11, <1>15, <1>19 DEF Inv

LEMMA CloseConnInv ==
  ASSUME Inv, NEW c \in Conns, NEW local \in BOOLEAN, CloseConn(c, local)
  PROVE  Inv'
<1>1. /\ Op /\ cds[c].st = "open" /\ Deregister(SlotOf(c), stack, local)
      /\ UNCHANGED <<inq, hung, waits, asks, backlog, evs, env, stray, misled>>
  BY DEF CloseConn, Resolved
<1>2. RestOK' /\ TableOK(sels, cds)
  BY <1>1, OpRest DEF Inv
<1>3. SlotOf(c) \in Slots /\ sels[SlotOf(c)] = c
  BY <1>1, <1>2, SlotIs DEF LiveIn
<1>4. QED BY <1>1, <1>2, <1>3, CloseHereStep

LEMMA ConnectInv ==
  ASSUME Inv, Connect
  PROVE  Inv'
<1>1. TableOK(sels, cds) /\ HomesOK(stack, sels, cds) /\ NetOK(inq, asks, waits) /\ ConnsOK /\ RestOK
  BY DEF Inv
<1>2. /\ Op /\ CanOpen /\ Register("open")
      /\ UNCHANGED <<inq, hung, waits, asks, backlog, stack, evs, env, stray, misled>>
  BY DEF Connect
<1>3. RestOK'
  BY <1>1, <1>2, OpRest
<1>4. inq' = IF "open" = "hs" THEN [inq EXCEPT ![NextConn] = <<[t |-> "creds"]>>] ELSE inq
  BY <1>2
<1>5. "open" \in {"hs", "open"}
  OBVIOUS
<1>6. TableOK(sels', cds') /\ HomesOK(stack', sels', cds') /\ NetOK(inq', asks', waits') /\ ConnsOK'
  BY <1>1, <1>2, <1>4, <1>5, RegisterStep
<1>7. QED BY <1>3, <1>6 DEF Inv

(* .z.w names a slot.                                                      *)
LEMMA CtxIs ==
  ASSUME HomesOK(stack, sels, cds), CtxSlot # None
  PROVE  CtxSlot \in Slots
<1> DEFINE n == Len(stack)
           T == {n - i : i \in Contexts}
<1>1. stack \in Seq(Frame) /\ n \in Nat /\ DOMAIN stack = 1..n
  BY LenProperties DEF HomesOK
<1>2. Contexts # {} /\ Contexts \subseteq 1..n
  BY <1>1 DEF CtxSlot, Contexts
<1>3. T \in SUBSET Nat /\ T # {}
  <2>1. \A i \in Contexts : n - i \in Nat
    BY <1>1, <1>2
  <2>2. QED BY <1>2, <2>1
<1>4. PICK t \in T : \A u \in T : t <= u
  BY <1>3, LeastExists
<1>5. PICK i \in Contexts : t = n - i
  BY <1>4
<1>6. \A j \in Contexts : j <= i
  <2>1. ASSUME NEW j \in Contexts
        PROVE  j <= i
    <3>1. n - j \in T
      OBVIOUS
    <3>2. n - i <= n - j
      BY <1>4, <1>5, <3>1
    <3>3. QED BY <1>1, <1>2, <3>2
  <2>2. QED BY <2>1
<1> DEFINE k == CHOOSE i2 \in Contexts : \A j \in Contexts : j <= i2
<1>7. k \in Contexts
  BY <1>6
<1>8. CtxSlot = stack[k].id
  BY <1>2 DEF CtxSlot
<1> HIDE DEF k
<1>9. k \in DOMAIN stack /\ stack[k].k # "tm"
  BY <1>7 DEF Contexts
<1>10. QED BY <1>1, <1>8, <1>9, FrameTypes

LEMMA DeferResponseInv ==
  ASSUME Inv, DeferResponse
  PROVE  Inv'
<1> DEFINE d == sels[CtxSlot]
           r == cds[d]
           n == r.cur
           r2 == [r EXCEPT !.dseq = n, !.drep = FALSE]
<1>1. TableOK(sels, cds) /\ HomesOK(stack, sels, cds) /\ NetOK(inq, asks, waits) /\ ConnsOK /\ RestOK
  BY DEF Inv
<1>2. /\ Op /\ CtxSlot # None /\ d # None /\ n # 0 /\ r.dseq # n /\ MayDefer(d)
      /\ cds' = [cds EXCEPT ![d] = r2]
      /\ misled' = (IF Displaces(d) THEN misled \cup {"deferral"} ELSE misled)
      /\ UNCHANGED <<sels, inq, hung, waits, asks, backlog, stack, evs, env, stray>>
  BY DEF DeferResponse
<1>3. CtxSlot \in Slots
  BY <1>1, <1>2, CtxIs
<1>4. d \in Conns /\ LiveIn(cds, d) /\ r \in CD
  BY <1>1, <1>2, <1>3 DEF TableOK
<1>5. r.st \in {"hs", "open", "closing"}
  BY <1>4 DEF LiveIn
<1>6. /\ r2 \in CD /\ SameAns(r, r2) /\ r2.ptr = r.ptr /\ r2.seq = r.seq /\ r2.cur = r.cur
      /\ r2.dseq = r.cur /\ r2.drep = FALSE
  <2>1. r \in CD
    BY <1>4
  <2> HIDE DEF r
  <2>2. QED BY <2>1 DEF CD, SameAns
<1>7. misled \subseteq misled' /\ misled' \in SUBSET {"address", "deferral"} /\ (stray' => misled' # {})
  BY <1>1, <1>2 DEF RestOK
<1>8. RestOK'
  <2>1. ops' = ops + 1 /\ ops < MaxOps /\ ops \in 0..MaxOps /\ stray \in BOOLEAN
    BY <1>1, <1>2 DEF Op, RestOK
  <2>2. ops' \in 0..MaxOps
    BY <2>1, BoundsAssumption
  <2>3. QED BY <1>1, <1>2, <1>7, <2>1, <2>2, RestStep
<1>9. misled' = {} => ~(r.dseq # 0 /\ \E i \in Pays(stack, d) : stack[i].n = r.dseq)
  <2>1. SUFFICES ASSUME r.dseq # 0, NEW i \in Pays(stack, d), stack[i].n = r.dseq PROVE misled' # {}
    OBVIOUS
  <2>2. i \in Frames("pay") /\ stack[i].c = d
    BY DEF Pays, At, Frames
  <2>3. Displaces(d)
    BY <2>1, <2>2 DEF Displaces
  <2>4. QED BY <1>2, <2>3
<1>10. r.dseq = 0 \/ r.drep
  BY <1>2 DEF MayDefer
<1> DEFINE q == inq[d]
           a == asks[d]
           w == waits[d]
           m2 == misled'
<1>11. ConnOK(d, r, q, a, w, stack, misled) /\ w \in Nat
  BY <1>1, <1>4 DEF ConnsOK, NetOK
<1>12. ConnOK(d, r2, q, a, w, stack, m2)
  <2>1. misled \subseteq m2 /\ (m2 = {} => ~(r.dseq # 0 /\ \E i \in Pays(stack, d) : stack[i].n = r.dseq))
    BY <1>7, <1>9
  <2>2. CASE r.st = "closing"
    <3>1. r2.st \in {"closing", "closed"}
      BY <1>6, <2>2 DEF SameAns
    <3>2. \A i, j \in Waiters(stack, d) : i = j
      BY <1>11 DEF ConnOK, WaitOK
    <3> HIDE DEF r2, q, a, w, m2, d
    <3>3. QED BY <3>1, <3>2, ShutOK
  <2>3. CASE r.st \in {"hs", "open"}
    <3>1. r.cur # 0 /\ r.dseq # r.cur /\ r \in CD
      BY <1>2, <1>4
    <3> HIDE DEF r2, q, a, w, m2, r, d, n
    <3>2. QED BY <1>6, <1>10, <1>11, <2>1, <2>3, <3>1, DeferOK
  <2>4. QED BY <1>5, <2>2, <2>3
<1>13. waits' \in [Conns -> Nat] /\ (\A x \in Conns \ {d} : waits'[x] = waits[x]) /\ waits'[d] = w
  BY <1>1, <1>2 DEF NetOK
<1>14. UNCHANGED <<sels, stack, inq, asks>>
  BY <1>2
<1>15. ConnOK(d, r2, inq[d], asks[d], waits'[d], stack, misled')
  BY <1>12, <1>13
<1>16. SameAns(cds[d], r2) /\ r2.ptr = cds[d].ptr /\ r2 \in CD /\ cds' = [cds EXCEPT ![d] = r2] /\ d \in Conns
  BY <1>2, <1>4, <1>6
<1> HIDE DEF r2, d
<1>17. QED BY <1>7, <1>8, <1>13, <1>14, <1>15, <1>16, RecordStep

LEMMA SendDeferredInv ==
  ASSUME Inv, NEW c \in Conns, SendDeferred(c)
  PROVE  Inv'
<1> DEFINE r == cds[c]
           r2 == [r EXCEPT !.drep = TRUE]
           w == waits[c]
           w2 == IF w = r.dseq THEN 0 ELSE w
<1>1. TableOK(sels, cds) /\ NetOK(inq, asks, waits) /\ ConnsOK /\ RestOK
  BY DEF Inv
<1>2. /\ Op /\ r.st = "open" /\ r.dseq # 0 /\ ~r.drep /\ SendResponse(c, c, r.dseq)
      /\ cds' = [cds EXCEPT ![c] = r2]
      /\ UNCHANGED <<sels, inq, hung, asks, backlog, stack, evs, env, misled>>
  BY DEF SendDeferred, Resolved
<1>3. r \in CD /\ w \in Nat
  BY <1>1 DEF TableOK, NetOK
<1>4. /\ r2 \in CD /\ SameAns(r, r2) /\ r2.ptr = r.ptr /\ r2.seq = r.seq /\ r2.cur = r.cur
      /\ r2.dseq = r.dseq /\ r2.drep = TRUE
  <2>1. r \in CD
    BY <1>3
  <2> HIDE DEF r
  <2>2. QED BY <2>1 DEF CD, SameAns
<1>5. /\ waits' \in [Conns -> Nat] /\ (\A x \in Conns \ {c} : waits'[x] = waits[x]) /\ waits'[c] = w2
      /\ (w = r.dseq => stray' = stray) /\ (w # r.dseq => stray' = TRUE)
  <2>1. waits \in [Conns -> Nat]
    BY <1>1 DEF NetOK
  <2>2. CASE w = r.dseq
    <3>1. waits' = [waits EXCEPT ![c] = 0] /\ stray' = stray
      BY <1>2, <2>2 DEF SendResponse
    <3>2. QED BY <2>1, <2>2, <3>1
  <2>3. CASE w # r.dseq
    <3>1. waits' = waits /\ stray' = TRUE
      BY <1>2, <2>3 DEF SendResponse
    <3>2. QED BY <2>1, <2>3, <3>1
  <2>4. QED BY <2>2, <2>3
<1> DEFINE q == inq[c]
           a == asks[c]
<1>6. ConnOK(c, r, q, a, w, stack, misled)
  BY <1>1 DEF ConnsOK
<1>7. Sent(r, r2, w, w2)
  BY <1>2, <1>3, <1>4 DEF Sent
<1>8. ConnOK(c, r2, q, a, w2, stack, misled) /\ (misled = {} => w = r.dseq)
  <2> HIDE DEF r2, q, a, w, w2, r
  <2>1. QED BY <1>6, <1>7, SentOK
<1>9. RestOK'
  <2>1. ops' = ops + 1 /\ ops < MaxOps /\ ops \in 0..MaxOps /\ stray \in BOOLEAN /\ (stray => misled # {})
    BY <1>1, <1>2 DEF Op, RestOK
  <2>2. ops' \in 0..MaxOps
    BY <2>1, BoundsAssumption
  <2>3. misled' \in SUBSET {"address", "deferral"} /\ stray' \in BOOLEAN
    BY <1>1, <1>2, <1>5 DEF RestOK
  <2>4. stray' => misled' # {}
    BY <1>2, <1>5, <1>8, <2>1
  <2>5. QED BY <1>1, <1>2, <2>2, <2>3, <2>4, RestStep
<1>10. UNCHANGED <<sels, stack, inq, asks>> /\ misled \subseteq misled'
  BY <1>2
<1>11. ConnOK(c, r2, inq[c], asks[c], waits'[c], stack, misled')
  BY <1>2, <1>5, <1>8
<1> HIDE DEF r2
<1>12. QED BY <1>2, <1>4, <1>5, <1>9, <1>10, <1>11, RecordStep

(* An activation returns to what is in its slot and changes its record.    *)
LEMMA PopRecordStep ==
  ASSUME Inv, stack # <<>>, Top.k \in {"pay", "bm"}, NEW d, d = sels[Top.id], d # None,
         NEW r2 \in CD, cds' = [cds EXCEPT ![d] = r2], r2.st = cds[d].st, r2.ptr = cds[d].ptr,
         r2.wait = cds[d].wait, r2.ready => r2.wait,
         stack' = Pop, UNCHANGED <<sels, inq, asks>>, waits' \in [Conns -> Nat],
         \A x \in Conns \ {d} : waits'[x] = waits[x], misled \subseteq misled', RestOK',
         ConnOK(d, r2, inq[d], asks[d], waits'[d], Pop, misled')
  PROVE  Inv'
<1>1. TableOK(sels, cds) /\ HomesOK(stack, sels, cds) /\ NetOK(inq, asks, waits) /\ cds \in [Conns -> CD]
  BY DEF Inv, TableOK
<1>2. d \in Conns /\ cds[d].st \in {"hs", "open"}
  BY <1>1, TopSlot
<1>3. HasConn(Top) => Top.c = d \/ ~LiveIn(cds, Top.c)
  BY <1>1, TopIs
<1>4. /\ HomesOK(Pop, sels, cds)
      /\ \A x \in Conns \ {d} : ConnOK(x, cds[x], inq[x], asks[x], waits[x], Pop, misled)
  BY <1>2, <1>3, PopParts
<1>5. cds' \in [Conns -> CD] /\ cds'[d] = r2 /\ Same(cds, cds', d)
  BY <1>1, <1>2 DEF Same
<1>6. TableOK(sels', cds')
  <2>1. LiveIn(cds', d) <=> LiveIn(cds, d)
    BY <1>5 DEF LiveIn
  <2>2. (cds'[d].ready => cds'[d].wait) /\ (cds'[d].wait => cds'[d].st \in {"open", "closing"})
    BY <1>1, <1>2, <1>5 DEF TableOK
  <2>3. TableOK(sels, cds')
    BY <1>1, <1>2, <1>5, <2>1, <2>2, TableFields
  <2>4. QED BY <2>3
<1>7. HomesOK(stack', sels', cds')
  <2>1. \A x \in Conns : cds'[x].st = cds[x].st /\ cds'[x].ptr = cds[x].ptr
    BY <1>5 DEF Same
  <2>2. HomesOK(Pop, sels, cds')
    BY <1>4, <2>1, HomesFields
  <2>3. QED BY <2>2
<1>8. ASSUME NEW x \in Conns \ {d}
      PROVE  ConnOK(x, cds[x], inq[x], asks[x], waits[x], Pop, misled')
  <2> DEFINE r == cds[x]
             q == inq[x]
             a == asks[x]
             w == waits[x]
             st == Pop
             m2 == misled'
  <2>1. ConnOK(x, r, q, a, w, st, misled) /\ misled \subseteq m2 /\ Aside(st, st, x)
    BY <1>4 DEF Aside
  <2> HIDE DEF r, q, a, w, st, m2
  <2>2. ConnOK(x, r, q, a, w, st, m2)
    BY <2>1, AsideOK
  <2>3. QED BY <2>2 DEF r, q, a, w, st, m2
<1>9. ASSUME NEW x \in Conns
      PROVE  ConnOK(x, cds'[x], inq'[x], asks'[x], waits'[x], stack', misled')
  <2>1. CASE x = d
    BY <1>5, <2>1
  <2>2. CASE x # d
    BY <1>5, <1>8, <2>2 DEF Same
  <2>3. QED BY <2>1, <2>2
<1>10. ConnsOK'
  BY <1>9 DEF ConnsOK
<1>11. NetOK(inq', asks', waits')
  BY <1>1 DEF NetOK
<1>12. QED BY <1>6, <1>7, <1>10, <1>11 DEF Inv

(* What is in the slot of the innermost activation is taken for its        *)
(* connection if it has the address, and it is that connection unless that *)
(* one is closed.                                                          *)
LEMMA TakenFor ==
  ASSUME Inv, stack # <<>>, Top.k \in {"pay", "bm", "wait"}
  PROVE  /\ ~(sels[Top.id] # None /\ cds[sels[Top.id]].ptr = Top.ptr) => ~LiveIn(cds, Top.c)
         /\ sels[Top.id] = Top.c => /\ Top.c # None /\ cds[Top.c].ptr = Top.ptr
                                    /\ cds[Top.c].st = "open"
<1>1. TableOK(sels, cds) /\ HomesOK(stack, sels, cds)
  BY DEF Inv
<1>2. None \notin Conns
  BY BoundsAssumption DEF None, Conns
<1>3. HasConn(Top)
  BY DEF HasConn
<1>4. /\ Top.c \in Conns /\ cds[Top.c].st \notin {"none", "hs"}
      /\ LiveIn(cds, Top.c) => sels[Top.id] = Top.c
      /\ Top.ptr = cds[Top.c].ptr
  BY <1>1, <1>3, TopIs
<1>5. sels[Top.id] # None => cds[sels[Top.id]].st \in {"hs", "open"}
  BY <1>1, TopSlot
<1>6. QED BY <1>2, <1>4, <1>5

LEMMA RequestReturnsInv ==
  ASSUME Inv, RequestReturns
  PROVE  Inv'
<1> DEFINE f == Top
           d == sels[f.id]
           r == cds[d]
           n == f.n
           live == d # None /\ r.ptr = f.ptr
           L == Len(stack) - 1
<1>1. TableOK(sels, cds) /\ HomesOK(stack, sels, cds) /\ NetOK(inq, asks, waits) /\ ConnsOK /\ RestOK
  BY DEF Inv
<1>2. /\ stack # <<>> /\ f.k = "pay" /\ stack' = Pop
      /\ UNCHANGED <<sels, inq, hung, asks, backlog, evs, ops, env>>
      /\ misled' = (IF live /\ d # f.c THEN misled \cup {"address"} ELSE misled)
  BY DEF RequestReturns, Running, Mistakes
<1>3. On(Pop, stack, f, L) /\ f.id \in Slots /\ f \in Frame /\ HasConn(f)
  BY <1>1, <1>2, TopIs DEF HasConn
<1>4. n \in Nat /\ f.prev \in Nat
  BY <1>2, <1>3 DEF Frame
<1>5. misled \subseteq misled' /\ misled' \in SUBSET {"address", "deferral"} /\ stray \in BOOLEAN
  BY <1>1, <1>2 DEF RestOK
<1>6. stray => misled' # {}
  BY <1>1, <1>5 DEF RestOK
<1>7. waits \in [Conns -> Nat] /\ ops \in 0..MaxOps
  BY <1>1 DEF NetOK, RestOK
<1>8. CASE ~live
  <2>1. cds' = cds /\ waits' = waits /\ stray' = stray /\ misled' = misled
    BY <1>2, <1>8 DEF RequestReturns
  <2>2. RestOK'
    BY <1>1, <1>2, <2>1, RestSame
  <2>3. HasConn(Top) => ~LiveIn(cds, Top.c)
    BY <1>2, <1>8, TakenFor
  <2>4. QED BY <1>2, <2>1, <2>2, <2>3, PopStep
<1>9. CASE live
  <2> DEFINE own == n # 0 /\ r.dseq = n
             e == IF own /\ r.drep THEN 0 ELSE r.dseq
             r2 == [r EXCEPT !.cur = f.prev, !.dseq = e]
  <2>1. d \in Conns /\ r.st \in {"hs", "open"} /\ r \in CD /\ cds \in [Conns -> CD]
    BY <1>1, <1>2, <1>9, TopSlot DEF TableOK
  <2>2. cds' = [cds EXCEPT ![d] = r2]
    BY <1>9, <2>1 DEF RequestReturns, Owed, Settled
  <2>3. e \in Nat
    BY <2>1 DEF CD
  <2>4. /\ r2 \in CD /\ SameAns(r, r2) /\ r2.ptr = r.ptr /\ r2.seq = r.seq /\ r2.cur = f.prev
        /\ r2.dseq = e /\ r2.drep = r.drep
    <3>1. r \in CD /\ f.prev \in Nat
      BY <1>4, <2>1
    <3> HIDE DEF r, e, f
    <3>2. QED BY <2>3, <3>1 DEF CD, SameAns
  <2>5. IF n # 0 /\ ~own THEN SendResponse(d, f.c, n) ELSE UNCHANGED <<waits, stray>>
    BY <1>9 DEF RequestReturns, Owed
  <2>6. r2.st = cds[d].st /\ r2.ptr = cds[d].ptr /\ r2.wait = cds[d].wait /\ (r2.ready => r2.wait)
    BY <1>1, <2>1, <2>4 DEF SameAns, TableOK
  <2>7. CASE d = f.c
    <3> DEFINE w == waits[d]
               w2 == IF n # 0 /\ r.dseq # n /\ w = n THEN 0 ELSE w
               q == inq[d]
               a == asks[d]
               st == Pop
    <3>1. r.st = "open"
      BY <1>2, <2>7, TakenFor
    <3>2. misled' = misled
      BY <1>2, <2>7
    <3>3. /\ waits' \in [Conns -> Nat] /\ (\A x \in Conns \ {d} : waits'[x] = waits[x]) /\ waits'[d] = w2
          /\ stray' = stray \/ (stray' = TRUE /\ n # 0 /\ r.dseq # n /\ w # n)
      <4>1. CASE n # 0 /\ ~own /\ w = n
        <5>1. waits' = [waits EXCEPT ![d] = 0] /\ stray' = stray
          BY <2>5, <2>7, <4>1 DEF SendResponse
        <5>2. QED BY <1>7, <2>1, <4>1, <5>1
      <4>2. CASE n # 0 /\ ~own /\ w # n
        <5>1. waits' = waits /\ stray' = TRUE
          BY <2>5, <2>7, <4>2 DEF SendResponse
        <5>2. QED BY <1>7, <2>1, <4>2, <5>1
      <4>3. CASE ~(n # 0 /\ ~own)
        BY <1>7, <2>1, <2>5, <4>3
      <4>4. QED BY <4>1, <4>2, <4>3
    <3>4. Returned(r, r2, w, w2, f)
      <4>1. w \in Nat
        BY <1>7, <2>1
      <4>2. r2.dseq = IF f.n # 0 /\ r.dseq = f.n /\ r.drep THEN 0 ELSE r.dseq
        BY <2>4
      <4>3. w2 = IF f.n # 0 /\ r.dseq # f.n /\ w = f.n THEN 0 ELSE w
        OBVIOUS
      <4> HIDE DEF r, r2, w, w2, f, e
      <4>4. QED BY <1>2, <1>4, <2>1, <2>4, <3>1, <4>1, <4>2, <4>3 DEF Returned, n
    <3>5. ConnOK(d, r, q, a, w, stack, misled) /\ Keeps(f, d) /\ On(st, stack, f, L)
      BY <1>1, <1>2, <1>3, <2>1, <2>7 DEF ConnsOK, Keeps
    <3>6. ConnOK(d, r2, q, a, w2, st, misled) /\ (misled = {} /\ f.n # 0 /\ r.dseq # f.n => w = f.n)
      <4> HIDE DEF r, r2, w, w2, f, q, a, st, d, L
      <4>1. QED BY <3>4, <3>5, ReturnOK
    <3>7. stray' \in BOOLEAN /\ (stray' => misled' # {})
      <4> HIDE DEF r2, r, w2, w
      <4>1. CASE stray' = stray
        BY <1>5, <1>6, <4>1
      <4>2. CASE stray' = TRUE /\ n # 0 /\ r.dseq # n /\ w # n
        <5>1. misled' # {}
          BY <3>2, <3>6, <4>2
        <5>2. QED BY <4>2, <5>1
      <4>3. QED BY <3>3, <4>1, <4>2
    <3>8. RestOK'
      BY <1>1, <1>2, <1>5, <1>7, <3>7, RestStep
    <3>9. ConnOK(d, r2, inq[d], asks[d], waits'[d], Pop, misled')
      BY <3>2, <3>3, <3>6
    <3>10. Top.k \in {"pay", "bm"} /\ d = sels[Top.id] /\ d # None /\ r2 \in CD
      BY <1>2, <1>9, <2>4
    <3> HIDE DEF r2, d
    <3>11. QED BY <1>2, <1>5, <2>2, <2>6, <3>3, <3>8, <3>9, <3>10, PopRecordStep
  <2>8. CASE d # f.c
    <3>1. "address" \in misled'
      BY <1>2, <1>9, <2>8
    <3>2. waits' = waits /\ (stray' = stray \/ stray' = TRUE)
      BY <2>5, <2>8 DEF SendResponse
    <3>3. RestOK'
      <4>1. stray' \in BOOLEAN /\ (stray' => misled' # {})
        BY <1>5, <3>1, <3>2
      <4>2. QED BY <1>1, <1>2, <1>5, <1>7, <4>1, RestStep
    <3> DEFINE q == inq[d]
               a == asks[d]
               w == waits[d]
               st == Pop
               m2 == misled'
    <3>4. ConnOK(d, r, q, a, w, stack, misled) /\ ~Keeps(f, d) /\ On(st, stack, f, L)
      BY <1>1, <1>3, <2>1, <2>8 DEF ConnsOK, Keeps
    <3>5. "address" \in m2
      BY <3>1
    <3>6. ConnOK(d, r2, q, a, w, st, m2)
      <4> HIDE DEF r, r2, q, a, w, st, m2, f, d, L
      <4>1. ConnOK(d, r, q, a, w, st, misled)
        BY <3>4, PopOK
      <4>2. WaitOK(d, r2, st) /\ (r.st = "open" => AnsOK(d, r2, q, a, st))
        BY <2>4, <4>1, AnsKept DEF ConnOK
      <4>3. NewOK(r2, q, a, w, m2)
        BY <2>4, <3>5, <4>1 DEF ConnOK, NewOK, SameAns
      <4>4. QED BY <2>4, <3>5, <4>2, <4>3 DEF ConnOK, SameAns
    <3>7. ConnOK(d, r2, inq[d], asks[d], waits'[d], Pop, misled')
      BY <3>2, <3>6
    <3>8. Top.k \in {"pay", "bm"} /\ d = sels[Top.id] /\ d # None /\ r2 \in CD
      BY <1>2, <1>9, <2>4
    <3>9. waits' \in [Conns -> Nat] /\ \A x \in Conns \ {d} : waits'[x] = waits[x]
      BY <1>7, <3>2
    <3> HIDE DEF r2, d
    <3>10. QED BY <1>2, <1>5, <2>2, <2>6, <3>3, <3>7, <3>8, <3>9, PopRecordStep
  <2>9. QED BY <2>7, <2>8
<1>10. QED BY <1>8, <1>9

(* sync_send gives up on a wait that failed: the call returns, and from    *)
(* here on an answer nobody waits for may arrive on its connection.        *)
LEMMA WaitFailsInv ==
  ASSUME Inv, WaitFails
  PROVE  Inv'
<1> DEFINE f == Top
           d == sels[f.id]
           r == cds[d]
           st == Pop
           L == Len(stack) - 1
<1>1. TableOK(sels, cds) /\ HomesOK(stack, sels, cds) /\ NetOK(inq, asks, waits) /\ RestOK /\ ConnsOK
  BY DEF Inv
<1>2. /\ stack # <<>> /\ f.k = "wait" /\ d # None /\ ~r.ready /\ stack' = st
      /\ cds' = [cds EXCEPT ![d].wait = FALSE, ![d].slip = @ \/ d = f.c]
      /\ UNCHANGED <<sels, inq, hung, waits, asks, backlog, evs, ops, stray, misled>>
  BY DEF WaitFails, WaitConn, Mine, Running
<1>3. On(st, stack, f, L) /\ f.id \in Slots /\ d \in Conns /\ HasConn(f)
  BY <1>1, <1>2, TopIs, TopSlot DEF HasConn
<1>4. r \in CD /\ cds \in [Conns -> CD]
  BY <1>1, <1>3 DEF TableOK
<1>5. RestOK'
  <2>1. env \in Nat /\ env' = env + 1 /\ env < MaxPeer /\ backlog \in 0..env
    BY <1>1 DEF WaitFails, RestOK
  <2>2. env' \in 0..MaxPeer /\ backlog' \in 0..env'
    BY <1>2, <2>1, BoundsAssumption
  <2>3. QED BY <1>1, <1>2, <2>2 DEF RestOK
<1>6. CASE d # f.c
  <2>1. r.wait = FALSE
    <3>1. ~r.wait
      BY <1>2, <1>6, WaitsHere
    <3>2. QED BY <1>4, <3>1 DEF CD
  <2>2. [r EXCEPT !.wait = FALSE, !.slip = @ \/ d = f.c] = r
    <3>1. r \in CD /\ (r.slip \/ d = f.c) = r.slip
      BY <1>4, <1>6 DEF CD
    <3> HIDE DEF r, d, f
    <3>2. QED BY <2>1, <3>1 DEF CD
  <2>3. cds' = cds
    <3>1. cds' = [cds EXCEPT ![d] = [r EXCEPT !.wait = FALSE, !.slip = @ \/ d = f.c]]
      BY <1>2, <1>3, <1>4
    <3>2. QED BY <1>3, <1>4, <2>2, <3>1
  <2>4. ~LiveIn(cds, Top.c)
    <3>1. ~(sels[Top.id] = Top.c)
      BY <1>6
    <3>2. QED BY <1>1, <1>2, <1>3, <3>1, TopIs DEF HomesOK
  <2>5. QED BY <1>2, <1>5, <2>3, <2>4, PopStep
<1>7. CASE d = f.c
  <2> DEFINE r2 == [r EXCEPT !.wait = FALSE, !.slip = TRUE]
             q == inq[d]
             a == asks[d]
             w == waits[d]
  <2>1. r.st = "open"
    BY <1>2, <1>7, TakenFor
  <2>2. /\ r2 \in CD /\ r2.st = r.st /\ r2.ptr = r.ptr /\ r2.wait = FALSE /\ r2.ready = r.ready
        /\ r2.slip = TRUE /\ SameNum(r, r2)
    <3>1. r \in CD
      BY <1>4
    <3> HIDE DEF r
    <3>2. QED BY <3>1 DEF CD, SameNum
  <2>3. cds' = [cds EXCEPT ![d] = r2]
    <3>1. (r.slip \/ d = f.c) = TRUE
      BY <1>7
    <3>2. QED BY <1>2, <1>3, <1>4, <3>1
  <2> HIDE DEF r2
  <2>4. cds' \in [Conns -> CD] /\ cds'[d] = r2 /\ Same(cds, cds', d)
    BY <1>3, <1>4, <2>2, <2>3 DEF Same
  <2>5. TableOK(sels', cds')
    <3>1. LiveIn(cds', d) /\ LiveIn(cds, d)
      BY <2>1, <2>2, <2>4 DEF LiveIn
    <3>2. (cds'[d].ready => cds'[d].wait) /\ (cds'[d].wait => cds'[d].st \in {"open", "closing"})
      BY <1>2, <2>2, <2>4
    <3>3. TableOK(sels, cds')
      BY <1>1, <1>3, <2>4, <3>1, <3>2, TableFields
    <3>4. QED BY <1>2, <3>3
  <2>6. /\ HomesOK(st, sels, cds)
        /\ \A x \in Conns \ {d} : ConnOK(x, cds[x], inq[x], asks[x], waits[x], st, misled)
    BY <1>2, <1>3, <1>7, PopParts
  <2>7. HomesOK(stack', sels', cds')
    <3>1. \A x \in Conns : cds'[x].st = cds[x].st /\ cds'[x].ptr = cds[x].ptr
      BY <2>2, <2>4 DEF Same
    <3>2. HomesOK(st, sels, cds')
      BY <2>6, <3>1, HomesFields
    <3>3. QED BY <1>2, <3>2
  <2>8. ConnOK(d, r, q, a, w, stack, misled) /\ Keeps(f, d)
    BY <1>1, <1>2, <1>3, <1>7 DEF ConnsOK, Keeps
  <2>9. ConnOK(d, r2, q, a, w, st, misled)
    <3> HIDE DEF r, q, a, w, d, f, st, L
    <3>1. QED BY <1>2, <1>3, <2>1, <2>2, <2>8, GaveUpOK
  <2>10. ASSUME NEW x \in Conns
         PROVE  ConnOK(x, cds'[x], inq'[x], asks'[x], waits'[x], stack', misled')
    <3>1. CASE x = d
      BY <1>2, <2>4, <2>9, <3>1
    <3>2. CASE x # d
      BY <1>2, <2>4, <2>6, <3>2 DEF Same
    <3>3. QED BY <3>1, <3>2
  <2>11. ConnsOK'
    BY <2>10 DEF ConnsOK
  <2>12. NetOK(inq', asks', waits')
    BY <1>1, <1>2
  <2>13. QED BY <1>5, <2>5, <2>7, <2>11, <2>12 DEF Inv
<1>8. QED BY <1>6, <1>7

LEMMA BadMsgReturnsInv ==
  ASSUME Inv, BadMsgReturns
  PROVE  Inv'
<1> DEFINE f == Top
           d == sels[f.id]
           r == cds[d]
           n == f.n
           live == d # None /\ r.ptr = f.ptr
           L == Len(stack) - 1
<1>1. TableOK(sels, cds) /\ HomesOK(stack, sels, cds) /\ NetOK(inq, asks, waits) /\ ConnsOK /\ RestOK
  BY DEF Inv
<1>2. /\ stack # <<>> /\ f.k = "bm"
      /\ UNCHANGED <<inq, hung, asks, backlog, evs, ops, env>>
      /\ misled' = (IF live /\ d # f.c THEN misled \cup {"address"} ELSE misled)
  BY DEF BadMsgReturns, Running, Mistakes
<1>3. On(Pop, stack, f, L) /\ f.id \in Slots /\ f \in Frame /\ HasConn(f)
  BY <1>1, <1>2, TopIs DEF HasConn
<1>4. f.resp \in BOOLEAN
  BY <1>2, <1>3 DEF Frame
<1>5. misled \subseteq misled' /\ misled' \in SUBSET {"address", "deferral"} /\ stray \in BOOLEAN
  BY <1>1, <1>2 DEF RestOK
<1>6. stray => misled' # {}
  BY <1>1, <1>5 DEF RestOK
<1>7. waits \in [Conns -> Nat] /\ ops \in 0..MaxOps
  BY <1>1 DEF NetOK, RestOK
<1>8. d # None => d \in Conns /\ r.st \in {"hs", "open"} /\ r \in CD /\ cds \in [Conns -> CD]
  BY <1>1, <1>2, TopSlot DEF TableOK
<1>9. ~live => ~LiveIn(cds, Top.c)
  BY <1>2, TakenFor
<1>10. CASE f.resp /\ ~live
  <2>1. stack' = Pop /\ UNCHANGED <<sels, cds, waits, stray>> /\ misled' = misled
    BY <1>2, <1>10 DEF BadMsgReturns
  <2>2. RestOK'
    BY <1>1, <1>2, <2>1, RestSame
  <2>3. QED BY <1>2, <1>9, <1>10, <2>1, <2>2, PopStep
<1>11. CASE f.resp /\ live
  <2>1. waits' = waits /\ stray' = stray
    BY <1>11 DEF BadMsgReturns
  <2>2. RestOK'
    BY <1>1, <1>2, <1>5, <1>6, <1>7, <2>1, RestStep
  <2>3. waits' \in [Conns -> Nat] /\ \A x \in Conns \ {d} : waits'[x] = waits[x]
    BY <1>7, <2>1
  <2>4. CASE r.wait /\ ~r.ready
    <3> DEFINE r2 == [r EXCEPT !.ready = TRUE, !.bad = TRUE]
               q == inq[d]
               a == asks[d]
               w == waits[d]
               st == Pop
    <3>1. cds' = [cds EXCEPT ![d] = r2] /\ stack' = Pop /\ sels' = sels
      BY <1>11, <2>4 DEF BadMsgReturns
    <3>2. /\ r2 \in CD /\ SameNum(r, r2) /\ r2.ptr = r.ptr /\ r2.wait = r.wait /\ r2.ready = TRUE /\ r2.bad = TRUE
          /\ r2.slip = r.slip
      <4>1. r \in CD
        BY <1>8, <1>11
      <4> HIDE DEF r
      <4>2. QED BY <4>1 DEF CD, SameNum
    <3>3. f.c = d /\ r.st = "open"
      BY <1>2, <1>11, <2>4, WaitsHere
    <3>4. ConnOK(d, r, q, a, w, stack, misled) /\ Keeps(f, d) /\ On(st, stack, f, L) /\ f.k = "bm" /\ f.resp = TRUE
      BY <1>1, <1>2, <1>3, <1>4, <1>8, <1>11, <3>3 DEF ConnsOK, Keeps
    <3>5. ConnOK(d, r2, q, a, w, st, misled)
      <4> HIDE DEF r, r2, w, f, q, a, st, d, L
      <4>1. QED BY <3>2, <3>3, <3>4, BadAnswerOK
    <3>6. ConnOK(d, r2, inq[d], asks[d], waits'[d], Pop, misled')
      BY <1>2, <2>1, <3>3, <3>5
    <3>7. r2.st = cds[d].st /\ r2.ptr = cds[d].ptr /\ r2.wait = cds[d].wait /\ (r2.ready => r2.wait)
      BY <2>4, <3>2 DEF SameNum
    <3>8. Top.k \in {"pay", "bm"} /\ d = sels[Top.id] /\ d # None /\ r2 \in CD
      BY <1>2, <1>11, <3>2
    <3> HIDE DEF r2, d
    <3>9. QED BY <1>2, <1>5, <2>2, <2>3, <3>1, <3>6, <3>7, <3>8, PopRecordStep
  <2>5. CASE ~(r.wait /\ ~r.ready)
    <3>1. Deregister(Top.id, Pop, FALSE)
      BY <1>11, <2>5 DEF BadMsgReturns
    <3>2. Top.k \notin {"pc", "tm"} /\ d = sels[Top.id] /\ d # None /\ UNCHANGED <<inq, asks>>
      BY <1>2, <1>11
    <3> HIDE DEF d
    <3>3. QED BY <1>2, <1>5, <2>2, <2>3, <3>1, <3>2, ClosePopStep
  <2>6. QED BY <2>4, <2>5
<1>12. CASE ~f.resp
  <2>1. /\ IF n # 0 /\ live THEN SendResponse(d, f.c, n) ELSE UNCHANGED <<waits, stray>>
        /\ DeregisterAny(f.id, Pop)
    BY <1>12 DEF BadMsgReturns
  <2>2. /\ waits' \in [Conns -> Nat] /\ (\A x \in Conns \ {d} : waits'[x] = waits[x])
        /\ stray' \in BOOLEAN /\ (stray' => misled' # {})
        /\ ~live => waits' = waits /\ stray' = stray /\ misled' = misled
    <3>1. CASE ~(n # 0 /\ live)
      BY <1>2, <1>5, <1>6, <1>7, <2>1, <3>1
    <3>2. CASE n # 0 /\ live /\ d # f.c
      <4>1. stray' = TRUE /\ waits' = waits
        BY <2>1, <3>2 DEF SendResponse
      <4>2. misled' # {}
        BY <1>2, <3>2
      <4>3. QED BY <1>7, <3>2, <4>1, <4>2
    <3>3. CASE n # 0 /\ live /\ d = f.c
      <4>1. d \in Conns /\ r.st = "open" /\ misled' = misled
        BY <1>2, <1>8, <3>3, TakenFor
      <4>2. misled = {} => waits[d] = n
        <5>1. SUFFICES ASSUME misled = {} PROVE waits[d] = n
          OBVIOUS
        <5>2. RepOK(d, cds[d], waits[d], stack)
          BY <1>1, <4>1, <5>1 DEF ConnsOK, ConnOK
        <5>3. L + 1 \in Reqs(stack, d) /\ stack[L + 1] = f
          BY <1>2, <1>3, <3>3 DEF On, Reqs, At
        <5>4. QED BY <1>2, <3>3, <5>2, <5>3 DEF RepOK
      <4>3. CASE waits[d] = n
        <5>1. waits' = [waits EXCEPT ![d] = 0] /\ stray' = stray
          BY <2>1, <3>3, <4>3 DEF SendResponse
        <5>2. QED BY <1>5, <1>6, <1>7, <3>3, <4>1, <5>1
      <4>4. CASE waits[d] # n
        <5>1. waits' = waits /\ stray' = TRUE
          BY <2>1, <3>3, <4>4 DEF SendResponse
        <5>2. QED BY <1>7, <3>3, <4>1, <4>2, <4>4, <5>1
      <4>5. QED BY <4>3, <4>4
    <3>4. QED BY <3>1, <3>2, <3>3
  <2>3. RestOK'
    BY <1>1, <1>2, <1>5, <1>7, <2>2, RestStep
  <2>4. CASE d = None
    <3>1. stack' = Pop /\ UNCHANGED <<sels, cds>>
      BY <2>1, <2>4 DEF DeregisterAny, table
    <3>2. QED BY <1>2, <1>9, <2>2, <2>3, <2>4, <3>1, PopStep
  <2>5. CASE d # None
    <3>1. Deregister(Top.id, Pop, FALSE)
      BY <2>1, <2>5 DEF DeregisterAny
    <3>2. Top.k \notin {"pc", "tm"} /\ d = sels[Top.id] /\ d # None /\ UNCHANGED <<inq, asks>>
      BY <1>2, <2>5
    <3> HIDE DEF d
    <3>3. QED BY <1>2, <1>5, <2>2, <2>3, <3>1, <3>2, ClosePopStep
  <2>6. QED BY <2>4, <2>5
<1>13. QED BY <1>4, <1>10, <1>11, <1>12

LEMMA CloseReturnsInv ==
  ASSUME Inv, CloseReturns
  PROVE  Inv'
<1> DEFINE f == Top
           c == f.c
           id == f.id
           st == Pop
           L == Len(stack) - 1
           r2 == Fresh(cds[c].ptr, "closed")
<1>1. TableOK(sels, cds) /\ HomesOK(stack, sels, cds) /\ NetOK(inq, asks, waits) /\ ConnsOK /\ RestOK
  BY DEF Inv
<1>2. /\ stack # <<>> /\ f.k = "pc" /\ stack' = st
      /\ sels' = [sels EXCEPT ![id] = None] /\ cds' = [cds EXCEPT ![c] = r2]
      /\ UNCHANGED <<inq, hung, waits, asks, backlog, evs, ops, env, stray, misled>>
  BY DEF CloseReturns, Running, Drop
<1>3. On(st, stack, f, L) /\ c \in Conns /\ id \in Slots /\ cds \in [Conns -> CD]
  BY <1>1, <1>2, TopIs DEF HasConn, TableOK
<1>4. r2 \in CD /\ r2.st = "closed" /\ r2.ptr = cds[c].ptr /\ r2.wait = FALSE /\ r2.ready = FALSE
  <2>1. cds[c].ptr \in 0..MaxConn
    BY <1>3 DEF CD
  <2>2. QED BY <2>1, BoundsAssumption DEF CD, Phases, Fresh
<1> HIDE DEF r2
<1>5. cds' \in [Conns -> CD] /\ cds'[c] = r2 /\ Same(cds, cds', c)
  BY <1>2, <1>3, <1>4 DEF Same
<1> HIDE DEF f, st, L
<1>6. sels[id] = c /\ cds[c].st = "closing" /\ HomesOK(st, sels', cds')
  <2> DEFINE s2 == sels'
             d2 == cds'
  <2>1. /\ f.k = "pc" /\ f.c = c /\ f.id = id /\ s2 = [sels EXCEPT ![id] = None] /\ Same(cds, d2, c)
        /\ d2[c].st = "closed" /\ d2[c].ptr = cds[c].ptr
    BY <1>2, <1>4, <1>5
  <2> HIDE DEF s2, d2, c, id
  <2>2. Gone(st, stack, sels, s2, cds, d2, f, L, c, id)
    BY <1>3, <2>1 DEF Gone
  <2>3. sels[id] = c /\ cds[c].st = "closing" /\ HomesOK(st, s2, d2)
    BY <1>1, <2>2, HomesClosed
  <2>4. QED BY <2>3 DEF s2, d2
<1>7. TableOK(sels', cds')
  BY <1>1, <1>2, <1>3, <1>4, <1>5, <1>6, TableDrop
<1>8. RestOK' /\ NetOK(inq', asks', waits')
  BY <1>1, <1>2, RestSame
<1>9. ASSUME NEW x \in Conns
      PROVE  ConnOK(x, cds'[x], inq[x], asks[x], waits[x], st, misled)
  <2> DEFINE r == cds[x]
             p == cds'[x]
             q == inq[x]
             a == asks[x]
             w == waits[x]
  <2>1. ConnOK(x, r, q, a, w, stack, misled) /\ ~Keeps(f, x)
    BY <1>1, <1>2 DEF ConnsOK, Keeps
  <2>2. (x = c => p.st \in {"closing", "closed"}) /\ (x # c => p = r)
    BY <1>4, <1>5 DEF Same
  <2> HIDE DEF r, q, a, w, p
  <2>3. ConnOK(x, r, q, a, w, st, misled)
    BY <1>3, <2>1, PopOK
  <2>4. \A i, j \in Waiters(st, x) : i = j
    BY <2>3 DEF ConnOK, WaitOK
  <2>5. ConnOK(x, p, q, a, w, st, misled)
    BY <2>2, <2>3, <2>4, ShutOK
  <2>6. QED BY <2>5 DEF p, q, a, w
<1>10. ConnsOK'
  BY <1>2, <1>9 DEF ConnsOK
<1>11. QED BY <1>2, <1>6, <1>7, <1>8, <1>10 DEF Inv

LEMMA HookReturnsInv ==
  ASSUME Inv, HookReturns
  PROVE  Inv'
<1> DEFINE st == Pop
           L == Len(stack) - 1
<1>1. /\ stack # <<>> /\ Top.k \in {"po", "tm"} /\ stack' = st
      /\ UNCHANGED <<sels, cds, inq, hung, waits, asks, backlog, evs, ops, env, stray, misled>>
  BY DEF HookReturns, Running
<1>2. TableOK(sels, cds) /\ HomesOK(stack, sels, cds) /\ NetOK(inq, asks, waits) /\ ConnsOK /\ RestOK
  BY DEF Inv
<1>3. On(st, stack, Top, L)
  BY <1>1, <1>2, TopIs
<1>4. RestOK'
  BY <1>1, <1>2, RestSame
<1> HIDE DEF st, L
<1>5. HomesOK(st, sels, cds)
  BY <1>1, <1>2, <1>3, HomesPop
<1>6. ASSUME NEW x \in Conns
      PROVE  ConnOK(x, cds[x], inq[x], asks[x], waits[x], st, misled)
  <2> DEFINE r == cds[x]
             q == inq[x]
             a == asks[x]
             w == waits[x]
  <2>1. ConnOK(x, r, q, a, w, stack, misled) /\ ~Keeps(Top, x)
    BY <1>1, <1>2 DEF ConnsOK, Keeps
  <2> HIDE DEF r, q, a, w
  <2>2. ConnOK(x, r, q, a, w, st, misled)
    BY <1>3, <2>1, PopOK
  <2>3. QED BY <2>2 DEF r, q, a, w
<1>7. ConnsOK'
  BY <1>1, <1>6 DEF ConnsOK
<1>8. TableOK(sels', cds') /\ HomesOK(stack', sels', cds') /\ NetOK(inq', asks', waits')
  BY <1>1, <1>2, <1>5
<1>9. QED BY <1>4, <1>7, <1>8 DEF Inv

----------------------------------------------------------------------------
(* What the peers do.                                                      *)

LEMMA PeerRest ==
  ASSUME RestOK, PeerStep, UNCHANGED <<backlog, evs, ops, stray, misled>>, hung' \in [Conns -> BOOLEAN]
  PROVE  RestOK'
<1>1. env \in Nat /\ env' = env + 1 /\ env < MaxPeer /\ backlog \in 0..env
  BY DEF PeerStep, RestOK
<1>2. env' \in 0..MaxPeer /\ backlog' \in 0..env'
  BY <1>1, BoundsAssumption
<1>3. QED BY <1>2 DEF RestOK

(* The peer of connection c sends a frame.                                 *)
LEMMA ArriveStep ==
  ASSUME Inv, NEW c \in Conns, PeerStep, NEW f \in Message, Arrive(c, f),
         UNCHANGED <<sels, cds, hung, backlog, stack, evs, ops, stray, misled>>,
         NEW a2 \in Seq(1..MaxOps), asks' = [asks EXCEPT ![c] = a2],
         NEW w2 \in Nat, waits' = [waits EXCEPT ![c] = w2],
         ConnOK(c, cds[c], inq'[c], a2, w2, stack, misled)
  PROVE  Inv'
<1>1. TableOK(sels, cds) /\ HomesOK(stack, sels, cds) /\ NetOK(inq, asks, waits) /\ ConnsOK /\ RestOK
  BY DEF Inv
<1>2. RestOK'
  BY <1>1, PeerRest DEF RestOK
<1>3. inq \in [Conns -> Seq(Message)] /\ inq[c] \in Seq(Message)
  BY <1>1 DEF NetOK
<1>4. Append(inq[c], f) \in Seq(Message)
  BY <1>3, AppendProperties
<1>5. inq' = [inq EXCEPT ![c] = Append(inq[c], f)]
  BY DEF Arrive
<1>6. NetOK(inq', asks', waits')
  BY <1>1, <1>3, <1>4, <1>5 DEF NetOK
<1>7. asks'[c] = a2 /\ waits'[c] = w2
  BY <1>1 DEF NetOK
<1>8. \A x \in Conns \ {c} : /\ cds'[x] = cds[x] /\ inq'[x] = inq[x] /\ asks'[x] = asks[x]
                             /\ waits'[x] = waits[x] /\ Aside(stack, stack', x)
  BY <1>1, <1>3, <1>5 DEF NetOK, Aside
<1>9. ConnOK(c, cds'[c], inq'[c], asks'[c], waits'[c], stack', misled')
  BY <1>7
<1>10. ConnsOK'
  BY <1>1, <1>8, <1>9, OthersOK
<1>11. QED BY <1>1, <1>2, <1>6, <1>10 DEF Inv

(* What has to be shown of the connection itself, while it is open.        *)
LEMMA ArriveOK ==
  ASSUME Inv, NEW c \in Conns, Reachable(c), NEW f \in Message, Arrive(c, f), NEW a2, NEW w2,
         cds[c].st = "open" /\ Arrived(inq[c], inq'[c], f)
           => ConnOK(c, cds[c], inq'[c], a2, w2, stack, misled)
  PROVE  ConnOK(c, cds[c], inq'[c], a2, w2, stack, misled)
<1>1. inq \in [Conns -> Seq(Message)] /\ ConnOK(c, cds[c], inq[c], asks[c], waits[c], stack, misled)
  BY DEF Inv, NetOK, ConnsOK
<1>2. CASE cds[c].st = "open"
  <2>1. inq'[c] = Append(inq[c], f)
    BY <1>1 DEF Arrive
  <2>2. Arrived(inq[c], inq'[c], f)
    BY <1>1, <2>1, AppendArrived
  <2>3. QED BY <1>2, <2>2
<1>3. CASE cds[c].st = "closing"
  <2>1. \A i, j \in Waiters(stack, c) : i = j
    BY <1>1 DEF ConnOK, WaitOK
  <2> DEFINE r == cds[c]
             q == inq'[c]
  <2>2. r.st \in {"closing", "closed"}
    BY <1>3
  <2> HIDE DEF r, q
  <2>3. ConnOK(c, r, q, a2, w2, stack, misled)
    BY <2>1, <2>2, ShutOK
  <2>4. QED BY <2>3 DEF r, q
<1>4. QED BY <1>2, <1>3 DEF Reachable

LEMMA SyncsFinite ==
  ASSUME NEW q \in Seq(Message)
  PROVE  Cardinality(SyncsIn(q)) \in Nat /\ (SyncsIn(q) = {} => Cardinality(SyncsIn(q)) = 0)
<1>1. Len(q) \in Nat /\ DOMAIN q = 1..Len(q)
  BY LenProperties
<1>2. IsFiniteSet(1..Len(q))
  BY <1>1, FS_Interval
<1>3. SyncsIn(q) \subseteq 1..Len(q)
  BY <1>1 DEF SyncsIn
<1>4. IsFiniteSet(SyncsIn(q))
  BY <1>2, <1>3, FS_Subset
<1>5. Cardinality(SyncsIn(q)) \in Nat
  BY <1>4, FS_CardinalityType
<1>6. Cardinality({}) = 0
  BY FS_EmptySet
<1>7. QED BY <1>5, <1>6

LEMMA PeerRequestInv ==
  ASSUME Inv, NEW c \in Conns, PeerRequest(c)
  PROVE  Inv'
<1> DEFINE r == cds[c]
           q == inq[c]
           w2 == r.seq + Cardinality(SyncsIn(q)) + 1
<1>1. /\ TableOK(sels, cds) /\ NetOK(inq, asks, waits) /\ r \in CD /\ r.seq \in Nat
      /\ q \in Seq(Message) /\ asks[c] \in Seq(1..MaxOps) /\ asks = [asks EXCEPT ![c] = asks[c]]
      /\ ConnOK(c, r, q, asks[c], waits[c], stack, misled)
  BY DEF Inv, TableOK, NetOK, CD, ConnsOK
<1>2. /\ PeerStep /\ Reachable(c) /\ waits[c] = 0 /\ waits' = [waits EXCEPT ![c] = w2]
      /\ UNCHANGED <<sels, cds, hung, asks, backlog, stack, evs, ops, stray, misled>>
  BY DEF PeerRequest
<1>3. PICK t \in {"sync", "badsync"} : Arrive(c, [t |-> t])
  BY DEF PeerRequest
<1> DEFINE f == [t |-> t]
<1>4. f \in Message /\ f.t \in {"sync", "badsync"} /\ Arrive(c, f)
  BY <1>3 DEF Message
<1>5. w2 \in Nat /\ (SyncsIn(q) = {} => w2 = r.seq + 1)
  BY <1>1, SyncsFinite
<1> HIDE DEF f, w2
<1>6. ASSUME r.st = "open", Arrived(q, inq'[c], f)
      PROVE  ConnOK(c, r, inq'[c], asks[c], w2, stack, misled)
  <2> DEFINE q2 == inq'[c]
             a == asks[c]
  <2>1. ConnOK(c, r, q, a, 0, stack, misled) /\ Arrived(q, q2, f)
    BY <1>1, <1>2, <1>6
  <2> HIDE DEF q2, a, r, q
  <2>2. ConnOK(c, r, q2, a, w2, stack, misled)
    BY <1>1, <1>4, <1>5, <1>6, <2>1, AskedOK
  <2>3. QED BY <2>2 DEF q2, a
<1>7. ConnOK(c, r, inq'[c], asks[c], w2, stack, misled)
  BY <1>2, <1>4, <1>6, ArriveOK
<1>8. QED BY <1>1, <1>2, <1>4, <1>5, <1>7, ArriveStep

LEMMA PeerPushInv ==
  ASSUME Inv, NEW c \in Conns, PeerPush(c)
  PROVE  Inv'
<1> DEFINE r == cds[c]
           q == inq[c]
           w == waits[c]
           a == asks[c]
<1>1. /\ a \in Seq(1..MaxOps) /\ asks = [asks EXCEPT ![c] = a]
      /\ w \in Nat /\ waits = [waits EXCEPT ![c] = w]
      /\ ConnOK(c, r, q, a, w, stack, misled)
  BY DEF Inv, NetOK, ConnsOK
<1>2. /\ PeerStep /\ Reachable(c)
      /\ UNCHANGED <<sels, cds, hung, waits, asks, backlog, stack, evs, ops, stray, misled>>
  BY DEF PeerPush
<1>3. PICK t \in {"async", "badasync", "badhdr"} : Arrive(c, [t |-> t])
  BY DEF PeerPush
<1> DEFINE f == [t |-> t]
<1>4. f \in Message /\ f.t \notin {"sync", "badsync", "resp", "badresp"} /\ Arrive(c, f)
  BY <1>3 DEF Message
<1> HIDE DEF f
<1>5. ASSUME r.st = "open", Arrived(q, inq'[c], f)
      PROVE  ConnOK(c, r, inq'[c], a, w, stack, misled)
  <2> DEFINE q2 == inq'[c]
  <2>1. Arrived(q, q2, f)
    BY <1>5
  <2> HIDE DEF q2, a, r, q, w
  <2>2. ConnOK(c, r, q2, a, w, stack, misled)
    BY <1>1, <1>4, <1>5, <2>1, PushedOK
  <2>3. QED BY <2>2 DEF q2
<1>6. ConnOK(c, r, inq'[c], a, w, stack, misled)
  BY <1>2, <1>4, <1>5, ArriveOK
<1>7. QED BY <1>1, <1>2, <1>4, <1>6, ArriveStep

LEMMA PeerAnswerInv ==
  ASSUME Inv, NEW c \in Conns, PeerAnswer(c)
  PROVE  Inv'
<1> DEFINE r == cds[c]
           q == inq[c]
           w == waits[c]
           a == asks[c]
<1>1. /\ a \in Seq(1..MaxOps) /\ w \in Nat /\ waits = [waits EXCEPT ![c] = w]
      /\ ConnOK(c, r, q, a, w, stack, misled)
  BY DEF Inv, NetOK, ConnsOK
<1>2. /\ PeerStep /\ Reachable(c) /\ a # <<>> /\ asks' = [asks EXCEPT ![c] = Tail(a)]
      /\ UNCHANGED <<sels, cds, hung, waits, backlog, stack, evs, ops, stray, misled>>
  BY DEF PeerAnswer
<1>3. PICK t \in {"resp", "badresp"} : Arrive(c, [t |-> t, n |-> Head(asks[c])])
  BY DEF PeerAnswer
<1>4. Head(a) \in 1..MaxOps /\ Tail(a) \in Seq(1..MaxOps)
  <2> HIDE DEF a
  <2>1. QED BY <1>1, <1>2, HeadTailProperties
<1> DEFINE f == [t |-> t, n |-> Head(a)]
<1>5. f \in Message /\ f.t \in {"resp", "badresp"} /\ f.n = Head(a) /\ Arrive(c, f)
  BY <1>3, <1>4 DEF Message
<1> HIDE DEF f
<1>6. ASSUME r.st = "open", Arrived(q, inq'[c], f)
      PROVE  ConnOK(c, r, inq'[c], Tail(a), w, stack, misled)
  <2> DEFINE q2 == inq'[c]
  <2>1. Arrived(q, q2, f)
    BY <1>6
  <2> HIDE DEF q2, a, r, q, w
  <2>2. ConnOK(c, r, q2, Tail(a), w, stack, misled)
    BY <1>1, <1>2, <1>5, <1>6, <2>1, RepliedOK
  <2>3. QED BY <2>2 DEF q2
<1>7. ConnOK(c, r, inq'[c], Tail(a), w, stack, misled)
  BY <1>2, <1>5, <1>6, ArriveOK
<1>8. QED BY <1>1, <1>2, <1>4, <1>5, <1>7, ArriveStep

LEMMA PeerHangUpInv ==
  ASSUME Inv, NEW c \in Conns, PeerHangUp(c)
  PROVE  Inv'
<1>1. RestOK /\ PeerStep /\ hung' = [hung EXCEPT ![c] = TRUE]
      /\ UNCHANGED <<sels, cds, inq, waits, asks, backlog, stack, evs, ops, stray, misled>>
  BY DEF Inv, PeerHangUp
<1>2. hung' \in [Conns -> BOOLEAN]
  BY <1>1 DEF RestOK
<1>3. RestOK'
  BY <1>1, <1>2, PeerRest
<1>4. QED BY <1>1, <1>3, CoreSame

LEMMA PeerConnectInv ==
  ASSUME Inv, PeerConnect
  PROVE  Inv'
<1>1. RestOK /\ PeerStep /\ backlog' = backlog + 1
      /\ UNCHANGED <<sels, cds, inq, hung, waits, asks, stack, evs, ops, stray, misled>>
  BY DEF Inv, PeerConnect
<1>2. env \in Nat /\ env' = env + 1 /\ env < MaxPeer /\ backlog \in 0..env
  BY <1>1 DEF PeerStep, RestOK
<1>3. env' \in 0..MaxPeer /\ backlog' \in 0..env' /\ backlog' > 0
  BY <1>1, <1>2, BoundsAssumption
<1>4. RestOK'
  BY <1>1, <1>3 DEF RestOK
<1>5. QED BY <1>1, <1>4, CoreSame

----------------------------------------------------------------------------
(* The invariant holds.                                                    *)

LEMMA InitInv ==
  ASSUME Init
  PROVE  Inv
<1>1. /\ \A i \in Slots : sels[i] = IF i <= Opened THEN i ELSE None
      /\ \A c \in Conns : cds[c] = IF c <= Opened THEN Fresh(c, "open") ELSE Unused
      /\ sels \in [Slots -> Conns \cup {None}] /\ cds \in [Conns -> CD]
  <2>1. \A c \in Conns : Fresh(c, "open") \in CD /\ Unused \in CD
    BY BoundsAssumption DEF Fresh, Unused, CD, Phases, Conns
  <2>2. QED BY <2>1 DEF Init, Conns, Slots
<1>2. \A c \in Conns : /\ cds[c].ready = FALSE /\ cds[c].wait = FALSE
                       /\ cds[c].seq = 0 /\ cds[c].cur = 0 /\ cds[c].dseq = 0
                       /\ cds[c].st = IF c <= Opened THEN "open" ELSE "none"
  BY <1>1 DEF Fresh, Unused
<1>3. TableOK(sels, cds)
  <2>1. \A i, j \in Slots : sels[i] = sels[j] /\ sels[i] # None => i = j
    BY <1>1
  <2>2. \A c \in Conns : LiveIn(cds, c) <=> \E i \in Slots : sels[i] = c
    <3>1. ASSUME NEW c \in Conns, c <= Opened
          PROVE  LiveIn(cds, c) /\ sels[c] = c /\ c \in Slots
      BY <1>1, <1>2, <3>1 DEF LiveIn, Conns, Slots
    <3>2. ASSUME NEW c \in Conns, ~(c <= Opened)
          PROVE  ~LiveIn(cds, c) /\ \A i \in Slots : sels[i] # c
      <4>1. c # None
        BY BoundsAssumption DEF Conns, None
      <4>2. QED BY <1>1, <1>2, <3>2, <4>1 DEF LiveIn
    <3>3. QED BY <3>1, <3>2
  <2>3. QED BY <1>1, <1>2, <2>1, <2>2 DEF TableOK
<1>4. stack = <<>> /\ stack \in Seq(Frame) /\ DOMAIN stack = {}
  BY DEF Init
<1>5. HomesOK(stack, sels, cds)
  BY <1>2, <1>4 DEF HomesOK
<1>6. NetOK(inq, asks, waits)
  BY DEF Init, NetOK
<1>7. RestOK
  <2>1. /\ ops \in 0..MaxOps /\ env \in 0..MaxPeer /\ backlog \in 0..env /\ evs = <<>> /\ DOMAIN evs = {}
        /\ evs \in Seq([id : Slots \cup {Listener}, hup : BOOLEAN])
    BY BoundsAssumption DEF Init
  <2>2. /\ hung \in [Conns -> BOOLEAN] /\ misled = {} /\ stray = FALSE
        /\ misled \in SUBSET {"address", "deferral"}
    BY DEF Init
  <2>3. QED BY <2>1, <2>2 DEF RestOK
<1>8. ASSUME NEW c \in Conns
      PROVE  ConnOK(c, cds[c], inq[c], asks[c], waits[c], stack, misled)
  <2> DEFINE r == cds[c]
             q == inq[c]
             a == asks[c]
             w == waits[c]
  <2>1. q = <<>> /\ DOMAIN q = {} /\ a = <<>> /\ DOMAIN a = {} /\ Len(a) = 0 /\ w = 0
    BY DEF Init
  <2>2. /\ r.ready = FALSE /\ r.wait = FALSE /\ r.seq = 0 /\ r.cur = 0 /\ r.dseq = 0
        /\ r.st \in {"open", "none"}
    BY <1>2
  <2>3. At(stack, c) = {}
    BY <1>4 DEF At
  <2> HIDE DEF r, q, a, w
  <2>4. /\ Waiters(stack, c) = {} /\ Reqs(stack, c) = {} /\ Pays(stack, c) = {}
        /\ BadResps(stack, c) = {} /\ Resps(q) = {} /\ SyncsIn(q) = {}
    BY <2>1, <2>3 DEF Waiters, Reqs, Pays, BadResps, Resps, SyncsIn
  <2>5. WaitOK(c, r, stack) /\ NewOK(r, q, a, w, misled)
    BY <2>1, <2>2, <2>4 DEF WaitOK, NewOK
  <2>6. AnsOK(c, r, q, a, stack)
    BY <2>1, <2>2, <2>4 DEF AnsOK, Straight
  <2>7. NumOK(c, r, q, w, stack)
    BY <2>1, <2>2, <2>4 DEF NumOK
  <2>8. RepOK(c, r, w, stack)
    BY <2>1, <2>2, <2>4 DEF RepOK
  <2>9. ConnOK(c, r, q, a, w, stack, misled)
    BY <2>5, <2>6, <2>7, <2>8 DEF ConnOK
  <2>10. QED BY <2>9 DEF r, q, a, w
<1>9. QED BY <1>3, <1>5, <1>6, <1>7, <1>8 DEF Inv, ConnsOK

LEMMA StepInv ==
  ASSUME Inv, [Next]_vars
  PROVE  Inv'
<1>1. CASE Loop
  BY <1>1, EpollWaitInv, NextEventInv, AcceptInv, EventReadInv, EventEofInv, EventDoneInv, TimerInv DEF Loop
<1>2. CASE Wait
  BY <1>2, WaitReadInv, WaitEofInv, WaitReadyInv, WaitFailsInv, WaitGoneInv DEF Wait
<1>3. CASE UserCode
  BY <1>3, SyncSendInv, SendDeferredInv, CloseConnInv, ConnectInv, DeferResponseInv DEF UserCode
<1>4. CASE Returns
  BY <1>4, RequestReturnsInv, BadMsgReturnsInv, CloseReturnsInv, HookReturnsInv DEF Returns
<1>5. CASE Peers
  BY <1>5, PeerRequestInv, PeerPushInv, PeerAnswerInv, PeerHangUpInv, PeerConnectInv DEF Peers
<1>6. CASE UNCHANGED vars
  <2>1. /\ UNCHANGED <<sels, cds, inq, asks, waits, stack, misled>>
        /\ UNCHANGED <<hung, ops, env, backlog, evs, stray, misled>>
    BY <1>6 DEF vars
  <2>2. RestOK'
    BY <2>1, RestSame DEF Inv
  <2>3. QED BY <2>1, <2>2, CoreSame
<1>7. QED BY <1>1, <1>2, <1>3, <1>4, <1>5, <1>6 DEF Next

(* The invariant of the connections holds in every reachable state, for    *)
(* any number of connections, operations and steps of peers: slots and     *)
(* activations name the same connections, the requests of a peer are       *)
(* numbered as it numbers them, and one answer at most is under way to a   *)
(* call, to the one that waits, on every connection where no earlier call  *)
(* gave up (ipc.c:2292-2295 leaves its answer under way).                  *)
THEOREM InvCorrect == Spec => []Inv
<1>1. Init => Inv
  BY InitInv
<1>2. Inv /\ [Next]_vars => Inv'
  BY StepInv
<1>3. QED BY <1>1, <1>2, PTL DEF Spec

(* A connection is closed once: while its .z.pc runs (ray_poll_deregister  *)
(* calling ipc_on_close) nothing deregisters it again, and its slot stays  *)
(* its own, whatever the hook calls.                                       *)
THEOREM ClosedOnceCorrect == Spec => []ClosedOnce
<1>1. ASSUME Inv PROVE ClosedOnce
  <2>1. TableOK(sels, cds) /\ HomesOK(stack, sels, cds) /\ stack \in Seq(Frame)
    BY <1>1 DEF Inv, HomesOK
  <2>2. ASSUME NEW i \in Frames("pc")
        PROVE  /\ i \in DOMAIN stack /\ stack[i].k = "pc" /\ HasConn(stack[i])
               /\ cds[stack[i].c].st = "closing" /\ sels[stack[i].id] = stack[i].c
               /\ stack[i].c \in Conns /\ stack[i].id \in Slots
    <3>1. i \in DOMAIN stack /\ stack[i].k = "pc" /\ HasConn(stack[i])
      BY DEF Frames, HasConn
    <3>2. stack[i].c \in Conns /\ stack[i].id \in Slots
      BY <2>1, <3>1, FrameTypes
    <3>3. cds[stack[i].c].st = "closing" /\ sels[stack[i].id] = stack[i].c
      BY <2>1, <3>1 DEF HomesOK, LiveIn
    <3>4. QED BY <3>1, <3>2, <3>3
  <2>3. ASSUME NEW i \in Frames("pc"), NEW j \in Frames("pc"), stack[i].c = stack[j].c
        PROVE  i = j
    <3>1. None \notin Conns
      BY BoundsAssumption DEF None, Conns
    <3>2. stack[i].id = stack[j].id
      BY <2>1, <2>2, <2>3, <3>1 DEF TableOK
    <3>3. i \in DOMAIN stack /\ j \in DOMAIN stack /\ stack[i].k = "pc" /\ stack[j].k = "pc"
      BY <2>2
    <3>4. ~(i < j) /\ ~(j < i)
      BY <2>1, <3>2, <3>3 DEF HomesOK
    <3>5. i \in Nat /\ j \in Nat
      BY <2>1, <3>3, LenProperties
    <3>6. QED BY <3>4, <3>5
  <2>4. QED BY <2>2, <2>3 DEF ClosedOnce
<1>2. Inv => ClosedOnce
  BY <1>1
<1>3. QED BY <1>2, InvCorrect, PTL

(* ray_ipc_send: a synchronous call takes the answer to its own request,   *)
(* however its wait nests with others on the stack, unless an earlier call *)
(* on its connection gave up waiting (ipc.c:2292-2295); and a handle is    *)
(* busy (sync_waiting) exactly while a call waits on it.                   *)
THEOREM WaitsCorrect == Spec => []WaitsExact
<1>1. ASSUME Inv PROVE WaitsExact
  <2>1. TableOK(sels, cds) /\ HomesOK(stack, sels, cds) /\ NetOK(inq, asks, waits) /\ RestOK /\ stack \in Seq(Frame)
    BY <1>1 DEF Inv, HomesOK
  <2>2. TypeOK
    <3>1. ASSUME NEW c \in Conns
          PROVE  /\ cds[c].st \in Phases /\ cds[c].ptr \in 0..MaxConn /\ cds[c].seq \in Nat
                 /\ cds[c].cur \in Nat /\ cds[c].dseq \in Nat /\ cds[c].resp \in 0..MaxOps
      <4>1. cds[c] \in CD
        BY <2>1 DEF TableOK
      <4>2. QED BY <4>1 DEF CD
    <3>2. \A c \in Conns : Live(c) <=> \E i \in Slots : sels[i] = c
      BY <2>1 DEF TableOK, LiveIn, Live
    <3>3. backlog \in 0..MaxPeer
      BY <2>1, BoundsAssumption DEF RestOK
    <3>4. QED BY <2>1, <3>1, <3>2, <3>3 DEF TypeOK, TableOK, NetOK, RestOK, Phases
  <2>3. ASSUME NEW i \in Frames("wait")
        PROVE  LET f == stack[i] IN i \in Waiters(stack, f.c) /\ f.c \in Conns
    <3>1. i \in DOMAIN stack /\ stack[i].k = "wait" /\ HasConn(stack[i])
      BY DEF Frames, HasConn
    <3>2. stack[i].c \in Conns
      BY <2>1, <3>1, FrameTypes
    <3>3. QED BY <3>1, <3>2 DEF Waiters, At
  <2>4. OwnAnswer
    <3>1. SUFFICES ASSUME NEW i \in Frames("wait"), cds[stack[i].c].st = "open", cds[stack[i].c].ready,
                          ~cds[stack[i].c].slip
                   PROVE  cds[stack[i].c].bad \/ cds[stack[i].c].resp = stack[i].n
      BY DEF OwnAnswer
    <3> DEFINE c == stack[i].c
    <3>2. ConnOK(c, cds[c], inq[c], asks[c], waits[c], stack, misled)
      BY <1>1, <2>3 DEF Inv, ConnsOK
    <3>3. AnsOK(c, cds[c], inq[c], asks[c], stack)
      BY <3>1, <3>2 DEF ConnOK
    <3>4. QED BY <2>3, <3>1, <3>3 DEF AnsOK, Straight
  <2>5. BusyMeansWaiting
    <3>1. SUFFICES ASSUME NEW c \in Conns, cds[c].st = "open"
                   PROVE  cds[c].wait <=> \E i \in Frames("wait") : stack[i].c = c
      BY DEF BusyMeansWaiting
    <3>2. WaitOK(c, cds[c], stack)
      BY <1>1 DEF Inv, ConnsOK, ConnOK
    <3>3. Waiters(stack, c) = {i \in Frames("wait") : stack[i].c = c}
      BY DEF Waiters, At, Frames
    <3>4. QED BY <3>1, <3>2, <3>3 DEF WaitOK
  <2>6. QED BY <2>2, <2>4, <2>5 DEF WaitsExact
<1>2. Inv => WaitsExact
  BY <1>1
<1>3. QED BY <1>2, InvCorrect, PTL

(* A peer blocked on a synchronous request of an open connection is never  *)
(* forgotten (ipc_read_payload, ray_ipc_defer_response): its request is    *)
(* unread, on the stack or deferred and owed, unless a newcomer has been   *)
(* taken for a closed connection by its slot and address.                  *)
THEOREM NobodyForgottenCorrect == Spec => []NobodyForgotten
<1>1. ASSUME Inv PROVE NobodyForgotten
  <2>1. SUFFICES ASSUME "address" \notin misled, NEW c \in Conns, cds[c].st = "open", waits[c] # 0,
                        SyncsIn(inq[c]) = {}
                 PROVE  \/ \E i \in Frames("pay") \cup Frames("bm") : stack[i].c = c /\ stack[i].n = waits[c]
                        \/ cds[c].dseq = waits[c] /\ ~cds[c].drep
    BY DEF NobodyForgotten
  <2>2. NumOK(c, cds[c], inq[c], waits[c], stack)
    BY <1>1, <2>1 DEF Inv, ConnsOK, ConnOK
  <2>3. \A j \in Reqs(stack, c) : j \in Frames("pay") \cup Frames("bm") /\ stack[j].c = c
    BY DEF Reqs, At, Frames
  <2>4. QED BY <2>1, <2>2, <2>3 DEF NumOK
<1>2. Inv => NobodyForgotten
  BY <1>1
<1>3. QED BY <1>2, InvCorrect, PTL

(* A response frame is written only to a peer that is blocked on that very *)
(* request, and once, unless a newcomer has been taken for a closed        *)
(* connection or an answered deferral was displaced while its frame ran:   *)
(* no third cause exists, in any interleaving.                             *)
THEOREM NoStrayReplyCorrect == Spec => []NoStrayReply
<1>1. Inv => NoStrayReply
  BY DEF Inv, RestOK, NoStrayReply
<1>2. QED BY <1>1, InvCorrect, PTL
=============================================================================
