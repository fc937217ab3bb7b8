-------------------------------- MODULE Ipc --------------------------------
(***************************************************************************)
(* One peachq process seen from its main thread: the selector table and    *)
(* the event loop of core/epoll.c, and the kdb IPC connections of          *)
(* core/ipc.c that live in it.  There is one thread, but it re-enters the  *)
(* connections: a synchronous send pumps its own connection until the      *)
(* answer is there, evaluates whatever else arrives on the way, and the    *)
(* code it evaluates may close the connection, open another one in the     *)
(* same slot, send again, or defer its reply.  The thread's C stack is     *)
(* therefore part of the state.                                            *)
(*                                                                         *)
(* A connection is numbered in the order of creation; its slot (selector   *)
(* id) and the address of its ray_ipc_conn_data_t are what the code knows  *)
(* it by, and both can be used again after it is closed.  Bytes are        *)
(* abstracted to whole frames: the rx machinery waits for a complete one.  *)
(***************************************************************************)
EXTENDS Naturals, Sequences, FiniteSets

CONSTANTS MaxConn,    \* connections ever made
          Opened,     \* of these, open when the model starts (hopen returned)
          MaxOps,     \* operations user code performs
          MaxPeer     \* frames, hang-ups and connects of the peers, and failed waits

ASSUME BoundsAssumption ==
    /\ MaxConn \in Nat /\ Opened \in 0..MaxConn
    /\ MaxOps \in Nat /\ MaxPeer \in Nat

Conns == 1..MaxConn
Slots == 1..MaxConn
Listener == 0               \* the slot of the listening socket
None == 0

VARIABLES
    sels,    \* slot -> the connection in it, or None
    cds,     \* connection -> its record
    inq,     \* connection -> frames received by the kernel and not yet read
    hung,    \* connection -> its peer has closed or reset it
    waits,   \* connection -> the sync request its peer is blocked on, 0 if none
    asks,    \* connection -> our sync requests its peer has not answered
    backlog, \* connects the listener has not accepted
    stack,   \* the activations of the main thread, outermost first
    evs,     \* the rest of the epoll_wait batch
    ops, env,\* operations of user code, steps of the peers and failed waits so far
    stray,   \* a response was written that its receiver did not ask for
    misled   \* what the process has been misled by: an address, a deferral

table   == <<sels, cds>>
network == <<inq, hung, waits, asks, backlog>>
vars    == <<sels, cds, inq, hung, waits, asks, backlog, stack, evs, ops, env, stray, misled>>

(* ray_ipc_conn_data_t: phase and, of the rest, what the sync round trip   *)
(* and the deferred response keep.  `resp` names the request a deposited   *)
(* response answers; `slip` is history: a call gave up waiting on this     *)
(* connection while its answer was still to come.                          *)
Fresh(p, phase) == [st |-> phase, ptr |-> p, wait |-> FALSE, ready |-> FALSE,
                    bad |-> FALSE, resp |-> 0, seq |-> 0, cur |-> 0,
                    dseq |-> 0, drep |-> FALSE, slip |-> FALSE]

Unused == Fresh(0, "none")
Live(c)  == cds[c].st \in {"hs", "open", "closing"}

----------------------------------------------------------------------------
(* The selector table: ray_poll_register takes the first empty slot, a     *)
(* record's address is any that is free, that of a closed connection's     *)
(* record too.                                                             *)

FreeSlot == CHOOSE i \in Slots : sels[i] = None /\ \A j \in Slots : sels[j] = None => i <= j

Addresses(c) ==
    {c} \cup ({cds[d].ptr : d \in {d \in Conns : cds[d].st = "closed"}}
                \ {cds[d].ptr : d \in {d \in Conns : Live(d)}})

NextConn == CHOOSE c \in Conns : cds[c].st = "none" /\ \A d \in Conns : cds[d].st = "none" => c <= d
CanOpen  == \E c \in Conns : cds[c].st = "none"

Register(phase) ==
    \E p \in Addresses(NextConn) :
        /\ sels' = [sels EXCEPT ![FreeSlot] = NextConn]
        /\ cds'  = [cds EXCEPT ![NextConn] = Fresh(p, phase)]

SlotOf(c) == CHOOSE i \in Slots : sels[i] = c

(* The tail of ray_poll_deregister after ipc_on_close: record freed, socket *)
(* closed, slot emptied.                                                   *)
Drop(id, c) ==
    /\ sels' = [sels EXCEPT ![id] = None]
    /\ cds'  = [cds EXCEPT ![c] = Fresh(cds[c].ptr, "closed")]

(* ray_poll_deregister on the selector in slot id, whoever that is, with   *)
(* the stack stk to return to: a connection past its handshake that is not *)
(* closed by the process itself runs .z.pc first, with read_fn cleared.    *)
Deregister(id, stk, local) ==
    LET c == sels[id] IN
    IF cds[c].st = "open" /\ ~local
    THEN /\ cds' = [cds EXCEPT ![c].st = "closing"]
         /\ stack' = Append(stk, [k |-> "pc", id |-> id, c |-> c])
         /\ UNCHANGED sels
    ELSE /\ Drop(id, c)
         /\ stack' = stk

(* Nothing happens for a slot that is already empty. *)
DeregisterAny(id, stk) ==
    IF sels[id] = None THEN stack' = stk /\ UNCHANGED table
    ELSE Deregister(id, stk, FALSE)

----------------------------------------------------------------------------
(* Responses.  A response frame written to connection d answers request n  *)
(* of connection c; the peer of d takes it for the answer to the request   *)
(* it is blocked on.                                                       *)
SendResponse(d, c, n) ==
    IF d = c /\ waits[c] = n
    THEN waits' = [waits EXCEPT ![c] = 0] /\ UNCHANGED stray
    ELSE stray' = TRUE /\ UNCHANGED waits

Top == stack[Len(stack)]
Pop == SubSeq(stack, 1, Len(stack) - 1)
Running(kinds) == stack # <<>> /\ Top.k \in kinds
Frames(k) == {i \in DOMAIN stack : stack[i].k = k}

(* One complete frame of connection c, which is in slot id, is read by the *)
(* pump running on top of the stack: ipc_read_handshake, ipc_read_header   *)
(* and ipc_read_payload up to the point where user code runs.              *)
ReadFrame(id, c) ==
    LET f == Head(inq[c])
        s == cds[c].seq + 1
        Take == /\ inq' = [inq EXCEPT ![c] = Tail(@)]
                /\ UNCHANGED <<hung, asks, backlog, evs, ops, env>>
        Request(n) ==
            /\ cds' = [cds EXCEPT ![c].seq = IF n = 0 THEN @ ELSE n, ![c].cur = n]
            /\ stack' = Append(stack, [k |-> "pay", id |-> id, c |-> c, ptr |-> cds[c].ptr,
                                       n |-> n, prev |-> cds[c].cur])
            /\ UNCHANGED sels
        Malformed(n) ==
            /\ cds' = [cds EXCEPT ![c].seq = IF n = 0 THEN @ ELSE n]
            /\ stack' = Append(stack, [k |-> "bm", id |-> id, c |-> c, ptr |-> cds[c].ptr,
                                       n |-> n, resp |-> f.t = "badresp"])
            /\ UNCHANGED sels
    IN  /\ Take
        /\ UNCHANGED <<waits, stray, misled>>
        /\ CASE f.t = "creds" ->     \* kdb_handshake_complete, then .z.po
                  \/ /\ cds' = [cds EXCEPT ![c].st = "open"]
                     /\ stack' = Append(stack, [k |-> "po", id |-> id, c |-> c])
                     /\ UNCHANGED sels
                  \/ Deregister(id, stack, FALSE)
             [] f.t = "badhdr"   -> Deregister(id, stack, FALSE)
             [] f.t = "sync"     -> Request(s)
             [] f.t = "async"    -> Request(0)
             [] f.t = "badsync"  -> Malformed(s)
             [] f.t \in {"badasync", "badresp"} -> Malformed(0)
             [] f.t = "resp"     ->   \* deposited for the waiter, or dropped
                  /\ cds' = IF cds[c].wait /\ ~cds[c].ready
                            THEN [cds EXCEPT ![c].ready = TRUE, ![c].resp = f.n] ELSE cds
                  /\ UNCHANGED <<sels, stack>>

----------------------------------------------------------------------------
(* The event loop, ray_poll_run.  A batch names slots, not connections.    *)

Idle == stack = <<>> /\ evs = <<>>

ReadySlots == {i \in Slots : sels[i] # None /\ (inq[sels[i]] # <<>> \/ hung[sels[i]])}
              \cup IF backlog > 0 THEN {Listener} ELSE {}

(* Every order of the ready slots; a peer that hung up may or may not raise *)
(* EPOLLHUP (a reset does, a plain close does not).                        *)
Batches ==
    {b \in [1..Cardinality(ReadySlots) -> [id : ReadySlots, hup : BOOLEAN]] :
        /\ \A i, j \in DOMAIN b : b[i].id = b[j].id => i = j
        /\ \A i \in DOMAIN b : b[i].hup => b[i].id # Listener /\ hung[sels[b[i].id]]}

EpollWait ==
    /\ Idle /\ ReadySlots # {}
    /\ evs' \in Batches
    /\ UNCHANGED <<sels, cds, inq, hung, waits, asks, backlog, stack, ops, env, stray, misled>>

(* The next event of the batch: the slot may be empty by now, or hold      *)
(* another connection.                                                     *)
NextEvent ==
    /\ stack = <<>> /\ evs # <<>> /\ Head(evs).id # Listener
    /\ evs' = Tail(evs)
    /\ stack' = IF sels[Head(evs).id] = None THEN <<>>
                ELSE <<[k |-> "ev", id |-> Head(evs).id, hup |-> Head(evs).hup]>>
    /\ UNCHANGED <<sels, cds, inq, hung, waits, asks, backlog, ops, env, stray, misled>>

(* ipc_accept: a connection in its handshake phase. *)
Accept ==
    /\ stack = <<>> /\ evs # <<>> /\ Head(evs).id = Listener
    /\ evs' = Tail(evs)
    /\ backlog' = backlog - 1
    /\ IF CanOpen
       THEN Register("hs") /\ inq' = [inq EXCEPT ![NextConn] = <<[t |-> "creds"]>>]
       ELSE UNCHANGED <<sels, cds, inq>>
    /\ UNCHANGED <<hung, waits, asks, stack, ops, env, stray, misled>>

EventConn == sels[Top.id]

EventRead ==
    /\ Running({"ev"}) /\ EventConn # None /\ inq[EventConn] # <<>>
    /\ ReadFrame(Top.id, EventConn)

(* recv reports the end of the stream: deregister, next event. *)
EventEof ==
    /\ Running({"ev"}) /\ EventConn # None /\ inq[EventConn] = <<>> /\ hung[EventConn]
    /\ Deregister(Top.id, Pop, FALSE)
    /\ UNCHANGED <<inq, hung, waits, asks, backlog, evs, ops, env, stray, misled>>

(* Drained: a hang-up reported with the event closes what is in the slot.  *)
EventDone ==
    /\ Running({"ev"})
    /\ EventConn # None => inq[EventConn] = <<>> /\ ~hung[EventConn]
    /\ IF Top.hup THEN DeregisterAny(Top.id, Pop) ELSE stack' = Pop /\ UNCHANGED table
    /\ UNCHANGED <<inq, hung, waits, asks, backlog, evs, ops, env, stray, misled>>

(* Between batches a timer callback runs user code. *)
Timer ==
    /\ Idle /\ ops < MaxOps
    /\ stack' = <<[k |-> "tm"]>>
    /\ UNCHANGED <<sels, cds, inq, hung, waits, asks, backlog, evs, ops, env, stray, misled>>

----------------------------------------------------------------------------
(* sync_send, waiting: the frame on the stack remembers the slot, the      *)
(* record's address and (for the properties) the connection and request.   *)

WaitConn == sels[Top.id]
Mine == WaitConn # None /\ cds[WaitConn].ptr = Top.ptr

(* conn_pump reads one frame of whatever connection is in the slot. *)
WaitRead ==
    /\ Running({"wait"}) /\ WaitConn # None
    /\ ~cds[WaitConn].ready /\ inq[WaitConn] # <<>>
    /\ ReadFrame(Top.id, WaitConn)

WaitEof ==
    /\ Running({"wait"}) /\ WaitConn # None
    /\ ~cds[WaitConn].ready /\ inq[WaitConn] = <<>> /\ hung[WaitConn]
    /\ Deregister(Top.id, stack, FALSE)
    /\ UNCHANGED <<inq, hung, waits, asks, backlog, evs, ops, env, stray, misled>>

Consumed(cd) == [cd EXCEPT !.wait = FALSE, !.ready = FALSE, !.resp = 0, !.bad = FALSE]

(* The answer is consumed; a local 'badmsg also closes the connection. *)
WaitReady ==
    /\ Running({"wait"}) /\ Mine /\ cds[WaitConn].ready
    /\ LET d == WaitConn
           done == [cds EXCEPT ![d] = Consumed(@)]
       IN  IF cds[d].bad
           THEN /\ cds' = [done EXCEPT ![d].st = "closing"]
                /\ stack' = Append(Pop, [k |-> "pc", id |-> Top.id, c |-> d])
           ELSE cds' = done /\ stack' = Pop
    /\ UNCHANGED <<sels, inq, hung, waits, asks, backlog, evs, ops, env, stray, misled>>

(* 'io: waiting for the socket fails.  The call returns and is not waiting *)
(* any more; the connection stays open, and the answer is still to come.   *)
WaitFails ==
    /\ Running({"wait"}) /\ Mine
    /\ ~cds[WaitConn].ready /\ inq[WaitConn] = <<>> /\ ~hung[WaitConn]
    /\ env < MaxPeer /\ env' = env + 1
    /\ cds' = [cds EXCEPT ![WaitConn].wait = FALSE, ![WaitConn].slip = @ \/ WaitConn = Top.c]
    /\ stack' = Pop
    /\ UNCHANGED <<sels, inq, hung, waits, asks, backlog, evs, ops, stray, misled>>

(* 'io: the slot is empty, or drained and holding another record. *)
WaitGone ==
    /\ Running({"wait"})
    /\ ~Mine
    /\ WaitConn # None => \/ cds[WaitConn].ready
                          \/ inq[WaitConn] = <<>> /\ ~hung[WaitConn]
    /\ stack' = Pop
    /\ UNCHANGED <<sels, cds, inq, hung, waits, asks, backlog, evs, ops, env, stray, misled>>

----------------------------------------------------------------------------
(* User code: the request handlers, the lifecycle hooks and the timer.     *)

User == Running({"pay", "po", "pc", "bm", "tm"})
Op   == User /\ ops < MaxOps /\ ops' = ops + 1

(* conn_resolve accepts a connection past its handshake with a read_fn. *)
ResolvedClosing(c) == cds[c].st \in {"open", "closing"}     \* Fault: read_fn is not tested
Resolved(c) == cds[c].st = "open"

NeverBusy(c) == FALSE                 \* Fault: a nested send may pump the same connection
Busy(c) == cds[c].wait

(* `h x`: the SYNC frame goes out and the process waits on this connection; *)
(* refused while a wait is already pumping it.                             *)
SyncSend(c) ==
    /\ Op /\ Resolved(c) /\ ~Busy(c)
    /\ cds' = [cds EXCEPT ![c].wait = TRUE, ![c].ready = FALSE, ![c].bad = FALSE, ![c].resp = 0]
    /\ asks' = [asks EXCEPT ![c] = Append(@, ops + 1)]
    /\ stack' = Append(stack, [k |-> "wait", id |-> SlotOf(c), c |-> c, ptr |-> cds[c].ptr, n |-> ops + 1])
    /\ UNCHANGED <<sels, inq, hung, waits, backlog, evs, env, stray, misled>>

(* hclose (local: no .z.pc) and .ipc.close. *)
CloseConn(c, local) ==
    /\ Op /\ Resolved(c)
    /\ Deregister(SlotOf(c), stack, local)
    /\ UNCHANGED <<inq, hung, waits, asks, backlog, evs, env, stray, misled>>

(* hopen: the blocking handshake succeeded, the connection is born open. *)
Connect ==
    /\ Op /\ CanOpen
    /\ Register("open")
    /\ UNCHANGED <<inq, hung, waits, asks, backlog, stack, evs, env, stray, misled>>

(* The connection whose hook or request is executing innermost: .z.w *)
Contexts == {i \in DOMAIN stack : stack[i].k \in {"pay", "po", "pc", "bm"}}
CtxSlot  == IF Contexts = {} THEN None
            ELSE stack[CHOOSE i \in Contexts : \A j \in Contexts : j <= i].id

MayDefer(d) == cds[d].dseq = 0 \/ cds[d].drep

(* A deferral that was answered gives way to the next one, also while its  *)
(* own frame still runs below: that frame no longer knows of it.           *)
Displaces(d) == cds[d].dseq # 0 /\ \E i \in Frames("pay") : stack[i].c = d /\ stack[i].n = cds[d].dseq

(* -30!(::) *)
DeferResponse ==
    /\ Op /\ CtxSlot # None /\ sels[CtxSlot] # None
    /\ LET d == sels[CtxSlot]
           n == cds[d].cur
       IN  /\ n # 0 /\ cds[d].dseq # n
           /\ MayDefer(d)
           /\ cds' = [cds EXCEPT ![d].dseq = n, ![d].drep = FALSE]
           /\ misled' = IF Displaces(d) THEN misled \cup {"deferral"} ELSE misled
    /\ UNCHANGED <<sels, inq, hung, waits, asks, backlog, stack, evs, env, stray>>

(* -30!(h;0b;x) *)
SendDeferred(c) ==
    /\ Op /\ Resolved(c) /\ cds[c].dseq # 0 /\ ~cds[c].drep
    /\ SendResponse(c, c, cds[c].dseq)
    /\ cds' = [cds EXCEPT ![c].drep = TRUE]
    /\ UNCHANGED <<sels, inq, hung, asks, backlog, stack, evs, env, misled>>

----------------------------------------------------------------------------
(* User code returns into the C function that called it.                   *)

OwedNever(d, n) == FALSE              \* Fault: the reply goes out although it was deferred
Owed(d, n) == n # 0 /\ cds[d].dseq = n

SettledAnyway(d, own) == own          \* Fault: the end of the frame forgets a reply still owed
Settled(d, own) == own /\ cds[d].drep

(* The slot and the record's address are those of connection c again, and  *)
(* so a newcomer d is taken for it.                                        *)
Mistakes(live, d, c) == misled' = IF live /\ d # c THEN misled \cup {"address"} ELSE misled

(* ipc_read_payload after ipc_dispatch: the connection is looked up again  *)
(* by slot and address, the frame's reply is sent unless it was deferred.  *)
RequestReturns ==
    /\ Running({"pay"})
    /\ stack' = Pop
    /\ LET f == Top
           d == sels[f.id]
           live == d # None /\ cds[d].ptr = f.ptr
           own == live /\ Owed(d, f.n)
       IN  /\ Mistakes(live, d, f.c)
           /\ cds' = IF ~live THEN cds
                     ELSE [cds EXCEPT ![d].cur = f.prev,
                                      ![d].dseq = IF Settled(d, own) THEN 0 ELSE @]
           /\ IF live /\ f.n # 0 /\ ~own
              THEN SendResponse(d, f.c, f.n)
              ELSE UNCHANGED <<waits, stray>>
    /\ UNCHANGED <<sels, inq, hung, asks, backlog, evs, ops, env>>

(* After .z.bm: a response is answered to its waiter as 'badmsg or closes  *)
(* the connection; a request gets a bare 'badmsg and the slot is closed.   *)
BadMsgReturns ==
    /\ Running({"bm"})
    /\ LET f == Top
           d == sels[f.id]
           live == d # None /\ cds[d].ptr = f.ptr
       IN  /\ Mistakes(live, d, f.c)
           /\ \/ /\ f.resp /\ ~live
                 /\ stack' = Pop
                 /\ UNCHANGED <<sels, cds, waits, stray>>
              \/ /\ f.resp /\ live
                 /\ IF cds[d].wait /\ ~cds[d].ready
                    THEN /\ cds' = [cds EXCEPT ![d].ready = TRUE, ![d].bad = TRUE]
                         /\ stack' = Pop /\ UNCHANGED sels
                    ELSE Deregister(f.id, Pop, FALSE)
                 /\ UNCHANGED <<waits, stray>>
              \/ /\ ~f.resp
                 /\ IF f.n # 0 /\ live THEN SendResponse(d, f.c, f.n) ELSE UNCHANGED <<waits, stray>>
                 /\ DeregisterAny(f.id, Pop)
    /\ UNCHANGED <<inq, hung, asks, backlog, evs, ops, env>>

(* .z.pc returns: the selector and its record go. *)
CloseReturns ==
    /\ Running({"pc"})
    /\ Drop(Top.id, Top.c)
    /\ stack' = Pop
    /\ UNCHANGED <<inq, hung, waits, asks, backlog, evs, ops, env, stray, misled>>

HookReturns ==
    /\ Running({"po", "tm"})
    /\ stack' = Pop
    /\ UNCHANGED <<sels, cds, inq, hung, waits, asks, backlog, evs, ops, env, stray, misled>>

----------------------------------------------------------------------------
(* The peers: processes like this one.  A peer blocks on a sync request    *)
(* until its answer is there, and answers what it is asked in order.       *)

PeerStep == env < MaxPeer /\ env' = env + 1
Arrive(c, f) == inq' = [inq EXCEPT ![c] = Append(@, f)]
Reachable(c) == cds[c].st \in {"open", "closing"} /\ ~hung[c]

(* The places of the requests in a queue of frames. *)
SyncsIn(q) == {i \in DOMAIN q : q[i].t \in {"sync", "badsync"}}

PeerRequest(c) ==
    /\ PeerStep /\ Reachable(c) /\ waits[c] = 0
    /\ waits' = [waits EXCEPT ![c] = cds[c].seq + Cardinality(SyncsIn(inq[c])) + 1]
    /\ \E t \in {"sync", "badsync"} : Arrive(c, [t |-> t])
    /\ UNCHANGED <<sels, cds, hung, asks, backlog, stack, evs, ops, stray, misled>>

PeerPush(c) ==
    /\ PeerStep /\ Reachable(c)
    /\ \E t \in {"async", "badasync", "badhdr"} : Arrive(c, [t |-> t])
    /\ UNCHANGED <<sels, cds, hung, waits, asks, backlog, stack, evs, ops, stray, misled>>

PeerAnswer(c) ==
    /\ PeerStep /\ Reachable(c) /\ asks[c] # <<>>
    /\ \E t \in {"resp", "badresp"} : Arrive(c, [t |-> t, n |-> Head(asks[c])])
    /\ asks' = [asks EXCEPT ![c] = Tail(@)]
    /\ UNCHANGED <<sels, cds, hung, waits, backlog, stack, evs, ops, stray, misled>>

PeerHangUp(c) ==
    /\ PeerStep /\ Live(c) /\ ~hung[c]
    /\ hung' = [hung EXCEPT ![c] = TRUE]
    /\ UNCHANGED <<sels, cds, inq, waits, asks, backlog, stack, evs, ops, stray, misled>>

PeerConnect ==
    /\ PeerStep
    /\ backlog' = backlog + 1
    /\ UNCHANGED <<sels, cds, inq, hung, waits, asks, stack, evs, ops, stray, misled>>

----------------------------------------------------------------------------

Init ==
    /\ sels = [i \in Slots |-> IF i <= Opened THEN i ELSE None]
    /\ cds = [c \in Conns |-> IF c <= Opened THEN Fresh(c, "open") ELSE Unused]
    /\ inq = [c \in Conns |-> <<>>]
    /\ hung = [c \in Conns |-> FALSE]
    /\ waits = [c \in Conns |-> 0]
    /\ asks = [c \in Conns |-> <<>>]
    /\ backlog = 0
    /\ stack = <<>> /\ evs = <<>>
    /\ ops = 0 /\ env = 0
    /\ stray = FALSE /\ misled = {}

Loop     == EpollWait \/ NextEvent \/ Accept \/ EventRead \/ EventEof \/ EventDone \/ Timer
Wait     == WaitRead \/ WaitEof \/ WaitReady \/ WaitFails \/ WaitGone
UserCode == \/ \E c \in Conns : SyncSend(c) \/ SendDeferred(c) \/ \E l \in BOOLEAN : CloseConn(c, l)
            \/ Connect \/ DeferResponse
Returns  == RequestReturns \/ BadMsgReturns \/ CloseReturns \/ HookReturns
Peers    == \/ \E c \in Conns : PeerRequest(c) \/ PeerPush(c) \/ PeerAnswer(c) \/ PeerHangUp(c)
            \/ PeerConnect

Next == Loop \/ Wait \/ UserCode \/ Returns \/ Peers

Spec == Init /\ [][Next]_vars

----------------------------------------------------------------------------
(* Properties.                                                             *)

TypeOK ==
    /\ sels \in [Slots -> Conns \cup {None}]
    /\ \A c \in Conns :
         /\ cds[c].st \in {"none", "hs", "open", "closing", "closed"}
         /\ cds[c].ptr \in 0..MaxConn /\ cds[c].seq \in Nat /\ cds[c].cur \in Nat
         /\ cds[c].dseq \in Nat /\ cds[c].resp \in 0..MaxOps
         /\ Live(c) <=> \E i \in Slots : sels[i] = c
    /\ waits \in [Conns -> Nat] /\ hung \in [Conns -> BOOLEAN]
    /\ ops \in 0..MaxOps /\ env \in 0..MaxPeer /\ backlog \in 0..MaxPeer
    /\ stray \in BOOLEAN /\ misled \subseteq {"address", "deferral"}

(* A peer blocked on a request of an open connection is never forgotten:   *)
(* the request is still unread, or being evaluated on the stack (however   *)
(* deep), or deferred with its reply still owed.  The re-arming of the     *)
(* header before the dispatch, cur_sync_seq and the defer fields carry it. *)
(* Only a newcomer taken for a closed connection can spoil them.           *)
NobodyForgotten ==
    "address" \notin misled =>
    \A c \in Conns :
        cds[c].st = "open" /\ waits[c] # 0 =>
            \/ SyncsIn(inq[c]) # {}
            \/ \E i \in Frames("pay") \cup Frames("bm") : stack[i].c = c /\ stack[i].n = waits[c]
            \/ cds[c].dseq = waits[c] /\ ~cds[c].drep

(* A response frame goes only to a peer that is blocked on that request,   *)
(* never twice, never to the connection that took the slot meanwhile,      *)
(* but for two causes: the newcomer has the very address of the closed     *)
(* connection's record, or an answered deferral was displaced by the next  *)
(* one while its own frame was still running.                              *)
NoStrayReply == stray => misled # {}

(* What ray_ipc_conn_data_t says of defer_replied: the return of a frame   *)
(* whose reply went out by handle is not sent on top of it.                *)
RepliesOnce == ~stray

(* A synchronous call takes the answer to its own request, never that of   *)
(* an earlier call on the same handle (sync_waiting, sync_ready), as long  *)
(* as no call on this connection gave up waiting: the answer it left under *)
(* way is what the next call takes, and the calls after it are each one    *)
(* answer behind.                                                          *)
OwnAnswer ==
    \A i \in Frames("wait") :
        LET f == stack[i] IN
        cds[f.c].st = "open" /\ cds[f.c].ready /\ ~cds[f.c].slip =>
            cds[f.c].bad \/ cds[f.c].resp = f.n

(* A handle refuses a synchronous send as busy only while a call really    *)
(* waits on it further down the stack.                                     *)
BusyMeansWaiting ==
    \A c \in Conns :
        cds[c].st = "open" =>
            (cds[c].wait <=> \E i \in Frames("wait") : stack[i].c = c)

(* A connection is closed once: whatever .z.pc does, the record it runs on *)
(* is not deregistered again under it and the slot stays its own.          *)
ClosedOnce ==
    /\ \A i, j \in Frames("pc") : stack[i].c = stack[j].c => i = j
    /\ \A i \in Frames("pc") : cds[stack[i].c].st = "closing" /\ sels[stack[i].id] = stack[i].c

(* Synchronous calls of ray_ipc_send: each takes its own answer unless one *)
(* before it on the connection gave up, and a connection is marked waiting *)
(* exactly while a call waits on it.                                       *)
WaitsExact == TypeOK /\ OwnAnswer /\ BusyMeansWaiting
=============================================================================
