------------------------------ MODULE Handles ------------------------------
(***************************************************************************)
(* The q handles of one process: the descriptor-keyed records and owned    *)
(* workers of qlang/io/q_handles.c, the aliases of qlang/io/q_provider.c,  *)
(* the workers of qlang/io/q_worker.c, and of core/ipc.c what they use:    *)
(* a connection has a descriptor and an open stamp, is closed by hclose or *)
(* when the end of its stream is read, and tells q_handles when it is.     *)
(*                                                                         *)
(* A handle is a descriptor number, and the system gives the lowest free   *)
(* number out again.  Everything here that keeps such a number (a record,  *)
(* an owned worker's link, the token of an alias) may outlive what it      *)
(* named.  The objects behind the numbers are therefore numbered in order  *)
(* of creation; the open stamp of a connection is that number.             *)
(*                                                                         *)
(* User code runs at top level, in .z.pc and in the requests an alias      *)
(* evaluates when it drains its connection before use: what is suspended   *)
(* meanwhile is on the stack.                                              *)
(***************************************************************************)
EXTENDS Naturals, Sequences, FiniteSets

CONSTANTS Fds,        \* descriptor numbers above the standard streams
          MaxObj,     \* files, connections and reserved descriptors ever made
          Peers,      \* aliases of kind q
          Workers,    \* aliases of kind qfork or qspawn
          MaxOps      \* operations of user code

ASSUME HandlesAssumption ==
    /\ Fds \subseteq Nat \ {0} /\ IsFiniteSet(Fds)
    /\ MaxObj \in Nat /\ MaxOps \in Nat
    /\ Peers \cap Workers = {} /\ 0 \notin Peers \cup Workers

Aliases == Peers \cup Workers
Objs == 1..MaxObj
None == 0

VARIABLES
    obj,     \* object -> what it is, its descriptor, who made it
    recs,    \* descriptor -> the registry's record of it
    own,     \* g_owned: the worker to end when the link on fd closes
    proc,    \* worker process -> none, running, zombie, reaped
    ents,    \* alias -> its row, or None
    stack,   \* what waits for user code to return, innermost last
    told,    \* the last message an alias sent: who, to which object
    ops,
    exited

vars == <<obj, recs, own, proc, ents, stack, told, ops, exited>>

Nothing == [t |-> "none", fd |-> None, by |-> None, eof |-> FALSE, msg |-> "none", pid |-> None]
NoRec   == [kind |-> "none", id |-> None]
NoRow   == [fd |-> None, tok |-> None, stamp |-> None]

Open(i)    == obj[i].t \in {"file", "reserved", "conn", "closing"}
Holder(fd) == {i \in Objs : Open(i) /\ obj[i].fd = fd}
FreeFds    == {fd \in Fds : Holder(fd) = {}}
LowestFd   == CHOOSE fd \in FreeFds : \A g \in FreeFds : fd <= g
Unmade     == {i \in Objs : obj[i].t = "none"}
NewObj     == CHOOSE i \in Unmade : \A j \in Unmade : i <= j
CanMake(n) == Cardinality(Unmade) >= n /\ Cardinality(FreeFds) >= n

(* ray_ipc_handle_of_fd: the live connection on a descriptor.  One whose   *)
(* .z.pc is running is no longer found.                                    *)
ConnOn(fd) == LET S == {i \in Objs : obj[i].t = "conn" /\ obj[i].fd = fd}
              IN  IF S = {} THEN None ELSE CHOOSE i \in S : TRUE

(* Fault: the record of an earlier holder of the number stays. *)
RegisterKeeps(r, fd, kind, i) == IF r[fd] = NoRec THEN [r EXCEPT ![fd] = [kind |-> kind, id |-> i]] ELSE r

Register(r, fd, kind, i) == [r EXCEPT ![fd] = [kind |-> kind, id |-> i]]
Deregister(r, fd) == [r EXCEPT ![fd] = NoRec]

Make(o, i, t, fd, by, pid) ==
    [o EXCEPT ![i] = [t |-> t, fd |-> fd, by |-> by, eof |-> FALSE,
                     msg |-> "none", pid |-> pid]]
Gone(o, i) == [o EXCEPT ![i] = [Nothing EXCEPT !.t = "gone", !.by = o[i].by]]

(* q_handles_owned_closed: the worker of the link that was on fd is ended  *)
(* and waited for, TERM first and KILL after the grace.                    *)
OwnedOn(w, fd) == {p \in w : p.fd = fd}
Reap(ps, P) == [q \in DOMAIN ps |-> IF \E p \in P : p.pid = q THEN "reaped" ELSE ps[q]]

----------------------------------------------------------------------------
(* A state of the tables, passed through the steps of one operation.       *)

State == [obj |-> obj, recs |-> recs, own |-> own, proc |-> proc, ents |-> ents]

Becomes(s) == /\ obj' = s.obj /\ recs' = s.recs /\ own' = s.own
              /\ proc' = s.proc /\ ents' = s.ents

ConnIn(s, fd) == LET S == {i \in Objs : s.obj[i].t = "conn" /\ s.obj[i].fd = fd}
                 IN  IF S = {} THEN None ELSE CHOOSE i \in S : TRUE
FreeIn(s)   == {fd \in Fds : \A i \in Objs : s.obj[i].fd = fd => s.obj[i].t \in {"none", "gone"}}
LowestIn(s) == CHOOSE fd \in FreeIn(s) : \A g \in FreeIn(s) : fd <= g
NewIn(s)    == LET U == {i \in Objs : s.obj[i].t = "none"}
               IN  CHOOSE i \in U : \A j \in U : i <= j

CanDial(s)  == FreeIn(s) # {} /\ \E i \in Objs : s.obj[i].t = "none"

(* Fault: the owned worker is reaped but stays in the list. *)
ClosedKeepsOwned(s, i) ==
    [s EXCEPT !.obj = Gone(@, i), !.proc = Reap(@, OwnedOn(s.own, s.obj[i].fd))]
(* Fault: q_handles is not told of the close. *)
ClosedUntold(s, i) == [s EXCEPT !.obj = Gone(@, i)]

(* The end of ipc_on_close: socket closed, owned worker reaped. *)
Closed(s, i) ==
    LET fd == s.obj[i].fd
    IN  [s EXCEPT !.obj  = Gone(@, i),
                  !.own  = @ \ OwnedOn(@, fd),
                  !.proc = Reap(@, OwnedOn(s.own, fd))]

(* q_handles_close of a socket: the record goes, the connection is closed  *)
(* locally, without .z.pc.                                                 *)
CloseSocket(s, fd) ==
    LET c == ConnIn(s, fd)
        r == [s EXCEPT !.recs = Deregister(@, fd)]
    IN  IF c = None THEN r ELSE Closed(r, c)

(* ent_dead: the token's descriptor no longer carries the connection the   *)
(* alias opened.                                                           *)
Dead(s, a) == \/ s.ents[a].tok = None
              \/ ConnIn(s, s.ents[a].tok) # s.ents[a].stamp

(* Fault: the token's number is closed whoever has it now. *)
DropTokenAnyway(s, a) ==
    LET r == IF s.ents[a].tok = None THEN s ELSE CloseSocket(s, s.ents[a].tok)
    IN  [r EXCEPT !.ents[a].tok = None]

(* ent_drop_token *)
DropToken(s, a) ==
    LET r == IF Dead(s, a) THEN s ELSE CloseSocket(s, s.ents[a].tok)
    IN  [r EXCEPT !.ents[a].tok = None]

(* conn_open for a q peer (hopen registers the socket) and for a worker    *)
(* (link_adopt: owned, then the handshake).                                *)
Dialled(s, a) ==
    LET i == NewIn(s)
        fd == LowestIn(s)
        pid == IF a \in Workers THEN i ELSE None
    IN  [s EXCEPT !.obj  = Make(@, i, "conn", fd, a, pid),
                  !.recs = IF a \in Peers THEN Register(@, fd, "socket", i) ELSE @,
                  !.own  = IF a \in Workers THEN @ \cup {[fd |-> fd, pid |-> i]} ELSE @,
                  !.proc = IF a \in Workers THEN [@ EXCEPT ![i] = "running"] ELSE @,
                  !.ents[a] = [@ EXCEPT !.tok = fd, !.stamp = i]]

(* The peer does not answer: the socket is closed, and a worker that never *)
(* answered the handshake in time is reaped.                               *)
NotDialled(s, a) ==
    IF ~CanDial(s) THEN s
    ELSE LET r == [Dialled(s, a) EXCEPT !.recs = s.recs]
             c == r.ents[a].stamp
         IN  [Closed(r, c) EXCEPT !.ents = s.ents]

Exists(a) == ents[a] # NoRow

(* The row leaves the table, then its token closes, then its descriptor. *)
RowGone(s, a) ==
    LET fd == s.ents[a].fd
        r  == DropToken(s, a)
        i  == CHOOSE i \in Objs : s.obj[i].t = "reserved" /\ s.obj[i].fd = fd
    IN  [r EXCEPT !.obj = Gone(@, i), !.recs = Deregister(@, fd), !.ents[a] = NoRow]

----------------------------------------------------------------------------
(* Operations of user code, at top level or in a .z.pc hook.               *)

Top == stack[Len(stack)]
Pop == SubSeq(stack, 1, Len(stack) - 1)
UserRuns == ~exited /\ (stack # <<>> => Top.k \in {"pc", "req"})
Op == UserRuns /\ ops < MaxOps /\ ops' = ops + 1

(* hopen `:path *)
HopenFile ==
    /\ Op /\ CanMake(1)
    /\ obj' = Make(obj, NewObj, "file", LowestFd, None, None)
    /\ recs' = Register(recs, LowestFd, "file", NewObj)
    /\ UNCHANGED <<own, proc, ents, stack, told, exited>>

(* hopen `:host:port *)
HopenSocket ==
    /\ Op /\ CanMake(1)
    /\ obj' = Make(obj, NewObj, "conn", LowestFd, None, None)
    /\ recs' = Register(recs, LowestFd, "socket", NewObj)
    /\ UNCHANGED <<own, proc, ents, stack, told, exited>>

(* hclose of any number at all: dispatched on the kind of its record. *)
Hclose(fd) ==
    /\ Op
    /\ LET k == recs[fd].kind
           row == {a \in Aliases : Exists(a) /\ ents[a].fd = fd}
       IN  \/ /\ k = "provider" /\ row # {}
              /\ Becomes(RowGone(State, CHOOSE a \in row : TRUE))
           \/ /\ k = "provider" /\ row = {}
              /\ Becomes([State EXCEPT !.recs = Deregister(@, fd)])
           \/ /\ k = "file"
              /\ Becomes([State EXCEPT !.obj = Gone(@, CHOOSE i \in Holder(fd) : TRUE),
                                       !.recs = Deregister(@, fd)])
           \/ /\ k \in {"none", "socket"}
              /\ Becomes(CloseSocket(State, fd))
    /\ UNCHANGED <<stack, told, exited>>

(* hopen `:pq:kind:alias, new: a descriptor is reserved and registered,    *)
(* then the connection is opened.                                          *)
AliasOpen(a) ==
    /\ Op /\ ~Exists(a) /\ CanMake(2)
    /\ LET r == [State EXCEPT !.obj = Make(@, NewObj, "reserved", LowestFd, a, None),
                              !.recs = Register(@, LowestFd, "provider", NewObj),
                              !.ents[a] = [NoRow EXCEPT !.fd = LowestFd]]
       IN  \/ Becomes(Dialled(r, a))
           \/ Becomes(RowGone(NotDialled(r, a), a))
    /\ UNCHANGED <<stack, told, exited>>

(* hopen of an alias that is there: re-pointed, or gone with its failed    *)
(* open.                                                                   *)
AliasRepoint(a) ==
    /\ Op /\ Exists(a)
    /\ LET r == DropToken(State, a)
       IN  \/ CanDial(r) /\ Becomes(Dialled(r, a))
           \/ Becomes(RowGone(NotDialled(r, a), a))
    /\ UNCHANGED <<stack, told, exited>>

AliasClose(a) ==
    /\ Op /\ Exists(a)
    /\ Becomes(RowGone(State, a))
    /\ UNCHANGED <<stack, told, exited>>

(* ent_live after the drain, and prov_dispatch: a dead peer is dialled once *)
(* and then written to.                                                    *)
Speak(a, dead) ==
    IF ~Exists(a) THEN Becomes(State) /\ UNCHANGED told       \* 'conn
    ELSE IF ~dead THEN Becomes(State) /\ told' = [a |-> a, to |-> ConnOn(ents[a].tok)]
    ELSE LET r == DropToken(State, a) IN
         \/ LET d == Dialled(r, a)
            IN  CanDial(r) /\ Becomes(d) /\ told' = [a |-> a, to |-> ConnIn(d, d.ents[a].tok)]
         \/ Becomes(NotDialled(r, a)) /\ UNCHANGED told

(* `:pq:kind:alias "x": the connection on the token's descriptor, if there *)
(* is one and whoever opened it, is drained before anything else           *)
(* (ray_ipc_conn_stamp with drain, conn_pump).                             *)
AliasUse(a) ==
    /\ Op /\ Exists(a)
    /\ LET c == IF ents[a].tok = None THEN None ELSE ConnOn(ents[a].tok)
       IN  IF c # None
           THEN /\ stack' = Append(stack, [k |-> "use", a |-> a, c |-> c, want |-> ents[a].stamp])
                /\ UNCHANGED <<obj, recs, own, proc, ents, told>>
           ELSE Speak(a, TRUE) /\ UNCHANGED stack
    /\ UNCHANGED exited

Draining == ~exited /\ stack # <<>> /\ Top.k = "use"

(* A frame that arrived meanwhile is evaluated; *)
DrainRead ==
    /\ Draining /\ obj[Top.c].t = "conn" /\ obj[Top.c].msg = "sent"
    /\ obj' = [obj EXCEPT ![Top.c].msg = "read"]
    /\ stack' = Append(stack, [k |-> "req"])
    /\ UNCHANGED <<recs, own, proc, ents, told, ops, exited>>

(* the end of the stream closes the connection and runs .z.pc.             *)
DrainEof ==
    /\ Draining /\ obj[Top.c].t = "conn" /\ obj[Top.c].msg # "sent" /\ obj[Top.c].eof
    /\ obj' = [obj EXCEPT ![Top.c].t = "closing"]
    /\ stack' = Append(stack, [k |-> "pc", c |-> Top.c])
    /\ UNCHANGED <<recs, own, proc, ents, told, ops, exited>>

(* Fault: any connection on the descriptor will do. *)
StampByFd(f) == obj[f.c].t = "conn"

(* ray_ipc_conn_stamp after the drain: the connection is there and was     *)
(* opened by the alias.                                                    *)
StampAgrees(f) == obj[f.c].t = "conn" /\ f.c = f.want

(* Drained: the alias is dead if the connection is gone or was another's,  *)
(* and it is looked up again, for the user code may have closed or         *)
(* re-pointed it.                                                          *)
AliasResume ==
    /\ Draining
    /\ obj[Top.c].t = "conn" => obj[Top.c].msg # "sent" /\ ~obj[Top.c].eof
    /\ Speak(Top.a, ~StampAgrees(Top))
    /\ stack' = Pop
    /\ UNCHANGED <<ops, exited>>

RequestReturns ==
    /\ ~exited /\ stack # <<>> /\ Top.k = "req"
    /\ stack' = Pop
    /\ UNCHANGED <<obj, recs, own, proc, ents, told, ops, exited>>

----------------------------------------------------------------------------
(* The event loop and the world.                                           *)

(* The loop reads the end of a stream: .z.pc, then the close. *)
ReadEof(c) ==
    /\ ~exited /\ stack = <<>> /\ obj[c].t = "conn" /\ obj[c].eof
    /\ obj' = [obj EXCEPT ![c].t = "closing"]
    /\ stack' = <<[k |-> "pc", c |-> c]>>
    /\ UNCHANGED <<recs, own, proc, ents, told, ops, exited>>

CloseReturns ==
    /\ ~exited /\ stack # <<>> /\ Top.k = "pc"
    /\ Becomes(Closed(State, Top.c))
    /\ stack' = Pop
    /\ UNCHANGED <<told, ops, exited>>

(* An inbound connection: no record is made for it. *)
Accept ==
    /\ ~exited /\ stack = <<>> /\ CanMake(1)
    /\ obj' = Make(obj, NewObj, "conn", LowestFd, None, None)
    /\ UNCHANGED <<recs, own, proc, ents, stack, told, ops, exited>>

(* A peer sends, once (what the loop reads at top level runs there).  A    *)
(* peer that never stops keeps conn_pump, and the main thread, for ever.   *)
PeerSends(c) ==
    /\ ~exited /\ obj[c].t = "conn" /\ ~obj[c].eof /\ obj[c].msg = "none"
    /\ obj' = [obj EXCEPT ![c].msg = "sent"]
    /\ UNCHANGED <<recs, own, proc, ents, stack, told, ops, exited>>

(* A peer closes; a worker dies of its own. *)
PeerCloses(c) ==
    /\ ~exited /\ obj[c].t = "conn" /\ ~obj[c].eof
    /\ obj' = [obj EXCEPT ![c].eof = TRUE]
    /\ proc' = IF obj[c].pid = None THEN proc ELSE [proc EXCEPT ![obj[c].pid] = "zombie"]
    /\ UNCHANGED <<recs, own, ents, stack, told, ops, exited>>

(* exit: q_handles_end_owned. *)
Exit ==
    /\ UserRuns
    /\ exited' = TRUE
    /\ proc' = Reap(proc, own)
    /\ own' = {}
    /\ UNCHANGED <<obj, recs, ents, stack, told, ops>>

Init ==
    /\ obj = [i \in Objs |-> Nothing]
    /\ recs = [fd \in Fds |-> NoRec]
    /\ own = {}
    /\ proc = [i \in Objs |-> "none"]
    /\ ents = [a \in Aliases |-> NoRow]
    /\ stack = <<>>
    /\ told = [a |-> None, to |-> None]
    /\ ops = 0 /\ exited = FALSE

UserCode == \/ HopenFile \/ HopenSocket \/ \E fd \in Fds : Hclose(fd)
            \/ \E a \in Aliases : AliasOpen(a) \/ AliasRepoint(a) \/ AliasClose(a) \/ AliasUse(a)
Loop     == DrainRead \/ DrainEof \/ AliasResume \/ RequestReturns \/ CloseReturns \/ Accept \/ \E c \in Objs : ReadEof(c)
World    == \/ \E c \in Objs : PeerSends(c) \/ PeerCloses(c)
            \/ Exit

Next == UserCode \/ Loop \/ World

Spec == Init /\ [][Next]_vars

(* The loop reads what is readable, and user code returns. *)
Serve == DrainRead \/ DrainEof \/ AliasResume \/ RequestReturns \/ CloseReturns \/ \E c \in Objs : ReadEof(c)
FairSpec == Spec /\ WF_vars(Serve)

----------------------------------------------------------------------------
(* Properties.                                                             *)

TypeOK ==
    /\ \A i \in Objs : /\ obj[i].t \in {"none", "file", "reserved", "conn", "closing", "gone"}
                       /\ obj[i].fd \in Fds \cup {None} /\ obj[i].by \in Aliases \cup {None}
                       /\ proc[i] \in {"none", "running", "zombie", "reaped"}
    /\ \A fd \in Fds : Cardinality(Holder(fd)) <= 1
    /\ \A fd \in Fds : recs[fd].kind \in {"none", "file", "socket", "provider"}
    /\ \A a \in Aliases : ents[a].fd \in Fds \cup {None} /\ ents[a].tok \in Fds \cup {None}
    /\ own \subseteq [fd : Fds, pid : Objs]

(* The kind an apply or an hclose dispatches on is that of what the number *)
(* names now: a file or alias record belongs to the very object on its     *)
(* descriptor.  Only a socket's record may be stale, and then a connection *)
(* or nothing the registry opened holds the number.                        *)
KindExact ==
    \A fd \in Fds :
        /\ recs[fd].kind \in {"file", "provider"} => Holder(fd) = {recs[fd].id}
        /\ recs[fd].kind \in {"none", "socket"} =>
             \A i \in Holder(fd) : obj[i].t \in {"conn", "closing"}

(* Every worker that is not reaped is owned by the descriptor of its own   *)
(* link, so it dies with it; and no other descriptor would end it.         *)
WorkerOwned ==
    ~exited => \A p \in Objs :
        proc[p] \in {"running", "zombie"} <=>
            \E e \in own : /\ e.pid = p
                           /\ \E i \in Holder(e.fd) : obj[i].pid = p
                           /\ \A d \in own : (d.pid = p \/ d.fd = e.fd) => d = e

(* After exit no worker runs and none is left a zombie. *)
NoneSurvives == exited => \A p \in Objs : proc[p] \in {"none", "reaped"}

(* Workers live exactly as long as their link: owned by its descriptor     *)
(* while the process runs (q_handles_own), gone with it.                   *)
WorkersExact == WorkerOwned /\ NoneSurvives

(* What an alias sends goes to a connection the alias itself opened, never *)
(* to whatever took the number after its peer died.                        *)
OwnPeer == told.to # None => obj[told.to].by = told.a

(* No descriptor is leaked: each belongs to a connection, a registered     *)
(* file, or the row of an alias.                                           *)
NoLeak ==
    \A i \in Objs :
        /\ obj[i].t = "file" => recs[obj[i].fd] = [kind |-> "file", id |-> i]
        /\ obj[i].t = "reserved" => \E a \in Aliases : Exists(a) /\ ents[a].fd = obj[i].fd

(* The registry of q_handles.c and what the numbers name agree, whoever    *)
(* opened, closed or died in which order.                                  *)
RecordsExact == TypeOK /\ KindExact /\ NoLeak

(* A connection no alias opened is closed without its peer's hang-up only  *)
(* by hclose of its own number.                                            *)
NoForeignClose ==
    [][\A i \in Objs :
        obj[i].t = "conn" /\ obj[i].by = None /\ ~obj[i].eof /\ obj'[i].t = "gone"
            => Hclose(obj[i].fd)]_vars

(* No worker stays a zombie: one that died is reaped when the end of its   *)
(* link is read, at the latest when the process exits.                     *)
ZombieReaped == []<>(\A p \in Objs : proc[p] # "zombie")

=============================================================================
