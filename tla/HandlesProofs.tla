---------------------------- MODULE HandlesProofs ----------------------------
(***************************************************************************)
(* The theorems about Handles, for any numbers of descriptors, objects and *)
(* aliases: the records of the registry name what is on their descriptors, *)
(* a worker is owned by its own link until it is reaped, an alias speaks   *)
(* to its own peer only, and closes nobody else's connection.              *)
(***************************************************************************)
EXTENDS Handles, FiniteSetTheorems, SequenceTheorems, WellFoundedInduction, TLAPS

Kinds == {"none", "file", "reserved", "conn", "closing", "gone"}
Object == [t : Kinds, fd : Fds \cup {None}, by : Aliases \cup {None}, eof : BOOLEAN,
           msg : {"none", "sent", "read"}, pid : Objs \cup {None}]
Record == [kind : {"none", "file", "socket", "provider"}, id : Objs \cup {None}]
Row    == [fd : Fds \cup {None}, tok : Fds \cup {None}, stamp : Objs \cup {None}]

(* Of objects o: each that is open has a descriptor of its own.            *)
ObjsOK(o) ==
    /\ o \in [Objs -> Object]
    /\ \A i \in Objs : o[i].fd = None <=> o[i].t \in {"none", "gone"}
    /\ \A i, j \in Objs : o[i].fd = o[j].fd /\ o[i].fd # None => i = j

(* Of records r: a file or alias record names the object on its            *)
(* descriptor, and every file and reserved descriptor has one.             *)
RecsOK(o, r) ==
    /\ r \in [Fds -> Record]
    /\ \A fd \in Fds :
         /\ r[fd].kind = "file" =>
              r[fd].id \in Objs /\ o[r[fd].id].t = "file" /\ o[r[fd].id].fd = fd
         /\ r[fd].kind = "provider" =>
              r[fd].id \in Objs /\ o[r[fd].id].t = "reserved" /\ o[r[fd].id].fd = fd
    /\ \A i \in Objs :
         /\ o[i].t = "file" => r[o[i].fd] = [kind |-> "file", id |-> i]
         /\ o[i].t = "reserved" => r[o[i].fd] = [kind |-> "provider", id |-> i]

(* Of workers: the ones to end are those that are not reaped, each under   *)
(* the descriptor of its own link.                                         *)
Unreaped(p, q) == p[q] \in {"running", "zombie"}
WorkersOK(o, w, p) ==
    /\ w \in SUBSET [fd : Fds, pid : Objs]
    /\ p \in [Objs -> {"none", "running", "zombie", "reaped"}]
    /\ \A q \in Objs : Unreaped(p, q) => [fd |-> o[q].fd, pid |-> q] \in w
    /\ \A e \in w : Unreaped(p, e.pid) /\ o[e.pid].fd = e.fd /\ o[e.pid].pid = e.pid
    /\ \A i \in Objs : o[i].pid # None =>
         o[i].pid = i /\ Unreaped(p, i) /\ o[i].t \in {"conn", "closing"}

(* Of rows e: a row has a reserved descriptor of its own; its token was    *)
(* made for a connection the alias opened; and an alias has no live        *)
(* connection but the one its row names.                                   *)
RowsOK(o, e) ==
    /\ e \in [Aliases -> Row]
    /\ \A a \in Aliases :
         /\ e[a].fd = None => e[a] = NoRow
         /\ e[a].fd # None => \E i \in Objs : o[i].t = "reserved" /\ o[i].fd = e[a].fd /\ o[i].by = a
         /\ e[a].tok # None =>
              e[a].stamp \in Objs /\ o[e[a].stamp].t # "none" /\ o[e[a].stamp].by = a
    /\ \A i \in Objs :
         /\ o[i].t = "reserved" => o[i].by \in Aliases /\ e[o[i].by].fd = o[i].fd
         /\ o[i].t = "conn" /\ o[i].by # None => e[o[i].by].tok = o[i].fd /\ e[o[i].by].stamp = i

Shape(s) ==
    s = [obj |-> s.obj, recs |-> s.recs, own |-> s.own, proc |-> s.proc, ents |-> s.ents]
Good(s) ==
    /\ Shape(s)
    /\ ObjsOK(s.obj) /\ RecsOK(s.obj, s.recs)
    /\ WorkersOK(s.obj, s.own, s.proc) /\ RowsOK(s.obj, s.ents)

(* The suspended operations: an alias drains a connection, which it opened *)
(* if it has the stamp the alias wants, and each .z.pc runs for a connection of its own that is being closed.       *)
Suspended == [k : {"use"}, a : Aliases, c : Objs, want : Objs] \cup [k : {"pc"}, c : Objs] \cup [k : {"req"}]
StackOK(st, o) ==
    /\ st \in Seq(Suspended)
    /\ \A j \in DOMAIN st :
         /\ st[j].k = "use" => o[st[j].c].t # "none" /\ (st[j].c = st[j].want => o[st[j].c].by = st[j].a)
         /\ st[j].k = "pc" => o[st[j].c].t = "closing"
    /\ \A j, l \in DOMAIN st : st[j].k = "pc" /\ st[l].k = "pc" /\ st[j].c = st[l].c => j = l

ToldOK == told.to # None => told.to \in Objs /\ obj[told.to].t # "none" /\ obj[told.to].by = told.a

Inv ==
    /\ ObjsOK(obj) /\ RecsOK(obj, recs) /\ RowsOK(obj, ents)
    /\ exited \in BOOLEAN
    /\ ~exited => WorkersOK(obj, own, proc)
    /\ exited => /\ own = {} /\ proc \in [Objs -> {"none", "reaped"}]
    /\ StackOK(stack, obj) /\ ToldOK

----------------------------------------------------------------------------
(* Descriptors and numbers of objects.                                     *)

(* The lowest of some numbers exists.                                      *)
LEMMA LowestExists ==
  ASSUME NEW T \in SUBSET Nat, T # {}
  PROVE  \E x \in T : \A y \in T : x <= y
<1>1. \E x \in T : \A y \in T : ~(<<y, x>> \in OpToRel(<, Nat))
  BY NatLessThanWellFounded, WFMin
<1>2. PICK x \in T : \A y \in T : ~(<<y, x>> \in OpToRel(<, Nat))
  BY <1>1
<1>3. \A y \in T : ~(y < x)
  BY <1>2 DEF OpToRel
<1>4. QED BY <1>3

(* All objects but i are as they were.                                     *)
Same(o, o2, i) == \A j \in Objs \ {i} : o2[j] = o[j]

(* A new object.                                                           *)
LEMMA MakeFields ==
  ASSUME NEW o \in [Objs -> Object], NEW i \in Objs, NEW t \in Kinds, NEW fd \in Fds,
         NEW by \in Aliases \cup {None}, NEW pid \in Objs \cup {None}
  PROVE  /\ Make(o, i, t, fd, by, pid) \in [Objs -> Object]
         /\ Same(o, Make(o, i, t, fd, by, pid), i)
         /\ Make(o, i, t, fd, by, pid)[i] = [t |-> t, fd |-> fd, by |-> by, eof |-> FALSE,
                                             msg |-> "none", pid |-> pid]
<1> DEFINE x == [t |-> t, fd |-> fd, by |-> by, eof |-> FALSE, msg |-> "none", pid |-> pid]
<1>1. x \in Object
  BY DEF Object
<1> HIDE DEF x
<1>2. QED BY <1>1 DEF Make, Same, x

(* An object that is closed for good: only who made it is remembered.      *)
LEMMA GoneFields ==
  ASSUME NEW o \in [Objs -> Object], NEW i \in Objs
  PROVE  /\ Gone(o, i) \in [Objs -> Object] /\ Same(o, Gone(o, i), i)
         /\ Gone(o, i)[i].t = "gone" /\ Gone(o, i)[i].fd = None /\ Gone(o, i)[i].by = o[i].by
         /\ Gone(o, i)[i].pid = None
<1> DEFINE x == [Nothing EXCEPT !.t = "gone", !.by = o[i].by]
<1>1. /\ x \in Object /\ x.t = "gone" /\ x.fd = None /\ x.by = o[i].by /\ x.pid = None
  BY DEF Object, Nothing, Kinds
<1> HIDE DEF x
<1>2. QED BY <1>1 DEF Gone, Same, x

LEMMA MakeObjs ==
  ASSUME NEW o, ObjsOK(o), NEW o2 \in [Objs -> Object], NEW i \in Objs, Same(o, o2, i),
         o2[i].t \in {"file", "reserved", "conn"}, o2[i].fd \in Fds,
         \A j \in Objs : o[j].fd # o2[i].fd
  PROVE  ObjsOK(o2)
<1>1. None \notin Fds
  BY HandlesAssumption DEF None
<1>2. \A j \in Objs : j # i => o2[j] = o[j]
  BY DEF Same
<1>3. QED BY <1>1, <1>2 DEF ObjsOK

LEMMA GoneObjs ==
  ASSUME NEW o, ObjsOK(o), NEW o2 \in [Objs -> Object], NEW i \in Objs, Same(o, o2, i),
         o2[i].t = "gone", o2[i].fd = None
  PROVE  ObjsOK(o2)
<1>1. \A j \in Objs : j # i => o2[j] = o[j]
  BY DEF Same
<1>2. QED BY <1>1 DEF ObjsOK

(* What is on a descriptor.                                                *)
LEMMA HolderIs ==
  ASSUME ObjsOK(obj), NEW fd \in Fds
  PROVE  /\ Holder(fd) = {i \in Objs : obj[i].fd = fd}
         /\ \A i, j \in Holder(fd) : i = j
<1>1. None \notin Fds
  BY HandlesAssumption DEF None
<1>2. \A i \in Objs : obj[i].fd = fd => Open(i)
  BY <1>1 DEF ObjsOK, Open, Object, Kinds
<1>3. QED BY <1>1, <1>2 DEF Holder, ObjsOK

----------------------------------------------------------------------------
(* Records.                                                                *)

(* The record of a number nothing the registry opened has may go, or be    *)
(* replaced by a socket's.                                                 *)
LEMMA SocketRecs ==
  ASSUME NEW o, ObjsOK(o), NEW r, RecsOK(o, r), NEW r2 \in [Fds -> Record], NEW fd \in Fds,
         \A g \in Fds \ {fd} : r2[g] = r[g], r2[fd].kind \in {"none", "socket"},
         \A i \in Objs : o[i].fd = fd => o[i].t \notin {"file", "reserved"}
  PROVE  RecsOK(o, r2)
<1>1. \A i \in Objs : o[i].t \in {"file", "reserved"} => o[i].fd \in Fds \ {fd}
  BY DEF ObjsOK, Object
<1>2. QED BY <1>1 DEF RecsOK

(* The record of a number that an object of kind t has just got.           *)
NamesIt(r, fd, t, i) ==
    \/ t = "file" /\ r[fd] = [kind |-> "file", id |-> i]
    \/ t = "reserved" /\ r[fd] = [kind |-> "provider", id |-> i]
    \/ t = "conn" /\ r[fd].kind \in {"none", "socket"}

(* A file, or the descriptor of an alias, is opened: its record replaces   *)
(* whatever was there.                                                     *)
LEMMA OpenRecs ==
  ASSUME NEW o, ObjsOK(o), NEW o2, ObjsOK(o2), NEW i \in Objs, Same(o, o2, i), o[i].t = "none",
         NEW r, RecsOK(o, r), NEW r2 \in [Fds -> Record], o2[i].fd \in Fds,
         \A g \in Fds \ {o2[i].fd} : r2[g] = r[g], NamesIt(r2, o2[i].fd, o2[i].t, i)
  PROVE  RecsOK(o2, r2)
<1> DEFINE fd == o2[i].fd
<1>0. /\ fd \in Fds /\ fd = o2[i].fd /\ \A g \in Fds \ {fd} : r2[g] = r[g]
      /\ NamesIt(r2, fd, o2[i].t, i)
  OBVIOUS
<1> HIDE DEF fd
<1>1. \A j \in Objs : j # i => o2[j] = o[j] /\ o2[j].fd # fd
  BY <1>0, HandlesAssumption DEF Same, ObjsOK, None
<1>2. \A j \in Objs : o[j].t \in {"file", "reserved"} => j # i /\ o[j].fd \in Fds \ {fd}
  <2>1. None \notin Fds
    BY HandlesAssumption DEF None
  <2>2. \A j \in Objs : o[j].t \in {"file", "reserved"} => j # i /\ o[j].fd \in Fds
    BY DEF ObjsOK, Object
  <2>3. QED BY <1>1, <2>2
<1>3. ASSUME NEW g \in Fds
      PROVE  /\ r2[g].kind = "file" =>
                  r2[g].id \in Objs /\ o2[r2[g].id].t = "file" /\ o2[r2[g].id].fd = g
             /\ r2[g].kind = "provider" =>
                  r2[g].id \in Objs /\ o2[r2[g].id].t = "reserved" /\ o2[r2[g].id].fd = g
  <2>1. CASE g = fd
    BY <1>0, <2>1 DEF NamesIt
  <2>2. CASE g # fd
    BY <1>0, <1>1, <1>2, <2>2 DEF RecsOK
  <2>3. QED BY <2>1, <2>2
<1>4. ASSUME NEW j \in Objs
      PROVE  /\ o2[j].t = "file" => r2[o2[j].fd] = [kind |-> "file", id |-> j]
             /\ o2[j].t = "reserved" => r2[o2[j].fd] = [kind |-> "provider", id |-> j]
  <2>1. CASE j = i
    BY <1>0, <2>1 DEF NamesIt
  <2>2. CASE j # i
    BY <1>0, <1>1, <1>2, <2>2 DEF RecsOK
  <2>3. QED BY <2>1, <2>2
<1>5. QED BY <1>3, <1>4 DEF RecsOK

(* A connection is closed; a file or alias descriptor is, and its record   *)
(* goes.                                                                   *)
LEMMA CloseRecs ==
  ASSUME NEW o, ObjsOK(o), NEW o2, ObjsOK(o2), NEW i \in Objs, Same(o, o2, i), o2[i].t = "gone",
         NEW r, RecsOK(o, r), NEW r2 \in [Fds -> Record],
         \/ o[i].t \notin {"file", "reserved"} /\ r2 = r
         \/ /\ o[i].fd \in Fds /\ r2[o[i].fd].kind = "none"
            /\ \A g \in Fds \ {o[i].fd} : r2[g] = r[g]
  PROVE  RecsOK(o2, r2)
<1>1. \A j \in Objs : j # i => o2[j] = o[j]
  BY DEF Same
<1>2. CASE o[i].t \notin {"file", "reserved"} /\ r2 = r
  BY <1>1, <1>2 DEF RecsOK
<1>3. CASE /\ o[i].fd \in Fds /\ r2[o[i].fd].kind = "none"
           /\ \A g \in Fds \ {o[i].fd} : r2[g] = r[g]
  <2>1. \A j \in Objs : j # i /\ o[j].t \in {"file", "reserved"} => o[j].fd \in Fds \ {o[i].fd}
    BY <1>3, HandlesAssumption DEF ObjsOK, Object, None
  <2>2. \A g \in Fds : r[g].kind \in {"file", "provider"} /\ r[g].id = i => g = o[i].fd
    BY DEF RecsOK
  <2>3. QED BY <1>1, <1>3, <2>1, <2>2 DEF RecsOK
<1>4. QED BY <1>2, <1>3

----------------------------------------------------------------------------
(* Workers.                                                                *)

(* An object that is no worker's link comes or goes.                       *)
LEMMA NoWorker ==
  ASSUME NEW o, ObjsOK(o), NEW o2, NEW i \in Objs, Same(o, o2, i),
         o[i].t \in {"none", "file", "reserved"}, o2[i].pid = None,
         NEW w, NEW p, WorkersOK(o, w, p)
  PROVE  WorkersOK(o2, w, p)
<1>1. \A j \in Objs : j # i => o2[j] = o[j]
  BY DEF Same
<1>2. o[i].pid = None
  BY DEF WorkersOK
<1>3. None \notin Objs
  BY DEF Objs, None
<1>4. \A e \in w : e.pid \in Objs /\ e.pid # i
  BY <1>2, <1>3 DEF WorkersOK
<1>5. ~Unreaped(p, i)
  <2>1. Unreaped(p, i) => \E e \in w : e.pid = i
    BY DEF WorkersOK
  <2>2. QED BY <1>4, <2>1
<1>6. \A q \in Objs : Unreaped(p, q) => [fd |-> o2[q].fd, pid |-> q] \in w
  BY <1>1, <1>5 DEF WorkersOK
<1>7. \A e \in w : Unreaped(p, e.pid) /\ o2[e.pid].fd = e.fd /\ o2[e.pid].pid = e.pid
  BY <1>1, <1>4 DEF WorkersOK
<1>8. \A j \in Objs : o2[j].pid # None =>
         o2[j].pid = j /\ Unreaped(p, j) /\ o2[j].t \in {"conn", "closing"}
  BY <1>1 DEF WorkersOK
<1>9. QED BY <1>6, <1>7, <1>8 DEF WorkersOK

(* The link of a new worker is made.                                       *)
LEMMA NewWorker ==
  ASSUME NEW o, ObjsOK(o), NEW o2, NEW i \in Objs, Same(o, o2, i), o[i].t = "none",
         o2[i].pid = i, o2[i].fd \in Fds, o2[i].t = "conn", NEW w, NEW p, WorkersOK(o, w, p)
  PROVE  WorkersOK(o2, w \cup {[fd |-> o2[i].fd, pid |-> i]}, [p EXCEPT ![i] = "running"])
<1> DEFINE p2 == [p EXCEPT ![i] = "running"]
           new == [fd |-> o2[i].fd, pid |-> i]
           w2 == w \cup {new}
<1>1. \A j \in Objs : j # i => o2[j] = o[j]
  BY DEF Same
<1>2. o[i].pid = None /\ None \notin Objs
  BY DEF WorkersOK, Objs, None
<1>3. \A e \in w : e.pid \in Objs /\ e.pid # i
  BY <1>2 DEF WorkersOK
<1>4. p2 \in [Objs -> {"none", "running", "zombie", "reaped"}] /\ Unreaped(p2, i)
  BY DEF WorkersOK, Unreaped
<1>5. \A q \in Objs : q # i => (Unreaped(p2, q) <=> Unreaped(p, q))
  BY DEF WorkersOK, Unreaped
<1>6. new \in [fd : Fds, pid : Objs] /\ new.pid = i /\ new.fd = o2[i].fd
  OBVIOUS
<1>7. w2 \in SUBSET [fd : Fds, pid : Objs]
  BY <1>6 DEF WorkersOK
<1> HIDE DEF p2
<1>8. \A q \in Objs : Unreaped(p2, q) => [fd |-> o2[q].fd, pid |-> q] \in w2
  BY <1>1, <1>5 DEF WorkersOK
<1> HIDE DEF new
<1>9. \A e \in w2 : Unreaped(p2, e.pid) /\ o2[e.pid].fd = e.fd /\ o2[e.pid].pid = e.pid
  BY <1>1, <1>3, <1>4, <1>5, <1>6 DEF WorkersOK
<1>10. \A j \in Objs : o2[j].pid # None =>
         o2[j].pid = j /\ Unreaped(p2, j) /\ o2[j].t \in {"conn", "closing"}
  BY <1>1, <1>4, <1>5 DEF WorkersOK
<1>11. QED BY <1>4, <1>7, <1>8, <1>9, <1>10 DEF WorkersOK, new, p2

(* A connection is closed, and with it the worker at its other end.        *)
LEMMA EndWorker ==
  ASSUME NEW o, ObjsOK(o), NEW o2, NEW i \in Objs, Same(o, o2, i), o[i].t \in {"conn", "closing"},
         o2[i].pid = None, NEW w, NEW p, WorkersOK(o, w, p)
  PROVE  WorkersOK(o2, w \ OwnedOn(w, o[i].fd), Reap(p, OwnedOn(w, o[i].fd)))
<1> DEFINE P == OwnedOn(w, o[i].fd)
           p2 == Reap(p, P)
           w2 == w \ P
<1>1. \A j \in Objs : j # i => o2[j] = o[j]
  BY DEF Same
<1>2. o[i].fd # None
  BY DEF ObjsOK
<1>3. \A e \in w : e.pid \in Objs /\ e.fd = o[e.pid].fd
  BY DEF WorkersOK
<1>4. \A e \in w : e \in P <=> e.pid = i
  BY <1>2, <1>3 DEF OwnedOn, ObjsOK
<1>5. Unreaped(p, i) => [fd |-> o[i].fd, pid |-> i] \in P
  BY DEF WorkersOK, OwnedOn
<1>6. P \subseteq w
  BY DEF OwnedOn
<1> HIDE DEF P
<1>7. \A q \in Objs : p2[q] = IF \E e \in P : e.pid = q THEN "reaped" ELSE p[q]
  BY DEF Reap, WorkersOK
<1>8. p2 \in [Objs -> {"none", "running", "zombie", "reaped"}]
  BY DEF Reap, WorkersOK
<1> HIDE DEF p2
<1>9. ~Unreaped(p2, i)
  <2>1. CASE \E e \in P : e.pid = i
    BY <1>7, <2>1 DEF Unreaped
  <2>2. CASE ~\E e \in P : e.pid = i
    <3>1. ~Unreaped(p, i)
      BY <1>5, <2>2
    <3>2. QED BY <1>7, <2>2, <3>1 DEF Unreaped
  <2>3. QED BY <2>1, <2>2
<1>10. \A q \in Objs : q # i => p2[q] = p[q]
  BY <1>4, <1>6, <1>7
<1>11. \A q \in Objs : q # i => (Unreaped(p2, q) <=> Unreaped(p, q))
  BY <1>10 DEF Unreaped
<1>12. \A q \in Objs : Unreaped(p2, q) => [fd |-> o2[q].fd, pid |-> q] \in w2
  <2> SUFFICES ASSUME NEW q \in Objs, Unreaped(p2, q) PROVE [fd |-> o2[q].fd, pid |-> q] \in w2
    OBVIOUS
  <2>1. q # i /\ Unreaped(p, q)
    BY <1>9, <1>11
  <2>2. [fd |-> o[q].fd, pid |-> q] \in w
    BY <2>1 DEF WorkersOK
  <2>3. QED BY <1>1, <1>4, <2>1, <2>2
<1>13. \A e \in w2 : Unreaped(p2, e.pid) /\ o2[e.pid].fd = e.fd /\ o2[e.pid].pid = e.pid
  BY <1>1, <1>3, <1>4, <1>11 DEF WorkersOK
<1>14. \A j \in Objs : o2[j].pid # None =>
         o2[j].pid = j /\ Unreaped(p2, j) /\ o2[j].t \in {"conn", "closing"}
  BY <1>1, <1>11 DEF WorkersOK
<1>15. w2 \in SUBSET [fd : Fds, pid : Objs]
  BY DEF WorkersOK
<1>16. QED BY <1>8, <1>12, <1>13, <1>14, <1>15 DEF WorkersOK, p2, P

----------------------------------------------------------------------------
(* Rows of aliases.                                                        *)

NoConnBy(o, a) == \A j \in Objs : ~(o[j].t = "conn" /\ o[j].by = a)

(* A connection nobody's alias opened, or a file, is made; or one was made *)
(* and closed again.                                                       *)
LEMMA MakeRows ==
  ASSUME NEW o, NEW o2, NEW i \in Objs, Same(o, o2, i), o[i].t = "none",
         o2[i].t \in {"file", "gone"} \/ (o2[i].t = "conn" /\ o2[i].by = None),
         NEW e, RowsOK(o, e)
  PROVE  RowsOK(o2, e)
<1>1. \A j \in Objs : j # i => o2[j] = o[j]
  BY DEF Same
<1>2. \A a \in Aliases : e[a].tok # None => e[a].stamp # i
  BY DEF RowsOK
<1>3. QED BY <1>1, <1>2 DEF RowsOK

(* The descriptor of an alias is reserved.                                 *)
LEMMA ReserveRows ==
  ASSUME NEW o, ObjsOK(o), NEW o2, NEW i \in Objs, Same(o, o2, i), o[i].t = "none", NEW a \in Aliases,
         o2[i].t = "reserved", o2[i].by = a, o2[i].fd \in Fds, NEW e, RowsOK(o, e), e[a] = NoRow
  PROVE  RowsOK(o2, [e EXCEPT ![a] = [NoRow EXCEPT !.fd = o2[i].fd]])
<1> DEFINE new == [NoRow EXCEPT !.fd = o2[i].fd]
           e2 == [e EXCEPT ![a] = new]
<1>1. \A j \in Objs : j # i => o2[j] = o[j]
  BY DEF Same
<1>2. \A b \in Aliases : e[b].tok # None => e[b].stamp # i
  BY DEF RowsOK
<1>3. None \notin Fds /\ None \notin Aliases
  BY HandlesAssumption DEF None, Aliases
<1>4. new \in Row /\ new.fd = o2[i].fd /\ new.tok = None
  BY DEF NoRow, Row
<1> HIDE DEF new
<1>5. e2 \in [Aliases -> Row] /\ e2[a] = new /\ \A b \in Aliases : b # a => e2[b] = e[b]
  BY <1>4 DEF RowsOK
<1>6. e[a].tok = None /\ e[a].fd = None
  BY DEF NoRow
<1> HIDE DEF e2
<1>7. ASSUME NEW b \in Aliases
      PROVE  /\ e2[b].fd = None => e2[b] = NoRow
             /\ e2[b].fd # None =>
                  \E j \in Objs : o2[j].t = "reserved" /\ o2[j].fd = e2[b].fd /\ o2[j].by = b
             /\ e2[b].tok # None =>
                  e2[b].stamp \in Objs /\ o2[e2[b].stamp].t # "none" /\ o2[e2[b].stamp].by = b
  <2>1. CASE b = a
    BY <1>3, <1>4, <1>5, <2>1
  <2>2. CASE b # a
    BY <1>1, <1>2, <1>5, <2>2 DEF RowsOK
  <2>3. QED BY <2>1, <2>2
<1>8. ASSUME NEW j \in Objs
      PROVE  /\ o2[j].t = "reserved" => o2[j].by \in Aliases /\ e2[o2[j].by].fd = o2[j].fd
             /\ o2[j].t = "conn" /\ o2[j].by # None =>
                  e2[o2[j].by].tok = o2[j].fd /\ e2[o2[j].by].stamp = j
  <2>1. CASE j = i
    BY <1>4, <1>5, <2>1
  <2>2. CASE j # i
    <3>1. o2[j] = o[j] /\ o[j].by \in Aliases \cup {None}
      BY <1>1, <2>2 DEF ObjsOK, Object
    <3>2. o[j].t \in {"reserved", "conn"} => o[j].fd # None
      BY DEF ObjsOK
    <3>3. o[j].t = "reserved" \/ (o[j].t = "conn" /\ o[j].by # None) => o[j].by \in Aliases \ {a}
      BY <1>6, <3>1, <3>2 DEF RowsOK
    <3>4. QED BY <1>5, <3>1, <3>3 DEF RowsOK
  <2>3. QED BY <2>1, <2>2
<1>9. QED BY <1>5, <1>7, <1>8 DEF RowsOK, e2, new

(* An alias that has no connection opens one.                              *)
LEMMA DialRows ==
  ASSUME NEW o, ObjsOK(o), NEW o2, NEW i \in Objs, Same(o, o2, i), o[i].t = "none", NEW a \in Aliases,
         o2[i].t = "conn", o2[i].by = a, o2[i].fd \in Fds,
         NEW e, RowsOK(o, e), NoConnBy(o, a), e[a].fd # None,
         NEW e2 \in [Aliases -> Row], \A b \in Aliases \ {a} : e2[b] = e[b],
         e2[a].fd = e[a].fd, e2[a].tok = o2[i].fd, e2[a].stamp = i
  PROVE  RowsOK(o2, e2)
<1>1. \A j \in Objs : j # i => o2[j] = o[j]
  BY DEF Same
<1>2. \A b \in Aliases : e[b].tok # None => e[b].stamp # i
  BY DEF RowsOK
<1>3. ASSUME NEW b \in Aliases
      PROVE  /\ e2[b].fd = None => e2[b] = NoRow
             /\ e2[b].fd # None =>
                  \E j \in Objs : o2[j].t = "reserved" /\ o2[j].fd = e2[b].fd /\ o2[j].by = b
             /\ e2[b].tok # None =>
                  e2[b].stamp \in Objs /\ o2[e2[b].stamp].t # "none" /\ o2[e2[b].stamp].by = b
  <2>1. e2[b].fd = e[b].fd
    OBVIOUS
  <2>2. e[b].fd # None =>
           \E j \in Objs : o2[j].t = "reserved" /\ o2[j].fd = e[b].fd /\ o2[j].by = b
    <3>1. \A j \in Objs : o[j].t = "reserved" => o2[j] = o[j]
      BY <1>1
    <3>2. QED BY <3>1 DEF RowsOK
  <2>3. CASE b = a
    BY <2>1, <2>2, <2>3
  <2>4. CASE b # a
    BY <1>1, <1>2, <2>1, <2>2, <2>4 DEF RowsOK
  <2>5. QED BY <2>3, <2>4
<1>4. ASSUME NEW j \in Objs
      PROVE  /\ o2[j].t = "reserved" => o2[j].by \in Aliases /\ e2[o2[j].by].fd = o2[j].fd
             /\ o2[j].t = "conn" /\ o2[j].by # None =>
                  e2[o2[j].by].tok = o2[j].fd /\ e2[o2[j].by].stamp = j
  <2>1. CASE j = i
    BY <2>1
  <2>2. CASE j # i
    <3>1. o2[j] = o[j] /\ o[j].by \in Aliases \cup {None}
      BY <1>1, <2>2 DEF ObjsOK, Object
    <3>2. o[j].t = "conn" => o[j].by # a
      BY DEF NoConnBy
    <3>3. o[j].t = "reserved" => e2[o[j].by].fd = e[o[j].by].fd /\ o[j].by \in Aliases
      BY DEF RowsOK
    <3>4. QED BY <3>1, <3>2, <3>3 DEF RowsOK
  <2>3. QED BY <2>1, <2>2
<1>5. QED BY <1>3, <1>4 DEF RowsOK

(* A connection is closed, or anything else that is no alias's descriptor. *)
LEMMA CloseRows ==
  ASSUME NEW o, NEW o2, NEW i \in Objs, Same(o, o2, i), o[i].t # "reserved",
         o2[i].t \notin {"none", "conn", "reserved"}, o2[i].by = o[i].by, NEW e, RowsOK(o, e)
  PROVE  RowsOK(o2, e)
<1>1. \A j \in Objs : j # i => o2[j] = o[j]
  BY DEF Same
<1>2. ASSUME NEW b \in Aliases
      PROVE  /\ e[b].fd = None => e[b] = NoRow
             /\ e[b].fd # None =>
                  \E j \in Objs : o2[j].t = "reserved" /\ o2[j].fd = e[b].fd /\ o2[j].by = b
             /\ e[b].tok # None =>
                  e[b].stamp \in Objs /\ o2[e[b].stamp].t # "none" /\ o2[e[b].stamp].by = b
  <2>1. \A j \in Objs : o[j].t = "reserved" => o2[j] = o[j]
    BY <1>1
  <2>2. QED BY <1>1, <2>1 DEF RowsOK
<1>3. QED BY <1>1, <1>2 DEF RowsOK

(* The token of an alias without a connection is forgotten.                *)
LEMMA ForgetRows ==
  ASSUME NEW o, ObjsOK(o), NEW a \in Aliases, NEW e, RowsOK(o, e), NoConnBy(o, a), e[a].fd # None,
         NEW e2 \in [Aliases -> Row], \A b \in Aliases \ {a} : e2[b] = e[b],
         e2[a].fd = e[a].fd, e2[a].tok = None
  PROVE  RowsOK(o, e2)
<1>1. ASSUME NEW b \in Aliases
      PROVE  /\ e2[b].fd = None => e2[b] = NoRow
             /\ e2[b].fd # None =>
                  \E j \in Objs : o[j].t = "reserved" /\ o[j].fd = e2[b].fd /\ o[j].by = b
             /\ e2[b].tok # None =>
                  e2[b].stamp \in Objs /\ o[e2[b].stamp].t # "none" /\ o[e2[b].stamp].by = b
  <2>1. CASE b = a
    BY <2>1 DEF RowsOK
  <2>2. CASE b # a
    BY <2>2 DEF RowsOK
  <2>3. QED BY <2>1, <2>2
<1>2. ASSUME NEW j \in Objs
      PROVE  /\ o[j].t = "reserved" => o[j].by \in Aliases /\ e2[o[j].by].fd = o[j].fd
             /\ o[j].t = "conn" /\ o[j].by # None =>
                  e2[o[j].by].tok = o[j].fd /\ e2[o[j].by].stamp = j
  <2>1. o[j].by \in Aliases \cup {None}
    BY DEF ObjsOK, Object
  <2>2. o[j].t = "conn" => o[j].by # a
    BY DEF NoConnBy
  <2>3. o[j].t = "reserved" => e2[o[j].by].fd = e[o[j].by].fd /\ o[j].by \in Aliases
    BY DEF RowsOK
  <2>4. QED BY <2>1, <2>2, <2>3 DEF RowsOK
<1>3. QED BY <1>1, <1>2 DEF RowsOK

(* An alias without a connection goes, and its descriptor with it.         *)
LEMMA DropRows ==
  ASSUME NEW o, ObjsOK(o), NEW o2, NEW i \in Objs, Same(o, o2, i), NEW a \in Aliases,
         o[i].t = "reserved", o[i].by = a, o2[i].t = "gone", o2[i].by = a,
         NEW e, RowsOK(o, e), NoConnBy(o, a),
         NEW e2 \in [Aliases -> Row], \A b \in Aliases \ {a} : e2[b] = e[b], e2[a] = NoRow
  PROVE  RowsOK(o2, e2)
<1>1. \A j \in Objs : j # i => o2[j] = o[j]
  BY DEF Same
<1>2. ASSUME NEW b \in Aliases
      PROVE  /\ e2[b].fd = None => e2[b] = NoRow
             /\ e2[b].fd # None =>
                  \E j \in Objs : o2[j].t = "reserved" /\ o2[j].fd = e2[b].fd /\ o2[j].by = b
             /\ e2[b].tok # None =>
                  e2[b].stamp \in Objs /\ o2[e2[b].stamp].t # "none" /\ o2[e2[b].stamp].by = b
  <2>1. CASE b = a
    BY <2>1 DEF NoRow
  <2>2. CASE b # a
    <3>1. \A j \in Objs : o[j].by = b => o2[j] = o[j]
      BY <1>1, <2>2
    <3>2. QED BY <1>1, <2>2, <3>1 DEF RowsOK
  <2>3. QED BY <2>1, <2>2
<1>3. ASSUME NEW j \in Objs
      PROVE  /\ o2[j].t = "reserved" => o2[j].by \in Aliases /\ e2[o2[j].by].fd = o2[j].fd
             /\ o2[j].t = "conn" /\ o2[j].by # None =>
                  e2[o2[j].by].tok = o2[j].fd /\ e2[o2[j].by].stamp = j
  <2>1. CASE j = i
    BY <2>1
  <2>2. CASE j # i
    <3>1. o2[j] = o[j] /\ o[j].by \in Aliases \cup {None}
      BY <1>1, <2>2 DEF ObjsOK, Object
    <3>2. o[j].t = "conn" => o[j].by # a
      BY DEF NoConnBy
    <3>3. o[j].t = "reserved" => o[j].by \in Aliases /\ o[j].by # a
      <4>1. o[j].t = "reserved" /\ o[j].by = a => o[j].fd = e[a].fd /\ o[i].fd = e[a].fd
        BY DEF RowsOK
      <4>2. o[i].fd # None
        BY DEF ObjsOK
      <4>3. ~(o[j].t = "reserved" /\ o[j].by = a)
        BY <2>2, <4>1, <4>2 DEF ObjsOK
      <4>4. QED BY <4>3 DEF RowsOK
    <3>4. QED BY <3>1, <3>2, <3>3 DEF RowsOK
  <2>3. QED BY <2>1, <2>2
<1>4. QED BY <1>2, <1>3 DEF RowsOK

----------------------------------------------------------------------------
(* The steps of an operation, on the tables.                               *)

LEMMA ClosedFields ==
  ASSUME NEW s, Shape(s), NEW i
  PROVE  Closed(s, i) = [obj |-> Gone(s.obj, i), recs |-> s.recs,
                         own |-> s.own \ OwnedOn(s.own, s.obj[i].fd),
                         proc |-> Reap(s.proc, OwnedOn(s.own, s.obj[i].fd)), ents |-> s.ents]
<1> DEFINE o == s.obj
           r == s.recs
           w == s.own
           p == s.proc
           e == s.ents
<1>1. s = [obj |-> o, recs |-> r, own |-> w, proc |-> p, ents |-> e]
  BY DEF Shape
<1>2. Closed(s, i) = [s EXCEPT !.obj  = Gone(@, i),
                               !.own  = @ \ OwnedOn(@, o[i].fd),
                               !.proc = Reap(@, OwnedOn(w, o[i].fd))]
  BY DEF Closed
<1> HIDE DEF o, r, w, p, e
<1>3. QED BY <1>1, <1>2 DEF o, r, w, p, e

LEMMA CloseSocketFields ==
  ASSUME NEW s, Shape(s), NEW fd
  PROVE  LET c == ConnIn(s, fd) IN
         CloseSocket(s, fd) =
           IF c = None
           THEN [obj |-> s.obj, recs |-> Deregister(s.recs, fd), own |-> s.own,
                 proc |-> s.proc, ents |-> s.ents]
           ELSE [obj |-> Gone(s.obj, c), recs |-> Deregister(s.recs, fd),
                 own |-> s.own \ OwnedOn(s.own, s.obj[c].fd),
                 proc |-> Reap(s.proc, OwnedOn(s.own, s.obj[c].fd)), ents |-> s.ents]
<1> DEFINE o == s.obj
           r == s.recs
           w == s.own
           p == s.proc
           e == s.ents
           c == ConnIn(s, fd)
           s2 == [s EXCEPT !.recs = Deregister(@, fd)]
<1>1. s = [obj |-> o, recs |-> r, own |-> w, proc |-> p, ents |-> e]
  BY DEF Shape
<1>2. CloseSocket(s, fd) = IF c = None THEN s2 ELSE Closed(s2, c)
  BY DEF CloseSocket
<1> HIDE DEF o, r, w, p, e, c
<1>3. s2 = [obj |-> o, recs |-> Deregister(r, fd), own |-> w, proc |-> p, ents |-> e]
  BY <1>1
<1> HIDE DEF s2
<1>4. Shape(s2)
  BY <1>3 DEF Shape
<1>5. s2.obj = o /\ s2.recs = Deregister(r, fd) /\ s2.own = w /\ s2.proc = p /\ s2.ents = e
  BY <1>3
<1>6. Closed(s2, c) = [obj |-> Gone(o, c), recs |-> Deregister(r, fd),
                       own |-> w \ OwnedOn(w, o[c].fd),
                       proc |-> Reap(p, OwnedOn(w, o[c].fd)), ents |-> e]
  BY <1>4, <1>5, ClosedFields
<1>7. QED BY <1>2, <1>3, <1>6 DEF o, r, w, p, e, c

LEMMA DropTokenFields ==
  ASSUME NEW s, Shape(s), NEW a
  PROVE  LET r == IF Dead(s, a) THEN s ELSE CloseSocket(s, s.ents[a].tok)
         IN  DropToken(s, a) = [obj |-> r.obj, recs |-> r.recs, own |-> r.own, proc |-> r.proc,
                                ents |-> [r.ents EXCEPT ![a].tok = None]]
<1> DEFINE r == IF Dead(s, a) THEN s ELSE CloseSocket(s, s.ents[a].tok)
<1>1. Shape(r)
  <2>1. CASE Dead(s, a)
    BY <2>1
  <2>2. CASE ~Dead(s, a)
    BY <2>2, CloseSocketFields DEF Shape
  <2>3. QED BY <2>1, <2>2
<1>2. DropToken(s, a) = [r EXCEPT !.ents[a].tok = None]
  BY DEF DropToken
<1> HIDE DEF r
<1>3. QED
  <2> DEFINE ro == r.obj
             rr == r.recs
             rw == r.own
             rp == r.proc
             re == r.ents
  <2>1. r = [obj |-> ro, recs |-> rr, own |-> rw, proc |-> rp, ents |-> re]
    BY <1>1 DEF Shape
  <2> HIDE DEF ro, rr, rw, rp, re
  <2>2. [r EXCEPT !.ents[a].tok = None] =
          [obj |-> ro, recs |-> rr, own |-> rw, proc |-> rp, ents |-> [re EXCEPT ![a].tok = None]]
    BY <2>1
  <2>3. QED BY <1>2, <2>2 DEF ro, rr, rw, rp, re, r

LEMMA DialledFields ==
  ASSUME NEW s, Shape(s), NEW a
  PROVE  LET i == NewIn(s)
             fd == LowestIn(s)
         IN  Dialled(s, a) =
               [obj |-> Make(s.obj, i, "conn", fd, a, IF a \in Workers THEN i ELSE None),
                recs |-> IF a \in Peers THEN Register(s.recs, fd, "socket", i) ELSE s.recs,
                own |-> IF a \in Workers THEN s.own \cup {[fd |-> fd, pid |-> i]} ELSE s.own,
                proc |-> IF a \in Workers THEN [s.proc EXCEPT ![i] = "running"] ELSE s.proc,
                ents |-> [s.ents EXCEPT ![a] = [s.ents[a] EXCEPT !.tok = fd, !.stamp = i]]]
<1> DEFINE o == s.obj
           r == s.recs
           w == s.own
           p == s.proc
           e == s.ents
           i == NewIn(s)
           fd == LowestIn(s)
<1>1. s = [obj |-> o, recs |-> r, own |-> w, proc |-> p, ents |-> e]
  BY DEF Shape
<1>2. Dialled(s, a) = [s EXCEPT
         !.obj  = Make(@, i, "conn", fd, a, IF a \in Workers THEN i ELSE None),
         !.recs = IF a \in Peers THEN Register(@, fd, "socket", i) ELSE @,
         !.own  = IF a \in Workers THEN @ \cup {[fd |-> fd, pid |-> i]} ELSE @,
         !.proc = IF a \in Workers THEN [s.proc EXCEPT ![i] = "running"] ELSE @,
         !.ents[a] = [s.ents[a] EXCEPT !.tok = fd, !.stamp = i]]
  BY DEF Dialled
<1> HIDE DEF o, r, w, p, e, i, fd
<1>3. QED BY <1>1, <1>2 DEF o, r, w, p, e, i, fd

LEMMA GoodParts ==
  ASSUME NEW o, NEW r, NEW w, NEW p, NEW e,
         ObjsOK(o), RecsOK(o, r), WorkersOK(o, w, p), RowsOK(o, e)
  PROVE  Good([obj |-> o, recs |-> r, own |-> w, proc |-> p, ents |-> e])
  BY DEF Good, Shape

(* The connection on a descriptor, if there is one.                        *)
LEMMA ConnInIs ==
  ASSUME NEW s, ObjsOK(s.obj), NEW fd \in Fds
  PROVE  /\ ConnIn(s, fd) = None => \A i \in Objs : s.obj[i].t = "conn" => s.obj[i].fd # fd
         /\ ConnIn(s, fd) # None => /\ ConnIn(s, fd) \in Objs
                                    /\ s.obj[ConnIn(s, fd)].t = "conn" /\ s.obj[ConnIn(s, fd)].fd = fd
         /\ \A i \in Objs : s.obj[i].t = "conn" /\ s.obj[i].fd = fd => ConnIn(s, fd) = i
<1> DEFINE S == {i \in Objs : s.obj[i].t = "conn" /\ s.obj[i].fd = fd}
           c == CHOOSE i \in S : TRUE
<1>1. ConnIn(s, fd) = IF S = {} THEN None ELSE c
  BY DEF ConnIn
<1>2. None \notin Objs /\ None \notin Fds
  BY HandlesAssumption DEF Objs, None
<1>3. S # {} => c \in S
  OBVIOUS
<1>4. \A i, j \in S : i = j
  BY <1>2 DEF ObjsOK
<1> HIDE DEF c
<1>5. CASE S = {}
  BY <1>1, <1>5
<1>6. CASE S # {}
  BY <1>1, <1>2, <1>3, <1>4, <1>6
<1>7. QED BY <1>5, <1>6

(* What one alias's operations may do to the objects: close its own        *)
(* connection or descriptor and make others.                               *)
OnlyBy(o, o2, a) ==
    \A i \in Objs :
        \/ o2[i] = o[i]
        \/ /\ o[i].t \in {"conn", "reserved"} /\ o[i].by = a
           /\ o2[i].t = "gone" /\ o2[i].by = a
        \/ o[i].t = "none" /\ o2[i].t \in {"conn", "reserved", "gone"} /\ o2[i].by = a

LEMMA OnlyByTrans ==
  ASSUME NEW o, NEW o2, NEW o3, NEW a, OnlyBy(o, o2, a), OnlyBy(o2, o3, a)
  PROVE  OnlyBy(o, o3, a)
  BY DEF OnlyBy

(* The end of a connection.                                                *)
LEMMA ClosedGood ==
  ASSUME NEW s, Good(s), NEW i \in Objs, s.obj[i].t \in {"conn", "closing"}
  PROVE  /\ Good(Closed(s, i)) /\ Closed(s, i).obj = Gone(s.obj, i)
         /\ Closed(s, i).recs = s.recs /\ Closed(s, i).ents = s.ents
<1> DEFINE o == s.obj
           o2 == Gone(o, i)
           w2 == s.own \ OwnedOn(s.own, s.obj[i].fd)
           p2 == Reap(s.proc, OwnedOn(s.own, s.obj[i].fd))
<1>1. Closed(s, i) = [obj |-> o2, recs |-> s.recs, own |-> w2, proc |-> p2, ents |-> s.ents]
  BY ClosedFields DEF Good
<1>2. ObjsOK(o) /\ RecsOK(o, s.recs) /\ WorkersOK(o, s.own, s.proc) /\ RowsOK(o, s.ents)
  BY DEF Good
<1>3. /\ o2 \in [Objs -> Object] /\ Same(o, o2, i) /\ o2[i].t = "gone" /\ o2[i].fd = None
      /\ o2[i].by = o[i].by /\ o2[i].pid = None
  BY <1>2, GoneFields DEF ObjsOK
<1>4. WorkersOK(o2, w2, p2)
  <2> HIDE DEF o2
  <2>1. QED BY <1>2, <1>3, EndWorker
<1> HIDE DEF o2, w2, p2
<1>5. ObjsOK(o2)
  BY <1>2, <1>3, GoneObjs
<1>6. RecsOK(o2, s.recs)
  <2>1. s.recs \in [Fds -> Record]
    BY <1>2 DEF RecsOK
  <2>2. QED BY <1>2, <1>3, <1>5, <2>1, CloseRecs
<1>7. RowsOK(o2, s.ents)
  BY <1>2, <1>3, CloseRows
<1>8. QED BY <1>1, <1>4, <1>5, <1>6, <1>7, GoodParts DEF o2, o

(* hclose of a number that is neither a file's nor an alias's.             *)
LEMMA CloseSocketGood ==
  ASSUME NEW s, Good(s), NEW fd \in Fds,
         \A i \in Objs : s.obj[i].fd = fd => s.obj[i].t \notin {"file", "reserved"}
  PROVE  /\ Good(CloseSocket(s, fd)) /\ CloseSocket(s, fd).ents = s.ents
         /\ ConnIn(s, fd) = None => CloseSocket(s, fd).obj = s.obj
         /\ ConnIn(s, fd) # None => CloseSocket(s, fd).obj = Gone(s.obj, ConnIn(s, fd))
<1> DEFINE r2 == Deregister(s.recs, fd)
           c == ConnIn(s, fd)
           s2 == [obj |-> s.obj, recs |-> r2, own |-> s.own, proc |-> s.proc, ents |-> s.ents]
<1>1. /\ Shape(s) /\ ObjsOK(s.obj) /\ RecsOK(s.obj, s.recs) /\ WorkersOK(s.obj, s.own, s.proc)
      /\ RowsOK(s.obj, s.ents)
  BY DEF Good
<1>2. /\ r2 \in [Fds -> Record] /\ r2[fd].kind = "none" /\ \A g \in Fds \ {fd} : r2[g] = s.recs[g]
  BY <1>1 DEF RecsOK, Deregister, NoRec, Record
<1>3. CloseSocket(s, fd) = IF c = None THEN s2 ELSE Closed(s2, c)
  <2>1. CloseSocket(s, fd) =
           IF c = None THEN s2
           ELSE [obj |-> Gone(s.obj, c), recs |-> r2, own |-> s.own \ OwnedOn(s.own, s.obj[c].fd),
                 proc |-> Reap(s.proc, OwnedOn(s.own, s.obj[c].fd)), ents |-> s.ents]
    BY <1>1, CloseSocketFields
  <2>2. /\ Shape(s2) /\ s2.obj = s.obj /\ s2.recs = r2 /\ s2.own = s.own /\ s2.proc = s.proc
        /\ s2.ents = s.ents
    BY DEF Shape
  <2> HIDE DEF s2, c
  <2>3. Closed(s2, c) =
          [obj |-> Gone(s.obj, c), recs |-> r2, own |-> s.own \ OwnedOn(s.own, s.obj[c].fd),
           proc |-> Reap(s.proc, OwnedOn(s.own, s.obj[c].fd)), ents |-> s.ents]
    BY <2>2, ClosedFields
  <2>4. QED BY <2>1, <2>3
<1>4. s2.obj = s.obj /\ s2.ents = s.ents
  OBVIOUS
<1>5. Good(s2)
  <2> HIDE DEF r2
  <2>1. RecsOK(s.obj, r2)
    BY <1>1, <1>2, SocketRecs
  <2>2. QED BY <1>1, <2>1, GoodParts
<1>6. c # None => c \in Objs /\ s.obj[c].t = "conn"
  BY <1>1, ConnInIs
<1> HIDE DEF s2, c
<1>7. CASE c = None
  BY <1>3, <1>4, <1>5, <1>7 DEF c
<1>8. CASE c # None
  <2>1. /\ Good(Closed(s2, c)) /\ Closed(s2, c).obj = Gone(s2.obj, c)
        /\ Closed(s2, c).ents = s2.ents
    BY <1>4, <1>5, <1>6, <1>8, ClosedGood
  <2>2. QED BY <1>3, <1>4, <1>8, <2>1 DEF c
<1>9. QED BY <1>7, <1>8

(* ent_drop_token closes the connection of the alias and no other.         *)
LEMMA DropTokenGood ==
  ASSUME NEW s, Good(s), NEW a \in Aliases, s.ents[a].fd # None
  PROVE  /\ Good(DropToken(s, a)) /\ NoConnBy(DropToken(s, a).obj, a)
         /\ DropToken(s, a).ents[a].fd = s.ents[a].fd
         /\ OnlyBy(s.obj, DropToken(s, a).obj, a)
         /\ \A i \in Objs : s.obj[i].t = "reserved" => DropToken(s, a).obj[i] = s.obj[i]
<1> DEFINE r == IF Dead(s, a) THEN s ELSE CloseSocket(s, s.ents[a].tok)
           tok == s.ents[a].tok
           c == s.ents[a].stamp
           e2 == [r.ents EXCEPT ![a].tok = None]
<1>1. DropToken(s, a) = [obj |-> r.obj, recs |-> r.recs, own |-> r.own, proc |-> r.proc, ents |-> e2]
  BY DropTokenFields DEF Good
<1>2. ObjsOK(s.obj) /\ RowsOK(s.obj, s.ents)
  BY DEF Good
<1>3. tok \in Fds \cup {None}
  BY <1>2 DEF RowsOK, Row
<1>4. None \notin Fds /\ None \notin Aliases /\ None \notin Objs
  BY HandlesAssumption DEF None, Aliases, Objs
<1>5. CASE Dead(s, a)
  <2>1. r = s
    BY <1>5
  <2>2. NoConnBy(s.obj, a)
    <3> SUFFICES ASSUME NEW j \in Objs, s.obj[j].t = "conn", s.obj[j].by = a PROVE FALSE
      BY DEF NoConnBy
    <3>1. tok = s.obj[j].fd /\ c = j
      BY <1>2, <1>4 DEF RowsOK
    <3>2. tok # None
      BY <1>2, <3>1 DEF ObjsOK
    <3>3. ConnIn(s, tok) = j
      BY <1>2, <1>3, <3>1, <3>2, ConnInIs
    <3>4. QED BY <1>5, <3>1, <3>2, <3>3 DEF Dead
  <2>3. QED
    <3>1. s.ents = r.ents /\ s.obj = r.obj /\ Good(r)
      BY <2>1
    <3>2. OnlyBy(s.obj, r.obj, a)
      BY <3>1 DEF OnlyBy
    <3> HIDE DEF r
    <3>3. e2 \in [Aliases -> Row] /\ (\A b \in Aliases \ {a} : e2[b] = r.ents[b])
          /\ e2[a].fd = s.ents[a].fd /\ e2[a].tok = None
      BY <1>2, <3>1 DEF RowsOK, Row
    <3> HIDE DEF e2
    <3>4. RowsOK(r.obj, e2)
      BY <1>2, <2>2, <3>1, <3>3, ForgetRows
    <3>5. Good(DropToken(s, a))
      BY <1>1, <3>1, <3>4, GoodParts DEF Good
    <3>6. QED BY <1>1, <2>2, <3>1, <3>2, <3>3, <3>5
<1>6. CASE ~Dead(s, a)
  <2>1. r = CloseSocket(s, tok) /\ tok # None /\ ConnIn(s, tok) = c
    BY <1>6 DEF Dead
  <2>2. c \in Objs /\ s.obj[c].by = a
    BY <1>2, <2>1 DEF RowsOK
  <2>3. s.obj[c].t = "conn" /\ s.obj[c].fd = tok
    BY <1>2, <1>3, <1>4, <2>1, <2>2, ConnInIs
  <2>4. \A i \in Objs : s.obj[i].fd = tok => i = c
    BY <1>2, <2>1, <2>2, <2>3 DEF ObjsOK
  <2>5. Good(r) /\ r.ents = s.ents /\ r.obj = Gone(s.obj, c)
    <3>1. \A i \in Objs : s.obj[i].fd = tok => s.obj[i].t \notin {"file", "reserved"}
      BY <2>3, <2>4
    <3>2. c # None
      BY <1>4, <2>2
    <3> HIDE DEF tok
    <3>3. tok \in Fds
      BY <1>3, <2>1
    <3> HIDE DEF r, c
    <3>4. QED BY <2>1, <3>1, <3>2, <3>3, CloseSocketGood
  <2> HIDE DEF r
  <2>6. /\ Same(s.obj, r.obj, c) /\ r.obj[c].t = "gone" /\ r.obj[c].by = a
    BY <1>2, <2>2, <2>5, GoneFields DEF ObjsOK
  <2>7. NoConnBy(r.obj, a)
    <3> SUFFICES ASSUME NEW j \in Objs, r.obj[j].t = "conn", r.obj[j].by = a PROVE FALSE
      BY DEF NoConnBy
    <3>1. j # c /\ r.obj[j] = s.obj[j]
      BY <2>6 DEF Same
    <3>2. QED BY <1>2, <1>4, <3>1 DEF RowsOK
  <2>8. OnlyBy(s.obj, r.obj, a) /\ \A i \in Objs : s.obj[i].t = "reserved" => r.obj[i] = s.obj[i]
    BY <2>2, <2>3, <2>6 DEF OnlyBy, Same
  <2>9. ObjsOK(r.obj) /\ RowsOK(r.obj, r.ents)
    BY <2>5 DEF Good
  <2>10. e2 \in [Aliases -> Row] /\ (\A b \in Aliases \ {a} : e2[b] = r.ents[b])
          /\ e2[a].fd = s.ents[a].fd /\ e2[a].tok = None
    BY <2>5, <2>9 DEF RowsOK, Row
  <2> HIDE DEF e2
  <2>11. RowsOK(r.obj, e2)
    BY <2>5, <2>7, <2>9, <2>10, ForgetRows
  <2>12. Good(DropToken(s, a))
    BY <1>1, <2>5, <2>11, GoodParts DEF Good
  <2>13. QED BY <1>1, <2>7, <2>8, <2>10, <2>12
<1>7. QED BY <1>5, <1>6

(* A free descriptor and a new object.                                     *)
LEMMA FreshIn ==
  ASSUME NEW s, ObjsOK(s.obj), CanDial(s)
  PROVE  /\ LowestIn(s) \in Fds /\ \A i \in Objs : s.obj[i].fd # LowestIn(s)
         /\ NewIn(s) \in Objs /\ s.obj[NewIn(s)].t = "none"
<1>1. FreeIn(s) # {} /\ FreeIn(s) \in SUBSET Nat /\ FreeIn(s) \subseteq Fds
  BY HandlesAssumption DEF CanDial, FreeIn
<1>2. \E x \in FreeIn(s) : \A y \in FreeIn(s) : x <= y
  BY <1>1, LowestExists
<1>3. LowestIn(s) \in FreeIn(s)
  BY <1>2 DEF LowestIn
<1>4. \A i \in Objs : s.obj[i].fd # LowestIn(s)
  <2> DEFINE fd == LowestIn(s)
  <2> HIDE DEF fd
  <2>1. fd \in Fds /\ fd # None
    BY <1>1, <1>3, HandlesAssumption DEF fd, None
  <2>2. \A i \in Objs : s.obj[i].fd = fd => s.obj[i].t \in {"none", "gone"}
    BY <1>3 DEF FreeIn, fd
  <2>3. QED BY <2>1, <2>2 DEF ObjsOK, fd
<1> DEFINE U == {i \in Objs : s.obj[i].t = "none"}
<1>5. U # {} /\ U \in SUBSET Nat
  BY DEF CanDial, Objs
<1>6. NewIn(s) = CHOOSE i \in U : \A j \in U : i <= j
  BY DEF NewIn
<1>7. NewIn(s) \in U
  <2> HIDE DEF U
  <2>1. \E x \in U : \A y \in U : x <= y
    BY <1>5, LowestExists
  <2>2. QED BY <1>6, <2>1
<1>8. QED BY <1>1, <1>3, <1>4, <1>7

(* conn_open of an alias without a connection.                             *)
LEMMA DialledGood ==
  ASSUME NEW s, Good(s), NEW a \in Aliases, CanDial(s), NoConnBy(s.obj, a), s.ents[a].fd # None
  PROVE  LET i == NewIn(s)
             d == Dialled(s, a)
         IN  /\ Good(d) /\ OnlyBy(s.obj, d.obj, a)
             /\ i \in Objs /\ s.obj[i].t = "none" /\ Same(s.obj, d.obj, i)
             /\ d.obj[i].t = "conn" /\ d.obj[i].by = a /\ d.obj[i].fd = LowestIn(s)
             /\ d.ents[a].tok = LowestIn(s) /\ d.ents[a].stamp = i
             /\ ConnIn(d, d.ents[a].tok) = i
<1> DEFINE i == NewIn(s)
           fd == LowestIn(s)
           pid == IF a \in Workers THEN i ELSE None
           o2 == Make(s.obj, i, "conn", fd, a, pid)
           r2 == IF a \in Peers THEN Register(s.recs, fd, "socket", i) ELSE s.recs
           w2 == IF a \in Workers THEN s.own \cup {[fd |-> fd, pid |-> i]} ELSE s.own
           p2 == IF a \in Workers THEN [s.proc EXCEPT ![i] = "running"] ELSE s.proc
           e2 == [s.ents EXCEPT ![a] = [s.ents[a] EXCEPT !.tok = fd, !.stamp = i]]
           d == Dialled(s, a)
<1>1. d = [obj |-> o2, recs |-> r2, own |-> w2, proc |-> p2, ents |-> e2]
  BY DialledFields DEF Good
<1>2. /\ ObjsOK(s.obj) /\ RecsOK(s.obj, s.recs) /\ WorkersOK(s.obj, s.own, s.proc)
      /\ RowsOK(s.obj, s.ents)
  BY DEF Good
<1>3. fd \in Fds /\ (\A j \in Objs : s.obj[j].fd # fd) /\ i \in Objs /\ s.obj[i].t = "none"
  BY <1>2, FreshIn
<1> HIDE DEF i, fd, d
<1>4. pid \in Objs \cup {None}
  BY <1>3
<1>5. e2 \in [Aliases -> Row] /\ (\A b \in Aliases \ {a} : e2[b] = s.ents[b])
      /\ e2[a].fd = s.ents[a].fd /\ e2[a].tok = fd /\ e2[a].stamp = i
  <2> DEFINE x == s.ents[a]
             y == [x EXCEPT !.tok = fd, !.stamp = i]
  <2>1. x \in Row /\ s.ents \in [Aliases -> Row]
    BY <1>2 DEF RowsOK
  <2>2. e2 = [s.ents EXCEPT ![a] = y]
    OBVIOUS
  <2> HIDE DEF x
  <2>3. y \in Row /\ y.fd = x.fd /\ y.tok = fd /\ y.stamp = i
    BY <1>3, <2>1 DEF Row
  <2> HIDE DEF y, e2
  <2>4. QED BY <2>1, <2>2, <2>3 DEF x
<1>6. /\ r2 \in [Fds -> Record] /\ (\A g \in Fds \ {fd} : r2[g] = s.recs[g])
      /\ r2[fd] = s.recs[fd] \/ r2[fd].kind = "socket"
  <2> DEFINE x == [kind |-> "socket", id |-> i]
  <2>1. x \in Record /\ x.kind = "socket"
    BY <1>3 DEF Record
  <2> HIDE DEF x
  <2>2. Register(s.recs, fd, "socket", i) = [s.recs EXCEPT ![fd] = x]
    BY DEF Register, x
  <2>3. QED BY <1>2, <1>3, <2>1, <2>2 DEF RecsOK
<1>7. /\ o2 \in [Objs -> Object] /\ Same(s.obj, o2, i)
      /\ o2[i] = [t |-> "conn", fd |-> fd, by |-> a, eof |-> FALSE, msg |-> "none", pid |-> pid]
  <2> HIDE DEF pid
  <2>1. QED BY <1>2, <1>3, <1>4, MakeFields DEF ObjsOK, Kinds
<1> HIDE DEF o2, r2, e2
<1>8. o2[i].t = "conn" /\ o2[i].fd = fd /\ o2[i].by = a /\ o2[i].pid = pid
  BY <1>7
<1>9. ObjsOK(o2)
  BY <1>2, <1>3, <1>7, <1>8, MakeObjs
<1>10. RecsOK(o2, r2)
  <2>1. \A j \in Objs : s.obj[j].fd # fd
    BY <1>3
  <2>2. s.recs[fd].kind \in {"none", "socket"}
    BY <1>2, <1>3, <2>1 DEF RecsOK, Record
  <2>3. r2[fd].kind \in {"none", "socket"}
    BY <1>6, <2>2
  <2>4. NamesIt(r2, fd, o2[i].t, i)
    BY <1>8, <2>3 DEF NamesIt
  <2>5. QED BY <1>2, <1>3, <1>6, <1>7, <1>8, <1>9, <2>4, OpenRecs
<1>11. WorkersOK(o2, w2, p2)
  <2>1. CASE a \in Workers
    <3>1. o2[i].pid = i /\ o2[i].fd \in Fds
      BY <1>3, <1>8, <2>1
    <3>2. WorkersOK(o2, s.own \cup {[fd |-> o2[i].fd, pid |-> i]}, [s.proc EXCEPT ![i] = "running"])
      BY <1>2, <1>3, <1>7, <1>8, <3>1, NewWorker
    <3>3. QED BY <1>8, <2>1, <3>2
  <2>2. CASE a \notin Workers
    <3>1. o2[i].pid = None
      BY <1>8, <2>2
    <3>2. WorkersOK(o2, s.own, s.proc)
      BY <1>2, <1>3, <1>7, <3>1, NoWorker
    <3>3. QED BY <2>2, <3>2
  <2>3. QED BY <2>1, <2>2
<1>12. RowsOK(o2, e2)
  BY <1>2, <1>3, <1>5, <1>7, <1>8, DialRows
<1> HIDE DEF w2, p2, pid
<1>13. Good(d)
  BY <1>1, <1>9, <1>10, <1>11, <1>12, GoodParts
<1>14. d.obj = o2 /\ d.ents = e2
  BY <1>1
<1>15. OnlyBy(s.obj, o2, a)
  BY <1>3, <1>7, <1>8 DEF OnlyBy, Same
<1>16. ConnIn(d, fd) = i
  BY <1>3, <1>8, <1>9, <1>14, ConnInIs
<1>17. QED BY <1>3, <1>5, <1>7, <1>8, <1>13, <1>14, <1>15, <1>16 DEF i, fd, d

(* conn_open fails: nothing is left of it.                                 *)
LEMMA NotDialledGood ==
  ASSUME NEW s, Good(s), NEW a \in Aliases, NoConnBy(s.obj, a), s.ents[a].fd # None
  PROVE  LET n == NotDialled(s, a)
         IN  /\ Good(n) /\ OnlyBy(s.obj, n.obj, a) /\ NoConnBy(n.obj, a) /\ n.ents = s.ents
             /\ \A j \in Objs : s.obj[j].t = "reserved" => n.obj[j] = s.obj[j]
<1>1. CASE ~CanDial(s)
  BY <1>1 DEF NotDialled, OnlyBy
<1>2. CASE CanDial(s)
  <2> DEFINE d == Dialled(s, a)
             i == NewIn(s)
             r == [d EXCEPT !.recs = s.recs]
             k == Closed(r, i)
             n == NotDialled(s, a)
  <2>1. /\ Good(d) /\ i \in Objs /\ s.obj[i].t = "none" /\ Same(s.obj, d.obj, i)
        /\ d.obj[i].t = "conn" /\ d.obj[i].by = a /\ d.ents[a].stamp = i
    BY <1>2, DialledGood
  <2> HIDE DEF d, i
  <2>2. r = [obj |-> d.obj, recs |-> s.recs, own |-> d.own, proc |-> d.proc, ents |-> d.ents]
    <3> DEFINE o == d.obj
               rr == d.recs
               w == d.own
               p == d.proc
               e == d.ents
    <3>1. d = [obj |-> o, recs |-> rr, own |-> w, proc |-> p, ents |-> e]
      BY <2>1 DEF Good, Shape
    <3> HIDE DEF o, rr, w, p, e
    <3>2. QED BY <3>1 DEF o, rr, w, p, e
  <2>3. n = [k EXCEPT !.ents = s.ents]
    <3>1. r.ents[a].stamp = i
      BY <2>1, <2>2
    <3>2. QED BY <1>2, <3>1 DEF NotDialled, d
  <2> HIDE DEF r, n
  <2>4. r.obj = d.obj /\ r.recs = s.recs /\ r.ents = d.ents
    BY <2>2
  <2>5. Good(r)
    <3>1. /\ ObjsOK(s.obj) /\ RecsOK(s.obj, s.recs) /\ ObjsOK(d.obj)
          /\ WorkersOK(d.obj, d.own, d.proc) /\ RowsOK(d.obj, d.ents)
      BY <2>1 DEF Good
    <3> DEFINE fd == d.obj[i].fd
    <3>2. fd \in Fds /\ \A j \in Objs : s.obj[j].fd # fd
      <4>1. fd \in Fds \cup {None} /\ fd # None
        BY <2>1, <3>1 DEF ObjsOK, Object
      <4>2. \A j \in Objs : j # i => s.obj[j].fd # fd
        BY <2>1, <3>1, <4>1 DEF ObjsOK, Same
      <4>3. s.obj[i].fd = None
        BY <2>1, <3>1 DEF ObjsOK
      <4>4. QED BY <4>1, <4>2, <4>3
    <3>3. s.recs[fd].kind \in {"none", "socket"}
      BY <3>1, <3>2 DEF RecsOK, Record
    <3>4. NamesIt(s.recs, fd, d.obj[i].t, i)
      BY <2>1, <3>3 DEF NamesIt
    <3>5. RecsOK(d.obj, s.recs)
      <4>1. s.recs \in [Fds -> Record]
        BY <3>1 DEF RecsOK
      <4>2. QED BY <2>1, <3>1, <3>2, <3>4, <4>1, OpenRecs
    <3>6. QED BY <2>2, <3>1, <3>5, GoodParts
  <2>6. /\ Good(k) /\ k.obj = Gone(r.obj, i) /\ k.recs = s.recs
    BY <2>1, <2>4, <2>5, ClosedGood
  <2> HIDE DEF k
  <2>7. n = [obj |-> k.obj, recs |-> k.recs, own |-> k.own, proc |-> k.proc, ents |-> s.ents]
    <3> DEFINE o == k.obj
               rr == k.recs
               w == k.own
               p == k.proc
               e == k.ents
    <3>1. k = [obj |-> o, recs |-> rr, own |-> w, proc |-> p, ents |-> e]
      BY <2>6 DEF Good, Shape
    <3> HIDE DEF o, rr, w, p, e
    <3>2. QED BY <2>3, <3>1 DEF o, rr, w, p, e
  <2>8. /\ Same(d.obj, k.obj, i) /\ k.obj[i].t = "gone" /\ k.obj[i].by = a
    <3>1. d.obj \in [Objs -> Object]
      BY <2>1 DEF Good, ObjsOK
    <3>2. QED BY <2>1, <2>4, <2>6, <3>1, GoneFields
  <2>9. Same(s.obj, k.obj, i)
    BY <2>1, <2>8 DEF Same
  <2>10. RowsOK(k.obj, s.ents)
    BY <2>1, <2>8, <2>9, MakeRows DEF Good
  <2>11. Good(n)
    BY <2>6, <2>7, <2>10, GoodParts DEF Good
  <2>12. n.obj = k.obj /\ n.ents = s.ents
    BY <2>7
  <2>13. \A j \in Objs : j # i => n.obj[j] = s.obj[j]
    BY <2>9, <2>12 DEF Same
  <2>14. OnlyBy(s.obj, n.obj, a)
    BY <2>1, <2>8, <2>12, <2>13 DEF OnlyBy
  <2>15. NoConnBy(n.obj, a)
    BY <2>8, <2>12, <2>13 DEF NoConnBy
  <2>16. \A j \in Objs : s.obj[j].t = "reserved" => n.obj[j] = s.obj[j]
    BY <2>1, <2>13
  <2>17. QED BY <2>11, <2>12, <2>14, <2>15, <2>16 DEF n
<1>3. QED BY <1>1, <1>2

(* The row of an alias goes, with its connection and its descriptor.       *)
LEMMA RowGoneGood ==
  ASSUME NEW s, Good(s), NEW a \in Aliases, s.ents[a].fd # None
  PROVE  Good(RowGone(s, a)) /\ OnlyBy(s.obj, RowGone(s, a).obj, a)
<1> DEFINE fd == s.ents[a].fd
           r == DropToken(s, a)
           i == CHOOSE j \in Objs : s.obj[j].t = "reserved" /\ s.obj[j].fd = fd
           g == RowGone(s, a)
           o2 == Gone(r.obj, i)
           r2 == Deregister(r.recs, fd)
           e2 == [r.ents EXCEPT ![a] = NoRow]
<1>1. ObjsOK(s.obj) /\ RowsOK(s.obj, s.ents)
  BY DEF Good
<1>2. PICK j \in Objs : s.obj[j].t = "reserved" /\ s.obj[j].fd = fd /\ s.obj[j].by = a
  BY <1>1 DEF RowsOK
<1>3. i \in Objs /\ s.obj[i].t = "reserved" /\ s.obj[i].fd = fd
  BY <1>2
<1>4. i = j
  <2> HIDE DEF i
  <2>1. QED BY <1>1, <1>2, <1>3 DEF ObjsOK
<1>5. fd \in Fds
  <2>1. fd \in Fds \cup {None}
    BY <1>1 DEF RowsOK, Row
  <2>2. QED BY <2>1
<1>6. /\ Good(r) /\ NoConnBy(r.obj, a) /\ OnlyBy(s.obj, r.obj, a)
      /\ \A q \in Objs : s.obj[q].t = "reserved" => r.obj[q] = s.obj[q]
  BY DropTokenGood
<1>7. g = [r EXCEPT !.obj = Gone(@, i), !.recs = Deregister(@, fd), !.ents[a] = NoRow]
  BY DEF RowGone
<1> HIDE DEF r, i, g, fd
<1>8. g = [obj |-> o2, recs |-> r2, own |-> r.own, proc |-> r.proc, ents |-> e2]
  <2> DEFINE o == r.obj
             rr == r.recs
             w == r.own
             p == r.proc
             e == r.ents
  <2>1. r = [obj |-> o, recs |-> rr, own |-> w, proc |-> p, ents |-> e]
    BY <1>6 DEF Good, Shape
  <2> HIDE DEF o, rr, w, p, e
  <2>2. QED BY <1>7, <2>1 DEF o, rr, w, p, e
<1>9. /\ ObjsOK(r.obj) /\ RecsOK(r.obj, r.recs) /\ WorkersOK(r.obj, r.own, r.proc)
      /\ RowsOK(r.obj, r.ents)
  BY <1>6 DEF Good
<1>10. r.obj[i].t = "reserved" /\ r.obj[i].fd = fd /\ r.obj[i].by = a
  BY <1>2, <1>3, <1>4, <1>6
<1>11. /\ o2 \in [Objs -> Object] /\ Same(r.obj, o2, i) /\ o2[i].t = "gone" /\ o2[i].fd = None
       /\ o2[i].by = a /\ o2[i].pid = None
  BY <1>3, <1>9, <1>10, GoneFields DEF ObjsOK
<1>12. /\ r2 \in [Fds -> Record] /\ r2[fd].kind = "none" /\ \A h \in Fds \ {fd} : r2[h] = r.recs[h]
  BY <1>5, <1>9 DEF RecsOK, Deregister, NoRec, Record
<1>13. /\ e2 \in [Aliases -> Row] /\ (\A b \in Aliases \ {a} : e2[b] = r.ents[b]) /\ e2[a] = NoRow
  BY <1>9 DEF RowsOK, NoRow, Row
<1> HIDE DEF o2, r2, e2
<1>14. ObjsOK(o2)
  BY <1>3, <1>9, <1>11, GoneObjs
<1>15. RecsOK(o2, r2)
  <2>1. /\ r.obj[i].fd \in Fds /\ r2[r.obj[i].fd].kind = "none"
        /\ \A h \in Fds \ {r.obj[i].fd} : r2[h] = r.recs[h]
    BY <1>5, <1>10, <1>12
  <2>2. QED BY <1>3, <1>9, <1>11, <1>12, <1>14, <2>1, CloseRecs
<1>16. WorkersOK(o2, r.own, r.proc)
  BY <1>3, <1>9, <1>10, <1>11, NoWorker
<1>17. RowsOK(o2, e2)
  BY <1>3, <1>6, <1>9, <1>10, <1>11, <1>13, DropRows
<1>18. Good(g) /\ g.obj = o2
  BY <1>8, <1>14, <1>15, <1>16, <1>17, GoodParts
<1>19. OnlyBy(r.obj, o2, a)
  BY <1>3, <1>10, <1>11 DEF OnlyBy, Same
<1>20. QED BY <1>6, <1>18, <1>19, OnlyByTrans DEF g

----------------------------------------------------------------------------
(* One step.                                                               *)

(* A made object stays made, its maker stays, and what is being closed     *)
(* stays so until its .z.pc has returned.                                  *)
Keep(o, o2) ==
    \A i \in Objs : /\ o[i].t # "none" => o2[i].t # "none" /\ o2[i].by = o[i].by
                    /\ o[i].t = "closing" => o2[i].t = "closing"

(* The connections nobody's alias opened are left alone.                   *)
Spare(o, o2) == \A i \in Objs : o[i].t = "conn" /\ o[i].by = None => o2[i].t # "gone"

(* NoForeignClose, of this step.                                           *)
Spared ==
    \A i \in Objs :
        obj[i].t = "conn" /\ obj[i].by = None /\ ~obj[i].eof /\ obj'[i].t = "gone"
            => Hclose(obj[i].fd)

LEMMA OnlyByKeeps ==
  ASSUME NEW o, NEW o2, NEW a \in Aliases, OnlyBy(o, o2, a)
  PROVE  Keep(o, o2) /\ Spare(o, o2)
<1>1. a # None
  BY HandlesAssumption DEF Aliases, None
<1>2. QED BY <1>1 DEF OnlyBy, Keep, Spare

LEMMA StackKept ==
  ASSUME NEW st, NEW o, NEW o2, StackOK(st, o), Keep(o, o2)
  PROVE  StackOK(st, o2)
<1>1. \A j \in DOMAIN st : st[j] \in Suspended
  <2>1. st \in Seq(Suspended)
    BY DEF StackOK
  <2>2. QED BY <2>1, LenProperties, ElementOfSeq
<1>2. \A j \in DOMAIN st : st[j].k \in {"use", "pc"} => st[j].c \in Objs
  BY <1>1 DEF Suspended
<1>3. QED BY <1>2 DEF StackOK, Keep

LEMMA StatePieces ==
  /\ Shape(State) /\ State.obj = obj /\ State.recs = recs /\ State.own = own
  /\ State.proc = proc /\ State.ents = ents
  BY DEF State, Shape

LEMMA StateGood ==
  ASSUME Inv, ~exited
  PROVE  Good(State)
  BY StatePieces DEF Inv, Good

(* A step that takes the tables to good ones and keeps what is suspended.  *)
LEMMA GoodStep ==
  ASSUME Inv, ~exited, NEW s, Good(s), Becomes(s), exited' = exited,
         Keep(obj, s.obj), StackOK(stack', s.obj), told' = told
  PROVE  Inv'
<1>1. /\ obj' = s.obj /\ recs' = s.recs /\ own' = s.own /\ proc' = s.proc /\ ents' = s.ents
  BY DEF Becomes
<1>2. ToldOK'
  BY <1>1 DEF Inv, ToldOK, Keep
<1>3. /\ ObjsOK(obj') /\ RecsOK(obj', recs') /\ RowsOK(obj', ents') /\ WorkersOK(obj', own', proc')
      /\ StackOK(stack', obj')
  BY <1>1 DEF Good
<1>4. QED BY <1>2, <1>3 DEF Inv

(* A step on the objects alone.                                            *)
LEMMA ObjStep ==
  ASSUME Inv, ~exited, UNCHANGED <<own, ents, exited, told>>,
         ObjsOK(obj'), RecsOK(obj', recs'), RowsOK(obj', ents), WorkersOK(obj', own, proc'),
         Keep(obj, obj'), StackOK(stack', obj')
  PROVE  Inv'
<1>1. ToldOK'
  BY DEF Inv, ToldOK, Keep
<1>2. QED BY <1>1 DEF Inv

(* Room for new objects.                                                   *)
LEMMA FreshNow ==
  ASSUME ObjsOK(obj), NEW n \in {1, 2}, CanMake(n)
  PROVE  /\ LowestFd \in Fds /\ (\A i \in Objs : obj[i].fd # LowestFd)
         /\ NewObj \in Objs /\ obj[NewObj].t = "none"
         /\ n = 2 => /\ \E fd \in Fds \ {LowestFd} : \A i \in Objs : obj[i].fd # fd
                     /\ \E i \in Objs \ {NewObj} : obj[i].t = "none"
<1>1. /\ FreeFds \in SUBSET Fds /\ Unmade \in SUBSET Objs /\ Fds \in SUBSET Nat /\ Objs \in SUBSET Nat
      /\ IsFiniteSet(Fds) /\ IsFiniteSet(Objs)
  <2>1. IsFiniteSet(1..MaxObj)
    BY FS_Interval, HandlesAssumption
  <2>2. QED BY <2>1, HandlesAssumption DEF FreeFds, Unmade, Objs
<1>2. IsFiniteSet(FreeFds) /\ IsFiniteSet(Unmade)
  BY <1>1, FS_Subset
<1>3. Cardinality(FreeFds) >= n /\ Cardinality(Unmade) >= n
  BY DEF CanMake
<1>4. FreeFds # {} /\ Unmade # {}
  BY <1>3, FS_EmptySet
<1>5. LowestFd \in FreeFds
  <2>1. \E x \in FreeFds : \A y \in FreeFds : x <= y
    BY <1>1, <1>4, LowestExists
  <2>2. QED BY <2>1 DEF LowestFd
<1>6. NewObj \in Unmade
  <2>1. \E x \in Unmade : \A y \in Unmade : x <= y
    BY <1>1, <1>4, LowestExists
  <2>2. QED BY <2>1 DEF NewObj
<1>7. \A fd \in FreeFds : \A i \in Objs : obj[i].fd # fd
  BY <1>1, HolderIs DEF FreeFds
<1>8. ASSUME n = 2
      PROVE  FreeFds \ {LowestFd} # {} /\ Unmade \ {NewObj} # {}
  <2>1. /\ Cardinality(FreeFds \ {LowestFd}) = Cardinality(FreeFds) - 1
        /\ Cardinality(Unmade \ {NewObj}) = Cardinality(Unmade) - 1
    BY <1>2, <1>5, <1>6, FS_RemoveElement
  <2>2. Cardinality(FreeFds) \in Nat /\ Cardinality(Unmade) \in Nat
    BY <1>2, FS_CardinalityType
  <2>3. Cardinality(FreeFds \ {LowestFd}) # 0 /\ Cardinality(Unmade \ {NewObj}) # 0
    BY <1>3, <1>8, <2>1, <2>2
  <2>4. QED BY <2>3, FS_EmptySet
<1>9. ASSUME n = 2
      PROVE  /\ \E fd \in Fds \ {LowestFd} : \A i \in Objs : obj[i].fd # fd
             /\ \E i \in Objs \ {NewObj} : obj[i].t = "none"
  <2>1. PICK fd \in FreeFds : fd # LowestFd
    BY <1>8, <1>9
  <2>2. PICK i \in Unmade : i # NewObj
    BY <1>8, <1>9
  <2>3. QED BY <1>1, <1>7, <2>1, <2>2 DEF Unmade
<1>10. QED BY <1>1, <1>5, <1>6, <1>7, <1>9 DEF Unmade

(* A descriptor is opened: a file, or a connection that is no alias's.     *)
LEMMA OpenedStep ==
  ASSUME Inv, ~exited, CanMake(1), NEW t \in {"file", "conn"},
         obj' = Make(obj, NewObj, t, LowestFd, None, None),
         NEW kd, t = "file" => kd = "file", t = "conn" => kd = "socket",
         \/ recs' = Register(recs, LowestFd, kd, NewObj)
         \/ t = "conn" /\ recs' = recs,
         UNCHANGED <<own, proc, ents, stack, told, exited>>
  PROVE  Inv' /\ Spared
<1> DEFINE i == NewObj
           fd == LowestFd
<1>1. ObjsOK(obj) /\ RecsOK(obj, recs) /\ RowsOK(obj, ents) /\ WorkersOK(obj, own, proc)
  BY DEF Inv
<1>2. fd \in Fds /\ (\A j \in Objs : obj[j].fd # fd) /\ i \in Objs /\ obj[i].t = "none"
  BY <1>1, FreshNow
<1> HIDE DEF i, fd
<1>3. obj' = Make(obj, i, t, fd, None, None)
  BY DEF i, fd
<1>4. /\ obj' \in [Objs -> Object] /\ Same(obj, obj', i)
      /\ obj'[i] = [t |-> t, fd |-> fd, by |-> None, eof |-> FALSE, msg |-> "none", pid |-> None]
  <2>1. t \in Kinds /\ None \in Aliases \cup {None} /\ None \in Objs \cup {None}
    BY DEF Kinds
  <2>2. QED BY <1>1, <1>2, <1>3, <2>1, MakeFields DEF ObjsOK
<1>5. obj'[i].t = t /\ obj'[i].fd = fd /\ obj'[i].by = None /\ obj'[i].pid = None
  BY <1>4
<1>6. ObjsOK(obj')
  BY <1>1, <1>2, <1>4, <1>5, MakeObjs
<1>7. RecsOK(obj', recs')
  <2>1. recs[fd].kind \in {"none", "socket"}
    BY <1>1, <1>2 DEF RecsOK, Record
  <2> DEFINE x == [kind |-> kd, id |-> i]
  <2>2. x \in Record /\ (t = "file" => x = [kind |-> "file", id |-> i]) /\ (t = "conn" => x.kind = "socket")
    BY <1>2 DEF Record
  <2>3. recs' = [recs EXCEPT ![fd] = x] \/ (t = "conn" /\ recs' = recs)
    BY DEF Register, i, fd
  <2> HIDE DEF x
  <2>4. recs' \in [Fds -> Record] /\ \A g \in Fds \ {fd} : recs'[g] = recs[g]
    BY <1>1, <1>2, <2>2, <2>3 DEF RecsOK
  <2>5. NamesIt(recs', fd, t, i)
    BY <1>1, <1>2, <2>1, <2>2, <2>3 DEF NamesIt, RecsOK
  <2>6. QED BY <1>1, <1>2, <1>4, <1>5, <1>6, <2>4, <2>5, OpenRecs
<1>8. WorkersOK(obj', own, proc)
  BY <1>1, <1>2, <1>4, <1>5, NoWorker
<1>9. RowsOK(obj', ents)
  BY <1>1, <1>2, <1>4, <1>5, MakeRows
<1>10. Keep(obj, obj')
  BY <1>2, <1>4 DEF Keep, Same
<1>11. StackOK(stack', obj')
  BY <1>10, StackKept DEF Inv
<1>12. Spared
  BY <1>2, <1>4, <1>5 DEF Spared, Same
<1>13. QED BY <1>6, <1>7, <1>8, <1>9, <1>10, <1>11, <1>12, ObjStep

(* An operation of an alias.                                               *)
LEMMA AliasStep ==
  ASSUME Inv, ~exited, NEW a \in Aliases, NEW s, Good(s), OnlyBy(obj, s.obj, a), Becomes(s),
         StackOK(stack', obj), told' = told, exited' = exited
  PROVE  Inv' /\ Spared
<1>1. Keep(obj, s.obj) /\ Spare(obj, s.obj)
  BY OnlyByKeeps
<1>2. StackOK(stack', s.obj)
  BY <1>1, StackKept
<1>3. Spared
  BY <1>1 DEF Spared, Spare, Becomes
<1>4. QED BY <1>1, <1>2, <1>3, GoodStep

(* The row of an alias that is there.                                      *)
LEMMA RowThere ==
  ASSUME Inv, NEW a \in Aliases
  PROVE  Exists(a) <=> ents[a].fd # None
  BY DEF Inv, RowsOK, Exists, NoRow

LEMMA HcloseStep ==
  ASSUME Inv, NEW fd \in Fds, Hclose(fd)
  PROVE  Inv' /\ Spared
<1>1. ~exited /\ stack' = stack /\ told' = told /\ exited' = exited
  BY DEF Hclose, Op, UserRuns
<1>2. Good(State) /\ State.obj = obj /\ State.recs = recs /\ State.ents = ents
  BY <1>1, StateGood, StatePieces
<1>3. ObjsOK(obj) /\ RecsOK(obj, recs) /\ RowsOK(obj, ents) /\ WorkersOK(obj, own, proc)
  BY <1>1 DEF Inv
<1>4. StackOK(stack', obj)
  BY <1>1 DEF Inv
<1>5. fd # None
  BY HandlesAssumption DEF None
<1> DEFINE row == {a \in Aliases : Exists(a) /\ ents[a].fd = fd}
<1>6. CASE recs[fd].kind = "provider" /\ row # {} /\ Becomes(RowGone(State, CHOOSE a \in row : TRUE))
  <2> DEFINE a == CHOOSE a \in row : TRUE
  <2>1. a \in row
    BY <1>6
  <2>2. a \in Aliases /\ ents[a].fd # None
    BY <1>5, <2>1
  <2> HIDE DEF a
  <2>3. Good(RowGone(State, a)) /\ OnlyBy(obj, RowGone(State, a).obj, a)
    BY <1>2, <2>2, RowGoneGood
  <2>4. Becomes(RowGone(State, a))
    BY <1>6 DEF a
  <2>5. QED BY <1>1, <1>4, <2>2, <2>3, <2>4, AliasStep
<1>7. CASE recs[fd].kind = "provider" /\ row = {}
  <2>1. PICK i \in Objs : obj[i].t = "reserved" /\ obj[i].fd = fd
    BY <1>3, <1>7 DEF RecsOK
  <2>2. obj[i].by \in Aliases /\ ents[obj[i].by].fd = fd
    BY <1>3, <2>1 DEF RowsOK
  <2>3. obj[i].by \in row
    BY <1>5, <2>2, RowThere
  <2>4. QED BY <1>7, <2>3
<1>8. CASE /\ recs[fd].kind = "file"
           /\ Becomes([State EXCEPT !.obj = Gone(@, CHOOSE i \in Holder(fd) : TRUE),
                                    !.recs = Deregister(@, fd)])
  <2> DEFINE i == CHOOSE i \in Holder(fd) : TRUE
             s == [State EXCEPT !.obj = Gone(@, i), !.recs = Deregister(@, fd)]
             o2 == Gone(obj, i)
             r2 == Deregister(recs, fd)
  <2>1. recs[fd].id \in Objs /\ obj[recs[fd].id].t = "file" /\ obj[recs[fd].id].fd = fd
    BY <1>3, <1>8 DEF RecsOK
  <2>2. recs[fd].id \in Holder(fd)
    BY <1>3, <2>1, HolderIs
  <2>3. i \in Objs /\ obj[i].t = "file" /\ obj[i].fd = fd
    <3>1. i \in Holder(fd)
      BY <2>2
    <3> HIDE DEF i
    <3>2. QED BY <1>3, <2>1, <2>2, <3>1, HolderIs
  <2>4. s = [obj |-> o2, recs |-> r2, own |-> own, proc |-> proc, ents |-> ents]
    <3> HIDE DEF i
    <3>1. s = [State EXCEPT !.obj = Gone(@, i), !.recs = Deregister(@, fd)]
      OBVIOUS
    <3> HIDE DEF s
    <3>2. QED BY <3>1 DEF State
  <2>5. Becomes(s)
    BY <1>8
  <2> HIDE DEF i, s
  <2>6. /\ o2 \in [Objs -> Object] /\ Same(obj, o2, i) /\ o2[i].t = "gone" /\ o2[i].fd = None
        /\ o2[i].by = obj[i].by /\ o2[i].pid = None
    BY <1>3, <2>3, GoneFields DEF ObjsOK
  <2>7. /\ r2 \in [Fds -> Record] /\ r2[obj[i].fd].kind = "none"
        /\ \A g \in Fds \ {obj[i].fd} : r2[g] = recs[g]
    BY <1>3, <2>3 DEF RecsOK, Deregister, NoRec, Record
  <2> HIDE DEF o2, r2
  <2>8. ObjsOK(o2)
    BY <1>3, <2>3, <2>6, GoneObjs
  <2>9. RecsOK(o2, r2)
    BY <1>3, <2>3, <2>6, <2>7, <2>8, CloseRecs
  <2>10. WorkersOK(o2, own, proc)
    BY <1>3, <2>3, <2>6, NoWorker
  <2>11. RowsOK(o2, ents)
    BY <1>3, <2>3, <2>6, CloseRows
  <2>12. Good(s) /\ s.obj = o2
    BY <2>4, <2>8, <2>9, <2>10, <2>11, GoodParts
  <2>13. Keep(obj, o2)
    BY <2>3, <2>6 DEF Keep, Same
  <2>14. StackOK(stack', o2)
    BY <1>4, <2>13, StackKept
  <2>15. Spared
    BY <2>3, <2>5, <2>6, <2>12 DEF Spared, Same, Becomes
  <2>16. QED BY <1>1, <2>5, <2>12, <2>13, <2>14, <2>15, GoodStep
<1>9. CASE recs[fd].kind \in {"none", "socket"} /\ Becomes(CloseSocket(State, fd))
  <2> DEFINE s == CloseSocket(State, fd)
             c == ConnIn(State, fd)
  <2>1. \A i \in Objs : obj[i].fd = fd => obj[i].t \notin {"file", "reserved"}
    <3> SUFFICES ASSUME NEW i \in Objs, obj[i].fd = fd, obj[i].t \in {"file", "reserved"} PROVE FALSE
      OBVIOUS
    <3>1. recs[fd] = [kind |-> "file", id |-> i] \/ recs[fd] = [kind |-> "provider", id |-> i]
      BY <1>3 DEF RecsOK
    <3>2. QED BY <1>9, <3>1
  <2>2. /\ Good(s) /\ (c = None => s.obj = obj) /\ (c # None => s.obj = Gone(obj, c))
    BY <1>2, <2>1, CloseSocketGood
  <2>3. c # None => c \in Objs /\ obj[c].t = "conn" /\ obj[c].fd = fd
    BY <1>2, <1>3, ConnInIs
  <2> HIDE DEF s, c
  <2>4. \A i \in Objs : \/ s.obj[i] = obj[i]
                        \/ /\ obj[i].t = "conn" /\ obj[i].fd = fd
                           /\ s.obj[i].t = "gone" /\ s.obj[i].by = obj[i].by
    <3>1. CASE c = None
      BY <2>2, <3>1
    <3>2. CASE c # None
      <4>1. /\ Same(obj, s.obj, c) /\ s.obj[c].t = "gone" /\ s.obj[c].by = obj[c].by
        BY <1>3, <2>2, <2>3, <3>2, GoneFields DEF ObjsOK
      <4>2. QED BY <2>3, <3>2, <4>1 DEF Same
    <3>3. QED BY <3>1, <3>2
  <2>5. Becomes(s)
    BY <1>9 DEF s
  <2>6. Keep(obj, s.obj)
    BY <2>4 DEF Keep
  <2>7. StackOK(stack', s.obj)
    BY <1>4, <2>6, StackKept
  <2>8. Spared
    <3> SUFFICES ASSUME NEW i \in Objs, obj[i].t = "conn", obj'[i].t = "gone" PROVE Hclose(obj[i].fd)
      BY DEF Spared
    <3>1. obj[i].fd = fd
      BY <2>4, <2>5 DEF Becomes
    <3>2. QED BY <3>1
  <2>9. QED BY <1>1, <2>2, <2>5, <2>6, <2>7, <2>8, GoodStep
<1>10. QED BY <1>6, <1>7, <1>8, <1>9 DEF Hclose

(* hopen of a new alias: its descriptor first.                             *)
LEMMA ReserveGood ==
  ASSUME Inv, ~exited, NEW a \in Aliases, ~Exists(a), CanMake(2)
  PROVE  LET s == [State EXCEPT !.obj = Make(@, NewObj, "reserved", LowestFd, a, None),
                                !.recs = Register(@, LowestFd, "provider", NewObj),
                                !.ents[a] = [NoRow EXCEPT !.fd = LowestFd]]
         IN  /\ Good(s) /\ OnlyBy(obj, s.obj, a) /\ NoConnBy(s.obj, a) /\ s.ents[a].fd # None
             /\ CanDial(s)
<1> DEFINE i == NewObj
           fd == LowestFd
           o2 == Make(obj, i, "reserved", fd, a, None)
           r2 == Register(recs, fd, "provider", i)
           e2 == [ents EXCEPT ![a] = [NoRow EXCEPT !.fd = fd]]
           s == [State EXCEPT !.obj = Make(@, NewObj, "reserved", LowestFd, a, None),
                              !.recs = Register(@, LowestFd, "provider", NewObj),
                              !.ents[a] = [NoRow EXCEPT !.fd = LowestFd]]
<1>1. ObjsOK(obj) /\ RecsOK(obj, recs) /\ RowsOK(obj, ents) /\ WorkersOK(obj, own, proc)
  BY DEF Inv
<1>2. /\ fd \in Fds /\ (\A j \in Objs : obj[j].fd # fd) /\ i \in Objs /\ obj[i].t = "none"
      /\ \E g \in Fds \ {fd} : \A j \in Objs : obj[j].fd # g
      /\ \E j \in Objs \ {i} : obj[j].t = "none"
  BY <1>1, FreshNow
<1>3. s = [State EXCEPT !.obj = Make(@, i, "reserved", fd, a, None),
                        !.recs = Register(@, fd, "provider", i),
                        !.ents[a] = [NoRow EXCEPT !.fd = fd]]
  OBVIOUS
<1> HIDE DEF i, fd, s
<1>4. s = [obj |-> o2, recs |-> r2, own |-> own, proc |-> proc, ents |-> e2]
  BY <1>3 DEF State
<1>5. /\ o2 \in [Objs -> Object] /\ Same(obj, o2, i)
      /\ o2[i] = [t |-> "reserved", fd |-> fd, by |-> a, eof |-> FALSE, msg |-> "none", pid |-> None]
  <2>1. "reserved" \in Kinds /\ a \in Aliases \cup {None} /\ None \in Objs \cup {None}
    BY DEF Kinds
  <2>2. QED BY <1>1, <1>2, <2>1, MakeFields DEF ObjsOK
<1> HIDE DEF o2
<1>6. o2[i].t = "reserved" /\ o2[i].fd = fd /\ o2[i].by = a /\ o2[i].pid = None
  BY <1>5
<1>7. ObjsOK(o2)
  BY <1>1, <1>2, <1>5, <1>6, MakeObjs
<1>8. RecsOK(o2, r2)
  <2>1. r2 \in [Fds -> Record] /\ \A g \in Fds \ {fd} : r2[g] = recs[g]
    BY <1>1, <1>2 DEF RecsOK, Record, Register
  <2>2. NamesIt(r2, fd, o2[i].t, i)
    BY <1>1, <1>2, <1>6 DEF NamesIt, Register, RecsOK
  <2> HIDE DEF r2
  <2>3. QED BY <1>1, <1>2, <1>5, <1>6, <1>7, <2>1, <2>2, OpenRecs
<1>9. WorkersOK(o2, own, proc)
  BY <1>1, <1>2, <1>5, <1>6, NoWorker
<1>10. RowsOK(o2, e2)
  <2>1. ents[a] = NoRow
    BY DEF Exists
  <2>2. RowsOK(o2, [ents EXCEPT ![a] = [NoRow EXCEPT !.fd = o2[i].fd]])
    BY <1>1, <1>2, <1>5, <1>6, <2>1, ReserveRows
  <2>3. QED BY <1>6, <2>2
<1>11. e2[a].fd # None
  BY <1>1, <1>2, HandlesAssumption DEF RowsOK, None, NoRow
<1> HIDE DEF r2, e2
<1>12. Good(s) /\ s.obj = o2 /\ s.ents = e2
  BY <1>4, <1>7, <1>8, <1>9, <1>10, GoodParts
<1>13. OnlyBy(obj, o2, a)
  BY <1>2, <1>5, <1>6 DEF OnlyBy, Same
<1>14. NoConnBy(o2, a)
  <2> SUFFICES ASSUME NEW j \in Objs, o2[j].t = "conn", o2[j].by = a PROVE FALSE
    BY DEF NoConnBy
  <2>1. j # i /\ obj[j].t = "conn" /\ obj[j].by = a
    BY <1>5, <1>6 DEF Same
  <2>2. a # None
    BY HandlesAssumption DEF Aliases, None
  <2>3. ents[a].tok = obj[j].fd
    BY <1>1, <2>1, <2>2 DEF RowsOK
  <2>4. ents[a].tok = None
    BY DEF Exists, NoRow
  <2>5. QED BY <1>1, <2>1, <2>3, <2>4 DEF ObjsOK
<1>15. CanDial(s)
  <2>1. PICK g \in Fds \ {fd} : \A j \in Objs : obj[j].fd # g
    BY <1>2
  <2>2. \A j \in Objs : o2[j].fd # g
    BY <1>5, <1>6, <2>1 DEF Same
  <2>3. g \in FreeIn(s)
    BY <1>12, <2>2 DEF FreeIn
  <2>4. PICK j \in Objs \ {i} : obj[j].t = "none"
    BY <1>2
  <2>5. s.obj[j].t = "none"
    BY <1>5, <1>12, <2>4 DEF Same
  <2>6. QED BY <2>3, <2>5 DEF CanDial
<1>16. QED BY <1>11, <1>12, <1>13, <1>14, <1>15 DEF s

LEMMA AliasOpenStep ==
  ASSUME Inv, NEW a \in Aliases, AliasOpen(a)
  PROVE  Inv' /\ Spared
<1> DEFINE s == [State EXCEPT !.obj = Make(@, NewObj, "reserved", LowestFd, a, None),
                              !.recs = Register(@, LowestFd, "provider", NewObj),
                              !.ents[a] = [NoRow EXCEPT !.fd = LowestFd]]
<1>1. ~exited /\ stack' = stack /\ told' = told /\ exited' = exited /\ ~Exists(a) /\ CanMake(2)
  BY DEF AliasOpen, Op, UserRuns
<1>2. Becomes(Dialled(s, a)) \/ Becomes(RowGone(NotDialled(s, a), a))
  BY DEF AliasOpen
<1>3. /\ Good(s) /\ OnlyBy(obj, s.obj, a) /\ NoConnBy(s.obj, a) /\ s.ents[a].fd # None
      /\ CanDial(s)
  BY <1>1, ReserveGood
<1>4. StackOK(stack', obj)
  BY <1>1 DEF Inv
<1> HIDE DEF s
<1>5. CASE Becomes(Dialled(s, a))
  <2> DEFINE d == Dialled(s, a)
  <2>1. Good(d) /\ OnlyBy(s.obj, d.obj, a)
    BY <1>3, DialledGood
  <2> HIDE DEF d
  <2>2. OnlyBy(obj, d.obj, a)
    BY <1>3, <2>1, OnlyByTrans
  <2>3. QED BY <1>1, <1>4, <1>5, <2>1, <2>2, AliasStep DEF d
<1>6. CASE Becomes(RowGone(NotDialled(s, a), a))
  <2> DEFINE n == NotDialled(s, a)
             g == RowGone(n, a)
  <2>1. Good(n) /\ OnlyBy(s.obj, n.obj, a) /\ n.ents[a].fd # None
    BY <1>3, NotDialledGood
  <2> HIDE DEF n
  <2>2. Good(g) /\ OnlyBy(n.obj, g.obj, a)
    BY <2>1, RowGoneGood
  <2> HIDE DEF g
  <2>3. OnlyBy(obj, g.obj, a)
    BY <1>3, <2>1, <2>2, OnlyByTrans
  <2>4. QED BY <1>1, <1>4, <1>6, <2>2, <2>3, AliasStep DEF n, g
<1>7. QED BY <1>2, <1>5, <1>6

LEMMA AliasRepointStep ==
  ASSUME Inv, NEW a \in Aliases, AliasRepoint(a)
  PROVE  Inv' /\ Spared
<1> DEFINE s == DropToken(State, a)
<1>1. ~exited /\ stack' = stack /\ told' = told /\ exited' = exited /\ ents[a].fd # None
  BY RowThere DEF AliasRepoint, Op, UserRuns
<1>2. (CanDial(s) /\ Becomes(Dialled(s, a))) \/ Becomes(RowGone(NotDialled(s, a), a))
  BY DEF AliasRepoint
<1>3. /\ Good(s) /\ OnlyBy(obj, s.obj, a) /\ NoConnBy(s.obj, a) /\ s.ents[a].fd # None
  BY <1>1, StateGood, StatePieces, DropTokenGood
<1>4. StackOK(stack', obj)
  BY <1>1 DEF Inv
<1> HIDE DEF s
<1>5. CASE CanDial(s) /\ Becomes(Dialled(s, a))
  <2> DEFINE d == Dialled(s, a)
  <2>1. Good(d) /\ OnlyBy(s.obj, d.obj, a)
    BY <1>3, <1>5, DialledGood
  <2> HIDE DEF d
  <2>2. OnlyBy(obj, d.obj, a)
    BY <1>3, <2>1, OnlyByTrans
  <2>3. QED BY <1>1, <1>4, <1>5, <2>1, <2>2, AliasStep DEF d
<1>6. CASE Becomes(RowGone(NotDialled(s, a), a))
  <2> DEFINE n == NotDialled(s, a)
             g == RowGone(n, a)
  <2>1. Good(n) /\ OnlyBy(s.obj, n.obj, a) /\ n.ents[a].fd # None
    BY <1>3, NotDialledGood
  <2> HIDE DEF n
  <2>2. Good(g) /\ OnlyBy(n.obj, g.obj, a)
    BY <2>1, RowGoneGood
  <2> HIDE DEF g
  <2>3. OnlyBy(obj, g.obj, a)
    BY <1>3, <2>1, <2>2, OnlyByTrans
  <2>4. QED BY <1>1, <1>4, <1>6, <2>2, <2>3, AliasStep DEF n, g
<1>7. QED BY <1>2, <1>5, <1>6

LEMMA AliasCloseStep ==
  ASSUME Inv, NEW a \in Aliases, AliasClose(a)
  PROVE  Inv' /\ Spared
<1>1. ~exited /\ stack' = stack /\ told' = told /\ exited' = exited /\ ents[a].fd # None
  BY RowThere DEF AliasClose, Op, UserRuns
<1>2. Good(RowGone(State, a)) /\ OnlyBy(obj, RowGone(State, a).obj, a)
  BY <1>1, StateGood, StatePieces, RowGoneGood
<1>3. Becomes(RowGone(State, a)) /\ StackOK(stack', obj)
  BY <1>1 DEF AliasClose, Inv
<1>4. QED BY <1>1, <1>2, <1>3, AliasStep

(* An alias speaks: over the connection it drained, or over a new one.     *)
LEMMA SpeakStep ==
  ASSUME Inv, ~exited, NEW a \in Aliases, NEW dead, Speak(a, dead), StackOK(stack', obj),
         exited' = exited,
         ~dead => \E c \in Objs : obj[c].t = "conn" /\ obj[c].by = a
  PROVE  Inv' /\ Spared
<1>1. Good(State) /\ State.obj = obj /\ State.ents = ents
  BY StateGood, StatePieces
<1>2. OnlyBy(obj, obj, a)
  BY DEF OnlyBy
<1>3. ObjsOK(obj) /\ RowsOK(obj, ents)
  BY DEF Inv
<1>4. None \notin Fds /\ None \notin Aliases /\ None \notin Objs
  BY HandlesAssumption DEF None, Aliases, Objs
<1>5. CASE Becomes(State) /\ told' = told
  BY <1>1, <1>2, <1>5, AliasStep
<1>6. CASE ~dead /\ Becomes(State) /\ told' = [a |-> a, to |-> ConnOn(ents[a].tok)]
  <2>1. PICK c \in Objs : obj[c].t = "conn" /\ obj[c].by = a
    BY <1>6
  <2>2. ents[a].tok = obj[c].fd /\ obj[c].fd # None /\ obj[c].fd \in Fds
    <3>1. ents[a].tok = obj[c].fd /\ obj[c].fd # None
      BY <1>3, <1>4, <2>1 DEF RowsOK, ObjsOK
    <3>2. obj[c].fd \in Fds \cup {None}
      BY <1>3 DEF ObjsOK, Object
    <3>3. QED BY <3>1, <3>2
  <2>3. ConnOn(ents[a].tok) = c
    <3>1. ConnOn(ents[a].tok) = ConnIn(State, ents[a].tok)
      BY <1>1 DEF ConnOn, ConnIn
    <3>2. QED BY <1>1, <1>3, <2>1, <2>2, <3>1, ConnInIs
  <2>4. obj' = obj /\ recs' = recs /\ own' = own /\ proc' = proc /\ ents' = ents
    BY <1>6, StatePieces DEF Becomes
  <2>5. ToldOK'
    BY <1>6, <2>1, <2>3, <2>4 DEF ToldOK
  <2>6. Spared
    BY <2>4 DEF Spared
  <2>7. QED BY <2>4, <2>5, <2>6 DEF Inv
<1>7. CASE dead /\ Exists(a) /\ ~(Becomes(State) /\ told' = told)
  <2> DEFINE s == DropToken(State, a)
             d == Dialled(s, a)
             n == NotDialled(s, a)
             i == NewIn(s)
  <2>1. /\ Good(s) /\ OnlyBy(obj, s.obj, a) /\ NoConnBy(s.obj, a) /\ s.ents[a].fd # None
    BY <1>1, <1>7, RowThere, DropTokenGood
  <2>2. \/ CanDial(s) /\ Becomes(d) /\ told' = [a |-> a, to |-> ConnIn(d, d.ents[a].tok)]
        \/ Becomes(n) /\ told' = told
    BY <1>7 DEF Speak
  <2> HIDE DEF s
  <2>3. CASE CanDial(s) /\ Becomes(d) /\ told' = [a |-> a, to |-> ConnIn(d, d.ents[a].tok)]
    <3>1. /\ Good(d) /\ OnlyBy(s.obj, d.obj, a) /\ ConnIn(d, d.ents[a].tok) = i
          /\ i \in Objs /\ d.obj[i].t = "conn" /\ d.obj[i].by = a
      BY <2>1, <2>3, DialledGood
    <3> HIDE DEF d, i
    <3>2. OnlyBy(obj, d.obj, a)
      BY <2>1, <3>1, OnlyByTrans
    <3>3. Keep(obj, d.obj) /\ Spare(obj, d.obj)
      BY <3>2, OnlyByKeeps
    <3>4. /\ obj' = d.obj /\ recs' = d.recs /\ own' = d.own /\ proc' = d.proc /\ ents' = d.ents
      BY <2>3 DEF Becomes
    <3>5. ToldOK'
      BY <2>3, <3>1, <3>4 DEF ToldOK
    <3>6. StackOK(stack', obj')
      BY <3>3, <3>4, StackKept
    <3>7. Spared
      BY <3>3, <3>4 DEF Spared, Spare
    <3>8. QED BY <3>1, <3>4, <3>5, <3>6, <3>7 DEF Inv, Good
  <2>4. CASE Becomes(n) /\ told' = told
    <3>1. Good(n) /\ OnlyBy(s.obj, n.obj, a)
      BY <2>1, NotDialledGood
    <3> HIDE DEF n
    <3>2. OnlyBy(obj, n.obj, a)
      BY <2>1, <3>1, OnlyByTrans
    <3>3. QED BY <2>4, <3>1, <3>2, AliasStep
  <2>5. QED BY <2>2, <2>3, <2>4
<1>8. QED
  <2>1. CASE ~Exists(a)
    BY <1>5, <2>1 DEF Speak
  <2>2. CASE Exists(a) /\ ~dead
    BY <1>6, <2>2 DEF Speak
  <2>3. CASE Exists(a) /\ dead
    BY <1>5, <1>7, <2>3
  <2>4. QED BY <2>1, <2>2, <2>3

----------------------------------------------------------------------------
(* What is suspended.                                                      *)

(* An operation is suspended.                                              *)
LEMMA PushSuspended ==
  ASSUME NEW st, NEW o, StackOK(st, o), NEW f \in Suspended,
         f.k = "use" => o[f.c].t # "none" /\ (f.c = f.want => o[f.c].by = f.a),
         f.k = "pc" => o[f.c].t = "closing" /\ \A j \in DOMAIN st : st[j].k = "pc" => st[j].c # f.c
  PROVE  StackOK(Append(st, f), o)
<1> DEFINE s == Append(st, f)
           L == Len(st)
<1>1. st \in Seq(Suspended)
  BY DEF StackOK
<1>2. /\ s \in Seq(Suspended) /\ DOMAIN st = 1..L /\ L \in Nat /\ DOMAIN s = 1..(L + 1)
      /\ s[L + 1] = f /\ \A j \in 1..L : s[j] = st[j]
  BY <1>1
<1>3. \A j \in 1..(L + 1) : j \in 1..L \/ j = L + 1
  BY <1>2
<1> HIDE DEF s, L
<1>4. \A j \in DOMAIN s :
        /\ s[j].k = "use" => o[s[j].c].t # "none" /\ (s[j].c = s[j].want => o[s[j].c].by = s[j].a)
        /\ s[j].k = "pc" => o[s[j].c].t = "closing"
  BY <1>2, <1>3 DEF StackOK
<1>5. ASSUME NEW j \in DOMAIN s, NEW l \in DOMAIN s, s[j].k = "pc", s[l].k = "pc", s[j].c = s[l].c
      PROVE  j = l
  <2>1. CASE j \in 1..L /\ l \in 1..L
    BY <1>2, <1>5, <2>1 DEF StackOK
  <2>2. CASE j = L + 1 /\ l \in 1..L
    BY <1>2, <1>5, <2>2
  <2>3. CASE j \in 1..L /\ l = L + 1
    BY <1>2, <1>5, <2>3
  <2>4. QED BY <1>2, <1>3, <2>1, <2>2, <2>3
<1>6. QED BY <1>2, <1>4, <1>5 DEF StackOK, s

(* The innermost operation goes on.                                        *)
LEMMA PopSuspended ==
  ASSUME StackOK(stack, obj), stack # <<>>
  PROVE  /\ StackOK(Pop, obj) /\ Top \in Suspended
         /\ Top.k = "use" => obj[Top.c].t # "none" /\ (Top.c = Top.want => obj[Top.c].by = Top.a)
         /\ Top.k = "pc" => /\ obj[Top.c].t = "closing"
                            /\ \A j \in DOMAIN Pop : Pop[j].k = "pc" => Pop[j].c # Top.c
<1> DEFINE L == Len(stack)
           s == SubSeq(stack, 1, L - 1)
<1>1. stack \in Seq(Suspended)
  BY DEF StackOK
<1>2. L \in Nat /\ L >= 1 /\ DOMAIN stack = 1..L /\ \A k \in 1..L : stack[k] \in Suspended
  BY <1>1, EmptySeq, LenProperties, ElementOfSeq
<1>3. \A k \in 1..(L - 1) : stack[k] \in Suspended
  BY <1>2
<1>4. /\ s \in Seq(Suspended)
      /\ Len(s) = IF 1 <= L - 1 THEN L - 1 - 1 + 1 ELSE 0
      /\ \A k \in 1..(L - 1 - 1 + 1) : s[k] = stack[1 + k - 1]
  BY <1>2, <1>3, SubSeqProperties
<1>5. Len(s) = L - 1 /\ \A k \in 1..(L - 1) : s[k] = stack[k]
  BY <1>2, <1>4
<1>6. DOMAIN s = 1..(L - 1)
  BY <1>4, <1>5, LenProperties
<1>7. s = Pop /\ Top = stack[L] /\ L \in DOMAIN stack /\ DOMAIN s \subseteq DOMAIN stack
      /\ L \notin DOMAIN s
  BY <1>2, <1>6 DEF Pop, Top
<1> HIDE DEF s, L
<1>8. \A k \in DOMAIN s : s[k] = stack[k]
  BY <1>5, <1>6
<1>9. StackOK(s, obj)
  <2>1. \A j \in DOMAIN stack :
          /\ stack[j].k = "use" => obj[stack[j].c].t # "none"
                                   /\ (stack[j].c = stack[j].want => obj[stack[j].c].by = stack[j].a)
          /\ stack[j].k = "pc" => obj[stack[j].c].t = "closing"
    BY DEF StackOK
  <2>2. \A j \in DOMAIN s :
          /\ s[j].k = "use" => obj[s[j].c].t # "none" /\ (s[j].c = s[j].want => obj[s[j].c].by = s[j].a)
          /\ s[j].k = "pc" => obj[s[j].c].t = "closing"
    BY <1>7, <1>8, <2>1
  <2>3. \A j, l \in DOMAIN s : s[j].k = "pc" /\ s[l].k = "pc" /\ s[j].c = s[l].c => j = l
    BY <1>7, <1>8 DEF StackOK
  <2>4. QED BY <1>4, <2>2, <2>3 DEF StackOK
<1>10. Top \in Suspended
  BY <1>2, <1>7
<1>11. QED BY <1>7, <1>8, <1>9, <1>10 DEF StackOK

(* Something happens to one connection, which stays open.                  *)
LEMMA TouchStep ==
  ASSUME Inv, ~exited, NEW c \in Objs, obj[c].t = "conn", obj' \in [Objs -> Object],
         Same(obj, obj', c), obj'[c].t \in {"conn", "closing"}, obj'[c].fd = obj[c].fd,
         obj'[c].by = obj[c].by, obj'[c].pid = obj[c].pid,
         UNCHANGED <<recs, own, ents, told, exited>>,
         proc' = proc \/ (obj[c].pid # None /\ proc' = [proc EXCEPT ![c] = "zombie"]),
         StackOK(stack', obj')
  PROVE  Inv' /\ Spared
<1>1. ObjsOK(obj) /\ RecsOK(obj, recs) /\ RowsOK(obj, ents) /\ WorkersOK(obj, own, proc)
  BY DEF Inv
<1>2. \A j \in Objs : j # c => obj'[j] = obj[j]
  BY DEF Same
<1>3. \A j \in Objs : obj'[j].fd = obj[j].fd /\ obj'[j].by = obj[j].by /\ obj'[j].pid = obj[j].pid
  BY <1>2
<1>4. ObjsOK(obj')
  BY <1>1, <1>2, <1>3 DEF ObjsOK
<1>5. RecsOK(obj', recs)
  BY <1>1, <1>2 DEF RecsOK
<1>6. RowsOK(obj', ents)
  <2>1. ASSUME NEW b \in Aliases
        PROVE  /\ ents[b].fd = None => ents[b] = NoRow
               /\ ents[b].fd # None =>
                    \E j \in Objs : obj'[j].t = "reserved" /\ obj'[j].fd = ents[b].fd /\ obj'[j].by = b
               /\ ents[b].tok # None =>
                    ents[b].stamp \in Objs /\ obj'[ents[b].stamp].t # "none" /\ obj'[ents[b].stamp].by = b
    <3>1. \A j \in Objs : obj[j].t = "reserved" => obj'[j] = obj[j]
      BY <1>2
    <3>2. \A j \in Objs : obj[j].t # "none" => obj'[j].t # "none"
      BY <1>2
    <3>3. QED BY <1>1, <1>3, <3>1, <3>2 DEF RowsOK
  <2>2. \A j \in Objs :
          /\ obj'[j].t = "reserved" => obj'[j].by \in Aliases /\ ents[obj'[j].by].fd = obj'[j].fd
          /\ obj'[j].t = "conn" /\ obj'[j].by # None =>
               ents[obj'[j].by].tok = obj'[j].fd /\ ents[obj'[j].by].stamp = j
    BY <1>1, <1>2, <1>3 DEF RowsOK
  <2>3. ents \in [Aliases -> Row]
    BY <1>1 DEF RowsOK
  <2>4. QED BY <2>1, <2>2, <2>3 DEF RowsOK
<1>7. WorkersOK(obj', own, proc')
  <2>1. obj[c].pid # None => Unreaped(proc, c)
    BY <1>1 DEF WorkersOK
  <2>2. /\ proc' \in [Objs -> {"none", "running", "zombie", "reaped"}]
        /\ \A q \in Objs : Unreaped(proc', q) <=> Unreaped(proc, q)
    BY <1>1, <2>1 DEF WorkersOK, Unreaped
  <2>3. \A q \in Objs : Unreaped(proc', q) => [fd |-> obj'[q].fd, pid |-> q] \in own
    BY <1>1, <1>3, <2>2 DEF WorkersOK
  <2>4. \A e \in own : Unreaped(proc', e.pid) /\ obj'[e.pid].fd = e.fd /\ obj'[e.pid].pid = e.pid
    BY <1>1, <1>3, <2>2 DEF WorkersOK
  <2>5. \A j \in Objs : obj'[j].pid # None =>
          obj'[j].pid = j /\ Unreaped(proc', j) /\ obj'[j].t \in {"conn", "closing"}
    BY <1>1, <1>2, <1>3, <2>2 DEF WorkersOK
  <2>6. QED BY <1>1, <2>2, <2>3, <2>4, <2>5 DEF WorkersOK
<1>8. Keep(obj, obj')
  BY <1>2, <1>3 DEF Keep
<1>9. Spared
  BY <1>2 DEF Spared
<1>10. QED BY <1>4, <1>5, <1>6, <1>7, <1>8, <1>9, ObjStep

----------------------------------------------------------------------------
(* The other steps.                                                        *)

LEMMA HopenStep ==
  ASSUME Inv, HopenFile \/ HopenSocket \/ Accept
  PROVE  Inv' /\ Spared
<1>1. CASE HopenFile
  <2>1. /\ ~exited /\ CanMake(1) /\ obj' = Make(obj, NewObj, "file", LowestFd, None, None)
        /\ recs' = Register(recs, LowestFd, "file", NewObj)
        /\ UNCHANGED <<own, proc, ents, stack, told, exited>>
    BY <1>1 DEF HopenFile, Op, UserRuns
  <2>2. QED BY <2>1, OpenedStep
<1>2. CASE HopenSocket
  <2>1. /\ ~exited /\ CanMake(1) /\ obj' = Make(obj, NewObj, "conn", LowestFd, None, None)
        /\ recs' = Register(recs, LowestFd, "socket", NewObj)
        /\ UNCHANGED <<own, proc, ents, stack, told, exited>>
    BY <1>2 DEF HopenSocket, Op, UserRuns
  <2>2. QED BY <2>1, OpenedStep
<1>3. CASE Accept
  <2>1. /\ ~exited /\ CanMake(1) /\ obj' = Make(obj, NewObj, "conn", LowestFd, None, None)
        /\ recs' = recs /\ UNCHANGED <<own, proc, ents, stack, told, exited>>
    BY <1>3 DEF Accept
  <2> DEFINE kd == "socket"
  <2>2. QED BY <2>1, OpenedStep
<1>4. QED BY <1>1, <1>2, <1>3

(* A connection that has the stamp an alias wants is one the alias opened. *)
LEMMA AliasUseStep ==
  ASSUME Inv, NEW a \in Aliases, AliasUse(a)
  PROVE  Inv' /\ Spared
<1>1. ~exited /\ exited' = exited /\ StackOK(stack, obj) /\ ObjsOK(obj) /\ RowsOK(obj, ents)
  BY DEF AliasUse, Op, UserRuns, Inv
<1> DEFINE c == IF ents[a].tok = None THEN None ELSE ConnOn(ents[a].tok)
           f == [k |-> "use", a |-> a, c |-> c, want |-> ents[a].stamp]
<1>2. CASE c = None
  <2>1. Speak(a, TRUE) /\ stack' = stack
    BY <1>2 DEF AliasUse
  <2>2. QED BY <1>1, <2>1, SpeakStep
<1>3. CASE c # None
  <2>1. ents[a].tok # None /\ c = ConnOn(ents[a].tok)
    BY <1>3
  <2>2. c \in Objs /\ obj[c].t = "conn"
    BY <1>3, <2>1 DEF ConnOn
  <2>3. /\ stack' = Append(stack, f) /\ UNCHANGED <<obj, recs, own, proc, ents, told>>
    BY <1>3 DEF AliasUse
  <2> HIDE DEF c
  <2>4. ents[a].stamp \in Objs /\ obj[ents[a].stamp].by = a
    BY <1>1, <2>1 DEF RowsOK
  <2>5. f \in Suspended /\ f.k = "use" /\ f.a = a /\ f.c = c /\ f.want = ents[a].stamp
    BY <2>2, <2>4 DEF Suspended
  <2> HIDE DEF f
  <2>6. StackOK(Append(stack, f), obj)
    BY <1>1, <2>2, <2>4, <2>5, PushSuspended
  <2>7. Spared
    BY <2>3 DEF Spared
  <2>8. ToldOK'
    BY <2>3 DEF Inv, ToldOK
  <2>9. QED BY <1>1, <2>3, <2>6, <2>7, <2>8 DEF Inv
<1>4. QED BY <1>2, <1>3

(* What a step that touches connection c makes of the objects.             *)
LEMMA Touched ==
  ASSUME ObjsOK(obj), NEW c \in Objs, obj[c].t = "conn",
         \/ obj' = [obj EXCEPT ![c].msg = "read"]
         \/ obj' = [obj EXCEPT ![c].msg = "sent"]
         \/ obj' = [obj EXCEPT ![c].eof = TRUE]
         \/ obj' = [obj EXCEPT ![c].t = "closing"]
  PROVE  /\ obj' \in [Objs -> Object] /\ Same(obj, obj', c)
         /\ obj'[c].t \in {"conn", "closing"} /\ obj'[c].fd = obj[c].fd
         /\ obj'[c].by = obj[c].by /\ obj'[c].pid = obj[c].pid
         /\ Keep(obj, obj')
<1> DEFINE x1 == [obj[c] EXCEPT !.msg = "read"]
           x2 == [obj[c] EXCEPT !.msg = "sent"]
           x3 == [obj[c] EXCEPT !.eof = TRUE]
           x4 == [obj[c] EXCEPT !.t = "closing"]
           Fits(x) == /\ x \in Object /\ x.t \in {"conn", "closing"} /\ x.fd = obj[c].fd
                      /\ x.by = obj[c].by /\ x.pid = obj[c].pid
<1>1. obj \in [Objs -> Object] /\ obj[c] \in Object
  BY DEF ObjsOK
<1>2. Fits(x1) /\ Fits(x2) /\ Fits(x3) /\ Fits(x4)
  BY <1>1 DEF Object, Kinds
<1>3. \E x \in {x1, x2, x3, x4} : obj' = [obj EXCEPT ![c] = x]
  BY <1>1
<1>4. PICK x \in {x1, x2, x3, x4} : obj' = [obj EXCEPT ![c] = x]
  BY <1>3
<1>5. Fits(x)
  BY <1>2
<1> HIDE DEF x1, x2, x3, x4
<1>6. obj'[c] = x /\ Same(obj, obj', c) /\ obj' \in [Objs -> Object]
  BY <1>1, <1>4, <1>5 DEF Same
<1>7. QED BY <1>5, <1>6 DEF Same, Keep

(* A frame is read and its request begins.                                 *)
LEMMA DrainReadStep ==
  ASSUME Inv, DrainRead
  PROVE  Inv' /\ Spared
<1>1. /\ ~exited /\ stack # <<>> /\ Top.k = "use" /\ obj[Top.c].t = "conn"
      /\ obj' = [obj EXCEPT ![Top.c].msg = "read"] /\ stack' = Append(stack, [k |-> "req"])
      /\ UNCHANGED <<recs, own, proc, ents, told, exited>>
  BY DEF DrainRead, Draining
<1>2. ObjsOK(obj) /\ StackOK(stack, obj)
  BY DEF Inv
<1>3. Top.c \in Objs
  BY <1>1, <1>2, PopSuspended DEF Suspended
<1>4. /\ obj' \in [Objs -> Object] /\ Same(obj, obj', Top.c)
      /\ obj'[Top.c].t \in {"conn", "closing"} /\ obj'[Top.c].fd = obj[Top.c].fd
      /\ obj'[Top.c].by = obj[Top.c].by /\ obj'[Top.c].pid = obj[Top.c].pid
      /\ Keep(obj, obj')
  BY <1>1, <1>2, <1>3, Touched
<1>5. StackOK(stack, obj')
  BY <1>2, <1>4, StackKept
<1> DEFINE f == [k |-> "req"]
<1>6. f \in Suspended /\ f.k = "req"
  BY DEF Suspended
<1> HIDE DEF f
<1>7. StackOK(Append(stack, f), obj')
  BY <1>5, <1>6, PushSuspended
<1>8. QED BY <1>1, <1>3, <1>4, <1>7, TouchStep DEF f

(* The end of a stream is read, by a drain or by the loop: .z.pc begins.   *)
LEMMA EofStep ==
  ASSUME Inv, NEW c \in Objs, ~exited, obj[c].t = "conn",
         obj' = [obj EXCEPT ![c].t = "closing"], stack' = Append(stack, [k |-> "pc", c |-> c]),
         UNCHANGED <<recs, own, proc, ents, told, exited>>
  PROVE  Inv' /\ Spared
<1>1. ObjsOK(obj) /\ StackOK(stack, obj)
  BY DEF Inv
<1>2. /\ obj' \in [Objs -> Object] /\ Same(obj, obj', c)
      /\ obj'[c].t \in {"conn", "closing"} /\ obj'[c].fd = obj[c].fd
      /\ obj'[c].by = obj[c].by /\ obj'[c].pid = obj[c].pid
      /\ Keep(obj, obj')
  BY <1>1, Touched
<1>3. obj'[c].t = "closing"
  BY <1>1 DEF ObjsOK, Object
<1>4. StackOK(stack, obj')
  BY <1>1, <1>2, StackKept
<1> DEFINE f == [k |-> "pc", c |-> c]
<1>5. f \in Suspended /\ f.k = "pc" /\ f.c = c
  BY DEF Suspended
<1> HIDE DEF f
<1>6. \A j \in DOMAIN stack : stack[j].k = "pc" => stack[j].c # c
  BY <1>1 DEF StackOK
<1>7. StackOK(Append(stack, f), obj')
  <2>1. f.k = "use" => obj'[f.c].t # "none" /\ (f.c = f.want => obj'[f.c].by = f.a)
    BY <1>5
  <2>2. f.k = "pc" => obj'[f.c].t = "closing" /\ \A j \in DOMAIN stack : stack[j].k = "pc" => stack[j].c # f.c
    BY <1>3, <1>5, <1>6
  <2> DEFINE o == obj'
  <2>3. /\ StackOK(stack, o)
        /\ f.k = "use" => o[f.c].t # "none" /\ (f.c = f.want => o[f.c].by = f.a)
        /\ f.k = "pc" => o[f.c].t = "closing" /\ \A j \in DOMAIN stack : stack[j].k = "pc" => stack[j].c # f.c
    BY <1>4, <2>1, <2>2
  <2> HIDE DEF o
  <2>4. StackOK(Append(stack, f), o)
    BY <1>5, <2>3, PushSuspended
  <2>5. QED BY <2>4 DEF o
<1>8. QED BY <1>2, <1>7, TouchStep DEF f

LEMMA DrainEofStep ==
  ASSUME Inv, DrainEof
  PROVE  Inv' /\ Spared
<1>1. /\ ~exited /\ stack # <<>> /\ Top.k = "use" /\ obj[Top.c].t = "conn"
      /\ obj' = [obj EXCEPT ![Top.c].t = "closing"]
      /\ stack' = Append(stack, [k |-> "pc", c |-> Top.c])
      /\ UNCHANGED <<recs, own, proc, ents, told, exited>>
  BY DEF DrainEof, Draining
<1>2. Top.c \in Objs
  BY <1>1, PopSuspended DEF Suspended, Inv
<1>3. QED BY <1>1, <1>2, EofStep

LEMMA ReadEofStep ==
  ASSUME Inv, NEW c \in Objs, ReadEof(c)
  PROVE  Inv' /\ Spared
<1>1. /\ ~exited /\ stack = <<>> /\ obj[c].t = "conn" /\ obj' = [obj EXCEPT ![c].t = "closing"]
      /\ stack' = <<[k |-> "pc", c |-> c]>> /\ UNCHANGED <<recs, own, proc, ents, told, exited>>
  BY DEF ReadEof
<1>2. stack' = Append(stack, [k |-> "pc", c |-> c])
  BY <1>1
<1>3. QED BY <1>1, <1>2, EofStep

(* The drain is over: the alias speaks, over the connection it drained if  *)
(* that is still open.                                                     *)
LEMMA AliasResumeStep ==
  ASSUME Inv, AliasResume
  PROVE  Inv' /\ Spared
<1>1. /\ ~exited /\ stack # <<>> /\ Top.k = "use" /\ Speak(Top.a, ~StampAgrees(Top))
      /\ stack' = Pop /\ exited' = exited
  BY DEF AliasResume, Draining
<1>2. StackOK(Pop, obj) /\ Top \in Suspended /\ (Top.c = Top.want => obj[Top.c].by = Top.a)
  BY <1>1, PopSuspended DEF Inv
<1>3. Top.a \in Aliases /\ Top.c \in Objs
  BY <1>1, <1>2 DEF Suspended
<1> DEFINE dead == ~StampAgrees(Top)
<1>4. Speak(Top.a, dead) /\ (~dead => \E c \in Objs : obj[c].t = "conn" /\ obj[c].by = Top.a)
  BY <1>1, <1>2, <1>3 DEF StampAgrees
<1> HIDE DEF dead
<1>5. QED BY <1>1, <1>2, <1>3, <1>4, SpeakStep

LEMMA RequestReturnsStep ==
  ASSUME Inv, RequestReturns
  PROVE  Inv' /\ Spared
<1>1. /\ stack # <<>> /\ stack' = Pop
      /\ UNCHANGED <<obj, recs, own, proc, ents, told, ops, exited>>
  BY DEF RequestReturns
<1>2. StackOK(stack', obj')
  BY <1>1, PopSuspended DEF Inv
<1>3. Spared /\ ToldOK'
  BY <1>1 DEF Spared, Inv, ToldOK
<1>4. QED BY <1>1, <1>2, <1>3 DEF Inv

(* .z.pc returns and its connection is closed for good.                    *)
LEMMA CloseReturnsStep ==
  ASSUME Inv, CloseReturns
  PROVE  Inv' /\ Spared
<1>1. /\ ~exited /\ stack # <<>> /\ Top.k = "pc" /\ Becomes(Closed(State, Top.c))
      /\ stack' = Pop /\ told' = told /\ exited' = exited
  BY DEF CloseReturns
<1>2. ObjsOK(obj) /\ StackOK(stack, obj) /\ State.obj = obj /\ Good(State)
  BY <1>1, StateGood, StatePieces DEF Inv
<1> DEFINE c == Top.c
           s == Closed(State, c)
<1>3. /\ StackOK(Pop, obj) /\ Top \in Suspended /\ obj[c].t = "closing"
      /\ \A j \in DOMAIN Pop : Pop[j].k = "pc" => Pop[j].c # c
  BY <1>1, <1>2, PopSuspended
<1>4. c \in Objs
  BY <1>1, <1>3 DEF Suspended
<1> HIDE DEF c
<1>5. Good(s) /\ s.obj = Gone(obj, c)
  BY <1>2, <1>3, <1>4, ClosedGood
<1>6. /\ obj' = s.obj /\ recs' = s.recs /\ own' = s.own /\ proc' = s.proc /\ ents' = s.ents
  BY <1>1 DEF Becomes, c
<1> HIDE DEF s
<1>7. Same(obj, obj', c) /\ obj'[c].t = "gone" /\ obj'[c].by = obj[c].by
  BY <1>2, <1>4, <1>5, <1>6, GoneFields DEF ObjsOK
<1>8. \A i \in Objs : /\ obj[i].t # "none" => obj'[i].t # "none" /\ obj'[i].by = obj[i].by
                      /\ i # c => obj'[i] = obj[i]
  BY <1>7 DEF Same
<1>9. StackOK(stack', obj')
  <2>1. Pop \in Seq(Suspended)
    BY <1>3 DEF StackOK
  <2>2. \A j \in DOMAIN Pop : Pop[j] \in Suspended
    BY <2>1, LenProperties, ElementOfSeq
  <2>3. \A j \in DOMAIN Pop : Pop[j].k \in {"use", "pc"} => Pop[j].c \in Objs
    BY <2>2 DEF Suspended
  <2>4. StackOK(Pop, obj')
    BY <1>3, <1>8, <2>3 DEF StackOK
  <2>5. QED BY <1>1, <2>4
<1>10. ToldOK'
  BY <1>1, <1>8 DEF Inv, ToldOK
<1>11. Spared
  BY <1>3, <1>8 DEF Spared
<1>12. QED BY <1>1, <1>5, <1>6, <1>9, <1>10, <1>11 DEF Inv, Good

LEMMA PeerStep ==
  ASSUME Inv, NEW c \in Objs, PeerSends(c) \/ PeerCloses(c)
  PROVE  Inv' /\ Spared
<1>1. /\ ~exited /\ obj[c].t = "conn" /\ UNCHANGED <<recs, own, ents, stack, told, exited>>
      /\ obj' = [obj EXCEPT ![c].msg = "sent"] \/ obj' = [obj EXCEPT ![c].eof = TRUE]
  BY DEF PeerSends, PeerCloses
<1>2. ObjsOK(obj) /\ StackOK(stack, obj) /\ WorkersOK(obj, own, proc)
  BY <1>1 DEF Inv
<1>3. /\ obj' \in [Objs -> Object] /\ Same(obj, obj', c)
      /\ obj'[c].t \in {"conn", "closing"} /\ obj'[c].fd = obj[c].fd
      /\ obj'[c].by = obj[c].by /\ obj'[c].pid = obj[c].pid
      /\ Keep(obj, obj')
  BY <1>1, <1>2, Touched
<1>4. StackOK(stack', obj')
  BY <1>1, <1>2, <1>3, StackKept
<1>5. obj[c].pid # None => obj[c].pid = c
  BY <1>2 DEF WorkersOK
<1>6. proc' = proc \/ (obj[c].pid # None /\ proc' = [proc EXCEPT ![c] = "zombie"])
  BY <1>5 DEF PeerSends, PeerCloses
<1>7. QED BY <1>1, <1>3, <1>4, <1>6, TouchStep

(* exit ends every worker that is owned, which is every one there is.      *)
LEMMA ExitStep ==
  ASSUME Inv, Exit
  PROVE  Inv' /\ Spared
<1>1. /\ ~exited /\ exited' = TRUE /\ proc' = Reap(proc, own) /\ own' = {}
      /\ UNCHANGED <<obj, recs, ents, stack, told>>
  BY DEF Exit, UserRuns
<1>2. WorkersOK(obj, own, proc)
  BY <1>1 DEF Inv
<1>3. proc \in [Objs -> {"none", "running", "zombie", "reaped"}]
  BY <1>2 DEF WorkersOK
<1>4. ASSUME NEW q \in Objs, ~(\E p \in own : p.pid = q)
      PROVE  proc[q] \in {"none", "reaped"}
  <2>1. [fd |-> obj[q].fd, pid |-> q] \notin own
    BY <1>4
  <2>2. ~Unreaped(proc, q)
    BY <1>2, <2>1 DEF WorkersOK
  <2>3. QED BY <1>3, <2>2 DEF Unreaped
<1>5. proc' \in [Objs -> {"none", "reaped"}]
  BY <1>1, <1>3, <1>4 DEF Reap
<1>6. Spared /\ ToldOK'
  BY <1>1 DEF Spared, Inv, ToldOK
<1>7. QED BY <1>1, <1>5, <1>6 DEF Inv

----------------------------------------------------------------------------
(* The invariant of every behaviour.                                       *)

LEMMA InitInv == Init => Inv
<1> SUFFICES ASSUME Init PROVE Inv
  OBVIOUS
<1>1. obj = [i \in Objs |-> Nothing] /\ recs = [fd \in Fds |-> NoRec] /\ own = {}
      /\ proc = [i \in Objs |-> "none"] /\ ents = [a \in Aliases |-> NoRow] /\ stack = <<>>
      /\ told = [a |-> None, to |-> None] /\ exited = FALSE
  BY DEF Init
<1>2. /\ Nothing \in Object /\ Nothing.t = "none" /\ Nothing.fd = None /\ Nothing.by = None
      /\ Nothing.pid = None
  BY DEF Nothing, Object, Kinds
<1>3. NoRec \in Record /\ NoRec.kind = "none"
  BY DEF NoRec, Record
<1>4. NoRow \in Row /\ NoRow.fd = None /\ NoRow.tok = None
  BY DEF NoRow, Row
<1>5. ObjsOK(obj)
  BY <1>1, <1>2 DEF ObjsOK
<1>6. RecsOK(obj, recs)
  BY <1>1, <1>2, <1>3 DEF RecsOK
<1>7. RowsOK(obj, ents)
  BY <1>1, <1>2, <1>4 DEF RowsOK
<1>8. WorkersOK(obj, own, proc)
  BY <1>1, <1>2 DEF WorkersOK, Unreaped
<1>9. StackOK(stack, obj)
  <2>1. stack \in Seq(Suspended) /\ DOMAIN stack = {}
    BY <1>1
  <2>2. QED BY <2>1 DEF StackOK
<1>10. ToldOK
  BY <1>1 DEF ToldOK
<1>11. QED BY <1>1, <1>5, <1>6, <1>7, <1>8, <1>9, <1>10 DEF Inv

LEMMA StepInv == Inv /\ [Next]_vars => Inv' /\ (Spared \/ UNCHANGED vars)
<1> SUFFICES ASSUME Inv, [Next]_vars PROVE Inv' /\ (Spared \/ UNCHANGED vars)
  OBVIOUS
<1>1. CASE UNCHANGED vars
  <2>1. UNCHANGED <<obj, recs, own, proc, ents, stack, told, exited>>
    BY <1>1 DEF vars
  <2>2. ToldOK'
    BY <2>1 DEF Inv, ToldOK
  <2>3. QED BY <1>1, <2>1, <2>2 DEF Inv
<1>2. CASE UserCode
  <2>1. CASE HopenFile \/ HopenSocket
    BY <2>1, HopenStep
  <2>2. CASE \E fd \in Fds : Hclose(fd)
    BY <2>2, HcloseStep
  <2>3. ASSUME NEW a \in Aliases, AliasOpen(a) \/ AliasRepoint(a) \/ AliasClose(a) \/ AliasUse(a)
        PROVE  Inv' /\ Spared
    BY <2>3, AliasOpenStep, AliasRepointStep, AliasCloseStep, AliasUseStep
  <2>4. QED BY <1>2, <2>1, <2>2, <2>3 DEF UserCode
<1>3. CASE Loop
  <2>1. ASSUME NEW c \in Objs, ReadEof(c)
        PROVE  Inv' /\ Spared
    BY <2>1, ReadEofStep
  <2>2. QED BY <1>3, <2>1, DrainReadStep, DrainEofStep, AliasResumeStep, RequestReturnsStep,
               CloseReturnsStep, HopenStep DEF Loop
<1>4. CASE World
  <2>1. ASSUME NEW c \in Objs, PeerSends(c) \/ PeerCloses(c)
        PROVE  Inv' /\ Spared
    BY <2>1, PeerStep
  <2>2. QED BY <1>4, <2>1, ExitStep DEF World
<1>5. QED BY <1>1, <1>2, <1>3, <1>4 DEF Next

(* The invariant the theorems rest on holds in every reachable state.      *)
THEOREM InvCorrect == Spec => []Inv
<1>1. Init => Inv
  BY InitInv
<1>2. Inv /\ [Next]_vars => Inv'
  BY StepInv
<1>3. QED BY <1>1, <1>2, PTL DEF Spec

LEMMA InvRecords == Inv => RecordsExact
<1> SUFFICES ASSUME Inv PROVE RecordsExact
  OBVIOUS
<1>1. ObjsOK(obj) /\ RecsOK(obj, recs) /\ RowsOK(obj, ents)
  BY DEF Inv
<1>2. None \notin Fds /\ None \notin Aliases /\ None \notin Objs
  BY HandlesAssumption DEF None, Aliases, Objs
<1>3. ASSUME NEW fd \in Fds
      PROVE  Cardinality(Holder(fd)) <= 1
  <2>1. \A i, j \in Holder(fd) : i = j
    BY <1>1, HolderIs
  <2>2. CASE Holder(fd) = {}
    BY <2>2, FS_EmptySet
  <2>3. CASE Holder(fd) # {}
    <3>1. PICK i : i \in Holder(fd)
      BY <2>3
    <3>2. Holder(fd) = {i}
      BY <2>1, <3>1
    <3>3. Cardinality({i}) = 1
      BY FS_Singleton
    <3>4. QED BY <3>2, <3>3
  <2>4. QED BY <2>2, <2>3
<1>4. TypeOK
  <2>1. \A i \in Objs : /\ obj[i].t \in {"none", "file", "reserved", "conn", "closing", "gone"}
                        /\ obj[i].fd \in Fds \cup {None} /\ obj[i].by \in Aliases \cup {None}
    BY <1>1 DEF ObjsOK, Object, Kinds
  <2>2. \A i \in Objs : proc[i] \in {"none", "running", "zombie", "reaped"}
    BY DEF Inv, WorkersOK
  <2>3. \A fd \in Fds : recs[fd].kind \in {"none", "file", "socket", "provider"}
    BY <1>1 DEF RecsOK, Record
  <2>4. \A a \in Aliases : ents[a].fd \in Fds \cup {None} /\ ents[a].tok \in Fds \cup {None}
    BY <1>1 DEF RowsOK, Row
  <2>5. own \subseteq [fd : Fds, pid : Objs]
    BY DEF Inv, WorkersOK
  <2>6. QED BY <1>3, <2>1, <2>2, <2>3, <2>4, <2>5 DEF TypeOK
<1>5. KindExact
  <2>1. ASSUME NEW fd \in Fds
        PROVE  /\ recs[fd].kind \in {"file", "provider"} => Holder(fd) = {recs[fd].id}
               /\ recs[fd].kind \in {"none", "socket"} =>
                    \A i \in Holder(fd) : obj[i].t \in {"conn", "closing"}
    <3>1. /\ Holder(fd) = {i \in Objs : obj[i].fd = fd}
          /\ \A i, j \in Holder(fd) : i = j
      BY <1>1, HolderIs
    <3>2. recs[fd].kind \in {"file", "provider"} => recs[fd].id \in Objs /\ obj[recs[fd].id].fd = fd
      BY <1>1 DEF RecsOK
    <3>3. recs[fd].kind \in {"file", "provider"} => Holder(fd) = {recs[fd].id}
      BY <3>1, <3>2
    <3>4. ASSUME NEW i \in Holder(fd), recs[fd].kind \in {"none", "socket"}
          PROVE  obj[i].t \in {"conn", "closing"}
      <4>1. i \in Objs /\ obj[i].fd = fd /\ obj[i].t \in Kinds \ {"none", "gone"}
        BY <1>1, <1>2, <3>1 DEF ObjsOK, Object
      <4>2. /\ obj[i].t = "file" => recs[fd] = [kind |-> "file", id |-> i]
            /\ obj[i].t = "reserved" => recs[fd] = [kind |-> "provider", id |-> i]
        BY <1>1, <4>1 DEF RecsOK
      <4>3. obj[i].t \notin {"file", "reserved"}
        BY <3>4, <4>2
      <4>4. QED BY <4>1, <4>3 DEF Kinds
    <3>5. QED BY <3>3, <3>4
  <2>2. QED BY <2>1 DEF KindExact
<1>6. NoLeak
  <2>1. \A i \in Objs : obj[i].t = "file" => recs[obj[i].fd] = [kind |-> "file", id |-> i]
    BY <1>1 DEF RecsOK
  <2>2. ASSUME NEW i \in Objs, obj[i].t = "reserved"
        PROVE  \E a \in Aliases : Exists(a) /\ ents[a].fd = obj[i].fd
    <3>1. obj[i].by \in Aliases /\ ents[obj[i].by].fd = obj[i].fd /\ obj[i].fd # None
      BY <1>1, <2>2 DEF RowsOK, ObjsOK
    <3>2. QED BY <3>1, RowThere
  <2>3. QED BY <2>1, <2>2 DEF NoLeak
<1>7. QED BY <1>4, <1>5, <1>6 DEF RecordsExact

LEMMA InvWorkers == Inv => WorkersExact
<1> SUFFICES ASSUME Inv PROVE WorkersExact
  OBVIOUS
<1>1. NoneSurvives
  BY DEF Inv, NoneSurvives
<1>2. ASSUME ~exited, NEW p \in Objs
      PROVE  proc[p] \in {"running", "zombie"} <=>
               \E e \in own : /\ e.pid = p
                              /\ \E i \in Holder(e.fd) : obj[i].pid = p
                              /\ \A d \in own : (d.pid = p \/ d.fd = e.fd) => d = e
  <2>1. WorkersOK(obj, own, proc) /\ ObjsOK(obj) /\ own \subseteq [fd : Fds, pid : Objs]
    BY <1>2 DEF Inv, WorkersOK
  <2>2. None \notin Fds /\ None \notin Objs
    BY HandlesAssumption DEF None, Objs
  <2>3. ASSUME Unreaped(proc, p)
        PROVE  \E e \in own : /\ e.pid = p
                              /\ \E i \in Holder(e.fd) : obj[i].pid = p
                              /\ \A d \in own : (d.pid = p \/ d.fd = e.fd) => d = e
    <3> DEFINE e == [fd |-> obj[p].fd, pid |-> p]
    <3>1. e \in own /\ e.pid = p /\ e.fd = obj[p].fd
      BY <2>1, <2>3 DEF WorkersOK
    <3>2. e.fd \in Fds /\ obj[p].pid = p
      BY <2>1, <3>1 DEF WorkersOK
    <3> HIDE DEF e
    <3>3. p \in Holder(e.fd)
      BY <2>1, <3>1, <3>2, HolderIs
    <3>4. ASSUME NEW d \in own, d.pid = p \/ d.fd = e.fd
          PROVE  d = e
      <4>1. d \in [fd : Fds, pid : Objs] /\ obj[d.pid].fd = d.fd /\ e \in [fd : Fds, pid : Objs]
        BY <2>1, <3>1 DEF WorkersOK
      <4>2. d.pid = p
        BY <2>1, <2>2, <3>1, <3>4, <4>1 DEF ObjsOK
      <4>3. d.fd = e.fd /\ d.pid = e.pid
        BY <3>1, <4>1, <4>2
      <4>4. d = [fd |-> d.fd, pid |-> d.pid] /\ e = [fd |-> e.fd, pid |-> e.pid]
        BY <4>1
      <4>5. QED BY <4>3, <4>4
    <3>5. QED BY <3>1, <3>2, <3>3, <3>4
  <2>4. ASSUME NEW e \in own, e.pid = p
        PROVE  Unreaped(proc, p)
    BY <2>1, <2>4 DEF WorkersOK
  <2>5. QED BY <2>3, <2>4 DEF Unreaped
<1>3. WorkerOwned
  BY <1>2 DEF WorkerOwned
<1>4. QED BY <1>1, <1>3 DEF WorkersExact

(* The registry and what the numbers name agree: the record of a file or   *)
(* an alias is that of the very object on its descriptor, only a socket's  *)
(* record can be stale, and no descriptor is leaked, whatever was opened,  *)
(* closed, re-pointed or lost in which order (q_handles.c, q_provider.c).  *)
THEOREM RecordsCorrect == Spec => []RecordsExact
  BY InvCorrect, InvRecords, PTL

(* Every worker that is not reaped is owned by the descriptor of its own   *)
(* link and no other, and none survives exit (q_handles_own,               *)
(* q_handles_owned_closed, q_handles_end_owned).                           *)
THEOREM WorkersCorrect == Spec => []WorkersExact
  BY InvCorrect, InvWorkers, PTL

(* What an alias sends goes to a connection it opened itself, although its *)
(* number may be another's by the time it is used (ent_live, prov_dispatch).*)
THEOREM OwnPeerCorrect == Spec => []OwnPeer
<1>1. Inv => OwnPeer
  BY DEF Inv, ToldOK, OwnPeer
<1>2. QED BY <1>1, InvCorrect, PTL

(* No step but hclose of its own number closes a connection that no alias  *)
(* opened and whose peer has not hung up (ent_drop_token's test of the     *)
(* stamp, q_handles_close).                                                *)
THEOREM NoForeignCloseCorrect == Spec => NoForeignClose
<1>1. Inv /\ [Next]_vars => [Spared]_vars
  BY StepInv
<1>2. [Spared]_vars => [\A i \in Objs :
        obj[i].t = "conn" /\ obj[i].by = None /\ ~obj[i].eof /\ obj'[i].t = "gone"
            => Hclose(obj[i].fd)]_vars
  BY DEF Spared
<1>3. QED BY <1>1, <1>2, InvCorrect, PTL DEF Spec, NoForeignClose
=============================================================================
