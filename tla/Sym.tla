-------------------------------- MODULE Sym --------------------------------
(***************************************************************************)
(* The symbol table of table/sym.c and the arena of mem/arena.c its        *)
(* strings live in.                                                        *)
(*                                                                         *)
(* A lock is held through every call, so a call is one step; what makes    *)
(* it hard is memory.  Interning a dotted name interns its segments, the   *)
(* name and the list of its segments' ids, and each of these may need room *)
(* in the hash table, in the arrays and in the arena: the call first       *)
(* inspects, then reserves, then commits.  Any of the allocations may fail.*)
(*                                                                         *)
(* A name is the sequence of the texts between its dots: <<"a", "b">> is   *)
(* a.b, <<"", "a">> is .a, <<"">> is the empty symbol.  Arena blocks are   *)
(* counted in units of 32 bytes.                                           *)
(***************************************************************************)
EXTENDS Integers, Sequences, SequencesExt, FiniteSetsExt

CONSTANTS
  SymNames,     \* the names user code interns
  SymHash,      \* hash of each name and segment
  SymLong,      \* the names of seven bytes and more
  SymInitCap,   \* SYM_INIT_CAP
  SymMaxCap,    \* the largest number of buckets
  SymChunk,     \* units of an arena chunk
  SymNeeds      \* the capacities ray_sym_ensure_cap is asked for

ASSUME SymAssumption ==
  /\ {SymInitCap, SymMaxCap, SymChunk} \subseteq Nat \ {0} /\ SymNeeds \subseteq Nat
  /\ SymNames \subseteq DOMAIN SymHash /\ SymLong \subseteq DOMAIN SymHash

VARIABLES
  sym,     \* g_sym
  asked    \* the names for which an intern has returned an id

symvars == <<sym, asked>>

Empty == -1       \* an empty bucket, and the id of a name that is not there
Kinds == {"buckets", "strings", "arena"}     \* what can fail to be allocated
\* A call that reserved may still meet failures, if it has to allocate again.
Later(oom) == IF "later" \in oom THEN Kinds ELSE {}
EmptyName == <<"">>

----------------------------------------------------------------------------
(* The arena: capacity and use of its current chunk.                       *)

\* Fault: the header behind the text of a long name is forgotten.
ray_sym_bytes_upperShort(name) == IF name \in SymLong THEN 2 ELSE 1
\* What the reservation counts for a name.
ray_sym_bytes_upper(name) == IF name \in SymLong THEN 3 ELSE 1
\* What ray_arena_str takes: a header with the text in it; or, for a long
\* name, a header, the text, and a header that points to it.
StrUnits(name) == IF name \in SymLong THEN 3 ELSE 1
SegsUnits(n) == (32 + 8 * n + 31) \div 32

NewChunk(units) == [cap |-> IF units > SymChunk THEN units ELSE SymChunk, used |-> 0]

ray_arena_reserve(t, units, oom) ==
  IF t.arena.cap - t.arena.used >= units THEN [ok |-> TRUE, t |-> t]
  ELSE IF "arena" \in oom THEN [ok |-> FALSE, t |-> t]
  ELSE [ok |-> TRUE, t |-> [t EXCEPT !.arena = NewChunk(units)]]

ray_arena_alloc(t, units, oom) ==
  LET r == ray_arena_reserve(t, units, oom)
  IN  IF r.ok THEN [r EXCEPT !.t.arena.used = @ + units] ELSE r

----------------------------------------------------------------------------
(* The hash table: open addressing, bucket -> id.                          *)

\* The first bucket from the hash on that holds one of the entries es.
First(b, cap, h, es) ==
  (h + Min({d \in 0..(cap - 1) : b[(h + d) % cap] \in es})) % cap

ht_insert(b, cap, h, id) == [b EXCEPT ![First(b, cap, h, {Empty})] = id]

NameOf(t, id) == t.strings[id + 1]

\* The ids of old in their places among cap buckets.
Rehash(t, old, cap) ==
  FoldLeft(LAMBDA b, i : IF old[i - 1] = Empty THEN b
                         ELSE ht_insert(b, cap, SymHash[NameOf(t, old[i - 1])], old[i - 1]),
           [i \in 0..(cap - 1) |-> Empty], [i \in 1..t.cap |-> i])

ht_grow_to(t, cap) == [t EXCEPT !.cap = cap, !.buckets = Rehash(t, @, cap)]

\* Would run for ever in a table without an empty bucket.
sym_probe(t, name) ==
  t.buckets[First(t.buckets, t.cap, SymHash[name],
                  {Empty} \cup {id \in 0..(Len(t.strings) - 1) : NameOf(t, id) = name})]

\* The load factor of 70 %.
Loaded(count, cap) == count * 100 >= cap * 70

----------------------------------------------------------------------------
(* Dotted names                                                            *)

\* The segments, or none for a plain name: a dot at the end, or only one at
\* the start, makes no path.  A dot at the start belongs to the first segment.
Split(name) ==
  LET lead == name[1] = ""
      rest == SubSeq(name, IF lead THEN 3 ELSE 2, Len(name))
      head == IF lead THEN <<"", name[2]>> ELSE <<name[1]>>
  IN  IF rest = <<>> \/ name[Len(name)] = "" THEN <<>>
      ELSE <<head>> \o [i \in DOMAIN rest |-> <<rest[i]>>]

\* The segments that are looked up: the first empty one ends the inspection,
Inspected(name) ==
  LET s == Split(name)
  IN  SubSeq(s, 1, Min({i \in DOMAIN s : s[i] = EmptyName} \cup {Len(s) + 1}) - 1)
\* and makes the name a plain one.
Segments(name) == IF EmptyName \in ToSet(Split(name)) THEN <<>> ELSE Split(name)

----------------------------------------------------------------------------
(* Inserting a new symbol                                                  *)

Insert1(t, name) ==
  [t EXCEPT !.strings = Append(@, name),
            !.buckets = ht_insert(@, t.cap, SymHash[name], Len(t.strings))]

\* With room in the hash table, or less than 95 % of it used.
CommitIn(t, name, oom) ==
  LET n == Len(t.strings)
      t1 == [t EXCEPT !.str_cap = IF n >= @ THEN 2 * @ ELSE @]
      r == ray_arena_alloc(t1, StrUnits(name), oom)
  IN  IF n >= t.str_cap /\ "strings" \in oom THEN [id |-> Empty, t |-> t]
      ELSE IF r.ok THEN [id |-> n, t |-> Insert1(r.t, name)]
      ELSE [id |-> Empty, t |-> t1]

sym_commit_new(t, name, oom) ==
  LET n == Len(t.strings)
      grows == "buckets" \notin oom /\ t.cap < SymMaxCap
  IN  IF ~Loaded(n, t.cap) THEN CommitIn(t, name, oom)
      ELSE IF grows THEN CommitIn(ht_grow_to(t, 2 * t.cap), name, oom)
      ELSE IF n * 100 >= t.cap * 95 THEN [id |-> Empty, t |-> t]
      ELSE CommitIn(t, name, oom)

\* Room for n symbols and units of arena, or FALSE; what has grown stays so.
ReserveStrings(t, count, units, oom) ==
  LET caps == {c \in {t.str_cap * 2^k : k \in 0..count} : c >= count}
  IN  IF count > t.str_cap /\ "strings" \in oom THEN [ok |-> FALSE, t |-> t]
      ELSE ray_arena_reserve([t EXCEPT !.str_cap = Min(caps)], units, oom)

ReserveBuckets(t, count, targets, units, oom) ==
  IF targets = {} THEN [ok |-> FALSE, t |-> t]
  ELSE IF Min(targets) = t.cap THEN ReserveStrings(t, count, units, oom)
  ELSE IF "buckets" \in oom THEN [ok |-> FALSE, t |-> t]
  ELSE ReserveStrings(ht_grow_to(t, Min(targets)), count, units, oom)

sym_reserve_capacity(t, n, units, oom) ==
  LET count == Len(t.strings) + n
  IN  ReserveBuckets(t, count,
        {c \in {t.cap * 2^k : k \in 0..count} : ~Loaded(count, c) /\ c <= SymMaxCap},
        units, oom)

----------------------------------------------------------------------------
(* sym_intern_nolock                                                       *)

Scan(t, id) == [t EXCEPT !.scanned = @ \cup {id}]

\* The segments that were not there when the call inspected them are new.
CommitSegments(t, segs, ids, oom) ==
  FoldLeft(LAMBDA s, i :
      IF ~s.ok \/ ids[i] # Empty THEN s
      ELSE LET r == sym_commit_new(s.t, segs[i], oom)
           IN  IF r.id = Empty THEN [s EXCEPT !.ok = FALSE, !.t = r.t]
               ELSE [s EXCEPT !.t = Scan(r.t, r.id), !.ids[i] = r.id],
    [ok |-> TRUE, t |-> t, ids |-> ids], [i \in DOMAIN segs |-> i])

\* The list of a path's segments; without memory for it the symbol stays
\* unscanned, to be tried again.
Attach(t, id, ids, oom) ==
  LET a == ray_arena_alloc(t, SegsUnits(Len(ids)), oom)
  IN  IF ids = <<>> THEN Scan(t, id)
      ELSE IF ~a.ok THEN t
      ELSE Scan([a.t EXCEPT !.segs =
                   [k \in DOMAIN @ \cup {id} |-> IF k = id THEN ids ELSE @[k]]], id)

Commit(s, name, oom) ==
  LET finish(r) == IF r.id = Empty THEN r ELSE [r EXCEPT !.t = Attach(@, r.id, s.ids, oom)]
  IN  IF s.ok THEN finish(sym_commit_new(s.t, name, oom)) ELSE [id |-> Empty, t |-> s.t]

Probes(t, segs) == [i \in DOMAIN segs |-> sym_probe(t, segs[i])]
Missing(ids) == {i \in DOMAIN ids : ids[i] = Empty}
SegmentUnits(segs, ids) ==
  MapThenSumSet(LAMBDA i : ray_sym_bytes_upper(segs[i]), Missing(ids))
  + (IF segs = <<>> THEN 0 ELSE SegsUnits(Len(segs)))

\* A name that is there, and whose list an earlier call could not make.
CacheFrom(t, id, segs, ids, oom) ==
  LET finish(s) == IF s.ok THEN Attach(s.t, id, s.ids, Later(oom)) ELSE s.t
      commit(r) == IF r.ok THEN finish(CommitSegments(r.t, segs, ids, Later(oom))) ELSE r.t
  IN  commit(sym_reserve_capacity(t, Cardinality(Missing(ids)), SegmentUnits(segs, ids), oom))

sym_cache_segments(t, id, segs, oom) ==
  IF id \in t.scanned THEN t
  ELSE IF segs = <<>> THEN Scan(t, id)
  ELSE CacheFrom(t, id, segs, Probes(t, segs), oom)

\* Segments inspected in vain still count as symbols to come, not their text.
InternNew(t, name, segs, ids, oom) ==
  LET commit(r) ==
        IF r.ok THEN Commit(CommitSegments(r.t, segs, ids, Later(oom)), name, Later(oom))
        ELSE [id |-> Empty, t |-> r.t]
      new == Cardinality(Missing(Probes(t, Inspected(name))))
  IN  commit(sym_reserve_capacity(t, 1 + new,
                                  ray_sym_bytes_upper(name) + SegmentUnits(segs, ids), oom))

sym_intern_nolock(t, name, oom) ==
  LET id == sym_probe(t, name)
      segs == Segments(name)
  IN  IF id # Empty THEN [id |-> id, t |-> sym_cache_segments(t, id, segs, oom)]
      ELSE InternNew(t, name, segs, Probes(t, segs), oom)

----------------------------------------------------------------------------
(* Actions.  No table is the empty sequence.                               *)

NoSym == <<>>
NewTable ==
  [buckets |-> [i \in 0..(SymInitCap - 1) |-> Empty], cap |-> SymInitCap, strings |-> <<>>,
   str_cap |-> SymInitCap, scanned |-> {}, segs |-> <<>>, arena |-> NewChunk(0)]

\* Every failure on the way frees what there is.  The empty symbol is id 0.
ray_sym_init ==
  /\ sym = NoSym
  /\ sym' = sym_intern_nolock(NewTable, EmptyName, {}).t
  /\ asked' = {EmptyName}

ray_sym_destroy ==
  /\ sym # NoSym
  /\ sym' = NoSym /\ asked' = {}

ray_sym_intern(name, oom) ==
  /\ sym # NoSym
  /\ LET r == sym_intern_nolock(sym, name, oom)
     IN  /\ sym' = r.t
         /\ asked' = IF r.id = Empty THEN asked ELSE asked \cup {name}

Pow2AtLeast(n) == Min({c \in {2^k : k \in 0..n} : c >= n})

\* The power of two above the largest capacity is 0 in 32 bits.
ray_sym_ensure_cap(needed, oom) ==
  LET strings == needed > sym.str_cap
      t1 == IF strings THEN [sym EXCEPT !.str_cap = Max({2 * @, Pow2AtLeast(needed)})] ELSE sym
      buckets == Pow2AtLeast((needed * 10) \div 7 + 1)
  IN  /\ sym # NoSym
      /\ sym' = IF strings /\ "strings" \in oom THEN sym
                ELSE IF buckets \in (sym.cap + 1)..SymMaxCap /\ "buckets" \notin oom
                  THEN ht_grow_to(t1, buckets)
                ELSE t1
      /\ UNCHANGED asked

SymInit == sym = NoSym /\ asked = {}

SymNext ==
  \/ ray_sym_init \/ ray_sym_destroy
  \/ \E name \in SymNames, oom \in SUBSET (Kinds \cup {"later"}) : ray_sym_intern(name, oom)
  \/ \E needed \in SymNeeds, oom \in SUBSET Kinds : ray_sym_ensure_cap(needed, oom)

----------------------------------------------------------------------------
Ids == 0..(Len(sym.strings) - 1)

(* Every name has one id, which a probe finds through every growth, but for a *)
(* name that is twice a segment of a path that was interned: its segments are *)
(* all looked up before the first is committed.  The probe ends: some bucket  *)
(* is always empty.                                                           *)
TwiceInPath(name) ==
  \E path \in asked : \E k, l \in DOMAIN Segments(path) :
    k # l /\ Segments(path)[k] = name /\ Segments(path)[l] = name
OneIdEach ==
  sym # NoSym =>
    /\ \A i \in Ids : LET id == sym_probe(sym, NameOf(sym, i))
                      IN  id = i \/ (id # Empty /\ TwiceInPath(NameOf(sym, i)))
    /\ \E b \in DOMAIN sym.buckets : sym.buckets[b] = Empty
    /\ Len(sym.strings) <= sym.str_cap /\ sym.arena.used <= sym.arena.cap

(* A symbol has segments exactly if its name is a path, and they spell it:    *)
(* whatever allocation failed in this call or before.                         *)
PathsExact ==
  sym # NoSym => \A i \in Ids :
    /\ i \in sym.scanned
    /\ (IF i \in DOMAIN sym.segs
          THEN [k \in DOMAIN sym.segs[i] |-> NameOf(sym, sym.segs[i][k])] ELSE <<>>)
       = Segments(NameOf(sym, i))

(* An intern that fails leaves nothing behind: all there is are names for     *)
(* which a caller got an id, and their segments.                              *)
NoOrphans ==
  sym # NoSym =>
    ToSet(sym.strings) = asked \cup UNION {ToSet(Segments(n)) : n \in asked}

(* The symbol table: one id a name but for that case, paths that spell it,    *)
(* nothing half done.                                                         *)
SymExact == OneIdEach /\ PathsExact /\ NoOrphans
=============================================================================
