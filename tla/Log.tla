-------------------------------- MODULE Log --------------------------------
(***************************************************************************)
(* A message log and its replay.  A log is a general list on disk: a       *)
(* header with a count, then one serialized chunk per record               *)
(* (qlang/io/q_log.c).  A writer creates it, empty or with its first       *)
(* records, appends to it through a file handle (wf_append_path and what   *)
(* it calls, qlang/net/q_wirefile.c) and rolls it by writing an empty list *)
(* over it (wf_put).  `-11!' reads it through a window that moves over the *)
(* file (log_scan, log_fill), evaluating each chunk, a limited number of   *)
(* them, or none: (-2;x) counts them and names the length of the valid     *)
(* part.                                                                   *)
(*                                                                         *)
(* The writer and the reader are processes of their own.  The writer may   *)
(* stop between any two bytes it writes, a write may fail, the last flush  *)
(* of a whole image may fail unseen, and a whole chunk may not decode for  *)
(* want of memory; an operator counts a stopped log, cuts the torn tail    *)
(* off and starts the writer again.  The operating system keeps running:   *)
(* what has been written stays written.                                    *)
(*                                                                         *)
(* A byte names the record it belongs to, its place in it and the record's *)
(* size; the header is the record 0.                                       *)
(***************************************************************************)
EXTENDS Integers, Sequences, FiniteSets, SequencesExt, FiniteSetsExt

CONSTANTS
  LOG_HDR,      \* the size of the header
  LOG_WINDOW,   \* the size of the first window
  LOG_MAX,      \* the largest window
  Sizes,        \* the sizes of records
  MaxBatch,     \* the most records one append writes
  Limits,       \* the numbers of chunks a caller may ask for
  MaxRecs,      \* bound: records ever written
  MaxRolls,     \* bound: times the log is rolled
  MaxFaults     \* bound: crashes, failed writes and failed allocations

ASSUME LogAssumption ==
  /\ {LOG_HDR, LOG_WINDOW, LOG_MAX, MaxBatch} \subseteq Nat \ {0}
  /\ Sizes \subseteq Nat \ {0}
  /\ {MaxRecs, MaxRolls, MaxFaults} \subseteq Nat /\ Limits \subseteq Nat
  /\ LOG_HDR <= LOG_WINDOW /\ LOG_WINDOW <= LOG_MAX

\* The sizes a window takes as it doubles; the largest is LOG_MAX itself.
Windows == {c \in LOG_WINDOW..LOG_MAX : \E k \in 0..LOG_MAX : c = LOG_WINDOW * 2^k}
ASSUME WindowAssumption ==
  LOG_WINDOW \in Windows /\ \A c \in Windows : IF 2 * c > LOG_MAX THEN c = LOG_MAX ELSE 2 * c \in Windows

All == -1       \* every chunk
Count == -2     \* count, evaluate nothing
None == [kind |-> "none"]

VARIABLES
  disk,    \* the contents of every file the path has named
  cur,     \* the file it names now
  count,   \* the count in that file's header
  w,       \* the writer
  acked,   \* the records whose append returned, in this file
  rd,      \* the reader's cursor and the scan's local variables
  ans,     \* its last answer, until the file changes or it starts again
  next,    \* the next record to write
  faults,
  lost,    \* history: acknowledged records were lost and nobody was told
  over     \* history: the header counts records that are not there

vars == <<disk, cur, count, w, acked, rd, ans, next, faults, lost, over>>

----------------------------------------------------------------------------
(* Contents of files                                                       *)

Header == [i \in 1..LOG_HDR |-> [id |-> 0, i |-> i, size |-> LOG_HDR]]
IsLast(b) == b.i = b.size

\* Where whole records end, in a file or in the first p bytes of it, and the
\* number of the record that ends at p (a file grows at its end and is only
\* cut there).
Ends(c)     == {q \in DOMAIN c : IsLast(c[q]) /\ c[q].id # 0}
RecNo(c, p) == Cardinality({q \in Ends(c) : q <= p})

\* Where the record number n of a file ends, and the records in order.
EndOf(c, n) == IF n = 0 THEN LOG_HDR ELSE CHOOSE p \in Ends(c) : RecNo(c, p) = n
Recs(c)     == [n \in 1..Cardinality(Ends(c)) |-> c[EndOf(c, n)].id]

Torn(c) == c # <<>> /\ ~IsLast(Last(c))

\* How many records come before the first that no window can hold.
Reachable(c) ==
  LET big == {k \in DOMAIN Recs(c) :
                c[EndOf(c, k)].size > LOG_MAX}
  IN  IF big = {} THEN Len(Recs(c)) ELSE Min(big) - 1

File == disk[cur]

----------------------------------------------------------------------------
(* The writer                                                              *)

\* `todo' is what is still to be written, record by record, and `i' how many
\* bytes of the first of them are.
Idle == [pc |-> "up", todo |-> <<>>, i |-> 0, n |-> 0, ids |-> <<>>]
Down == [Idle EXCEPT !.pc = "down"]

\* Every change of the file makes the last answer, and a scan's claim to have
\* seen a file at rest, out of date.
Changed == /\ ans' = None
           /\ rd' = [rd EXCEPT !.quiet = FALSE]

HeaderJob == [id |-> 0, size |-> LOG_HDR]

\* `set' of an empty list where there is no file, or an empty one: the image
\* is written in place.  What the list held before is gone as asked.
Create ==
  /\ w.pc = "up" /\ File = <<>>
  /\ w' = [Idle EXCEPT !.pc = "create", !.todo = <<HeaderJob>>]
  /\ acked' = <<>> /\ lost' = FALSE
  /\ UNCHANGED <<disk, cur, count, rd, ans, next, faults, over>>

\* The serialized records of one append, one behind the other.
Batch(k, sz) == [j \in 1..k |-> [id |-> next + j - 1, size |-> sz[j]]]
Ids(k)       == [j \in 1..k |-> next + j - 1]

\* An append where there is no file, or the empty one `hopen' leaves, writes
\* the list as a whole image: a header that counts its records, then these.
AppendAbsent ==
  /\ w.pc = "up" /\ File = <<>>
  /\ \E k \in 1..MaxBatch : \E sz \in [1..k -> Sizes] :
       /\ next + k - 1 <= MaxRecs
       /\ w' = [pc |-> "create", todo |-> <<HeaderJob>> \o Batch(k, sz), i |-> 0,
                n |-> k, ids |-> Ids(k)]
       /\ next' = next + k
  /\ UNCHANGED <<disk, cur, count, acked, rd, ans, faults, lost, over>>

\* Any other append reads the header (one cut short is refused) and serializes
\* its records into one buffer.  The code looks no further: behind a torn
\* record the bytes would read as its rest, and behaviours stop before that.
AppendList ==
  /\ w.pc = "up" /\ Len(File) >= LOG_HDR /\ ~Torn(File)
  /\ \E k \in 1..MaxBatch : \E sz \in [1..k -> Sizes] :
       /\ next + k - 1 <= MaxRecs
       /\ w' = [pc |-> "append", todo |-> Batch(k, sz), i |-> 0,
                n |-> count + k, ids |-> Ids(k)]
       /\ next' = next + k
  /\ UNCHANGED <<disk, cur, count, acked, rd, ans, faults, lost, over>>

\* The bytes reach the end of the file in order, in as many writes as it takes.
\* An image's header is there, and counts, before its records are.
WriteByte ==
  /\ w.pc \in {"create", "append"} /\ w.todo # <<>>
  /\ LET r == Head(w.todo)
         b == [id |-> r.id, i |-> w.i + 1, size |-> r.size]
         headed == r.id = 0 /\ IsLast(b)
     IN  /\ disk' = [disk EXCEPT ![cur] = Append(@, b)]
         /\ w' = IF IsLast(b) THEN [w EXCEPT !.todo = Tail(@), !.i = 0] ELSE [w EXCEPT !.i = @ + 1]
         /\ count' = IF headed THEN w.n ELSE count
         /\ over' = IF headed THEN w.n # 0 ELSE over
  /\ Changed
  /\ UNCHANGED <<cur, acked, next, faults, lost>>

\* Fault: the append returns before its bytes have been flushed.
WriteCountEarly ==
  /\ w.pc \in {"create", "append"}
  /\ count' = w.n /\ acked' = acked \o w.ids
  /\ over' = (over /\ w.pc = "append")
  /\ w' = Idle
  /\ Changed
  /\ UNCHANGED <<disk, cur, next, faults, lost>>

\* All bytes are out.  An append writes the count behind its records, an
\* image's is true now; the call returns.
WriteCount ==
  /\ w.pc \in {"create", "append"} /\ w.todo = <<>>
  /\ count' = w.n /\ acked' = acked \o w.ids
  /\ over' = (over /\ w.pc = "append")
  /\ w' = Idle
  /\ Changed
  /\ UNCHANGED <<disk, cur, next, faults, lost>>

\* The write of an image ignores what its last flush says (fclose): what is
\* still to be written is lost, and the call returns as if it were not.
FlushLost ==
  /\ w.pc = "create" /\ w.todo # <<>> /\ faults < MaxFaults
  /\ acked' = acked \o w.ids /\ lost' = (lost \/ w.ids # <<>>)
  /\ w' = Idle
  /\ faults' = faults + 1
  /\ UNCHANGED <<disk, cur, count, rd, ans, next, over>>

\* `set' over a file with bytes in it writes a file beside it ...
Roll ==
  /\ w.pc = "up" /\ File # <<>> /\ cur < MaxRolls
  /\ w' = [Idle EXCEPT !.pc = "roll"]
  /\ UNCHANGED <<disk, cur, count, acked, rd, ans, next, faults, lost, over>>

\* Fault: the file is cut to nothing and written in place.
RollInPlace ==
  /\ w.pc = "roll"
  /\ disk' = [disk EXCEPT ![cur] = <<>>]
  /\ count' = 0 /\ acked' = <<>> /\ lost' = FALSE /\ over' = FALSE
  /\ w' = [Idle EXCEPT !.pc = "create", !.todo = <<HeaderJob>>]
  /\ Changed
  /\ UNCHANGED <<cur, next, faults>>

\* ... and moves it over the old one.  The image is so short that all of it
\* waits for the last flush: when that fails a file cut short is moved.
RollRename ==
  /\ w.pc = "roll"
  /\ \E k \in 0..LOG_HDR :
       /\ disk' = [disk EXCEPT ![cur + 1] = SubSeq(Header, 1, k)]
       /\ IF k = LOG_HDR THEN UNCHANGED faults ELSE faults < MaxFaults /\ faults' = faults + 1
  /\ cur' = cur + 1 /\ count' = 0 /\ acked' = <<>> /\ lost' = FALSE /\ over' = FALSE
  /\ w' = Idle
  /\ Changed
  /\ UNCHANGED next

\* A write is seen to fail, or the move fails: the caller gets 'io, the file
\* beside the log is removed, and what has been written of a list stays.
WriteFails ==
  /\ w.pc \in {"create", "append", "roll"} /\ faults < MaxFaults
  /\ w' = Idle
  /\ faults' = faults + 1
  /\ UNCHANGED <<disk, cur, count, acked, rd, ans, next, lost, over>>

\* The writer's process ends.
Crash ==
  /\ w.pc # "down" /\ faults < MaxFaults
  /\ w' = Down
  /\ faults' = faults + 1
  /\ UNCHANGED <<disk, cur, count, acked, rd, ans, next, lost, over>>

\* The operator has counted the log, cuts off the tail the answer names and
\* starts the writer.  A tail longer than any window may be a whole record: it
\* is left alone.  A count of a log that was still being written, or in which a
\* chunk did not decode for want of memory, may cut whole records off.
Recover ==
  /\ w.pc = "down"
  /\ ans.kind \in {"n", "pair", "corrupt"}
  /\ ans.mode = Count /\ ans.ino = cur
  /\ w' = Idle
  /\ IF ans.kind = "pair"
       THEN /\ Len(File) - ans.valid <= LOG_MAX
            /\ disk' = [disk EXCEPT ![cur] = SubSeq(@, 1, ans.valid)]
            /\ lost' = (lost \/ ~ans.quiet) /\ over' = (over \/ ~ans.quiet)
            /\ Changed
       ELSE UNCHANGED <<disk, rd, ans, lost, over>>
  /\ UNCHANGED <<cur, count, acked, next, faults>>

----------------------------------------------------------------------------
(* The reader                                                              *)

NoScan == [pc |-> "idle", mode |-> All, ino |-> 0, size |-> 0, pos |-> 0,
           buf |-> <<>>, cap |-> LOG_WINDOW, off |-> 0, n |-> 0, valid |-> 0,
           done |-> <<>>, quiet |-> FALSE, want |-> 0]

Answer(kind, c) ==
  /\ ans' = [kind |-> kind, mode |-> c.mode, n |-> c.n, valid |-> c.valid,
             want |-> c.want, quiet |-> c.quiet, ino |-> c.ino]
  /\ rd' = NoScan

\* q_log_replay's argument, and the stat of log_open: the length is taken once.
LogStat ==
  /\ rd.pc = "idle"
  /\ \E m \in Limits \cup {All, Count} :
       rd' = [NoScan EXCEPT !.pc = "open", !.mode = m, !.ino = cur,
                            !.size = Len(File), !.quiet = TRUE,
                            !.want = Len(Recs(File))]
  /\ ans' = None
  /\ UNCHANGED <<disk, cur, count, w, acked, next, faults, lost, over>>

\* The path is opened after that: it may name another file by now.
LogOpen ==
  /\ rd.pc = "open"
  /\ \/ /\ rd' = [rd EXCEPT !.pc = "header", !.ino = cur,
                            !.want = IF rd.ino = cur THEN @ ELSE 0]
        /\ UNCHANGED ans
     \/ Answer("io", NoScan)
  /\ UNCHANGED <<disk, cur, count, w, acked, next, faults, lost, over>>

TOOBIG == -2
FAILED == -1

\* pread: up to n bytes of the file from an offset.
ReadAt(c, offset, n) ==
  LET file == disk[c.ino]
  IN  SubSeq(file, offset + 1, Min({offset + n, Len(file)}))

\* One window more after the bytes in hand: what log_fill may return, and the
\* cursor it leaves.
log_fill(c) ==
  LET len  == Len(c.buf)
      full == len = c.cap
      cap  == IF full THEN 2 * c.cap ELSE c.cap
      rest == ReadAt(c, c.pos + len, cap - len)
  IN  IF c.pos + len >= c.size THEN {[r |-> 0, c |-> c]}
      ELSE IF full /\ cap > LOG_MAX THEN {[r |-> TOOBIG, c |-> c]}
      ELSE {[r |-> FAILED, c |-> c]} \cup
           IF rest = <<>>
             THEN {[r |-> 0, c |-> [c EXCEPT !.cap = cap, !.size = c.pos + len]]}
             ELSE {[r |-> k, c |-> [c EXCEPT !.cap = cap,
                                             !.buf = @ \o SubSeq(rest, 1, k)]] :
                     k \in {1, Len(rest)}}

ReadHeader ==
  /\ rd.pc = "header"
  /\ \/ /\ Len(rd.buf) < LOG_HDR
        /\ \E f \in log_fill(rd) :
             \/ f.r > 0 /\ rd' = f.c /\ UNCHANGED ans
             \/ f.r = 0 /\ Answer("corrupt", f.c)
             \/ f.r < 0 /\ Answer("io", NoScan)
     \/ /\ Len(rd.buf) >= LOG_HDR
        /\ rd' = [rd EXCEPT !.pc = "scan", !.off = LOG_HDR, !.valid = LOG_HDR]
        /\ UNCHANGED ans
  /\ UNCHANGED <<disk, cur, count, w, acked, next, faults, lost, over>>

More(c) == c.mode < 0 \/ c.n < c.mode

\* q_wire_read_obj finds a whole chunk at the cursor.
Decodes(c) == /\ c.off < Len(c.buf)
              /\ c.off + c.buf[c.off + 1].size <= Len(c.buf)

\* Fault: the valid length stops before the chunk.
ConsumeBehind(c) ==
  LET b == c.buf[c.off + 1]
      off == c.off + b.size
  IN  [c EXCEPT !.off = off, !.n = @ + 1, !.valid = c.pos + c.off,
                !.done = IF c.mode = Count THEN @ ELSE Append(@, b.id)]

Consume(c) ==
  LET b == c.buf[c.off + 1]
      off == c.off + b.size
  IN  [c EXCEPT !.off = off, !.n = @ + 1, !.valid = c.pos + off,
                !.done = IF c.mode = Count THEN @ ELSE Append(@, b.id)]

\* A chunk is evaluated, or counted; one that fails ends the replay.
EvalChunk ==
  /\ rd.pc = "scan" /\ More(rd) /\ Decodes(rd)
  /\ \/ rd' = Consume(rd) /\ UNCHANGED ans
     \/ rd.mode # Count /\ Answer("error", NoScan)
  /\ UNCHANGED <<disk, cur, count, w, acked, next, faults, lost, over>>

\* Fault: the tail moves, the offset of the window does not.
SlideStays(c) == [c EXCEPT !.buf = SubSeq(@, c.off + 1, Len(@)), !.off = 0]

\* The bytes behind the cursor go; the file offset moves with them.
Slide(c) == [c EXCEPT !.buf = SubSeq(@, c.off + 1, Len(@)),
                      !.pos = @ + c.off, !.off = 0]

EndOfLog(f) == f.r \in {0, TOOBIG}

\* Fault: a chunk no window holds is tried again.
FetchForever(c) ==
  \E f \in log_fill(Slide(c)) :
    \/ f.r = FAILED /\ Answer("io", NoScan)
    \/ f.r > 0 /\ rd' = f.c /\ UNCHANGED ans
    \/ f.r = TOOBIG /\ UNCHANGED <<rd, ans>>
    \/ f.r = 0 /\ f.c.buf = <<>> /\ Answer("n", f.c)
    \/ /\ f.r = 0 /\ f.c.buf # <<>>
       /\ Answer(IF c.mode = Count THEN "pair" ELSE "badtail", f.c)

\* No whole chunk in hand: the end of the file, or another window.
Fetch(c) ==
  \E f \in log_fill(Slide(c)) :
    \/ f.r = FAILED /\ Answer("io", NoScan)
    \/ f.r > 0 /\ rd' = f.c /\ UNCHANGED ans
    \/ EndOfLog(f) /\ f.c.buf = <<>> /\ Answer("n", f.c)
    \/ /\ EndOfLog(f) /\ f.c.buf # <<>>
       /\ Answer(IF c.mode = Count THEN "pair" ELSE "badtail", f.c)

Refill ==
  /\ rd.pc = "scan" /\ More(rd) /\ ~Decodes(rd)
  /\ Fetch(rd)
  /\ UNCHANGED <<disk, cur, count, w, acked, next, faults, lost, over>>

\* A whole chunk does not decode for want of memory: log_scan does not look at
\* the error and takes the chunk for a short one.
DecodeFails ==
  /\ rd.pc = "scan" /\ More(rd) /\ Decodes(rd) /\ faults < MaxFaults
  /\ Fetch([rd EXCEPT !.quiet = FALSE])
  /\ faults' = faults + 1
  /\ UNCHANGED <<disk, cur, count, w, acked, next, lost, over>>

\* As many chunks as were asked for.
LimitReached ==
  /\ rd.pc = "scan" /\ ~More(rd)
  /\ Answer("n", rd)
  /\ UNCHANGED <<disk, cur, count, w, acked, next, faults, lost, over>>

----------------------------------------------------------------------------
Init ==
  /\ disk = [f \in 0..MaxRolls |-> <<>>] /\ cur = 0 /\ count = 0
  /\ w = Idle /\ acked = <<>>
  /\ rd = NoScan /\ ans = None
  /\ next = 1 /\ faults = 0 /\ lost = FALSE /\ over = FALSE

Write == Create \/ AppendAbsent \/ AppendList \/ WriteByte \/ WriteCount \/ FlushLost
         \/ Roll \/ RollRename \/ WriteFails \/ Crash \/ Recover
Scan == LogOpen \/ ReadHeader \/ EvalChunk \/ Refill \/ DecodeFails \/ LimitReached

Next == Write \/ LogStat \/ Scan

\* A replay, once started, is the statement its process is executing.
Spec == Init /\ [][Next]_vars /\ WF_vars(Scan)

----------------------------------------------------------------------------
(* Properties                                                              *)

\* The cursor stays inside its window and the window inside its limit, as the
\* reallocation of log_fill needs; a header's count is a number of records.
TypeOK ==
  /\ cur \in 0..MaxRolls /\ count \in 0..MaxRecs /\ next \in 1..(MaxRecs + 1)
  /\ w.pc \in {"up", "down", "create", "append", "roll"}
  /\ rd.pc \in {"idle", "open", "header", "scan"}
  /\ rd.cap \in LOG_WINDOW..LOG_MAX /\ Len(rd.buf) <= rd.cap
  /\ rd.off \in 0..Len(rd.buf)

\* Replay evaluates the whole records of the file in the order they were
\* written, each once and none after a gap, wherever the windows fall, while
\* the writer appends, stops, cuts and rolls; counting evaluates nothing
\* (log_scan's move of the straddling tail).
InOrder ==
  rd.pc = "scan" =>
    LET c == disk[rd.ino] IN
    /\ rd.n <= Len(Recs(c))
    /\ rd.done = IF rd.mode = Count THEN <<>> ELSE SubSeq(Recs(c), 1, rd.n)

\* A replay of everything that returns a count has evaluated every record that
\* was whole when the file was opened: only an error answers for less.
Complete ==
  ans.kind = "n" /\ ans.mode < 0 => ans.n >= ans.want

\* log_scan evaluates all whole records in order, once, within its windows.
ReplayExact == TypeOK /\ InOrder /\ Complete

\* With the file at rest, and memory for every chunk, the answer is exact: a log
\* is called torn only when it ends inside a record, or holds one larger than
\* the largest window, and then the pair is the number of records before it and
\* where they end (log_scan's last return).
CutExact ==
  ans.kind \in {"n", "pair", "badtail"} /\ ans.mode < 0 /\ ans.quiet =>
    LET c == disk[ans.ino]
        k == Reachable(c)
    IN  /\ ans.kind = "n" <=> k = Len(Recs(c)) /\ ~Torn(c)
        /\ ans.n = k /\ ans.valid = EndOf(c, k)

\* A record whose append returned outlives crashes and failed writes of later
\* ones, and the recovery that cuts the log where (-2;x) says, unless the last
\* flush of the image that held it failed unseen or the count was misled.
AckedSurvive == ~lost => ToSet(acked) \subseteq {File[q].id : q \in Ends(File)}

\* The count in the header promises no record that is not in the file: an
\* append writes it after the records' bytes (wf_append_bytes), whatever fails.
\* An image's header comes before its records, so the promise is broken from
\* there until the image is whole, and for good if the write ends before.
CountBehind == ~over => count <= Cardinality(Ends(File))

\* What was acknowledged is on disk, and the header promises no more than is,
\* but for the two ways the code has of breaking each of these promises.
Durable == AckedSurvive /\ CountBehind

\* Once the path names a file with a whole header it does until a roll whose
\* flush fails unseen: rolling moves another file over the old one, every other
\* failure leaves the old one, and a cut never takes the header (wf_put).
HeaderStays ==
  [][Len(File) >= LOG_HDR /\ Len(File') < LOG_HDR => cur' = cur + 1 /\ faults' = faults + 1]_vars

\* Every replay ends, whatever is in the file and whatever happens to it.
ScanEnds == rd.pc # "idle" ~> rd.pc = "idle"
=============================================================================
