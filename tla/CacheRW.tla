------------------------------ MODULE CacheRW -------------------------------
(***************************************************************************)
(* The read/write cache over a block target: cache::RWIHandler, which      *)
(* invalidates what is written, and cache::RWTHandler, which writes        *)
(* through.  Both read the same way.                                       *)
(*                                                                         *)
(* A handler is one step; between handlers the target below executes its   *)
(* operations cell by cell, in any order, and answers them in any order.   *)
(* The target below is a bare device, which takes every submit, or a RAID, *)
(* which an error takes offline: from then on it refuses every submit, and *)
(* the completer of a refused query runs at once, with no error set.       *)
(*                                                                         *)
(* The cache itself is what module LossyMap promises of it: an update may  *)
(* drop any other chunk.                                                   *)
(***************************************************************************)
EXTENDS Naturals, Sequences, FiniteSets, Functions

CONSTANTS
    NChunks,        \* number of chunks of the target
    Cells,          \* the units of data of a chunk
    Writes, Reads,  \* client requests, each submitted at most once
    WSpan, RSpan,   \* Span[q][c]: the cells of chunk c that request q covers
    Modes,          \* "rwi" and "rwt", the handlers to start with
    Targets,        \* "bare" and "raid", the targets to start with
    Old,            \* what a cell holds before any write
    Junk,           \* what a buffer of the pool holds before it is filled
    None,           \* no chunk in the cache
    MaxErrors       \* bound: operations that the target below fails

Chunks  == 0..(NChunks - 1)
Values  == Writes \cup {Old, Junk}
Buffers == [Cells -> Values]

Touched(span) == {c \in Chunks : span[c] # {}}

ASSUME ChunksAssumption == NChunks \in Nat \ {0} /\ Cells # {}
ASSUME SpansAssumption  ==
    /\ WSpan \in [Writes -> [Chunks -> SUBSET Cells]]
    /\ RSpan \in [Reads -> [Chunks -> SUBSET Cells]]
    /\ \A w \in Writes : Touched(WSpan[w]) # {}
    /\ \A r \in Reads : Touched(RSpan[r]) # {}
ASSUME ModesAssumption  == Modes \subseteq {"rwi", "rwt"}
                           /\ Targets \subseteq {"bare", "raid"}
ASSUME ValuesAssumption == Old # Junk /\ {Old, Junk} \cap Writes = {}
                           /\ None \notin [buf : Buffers, raced : BOOLEAN]
ASSUME BoundAssumption  == MaxErrors \in Nat

VARIABLES
    mode,           \* which of the handlers RWHandler uses
    below,          \* the target below: "bare", "raid" or "offline"
    dev,            \* dev[c][x]: what the target below holds
    cache,          \* cache_: the chunks cached; raced is history, see ReadDone
    seq,            \* last_wq_done_seq_
    locker,         \* chunk_w_locker_
    wqs_pending,    \* wqs_pending_: <<chunk, write>> waiting for the lock
    sub,            \* sub[w][c]: the part of write w that lies in chunk c
    rop,            \* rop[r][c]: the read of chunk c that read r waits for
    wq, rq,         \* the clients' queries
    errors,         \* operations failed so far
    crashed         \* an Expects() failed: the process is gone

vars == <<mode, below, dev, cache, seq, locker, wqs_pending, sub, rop, wq, rq,
          errors, crashed>>

-----------------------------------------------------------------------------
(* Buffers and the cache *)

Whole(v) == [x \in Cells |-> v]
Over(b, xs, v) == [x \in Cells |-> IF x \in xs THEN v ELSE b[x]]
Entry(b, raced) == [buf |-> b, raced |-> raced]

\* flat_lru::update: the outcomes it may have
LruUpdate(m, c, e) ==
    {[x \in Chunks |-> IF x = c THEN e ELSE IF x \in D THEN None ELSE m[x]] :
       D \in SUBSET (Chunks \ {c})}

\* Mutant: nothing is invalidated.
NotInvalidated(m, C) == m

Invalidated(m, C) == [x \in Chunks |-> IF x \in C THEN None ELSE m[x]]

-----------------------------------------------------------------------------
(* One write in one chunk (RWTHandler), or one write (RWIHandler) *)

Part(ph, todo) == [ph |-> ph, todo |-> todo, buf |-> Whole(Junk)]
Idle == Part("none", {})
Done == Part("done", {})

\* RWTHandler::process, up to its submit: what it leaves of the cache, the
\* counter and the write's part.  A chunk written whole or found in the cache is
\* changed there and written; any other is read first.
ProcessOutcomes(w, c, m, n) ==
    LET xs == WSpan[w][c]
        write == Part("write", xs)
    IN
    IF xs = Cells
    THEN {[cache |-> u, seq |-> n + 1, part |-> write] :
             u \in LruUpdate(m, c, Entry(Whole(w), FALSE))}
    ELSE IF m[c] # None
    THEN {[cache |-> [m EXCEPT ![c].buf = Over(@, xs, w)], seq |-> n,
           part |-> write]}
    ELSE {[cache |-> m, seq |-> n, part |-> Part("rmw", Cells)]}

\* The same when the target refuses the submit: the completer of the read finds
\* no error in the buffer nobody filled, and process() returns EIO.
RefusedOutcomes(w, c, m, n) ==
    UNION {IF o.part.ph = "write" THEN {[o EXCEPT !.part = Done]}
           ELSE {[cache |-> u, seq |-> n + 1, part |-> Done] :
                   u \in LruUpdate(m, c, Entry(Over(Whole(Junk), WSpan[w][c], w), FALSE))} :
             o \in ProcessOutcomes(w, c, m, n)}

FirstPending(c, i) ==
    /\ i \in DOMAIN wqs_pending /\ wqs_pending[i][1] = c
    /\ \A j \in 1..(i - 1) : wqs_pending[j][1] # c

\* Mutant: the pending writes are not looked at.
PendingIgnored(c) == TRUE

NonePending(c) == \A i \in DOMAIN wqs_pending : wqs_pending[i][1] # c

SwapErase(q, i) ==
    [j \in 1..(Len(q) - 1) |-> IF j = i THEN q[Len(q)] ELSE q[j]]

\* Mutant: a write is answered with its first part.
AnyPart(w, c) == TRUE

LastPart(w, c) == \A d \in Touched(WSpan[w]) \ {c} : sub[w][d].ph = "done"

\* The query of write w once its part c, or all of it, is over
Answer(q, last, err) ==
    [q EXCEPT !.err = @ \/ err,
              !.st = IF ~last THEN @ ELSE IF q.err \/ err THEN "err" ELSE "ok"]

Answered == {w \in Writes : wq[w].st \in {"ok", "err"}}
Acked    == {w \in Writes : wq[w].st = "ok"}

\* chunk_wq_completer of write w's part in chunk c; m and n are the cache and the
\* counter it finds, b the target below.  A pending write that a target offline
\* refuses is completed inside the loop, which unlocks the chunk; then the loop
\* unlocks it again.
FinishPart(w, c, err, m, n, b) ==
    /\ wq' = [wq EXCEPT ![w] = Answer(@, LastPart(w, c), err)]
    /\ \/ /\ NonePending(c)
          /\ locker' = locker \ {c}
          /\ sub' = [sub EXCEPT ![w][c] = Done]
          /\ cache' = IF err THEN Invalidated(m, {c}) ELSE m
          /\ seq' = n
          /\ UNCHANGED <<wqs_pending, crashed>>
       \/ /\ ~NonePending(c) /\ b # "offline"
          /\ \E i \in DOMAIN wqs_pending :
             LET v == wqs_pending[i][2] IN
             /\ FirstPending(c, i)
             /\ wqs_pending' = SwapErase(wqs_pending, i)
             /\ \E o \in ProcessOutcomes(v, c, m, n) :
                   /\ cache' = IF err THEN Invalidated(o.cache, {c}) ELSE o.cache
                   /\ seq' = o.seq
                   /\ sub' = [sub EXCEPT ![w][c] = Done, ![v][c] = o.part]
          /\ UNCHANGED <<locker, crashed>>
       \/ /\ ~NonePending(c) /\ b = "offline"
          /\ crashed' = TRUE
          /\ UNCHANGED <<cache, seq, locker, wqs_pending, sub>>

-----------------------------------------------------------------------------
(* Client requests *)

\* A read in flight meets a write of its chunk at work.
AtWork(part) == part.ph \in {"rmw", "write"}
Busy(c, S) == \E w \in Writes : AtWork(S[w][c])
Raced(S) == [r \in Reads |-> [c \in Chunks |->
               [rop[r][c] EXCEPT !.over = @ \/ (rop[r][c].ph = "read" /\ Busy(c, S))]]]

\* RWIHandler::submit(rq): chunk after chunk, from the cache or by a read of the
\* whole chunk.
ReadOp(c) == [ph |-> "read", todo |-> Cells, buf |-> Whole(Junk), seq |-> seq,
              over |-> Busy(c, sub)]
NoReadOp == [ph |-> "none", todo |-> {}, buf |-> Whole(Junk), seq |-> 0,
             over |-> FALSE]

\* Mutant: chunk and offset are swapped.
CopiedSwapped(r, c, b) == {<<x, c, b[x]>> : x \in RSpan[r][c]}

Copied(r, c, b) == {<<c, x, b[x]>> : x \in RSpan[r][c]}

Read(r) ==
    LET T   == Touched(RSpan[r])
        hit == {c \in T : cache[c] # None}
    IN
    /\ rq[r].st = "new" /\ (below # "offline" \/ hit = T)
    /\ rop' = [rop EXCEPT ![r] = [c \in Chunks |->
                  IF c \in T \ hit THEN ReadOp(c) ELSE NoReadOp]]
    /\ rq' = [rq EXCEPT ![r] =
                [st |-> IF hit = T THEN "ok" ELSE "busy", err |-> FALSE,
                 before |-> Acked, raced |-> \E c \in hit : cache[c].raced,
                 got |-> UNION {Copied(r, c, cache[c].buf) : c \in hit}]]
    /\ UNCHANGED <<mode, below, dev, cache, seq, locker, wqs_pending, sub, wq,
                   errors, crashed>>

\* The target refuses the read of the first chunk missed: its completer puts a
\* buffer nobody filled into the cache; submit() returns EIO.
ReadRefused(r) ==
    /\ rq[r].st = "new" /\ below = "offline"
    /\ \E c \in Touched(RSpan[r]) :
          /\ cache[c] = None
          /\ \A d \in Touched(RSpan[r]) : cache[d] = None => c <= d
          /\ cache' \in LruUpdate(cache, c, Entry(Whole(Junk), FALSE))
    /\ rq' = [rq EXCEPT ![r].st = "err"]
    /\ UNCHANGED <<mode, below, dev, seq, locker, wqs_pending, sub, rop, wq,
                   errors, crashed>>

Begun(w, st) == [wq EXCEPT ![w] = [st |-> st, err |-> FALSE, before |-> Answered]]

\* RWIHandler::submit(wq): the target gets the whole write.
WriteRWI(w) ==
    /\ mode = "rwi" /\ wq[w].st = "new" /\ below # "offline"
    /\ wq' = Begun(w, "busy")
    /\ sub' = [sub EXCEPT ![w] = [c \in Chunks |->
                  IF WSpan[w][c] = {} THEN Idle ELSE Part("write", WSpan[w][c])]]
    /\ rop' = Raced(sub')
    /\ UNCHANGED <<mode, below, dev, cache, seq, locker, wqs_pending, rq, errors,
                   crashed>>

WriteRWIRefused(w) ==
    /\ mode = "rwi" /\ wq[w].st = "new" /\ below = "offline"
    /\ wq' = Begun(w, "err")
    /\ cache' = Invalidated(cache, Touched(WSpan[w])) /\ seq' = seq + 1
    /\ UNCHANGED <<mode, below, dev, locker, wqs_pending, sub, rop, rq, errors,
                   crashed>>

\* One turn of the loop of RWTHandler::submit(wq), for chunk c, on o: what the
\* turns before have left.  A refusal ends the loop.
Turn(w, c, o) ==
    IF WSpan[w][c] = {} \/ o.refused THEN {o}
    ELSE IF c \in locker
    THEN {[o EXCEPT !.parts[c] = Part("pending", {}), !.pend = Append(@, <<c, w>>)]}
    ELSE IF below = "offline"
    THEN {[o EXCEPT !.cache = p.cache, !.seq = p.seq, !.parts[c] = Done,
                    !.refused = TRUE] : p \in RefusedOutcomes(w, c, o.cache, o.seq)}
    ELSE {[o EXCEPT !.cache = p.cache, !.seq = p.seq, !.parts[c] = p.part,
                    !.locked = @ \cup {c}] :
            p \in ProcessOutcomes(w, c, o.cache, o.seq)}

BeforeTurns ==
    [cache |-> cache, seq |-> seq, parts |-> [c \in Chunks |-> Idle],
     pend |-> wqs_pending, locked |-> locker, refused |-> FALSE]

\* Turns(w)[n]: what n turns may leave
Turns(w) ==
    LET after[n \in 0..NChunks] ==
            IF n = 0 THEN {BeforeTurns}
            ELSE UNION {Turn(w, n - 1, o) : o \in after[n - 1]}
    IN after

WriteRWT(w) ==
    /\ mode = "rwt" /\ wq[w].st = "new"
    /\ \E o \in Turns(w)[NChunks] :
          /\ cache' = o.cache /\ seq' = o.seq /\ locker' = o.locked
          /\ wqs_pending' = o.pend
          /\ sub' = [sub EXCEPT ![w] = o.parts]
          /\ wq' = Begun(w, IF o.refused THEN "err" ELSE "busy")
    /\ rop' = Raced(sub')
    /\ UNCHANGED <<mode, below, dev, rq, errors, crashed>>

-----------------------------------------------------------------------------
(* The target below: it executes operations and answers them *)

ReadExec(r, c, x) ==
    /\ x \in rop[r][c].todo
    /\ rop' = [rop EXCEPT ![r][c].todo = @ \ {x}, ![r][c].buf[x] = dev[c][x]]
    /\ UNCHANGED <<mode, below, dev, cache, seq, locker, wqs_pending, sub, wq, rq,
                   errors, crashed>>

RmwExec(w, c, x) ==
    /\ sub[w][c].ph = "rmw" /\ x \in sub[w][c].todo
    /\ sub' = [sub EXCEPT ![w][c].todo = @ \ {x}, ![w][c].buf[x] = dev[c][x]]
    /\ UNCHANGED <<mode, below, dev, cache, seq, locker, wqs_pending, rop, wq, rq,
                   errors, crashed>>

WriteExec(w, c, x) ==
    /\ sub[w][c].ph = "write" /\ x \in sub[w][c].todo
    /\ sub' = [sub EXCEPT ![w][c].todo = @ \ {x}]
    /\ dev' = [dev EXCEPT ![c][x] = w]
    /\ UNCHANGED <<mode, below, cache, seq, locker, wqs_pending, rop, wq, rq,
                   errors, crashed>>

\* An operation is answered with success once all of it is executed, with an
\* error wherever it stopped; an error takes a RAID offline.
Outcome(ok, todo) ==
    /\ IF ok THEN todo = {} ELSE errors < MaxErrors
    /\ errors' = IF ok THEN errors ELSE errors + 1
    /\ below' = IF ~ok /\ below = "raid" THEN "offline" ELSE below

\* The read o may put its chunk into the cache: no write was done since it was
\* submitted.  Mutant: the counter is not looked at.
AlwaysCaches(o) == TRUE
MayCache(o) == o.seq = seq

\* The completer of the read of a chunk: the chunk goes to the client, and into
\* the cache if it may.
ReadDone(r, c, ok) ==
    LET o    == rop[r][c]
        last == \A d \in Chunks \ {c} : rop[r][d].ph # "read"
    IN
    /\ o.ph = "read" /\ Outcome(ok, o.todo)
    /\ rop' = [rop EXCEPT ![r][c] = NoReadOp]
    /\ rq' = [rq EXCEPT ![r] =
                [Answer(rq[r], last, ~ok) EXCEPT
                    !.got = IF ok THEN @ \cup Copied(r, c, o.buf) ELSE @]]
    /\ IF ok /\ MayCache(o)
       THEN cache' \in LruUpdate(cache, c, Entry(o.buf, o.over))
       ELSE UNCHANGED cache
    /\ UNCHANGED <<mode, dev, seq, locker, wqs_pending, sub, wq, crashed>>

\* The completer RWIHandler gives a write
WriteDoneRWI(w, ok) ==
    LET T == Touched(WSpan[w]) IN
    /\ mode = "rwi" /\ wq[w].st = "busy"
    /\ Outcome(ok, UNION {sub[w][c].todo : c \in T})
    /\ cache' = Invalidated(cache, T) /\ seq' = seq + 1
    /\ wq' = [wq EXCEPT ![w] = Answer(@, TRUE, ~ok)]
    /\ sub' = [sub EXCEPT ![w] = [c \in Chunks |-> IF c \in T THEN Done ELSE Idle]]
    /\ UNCHANGED <<mode, dev, locker, wqs_pending, rop, rq, crashed>>

\* The completer of the read RWTHandler::process makes of a chunk it writes a
\* part of; if the target then refuses the write the query ends with no error.
RmwDone(w, c, ok) ==
    LET p == sub[w][c] IN
    /\ p.ph = "rmw" /\ Outcome(ok, p.todo)
    /\ \/ ~ok /\ FinishPart(w, c, TRUE, cache, seq, below') /\ rop' = Raced(sub')
       \/ /\ ok
          /\ \E m \in LruUpdate(cache, c, Entry(Over(p.buf, WSpan[w][c], w), FALSE)) :
             \/ /\ below # "offline"
                /\ cache' = m /\ seq' = seq + 1
                /\ sub' = [sub EXCEPT ![w][c] = Part("write", WSpan[w][c])]
                /\ UNCHANGED <<locker, wqs_pending, wq, rop, crashed>>
             \/ /\ below = "offline"
                /\ FinishPart(w, c, FALSE, m, seq + 1, below) /\ rop' = Raced(sub')
    /\ UNCHANGED <<mode, dev, rq>>

WriteDoneRWT(w, c, ok) ==
    /\ mode = "rwt" /\ sub[w][c].ph = "write" /\ Outcome(ok, sub[w][c].todo)
    /\ FinishPart(w, c, ~ok, cache, seq, below')
    /\ rop' = Raced(sub')
    /\ UNCHANGED <<mode, dev, rq>>

-----------------------------------------------------------------------------
Init ==
    /\ mode \in Modes /\ below \in Targets
    /\ dev = [c \in Chunks |-> Whole(Old)]
    /\ cache = [c \in Chunks |-> None] /\ seq = 0
    /\ locker = {} /\ wqs_pending = <<>>
    /\ sub = [w \in Writes |-> [c \in Chunks |-> Idle]]
    /\ rop = [r \in Reads |-> [c \in Chunks |-> NoReadOp]]
    /\ wq = [w \in Writes |-> [st |-> "new", err |-> FALSE, before |-> {}]]
    /\ rq = [r \in Reads |-> [st |-> "new", err |-> FALSE, before |-> {}, got |-> {},
                              raced |-> FALSE]]
    /\ errors = 0 /\ crashed = FALSE

Execution ==
    \E c \in Chunks, x \in Cells :
       \/ \E r \in Reads : ReadExec(r, c, x)
       \/ \E w \in Writes : RmwExec(w, c, x) \/ WriteExec(w, c, x)

Completion ==
    \E ok \in BOOLEAN :
       \/ \E r \in Reads, c \in Chunks : ReadDone(r, c, ok)
       \/ \E w \in Writes : WriteDoneRWI(w, ok)
       \/ \E w \in Writes, c \in Chunks : RmwDone(w, c, ok) \/ WriteDoneRWT(w, c, ok)

Next ==
    /\ ~crashed
    /\ \/ \E r \in Reads : Read(r) \/ ReadRefused(r)
       \/ \E w \in Writes : WriteRWI(w) \/ WriteRWIRefused(w) \/ WriteRWT(w)
       \/ Execution
       \/ Completion

Spec == Init /\ [][Next]_vars

\* The target below executes and answers every operation it has taken.
FairSpec == Spec /\ WF_vars(~crashed /\ (Execution \/ Completion))

-----------------------------------------------------------------------------
(* Properties *)

Parts   == [ph : {"none", "pending", "rmw", "write", "done"},
            todo : SUBSET Cells, buf : Buffers]
ReadOps == [ph : {"none", "read"}, todo : SUBSET Cells, buf : Buffers, seq : Nat,
            over : BOOLEAN]
States  == {"new", "busy", "ok", "err"}

\* The type invariant of the handlers' state
TypeOK ==
    /\ mode \in Modes /\ below \in Targets \cup {"offline"}
    /\ dev \in [Chunks -> Buffers]
    /\ cache \in [Chunks -> [buf : Buffers, raced : BOOLEAN] \cup {None}]
    /\ seq \in Nat /\ locker \subseteq Chunks
    /\ wqs_pending \in Seq(Chunks \X Writes)
    /\ sub \in [Writes -> [Chunks -> Parts]]
    /\ rop \in [Reads -> [Chunks -> ReadOps]]
    /\ wq \in [Writes -> [st : States, err : BOOLEAN, before : SUBSET Writes]]
    /\ rq \in [Reads -> [st : States, err : BOOLEAN, before : SUBSET Writes,
                         raced : BOOLEAN, got : SUBSET (Chunks \X Cells \X Values)]]
    /\ errors \in 0..MaxErrors /\ crashed \in BOOLEAN

\* While the target below is online a cached chunk is what that target holds,
\* but for the cells a write at work is replacing: whatever the order in which
\* reads, evictions, writes and their errors met.  Not claimed: a chunk that a
\* write-through cache has from a read which met a write of the chunk, where
\* last_wq_done_seq_ does not tell (see the README).
CacheCoherent ==
    \A c \in Chunks :
       below # "offline" /\ cache[c] # None /\ (mode = "rwi" \/ ~cache[c].raced) =>
          \A x \in Cells :
             \/ cache[c].buf[x] = dev[c][x]
             \/ \E w \in Writes : AtWork(sub[w][c]) /\ x \in WSpan[w][c]

\* Content v of a cell is stale for write w when it was there before w.
Stale(v, w) == v \in {Old, Junk} \/ (v # w /\ v \in wq[w].before)

\* A read answered with success returns, in every cell, nothing older than what
\* was answered with success before the read was submitted, and never a buffer
\* that was not filled.  Not claimed: a read that a write-through cache serves
\* from a chunk CacheCoherent excludes.
ReadFresh ==
    \A r \in Reads :
       below # "offline" /\ rq[r].st = "ok" /\ (mode = "rwi" \/ ~rq[r].raced) =>
       /\ \A t \in rq[r].got : t[3] # Junk
       /\ \A w \in rq[r].before, t \in rq[r].got :
             t[2] \in WSpan[w][t[1]] => ~Stale(t[3], w)

\* A write answered with success while the target below is online is on it, and
\* not overwritten by an older one: none of its parts was left waiting.
AckedWriteDurable ==
    below # "offline" =>
       \A w \in Acked, c \in Chunks :
          \A x \in WSpan[w][c] : ~Stale(dev[c][x], w)

\* The write-through cache has at most one write at work in a chunk, exactly
\* when the chunk is locked, and whoever waits, waits for a locked chunk.
ChunkLocked ==
    mode = "rwt" /\ ~crashed =>
       /\ \A c \in Chunks : c \in locker <=> Busy(c, sub)
       /\ \A c \in Chunks, v, w \in Writes :
             AtWork(sub[v][c]) /\ AtWork(sub[w][c]) => v = w
       /\ \A c \in Chunks, w \in Writes :
             sub[w][c].ph = "pending" =>
                c \in locker /\ <<c, w>> \in Range(wqs_pending)

\* Every request the cache takes is answered, unless the process dies: no request is
\* submitted twice, so this is that again and again none is at work.
RequestsAnswered ==
    []<>(crashed \/ ((\A w \in Writes : wq[w].st # "busy") /\
                     (\A r \in Reads : rq[r].st # "busy")))

\* unlock() is called only on a chunk that is locked, as its Expects demands.
NeverUnlocksFree == ~crashed
-----------------------------------------------------------------------------
(* The inductive invariant: what it takes for the properties above to stay     *)
(* true.  What is said of contents is said while the target below is online.   *)

Online == below # "offline"

\* CacheCoherent speaks of what is cached of chunk c.
Claimed(c) == cache[c] # None /\ (mode = "rwi" \/ ~cache[c].raced)

\* The part of write w in chunk c is on the target below.
Landed(w, c) == sub[w][c].ph = "done" /\ ~wq[w].err

\* A write has parts where it has cells, from its submission on.
PartInv ==
    \A w \in Writes, c \in Chunks :
       /\ WSpan[w][c] = {} \/ wq[w].st = "new" => sub[w][c].ph = "none"
       /\ sub[w][c].ph = "write" => sub[w][c].todo \subseteq WSpan[w][c]
       /\ mode = "rwi" =>
             /\ sub[w][c].ph \in {"none", "write", "done"}
             /\ wq[w].st = "busy" /\ WSpan[w][c] # {} => sub[w][c].ph = "write"

\* Locks and the queue tell which parts are at work and which wait.
LockInv ==
    mode = "rwt" =>
       /\ \A c \in Chunks : c \in locker <=> Busy(c, sub)
       /\ \A c \in Chunks, v, w \in Writes :
             AtWork(sub[v][c]) /\ AtWork(sub[w][c]) => v = w
       /\ \A c \in Chunks, w \in Writes :
             sub[w][c].ph = "pending" =>
                c \in locker /\ \E i \in DOMAIN wqs_pending : wqs_pending[i] = <<c, w>>
       /\ \A i \in DOMAIN wqs_pending :
             sub[wqs_pending[i][2]][wqs_pending[i][1]].ph = "pending"
       /\ \A i, j \in DOMAIN wqs_pending : wqs_pending[i] = wqs_pending[j] => i = j

\* A write is answered when all its parts are over.
AnswerInv ==
    /\ \A w \in Writes : wq[w].before \subseteq Answered
    /\ Online =>
          /\ \A w \in Writes, c \in Chunks :
                /\ AtWork(sub[w][c]) \/ sub[w][c].ph = "pending" => wq[w].st = "busy"
                /\ wq[w].st = "ok" /\ WSpan[w][c] # {} => Landed(w, c)
          /\ \A r \in Reads : rq[r].before \subseteq Acked

\* What has been written stays, until something newer takes its place.
DevInv ==
    /\ \A c \in Chunks, x \in Cells : dev[c][x] # Junk
    /\ Online =>
          \A w \in Writes, c \in Chunks : \A x \in WSpan[w][c] :
             (sub[w][c].ph = "write" /\ x \notin sub[w][c].todo) \/ Landed(w, c) =>
                ~Stale(dev[c][x], w)

\* What a write of RWTHandler at work in a chunk knows of it
ThroughInv ==
    mode = "rwt" /\ Online =>
       \A w \in Writes, c \in Chunks :
          /\ sub[w][c].ph = "rmw" =>
                /\ ~Claimed(c)
                /\ \A x \in Cells \ sub[w][c].todo : sub[w][c].buf[x] = dev[c][x]
          /\ sub[w][c].ph = "write" =>
                \A x \in WSpan[w][c] :
                   /\ x \notin sub[w][c].todo => dev[c][x] = w
                   /\ Claimed(c) => cache[c].buf[x] = w

\* What is cached is as new as what the target below has taken.
CacheInv ==
    Online =>
       \A c \in Chunks : Claimed(c) =>
          \A x \in Cells :
             /\ cache[c].buf[x] # Junk
             /\ \A w \in Writes :
                   x \in WSpan[w][c] /\ Landed(w, c) => ~Stale(cache[c].buf[x], w)

\* What a read of a chunk has got so far, when no write was at work in the chunk,
\* when no write was done, and in any case
ReadInv ==
    \A r \in Reads, c \in Chunks :
       LET o == rop[r][c] IN
       o.ph = "read" =>
          /\ o.seq <= seq
          /\ ~o.over => ~Busy(c, sub) /\ \A x \in Cells \ o.todo : o.buf[x] = dev[c][x]
          /\ mode = "rwi" /\ o.seq = seq =>
                \A x \in Cells \ o.todo :
                   \/ o.buf[x] = dev[c][x]
                   \/ \E w \in Writes : AtWork(sub[w][c]) /\ x \in WSpan[w][c]
          /\ Online =>
                \A x \in Cells \ o.todo :
                   /\ o.buf[x] # Junk
                   /\ \A w \in Writes :
                         /\ x \in WSpan[w][c]
                         /\ \/ w \in rq[r].before
                            \/ mode = "rwi" /\ o.seq = seq /\ Landed(w, c)
                         => ~Stale(o.buf[x], w)

\* What a client has got so far
GotInv ==
    Online =>
       \A r \in Reads : mode = "rwi" \/ ~rq[r].raced =>
          \A t \in rq[r].got :
             /\ t[3] # Junk
             /\ \A w \in rq[r].before : t[2] \in WSpan[w][t[1]] => ~Stale(t[3], w)

IInv ==
    /\ TypeOK /\ PartInv /\ LockInv /\ AnswerInv /\ DevInv /\ ThroughInv
    /\ CacheCoherent /\ CacheInv /\ ReadInv /\ GotInv
=============================================================================
