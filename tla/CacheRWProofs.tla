---------------------------- MODULE CacheRWProofs ---------------------------
(***************************************************************************)
(* What the read/write caches guarantee for any number of chunks, cells    *)
(* and requests, over a bare target and over one that goes offline.        *)
(***************************************************************************)
EXTENDS CacheRW, WellFoundedInduction, TLAPS

Entries == [buf : Buffers, raced : BOOLEAN] \cup {None}
Caches  == [Chunks -> Entries]

WQueries == [st : States, err : BOOLEAN, before : SUBSET Writes]

USE DEF States

-----------------------------------------------------------------------------
(* Buffers, parts and cached chunks *)

\* Filling a buffer, or a part of it, gives a buffer.
LEMMA BufferTypes ==
    /\ \A v \in Values : Whole(v) \in Buffers
    /\ \A b \in Buffers, xs \in SUBSET Cells, v \in Values : Over(b, xs, v) \in Buffers
    /\ Whole(Junk) \in Buffers
    /\ \A w \in Writes : Whole(w) \in Buffers
BY DEF Whole, Over, Buffers, Values

\* A part as Part() builds it
LEMMA PartTypes ==
    ASSUME NEW ph \in {"none", "pending", "rmw", "write", "done"},
           NEW todo \in SUBSET Cells
    PROVE  Part(ph, todo) \in Parts /\ Part(ph, todo).ph = ph /\ Part(ph, todo).todo = todo
BY BufferTypes DEF Part, Parts

\* The two parts that are not at work
LEMMA IdleDone ==
    /\ Idle \in Parts /\ Idle.ph = "none" /\ ~AtWork(Idle)
    /\ Done \in Parts /\ Done.ph = "done" /\ ~AtWork(Done)
BY PartTypes DEF Idle, Done, AtWork

\* A cached chunk as Entry() builds it
LEMMA EntryTypes ==
    ASSUME NEW b \in Buffers, NEW raced \in BOOLEAN
    PROVE  /\ Entry(b, raced) \in Entries /\ Entry(b, raced) # None
           /\ Entry(b, raced).buf = b /\ Entry(b, raced).raced = raced
BY ValuesAssumption DEF Entry, Entries

\* What a write covers of a chunk is cells.
LEMMA SpanTypes ==
    ASSUME NEW w \in Writes, NEW c \in Chunks
    PROVE  WSpan[w][c] \in SUBSET Cells
BY SpansAssumption

\* An update stores the chunk and may lose others; it brings none back.
LEMMA LruUpdateIs ==
    ASSUME NEW m \in Caches, NEW c \in Chunks, NEW e \in Entries,
           NEW u \in LruUpdate(m, c, e)
    PROVE  /\ u \in Caches /\ u[c] = e
           /\ \A d \in Chunks : d # c => u[d] \in {m[d], None}
<1>1. PICK D \in SUBSET (Chunks \ {c}) :
         u = [x \in Chunks |-> IF x = c THEN e ELSE IF x \in D THEN None ELSE m[x]]
  BY DEF LruUpdate
<1>2. None \in Entries  BY DEF Entries
<1> QED  BY <1>1, <1>2 DEF Caches

\* flat_lru::invalidate drops the chunks named and no other.
LEMMA InvalidatedIs ==
    ASSUME NEW m \in Caches, NEW C
    PROVE  /\ Invalidated(m, C) \in Caches
           /\ \A d \in Chunks : Invalidated(m, C)[d] = IF d \in C THEN None ELSE m[d]
<1>1. None \in Entries  BY DEF Entries
<1> QED  BY <1>1 DEF Invalidated, Caches

\* Write w starts in a chunk whose entry is e and leaves the entry new and a part:
\* the cells of w are in the entry, and the others as they were, or the chunk is
\* not cached.
StartedAs(w, c, e, new, part) ==
    \/ /\ part.ph = "write" /\ part.todo = WSpan[w][c]
       /\ new # None =>
             /\ \A x \in WSpan[w][c] : new.buf[x] = w
             /\ \A x \in Cells \ WSpan[w][c] :
                   e # None /\ new.raced = e.raced /\ new.buf[x] = e.buf[x]
    \/ part.ph = "rmw" /\ part.todo = Cells /\ new = None

\* RWTHandler::process starts the part and leaves the other chunks, but for
\* evictions.
LEMMA ProcessIs ==
    ASSUME NEW w \in Writes, NEW c \in Chunks, NEW m \in Caches, NEW n \in Nat,
           NEW o \in ProcessOutcomes(w, c, m, n)
    PROVE  /\ o \in [cache : Caches, seq : Nat, part : Parts] /\ o.seq \in {n, n + 1}
           /\ o.part \in Parts /\ o.cache \in Caches /\ AtWork(o.part)
           /\ \A d \in Chunks : d # c => o.cache[d] \in {m[d], None}
           /\ StartedAs(w, c, m[c], o.cache[c], o.part)
<1> DEFINE xs == WSpan[w][c]
<1>1. xs \in SUBSET Cells  BY SpanTypes
<1>2. /\ Part("write", xs) \in Parts /\ Part("write", xs).ph = "write"
      /\ Part("write", xs).todo = xs
      /\ Part("rmw", Cells) \in Parts /\ Part("rmw", Cells).ph = "rmw"
      /\ Part("rmw", Cells).todo = Cells
  BY <1>1, PartTypes
<1>3. CASE xs = Cells
  <2> DEFINE e == Entry(Whole(w), FALSE)
  <2>1. e \in Entries /\ e.buf = Whole(w)  BY BufferTypes, EntryTypes
  <2>2. PICK u \in LruUpdate(m, c, e) :
           o = [cache |-> u, seq |-> n + 1, part |-> Part("write", xs)]
    BY <1>3 DEF ProcessOutcomes
  <2> HIDE DEF e
  <2>3. u \in Caches /\ u[c] = e /\ \A d \in Chunks : d # c => u[d] \in {m[d], None}
    BY <2>1, <2>2, LruUpdateIs
  <2>4. o.cache = u /\ o.seq = n + 1 /\ o.part = Part("write", xs)  BY <2>2
  <2>5. \A x \in Cells : e.buf[x] = w  BY <2>1 DEF Whole
  <2>6. StartedAs(w, c, m[c], o.cache[c], o.part)
    BY <1>2, <1>3, <2>3, <2>4, <2>5 DEF StartedAs
  <2> QED  BY <1>2, <2>2, <2>3, <2>4, <2>6 DEF AtWork
<1>4. CASE xs # Cells /\ m[c] # None
  <2> DEFINE u == [m EXCEPT ![c].buf = Over(m[c].buf, xs, w)]
  <2>1. o = [cache |-> u, seq |-> n, part |-> Part("write", xs)]
    BY <1>4 DEF ProcessOutcomes
  <2>2. m[c] \in [buf : Buffers, raced : BOOLEAN]  BY <1>4 DEF Caches, Entries
  <2>3. w \in Values  BY DEF Values
  <2>4. Over(m[c].buf, xs, w) \in Buffers  BY <1>1, <2>2, <2>3, BufferTypes
  <2>5. /\ u \in Caches /\ \A d \in Chunks : d # c => u[d] = m[d]
        /\ u[c].buf = Over(m[c].buf, xs, w) /\ u[c].raced = m[c].raced
    BY <2>2, <2>4 DEF Caches, Entries
  <2> HIDE DEF u
  <2>6. \A x \in Cells : u[c].buf[x] = IF x \in xs THEN w ELSE m[c].buf[x]
    BY <2>5 DEF Over
  <2>7. o.cache = u /\ o.seq = n /\ o.part = Part("write", xs)  BY <2>1
  <2>8. StartedAs(w, c, m[c], o.cache[c], o.part)
    BY <1>1, <1>2, <1>4, <2>5, <2>6, <2>7 DEF StartedAs
  <2> QED  BY <1>2, <2>1, <2>5, <2>7, <2>8 DEF AtWork
<1>5. CASE xs # Cells /\ m[c] = None
  <2>1. o = [cache |-> m, seq |-> n, part |-> Part("rmw", Cells)]
    BY <1>5 DEF ProcessOutcomes
  <2>2. o.cache = m /\ o.seq = n /\ o.part = Part("rmw", Cells)  BY <2>1
  <2> QED  BY <1>2, <1>5, <2>1, <2>2 DEF AtWork, StartedAs
<1> QED  BY <1>3, <1>4, <1>5

\* The completer of a read that the target refuses has no error to see.
LEMMA RefusedIs ==
    ASSUME NEW w \in Writes, NEW c \in Chunks, NEW m \in Caches, NEW n \in Nat,
           NEW p \in RefusedOutcomes(w, c, m, n)
    PROVE  p.cache \in Caches /\ p.seq \in Nat /\ n <= p.seq
<1>1. PICK o \in ProcessOutcomes(w, c, m, n) :
         p \in IF o.part.ph = "write" THEN {[o EXCEPT !.part = Done]}
               ELSE {[cache |-> u, seq |-> n + 1, part |-> Done] :
                   u \in LruUpdate(m, c, Entry(Over(Whole(Junk), WSpan[w][c], w), FALSE))}
  BY DEF RefusedOutcomes
<1>2. o.cache \in Caches /\ o.seq \in {n, n + 1}  BY ProcessIs
<1>3. CASE o.part.ph = "write"
  <2>1. p = [o EXCEPT !.part = Done]  BY <1>1, <1>3
  <2>2. o \in [cache : Caches, seq : Nat, part : Parts]  BY ProcessIs
  <2>3. p.cache = o.cache /\ p.seq = o.seq  BY <2>1, <2>2
  <2> QED  BY <1>2, <2>3
<1>4. CASE o.part.ph # "write"
  <2> DEFINE e == Entry(Over(Whole(Junk), WSpan[w][c], w), FALSE)
  <2>1. e \in Entries
    <3>1. w \in Values  BY DEF Values
    <3>2. Over(Whole(Junk), WSpan[w][c], w) \in Buffers  BY <3>1, SpanTypes, BufferTypes
    <3> QED  BY <3>2, EntryTypes
  <2>2. PICK u \in LruUpdate(m, c, e) : p = [cache |-> u, seq |-> n + 1, part |-> Done]
    BY <1>1, <1>4
  <2> HIDE DEF e
  <2>3. u \in Caches  BY <2>1, <2>2, LruUpdateIs
  <2> QED  BY <2>2, <2>3
<1> QED  BY <1>3, <1>4

-----------------------------------------------------------------------------
(* The loop of RWTHandler::submit *)

\* A set of natural numbers has a least element.
LEMMA LeastNatural ==
    ASSUME NEW T \in SUBSET Nat, T # {}
    PROVE  \E n \in T : \A m \in T : n <= m
<1> DEFINE R == OpToRel(<, Nat)
<1>1. \A m, n \in Nat : m < n => <<m, n>> \in R  BY DEF OpToRel
<1>2. IsWellFoundedOn(R, Nat)  BY NatLessThanWellFounded
<1> HIDE DEF R
<1>3. PICK n \in T : \A m \in T : <<m, n>> \notin R  BY <1>2, WFMin
<1>4. \A m \in T : ~(m < n)  BY <1>1, <1>3
<1> QED  BY <1>3, <1>4

\* The equation that defines Turns, for k turns
AfterTurn(w, g, n) ==
    IF n = 0 THEN {BeforeTurns} ELSE UNION {Turn(w, n - 1, o) : o \in g[n - 1]}
SolvesTurns(w, k, g) == g = [n \in 0..k |-> AfterTurn(w, g, n)]

\* It has a solution for any number of turns: one for k - 1 extends to k.
LEMMA TurnsSolvable ==
    ASSUME NEW w, NEW k \in Nat
    PROVE  \E g : SolvesTurns(w, k, g)
<1> DEFINE T == {n \in Nat : ~ \E g : SolvesTurns(w, n, g)}
<1> SUFFICES ASSUME T # {} PROVE FALSE  OBVIOUS
<1>1. PICK m \in T : \A n \in T : m <= n  BY LeastNatural
<1>2. m # 0
  <2> DEFINE h == [n \in 0..0 |-> {BeforeTurns}]
  <2>1. SolvesTurns(w, 0, h)  BY DEF SolvesTurns, AfterTurn
  <2> QED  BY <2>1
<1>3. m \in Nat /\ m - 1 \in Nat /\ m - 1 \notin T  BY <1>1, <1>2
<1>4. PICK g : SolvesTurns(w, m - 1, g)  BY <1>3
<1> DEFINE h == [n \in 0..m |-> AfterTurn(w, g, n)]
<1>5. ASSUME NEW n \in 0..m PROVE AfterTurn(w, h, n) = AfterTurn(w, g, n)
  <2>1. CASE n = 0  BY <2>1 DEF AfterTurn
  <2>2. CASE n # 0
    <3>1. n - 1 \in 0..(m - 1) /\ n - 1 \in 0..m  BY <1>3, <2>2
    <3>2. g[n - 1] = AfterTurn(w, g, n - 1)  BY <1>4, <3>1 DEF SolvesTurns
    <3>3. h[n - 1] = g[n - 1]  BY <3>1, <3>2
    <3> QED  BY <2>2, <3>3 DEF AfterTurn
  <2> QED  BY <2>1, <2>2
<1>6. SolvesTurns(w, m, h)  BY <1>5 DEF SolvesTurns
<1> QED  BY <1>1, <1>6

\* So the loop, turn by turn, leaves what its definition says.
LEMMA TurnsIs ==
    ASSUME NEW w
    PROVE  /\ Turns(w)[0] = {BeforeTurns}
           /\ \A k \in 1..NChunks :
                 Turns(w)[k] = UNION {Turn(w, k - 1, o) : o \in Turns(w)[k - 1]}
<1>1. NChunks \in Nat  BY ChunksAssumption
<1>2. Turns(w) = CHOOSE g : SolvesTurns(w, NChunks, g)
  BY DEF Turns, SolvesTurns, AfterTurn
<1>3. SolvesTurns(w, NChunks, Turns(w))  BY <1>1, <1>2, TurnsSolvable
<1>4. \A n \in 0..NChunks : Turns(w)[n] = AfterTurn(w, Turns(w), n)
  BY <1>3 DEF SolvesTurns
<1>5. Turns(w)[0] = {BeforeTurns}
  <2>1. 0 \in 0..NChunks  BY <1>1
  <2> QED  BY <1>4, <2>1 DEF AfterTurn
<1>6. ASSUME NEW k \in 1..NChunks
      PROVE  Turns(w)[k] = UNION {Turn(w, k - 1, o) : o \in Turns(w)[k - 1]}
  <2>1. k \in 0..NChunks /\ k # 0  BY <1>1
  <2> QED  BY <1>4, <2>1 DEF AfterTurn
<1> QED  BY <1>5, <1>6

\* What the loop has done for write w when n turns are over and left o: the chunks
\* it found free are locked and started, those it found locked are waited for.
TurnedIn(w, n, o, c) ==
    /\ c \in o.locked <=> c \in locker \/ AtWork(o.parts[c])
    /\ AtWork(o.parts[c]) =>
          /\ c \notin locker /\ below # "offline"
          /\ StartedAs(w, c, cache[c], o.cache[c], o.parts[c])
    /\ o.parts[c].ph = "pending" =>
          /\ c \in locker
          /\ \E i \in (Len(wqs_pending) + 1)..Len(o.pend) : o.pend[i] = <<c, w>>
    /\ WSpan[w][c] = {} \/ n <= c => o.parts[c].ph = "none"
    /\ o.parts[c].ph = "done" => below = "offline"
    /\ below # "offline" /\ ~AtWork(o.parts[c]) => o.cache[c] \in {cache[c], None}

Turned(w, n, o) ==
    /\ o \in [cache : Caches, seq : Nat, parts : [Chunks -> Parts],
              pend : Seq(Chunks \X Writes), locked : SUBSET Chunks, refused : BOOLEAN]
    /\ seq <= o.seq
    /\ o.refused => below = "offline"
    /\ \A c \in Chunks : TurnedIn(w, n, o, c)
    /\ Len(wqs_pending) <= Len(o.pend)
    /\ \A i \in 1..Len(wqs_pending) : o.pend[i] = wqs_pending[i]
    /\ \A i \in (Len(wqs_pending) + 1)..Len(o.pend) :
          o.pend[i][2] = w /\ o.pend[i][1] < n /\ o.parts[o.pend[i][1]].ph = "pending"
    /\ \A i, j \in (Len(wqs_pending) + 1)..Len(o.pend) : o.pend[i] = o.pend[j] => i = j

\* The chunk just written may leave the cache again.
LEMMA StartedLess ==
    ASSUME NEW w, NEW c, NEW e, NEW new, NEW part, StartedAs(w, c, e, new, part)
    PROVE  StartedAs(w, c, e, None, part)
BY DEF StartedAs

\* Before its first turn the loop has done nothing.
LEMMA BeginTurned ==
    ASSUME TypeOK, NEW w \in Writes
    PROVE  Turned(w, 0, BeforeTurns)
<1> DEFINE o == BeforeTurns
<1>1. /\ o.cache = cache /\ o.seq = seq /\ o.pend = wqs_pending /\ o.locked = locker
      /\ o.refused = FALSE /\ o.parts = [c \in Chunks |-> Idle]
  BY DEF BeforeTurns
<1>2. o \in [cache : Caches, seq : Nat, parts : [Chunks -> Parts],
             pend : Seq(Chunks \X Writes), locked : SUBSET Chunks, refused : BOOLEAN]
  BY IdleDone DEF TypeOK, BeforeTurns, Caches, Entries
<1>3. \A c \in Chunks : o.parts[c].ph = "none" /\ ~AtWork(o.parts[c])
  BY <1>1, IdleDone
<1>4. Len(wqs_pending) \in Nat  BY DEF TypeOK
<1>5. seq \in Nat  BY DEF TypeOK
<1> HIDE DEF o
<1>6. \A c \in Chunks : TurnedIn(w, 0, o, c)  BY <1>1, <1>3 DEF TurnedIn
<1>7. /\ Len(wqs_pending) <= Len(o.pend) /\ seq <= o.seq
      /\ (Len(wqs_pending) + 1)..Len(o.pend) = {}
  BY <1>1, <1>4, <1>5
<1> QED  BY <1>1, <1>2, <1>6, <1>7 DEF Turned, o

\* A turn that finds the chunk locked queues the part.
LEMMA WaitTurned ==
    ASSUME TypeOK, NEW w \in Writes, NEW n \in Chunks, NEW o, Turned(w, n, o),
           n \in locker, WSpan[w][n] # {},
           NEW z, z = [o EXCEPT !.parts[n] = Part("pending", {}),
                                !.pend = Append(o.pend, <<n, w>>)]
    PROVE  Turned(w, n + 1, z)
<1> DEFINE p == Part("pending", {})
           l == Len(wqs_pending)
<1>1. /\ o \in [cache : Caches, seq : Nat, parts : [Chunks -> Parts],
                pend : Seq(Chunks \X Writes), locked : SUBSET Chunks, refused : BOOLEAN]
      /\ l <= Len(o.pend) /\ \A i \in 1..l : o.pend[i] = wqs_pending[i]
  BY DEF Turned
<1>2. p \in Parts /\ p.ph = "pending" /\ ~AtWork(p)  BY PartTypes DEF AtWork
<1>3. n \in Nat /\ Chunks \subseteq Nat /\ l \in Nat  BY DEF Chunks, TypeOK
<1>4. /\ Append(o.pend, <<n, w>>) \in Seq(Chunks \X Writes)
      /\ Len(Append(o.pend, <<n, w>>)) = Len(o.pend) + 1
      /\ \A i \in 1..Len(o.pend) : Append(o.pend, <<n, w>>)[i] = o.pend[i]
      /\ Append(o.pend, <<n, w>>)[Len(o.pend) + 1] = <<n, w>>
      /\ Len(o.pend) \in Nat
  BY <1>1
<1> HIDE DEF p
<1>5. /\ z.cache = o.cache /\ z.seq = o.seq /\ z.locked = o.locked /\ z.refused = o.refused
      /\ z.parts[n] = p /\ \A c \in Chunks : c # n => z.parts[c] = o.parts[c]
      /\ z.pend = Append(o.pend, <<n, w>>)
      /\ z \in [cache : Caches, seq : Nat, parts : [Chunks -> Parts],
                pend : Seq(Chunks \X Writes), locked : SUBSET Chunks, refused : BOOLEAN]
  BY <1>1, <1>2, <1>4 DEF p
<1>6. o.parts[n].ph = "none" /\ ~AtWork(o.parts[n])
  <2>1. o.parts[n].ph = "none"  BY <1>3 DEF Turned, TurnedIn
  <2> QED  BY <2>1 DEF AtWork
<1>7. /\ Len(z.pend) = Len(o.pend) + 1 /\ z.pend[Len(o.pend) + 1] = <<n, w>>
      /\ \A i \in 1..Len(o.pend) : z.pend[i] = o.pend[i]
  BY <1>4, <1>5
<1>8. ASSUME NEW c \in Chunks
      PROVE  TurnedIn(w, n + 1, z, c)
  <2>1. CASE c = n
    <3>1. Len(o.pend) + 1 \in (l + 1)..Len(z.pend)  BY <1>1, <1>3, <1>4, <1>7
    <3>2. z.parts[c] = p  BY <1>5, <2>1
    <3>3. ~(n + 1 <= c)  BY <1>3, <2>1
    <3>4. c \in o.locked <=> c \in locker \/ AtWork(o.parts[c])  BY DEF Turned, TurnedIn
    <3>5. below # "offline" => o.cache[c] \in {cache[c], None}  BY <1>6, <2>1 DEF Turned, TurnedIn
    <3>6. \E i \in (l + 1)..Len(z.pend) : z.pend[i] = <<c, w>>  BY <1>7, <2>1, <3>1
    <3> QED  BY <1>2, <1>5, <1>6, <2>1, <3>2, <3>3, <3>4, <3>5, <3>6 DEF TurnedIn
  <2>2. CASE c # n
    <3>1. z.parts[c] = o.parts[c]  BY <1>5, <2>2
    <3>2. ASSUME o.parts[c].ph = "pending"
          PROVE  \E i \in (l + 1)..Len(z.pend) : z.pend[i] = <<c, w>>
      <4>1. PICK i \in (l + 1)..Len(o.pend) : o.pend[i] = <<c, w>>
        BY <3>2 DEF Turned, TurnedIn
      <4>2. i \in (l + 1)..Len(z.pend) /\ i \in 1..Len(o.pend)
        <5> HIDE DEF l
        <5> QED  BY <1>3, <1>4, <1>7, SMTT(30)
      <4> QED  BY <1>7, <4>1, <4>2
    <3>3. n + 1 <= c => n <= c  BY <1>3
    <3>4. TurnedIn(w, n, o, c)  BY DEF Turned
    <3> QED  BY <1>5, <3>1, <3>2, <3>3, <3>4 DEF TurnedIn
  <2> QED  BY <2>1, <2>2
<1>9. \A i \in 1..l : z.pend[i] = wqs_pending[i]
  <2>1. \A i \in 1..l : i \in 1..Len(o.pend)  BY <1>1, <1>3, <1>4
  <2> QED  BY <1>1, <1>7, <2>1
<1>10. \A i \in (l + 1)..Len(z.pend) :
          i = Len(o.pend) + 1 \/ (i \in (l + 1)..Len(o.pend) /\ i \in 1..Len(o.pend))
  BY <1>1, <1>3, <1>4, <1>7
<1>11. ASSUME NEW i \in (l + 1)..Len(z.pend)
       PROVE  z.pend[i][2] = w /\ z.pend[i][1] < n + 1 /\ z.parts[z.pend[i][1]].ph = "pending"
  <2>1. CASE i = Len(o.pend) + 1  BY <1>2, <1>3, <1>5, <1>7, <2>1
  <2>2. CASE i \in (l + 1)..Len(o.pend) /\ i \in 1..Len(o.pend)
    <3>1. o.pend[i] \in Chunks \X Writes  BY <1>1, <2>2
    <3>2. o.pend[i][2] = w /\ o.pend[i][1] < n /\ o.parts[o.pend[i][1]].ph = "pending"
      BY <2>2 DEF Turned
    <3>3. o.pend[i][1] \in Chunks /\ o.pend[i][1] \in Nat /\ o.pend[i][1] # n
      BY <1>3, <3>1, <3>2
    <3> QED  BY <1>3, <1>5, <1>7, <2>2, <3>2, <3>3
  <2> QED  BY <1>10, <2>1, <2>2
<1>12. ASSUME NEW i \in (l + 1)..Len(z.pend), NEW j \in (l + 1)..Len(z.pend),
              z.pend[i] = z.pend[j]
       PROVE  i = j
  <2>1. ASSUME NEW k \in (l + 1)..Len(o.pend), k \in 1..Len(o.pend)
        PROVE  z.pend[k] # <<n, w>>
    <3>1. o.pend[k] \in Chunks \X Writes  BY <1>1, <2>1
    <3>2. o.pend[k][1] < n  BY DEF Turned
    <3>3. o.pend[k][1] \in Nat  BY <1>3, <3>1
    <3> QED  BY <1>3, <1>7, <2>1, <3>2, <3>3
  <2>2. CASE i = Len(o.pend) + 1 \/ j = Len(o.pend) + 1
    BY <1>7, <1>10, <1>12, <2>1, <2>2
  <2>3. CASE i # Len(o.pend) + 1 /\ j # Len(o.pend) + 1
    <3>1. /\ i \in (l + 1)..Len(o.pend) /\ i \in 1..Len(o.pend)
          /\ j \in (l + 1)..Len(o.pend) /\ j \in 1..Len(o.pend)
      BY <1>10, <2>3
    <3>2. o.pend[i] = o.pend[j]  BY <1>7, <1>12, <3>1
    <3> QED  BY <3>1, <3>2 DEF Turned
  <2> QED  BY <2>2, <2>3
<1>13. l <= Len(z.pend) /\ seq <= z.seq /\ (z.refused => below = "offline")
  BY <1>1, <1>3, <1>4, <1>5, <1>7 DEF Turned
<1> QED  BY <1>5, <1>8, <1>9, <1>11, <1>12, <1>13 DEF Turned

\* A chunk that an earlier turn dropped starts like one never cached.
LEMMA StartedFrom ==
    ASSUME NEW w, NEW c, NEW f, NEW e, NEW new, NEW part, e \in {f, None},
           StartedAs(w, c, e, new, part)
    PROVE  StartedAs(w, c, f, new, part)
BY DEF StartedAs

\* A turn that finds the chunk free locks it and starts the part there.
LEMMA TakeTurned ==
    ASSUME TypeOK, NEW w \in Writes, NEW n \in Chunks, NEW o, Turned(w, n, o),
           n \notin locker, WSpan[w][n] # {}, below # "offline",
           NEW p \in ProcessOutcomes(w, n, o.cache, o.seq),
           NEW z, z = [o EXCEPT !.cache = p.cache, !.seq = p.seq, !.parts[n] = p.part,
                                !.locked = o.locked \cup {n}]
    PROVE  Turned(w, n + 1, z)
<1>1. /\ o \in [cache : Caches, seq : Nat, parts : [Chunks -> Parts],
                pend : Seq(Chunks \X Writes), locked : SUBSET Chunks, refused : BOOLEAN]
      /\ seq <= o.seq /\ seq \in Nat
  BY DEF Turned, TypeOK
<1>2. /\ p.part \in Parts /\ AtWork(p.part) /\ p.cache \in Caches /\ p.seq \in {o.seq, o.seq + 1}
      /\ \A d \in Chunks : d # n => p.cache[d] \in {o.cache[d], None}
      /\ StartedAs(w, n, o.cache[n], p.cache[n], p.part)
  BY <1>1, ProcessIs
<1>3. n \in Nat /\ Chunks \subseteq Nat  BY DEF Chunks
<1>a. p.seq \in Nat /\ o.locked \cup {n} \in SUBSET Chunks  BY <1>1, <1>2
<1>b. [o.parts EXCEPT ![n] = p.part] \in [Chunks -> Parts]  BY <1>1, <1>2
<1>4. /\ z.cache = p.cache /\ z.seq = p.seq /\ z.locked = o.locked \cup {n}
      /\ z.refused = o.refused /\ z.pend = o.pend
      /\ z.parts[n] = p.part /\ \A c \in Chunks : c # n => z.parts[c] = o.parts[c]
      /\ z \in [cache : Caches, seq : Nat, parts : [Chunks -> Parts],
                pend : Seq(Chunks \X Writes), locked : SUBSET Chunks, refused : BOOLEAN]
  BY <1>1, <1>2, <1>a, <1>b
<1>5. o.parts[n].ph = "none" /\ ~AtWork(o.parts[n]) /\ o.cache[n] \in {cache[n], None}
  <2>1. o.parts[n].ph = "none"  BY <1>3 DEF Turned, TurnedIn
  <2> QED  BY <2>1 DEF AtWork, Turned, TurnedIn
<1>6. ASSUME NEW c \in Chunks
      PROVE  TurnedIn(w, n + 1, z, c)
  <2>0. TurnedIn(w, n, o, c)  BY DEF Turned
  <2>1. CASE c = n
    <3>1. StartedAs(w, n, cache[n], z.cache[n], z.parts[n])
      BY <1>2, <1>4, <1>5, StartedFrom
    <3>2. ~(n + 1 <= c)  BY <1>3, <2>1
    <3> QED  BY <1>2, <1>4, <2>1, <3>1, <3>2 DEF TurnedIn, AtWork
  <2>2. CASE c # n
    <3>1. z.parts[c] = o.parts[c] /\ z.cache[c] \in {o.cache[c], None}
      BY <1>2, <1>4, <2>2
    <3>2. n + 1 <= c => n <= c  BY <1>3
    <3>3. AtWork(z.parts[c]) => StartedAs(w, c, cache[c], z.cache[c], z.parts[c])
      BY <2>0, <3>1, StartedLess DEF TurnedIn
    <3> QED  BY <1>4, <2>0, <2>2, <3>1, <3>2, <3>3 DEF TurnedIn
  <2> QED  BY <2>1, <2>2
<1>7. ASSUME NEW i \in (Len(wqs_pending) + 1)..Len(z.pend)
       PROVE  z.pend[i][2] = w /\ z.pend[i][1] < n + 1 /\ z.parts[z.pend[i][1]].ph = "pending"
  <2>1. z.pend[i] = o.pend[i] /\ i \in (Len(wqs_pending) + 1)..Len(o.pend)  BY <1>4
  <2>2. o.pend[i] \in Chunks \X Writes
    <3>1. Len(wqs_pending) \in Nat  BY DEF TypeOK
    <3>2. i \in 1..Len(o.pend)  BY <2>1, <3>1
    <3> QED  BY <1>1, <3>2
  <2>3. o.pend[i][2] = w /\ o.pend[i][1] < n /\ o.parts[o.pend[i][1]].ph = "pending"
    BY <2>1 DEF Turned
  <2>4. o.pend[i][1] \in Chunks /\ o.pend[i][1] \in Nat /\ o.pend[i][1] # n
    BY <1>3, <2>2, <2>3
  <2> QED  BY <1>3, <1>4, <2>1, <2>3, <2>4
<1>8. seq <= z.seq  BY <1>1, <1>2, <1>4
<1> QED  BY <1>4, <1>6, <1>7, <1>8 DEF Turned

\* A turn that is refused ends the loop with its part over.
LEMMA RefuseTurned ==
    ASSUME TypeOK, NEW w \in Writes, NEW n \in Chunks, NEW o, Turned(w, n, o),
           n \notin locker, WSpan[w][n] # {}, below = "offline",
           NEW p \in RefusedOutcomes(w, n, o.cache, o.seq),
           NEW z, z = [o EXCEPT !.cache = p.cache, !.seq = p.seq, !.parts[n] = Done,
                                !.refused = TRUE]
    PROVE  Turned(w, n + 1, z)
<1>1. /\ o \in [cache : Caches, seq : Nat, parts : [Chunks -> Parts],
                pend : Seq(Chunks \X Writes), locked : SUBSET Chunks, refused : BOOLEAN]
      /\ seq <= o.seq /\ seq \in Nat
  BY DEF Turned, TypeOK
<1>2. p.cache \in Caches /\ p.seq \in Nat /\ o.seq <= p.seq
  BY <1>1, RefusedIs
<1>3. n \in Nat /\ Chunks \subseteq Nat  BY DEF Chunks
<1>4. /\ z.cache = p.cache /\ z.seq = p.seq /\ z.locked = o.locked
      /\ z.refused = TRUE /\ z.pend = o.pend
      /\ z.parts[n] = Done /\ \A c \in Chunks : c # n => z.parts[c] = o.parts[c]
      /\ z \in [cache : Caches, seq : Nat, parts : [Chunks -> Parts],
                pend : Seq(Chunks \X Writes), locked : SUBSET Chunks, refused : BOOLEAN]
  BY <1>1, <1>2, IdleDone
<1>5. o.parts[n].ph = "none" /\ ~AtWork(o.parts[n])
  <2>1. o.parts[n].ph = "none"  BY <1>3 DEF Turned, TurnedIn
  <2> QED  BY <2>1 DEF AtWork
<1>6. ASSUME NEW c \in Chunks
      PROVE  TurnedIn(w, n + 1, z, c)
  <2>0. TurnedIn(w, n, o, c)  BY DEF Turned
  <2>1. CASE c = n
    <3>2. ~(n + 1 <= c)  BY <1>3, <2>1
    <3> QED  BY <1>4, <1>5, <2>0, <2>1, <3>2, IdleDone DEF TurnedIn
  <2>2. CASE c # n
    <3>1. z.parts[c] = o.parts[c]  BY <1>4, <2>2
    <3>2. n + 1 <= c => n <= c  BY <1>3
    <3> QED  BY <1>4, <2>0, <2>2, <3>1, <3>2 DEF TurnedIn
  <2> QED  BY <2>1, <2>2
<1>7. ASSUME NEW i \in (Len(wqs_pending) + 1)..Len(z.pend)
       PROVE  z.pend[i][2] = w /\ z.pend[i][1] < n + 1 /\ z.parts[z.pend[i][1]].ph = "pending"
  <2>1. z.pend[i] = o.pend[i] /\ i \in (Len(wqs_pending) + 1)..Len(o.pend)  BY <1>4
  <2>2. o.pend[i] \in Chunks \X Writes
    <3>1. Len(wqs_pending) \in Nat  BY DEF TypeOK
    <3>2. i \in 1..Len(o.pend)  BY <2>1, <3>1
    <3> QED  BY <1>1, <3>2
  <2>3. o.pend[i][2] = w /\ o.pend[i][1] < n /\ o.parts[o.pend[i][1]].ph = "pending"
    BY <2>1 DEF Turned
  <2>4. o.pend[i][1] \in Chunks /\ o.pend[i][1] \in Nat /\ o.pend[i][1] # n
    BY <1>3, <2>2, <2>3
  <2> QED  BY <1>3, <1>4, <2>1, <2>3, <2>4
<1>8. seq <= z.seq  BY <1>1, <1>2, <1>4
<1> QED  BY <1>4, <1>6, <1>7, <1>8 DEF Turned

\* A turn without cells, or after a refusal, does nothing.
LEMMA SkipTurned ==
    ASSUME TypeOK, NEW w \in Writes, NEW n \in Chunks, NEW o, Turned(w, n, o)
    PROVE  WSpan[w][n] = {} \/ o.refused => Turned(w, n + 1, o)
<1>1. n \in Nat /\ Chunks \subseteq Nat  BY DEF Chunks
<1>2. ASSUME NEW c \in Chunks PROVE TurnedIn(w, n + 1, o, c)
  <2>1. TurnedIn(w, n, o, c)  BY DEF Turned
  <2>2. n + 1 <= c => n <= c  BY <1>1
  <2> QED  BY <2>1, <2>2 DEF TurnedIn
<1>3. ASSUME NEW i \in (Len(wqs_pending) + 1)..Len(o.pend)
      PROVE  o.pend[i][1] < n + 1
  <2>1. Len(wqs_pending) \in Nat /\ o.pend \in Seq(Chunks \X Writes)
    BY DEF TypeOK, Turned
  <2>2. i \in 1..Len(o.pend)  BY <2>1
  <2>a. o.pend[i] \in Chunks \X Writes  BY <2>1, <2>2
  <2>3. o.pend[i][1] \in Nat  BY <1>1, <2>a
  <2>4. o.pend[i][1] < n  BY DEF Turned
  <2> QED  BY <1>1, <2>3, <2>4
<1> QED  BY <1>2, <1>3 DEF Turned

\* What the loop leaves when it is over
LEMMA LoopTurned ==
    ASSUME TypeOK, NEW w \in Writes, NEW o \in Turns(w)[NChunks]
    PROVE  Turned(w, NChunks, o)
<1> DEFINE T == {k \in Nat : k <= NChunks /\ \E z \in Turns(w)[k] : ~Turned(w, k, z)}
<1>0. NChunks \in Nat  BY ChunksAssumption
<1> SUFFICES ASSUME T # {} PROVE FALSE  BY <1>0
<1>1. PICK k \in T : \A m \in T : k <= m  BY LeastNatural
<1>2. k \in Nat /\ k <= NChunks  BY <1>1
<1>3. PICK z \in Turns(w)[k] : ~Turned(w, k, z)  BY <1>1
<1>4. k # 0
  <2>1. Turns(w)[0] = {BeforeTurns}  BY TurnsIs
  <2> QED  BY <1>3, <2>1, BeginTurned
<1>5. k \in 1..NChunks /\ k - 1 \in Chunks /\ k - 1 \in Nat /\ (k - 1) + 1 = k
  BY <1>0, <1>2, <1>4 DEF Chunks
<1>6. PICK y \in Turns(w)[k - 1] : z \in Turn(w, k - 1, y)
  <2>1. Turns(w)[k] = UNION {Turn(w, k - 1, y) : y \in Turns(w)[k - 1]}
    BY <1>5, TurnsIs
  <2> QED  BY <1>3, <2>1
<1>7. Turned(w, k - 1, y)
  <2>1. k - 1 \notin T  BY <1>1, <1>2, <1>5
  <2> QED  BY <1>0, <1>2, <1>5, <1>6, <2>1
<1> DEFINE n == k - 1
<1>8. Turned(w, n + 1, z)
  <2>1. n \in Chunks  BY <1>5
  <2> HIDE DEF n
  <2>2. z \in Turn(w, n, y) /\ Turned(w, n, y)  BY <1>6, <1>7 DEF n
  <2>3. CASE WSpan[w][n] = {} \/ y.refused
    <3>1. z = y  BY <2>2, <2>3 DEF Turn
    <3> QED  BY <2>1, <2>2, <2>3, <3>1, SkipTurned
  <2>4. CASE ~(WSpan[w][n] = {} \/ y.refused) /\ n \in locker
    <3>1. z = [y EXCEPT !.parts[n] = Part("pending", {}),
                        !.pend = Append(y.pend, <<n, w>>)]
      BY <2>2, <2>4 DEF Turn
    <3> QED  BY <2>1, <2>2, <2>4, <3>1, WaitTurned
  <2>5. CASE ~(WSpan[w][n] = {} \/ y.refused) /\ n \notin locker /\ below = "offline"
    <3>1. PICK p \in RefusedOutcomes(w, n, y.cache, y.seq) :
             z = [y EXCEPT !.cache = p.cache, !.seq = p.seq, !.parts[n] = Done,
                           !.refused = TRUE]
      BY <2>2, <2>5 DEF Turn
    <3> QED  BY <2>1, <2>2, <2>5, <3>1, RefuseTurned
  <2>6. CASE ~(WSpan[w][n] = {} \/ y.refused) /\ n \notin locker /\ below # "offline"
    <3>1. PICK p \in ProcessOutcomes(w, n, y.cache, y.seq) :
             z = [y EXCEPT !.cache = p.cache, !.seq = p.seq, !.parts[n] = p.part,
                           !.locked = y.locked \cup {n}]
      BY <2>2, <2>6 DEF Turn
    <3> QED  BY <2>1, <2>2, <2>6, <3>1, TakeTurned
  <2> QED  BY <2>3, <2>4, <2>5, <2>6
<1> QED  BY <1>3, <1>5, <1>8

-----------------------------------------------------------------------------
(* The end of a part *)

\* s has the entries of q but the one at i, each in one place.
ErasedAt(S, q, i, s) ==
    /\ s \in Seq(S) /\ DOMAIN s = 1..(Len(q) - 1)
    /\ \A k \in 1..(Len(q) - 1) : \E j \in 1..Len(q) : j # i /\ s[k] = q[j]
    /\ \A j \in 1..Len(q) : j # i => \E k \in 1..(Len(q) - 1) : s[k] = q[j]
    /\ (\A j, k \in 1..Len(q) : q[j] = q[k] => j = k) =>
          \A j, k \in 1..(Len(q) - 1) : s[j] = s[k] => j = k

\* iter_swap and pop_back keep the other pending writes.
LEMMA SwapEraseIs ==
    ASSUME NEW S, NEW q \in Seq(S), NEW i \in 1..Len(q)
    PROVE  ErasedAt(S, q, i, SwapErase(q, i))
<1> DEFINE s == SwapErase(q, i)
           n == Len(q)
<1>1. n \in Nat /\ n > 0  OBVIOUS
<1>2. \A k \in 1..(n - 1) : s[k] = IF k = i THEN q[n] ELSE q[k]
  BY DEF SwapErase
<1>3. s \in Seq(S) /\ DOMAIN s = 1..(n - 1)
  <2>1. \A k \in 1..(n - 1) : s[k] \in S  BY <1>1, <1>2
  <2> QED  BY <1>1, <2>1 DEF SwapErase
<1> HIDE DEF s
<1>4. ASSUME NEW k \in 1..(n - 1) PROVE \E j \in 1..n : j # i /\ s[k] = q[j]
  <2>1. CASE k = i
    <3>1. n \in 1..n /\ n # i /\ s[k] = q[n]  BY <1>1, <1>2, <2>1
    <3> QED  BY <3>1
  <2>2. CASE k # i
    <3>1. k \in 1..n /\ s[k] = q[k]  BY <1>1, <1>2, <2>2
    <3> QED  BY <2>2, <3>1
  <2> QED  BY <2>1, <2>2
<1>5. ASSUME NEW j \in 1..n, j # i PROVE \E k \in 1..(n - 1) : s[k] = q[j]
  <2>1. CASE j = n
    <3>1. i \in 1..(n - 1)  BY <1>1, <1>5, <2>1
    <3> QED  BY <1>2, <2>1, <3>1
  <2>2. CASE j # n
    <3>1. j \in 1..(n - 1)  BY <1>1, <2>2
    <3> QED  BY <1>2, <1>5, <3>1
  <2> QED  BY <2>1, <2>2
<1>6. ASSUME \A j, k \in 1..n : q[j] = q[k] => j = k,
             NEW j \in 1..(n - 1), NEW k \in 1..(n - 1), s[j] = s[k]
      PROVE  j = k
  <2>1. j \in 1..n /\ k \in 1..n /\ n \in 1..n /\ j # n /\ k # n  BY <1>1
  <2> QED  BY <1>2, <1>6, <2>1
<1> QED  BY <1>3, <1>4, <1>5, <1>6 DEF s, ErasedAt

\* What the end of a part does to its query
LEMMA AnswerIs ==
    ASSUME NEW q \in WQueries, NEW last \in BOOLEAN, NEW err \in BOOLEAN
    PROVE  /\ Answer(q, last, err) \in WQueries
           /\ Answer(q, last, err).before = q.before
           /\ Answer(q, last, err).err <=> q.err \/ err
           /\ ~last => Answer(q, last, err).st = q.st
           /\ last => Answer(q, last, err).st \in {"ok", "err"}
           /\ last /\ Answer(q, last, err).st = "ok" => ~(q.err \/ err)
<1>1. (q.err \/ err) \in BOOLEAN  OBVIOUS
<1>2. CASE last
  <2>1. Answer(q, last, err) =
           [q EXCEPT !.err = q.err \/ err, !.st = IF q.err \/ err THEN "err" ELSE "ok"]
    BY <1>2 DEF Answer
  <2> QED  BY <1>1, <1>2, <2>1 DEF WQueries
<1>3. CASE ~last
  <2>1. Answer(q, last, err) = [q EXCEPT !.err = q.err \/ err, !.st = q.st]
    BY <1>3 DEF Answer
  <2> QED  BY <1>1, <1>3, <2>1 DEF WQueries
<1> QED  BY <1>2, <1>3

\* The three ways FinishPart may go, m being the cache it finds: nobody waits and
\* the chunk is free, the next write takes it over, or the process dies.
Frees(w, c, err, m) ==
    /\ locker' = locker \ {c} /\ wqs_pending' = wqs_pending /\ NonePending(c)
    /\ sub'[w][c] = Done
    /\ \A u \in Writes, d \in Chunks : u # w \/ d # c => sub'[u][d] = sub[u][d]
    /\ cache'[c] \in {m[c], None}
HandsOver(w, c, err, m, v) ==
    /\ locker' = locker
    /\ \E i \in 1..Len(wqs_pending) :
          wqs_pending[i] = <<c, v>> /\ wqs_pending' = SwapErase(wqs_pending, i)
    /\ sub[v][c].ph = "pending" /\ v # w
    /\ sub'[w][c] = Done /\ AtWork(sub'[v][c])
    /\ \A u \in Writes, d \in Chunks :
          (u # w /\ u # v) \/ d # c => sub'[u][d] = sub[u][d]
    /\ StartedAs(v, c, m[c], cache'[c], sub'[v][c])
Finishes(w, c, err, m) ==
    /\ Frees(w, c, err, m) \/ \E v \in Writes : HandsOver(w, c, err, m, v)
    /\ \A d \in Chunks : d # c => cache'[d] \in {m[d], None}
    /\ err => cache'[c] = None
Dies(b) == b = "offline" /\ UNCHANGED <<cache, seq, locker, wqs_pending, sub>>

\* The types of the write queries, the parts and the cache
Typed ==
    /\ cache \in Caches /\ seq \in Nat /\ locker \subseteq Chunks
    /\ wqs_pending \in Seq(Chunks \X Writes)
    /\ sub \in [Writes -> [Chunks -> Parts]]
    /\ wq \in [Writes -> WQueries]

\* These types are a part of the type invariant.
LEMMA TypeOKTyped == TypeOK => Typed
BY DEF TypeOK, Typed, Caches, Entries, WQueries

\* FinishPart goes one of the three ways, and keeps the types.
LEMMA FinishIs ==
    ASSUME Typed, LockInv, mode = "rwt", NEW w \in Writes, NEW c \in Chunks,
           AtWork(sub[w][c]), NEW err \in BOOLEAN, NEW m \in Caches, NEW n \in Nat,
           seq <= n, NEW b, FinishPart(w, c, err, m, n, b)
    PROVE  /\ Typed' /\ seq <= seq'
           /\ wq'[w] = Answer(wq[w], LastPart(w, c), err)
           /\ \A u \in Writes : u # w => wq'[u] = wq[u]
           /\ (crashed' = crashed /\ Finishes(w, c, err, m)) \/ (crashed' = TRUE /\ Dies(b))
<1>1. /\ wq' \in [Writes -> WQueries] /\ wq'[w] = Answer(wq[w], LastPart(w, c), err)
      /\ \A u \in Writes : u # w => wq'[u] = wq[u]
  <2>1. LastPart(w, c) \in BOOLEAN  BY DEF LastPart
  <2>2. wq[w] \in WQueries /\ wq \in [Writes -> WQueries]  BY DEF Typed
  <2>3. Answer(wq[w], LastPart(w, c), err) \in WQueries
    <3> DEFINE last == LastPart(w, c)
    <3>1. last \in BOOLEAN  BY <2>1
    <3> HIDE DEF last
    <3>2. Answer(wq[w], last, err) \in WQueries  BY <2>2, <3>1, AnswerIs
    <3> QED  BY <3>2 DEF last
  <2>4. wq' = [wq EXCEPT ![w] = Answer(wq[w], LastPart(w, c), err)]  BY DEF FinishPart
  <2> QED  BY <2>2, <2>3, <2>4
<1>2. CASE /\ NonePending(c)
           /\ locker' = locker \ {c}
           /\ sub' = [sub EXCEPT ![w][c] = Done]
           /\ cache' = IF err THEN Invalidated(m, {c}) ELSE m
           /\ seq' = n
           /\ UNCHANGED <<wqs_pending, crashed>>
  <2>1. /\ cache' \in Caches /\ (err => cache'[c] = None)
        /\ \A d \in Chunks : cache'[d] \in {m[d], None}
        /\ \A d \in Chunks : d # c => cache'[d] = m[d]
    BY <1>2, InvalidatedIs
  <2>2. /\ sub' \in [Writes -> [Chunks -> Parts]] /\ sub'[w][c] = Done
        /\ \A u \in Writes, d \in Chunks : u # w \/ d # c => sub'[u][d] = sub[u][d]
    BY <1>2, IdleDone DEF Typed
  <2>3. Typed'  BY <1>1, <1>2, <2>1, <2>2 DEF Typed
  <2>4. Frees(w, c, err, m)  BY <1>2, <2>1, <2>2 DEF Frees
  <2>5. Finishes(w, c, err, m)  BY <2>1, <2>4 DEF Finishes
  <2> QED  BY <1>1, <1>2, <2>3, <2>5
<1>3. ASSUME NEW i \in DOMAIN wqs_pending, FirstPending(c, i),
             wqs_pending' = SwapErase(wqs_pending, i),
             NEW o \in ProcessOutcomes(wqs_pending[i][2], c, m, n),
             cache' = IF err THEN Invalidated(o.cache, {c}) ELSE o.cache,
             seq' = o.seq,
             sub' = [sub EXCEPT ![w][c] = Done, ![wqs_pending[i][2]][c] = o.part],
             UNCHANGED <<locker, crashed>>
      PROVE  Typed' /\ seq <= seq' /\ crashed' = crashed /\ Finishes(w, c, err, m)
  <2>1. PICK v \in Writes : v = wqs_pending[i][2]  BY DEF Typed
  <2>2. i \in 1..Len(wqs_pending) /\ wqs_pending[i] = <<c, v>>
    BY <1>3, <2>1 DEF Typed, FirstPending
  <2>3. /\ o \in [cache : Caches, seq : Nat, part : Parts] /\ o.seq \in {n, n + 1}
        /\ o.part \in Parts /\ o.cache \in Caches /\ AtWork(o.part)
        /\ \A d \in Chunks : d # c => o.cache[d] \in {m[d], None}
        /\ StartedAs(v, c, m[c], o.cache[c], o.part)
    <3>1. o \in ProcessOutcomes(v, c, m, n)  BY <2>1
    <3> QED  BY <3>1, ProcessIs
  <2>4. sub[v][c].ph = "pending" /\ v # w
    <3>1. sub[wqs_pending[i][2]][wqs_pending[i][1]].ph = "pending"  BY DEF LockInv
    <3>2. sub[v][c].ph = "pending"  BY <2>2, <3>1
    <3> QED  BY <3>2 DEF AtWork
  <2>5. /\ sub' \in [Writes -> [Chunks -> Parts]] /\ sub'[w][c] = Done /\ sub'[v][c] = o.part
        /\ \A u \in Writes, d \in Chunks :
              (u # w /\ u # v) \/ d # c => sub'[u][d] = sub[u][d]
    <3>1. sub' = [sub EXCEPT ![w][c] = Done, ![v][c] = o.part]  BY <1>3, <2>1
    <3>2. Done \in Parts /\ o.part \in Parts /\ sub \in [Writes -> [Chunks -> Parts]]
      BY <2>3, IdleDone DEF Typed
    <3> QED  BY <2>4, <3>1, <3>2
  <2>6. /\ cache' \in Caches /\ (err => cache'[c] = None)
        /\ cache'[c] \in {o.cache[c], None}
        /\ \A d \in Chunks : d # c => cache'[d] \in {m[d], None}
    BY <1>3, <2>3, InvalidatedIs
  <2>7. wqs_pending' \in Seq(Chunks \X Writes)
    <3>1. wqs_pending \in Seq(Chunks \X Writes)  BY DEF Typed
    <3>2. ErasedAt(Chunks \X Writes, wqs_pending, i, SwapErase(wqs_pending, i))
      BY <2>2, <3>1, SwapEraseIs
    <3> QED  BY <1>3, <3>2 DEF ErasedAt
  <2>8. seq' \in Nat /\ seq <= seq'  BY <1>3, <2>3 DEF Typed
  <2>9. Typed'  BY <1>1, <1>3, <2>5, <2>6, <2>7, <2>8 DEF Typed
  <2>10. StartedAs(v, c, m[c], cache'[c], sub'[v][c])
    BY <2>3, <2>5, <2>6, StartedLess
  <2>11. HandsOver(w, c, err, m, v)
    BY <1>3, <2>2, <2>3, <2>4, <2>5, <2>10 DEF HandsOver
  <2> QED  BY <1>3, <2>6, <2>8, <2>9, <2>11 DEF Finishes
<1>4. CASE b = "offline" /\ crashed' = TRUE
           /\ UNCHANGED <<cache, seq, locker, wqs_pending, sub>>
  <2>1. Typed'  BY <1>1, <1>4 DEF Typed
  <2>2. seq <= seq'  BY <1>4 DEF Typed
  <2> QED  BY <1>1, <1>4, <2>1, <2>2 DEF Dies
<1> QED
  <2>1. CASE NonePending(c)  BY <1>1, <1>2, <2>1 DEF FinishPart
  <2>2. CASE ~NonePending(c) /\ b # "offline"
    <3>1. PICK i \in DOMAIN wqs_pending :
             /\ FirstPending(c, i) /\ wqs_pending' = SwapErase(wqs_pending, i)
             /\ \E o \in ProcessOutcomes(wqs_pending[i][2], c, m, n) :
                   /\ cache' = IF err THEN Invalidated(o.cache, {c}) ELSE o.cache
                   /\ seq' = o.seq
                   /\ sub' = [sub EXCEPT ![w][c] = Done, ![wqs_pending[i][2]][c] = o.part]
      BY <2>2 DEF FinishPart
    <3>2. PICK o \in ProcessOutcomes(wqs_pending[i][2], c, m, n) :
                   /\ cache' = IF err THEN Invalidated(o.cache, {c}) ELSE o.cache
                   /\ seq' = o.seq
                   /\ sub' = [sub EXCEPT ![w][c] = Done, ![wqs_pending[i][2]][c] = o.part]
      BY <3>1
    <3>3. UNCHANGED <<locker, crashed>>  BY <2>2 DEF FinishPart
    <3> QED  BY <1>1, <1>3, <3>1, <3>2, <3>3
  <2>3. CASE ~NonePending(c) /\ b = "offline"  BY <1>1, <1>4, <2>3 DEF FinishPart
  <2> QED  BY <2>1, <2>2, <2>3

-----------------------------------------------------------------------------
(* Who is at work, who waits and who is answered *)

Control == PartInv /\ LockInv /\ AnswerInv

\* The lock goes from a write to the next in line, or nobody waits for it.
LEMMA FinishKeepsLocks ==
    ASSUME Typed, Typed', LockInv, mode = "rwt", mode' = mode,
           NEW w \in Writes, NEW c \in Chunks, AtWork(sub[w][c]),
           NEW err \in BOOLEAN, NEW m, Finishes(w, c, err, m)
    PROVE  LockInv'
<1>1. /\ \A d \in Chunks : d \in locker <=> Busy(d, sub)
      /\ \A d \in Chunks, u, v \in Writes : AtWork(sub[u][d]) /\ AtWork(sub[v][d]) => u = v
      /\ \A d \in Chunks, u \in Writes : sub[u][d].ph = "pending" =>
            d \in locker /\ \E i \in DOMAIN wqs_pending : wqs_pending[i] = <<d, u>>
      /\ \A i \in DOMAIN wqs_pending :
            sub[wqs_pending[i][2]][wqs_pending[i][1]].ph = "pending"
      /\ \A i, j \in DOMAIN wqs_pending : wqs_pending[i] = wqs_pending[j] => i = j
  BY DEF LockInv
<1>2. DOMAIN wqs_pending = 1..Len(wqs_pending) /\ wqs_pending \in Seq(Chunks \X Writes)
  BY DEF Typed
<1>3. \A i \in 1..Len(wqs_pending) :
         /\ wqs_pending[i][1] \in Chunks /\ wqs_pending[i][2] \in Writes
         /\ wqs_pending[i] = <<wqs_pending[i][1], wqs_pending[i][2]>>
  BY <1>2
<1>4. CASE Frees(w, c, err, m)
  <2>1. /\ locker' = locker \ {c} /\ wqs_pending' = wqs_pending
        /\ sub'[w][c].ph = "done" /\ ~AtWork(sub'[w][c])
        /\ \A u \in Writes, d \in Chunks : u # w \/ d # c => sub'[u][d] = sub[u][d]
        /\ \A i \in 1..Len(wqs_pending) : wqs_pending[i][1] # c
    BY <1>2, <1>4, IdleDone DEF Frees, NonePending
  <2>2. ~Busy(c, sub')
    <3> SUFFICES ASSUME NEW u \in Writes, AtWork(sub'[u][c]) PROVE FALSE
      BY DEF Busy
    <3>1. u # w /\ AtWork(sub[u][c])  BY <2>1
    <3> QED  BY <1>1, <3>1
  <2>3. ASSUME NEW d \in Chunks, d # c PROVE Busy(d, sub') <=> Busy(d, sub)
    BY <2>1, <2>3 DEF Busy
  <2>4. \A d \in Chunks : d \in locker' <=> Busy(d, sub')  BY <1>1, <2>1, <2>2, <2>3
  <2>5. \A d \in Chunks, u, v \in Writes :
           AtWork(sub'[u][d]) /\ AtWork(sub'[v][d]) => u = v
    BY <1>1, <2>1
  <2>6. ASSUME NEW d \in Chunks, NEW u \in Writes, sub'[u][d].ph = "pending"
        PROVE  d \in locker' /\ \E i \in DOMAIN wqs_pending' : wqs_pending'[i] = <<d, u>>
    <3>1. sub[u][d].ph = "pending"  BY <2>1, <2>6
    <3>2. PICK i \in 1..Len(wqs_pending) : wqs_pending[i] = <<d, u>>
      BY <1>1, <1>2, <3>1
    <3>3. d # c /\ d \in locker  BY <1>1, <2>1, <3>1, <3>2
    <3> QED  BY <1>2, <2>1, <3>2, <3>3
  <2>7. ASSUME NEW i \in DOMAIN wqs_pending'
        PROVE  sub'[wqs_pending'[i][2]][wqs_pending'[i][1]].ph = "pending"
    <3>1. i \in 1..Len(wqs_pending) /\ wqs_pending'[i] = wqs_pending[i]  BY <1>2, <2>1
    <3>2. sub[wqs_pending[i][2]][wqs_pending[i][1]].ph = "pending"  BY <1>1, <1>2, <3>1
    <3> QED  BY <1>3, <2>1, <3>1, <3>2
  <2>8. \A i, j \in DOMAIN wqs_pending' : wqs_pending'[i] = wqs_pending'[j] => i = j
    BY <1>1, <2>1
  <2> QED  BY <2>4, <2>5, <2>6, <2>7, <2>8 DEF LockInv
<1>5. ASSUME NEW v \in Writes, HandsOver(w, c, err, m, v) PROVE LockInv'
  <2>1. /\ locker' = locker /\ sub[v][c].ph = "pending" /\ v # w
        /\ sub'[w][c].ph = "done" /\ ~AtWork(sub'[w][c]) /\ AtWork(sub'[v][c])
        /\ \A u \in Writes, d \in Chunks :
              (u # w /\ u # v) \/ d # c => sub'[u][d] = sub[u][d]
    BY <1>5, IdleDone DEF HandsOver
  <2>2. PICK i \in 1..Len(wqs_pending) :
           wqs_pending[i] = <<c, v>> /\ wqs_pending' = SwapErase(wqs_pending, i)
    BY <1>5 DEF HandsOver
  <2>3. /\ DOMAIN wqs_pending' = 1..(Len(wqs_pending) - 1)
        /\ \A k \in 1..(Len(wqs_pending) - 1) :
              \E j \in 1..Len(wqs_pending) : j # i /\ wqs_pending'[k] = wqs_pending[j]
        /\ \A j \in 1..Len(wqs_pending) : j # i =>
              \E k \in 1..(Len(wqs_pending) - 1) : wqs_pending'[k] = wqs_pending[j]
        /\ \A j, k \in 1..(Len(wqs_pending) - 1) :
              wqs_pending'[j] = wqs_pending'[k] => j = k
    <3> DEFINE s == SwapErase(wqs_pending, i)
    <3>1. \A j, k \in 1..Len(wqs_pending) : wqs_pending[j] = wqs_pending[k] => j = k
      BY <1>1, <1>2
    <3>2. ErasedAt(Chunks \X Writes, wqs_pending, i, s)  BY <1>2, <2>2, SwapEraseIs
    <3>3. wqs_pending' = s  BY <2>2
    <3> HIDE DEF s
    <3> QED  BY <3>1, <3>2, <3>3 DEF ErasedAt
  <2>4. \A d \in Chunks : Busy(d, sub') <=> Busy(d, sub)
    <3>1. ASSUME NEW d \in Chunks, d # c PROVE Busy(d, sub') <=> Busy(d, sub)
      BY <2>1, <3>1 DEF Busy
    <3>2. Busy(c, sub') /\ Busy(c, sub)  BY <2>1 DEF Busy
    <3> QED  BY <3>1, <3>2
  <2>5. ASSUME NEW d \in Chunks, NEW u \in Writes, NEW x \in Writes,
               AtWork(sub'[u][d]), AtWork(sub'[x][d])
        PROVE  u = x
    <3>1. CASE d = c
      <4>1. \A y \in Writes : AtWork(sub'[y][c]) => y = v
        <5> SUFFICES ASSUME NEW y \in Writes, AtWork(sub'[y][c]), y # v PROVE FALSE
          OBVIOUS
        <5>1. y # w /\ AtWork(sub[y][c])  BY <2>1
        <5> QED  BY <1>1, <5>1
      <4> QED  BY <2>5, <3>1, <4>1
    <3>2. CASE d # c  BY <1>1, <2>1, <2>5, <3>2
    <3> QED  BY <3>1, <3>2
  <2>6. ASSUME NEW d \in Chunks, NEW u \in Writes, sub'[u][d].ph = "pending"
        PROVE  d \in locker' /\ \E k \in DOMAIN wqs_pending' : wqs_pending'[k] = <<d, u>>
    <3>1. sub[u][d].ph = "pending" /\ <<d, u>> # <<c, v>>  BY <2>1, <2>6 DEF AtWork
    <3>2. PICK j \in 1..Len(wqs_pending) : wqs_pending[j] = <<d, u>>
      BY <1>1, <1>2, <3>1
    <3>3. j # i  BY <2>2, <3>1, <3>2
    <3>4. PICK k \in 1..(Len(wqs_pending) - 1) : wqs_pending'[k] = wqs_pending[j]
      BY <2>3, <3>3
    <3>5. k \in DOMAIN wqs_pending' /\ wqs_pending'[k] = <<d, u>>  BY <2>3, <3>2, <3>4
    <3>6. d \in locker'  BY <1>1, <2>1, <3>1
    <3> QED  BY <3>5, <3>6
  <2>7. ASSUME NEW k \in DOMAIN wqs_pending'
        PROVE  sub'[wqs_pending'[k][2]][wqs_pending'[k][1]].ph = "pending"
    <3>1. PICK j \in 1..Len(wqs_pending) : j # i /\ wqs_pending'[k] = wqs_pending[j]
      BY <2>3
    <3>2. PICK d \in Chunks, u \in Writes : wqs_pending[j] = <<d, u>>  BY <1>3
    <3>a. wqs_pending[j][1] = d /\ wqs_pending[j][2] = u /\ j \in DOMAIN wqs_pending
      BY <1>2, <3>2
    <3>3. sub[u][d].ph = "pending"  BY <1>1, <3>a
    <3>4. <<d, u>> # <<c, v>>  BY <1>1, <1>2, <2>2, <3>1, <3>2
    <3>5. <<d, u>> # <<c, w>>  BY <3>3 DEF AtWork
    <3>6. sub'[u][d] = sub[u][d]  BY <2>1, <3>4, <3>5
    <3> QED  BY <3>1, <3>2, <3>3, <3>6
  <2>8. \A d \in Chunks : d \in locker' <=> Busy(d, sub')  BY <1>1, <2>1, <2>4
  <2> QED  BY <2>3, <2>5, <2>6, <2>7, <2>8 DEF LockInv
<1> QED  BY <1>4, <1>5 DEF Finishes

\* What any end of a part does to the parts and the answers of the writes
LEMMA FinishKeepsAnswers ==
    ASSUME Typed, Control, mode = "rwt", mode' = mode, rq' = rq,
           below = "offline" => below' = "offline",
           NEW w \in Writes, NEW c \in Chunks, AtWork(sub[w][c]), NEW err \in BOOLEAN, NEW m,
           wq'[w] = Answer(wq[w], LastPart(w, c), err),
           \A u \in Writes : u # w => wq'[u] = wq[u],
           Finishes(w, c, err, m) \/ (Dies(below') /\ LockInv')
    PROVE  PartInv' /\ AnswerInv'
<1> DEFINE last == LastPart(w, c)
<1>1. last \in BOOLEAN  BY DEF LastPart
<1>2. wq[w] \in WQueries  BY DEF Typed
<1>3. last <=> \A d \in Touched(WSpan[w]) \ {c} : sub[w][d].ph = "done"
  BY DEF LastPart
<1> HIDE DEF last
<1>4. /\ wq'[w].before = wq[w].before /\ (wq'[w].err <=> wq[w].err \/ err)
      /\ (~last => wq'[w].st = wq[w].st) /\ (last => wq'[w].st \in {"ok", "err"})
      /\ (last /\ wq'[w].st = "ok" => ~(wq[w].err \/ err))
  <2>1. wq'[w] = Answer(wq[w], last, err)  BY DEF last
  <2> QED  BY <1>1, <1>2, <2>1, AnswerIs
<1>5. WSpan[w][c] # {} /\ wq[w].st # "new" /\ wq'[w].st # "new"
  BY <1>1, <1>4 DEF Control, PartInv, AtWork
<1>6. ASSUME NEW u \in Writes PROVE wq'[u].before \subseteq Answered'
  <2>1. wq'[u].before = wq[u].before  BY <1>4
  <2>2. wq[u].before \subseteq Answered  BY DEF Control, AnswerInv
  <2>3. Answered \subseteq Answered'  BY <1>1, <1>4 DEF Answered
  <2> QED  BY <2>1, <2>2, <2>3
<1>7. CASE Dies(below') /\ LockInv'
  <2>1. below' = "offline" /\ sub' = sub  BY <1>7 DEF Dies
  <2>2. PartInv'  BY <1>5, <2>1 DEF Control, PartInv
  <2> QED  BY <1>6, <2>1, <2>2 DEF AnswerInv, Online
<1>8. CASE Finishes(w, c, err, m)
  <2>1. /\ sub'[w][c].ph = "done"
        /\ \A u \in Writes, d \in Chunks :
              \/ u = w /\ d = c
              \/ sub'[u][d] = sub[u][d]
              \/ /\ u # w /\ d = c /\ sub[u][d].ph = "pending" /\ AtWork(sub'[u][d])
                 /\ sub'[u][d].ph = "write" => sub'[u][d].todo = WSpan[u][d]
    <3>1. CASE Frees(w, c, err, m)  BY <3>1, IdleDone DEF Frees
    <3>2. ASSUME NEW v \in Writes, HandsOver(w, c, err, m, v)
          PROVE  /\ sub'[w][c].ph = "done" /\ v # w
                 /\ sub[v][c].ph = "pending" /\ AtWork(sub'[v][c])
                 /\ sub'[v][c].ph = "write" => sub'[v][c].todo = WSpan[v][c]
                 /\ \A u \in Writes, d \in Chunks :
                       (u # w /\ u # v) \/ d # c => sub'[u][d] = sub[u][d]
      BY <3>2, IdleDone DEF HandsOver, StartedAs
    <3> QED  BY <1>8, <3>1, <3>2 DEF Finishes
  <2>2. PartInv'
    <3> SUFFICES ASSUME NEW u \in Writes, NEW d \in Chunks
                 PROVE  /\ WSpan[u][d] = {} \/ wq'[u].st = "new" => sub'[u][d].ph = "none"
                        /\ sub'[u][d].ph = "write" => sub'[u][d].todo \subseteq WSpan[u][d]
      BY DEF PartInv
    <3>1. /\ WSpan[u][d] = {} \/ wq[u].st = "new" => sub[u][d].ph = "none"
          /\ sub[u][d].ph = "write" => sub[u][d].todo \subseteq WSpan[u][d]
      BY DEF Control, PartInv
    <3>2. wq'[u].st = "new" => wq[u].st = "new"  BY <1>5
    <3>3. CASE u = w /\ d = c  BY <1>5, <2>1, <3>3
    <3>4. CASE sub'[u][d] = sub[u][d]  BY <3>1, <3>2, <3>4
    <3>5. CASE /\ u # w /\ d = c /\ sub[u][d].ph = "pending" /\ AtWork(sub'[u][d])
               /\ sub'[u][d].ph = "write" => sub'[u][d].todo = WSpan[u][d]
      BY <3>1, <3>2, <3>5
    <3> QED  BY <2>1, <3>3, <3>4, <3>5
  <2>3. ASSUME below' # "offline" PROVE
           /\ \A u \in Writes, d \in Chunks :
                AtWork(sub'[u][d]) \/ sub'[u][d].ph = "pending" => wq'[u].st = "busy"
           /\ \A u \in Writes, d \in Chunks :
                wq'[u].st = "ok" /\ WSpan[u][d] # {} => sub'[u][d].ph = "done" /\ ~wq'[u].err
           /\ \A r \in Reads : rq'[r].before \subseteq Acked'
    <3>1. /\ \A u \in Writes, d \in Chunks :
                AtWork(sub[u][d]) \/ sub[u][d].ph = "pending" => wq[u].st = "busy"
          /\ \A u \in Writes, d \in Chunks :
                wq[u].st = "ok" /\ WSpan[u][d] # {} => sub[u][d].ph = "done" /\ ~wq[u].err
          /\ \A r \in Reads : rq[r].before \subseteq Acked
      BY <2>3 DEF Control, AnswerInv, Online, Landed
    <3>2. wq[w].st = "busy"  BY <3>1
    <3>3. ASSUME NEW u \in Writes, NEW d \in Chunks,
                 AtWork(sub'[u][d]) \/ sub'[u][d].ph = "pending"
          PROVE  wq'[u].st = "busy"
      <4>1. AtWork(sub[u][d]) \/ sub[u][d].ph = "pending"
        BY <2>1, <3>3 DEF AtWork
      <4>2. CASE u # w  BY <3>1, <4>1, <4>2
      <4>3. CASE u = w
        <5>1. d # c /\ sub'[w][d] = sub[w][d]  BY <2>1, <3>3, <4>3 DEF AtWork
        <5>2. sub[w][d].ph \notin {"none", "done"}  BY <4>1, <4>3 DEF AtWork
        <5>3. WSpan[w][d] # {}  BY <5>2 DEF Control, PartInv
        <5>4. ~last  BY <1>3, <5>1, <5>2, <5>3 DEF Touched
        <5> QED  BY <1>4, <3>2, <4>3, <5>4
      <4> QED  BY <4>2, <4>3
    <3>4. ASSUME NEW u \in Writes, NEW d \in Chunks, wq'[u].st = "ok", WSpan[u][d] # {}
          PROVE  sub'[u][d].ph = "done" /\ ~wq'[u].err
      <4>1. CASE u # w
        <5>1. sub[u][d].ph = "done" /\ ~wq[u].err  BY <3>1, <3>4, <4>1
        <5>2. sub'[u][d] = sub[u][d]  BY <2>1, <4>1, <5>1
        <5> QED  BY <4>1, <5>1, <5>2
      <4>2. CASE u = w
        <5>1. last  BY <1>1, <1>4, <3>2, <3>4, <4>2
        <5>2. ~wq'[w].err  BY <1>4, <3>4, <4>2, <5>1
        <5>3. CASE d = c  BY <2>1, <4>2, <5>2, <5>3
        <5>4. CASE d # c
          <6>1. sub[w][d].ph = "done"  BY <1>3, <3>4, <4>2, <5>1, <5>4 DEF Touched
          <6>2. sub'[w][d] = sub[w][d]  BY <2>1, <5>4
          <6> QED  BY <4>2, <5>2, <6>1, <6>2
        <5> QED  BY <5>3, <5>4
      <4> QED  BY <4>1, <4>2
    <3>5. Acked \subseteq Acked'  BY <3>2 DEF Acked
    <3> QED  BY <3>1, <3>3, <3>4, <3>5
  <2>4. AnswerInv'  BY <1>6, <2>3 DEF AnswerInv, Online, Landed
  <2> QED  BY <2>2, <2>4
<1> QED  BY <1>7, <1>8

\* A step that leaves every part in its phase, but for one that goes from reading to
\* writing its chunk, disturbs nobody.
LEMMA PhasesKeepControl ==
    ASSUME Control, mode' = mode, locker' = locker, wqs_pending' = wqs_pending,
           wqs_pending \in Seq(Chunks \X Writes), wq' = wq,
           below = "offline" => below' = "offline",
           below' # "offline" => \A r \in Reads : rq'[r].before \subseteq Acked,
           \A u \in Writes, d \in Chunks :
              /\ sub'[u][d].ph = "write" => sub'[u][d].todo \subseteq WSpan[u][d]
              /\ \/ sub'[u][d].ph = sub[u][d].ph
                 \/ sub[u][d].ph = "rmw" /\ sub'[u][d].ph = "write"
    PROVE  Control'
<1>1. \A u \in Writes, d \in Chunks :
         /\ AtWork(sub'[u][d]) <=> AtWork(sub[u][d])
         /\ sub'[u][d].ph = "pending" <=> sub[u][d].ph = "pending"
         /\ sub'[u][d].ph = "none" <=> sub[u][d].ph = "none"
         /\ sub'[u][d].ph = "done" <=> sub[u][d].ph = "done"
  BY DEF AtWork
<1>2. PartInv'
  <2> SUFFICES ASSUME NEW u \in Writes, NEW d \in Chunks
               PROVE  /\ WSpan[u][d] = {} \/ wq'[u].st = "new" => sub'[u][d].ph = "none"
                      /\ sub'[u][d].ph = "write" => sub'[u][d].todo \subseteq WSpan[u][d]
                      /\ mode' = "rwi" =>
                            /\ sub'[u][d].ph \in {"none", "write", "done"}
                            /\ wq'[u].st = "busy" /\ WSpan[u][d] # {} =>
                                  sub'[u][d].ph = "write"
    BY DEF PartInv
  <2>1. /\ WSpan[u][d] = {} \/ wq[u].st = "new" => sub[u][d].ph = "none"
        /\ mode = "rwi" =>
              /\ sub[u][d].ph \in {"none", "write", "done"}
              /\ wq[u].st = "busy" /\ WSpan[u][d] # {} => sub[u][d].ph = "write"
    BY DEF Control, PartInv
  <2> QED  BY <1>1, <2>1
<1>3. LockInv'
  <2>1. \A d \in Chunks : Busy(d, sub') <=> Busy(d, sub)  BY <1>1 DEF Busy
  <2>2. \A i \in DOMAIN wqs_pending :
           wqs_pending[i][1] \in Chunks /\ wqs_pending[i][2] \in Writes
    OBVIOUS
  <2> QED  BY <1>1, <2>1, <2>2 DEF Control, LockInv
<1>4. AnswerInv'
  <2>1. Acked' = Acked /\ Answered' = Answered  BY DEF Acked, Answered
  <2>2. \A u \in Writes, d \in Chunks : Landed(u, d)' <=> Landed(u, d)
    BY <1>1 DEF Landed
  <2> QED  BY <1>1, <2>1, <2>2 DEF Control, AnswerInv, Online
<1> QED  BY <1>2, <1>3, <1>4 DEF Control

\* A write that begins: what it is told of the others
LEMMA BegunIs ==
    ASSUME Typed, NEW w \in Writes, NEW st \in States, wq' = Begun(w, st)
    PROVE  /\ wq' \in [Writes -> WQueries]
           /\ wq'[w].st = st /\ wq'[w].err = FALSE /\ wq'[w].before = Answered
           /\ \A u \in Writes : u # w => wq'[u] = wq[u]
<1>1. Answered \in SUBSET Writes  BY DEF Answered
<1>2. [st |-> st, err |-> FALSE, before |-> Answered] \in WQueries
  BY <1>1 DEF WQueries
<1> QED  BY <1>2 DEF Begun, Typed

\* The loop over the chunks leaves the locks, the queue and the answers right.
LEMMA LoopKeepsControl ==
    ASSUME Typed, Control, mode = "rwt", mode' = mode, below' = below, rq' = rq,
           NEW w \in Writes, wq[w].st = "new", NEW o, Turned(w, NChunks, o),
           cache' = o.cache, seq' = o.seq, locker' = o.locked, wqs_pending' = o.pend,
           sub' = [sub EXCEPT ![w] = o.parts],
           wq' = Begun(w, IF o.refused THEN "err" ELSE "busy")
    PROVE  Typed' /\ Control'
<1>1. /\ wq' \in [Writes -> WQueries]
      /\ wq'[w].st = (IF o.refused THEN "err" ELSE "busy")
      /\ wq'[w].err = FALSE /\ wq'[w].before = Answered
      /\ \A u \in Writes : u # w => wq'[u] = wq[u]
  <2> DEFINE st == IF o.refused THEN "err" ELSE "busy"
  <2>1. st \in States  OBVIOUS
  <2> HIDE DEF st
  <2>2. wq' = Begun(w, st)  BY DEF st
  <2>3. /\ wq' \in [Writes -> WQueries]
        /\ wq'[w].st = st /\ wq'[w].err = FALSE /\ wq'[w].before = Answered
        /\ \A u \in Writes : u # w => wq'[u] = wq[u]
    BY <2>1, <2>2, BegunIs
  <2> QED  BY <2>3 DEF st
<1>2. /\ o \in [cache : Caches, seq : Nat, parts : [Chunks -> Parts],
                pend : Seq(Chunks \X Writes), locked : SUBSET Chunks, refused : BOOLEAN]
      /\ o.refused => below = "offline"
      /\ \A c \in Chunks : TurnedIn(w, NChunks, o, c)
      /\ Len(wqs_pending) <= Len(o.pend)
  BY DEF Turned
<1>3. /\ sub' \in [Writes -> [Chunks -> Parts]] /\ sub'[w] = o.parts
      /\ \A u \in Writes : u # w => sub'[u] = sub[u]
  BY <1>2 DEF Typed
<1>4. Typed'  BY <1>1, <1>2, <1>3 DEF Typed
<1>5. \A c \in Chunks : sub[w][c].ph = "none" /\ ~AtWork(sub[w][c])
  BY DEF Control, PartInv, AtWork
<1>6. \A c \in Chunks : Busy(c, sub') <=> Busy(c, sub) \/ AtWork(o.parts[c])
  BY <1>3, <1>5 DEF Busy
<1>7. PartInv'
  <2> SUFFICES ASSUME NEW u \in Writes, NEW d \in Chunks
               PROVE  /\ WSpan[u][d] = {} \/ wq'[u].st = "new" => sub'[u][d].ph = "none"
                      /\ sub'[u][d].ph = "write" => sub'[u][d].todo \subseteq WSpan[u][d]
    BY DEF PartInv
  <2>1. CASE u # w  BY <1>1, <1>3, <2>1 DEF Control, PartInv
  <2>2. CASE u = w
    <3>1. wq'[w].st # "new"  BY <1>1
    <3>2. o.parts[d].ph = "write" => o.parts[d].todo = WSpan[w][d]
      BY <1>2 DEF TurnedIn, StartedAs, AtWork
    <3>3. WSpan[w][d] = {} => o.parts[d].ph = "none"  BY <1>2 DEF TurnedIn
    <3> QED  BY <1>3, <2>2, <3>1, <3>2, <3>3
  <2> QED  BY <2>1, <2>2
<1>8. LockInv'
  <2> DEFINE l == Len(wqs_pending)
  <2>1. /\ \A d \in Chunks : d \in locker <=> Busy(d, sub)
        /\ \A d \in Chunks, u, v \in Writes : AtWork(sub[u][d]) /\ AtWork(sub[v][d]) => u = v
        /\ \A d \in Chunks, u \in Writes : sub[u][d].ph = "pending" =>
              d \in locker /\ \E i \in DOMAIN wqs_pending : wqs_pending[i] = <<d, u>>
        /\ \A i \in DOMAIN wqs_pending :
              sub[wqs_pending[i][2]][wqs_pending[i][1]].ph = "pending"
        /\ \A i, j \in DOMAIN wqs_pending : wqs_pending[i] = wqs_pending[j] => i = j
    BY DEF Control, LockInv
  <2>2. /\ \A i \in 1..l : o.pend[i] = wqs_pending[i]
        /\ \A i \in (l + 1)..Len(o.pend) :
              o.pend[i][2] = w /\ o.parts[o.pend[i][1]].ph = "pending"
        /\ \A i, j \in (l + 1)..Len(o.pend) : o.pend[i] = o.pend[j] => i = j
    BY DEF Turned
  <2>3. /\ DOMAIN wqs_pending = 1..l /\ l \in Nat
        /\ \A i \in 1..l : wqs_pending[i] \in Chunks \X Writes
    BY DEF Typed
  <2>4. /\ DOMAIN o.pend = 1..Len(o.pend) /\ Len(o.pend) \in Nat
        /\ \A i \in 1..Len(o.pend) : o.pend[i] \in Chunks \X Writes
    BY <1>2
  <2>5. \A i \in 1..Len(o.pend) : i \in 1..l \/ i \in (l + 1)..Len(o.pend)
    BY <2>3, <2>4
  <2>6. \A i \in 1..l : i \in 1..Len(o.pend)  BY <1>2, <2>3, <2>4
  <2>7. \A d \in Chunks : d \in locker' <=> Busy(d, sub')
    BY <1>2, <1>6, <2>1 DEF TurnedIn
  <2>8. ASSUME NEW d \in Chunks, NEW u \in Writes, NEW v \in Writes,
               AtWork(sub'[u][d]), AtWork(sub'[v][d])
        PROVE  u = v
    <3>1. ASSUME AtWork(o.parts[d]), NEW y \in Writes, AtWork(sub'[y][d]) PROVE y = w
      <4>1. d \notin locker  BY <1>2, <3>1 DEF TurnedIn
      <4>2. \A z \in Writes : ~AtWork(sub[z][d])  BY <2>1, <4>1 DEF Busy
      <4> QED  BY <1>3, <3>1, <4>2
    <3>2. CASE AtWork(o.parts[d])  BY <2>8, <3>1, <3>2
    <3>3. CASE ~AtWork(o.parts[d])  BY <1>3, <2>1, <2>8, <3>3
    <3> QED  BY <3>2, <3>3
  <2>9. ASSUME NEW d \in Chunks, NEW u \in Writes, sub'[u][d].ph = "pending"
        PROVE  d \in locker' /\ \E i \in DOMAIN wqs_pending' : wqs_pending'[i] = <<d, u>>
    <3>1. CASE u = w
      <4>1. o.parts[d].ph = "pending"  BY <1>3, <2>9, <3>1
      <4>2. d \in locker /\ d \in o.locked  BY <1>2, <4>1 DEF TurnedIn
      <4>3. PICK i \in (l + 1)..Len(o.pend) : o.pend[i] = <<d, w>>
        BY <1>2, <4>1 DEF TurnedIn
      <4>4. i \in 1..Len(o.pend)  BY <2>3, <2>4
      <4> QED  BY <2>4, <3>1, <4>2, <4>3, <4>4
    <3>2. CASE u # w
      <4>1. sub[u][d].ph = "pending"  BY <1>3, <2>9, <3>2
      <4>2. d \in locker  BY <2>1, <4>1
      <4>3. d \in o.locked  BY <1>2, <4>2 DEF TurnedIn
      <4>4. PICK i \in 1..l : wqs_pending[i] = <<d, u>>  BY <2>1, <2>3, <4>1
      <4> QED  BY <2>2, <2>4, <2>6, <4>3, <4>4
    <3> QED  BY <3>1, <3>2
  <2>10. ASSUME NEW i \in DOMAIN wqs_pending'
         PROVE  sub'[wqs_pending'[i][2]][wqs_pending'[i][1]].ph = "pending"
    <3>1. i \in 1..Len(o.pend) /\ wqs_pending'[i] = o.pend[i]  BY <2>4
    <3>2. CASE i \in (l + 1)..Len(o.pend)  BY <1>3, <2>2, <3>1, <3>2
    <3>3. CASE i \in 1..l
      <4>1. PICK d \in Chunks, u \in Writes : wqs_pending[i] = <<d, u>>  BY <2>3, <3>3
      <4>2. /\ wqs_pending[i][1] = d /\ wqs_pending[i][2] = u
            /\ o.pend[i][1] = d /\ o.pend[i][2] = u
        BY <2>2, <3>3, <4>1
      <4>3. sub[u][d].ph = "pending"  BY <2>1, <2>3, <3>3, <4>2
      <4>4. u # w  BY <1>5, <4>3
      <4> QED  BY <1>3, <3>1, <4>2, <4>3, <4>4
    <3> QED  BY <2>5, <3>1, <3>2, <3>3
  <2>11. ASSUME NEW i \in DOMAIN wqs_pending', NEW j \in DOMAIN wqs_pending',
                wqs_pending'[i] = wqs_pending'[j]
         PROVE  i = j
    <3>1. i \in 1..Len(o.pend) /\ j \in 1..Len(o.pend) /\ o.pend[i] = o.pend[j]
      BY <2>4, <2>11
    <3>2. \A k \in 1..l : o.pend[k][2] # w
      <4> SUFFICES ASSUME NEW k \in 1..l, o.pend[k][2] = w PROVE FALSE  OBVIOUS
      <4>1. PICK d \in Chunks, u \in Writes : wqs_pending[k] = <<d, u>>  BY <2>3
      <4>2. wqs_pending[k][1] = d /\ wqs_pending[k][2] = u /\ u = w
        BY <2>2, <4>1
      <4>3. sub[w][d].ph = "pending"  BY <2>1, <2>3, <4>2
      <4> QED  BY <1>5, <4>3
    <3>3. CASE i \in 1..l /\ j \in 1..l  BY <2>1, <2>2, <2>3, <3>1, <3>3
    <3>4. CASE i \in (l + 1)..Len(o.pend) /\ j \in (l + 1)..Len(o.pend)
      BY <2>2, <3>1, <3>4
    <3>5. CASE i \in 1..l /\ j \in (l + 1)..Len(o.pend)  BY <2>2, <3>1, <3>2, <3>5
    <3>6. CASE i \in (l + 1)..Len(o.pend) /\ j \in 1..l  BY <2>2, <3>1, <3>2, <3>6
    <3> QED  BY <2>5, <3>1, <3>3, <3>4, <3>5, <3>6
  <2> QED  BY <2>7, <2>8, <2>9, <2>10, <2>11 DEF LockInv
<1>9. AnswerInv'
  <2>1. Answered \subseteq Answered' /\ Acked \subseteq Acked'
    BY <1>1 DEF Answered, Acked
  <2>2. \A u \in Writes : wq'[u].before \subseteq Answered'
    BY <1>1, <2>1 DEF Control, AnswerInv
  <2>3. ASSUME below # "offline", NEW u \in Writes, NEW d \in Chunks
        PROVE  /\ AtWork(sub'[u][d]) \/ sub'[u][d].ph = "pending" => wq'[u].st = "busy"
               /\ wq'[u].st = "ok" /\ WSpan[u][d] # {} => Landed(u, d)'
    <3>1. CASE u = w  BY <1>1, <1>2, <2>3, <3>1
    <3>2. CASE u # w
      BY <1>1, <1>3, <2>3, <3>2 DEF Control, AnswerInv, Online, Landed
    <3> QED  BY <3>1, <3>2
  <2>4. below # "offline" => \A r \in Reads : rq'[r].before \subseteq Acked'
    BY <2>1 DEF Control, AnswerInv, Online
  <2> QED  BY <2>2, <2>3, <2>4 DEF AnswerInv, Online
<1> QED  BY <1>4, <1>7, <1>8, <1>9 DEF Control

-----------------------------------------------------------------------------
(* The contents of a chunk *)

\* IInv's conjuncts about contents, chunk by chunk: what has been written of it,
\* what a write of RWTHandler knows of it, what is cached of it
Written(c) ==
    \A w \in Writes : \A x \in WSpan[w][c] :
       (sub[w][c].ph = "write" /\ x \notin sub[w][c].todo) \/ Landed(w, c) =>
          ~Stale(dev[c][x], w)
Through(w, c) ==
    /\ sub[w][c].ph = "rmw" =>
          /\ ~Claimed(c)
          /\ \A x \in Cells \ sub[w][c].todo : sub[w][c].buf[x] = dev[c][x]
    /\ sub[w][c].ph = "write" =>
          \A x \in WSpan[w][c] :
             /\ x \notin sub[w][c].todo => dev[c][x] = w
             /\ Claimed(c) => cache[c].buf[x] = w
Kept(c) ==
    Claimed(c) =>
       \A x \in Cells :
          /\ \/ cache[c].buf[x] = dev[c][x]
             \/ \E w \in Writes : AtWork(sub[w][c]) /\ x \in WSpan[w][c]
          /\ cache[c].buf[x] # Junk
          /\ \A w \in Writes :
                x \in WSpan[w][c] /\ Landed(w, c) => ~Stale(cache[c].buf[x], w)
Contents(c) ==
    Written(c) /\ (mode = "rwt" => \A w \in Writes : Through(w, c)) /\ Kept(c)
NeverJunk == \A c \in Chunks, x \in Cells : dev[c][x] # Junk
AllContents == NeverJunk /\ (Online => \A c \in Chunks : Contents(c))

\* Chunk by chunk they say what DevInv, ThroughInv, CacheCoherent and CacheInv say.
LEMMA ContentsIs ==
    /\ DevInv /\ ThroughInv /\ CacheCoherent /\ CacheInv => AllContents
    /\ AllContents' => (DevInv /\ ThroughInv /\ CacheCoherent /\ CacheInv)'
    /\ AllContents => DevInv /\ ThroughInv /\ CacheCoherent /\ CacheInv
<1>1. ASSUME DevInv, ThroughInv, CacheCoherent, CacheInv PROVE AllContents
  <2>1. NeverJunk  BY <1>1 DEF DevInv, NeverJunk
  <2>2. ASSUME Online, NEW c \in Chunks PROVE Contents(c)
    <3>1. Written(c)  BY <1>1, <2>2 DEF DevInv, Written
    <3>2. mode = "rwt" => \A w \in Writes : Through(w, c)
      BY <1>1, <2>2 DEF ThroughInv, Through
    <3>3. Kept(c)  BY <1>1, <2>2 DEF CacheCoherent, CacheInv, Kept, Claimed, Online
    <3> QED  BY <3>1, <3>2, <3>3 DEF Contents
  <2> QED  BY <2>1, <2>2 DEF AllContents
<1>2. ASSUME AllContents' PROVE (DevInv /\ ThroughInv /\ CacheCoherent /\ CacheInv)'
  <2>1. DevInv'  BY <1>2 DEF AllContents, NeverJunk, Contents, Written, DevInv
  <2>2. ThroughInv'  BY <1>2 DEF AllContents, Contents, Through, ThroughInv
  <2>3. CacheCoherent'
    BY <1>2 DEF AllContents, Contents, Kept, CacheCoherent, Claimed, Online
  <2>4. CacheInv'  BY <1>2 DEF AllContents, Contents, Kept, CacheInv
  <2> QED  BY <2>1, <2>2, <2>3, <2>4
<1>3. ASSUME AllContents PROVE DevInv /\ ThroughInv /\ CacheCoherent /\ CacheInv
  <2>1. DevInv  BY <1>3 DEF AllContents, NeverJunk, Contents, Written, DevInv
  <2>2. ThroughInv  BY <1>3 DEF AllContents, Contents, Through, ThroughInv
  <2>3. CacheCoherent
    BY <1>3 DEF AllContents, Contents, Kept, CacheCoherent, Claimed, Online
  <2>4. CacheInv  BY <1>3 DEF AllContents, Contents, Kept, CacheInv
  <2> QED  BY <2>1, <2>2, <2>3, <2>4
<1> QED  BY <1>1, <1>2, <1>3

\* Nothing of chunk c changes, but that it may leave the cache, and that a write
\* not at work in it may begin there or wait.
Undisturbed(c) ==
    /\ dev'[c] = dev[c] /\ cache'[c] \in {cache[c], None} /\ mode' = mode
    /\ \A u \in Writes :
          \/ /\ sub'[u][c] = sub[u][c] /\ wq'[u].before = wq[u].before
             /\ wq[u].err => wq'[u].err
          \/ sub'[u][c].ph \in {"none", "pending"} /\ ~AtWork(sub[u][c])

\* Such a chunk keeps what the invariant says of it.
LEMMA UndisturbedKeeps ==
    ASSUME NEW c \in Chunks, Contents(c), Undisturbed(c)
    PROVE  Contents(c)'
<1>1. Claimed(c)' => Claimed(c) /\ cache'[c] = cache[c]
  BY DEF Undisturbed, Claimed
<1>2. ASSUME NEW u \in Writes, Landed(u, c)' \/ AtWork(sub'[u][c])
      PROVE  sub'[u][c] = sub[u][c] /\ wq'[u].before = wq[u].before
             /\ (Landed(u, c)' => Landed(u, c))
  BY <1>2 DEF Undisturbed, Landed, AtWork
<1>3. \A u \in Writes : AtWork(sub[u][c]) => sub'[u][c] = sub[u][c]
  BY DEF Undisturbed
<1>4. Written(c)'
  BY <1>2 DEF Contents, Written, Undisturbed, Stale, AtWork
<1>5. \A u \in Writes : mode' = "rwt" => Through(u, c)'
  BY <1>1, <1>2 DEF Contents, Through, Undisturbed, AtWork
<1>6. Kept(c)'
  <2> SUFFICES ASSUME Claimed(c)', NEW x \in Cells
               PROVE  /\ \/ cache'[c].buf[x] = dev'[c][x]
                         \/ \E w \in Writes : AtWork(sub'[w][c]) /\ x \in WSpan[w][c]
                      /\ cache'[c].buf[x] # Junk
                      /\ \A w \in Writes : x \in WSpan[w][c] /\ Landed(w, c)' =>
                            ~Stale(cache[c].buf[x], w)'
    BY DEF Kept
  <2>1. /\ \/ cache[c].buf[x] = dev[c][x]
           \/ \E w \in Writes : AtWork(sub[w][c]) /\ x \in WSpan[w][c]
        /\ cache[c].buf[x] # Junk
        /\ \A w \in Writes : x \in WSpan[w][c] /\ Landed(w, c) =>
              ~Stale(cache[c].buf[x], w)
    BY <1>1 DEF Contents, Kept
  <2>2. dev'[c] = dev[c]  BY DEF Undisturbed
  <2> QED  BY <1>1, <1>2, <1>3, <2>1, <2>2 DEF Stale
<1> QED  BY <1>4, <1>5, <1>6 DEF Contents

\* A step leaves chunk c on the target below fresh, and the entry e equal to it.
Settles(c, e) ==
    /\ \A u \in Writes : Landed(u, c)' => \A x \in WSpan[u][c] : ~Stale(dev[c][x], u)'
    /\ e # None /\ ~e.raced => \A x \in Cells : e.buf[x] = dev'[c][x]

\* A write of RWTHandler starts in a settled chunk.
LEMMA StartKeeps ==
    ASSUME NEW c \in Chunks, NEW e, Settles(c, e), NEW v \in Writes,
           mode' = "rwt", Online', NeverJunk', AnswerInv',
           StartedAs(v, c, e, cache'[c], sub'[v][c]),
           \A u \in Writes : AtWork(sub'[u][c]) => u = v,
           AtWork(sub'[v][c])
    PROVE  Contents(c)'
<1>1. \A u \in Writes : v \notin wq'[u].before
  BY DEF AnswerInv, Answered
<1>2. \A u \in Writes : Landed(u, c)' => \A x \in WSpan[u][c] : ~Stale(dev[c][x], u)'
  BY DEF Settles
<1>3. e # None /\ ~e.raced => \A x \in Cells : e.buf[x] = dev'[c][x]
  BY DEF Settles
<1>4. Written(c)'
  BY <1>2 DEF Written, StartedAs, AtWork
<1>5. ASSUME NEW u \in Writes PROVE Through(u, c)'
  BY DEF Through, StartedAs, AtWork, Claimed
<1>6. Kept(c)'
  <2> SUFFICES ASSUME Claimed(c)', NEW x \in Cells
               PROVE  /\ \/ cache'[c].buf[x] = dev'[c][x]
                         \/ \E w \in Writes : AtWork(sub'[w][c]) /\ x \in WSpan[w][c]
                      /\ cache'[c].buf[x] # Junk
                      /\ \A w \in Writes : x \in WSpan[w][c] /\ Landed(w, c)' =>
                            ~Stale(cache[c].buf[x], w)'
    BY DEF Kept
  <2>1. cache'[c] # None /\ ~cache'[c].raced  BY DEF Claimed
  <2>2. CASE x \in WSpan[v][c]
    <3>1. cache'[c].buf[x] = v  BY <2>1, <2>2 DEF StartedAs
    <3> QED  BY <1>1, <2>2, <3>1, ValuesAssumption DEF Stale
  <2>3. CASE x \notin WSpan[v][c]
    <3>1. cache'[c].buf[x] = dev'[c][x]  BY <1>3, <2>1, <2>3 DEF StartedAs
    <3> QED  BY <1>2, <3>1 DEF NeverJunk, Stale
  <2> QED  BY <2>2, <2>3
<1> QED  BY <1>4, <1>5, <1>6 DEF Contents

\* Nobody is at work in a settled chunk any more.
LEMMA RestKeeps ==
    ASSUME NEW c \in Chunks, NEW e, Settles(c, e),
           mode' = "rwt", NeverJunk', cache'[c] \in {e, None},
           \A u \in Writes : ~AtWork(sub'[u][c])
    PROVE  Contents(c)'
<1>1. \A u \in Writes : Landed(u, c)' => \A x \in WSpan[u][c] : ~Stale(dev[c][x], u)'
  BY DEF Settles
<1>2. Claimed(c)' => \A x \in Cells : cache'[c].buf[x] = dev'[c][x]
  BY DEF Settles, Claimed
<1>3. Written(c)'  BY <1>1 DEF Written, AtWork
<1>4. ASSUME NEW u \in Writes PROVE Through(u, c)'  BY DEF Through, AtWork
<1>5. Kept(c)'  BY <1>1, <1>2 DEF Kept, NeverJunk, Stale
<1> QED  BY <1>3, <1>4, <1>5 DEF Contents

-----------------------------------------------------------------------------
(* The reads *)

\* ReadInv and GotInv, read by read
Reading(r, c) ==
    rop[r][c].ph = "read" =>
       /\ rop[r][c].seq <= seq
       /\ ~rop[r][c].over =>
             ~Busy(c, sub)
             /\ \A x \in Cells \ rop[r][c].todo : rop[r][c].buf[x] = dev[c][x]
       /\ mode = "rwi" /\ rop[r][c].seq = seq =>
             \A x \in Cells \ rop[r][c].todo :
                \/ rop[r][c].buf[x] = dev[c][x]
                \/ \E w \in Writes : AtWork(sub[w][c]) /\ x \in WSpan[w][c]
       /\ Online =>
             \A x \in Cells \ rop[r][c].todo :
                /\ rop[r][c].buf[x] # Junk
                /\ \A w \in Writes :
                      /\ x \in WSpan[w][c]
                      /\ \/ w \in rq[r].before
                         \/ mode = "rwi" /\ rop[r][c].seq = seq /\ Landed(w, c)
                      => ~Stale(rop[r][c].buf[x], w)
Gotten(r) ==
    Online /\ (mode = "rwi" \/ ~rq[r].raced) =>
       \A t \in rq[r].got :
          /\ t[3] # Junk
          /\ \A w \in rq[r].before : t[2] \in WSpan[w][t[1]] => ~Stale(t[3], w)

\* Read by read they say what ReadInv and GotInv say.
LEMMA ReadingIs ==
    /\ ReadInv <=> \A r \in Reads, c \in Chunks : Reading(r, c)
    /\ ReadInv' <=> \A r \in Reads, c \in Chunks : Reading(r, c)'
    /\ GotInv <=> \A r \in Reads : Gotten(r)
    /\ GotInv' <=> \A r \in Reads : Gotten(r)'
<1>1. ReadInv <=> \A r \in Reads, c \in Chunks : Reading(r, c)
  BY DEF ReadInv, Reading
<1>2. ReadInv' <=> \A r \in Reads, c \in Chunks : Reading(r, c)'
  BY DEF ReadInv, Reading
<1>3. GotInv <=> \A r \in Reads : Gotten(r)  BY DEF GotInv, Gotten
<1>4. GotInv' <=> \A r \in Reads : Gotten(r)'  BY DEF GotInv, Gotten
<1> QED  BY <1>1, <1>2, <1>3, <1>4

\* What a write that began is told does not change.
Memory ==
    /\ mode' = mode /\ (below = "offline" => below' = "offline")
    /\ \A u \in Writes : wq[u].st # "new" => wq'[u].before = wq[u].before

\* Read r of chunk c goes on as it was, while writes begin and end.
Unread(r, c) ==
    /\ dev'[c] = dev[c] /\ seq' \in Nat /\ seq <= seq'
    /\ rq'[r].before = rq[r].before
    /\ rop'[r][c].ph = "read" =>
          /\ rop[r][c].ph = "read" /\ rop'[r][c].todo = rop[r][c].todo
          /\ rop'[r][c].buf = rop[r][c].buf /\ rop'[r][c].seq = rop[r][c].seq
          /\ ~rop'[r][c].over => ~rop[r][c].over /\ ~Busy(c, sub')
    /\ mode = "rwi" /\ seq' = seq =>
          \A u \in Writes : /\ AtWork(sub[u][c]) => AtWork(sub'[u][c])
                            /\ Landed(u, c)' => Landed(u, c)

\* Such a read keeps what the invariant says of it.
LEMMA UnreadKeeps ==
    ASSUME TypeOK, PartInv, AnswerInv, NEW r \in Reads, NEW c \in Chunks, Reading(r, c),
           Memory, Unread(r, c)
    PROVE  Reading(r, c)'
<1> SUFFICES ASSUME rop'[r][c].ph = "read" PROVE Reading(r, c)'
  BY DEF Reading
<1>1. /\ rop[r][c].ph = "read" /\ rop'[r][c].todo = rop[r][c].todo
      /\ rop'[r][c].buf = rop[r][c].buf /\ rop'[r][c].seq = rop[r][c].seq
      /\ dev'[c] = dev[c] /\ mode' = mode /\ seq <= seq' /\ seq \in Nat /\ seq' \in Nat
      /\ rop[r][c].seq \in Nat
  BY DEF Unread, Memory, TypeOK, ReadOps
<1>2. rop'[r][c].seq <= seq'  BY <1>1 DEF Reading
<1>3. ~rop'[r][c].over =>
         ~Busy(c, sub') /\ \A x \in Cells \ rop'[r][c].todo : rop'[r][c].buf[x] = dev'[c][x]
  BY <1>1 DEF Unread, Reading
<1>4. rop'[r][c].seq = seq' => rop[r][c].seq = seq /\ seq' = seq
  BY <1>1 DEF Reading
<1>5. mode' = "rwi" /\ rop'[r][c].seq = seq' =>
         \A x \in Cells \ rop'[r][c].todo :
            \/ rop'[r][c].buf[x] = dev'[c][x]
            \/ \E w \in Writes : AtWork(sub'[w][c]) /\ x \in WSpan[w][c]
  BY <1>1, <1>4 DEF Unread, Reading
<1>6. ASSUME Online', NEW x \in Cells \ rop'[r][c].todo
      PROVE  /\ rop'[r][c].buf[x] # Junk
             /\ \A w \in Writes :
                   /\ x \in WSpan[w][c]
                   /\ \/ w \in rq'[r].before
                      \/ mode' = "rwi" /\ rop'[r][c].seq = seq' /\ Landed(w, c)'
                   => ~Stale(rop[r][c].buf[x], w)'
  <2>1. Online /\ x \in Cells \ rop[r][c].todo  BY <1>1, <1>6 DEF Online, Memory
  <2>2. rop'[r][c].buf[x] # Junk  BY <1>1, <2>1 DEF Reading
  <2>3. ASSUME NEW w \in Writes, x \in WSpan[w][c],
               \/ w \in rq'[r].before
               \/ mode' = "rwi" /\ rop'[r][c].seq = seq' /\ Landed(w, c)'
        PROVE  ~Stale(rop[r][c].buf[x], w)'
    <3>1. \/ w \in rq[r].before
          \/ mode = "rwi" /\ rop[r][c].seq = seq /\ Landed(w, c)
      BY <1>1, <1>4, <2>3 DEF Unread
    <3>2. ~Stale(rop[r][c].buf[x], w)  BY <1>1, <2>1, <2>3, <3>1 DEF Reading
    <3>3. wq[w].st # "new"
      <4>1. CASE w \in rq[r].before  BY <2>1, <4>1 DEF AnswerInv, Acked
      <4>2. CASE Landed(w, c)  BY <4>2 DEF PartInv, Landed
      <4> QED  BY <3>1, <4>1, <4>2
    <3>4. wq'[w].before = wq[w].before  BY <3>3 DEF Memory
    <3> QED  BY <1>1, <3>2, <3>4 DEF Stale
  <2> QED  BY <2>2, <2>3
<1> QED  BY <1>2, <1>3, <1>5, <1>6 DEF Reading

\* What a client has got does not become stale.
LEMMA GottenKeeps ==
    ASSUME AnswerInv, NEW r \in Reads, Gotten(r), Memory,
           rq'[r].got = rq[r].got, rq'[r].before = rq[r].before,
           rq'[r].raced = rq[r].raced
    PROVE  Gotten(r)'
<1> SUFFICES ASSUME Online', mode' = "rwi" \/ ~rq'[r].raced, NEW t \in rq'[r].got
             PROVE  /\ t[3] # Junk
                    /\ \A w \in rq'[r].before : t[2] \in WSpan[w][t[1]] => ~Stale(t[3], w)'
  BY DEF Gotten
<1>1. Online  BY DEF Online, Memory
<1>2. /\ t[3] # Junk
      /\ \A w \in rq[r].before : t[2] \in WSpan[w][t[1]] => ~Stale(t[3], w)
  BY <1>1 DEF Gotten, Memory
<1>3. \A w \in rq[r].before : w \in Writes /\ wq[w].st # "new"
  BY <1>1 DEF AnswerInv, Acked
<1>4. \A w \in rq[r].before : wq'[w].before = wq[w].before
  BY <1>3 DEF Memory
<1> QED  BY <1>2, <1>4 DEF Stale

-----------------------------------------------------------------------------
(* Every step keeps the inductive invariant. *)

\* The types of the rest of the state
RQueries == [st : States, err : BOOLEAN, before : SUBSET Writes, raced : BOOLEAN,
             got : SUBSET (Chunks \X Cells \X Values)]
RestTyped ==
    /\ mode \in Modes /\ below \in Targets \cup {"offline"}
    /\ dev \in [Chunks -> Buffers]
    /\ rop \in [Reads -> [Chunks -> ReadOps]]
    /\ rq \in [Reads -> RQueries]
    /\ errors \in 0..MaxErrors /\ crashed \in BOOLEAN

\* The parts IInv is made of, for the proofs of the steps
LEMMA IInvParts ==
    /\ IInv => /\ TypeOK /\ Typed /\ RestTyped /\ PartInv /\ LockInv /\ AnswerInv
               /\ Control /\ AllContents /\ ReadInv /\ GotInv
    /\ Typed' /\ RestTyped' /\ Control' /\ AllContents' /\ ReadInv' /\ GotInv' => IInv'
<1>1. ASSUME IInv
      PROVE  /\ TypeOK /\ Typed /\ RestTyped /\ PartInv /\ LockInv /\ AnswerInv
             /\ Control /\ AllContents /\ ReadInv /\ GotInv
  <2>1. TypeOK /\ PartInv /\ LockInv /\ AnswerInv /\ ReadInv /\ GotInv  BY <1>1 DEF IInv
  <2>2. Typed  BY <2>1, TypeOKTyped
  <2>3. RestTyped  BY <2>1 DEF TypeOK, RestTyped, RQueries
  <2>4. AllContents  BY <1>1, ContentsIs DEF IInv
  <2> QED  BY <2>1, <2>2, <2>3, <2>4 DEF Control
<1>2. ASSUME Typed', RestTyped', Control', AllContents', ReadInv', GotInv' PROVE IInv'
  <2>1. TypeOK'
    BY <1>2 DEF TypeOK, Typed, RestTyped, Caches, Entries, WQueries, RQueries
  <2>2. (DevInv /\ ThroughInv /\ CacheCoherent /\ CacheInv)'  BY <1>2, ContentsIs
  <2> QED  BY <1>2, <2>1, <2>2 DEF IInv, Control
<1> QED  BY <1>1, <1>2

\* A step that disturbs no chunk keeps the contents.
LEMMA QuietKeeps ==
    ASSUME AllContents, Memory, NeverJunk', \A c \in Chunks : Undisturbed(c)
    PROVE  AllContents'
<1>1. ASSUME Online', NEW c \in Chunks PROVE Contents(c)'
  <2>1. Online  BY <1>1 DEF Memory, Online
  <2> QED  BY <2>1, UndisturbedKeeps DEF AllContents
<1> QED  BY <1>1 DEF AllContents

\* The reads in flight note the writes they meet.
LEMMA RacedIs ==
    ASSUME RestTyped, rop' = Raced(sub')
    PROVE  /\ rop' \in [Reads -> [Chunks -> ReadOps]]
           /\ \A r \in Reads, c \in Chunks :
                 /\ rop'[r][c].ph = rop[r][c].ph /\ rop'[r][c].todo = rop[r][c].todo
                 /\ rop'[r][c].buf = rop[r][c].buf /\ rop'[r][c].seq = rop[r][c].seq
                 /\ ~rop'[r][c].over /\ rop[r][c].ph = "read" =>
                       ~rop[r][c].over /\ ~Busy(c, sub')
<1> SUFFICES ASSUME NEW r \in Reads, NEW c \in Chunks
             PROVE  /\ rop'[r][c] \in ReadOps
                    /\ rop'[r][c].ph = rop[r][c].ph /\ rop'[r][c].todo = rop[r][c].todo
                    /\ rop'[r][c].buf = rop[r][c].buf /\ rop'[r][c].seq = rop[r][c].seq
                    /\ ~rop'[r][c].over /\ rop[r][c].ph = "read" =>
                          ~rop[r][c].over /\ ~Busy(c, sub')
  BY DEF Raced
<1> DEFINE n == rop[r][c].over \/ (rop[r][c].ph = "read" /\ Busy(c, sub'))
<1>1. rop'[r][c] = [rop[r][c] EXCEPT !.over = n]  BY DEF Raced
<1>2. n \in BOOLEAN /\ rop[r][c] \in ReadOps  BY DEF RestTyped, ReadOps
<1> QED  BY <1>1, <1>2 DEF ReadOps

\* A step of the writes leaves what the reads have got.
LEMMA WriteKeepsReads ==
    ASSUME IInv, Memory, dev' = dev, rq' = rq, seq' \in Nat, seq <= seq',
           \/ rop' = Raced(sub')
           \/ rop' = rop /\ \A c \in Chunks : Busy(c, sub') => Busy(c, sub),
           mode = "rwi" /\ seq' = seq =>
              \A u \in Writes, c \in Chunks :
                 /\ AtWork(sub[u][c]) => AtWork(sub'[u][c])
                 /\ Landed(u, c)' => Landed(u, c)
    PROVE  /\ rop' \in [Reads -> [Chunks -> ReadOps]]
           /\ ReadInv' /\ GotInv'
<1>1. TypeOK /\ RestTyped /\ PartInv /\ AnswerInv /\ ReadInv /\ GotInv  BY IInvParts
<1>2. ASSUME NEW r \in Reads, NEW c \in Chunks PROVE Unread(r, c)
  <2>1. CASE rop' = Raced(sub')
    <3>1. /\ rop'[r][c].ph = rop[r][c].ph /\ rop'[r][c].todo = rop[r][c].todo
          /\ rop'[r][c].buf = rop[r][c].buf /\ rop'[r][c].seq = rop[r][c].seq
          /\ ~rop'[r][c].over /\ rop[r][c].ph = "read" =>
                ~rop[r][c].over /\ ~Busy(c, sub')
      BY <1>1, <2>1, RacedIs
    <3> QED  BY <3>1 DEF Unread
  <2>2. CASE rop' = rop /\ \A d \in Chunks : Busy(d, sub') => Busy(d, sub)
    <3>1. Reading(r, c)  BY <1>1, ReadingIs
    <3> QED  BY <2>2, <3>1 DEF Unread, Reading
  <2> QED  BY <2>1, <2>2
<1>3. ReadInv'
  <2>1. \A r \in Reads, c \in Chunks : Reading(r, c)'
    BY <1>1, <1>2, ReadingIs, UnreadKeeps
  <2> QED  BY <2>1, ReadingIs
<1>4. GotInv'
  <2>1. \A r \in Reads : Gotten(r)'  BY <1>1, ReadingIs, GottenKeeps
  <2> QED  BY <2>1, ReadingIs
<1>5. rop' \in [Reads -> [Chunks -> ReadOps]]
  BY <1>1, RacedIs DEF RestTyped
<1> QED  BY <1>3, <1>4, <1>5

\* The read of a chunk as submit() starts it
LEMMA ReadOpTypes ==
    ASSUME TypeOK, NEW c \in Chunks
    PROVE  /\ ReadOp(c) \in ReadOps /\ NoReadOp \in ReadOps /\ NoReadOp.ph = "none"
           /\ ReadOp(c).todo = Cells /\ ReadOp(c).seq = seq
           /\ ReadOp(c).over <=> Busy(c, sub)
<1>1. Busy(c, sub) \in BOOLEAN  BY DEF Busy
<1>2. seq \in Nat /\ 0 \in Nat /\ Whole(Junk) \in Buffers  BY BufferTypes DEF TypeOK
<1> QED  BY <1>1, <1>2 DEF ReadOp, NoReadOp, ReadOps

\* What a client gets is cells with their values.
LEMMA CopiedTypes ==
    ASSUME NEW r \in Reads, NEW c \in Chunks, NEW b \in Buffers
    PROVE  Copied(r, c, b) \in SUBSET (Chunks \X Cells \X Values)
<1>1. RSpan[r][c] \in SUBSET Cells  BY SpansAssumption
<1>2. \A x \in RSpan[r][c] : b[x] \in Values  BY <1>1 DEF Buffers
<1> QED  BY <1>1, <1>2 DEF Copied

\* RWIHandler::submit(rq): what it takes from the cache is fresh.
LEMMA ReadKeeps ==
    ASSUME IInv, NEW r \in Reads, Read(r) PROVE IInv'
<1> DEFINE T   == Touched(RSpan[r])
           hit == {c \in T : cache[c] # None}
           got == UNION {Copied(r, c, cache[c].buf) : c \in hit}
<1>1. /\ TypeOK /\ Typed /\ RestTyped /\ PartInv /\ AnswerInv /\ Control
      /\ AllContents /\ ReadInv /\ GotInv
  BY IInvParts
<1>2. /\ UNCHANGED <<mode, below, dev, cache, seq, locker, wqs_pending, sub, wq,
                     errors, crashed>>
      /\ rop' = [rop EXCEPT ![r] = [c \in Chunks |->
                  IF c \in T \ hit THEN ReadOp(c) ELSE NoReadOp]]
      /\ rq' = [rq EXCEPT ![r] =
                [st |-> IF hit = T THEN "ok" ELSE "busy", err |-> FALSE,
                 before |-> Acked, raced |-> \E c \in hit : cache[c].raced,
                 got |-> got]]
  BY DEF Read
<1>3. /\ \A c \in Chunks : rop'[r][c] = IF c \in T \ hit THEN ReadOp(c) ELSE NoReadOp
      /\ \A s \in Reads : s # r => rop'[s] = rop[s]
      /\ rop' \in [Reads -> [Chunks -> ReadOps]]
  BY <1>1, <1>2, ReadOpTypes DEF RestTyped
<1>a. \A c \in hit : c \in Chunks /\ cache[c].buf \in Buffers /\ cache[c].raced \in BOOLEAN
                    /\ cache[c] # None
  BY <1>1 DEF Touched, Typed, Caches, Entries
<1>b. got \in SUBSET (Chunks \X Cells \X Values)  BY <1>a, CopiedTypes
<1>c. /\ \A t \in got : \E c \in hit : t \in Copied(r, c, cache[c].buf)
      /\ (\E c \in hit : cache[c].raced) \in BOOLEAN
  OBVIOUS
<1>d. Acked \in SUBSET Writes  BY DEF Acked
<1> HIDE DEF got, hit
<1>4. /\ rq'[r].before = Acked /\ rq'[r].got = got
      /\ rq'[r].raced <=> \E c \in hit : cache[c].raced
      /\ \A s \in Reads : s # r => rq'[s] = rq[s]
      /\ rq' \in [Reads -> RQueries]
  <2> DEFINE q == [st |-> IF hit = T THEN "ok" ELSE "busy", err |-> FALSE,
                   before |-> Acked, raced |-> \E c \in hit : cache[c].raced,
                   got |-> got]
  <2>1. q \in RQueries  BY <1>b, <1>c, <1>d DEF RQueries
  <2>2. /\ q.before = Acked /\ q.got = got
        /\ q.raced <=> \E c \in hit : cache[c].raced
    OBVIOUS
  <2>3. rq' = [rq EXCEPT ![r] = q] /\ rq \in [Reads -> RQueries]
    BY <1>1, <1>2 DEF RestTyped
  <2> HIDE DEF q
  <2> QED  BY <2>1, <2>2, <2>3
<1>5. Typed' /\ RestTyped'  BY <1>1, <1>2, <1>3, <1>4 DEF Typed, RestTyped
<1>6. Control'
  <2>1. below # "offline" => \A s \in Reads : rq'[s].before \subseteq Acked
    BY <1>1, <1>4 DEF AnswerInv, Online
  <2>2. \A u \in Writes, d \in Chunks :
           /\ sub'[u][d].ph = "write" => sub'[u][d].todo \subseteq WSpan[u][d]
           /\ sub'[u][d].ph = sub[u][d].ph
    BY <1>1, <1>2 DEF PartInv
  <2>3. wqs_pending \in Seq(Chunks \X Writes)  BY <1>1 DEF Typed
  <2> QED  BY <1>1, <1>2, <2>1, <2>2, <2>3, PhasesKeepControl
<1>7. AllContents'
  <2>1. Memory /\ NeverJunk'  BY <1>1, <1>2 DEF Memory, AllContents, NeverJunk
  <2>2. \A c \in Chunks : Undisturbed(c)  BY <1>2 DEF Undisturbed
  <2> QED  BY <1>1, <2>1, <2>2, QuietKeeps
<1>8. ReadInv'
  <2> SUFFICES ASSUME NEW s \in Reads, NEW c \in Chunks PROVE Reading(s, c)'
    BY ReadingIs
  <2>1. Reading(s, c)  BY <1>1, ReadingIs
  <2>2. CASE s # r
    <3>a. /\ rop'[s][c] = rop[s][c] /\ rq'[s] = rq[s] /\ seq' = seq /\ seq \in Nat
          /\ sub' = sub /\ dev' = dev /\ wq' = wq /\ mode' = mode /\ below' = below
      BY <1>1, <1>2, <1>3, <1>4, <2>2 DEF Typed
    <3>b. Busy(c, sub') <=> Busy(c, sub)  BY <3>a
    <3>c. \A u \in Writes : Landed(u, c)' => Landed(u, c)  BY <3>a DEF Landed
    <3>1. Memory /\ Unread(s, c)
      BY <2>1, <3>a, <3>b, <3>c DEF Memory, Unread, Reading
    <3> QED  BY <1>1, <2>1, <3>1, UnreadKeeps
  <2>3. CASE s = r
    <3>1. CASE rop'[r][c] = NoReadOp  BY <1>1, <2>3, <3>1, ReadOpTypes DEF Reading
    <3>2. CASE rop'[r][c] = ReadOp(c)
      <4>1. /\ rop'[r][c].todo = Cells /\ rop'[r][c].seq = seq'
            /\ rop'[r][c].over <=> Busy(c, sub')
        BY <1>1, <1>2, <3>2, ReadOpTypes
      <4>2. seq' \in Nat  BY <1>5 DEF Typed
      <4> QED  BY <2>3, <4>1, <4>2 DEF Reading
    <3> QED  BY <1>3, <3>1, <3>2
  <2> QED  BY <2>2, <2>3
<1>9. GotInv'
  <2> SUFFICES ASSUME NEW s \in Reads PROVE Gotten(s)'
    BY ReadingIs
  <2>1. CASE s # r
    <3>1. Memory  BY <1>2 DEF Memory
    <3>2. Gotten(s)  BY <1>1, ReadingIs
    <3> QED  BY <1>1, <1>4, <2>1, <3>1, <3>2, GottenKeeps
  <2>2. CASE s = r
    <3> SUFFICES ASSUME Online, mode = "rwi" \/ ~rq'[r].raced, NEW t \in got
                 PROVE  /\ t[3] # Junk
                        /\ \A w \in Acked : t[2] \in WSpan[w][t[1]] => ~Stale(t[3], w)
      BY <1>2, <1>4, <2>2 DEF Gotten, Online, Stale
    <3>1. PICK c \in hit : t \in Copied(r, c, cache[c].buf)  BY <1>c
    <3>2. PICK x \in RSpan[r][c] : t = <<c, x, cache[c].buf[x]>>  BY <3>1 DEF Copied
    <3>3. t[1] = c /\ t[2] = x /\ t[3] = cache[c].buf[x]  BY <3>2
    <3>4. x \in Cells /\ c \in Chunks  BY <1>a, SpansAssumption
    <3>5. Claimed(c)  BY <1>4, <1>a DEF Claimed
    <3>6. Kept(c)  BY <1>1, <3>4 DEF AllContents, Contents
    <3>7. \A w \in Acked : x \in WSpan[w][c] => w \in Writes /\ Landed(w, c)
      BY <1>1, <3>4 DEF AnswerInv, Acked
    <3> QED  BY <3>3, <3>4, <3>5, <3>6, <3>7 DEF Kept
  <2> QED  BY <2>1, <2>2
<1> QED  BY <1>5, <1>6, <1>7, <1>8, <1>9, IInvParts

\* What a step of the reads alone leaves as it is
LEMMA ReadsOnly ==
    ASSUME IInv, UNCHANGED <<mode, dev, seq, locker, wqs_pending, sub, wq, crashed>>,
           below = "offline" => below' = "offline", cache' \in Caches,
           \A r \in Reads : rq'[r].before = rq[r].before
    PROVE  Typed' /\ Control' /\ NeverJunk' /\ Memory
<1>1. Typed /\ PartInv /\ AnswerInv /\ Control /\ AllContents  BY IInvParts
<1>2. Typed'  BY <1>1 DEF Typed
<1>3. NeverJunk' /\ Memory  BY <1>1 DEF AllContents, NeverJunk, Memory
<1>4. below' # "offline" => \A r \in Reads : rq'[r].before \subseteq Acked
  BY <1>1 DEF AnswerInv, Online
<1>5. \A u \in Writes, d \in Chunks :
         /\ sub'[u][d].ph = "write" => sub'[u][d].todo \subseteq WSpan[u][d]
         /\ sub'[u][d].ph = sub[u][d].ph
  BY <1>1 DEF PartInv
<1>6. wqs_pending \in Seq(Chunks \X Writes)  BY <1>1 DEF Typed
<1>7. Control'  BY <1>1, <1>4, <1>5, <1>6, PhasesKeepControl
<1> QED  BY <1>2, <1>3, <1>7

\* A read that goes on in such a step
LEMMA ReadsOnlyUnread ==
    ASSUME IInv, UNCHANGED <<mode, dev, seq, sub, wq>>,
           below = "offline" => below' = "offline",
           NEW r \in Reads, NEW c \in Chunks, rq'[r].before = rq[r].before,
           rop'[r][c] = rop[r][c]
    PROVE  Reading(r, c)'
<1>1. TypeOK /\ Typed /\ PartInv /\ AnswerInv /\ Reading(r, c)  BY IInvParts, ReadingIs
<1>2. Memory  BY DEF Memory
<1>3. Busy(c, sub') <=> Busy(c, sub)  OBVIOUS
<1>4. \A u \in Writes : Landed(u, c)' => Landed(u, c)  BY DEF Landed
<1>5. seq \in Nat /\ seq <= seq  BY <1>1 DEF Typed
<1>6. Unread(r, c)  BY <1>1, <1>3, <1>4, <1>5 DEF Unread, Reading
<1> QED  BY <1>1, <1>2, <1>6, UnreadKeeps

\* A target that refuses reads is offline: nothing is claimed of contents any more.
LEMMA ReadRefusedKeeps ==
    ASSUME IInv, NEW r \in Reads, ReadRefused(r) PROVE IInv'
<1>1. Typed /\ RestTyped /\ AnswerInv /\ GotInv  BY IInvParts
<1>2. /\ UNCHANGED <<mode, below, dev, seq, locker, wqs_pending, sub, rop, wq,
                     errors, crashed>>
      /\ below = "offline" /\ rq' = [rq EXCEPT ![r].st = "err"]
  BY DEF ReadRefused
<1>3. PICK c \in Touched(RSpan[r]) : cache' \in LruUpdate(cache, c, Entry(Whole(Junk), FALSE))
  BY DEF ReadRefused
<1>4. cache' \in Caches
  <2> DEFINE e == Entry(Whole(Junk), FALSE)
  <2>1. e \in Entries  BY BufferTypes, EntryTypes
  <2>2. c \in Chunks /\ cache \in Caches  BY <1>1 DEF Touched, Typed
  <2>3. PICK m : m = cache /\ m \in Caches  BY <2>2
  <2>4. PICK u : u = cache' /\ u \in LruUpdate(m, c, e)  BY <1>3, <2>3
  <2> HIDE DEF e
  <2>5. u \in Caches  BY <2>1, <2>2, <2>3, <2>4, LruUpdateIs
  <2> QED  BY <2>4, <2>5
<1>5. /\ rq' \in [Reads -> RQueries]
      /\ \A s \in Reads : rq'[s].before = rq[s].before
  <2> DEFINE q == [rq[r] EXCEPT !.st = "err"]
  <2>1. rq \in [Reads -> RQueries] /\ rq' = [rq EXCEPT ![r] = q]
    BY <1>1, <1>2 DEF RestTyped
  <2>2. q \in RQueries /\ q.before = rq[r].before  BY <2>1 DEF RQueries
  <2> HIDE DEF q
  <2> QED  BY <2>1, <2>2
<1>6. Typed' /\ Control' /\ NeverJunk' /\ Memory  BY <1>2, <1>4, <1>5, ReadsOnly
<1>7. RestTyped'  BY <1>1, <1>2, <1>5 DEF RestTyped
<1>8. AllContents' /\ GotInv'  BY <1>2, <1>6 DEF AllContents, GotInv, Online
<1>9. ReadInv'
  <2>1. \A s \in Reads, d \in Chunks : Reading(s, d)'  BY <1>2, <1>5, ReadsOnlyUnread
  <2> QED  BY <2>1, ReadingIs
<1> QED  BY <1>6, <1>7, <1>8, <1>9, IInvParts

\* The target below fills a cell of a buffer: with what is fresh there.
LEMMA ReadExecKeeps ==
    ASSUME IInv, NEW r \in Reads, NEW c \in Chunks, NEW x \in Cells, ReadExec(r, c, x)
    PROVE  IInv'
<1>1. /\ Typed /\ RestTyped /\ AnswerInv /\ AllContents /\ ReadInv /\ GotInv
  BY IInvParts
<1>2. /\ UNCHANGED <<mode, below, dev, cache, seq, locker, wqs_pending, sub, wq, rq,
                   errors, crashed>>
      /\ x \in rop[r][c].todo
      /\ rop' = [rop EXCEPT ![r][c].todo = rop[r][c].todo \ {x},
                            ![r][c].buf[x] = dev[c][x]]
  BY DEF ReadExec
<1>3. rop[r][c] \in ReadOps /\ dev[c][x] \in Values
  BY <1>1 DEF RestTyped, Buffers
<1>a. rop[r][c].buf \in Buffers  BY <1>3 DEF ReadOps
<1>b. [rop[r][c].buf EXCEPT ![x] = dev[c][x]] \in Buffers  BY <1>3, <1>a DEF Buffers
<1>c. [rop[r][c] EXCEPT !.todo = rop[r][c].todo \ {x},
                        !.buf = [rop[r][c].buf EXCEPT ![x] = dev[c][x]]] \in ReadOps
  BY <1>3, <1>b DEF ReadOps
<1>4. /\ rop'[r][c].ph = rop[r][c].ph /\ rop'[r][c].seq = rop[r][c].seq
      /\ rop'[r][c].over = rop[r][c].over /\ rop'[r][c].todo = rop[r][c].todo \ {x}
      /\ rop'[r][c].buf = [rop[r][c].buf EXCEPT ![x] = dev[c][x]]
      /\ \A s \in Reads, d \in Chunks : s # r \/ d # c => rop'[s][d] = rop[s][d]
      /\ rop' \in [Reads -> [Chunks -> ReadOps]]
  <2> DEFINE q == [rop EXCEPT ![r][c].todo = rop[r][c].todo \ {x}]
  <2>1. rop \in [Reads -> [Chunks -> ReadOps]]  BY <1>1 DEF RestTyped
  <2>2. /\ q \in [Reads -> [Chunks -> ReadOps]]
        /\ q[r][c] = [rop[r][c] EXCEPT !.todo = rop[r][c].todo \ {x}]
        /\ \A s \in Reads, d \in Chunks : s # r \/ d # c => q[s][d] = rop[s][d]
    <3>1. [rop[r][c] EXCEPT !.todo = rop[r][c].todo \ {x}] \in ReadOps
      BY <1>3 DEF ReadOps
    <3> QED  BY <2>1, <3>1
  <2>3. rop' = [q EXCEPT ![r][c].buf[x] = dev[c][x]]  BY <1>2
  <2> HIDE DEF q
  <2>4. [q[r][c] EXCEPT !.buf[x] = dev[c][x]] =
           [rop[r][c] EXCEPT !.todo = rop[r][c].todo \ {x},
                             !.buf = [rop[r][c].buf EXCEPT ![x] = dev[c][x]]]
    BY <1>3, <2>2 DEF ReadOps
  <2>5. /\ rop'[r][c] = [q[r][c] EXCEPT !.buf[x] = dev[c][x]]
        /\ \A s \in Reads, d \in Chunks : s # r \/ d # c => rop'[s][d] = rop[s][d]
    BY <2>2, <2>3
  <2>6. rop' \in [Reads -> [Chunks -> ReadOps]]  BY <1>c, <2>2, <2>3, <2>4
  <2> DEFINE z == [rop[r][c] EXCEPT !.todo = rop[r][c].todo \ {x},
                                    !.buf = [rop[r][c].buf EXCEPT ![x] = dev[c][x]]]
  <2>7. /\ z.ph = rop[r][c].ph /\ z.seq = rop[r][c].seq /\ z.over = rop[r][c].over
        /\ z.todo = rop[r][c].todo \ {x}
        /\ z.buf = [rop[r][c].buf EXCEPT ![x] = dev[c][x]]
    BY <1>3 DEF ReadOps
  <2>8. rop'[r][c] = z  BY <2>4, <2>5
  <2> HIDE DEF z
  <2> QED  BY <2>5, <2>6, <2>7, <2>8
<1>5. /\ x \notin rop'[r][c].todo /\ rop'[r][c].buf[x] = dev[c][x]
      /\ \A y \in Cells \ rop'[r][c].todo : y # x =>
            y \in Cells \ rop[r][c].todo /\ rop'[r][c].buf[y] = rop[r][c].buf[y]
  BY <1>4, <1>a DEF Buffers
<1>6. Typed' /\ Control' /\ NeverJunk' /\ Memory
  <2>1. cache' \in Caches  BY <1>1, <1>2 DEF Typed
  <2> QED  BY <1>2, <2>1, ReadsOnly
<1>7. RestTyped'  BY <1>1, <1>2, <1>4 DEF RestTyped
<1>8. AllContents'
  <2>1. \A d \in Chunks : Undisturbed(d)  BY <1>2 DEF Undisturbed
  <2> QED  BY <1>1, <1>6, <2>1, QuietKeeps
<1>9. Reading(r, c)'
  <2> SUFFICES ASSUME rop'[r][c].ph = "read" PROVE Reading(r, c)'
    BY DEF Reading
  <2>1. rop[r][c].ph = "read" /\ Reading(r, c)  BY <1>1, <1>4, ReadingIs
  <2>2. rop'[r][c].seq <= seq'  BY <1>2, <1>4, <2>1 DEF Reading
  <2>3. ~rop'[r][c].over =>
           ~Busy(c, sub') /\ \A y \in Cells \ rop'[r][c].todo : rop'[r][c].buf[y] = dev'[c][y]
    <3>1. ~rop[r][c].over =>
             ~Busy(c, sub') /\ \A y \in Cells \ rop[r][c].todo : rop[r][c].buf[y] = dev[c][y]
      BY <1>2, <2>1 DEF Reading
    <3>2. rop'[r][c].over = rop[r][c].over /\ dev'[c] = dev[c]  BY <1>2, <1>4
    <3>3. \A y \in Cells \ rop'[r][c].todo :
             y = x \/ (y \in Cells \ rop[r][c].todo /\ rop'[r][c].buf[y] = rop[r][c].buf[y])
      BY <1>5
    <3> QED  BY <1>5, <3>1, <3>2, <3>3
  <2>4. mode' = "rwi" /\ rop'[r][c].seq = seq' =>
           \A y \in Cells \ rop'[r][c].todo :
              \/ rop'[r][c].buf[y] = dev'[c][y]
              \/ \E w \in Writes : AtWork(sub'[w][c]) /\ y \in WSpan[w][c]
    BY <1>2, <1>4, <1>5, <2>1 DEF Reading
  <2>5. ASSUME Online', NEW y \in Cells \ rop'[r][c].todo
        PROVE  /\ rop'[r][c].buf[y] # Junk
               /\ \A w \in Writes :
                     /\ y \in WSpan[w][c]
                     /\ \/ w \in rq'[r].before
                        \/ mode' = "rwi" /\ rop'[r][c].seq = seq' /\ Landed(w, c)'
                     => ~Stale(rop[r][c].buf[y], w)'
    <3>0. Online  BY <1>2, <2>5 DEF Online
    <3>1. CASE y # x
      <4>1. y \in Cells \ rop[r][c].todo /\ rop'[r][c].buf[y] = rop[r][c].buf[y]
        BY <1>5, <3>1
      <4>2. /\ rop[r][c].buf[y] # Junk
            /\ \A w \in Writes :
                  /\ y \in WSpan[w][c]
                  /\ \/ w \in rq[r].before
                     \/ mode = "rwi" /\ rop[r][c].seq = seq /\ Landed(w, c)
                  => ~Stale(rop[r][c].buf[y], w)
        BY <2>1, <3>0, <4>1 DEF Reading
      <4>3. \A w \in Writes : Landed(w, c)' <=> Landed(w, c)  BY <1>2 DEF Landed
      <4>4. \A w \in Writes : ~Stale(rop[r][c].buf[y], w) => ~Stale(rop[r][c].buf[y], w)'
        BY <1>2, <4>1 DEF Stale
      <4> QED  BY <1>2, <1>4, <4>1, <4>2, <4>3, <4>4
    <3>2. CASE y = x
      <4>1. rop'[r][c].buf[y] = dev[c][x]  BY <1>5, <3>2
      <4>2. dev[c][x] # Junk  BY <1>1 DEF AllContents, NeverJunk
      <4>3. ASSUME NEW w \in Writes, x \in WSpan[w][c], w \in rq[r].before \/ Landed(w, c)
            PROVE  ~Stale(dev[c][x], w)
        <5>1. Landed(w, c)  BY <1>1, <3>0, <4>3 DEF AnswerInv, Acked
        <5> QED  BY <1>1, <3>0, <4>3, <5>1 DEF AllContents, Contents, Written
      <4> QED  BY <1>2, <3>2, <4>1, <4>2, <4>3 DEF Landed, Stale
    <3> QED  BY <3>1, <3>2
  <2> QED  BY <2>2, <2>3, <2>4, <2>5 DEF Reading
<1>10. ReadInv'
  <2>1. ASSUME NEW s \in Reads, NEW d \in Chunks PROVE Reading(s, d)'
    <3>1. CASE s = r /\ d = c  BY <1>9, <3>1
    <3>2. CASE s # r \/ d # c  BY <1>2, <1>4, <3>2, ReadsOnlyUnread
    <3> QED  BY <3>1, <3>2
  <2> QED  BY <2>1, ReadingIs
<1>11. GotInv'
  <2>1. \A s \in Reads : Gotten(s)'  BY <1>1, <1>2, <1>6, ReadingIs, GottenKeeps
  <2> QED  BY <2>1, ReadingIs
<1> QED  BY <1>6, <1>7, <1>8, <1>10, <1>11, IInvParts

\* What an answer of the target below leaves of it
LEMMA OutcomeIs ==
    ASSUME RestTyped, NEW ok \in BOOLEAN, NEW todo, Outcome(ok, todo)
    PROVE  /\ below' \in Targets \cup {"offline"} /\ errors' \in 0..MaxErrors
           /\ below = "offline" => below' = "offline"
           /\ ok => todo = {} /\ below' = below
<1>1. errors \in Nat /\ MaxErrors \in Nat /\ errors <= MaxErrors
  BY BoundAssumption DEF RestTyped
<1> QED  BY <1>1 DEF Outcome, RestTyped

\* What the end of a read of a chunk does to its query
LEMMA AnswerReadIs ==
    ASSUME NEW q \in RQueries, NEW last \in BOOLEAN, NEW err \in BOOLEAN
    PROVE  /\ Answer(q, last, err) \in RQueries
           /\ Answer(q, last, err).before = q.before
           /\ Answer(q, last, err).got = q.got
           /\ Answer(q, last, err).raced = q.raced
<1>1. (q.err \/ err) \in BOOLEAN  OBVIOUS
<1>2. CASE last
  <2>1. Answer(q, last, err) =
           [q EXCEPT !.err = q.err \/ err, !.st = IF q.err \/ err THEN "err" ELSE "ok"]
    BY <1>2 DEF Answer
  <2> QED  BY <1>1, <1>2, <2>1 DEF RQueries
<1>3. CASE ~last
  <2>1. Answer(q, last, err) = [q EXCEPT !.err = q.err \/ err, !.st = q.st]
    BY <1>3 DEF Answer
  <2> QED  BY <1>1, <1>3, <2>1 DEF RQueries
<1> QED  BY <1>2, <1>3

\* A chunk that a read puts into the cache is what the target below holds of it,
\* or CacheCoherent does not speak of it.
LEMMA StoredKeeps ==
    ASSUME IInv, NEW r \in Reads, NEW c \in Chunks, Online,
           rop[r][c].ph = "read", rop[r][c].todo = {}, rop[r][c].seq = seq,
           cache'[c] = Entry(rop[r][c].buf, rop[r][c].over),
           UNCHANGED <<mode, dev, sub, wq>>
    PROVE  Contents(c)'
<1>1. /\ RestTyped /\ Reading(r, c) /\ Contents(c) /\ NeverJunk /\ mode \in {"rwi", "rwt"}
      /\ PartInv
  BY IInvParts, ReadingIs, ModesAssumption DEF AllContents, RestTyped
<1>2. /\ cache'[c].buf = rop[r][c].buf /\ cache'[c].raced = rop[r][c].over
  BY <1>1, EntryTypes DEF RestTyped, ReadOps
<1>3. /\ ~rop[r][c].over =>
            ~Busy(c, sub) /\ \A x \in Cells : rop[r][c].buf[x] = dev[c][x]
      /\ mode = "rwi" =>
            \A x \in Cells :
               \/ rop[r][c].buf[x] = dev[c][x]
               \/ \E w \in Writes : AtWork(sub[w][c]) /\ x \in WSpan[w][c]
      /\ \A x \in Cells :
            /\ rop[r][c].buf[x] # Junk
            /\ \A w \in Writes : x \in WSpan[w][c] /\ mode = "rwi" /\ Landed(w, c) =>
                  ~Stale(rop[r][c].buf[x], w)
  BY <1>1 DEF Reading
<1>4. Written(c)'  BY <1>1 DEF Contents, Written, Landed, Stale
<1>5. ASSUME mode' = "rwt", NEW w \in Writes PROVE Through(w, c)'
  <2>1. CASE rop[r][c].over
    <3>1. ~Claimed(c)'  BY <1>2, <1>5, <2>1 DEF Claimed
    <3> QED  BY <1>1, <1>5, <3>1 DEF Contents, Through
  <2>2. CASE ~rop[r][c].over
    <3>1. ~AtWork(sub[w][c])  BY <1>3, <2>2 DEF Busy
    <3> QED  BY <3>1 DEF Through, AtWork
  <2> QED  BY <2>1, <2>2
<1>6. Kept(c)'
  <2>1. CASE mode = "rwi"  BY <1>2, <1>3, <2>1 DEF Kept, Landed, Stale
  <2>2. CASE mode = "rwt"
    <3>1. Claimed(c)' => ~rop[r][c].over  BY <1>2, <2>2 DEF Claimed
    <3>2. ~rop[r][c].over => \A x \in Cells : cache'[c].buf[x] = dev'[c][x]
      BY <1>2, <1>3
    <3>3. \A w \in Writes : \A x \in WSpan[w][c] : Landed(w, c)' => ~Stale(dev[c][x], w)'
      BY <1>4 DEF Written
    <3> QED  BY <1>1, <3>1, <3>2, <3>3 DEF Kept, NeverJunk, Stale
  <2> QED  BY <1>1, <2>1, <2>2
<1> QED  BY <1>4, <1>5, <1>6 DEF Contents

\* The completer of a read: the client gets the chunk, the cache may.
LEMMA ReadDoneKeeps ==
    ASSUME IInv, NEW r \in Reads, NEW c \in Chunks, NEW ok \in BOOLEAN, ReadDone(r, c, ok)
    PROVE  IInv'
<1> DEFINE last == \A d \in Chunks \ {c} : rop[r][d].ph # "read"
           got  == IF ok THEN rq[r].got \cup Copied(r, c, rop[r][c].buf) ELSE rq[r].got
<1>1. /\ Typed /\ RestTyped /\ AnswerInv /\ AllContents /\ ReadInv /\ GotInv
  BY IInvParts
<1>2. /\ UNCHANGED <<mode, dev, seq, locker, wqs_pending, sub, wq, crashed>>
      /\ rop[r][c].ph = "read" /\ Outcome(ok, rop[r][c].todo)
      /\ rop' = [rop EXCEPT ![r][c] = NoReadOp]
      /\ cache' = cache \/ (/\ ok /\ rop[r][c].seq = seq
                            /\ cache' \in LruUpdate(cache, c,
                                             Entry(rop[r][c].buf, rop[r][c].over)))
  BY DEF ReadDone, MayCache
<1>3. /\ below' \in Targets \cup {"offline"} /\ errors' \in 0..MaxErrors
      /\ below = "offline" => below' = "offline"
      /\ ok => rop[r][c].todo = {} /\ below' = below
  BY <1>1, <1>2, OutcomeIs
<1>4. rop[r][c] \in ReadOps /\ rop[r][c].buf \in Buffers /\ rop[r][c].over \in BOOLEAN
  BY <1>1 DEF RestTyped, ReadOps
<1>5. /\ rop' \in [Reads -> [Chunks -> ReadOps]] /\ rop'[r][c].ph = "none"
      /\ \A s \in Reads, d \in Chunks : s # r \/ d # c => rop'[s][d] = rop[s][d]
  <2>1. NoReadOp \in ReadOps /\ NoReadOp.ph = "none"
    BY BufferTypes DEF NoReadOp, ReadOps
  <2> QED  BY <1>1, <1>2, <2>1 DEF RestTyped
<1>6. /\ rq' \in [Reads -> RQueries]
      /\ rq'[r].before = rq[r].before /\ rq'[r].raced = rq[r].raced /\ rq'[r].got = got
      /\ \A s \in Reads : s # r => rq'[s] = rq[s]
  <2>1. last \in BOOLEAN /\ rq[r] \in RQueries /\ rq \in [Reads -> RQueries]
    BY <1>1 DEF RestTyped
  <2>2. got \in SUBSET (Chunks \X Cells \X Values)
    BY <1>4, <2>1, CopiedTypes DEF RQueries
  <2>3. rq' = [rq EXCEPT ![r] = [Answer(rq[r], last, ~ok) EXCEPT
                  !.got = IF ok THEN @ \cup Copied(r, c, rop[r][c].buf) ELSE @]]
    BY DEF ReadDone
  <2> HIDE DEF last
  <2> DEFINE a == Answer(rq[r], last, ~ok)
  <2>4. a \in RQueries /\ a.before = rq[r].before /\ a.got = rq[r].got /\ a.raced = rq[r].raced
    BY <2>1, AnswerReadIs
  <2>a. (IF ok THEN a.got \cup Copied(r, c, rop[r][c].buf) ELSE a.got) = got
    BY <2>4
  <2>b. rq' = [rq EXCEPT ![r] = [a EXCEPT
                  !.got = IF ok THEN a.got \cup Copied(r, c, rop[r][c].buf) ELSE a.got]]
    BY <2>3
  <2>5. rq' = [rq EXCEPT ![r] = [a EXCEPT !.got = got]]  BY <2>a, <2>b, Zenon
  <2> HIDE DEF a, got
  <2>6. [a EXCEPT !.got = got] \in RQueries  BY <2>2, <2>4 DEF RQueries
  <2>7. /\ [a EXCEPT !.got = got].got = got
        /\ [a EXCEPT !.got = got].before = rq[r].before
        /\ [a EXCEPT !.got = got].raced = rq[r].raced
    BY <2>4 DEF RQueries
  <2> QED  BY <2>1, <2>5, <2>6, <2>7
<1>7. /\ cache' \in Caches
      /\ \A d \in Chunks : d # c => cache'[d] \in {cache[d], None}
      /\ cache'[c] = cache[c] \/ (/\ ok /\ rop[r][c].seq = seq
                                  /\ cache'[c] = Entry(rop[r][c].buf, rop[r][c].over))
  <2> DEFINE e == Entry(rop[r][c].buf, rop[r][c].over)
  <2>1. e \in Entries  BY <1>4, EntryTypes
  <2>2. CASE cache' = cache  BY <1>1, <2>2 DEF Typed
  <2>3. CASE ok /\ rop[r][c].seq = seq /\ cache' \in LruUpdate(cache, c, e)
    <3>1. PICK m \in Caches : m = cache  BY <1>1 DEF Typed
    <3>2. PICK f \in Entries : f = e  BY <2>1
    <3>3. PICK u \in LruUpdate(m, c, f) : u = cache'  BY <2>3, <3>1, <3>2
    <3>4. /\ u \in Caches /\ u[c] = f
          /\ \A d \in Chunks : d # c => u[d] \in {m[d], None}
      BY LruUpdateIs
    <3> HIDE DEF e
    <3> QED  BY <2>3, <3>1, <3>2, <3>3, <3>4 DEF e
  <2> QED  BY <1>2, <2>2, <2>3
<1>8. Typed' /\ Control' /\ NeverJunk' /\ Memory
  <2>1. \A s \in Reads : rq'[s].before = rq[s].before  BY <1>6
  <2> QED  BY <1>2, <1>3, <1>7, <2>1, ReadsOnly
<1>9. RestTyped'  BY <1>1, <1>2, <1>3, <1>5, <1>6 DEF RestTyped
<1>10. AllContents'
  <2>1. ASSUME Online', NEW d \in Chunks PROVE Contents(d)'
    <3>1. Online /\ Contents(d)  BY <1>1, <1>3, <2>1 DEF Online, AllContents
    <3>2. CASE d # c \/ cache'[d] = cache[d]
      <4>1. Undisturbed(d)  BY <1>2, <1>7, <3>2 DEF Undisturbed
      <4> QED  BY <3>1, <4>1, UndisturbedKeeps
    <3>3. CASE d = c /\ cache'[d] # cache[d]
      <4>1. /\ ok /\ rop[r][c].seq = seq /\ rop[r][c].todo = {}
            /\ cache'[c] = Entry(rop[r][c].buf, rop[r][c].over)
        BY <1>3, <1>7, <3>3
      <4> QED  BY <1>2, <3>1, <3>3, <4>1, StoredKeeps
    <3> QED  BY <3>2, <3>3
  <2> QED  BY <1>8, <2>1 DEF AllContents
<1>11. ReadInv'
  <2>1. ASSUME NEW s \in Reads, NEW d \in Chunks PROVE Reading(s, d)'
    <3>1. CASE s = r /\ d = c  BY <1>5, <3>1 DEF Reading
    <3>2. CASE s # r \/ d # c
      <4>1. rop'[s][d] = rop[s][d] /\ rq'[s].before = rq[s].before  BY <1>5, <1>6, <3>2
      <4> QED  BY <1>2, <1>3, <4>1, ReadsOnlyUnread
    <3> QED  BY <3>1, <3>2
  <2> QED  BY <2>1, ReadingIs
<1>12. GotInv'
  <2> SUFFICES ASSUME NEW s \in Reads PROVE Gotten(s)'
    BY ReadingIs
  <2>0. Gotten(s)  BY <1>1, ReadingIs
  <2>1. CASE s # r  BY <1>1, <1>6, <1>8, <2>0, <2>1, GottenKeeps
  <2>2. CASE s = r
    <3> SUFFICES ASSUME Online', mode' = "rwi" \/ ~rq'[r].raced, NEW t \in got
                 PROVE  /\ t[3] # Junk
                        /\ \A w \in rq[r].before : t[2] \in WSpan[w][t[1]] => ~Stale(t[3], w)'
      BY <1>6, <2>2 DEF Gotten
    <3>1. Online /\ (mode = "rwi" \/ ~rq[r].raced)  BY <1>2, <1>3, <1>6 DEF Online
    <3>2. \A w \in Writes : Stale(t[3], w)' <=> Stale(t[3], w)  BY <1>2 DEF Stale
    <3>3. rq[r].before \subseteq Writes  BY <1>1 DEF RestTyped, RQueries
    <3>4. CASE t \in rq[r].got  BY <2>0, <2>2, <3>1, <3>2, <3>3, <3>4 DEF Gotten
    <3>5. CASE ok /\ t \in Copied(r, c, rop[r][c].buf)
      <4>1. PICK x \in RSpan[r][c] : t = <<c, x, rop[r][c].buf[x]>>
        BY <3>5 DEF Copied
      <4>2. t[1] = c /\ t[2] = x /\ t[3] = rop[r][c].buf[x]  BY <4>1
      <4>3. x \in Cells \ rop[r][c].todo  BY <1>3, <3>5, SpansAssumption
      <4>4. Reading(r, c)  BY <1>1, ReadingIs
      <4>5. /\ rop[r][c].buf[x] # Junk
            /\ \A w \in Writes : x \in WSpan[w][c] /\ w \in rq[r].before =>
                  ~Stale(rop[r][c].buf[x], w)
        BY <1>2, <3>1, <4>3, <4>4 DEF Reading
      <4> QED  BY <3>2, <3>3, <4>2, <4>5
    <3> QED  BY <3>4, <3>5
  <2> QED  BY <2>1, <2>2
<1> QED  BY <1>8, <1>9, <1>10, <1>11, <1>12, IInvParts

-----------------------------------------------------------------------------
(* RWIHandler's writes *)

\* A write that begins: its parts are at work, or the target refused it.
LEMMA BeginKeepsAnswers ==
    ASSUME IInv, mode = "rwi", mode' = mode, below' = below, rq' = rq,
           NEW w \in Writes, wq[w].st = "new", NEW st \in {"busy", "err"},
           wq' = Begun(w, st), st = "err" => below = "offline",
           \A u \in Writes : u # w => sub'[u] = sub[u],
           \A c \in Chunks :
              /\ sub'[w][c].ph = IF st = "err" \/ WSpan[w][c] = {} THEN "none" ELSE "write"
              /\ sub'[w][c].ph = "write" => sub'[w][c].todo \subseteq WSpan[w][c]
    PROVE  /\ wq' \in [Writes -> WQueries] /\ Control' /\ Memory
           /\ \A u \in Writes : u # w => wq'[u] = wq[u]
<1>1. Typed /\ PartInv /\ AnswerInv  BY IInvParts
<1>2. /\ wq' \in [Writes -> WQueries]
      /\ wq'[w].st = st /\ wq'[w].err = FALSE /\ wq'[w].before = Answered
      /\ \A u \in Writes : u # w => wq'[u] = wq[u]
  <2>1. st \in States  OBVIOUS
  <2> QED  BY <1>1, <2>1, BegunIs
<1>3. PartInv'
  <2> SUFFICES ASSUME NEW u \in Writes, NEW c \in Chunks
               PROVE  /\ WSpan[u][c] = {} \/ wq'[u].st = "new" => sub'[u][c].ph = "none"
                      /\ sub'[u][c].ph = "write" => sub'[u][c].todo \subseteq WSpan[u][c]
                      /\ sub'[u][c].ph \in {"none", "write", "done"}
                      /\ wq'[u].st = "busy" /\ WSpan[u][c] # {} => sub'[u][c].ph = "write"
    BY DEF PartInv
  <2>1. CASE u # w  BY <1>1, <1>2, <2>1 DEF PartInv
  <2>2. CASE u = w  BY <1>2, <2>2
  <2> QED  BY <2>1, <2>2
<1>4. LockInv'  BY DEF LockInv
<1>5. AnswerInv'
  <2>1. Answered \subseteq Answered' /\ Acked \subseteq Acked'
    BY <1>2 DEF Answered, Acked
  <2>2. \A u \in Writes : wq'[u].before \subseteq Answered'
    BY <1>1, <1>2, <2>1 DEF AnswerInv
  <2>3. ASSUME Online, NEW u \in Writes, NEW c \in Chunks
        PROVE  /\ AtWork(sub'[u][c]) \/ sub'[u][c].ph = "pending" => wq'[u].st = "busy"
               /\ wq'[u].st = "ok" /\ WSpan[u][c] # {} => Landed(u, c)'
    <3>1. CASE u = w
      <4>1. wq'[u].st = "busy"  BY <1>2, <2>3, <3>1 DEF Online
      <4> QED  BY <4>1
    <3>2. CASE u # w
      <4>1. wq'[u] = wq[u] /\ sub'[u] = sub[u]  BY <1>2, <3>2
      <4>2. /\ AtWork(sub[u][c]) \/ sub[u][c].ph = "pending" => wq[u].st = "busy"
            /\ wq[u].st = "ok" /\ WSpan[u][c] # {} => Landed(u, c)
        BY <1>1, <2>3 DEF AnswerInv
      <4> QED  BY <4>1, <4>2 DEF Landed
    <3> QED  BY <3>1, <3>2
  <2>4. Online => \A r \in Reads : rq'[r].before \subseteq Acked'
    BY <1>1, <2>1 DEF AnswerInv
  <2>5. Online' <=> Online  BY DEF Online
  <2> QED  BY <2>2, <2>3, <2>4, <2>5 DEF AnswerInv
<1>6. Memory  BY <1>2 DEF Memory
<1> QED  BY <1>2, <1>3, <1>4, <1>5, <1>6 DEF Control

\* RWIHandler::submit(wq): nothing has changed yet.
LEMMA WriteRWIKeeps ==
    ASSUME IInv, NEW w \in Writes, WriteRWI(w) PROVE IInv'
<1> DEFINE parts == [c \in Chunks |-> IF WSpan[w][c] = {} THEN Idle
                                      ELSE Part("write", WSpan[w][c])]
<1>1. Typed /\ RestTyped /\ PartInv /\ AllContents  BY IInvParts
<1>2. /\ UNCHANGED <<mode, below, dev, cache, seq, locker, wqs_pending, rq, errors, crashed>>
      /\ mode = "rwi" /\ wq[w].st = "new" /\ wq' = Begun(w, "busy")
      /\ sub' = [sub EXCEPT ![w] = parts] /\ rop' = Raced(sub')
  BY DEF WriteRWI
<1>3. /\ parts \in [Chunks -> Parts]
      /\ \A c \in Chunks :
            /\ parts[c].ph = IF WSpan[w][c] = {} THEN "none" ELSE "write"
            /\ parts[c].todo = WSpan[w][c]
  <2> SUFFICES ASSUME NEW c \in Chunks
               PROVE  /\ parts[c] \in Parts
                      /\ parts[c].ph = IF WSpan[w][c] = {} THEN "none" ELSE "write"
                      /\ parts[c].todo = WSpan[w][c]
    OBVIOUS
  <2>1. WSpan[w][c] \in SUBSET Cells  BY SpanTypes
  <2>2. Idle \in Parts /\ Idle.ph = "none" /\ Idle.todo = {}
    BY PartTypes DEF Idle
  <2>3. /\ Part("write", WSpan[w][c]) \in Parts
        /\ Part("write", WSpan[w][c]).ph = "write"
        /\ Part("write", WSpan[w][c]).todo = WSpan[w][c]
    BY <2>1, PartTypes
  <2> QED  BY <2>2, <2>3
<1> HIDE DEF parts
<1>4. /\ sub' \in [Writes -> [Chunks -> Parts]] /\ sub'[w] = parts
      /\ \A u \in Writes : u # w => sub'[u] = sub[u]
  BY <1>1, <1>2, <1>3 DEF Typed
<1>5. /\ wq' \in [Writes -> WQueries] /\ Control' /\ Memory
      /\ \A u \in Writes : u # w => wq'[u] = wq[u]
  <2>1. \A c \in Chunks :
          /\ sub'[w][c].ph = IF "busy" = "err" \/ WSpan[w][c] = {} THEN "none" ELSE "write"
          /\ sub'[w][c].ph = "write" => sub'[w][c].todo \subseteq WSpan[w][c]
    BY <1>3, <1>4
  <2> QED  BY <1>2, <1>4, <2>1, BeginKeepsAnswers
<1>6. Typed'  BY <1>1, <1>2, <1>4, <1>5 DEF Typed
<1>7. /\ rop' \in [Reads -> [Chunks -> ReadOps]] /\ ReadInv' /\ GotInv'
  <2>1. ASSUME NEW u \in Writes, NEW c \in Chunks
        PROVE  /\ AtWork(sub[u][c]) => AtWork(sub'[u][c])
               /\ Landed(u, c)' => Landed(u, c)
    <3>1. CASE u = w
      <4>1. sub[w][c].ph = "none" /\ sub'[w][c].ph # "done"
        BY <1>1, <1>2, <1>3, <1>4 DEF PartInv
      <4> QED  BY <3>1, <4>1 DEF AtWork, Landed
    <3>2. CASE u # w  BY <1>4, <1>5, <3>2 DEF Landed
    <3> QED  BY <3>1, <3>2
  <2>2. seq' \in Nat /\ seq <= seq'  BY <1>1, <1>2 DEF Typed
  <2>3. dev' = dev /\ rq' = rq /\ rop' = Raced(sub')  BY <1>2
  <2> QED  BY <1>5, <2>1, <2>2, <2>3, WriteKeepsReads
<1>8. RestTyped'  BY <1>1, <1>2, <1>7 DEF RestTyped
<1>9. AllContents'
  <2>1. ASSUME Online', NEW c \in Chunks PROVE Contents(c)'
    <3>1. Contents(c)  BY <1>1, <1>2, <2>1 DEF Online, AllContents
    <3>2. ASSUME NEW u \in Writes, sub'[u][c].ph = "done"
          PROVE  sub'[u] = sub[u] /\ wq'[u] = wq[u]
      <4>1. u # w  BY <1>3, <1>4, <3>2
      <4> QED  BY <1>4, <1>5, <4>1
    <3>3. Written(c)'
      <4> SUFFICES ASSUME NEW u \in Writes, NEW x \in WSpan[u][c],
                          \/ sub'[u][c].ph = "write" /\ x \notin sub'[u][c].todo
                          \/ Landed(u, c)'
                   PROVE  ~Stale(dev[c][x], u)'
        BY DEF Written
      <4>1. u # w
        <5> SUFFICES ASSUME u = w PROVE FALSE  OBVIOUS
        <5>1. sub'[w][c].ph # "done" /\ sub'[w][c].todo = WSpan[w][c]  BY <1>3, <1>4
        <5> QED  BY <5>1 DEF Landed
      <4>2. sub'[u] = sub[u] /\ wq'[u] = wq[u]  BY <1>4, <1>5, <4>1
      <4>3. ~Stale(dev[c][x], u)  BY <3>1, <4>2 DEF Contents, Written, Landed
      <4> QED  BY <1>2, <4>2, <4>3 DEF Stale
    <3>4. Kept(c)'
      <4> SUFFICES ASSUME Claimed(c)', NEW x \in Cells
                   PROVE  /\ \/ cache'[c].buf[x] = dev'[c][x]
                             \/ \E v \in Writes : AtWork(sub'[v][c]) /\ x \in WSpan[v][c]
                          /\ cache'[c].buf[x] # Junk
                          /\ \A v \in Writes : x \in WSpan[v][c] /\ Landed(v, c)' =>
                                ~Stale(cache[c].buf[x], v)'
        BY DEF Kept
      <4>1. /\ \/ cache[c].buf[x] = dev[c][x]
               \/ \E v \in Writes : AtWork(sub[v][c]) /\ x \in WSpan[v][c]
            /\ cache[c].buf[x] # Junk
            /\ \A v \in Writes : x \in WSpan[v][c] /\ Landed(v, c) =>
                  ~Stale(cache[c].buf[x], v)
        BY <1>2, <3>1 DEF Contents, Kept, Claimed
      <4>2. \A v \in Writes : AtWork(sub[v][c]) => AtWork(sub'[v][c])
        <5>1. ~AtWork(sub[w][c])  BY <1>1, <1>2 DEF PartInv, AtWork
        <5> QED  BY <1>4, <5>1
      <4>3. ASSUME NEW v \in Writes, x \in WSpan[v][c], Landed(v, c)'
            PROVE  ~Stale(cache[c].buf[x], v)'
        <5>1. sub'[v] = sub[v] /\ wq'[v] = wq[v]  BY <3>2, <4>3 DEF Landed
        <5>2. ~Stale(cache[c].buf[x], v)  BY <4>1, <4>3, <5>1 DEF Landed
        <5> QED  BY <1>2, <5>1, <5>2 DEF Stale
      <4> QED  BY <1>2, <4>1, <4>2, <4>3
    <3> QED  BY <1>2, <3>3, <3>4 DEF Contents
  <2>2. NeverJunk'  BY <1>1, <1>2 DEF AllContents, NeverJunk
  <2> QED  BY <2>1, <2>2 DEF AllContents
<1> QED  BY <1>5, <1>6, <1>7, <1>8, <1>9, IInvParts

\* RWIHandler::submit(wq) on a target that is offline
LEMMA WriteRWIRefusedKeeps ==
    ASSUME IInv, NEW w \in Writes, WriteRWIRefused(w) PROVE IInv'
<1>1. Typed /\ RestTyped /\ PartInv /\ AllContents  BY IInvParts
<1>2. /\ UNCHANGED <<mode, below, dev, locker, wqs_pending, sub, rop, rq, errors, crashed>>
      /\ mode = "rwi" /\ wq[w].st = "new" /\ below = "offline"
      /\ wq' = Begun(w, "err")
      /\ cache' = Invalidated(cache, Touched(WSpan[w])) /\ seq' = seq + 1
  BY DEF WriteRWIRefused
<1>3. wq' \in [Writes -> WQueries] /\ Control' /\ Memory
  <2>1. \A c \in Chunks :
          /\ sub'[w][c].ph = IF "err" = "err" \/ WSpan[w][c] = {} THEN "none" ELSE "write"
          /\ sub'[w][c].ph = "write" => sub'[w][c].todo \subseteq WSpan[w][c]
    BY <1>1, <1>2 DEF PartInv
  <2>2. \A u \in Writes : u # w => sub'[u] = sub[u]  BY <1>2
  <2> QED  BY <1>2, <2>1, <2>2, BeginKeepsAnswers
<1>4. seq' \in Nat /\ seq <= seq' /\ seq' # seq  BY <1>1, <1>2 DEF Typed
<1>5. Typed'
  <2>1. PICK m \in Caches : m = cache  BY <1>1 DEF Typed
  <2>2. PICK C : C = Touched(WSpan[w])  OBVIOUS
  <2>3. cache' \in Caches  BY <1>2, <2>1, <2>2, InvalidatedIs
  <2> QED  BY <1>1, <1>2, <1>3, <1>4, <2>3 DEF Typed
<1>6. /\ rop' \in [Reads -> [Chunks -> ReadOps]] /\ ReadInv' /\ GotInv'
  <2>1. \A c \in Chunks : Busy(c, sub') => Busy(c, sub)  BY <1>2
  <2> QED  BY <1>2, <1>3, <1>4, <2>1, WriteKeepsReads
<1>7. RestTyped'  BY <1>1, <1>2, <1>6 DEF RestTyped
<1>8. AllContents'  BY <1>1, <1>2 DEF AllContents, NeverJunk, Online
<1> QED  BY <1>3, <1>5, <1>6, <1>7, <1>8, IInvParts

-----------------------------------------------------------------------------
(* The target below executes an operation in a cell. *)

\* It reads a cell for a write of RWTHandler.
LEMMA RmwExecKeeps ==
    ASSUME IInv, NEW w \in Writes, NEW c \in Chunks, NEW x \in Cells, RmwExec(w, c, x)
    PROVE  IInv'
<1> DEFINE p == sub[w][c]
<1>1. Typed /\ RestTyped /\ PartInv /\ AnswerInv /\ Control /\ AllContents
  BY IInvParts
<1>2. /\ UNCHANGED <<mode, below, dev, cache, seq, locker, wqs_pending, rop, wq, rq,
                     errors, crashed>>
      /\ p.ph = "rmw" /\ x \in p.todo
      /\ sub' = [sub EXCEPT ![w][c].todo = p.todo \ {x}, ![w][c].buf[x] = dev[c][x]]
  BY DEF RmwExec
<1>3. p \in Parts /\ p.buf \in Buffers /\ dev[c][x] \in Values
  BY <1>1 DEF Typed, Parts, RestTyped, Buffers
<1>4. /\ sub' \in [Writes -> [Chunks -> Parts]]
      /\ sub'[w][c].ph = "rmw" /\ sub'[w][c].todo = p.todo \ {x}
      /\ sub'[w][c].buf = [p.buf EXCEPT ![x] = dev[c][x]]
      /\ \A u \in Writes, d \in Chunks : u # w \/ d # c => sub'[u][d] = sub[u][d]
  <2> DEFINE q == [sub EXCEPT ![w][c].todo = p.todo \ {x}]
             z == [p EXCEPT !.todo = p.todo \ {x}, !.buf = [p.buf EXCEPT ![x] = dev[c][x]]]
  <2>1. sub \in [Writes -> [Chunks -> Parts]]  BY <1>1 DEF Typed
  <2>2. /\ q \in [Writes -> [Chunks -> Parts]]
        /\ q[w][c] = [p EXCEPT !.todo = p.todo \ {x}]
        /\ \A u \in Writes, d \in Chunks : u # w \/ d # c => q[u][d] = sub[u][d]
    <3>1. [p EXCEPT !.todo = p.todo \ {x}] \in Parts  BY <1>3 DEF Parts
    <3> QED  BY <2>1, <3>1
  <2>3. sub' = [q EXCEPT ![w][c].buf[x] = dev[c][x]]  BY <1>2
  <2> HIDE DEF q
  <2>4. [q[w][c] EXCEPT !.buf[x] = dev[c][x]] = z  BY <1>3, <2>2 DEF Parts
  <2>5. z \in Parts
    <3>1. [p.buf EXCEPT ![x] = dev[c][x]] \in Buffers  BY <1>3 DEF Buffers
    <3> QED  BY <1>3, <3>1 DEF Parts
  <2>6. /\ z.ph = p.ph /\ z.todo = p.todo \ {x}
        /\ z.buf = [p.buf EXCEPT ![x] = dev[c][x]]
    BY <1>3 DEF Parts
  <2>7. /\ sub'[w][c] = [q[w][c] EXCEPT !.buf[x] = dev[c][x]]
        /\ \A u \in Writes, d \in Chunks : u # w \/ d # c => sub'[u][d] = sub[u][d]
    BY <2>2, <2>3
  <2>8. sub'[w][c] = z  BY <2>4, <2>7
  <2>9. sub' \in [Writes -> [Chunks -> Parts]]
    BY <2>2, <2>3, <2>4, <2>5
  <2> HIDE DEF z
  <2> QED  BY <1>2, <2>6, <2>7, <2>8, <2>9
<1>5. \A u \in Writes, d \in Chunks : sub'[u][d].ph = sub[u][d].ph
  BY <1>2, <1>4
<1>6. Control'
  <2>1. \A u \in Writes, d \in Chunks :
           sub'[u][d].ph = "write" => sub'[u][d].todo \subseteq WSpan[u][d]
    <3> SUFFICES ASSUME NEW u \in Writes, NEW d \in Chunks, sub'[u][d].ph = "write"
                 PROVE  sub'[u][d].todo \subseteq WSpan[u][d]
      OBVIOUS
    <3>1. sub'[u][d] = sub[u][d]  BY <1>4
    <3> QED  BY <1>1, <3>1 DEF PartInv
  <2>2. below' # "offline" => \A r \in Reads : rq'[r].before \subseteq Acked
    BY <1>1, <1>2 DEF AnswerInv, Online
  <2>3. wqs_pending \in Seq(Chunks \X Writes)  BY <1>1 DEF Typed
  <2> QED  BY <1>1, <1>2, <1>5, <2>1, <2>2, <2>3, PhasesKeepControl
<1>7. Typed' /\ RestTyped' /\ Memory
  BY <1>1, <1>2, <1>4 DEF Typed, RestTyped, Memory
<1>8. \A u \in Writes, d \in Chunks :
         /\ AtWork(sub'[u][d]) <=> AtWork(sub[u][d])
         /\ Landed(u, d)' <=> Landed(u, d)
  BY <1>2, <1>5 DEF AtWork, Landed
<1>9. ReadInv' /\ GotInv'
  <2>1. \A d \in Chunks : Busy(d, sub') => Busy(d, sub)  BY <1>8 DEF Busy
  <2>2. seq' \in Nat /\ seq <= seq'  BY <1>1, <1>2 DEF Typed
  <2> QED  BY <1>2, <1>7, <1>8, <2>1, <2>2, WriteKeepsReads
<1>10. AllContents'
  <2>1. ASSUME Online', NEW d \in Chunks PROVE Contents(d)'
    <3>1. Contents(d)  BY <1>1, <1>2, <2>1 DEF Online, AllContents
    <3>2. Claimed(d)' <=> Claimed(d)  BY <1>2 DEF Claimed
    <3>3. Written(d)'
      <4>1. \A u \in Writes : sub'[u][d].ph = "write" => sub'[u][d] = sub[u][d]
        BY <1>4
      <4> QED  BY <1>2, <1>8, <3>1, <4>1 DEF Contents, Written, Stale
    <3>4. Kept(d)'  BY <1>2, <1>8, <3>1, <3>2 DEF Contents, Kept, Stale
    <3>5. ASSUME mode' = "rwt", NEW u \in Writes PROVE Through(u, d)'
      <4>1. Through(u, d)  BY <1>2, <3>1, <3>5 DEF Contents
      <4>2. CASE u # w \/ d # c
        <5>1. sub'[u][d] = sub[u][d]  BY <1>4, <4>2
        <5> QED  BY <1>2, <3>2, <4>1, <5>1 DEF Through
      <4>3. CASE u = w /\ d = c
        <5>1. ~Claimed(c) /\ \A y \in Cells \ p.todo : p.buf[y] = dev[c][y]
          BY <1>2, <4>1, <4>3 DEF Through
        <5>2. \A y \in Cells \ sub'[w][c].todo : sub'[w][c].buf[y] = dev[c][y]
          BY <1>3, <1>4, <5>1 DEF Buffers
        <5> QED  BY <1>2, <1>4, <3>2, <4>3, <5>1, <5>2 DEF Through
      <4> QED  BY <4>2, <4>3
    <3> QED  BY <3>3, <3>4, <3>5 DEF Contents
  <2>2. NeverJunk'  BY <1>1, <1>2 DEF AllContents, NeverJunk
  <2> QED  BY <2>1, <2>2 DEF AllContents
<1> QED  BY <1>6, <1>7, <1>9, <1>10, IInvParts

\* It writes a cell: whoever reads the chunk meets that write.
LEMMA WriteExecKeeps ==
    ASSUME IInv, NEW w \in Writes, NEW c \in Chunks, NEW x \in Cells, WriteExec(w, c, x)
    PROVE  IInv'
<1> DEFINE p == sub[w][c]
<1>1. /\ TypeOK /\ Typed /\ RestTyped /\ PartInv /\ LockInv /\ AnswerInv /\ Control
      /\ AllContents /\ ReadInv /\ GotInv
  BY IInvParts
<1>2. /\ UNCHANGED <<mode, below, cache, seq, locker, wqs_pending, rop, wq, rq,
                     errors, crashed>>
      /\ p.ph = "write" /\ x \in p.todo
      /\ sub' = [sub EXCEPT ![w][c].todo = p.todo \ {x}]
      /\ dev' = [dev EXCEPT ![c][x] = w]
  BY DEF WriteExec
<1>3. p \in Parts /\ x \in WSpan[w][c] /\ AtWork(p)
  BY <1>1, <1>2 DEF Typed, PartInv, AtWork
<1>4. /\ sub' \in [Writes -> [Chunks -> Parts]]
      /\ sub'[w][c].ph = "write" /\ sub'[w][c].todo = p.todo \ {x}
      /\ \A u \in Writes, d \in Chunks : u # w \/ d # c => sub'[u][d] = sub[u][d]
  <2>1. [p EXCEPT !.todo = p.todo \ {x}] \in Parts  BY <1>3 DEF Parts
  <2>2. sub' = [sub EXCEPT ![w][c] = [p EXCEPT !.todo = p.todo \ {x}]]  BY <1>2
  <2>3. sub'[w][c] = [p EXCEPT !.todo = p.todo \ {x}]  BY <1>1, <2>2 DEF Typed
  <2> QED  BY <1>1, <1>2, <1>3, <2>1, <2>2, <2>3 DEF Typed, Parts
<1>5. /\ dev' \in [Chunks -> Buffers] /\ dev'[c][x] = w
      /\ \A d \in Chunks, y \in Cells : d # c \/ y # x => dev'[d][y] = dev[d][y]
      /\ \A d \in Chunks : d # c => dev'[d] = dev[d]
  <2>1. w \in Values /\ dev \in [Chunks -> Buffers]  BY <1>1 DEF Values, RestTyped
  <2>2. [dev[c] EXCEPT ![x] = w] \in Buffers  BY <2>1 DEF Buffers
  <2>3. dev' = [dev EXCEPT ![c] = [dev[c] EXCEPT ![x] = w]]  BY <1>2
  <2> QED  BY <2>1, <2>2, <2>3 DEF Buffers
<1>6. \A u \in Writes, d \in Chunks :
         /\ sub'[u][d].ph = sub[u][d].ph
         /\ AtWork(sub'[u][d]) <=> AtWork(sub[u][d])
         /\ Landed(u, d)' <=> Landed(u, d)
  <2>1. \A u \in Writes, d \in Chunks : sub'[u][d].ph = sub[u][d].ph  BY <1>2, <1>4
  <2> QED  BY <1>2, <2>1 DEF AtWork, Landed
<1>7. Control'
  <2>1. \A u \in Writes, d \in Chunks :
           sub'[u][d].ph = "write" => sub'[u][d].todo \subseteq WSpan[u][d]
    <3> SUFFICES ASSUME NEW u \in Writes, NEW d \in Chunks, sub'[u][d].ph = "write"
                 PROVE  sub'[u][d].todo \subseteq WSpan[u][d]
      OBVIOUS
    <3>1. CASE u = w /\ d = c  BY <1>1, <1>2, <1>4, <3>1 DEF PartInv
    <3>2. CASE u # w \/ d # c  BY <1>1, <1>4, <3>2 DEF PartInv
    <3> QED  BY <3>1, <3>2
  <2>2. below' # "offline" => \A r \in Reads : rq'[r].before \subseteq Acked
    BY <1>1, <1>2 DEF AnswerInv, Online
  <2>3. wqs_pending \in Seq(Chunks \X Writes)  BY <1>1 DEF Typed
  <2> QED  BY <1>1, <1>2, <1>6, <2>1, <2>2, <2>3, PhasesKeepControl
<1>8. Typed' /\ RestTyped' /\ Memory
  BY <1>1, <1>2, <1>4, <1>5 DEF Typed, RestTyped, Memory
<1>9. w \notin {Old, Junk}  BY ValuesAssumption
<1>10. AllContents'
  <2>1. NeverJunk'
    <3>1. \A d \in Chunks, y \in Cells : dev[d][y] # Junk
      BY <1>1 DEF AllContents, NeverJunk
    <3>2. \A d \in Chunks, y \in Cells : dev'[d][y] # Junk  BY <1>5, <1>9, <3>1
    <3> QED  BY <3>2 DEF NeverJunk
  <2>2. ASSUME Online', NEW d \in Chunks PROVE Contents(d)'
    <3>1. Online /\ Contents(d)  BY <1>1, <1>2, <2>2 DEF Online, AllContents
    <3>2. CASE d # c
      <4>1. Undisturbed(d)  BY <1>2, <1>4, <1>5, <3>2 DEF Undisturbed
      <4> QED  BY <3>1, <4>1, UndisturbedKeeps
    <3>3. CASE d = c
      <4>0. \A u \in Writes : w \notin wq[u].before
        <5>1. wq[w].st = "busy"  BY <1>1, <1>3, <3>1 DEF AnswerInv
        <5> QED  BY <1>1, <5>1 DEF AnswerInv, Answered
      <4>1. Written(c)'
        <5> SUFFICES ASSUME NEW u \in Writes, NEW y \in WSpan[u][c],
                            \/ sub'[u][c].ph = "write" /\ y \notin sub'[u][c].todo
                            \/ Landed(u, c)'
                     PROVE  ~Stale(dev[c][y], u)'
          BY DEF Written
        <5>1. CASE y = x  BY <1>2, <1>5, <1>9, <4>0, <5>1 DEF Stale
        <5>2. CASE y # x
          <6>1. (sub[u][c].ph = "write" /\ y \notin sub[u][c].todo) \/ Landed(u, c)
            BY <1>2, <1>4, <1>6, <5>2
          <6>2. ~Stale(dev[c][y], u)  BY <3>1, <3>3, <6>1 DEF Contents, Written
          <6>3. dev'[c][y] = dev[c][y]  BY <1>5, <5>2, SpanTypes
          <6> QED  BY <1>2, <6>2, <6>3 DEF Stale
        <5> QED  BY <5>1, <5>2
      <4>2. ASSUME mode' = "rwt", NEW u \in Writes PROVE Through(u, c)'
        <5>1. AtWork(sub[u][c]) => u = w  BY <1>1, <1>2, <1>3, <4>2 DEF LockInv
        <5>2. CASE u # w
          <6>1. ~AtWork(sub'[u][c])  BY <1>6, <5>1, <5>2
          <6> QED  BY <6>1 DEF Through, AtWork
        <5>3. CASE u = w
          <6>1. Through(w, c)  BY <1>2, <3>1, <3>3, <4>2 DEF Contents
          <6>2. Claimed(c)' <=> Claimed(c)  BY <1>2 DEF Claimed
          <6>3. \A y \in WSpan[w][c] : y \notin sub'[w][c].todo => dev'[c][y] = w
            BY <1>2, <1>4, <1>5, <6>1, SpanTypes DEF Through
          <6> QED  BY <1>2, <1>4, <5>3, <6>1, <6>2, <6>3 DEF Through
        <5> QED  BY <5>2, <5>3
      <4>3. Kept(c)'
        <5> SUFFICES ASSUME Claimed(c)', NEW y \in Cells
                     PROVE  /\ \/ cache'[c].buf[y] = dev'[c][y]
                               \/ \E v \in Writes : AtWork(sub'[v][c]) /\ y \in WSpan[v][c]
                            /\ cache'[c].buf[y] # Junk
                            /\ \A v \in Writes : y \in WSpan[v][c] /\ Landed(v, c)' =>
                                  ~Stale(cache[c].buf[y], v)'
          BY DEF Kept
        <5>1. /\ \/ cache[c].buf[y] = dev[c][y]
                 \/ \E v \in Writes : AtWork(sub[v][c]) /\ y \in WSpan[v][c]
              /\ cache[c].buf[y] # Junk
              /\ \A v \in Writes : y \in WSpan[v][c] /\ Landed(v, c) =>
                    ~Stale(cache[c].buf[y], v)
          BY <1>2, <3>1, <3>3 DEF Contents, Kept, Claimed
        <5>2. \/ cache'[c].buf[y] = dev'[c][y]
              \/ \E v \in Writes : AtWork(sub'[v][c]) /\ y \in WSpan[v][c]
          <6>1. CASE y = x  BY <1>3, <1>6, <6>1
          <6>2. CASE y # x  BY <1>2, <1>5, <1>6, <5>1, <6>2
          <6> QED  BY <6>1, <6>2
        <5> QED  BY <1>2, <1>6, <5>1, <5>2 DEF Stale
      <4> QED  BY <3>3, <4>1, <4>2, <4>3 DEF Contents
    <3> QED  BY <3>2, <3>3
  <2> QED  BY <2>1, <2>2 DEF AllContents
<1>11. ReadInv'
  <2> SUFFICES ASSUME NEW r \in Reads, NEW d \in Chunks PROVE Reading(r, d)'
    BY ReadingIs
  <2>0. Reading(r, d)  BY <1>1, ReadingIs
  <2>1. CASE d # c
    <3>1. Busy(d, sub') <=> Busy(d, sub)  BY <1>6 DEF Busy
    <3>2. seq \in Nat /\ seq <= seq  BY <1>1 DEF Typed
    <3>3. Unread(r, d)  BY <1>2, <1>5, <1>6, <2>0, <2>1, <3>1, <3>2 DEF Unread, Reading
    <3> QED  BY <1>1, <1>8, <2>0, <3>3, UnreadKeeps
  <2>2. CASE d = c
    <3> SUFFICES ASSUME rop[r][c].ph = "read" PROVE Reading(r, c)'
      BY <1>2, <2>2 DEF Reading
    <3>1. rop[r][c].over  BY <1>3, <2>0, <2>2 DEF Reading, Busy
    <3>2. mode' = "rwi" /\ rop'[r][c].seq = seq' =>
             \A y \in Cells \ rop'[r][c].todo :
                \/ rop'[r][c].buf[y] = dev'[c][y]
                \/ \E v \in Writes : AtWork(sub'[v][c]) /\ y \in WSpan[v][c]
      <4> SUFFICES ASSUME mode = "rwi", rop[r][c].seq = seq, NEW y \in Cells \ rop[r][c].todo
                   PROVE  \/ rop[r][c].buf[y] = dev'[c][y]
                          \/ \E v \in Writes : AtWork(sub'[v][c]) /\ y \in WSpan[v][c]
        BY <1>2
      <4>1. CASE y = x  BY <1>3, <1>6, <4>1
      <4>2. CASE y # x
        <5>1. \/ rop[r][c].buf[y] = dev[c][y]
              \/ \E v \in Writes : AtWork(sub[v][c]) /\ y \in WSpan[v][c]
          BY <2>0, <2>2 DEF Reading
        <5> QED  BY <1>5, <1>6, <4>2, <5>1
      <4> QED  BY <4>1, <4>2
    <3>3. rop'[r][c].seq <= seq'  BY <1>2, <2>0, <2>2 DEF Reading
    <3>4. Online' =>
             \A y \in Cells \ rop'[r][c].todo :
                /\ rop'[r][c].buf[y] # Junk
                /\ \A v \in Writes :
                      /\ y \in WSpan[v][c]
                      /\ \/ v \in rq'[r].before
                         \/ mode' = "rwi" /\ rop'[r][c].seq = seq' /\ Landed(v, c)'
                      => ~Stale(rop[r][c].buf[y], v)'
      <4>1. Online' <=> Online  BY <1>2 DEF Online
      <4>2. \A v \in Writes, y \in Cells :
               Stale(rop[r][c].buf[y], v)' <=> Stale(rop[r][c].buf[y], v)
        BY <1>2 DEF Stale
      <4> QED  BY <1>2, <1>6, <2>0, <2>2, <4>1, <4>2 DEF Reading
    <3> QED  BY <1>2, <3>1, <3>2, <3>3, <3>4 DEF Reading
  <2> QED  BY <2>1, <2>2
<1>12. GotInv'
  <2>1. \A r \in Reads : Gotten(r)'  BY <1>1, <1>2, <1>8, ReadingIs, GottenKeeps
  <2> QED  BY <2>1, ReadingIs
<1> QED  BY <1>7, <1>8, <1>10, <1>11, <1>12, IInvParts

\* RWIHandler's completer of a write: the chunks written leave the cache.
LEMMA WriteDoneRWIKeeps ==
    ASSUME IInv, NEW w \in Writes, NEW ok \in BOOLEAN, WriteDoneRWI(w, ok) PROVE IInv'
<1> DEFINE T == Touched(WSpan[w])
           todo == UNION {sub[w][c].todo : c \in T}
           parts == [c \in Chunks |-> IF c \in T THEN Done ELSE Idle]
<1>1. Typed /\ RestTyped /\ PartInv /\ AnswerInv /\ AllContents  BY IInvParts
<1>2. /\ UNCHANGED <<mode, dev, locker, wqs_pending, rop, rq, crashed>>
      /\ mode = "rwi" /\ wq[w].st = "busy" /\ Outcome(ok, todo)
      /\ cache' = Invalidated(cache, T) /\ seq' = seq + 1
      /\ wq' = [wq EXCEPT ![w] = Answer(wq[w], TRUE, ~ok)]
      /\ sub' = [sub EXCEPT ![w] = parts]
  BY DEF WriteDoneRWI
<1>3. \A c \in Chunks : c \in T <=> WSpan[w][c] # {}  BY DEF Touched
<1>4. /\ parts \in [Chunks -> Parts]
      /\ \A c \in Chunks : parts[c].ph = IF c \in T THEN "done" ELSE "none"
  BY IdleDone
<1>a. ok => \A c \in Chunks : c \in T => sub[w][c].todo = {}
  <2>1. ok => todo = {}  BY <1>1, <1>2, OutcomeIs
  <2> QED  BY <2>1
<1>b. /\ below' \in Targets \cup {"offline"} /\ errors' \in 0..MaxErrors
      /\ below = "offline" => below' = "offline"
  <2> HIDE DEF todo
  <2> QED  BY <1>1, <1>2, OutcomeIs
<1>c. T \subseteq Chunks  BY DEF Touched
<1> HIDE DEF T, todo, parts
<1>5. /\ sub' \in [Writes -> [Chunks -> Parts]] /\ sub'[w] = parts
      /\ \A u \in Writes : u # w => sub'[u] = sub[u]
  BY <1>1, <1>2, <1>4 DEF Typed
<1>6. /\ wq' \in [Writes -> WQueries] /\ wq'[w].before = wq[w].before
      /\ wq'[w].err <=> wq[w].err \/ ~ok
      /\ wq'[w].st \in {"ok", "err"} /\ (wq'[w].st = "ok" => ~wq'[w].err)
      /\ \A u \in Writes : u # w => wq'[u] = wq[u]
  <2>1. wq[w] \in WQueries /\ wq \in [Writes -> WQueries]  BY <1>1 DEF Typed
  <2>2. PICK q : q = Answer(wq[w], TRUE, ~ok)  OBVIOUS
  <2>3. /\ q \in WQueries /\ q.before = wq[w].before /\ (q.err <=> wq[w].err \/ ~ok)
        /\ q.st \in {"ok", "err"} /\ (q.st = "ok" => ~(wq[w].err \/ ~ok))
    <3>1. PICK o \in WQueries : o = wq[w]  BY <2>1
    <3>2. TRUE \in BOOLEAN /\ (~ok) \in BOOLEAN  OBVIOUS
    <3>3. q = Answer(o, TRUE, ~ok)  BY <2>2, <3>1
    <3> QED  BY <3>1, <3>2, <3>3, AnswerIs
  <2>4. wq' = [wq EXCEPT ![w] = q]  BY <1>2, <2>2
  <2> QED  BY <2>1, <2>3, <2>4
<1>7. cache' \in Caches /\ \A c \in Chunks : cache'[c] = IF c \in T THEN None ELSE cache[c]
  <2>1. PICK m \in Caches : m = cache  BY <1>1 DEF Typed
  <2>2. PICK C : C = T  OBVIOUS
  <2>3. cache' = Invalidated(m, C)  BY <1>2, <2>1, <2>2
  <2> QED  BY <2>1, <2>2, <2>3, InvalidatedIs
<1>8. seq' \in Nat /\ seq <= seq' /\ seq' # seq  BY <1>1, <1>2 DEF Typed
<1>9. Typed'  BY <1>1, <1>2, <1>5, <1>6, <1>7, <1>8 DEF Typed
<1>10. Memory  BY <1>2, <1>b, <1>6 DEF Memory
<1>11. Control'
  <2>1. PartInv'
    <3> SUFFICES ASSUME NEW u \in Writes, NEW c \in Chunks
                 PROVE  /\ WSpan[u][c] = {} \/ wq'[u].st = "new" => sub'[u][c].ph = "none"
                        /\ sub'[u][c].ph = "write" => sub'[u][c].todo \subseteq WSpan[u][c]
                        /\ sub'[u][c].ph \in {"none", "write", "done"}
                        /\ wq'[u].st = "busy" /\ WSpan[u][c] # {} => sub'[u][c].ph = "write"
      BY <1>2 DEF PartInv
    <3>1. CASE u # w  BY <1>1, <1>2, <1>5, <1>6, <3>1 DEF PartInv
    <3>2. CASE u = w
      <4>1. wq'[w].st # "new" /\ wq'[w].st # "busy"  BY <1>6
      <4>2. sub'[w][c].ph = IF c \in T THEN "done" ELSE "none"  BY <1>4, <1>5
      <4> QED  BY <1>3, <3>2, <4>1, <4>2
    <3> QED  BY <3>1, <3>2
  <2>2. AnswerInv'
    <3>1. Answered \subseteq Answered' /\ Acked \subseteq Acked'
      BY <1>2, <1>6 DEF Answered, Acked
    <3>2. \A u \in Writes : wq'[u].before \subseteq Answered'
      BY <1>1, <1>6, <3>1 DEF AnswerInv
    <3>3. ASSUME Online', NEW u \in Writes, NEW c \in Chunks
          PROVE  /\ AtWork(sub'[u][c]) \/ sub'[u][c].ph = "pending" => wq'[u].st = "busy"
                 /\ wq'[u].st = "ok" /\ WSpan[u][c] # {} => Landed(u, c)'
      <4>1. CASE u = w
        <5>1. sub'[w][c].ph = IF c \in T THEN "done" ELSE "none"  BY <1>4, <1>5
        <5> QED  BY <1>3, <1>6, <4>1, <5>1 DEF AtWork, Landed
      <4>2. CASE u # w
        <5>1. Online  BY <1>b, <3>3 DEF Online
        <5> QED  BY <1>1, <1>5, <1>6, <4>2, <5>1 DEF AnswerInv, Landed
      <4> QED  BY <4>1, <4>2
    <3>4. Online' => \A r \in Reads : rq'[r].before \subseteq Acked'
      BY <1>1, <1>2, <1>b, <3>1 DEF AnswerInv, Online
    <3> QED  BY <3>2, <3>3, <3>4 DEF AnswerInv
  <2>3. LockInv'  BY <1>2 DEF LockInv
  <2> QED  BY <2>1, <2>2, <2>3 DEF Control
<1>12. /\ rop' \in [Reads -> [Chunks -> ReadOps]] /\ ReadInv' /\ GotInv'
  <2>1. ASSUME NEW c \in Chunks, Busy(c, sub') PROVE Busy(c, sub)
    <3>1. PICK u \in Writes : AtWork(sub'[u][c])  BY <2>1 DEF Busy
    <3>2. ~AtWork(sub'[w][c])  BY <1>4, <1>5 DEF AtWork
    <3> QED  BY <1>5, <3>1, <3>2 DEF Busy
  <2> QED  BY <1>2, <1>8, <1>10, <2>1, WriteKeepsReads
<1>13. RestTyped'  BY <1>1, <1>2, <1>b, <1>12 DEF RestTyped
<1>14. AllContents'
  <2>1. ASSUME Online', NEW c \in Chunks PROVE Contents(c)'
    <3>1. Contents(c)  BY <1>1, <1>b, <2>1 DEF Online, AllContents
    <3>2. CASE c \notin T
      <4>1. sub'[w][c].ph = "none" /\ ~AtWork(sub[w][c])
        BY <1>1, <1>3, <1>4, <1>5, <3>2 DEF PartInv, AtWork
      <4>2. cache'[c] = cache[c]  BY <1>7, <3>2
      <4>3. Undisturbed(c)  BY <1>2, <1>5, <1>6, <4>1, <4>2 DEF Undisturbed
      <4> QED  BY <3>1, <4>3, UndisturbedKeeps
    <3>3. CASE c \in T
      <4>1. Kept(c)'  BY <1>7, <3>3 DEF Kept, Claimed
      <4>2. Written(c)'
        <5> SUFFICES ASSUME NEW u \in Writes, NEW x \in WSpan[u][c],
                            \/ sub'[u][c].ph = "write" /\ x \notin sub'[u][c].todo
                            \/ Landed(u, c)'
                     PROVE  ~Stale(dev[c][x], u)'
          BY DEF Written
        <5>1. (sub[u][c].ph = "write" /\ x \notin sub[u][c].todo) \/ Landed(u, c)
          <6>1. CASE u # w  BY <1>5, <1>6, <6>1 DEF Landed
          <6>2. CASE u = w
            <7>1. sub'[w][c].ph = "done"  BY <1>4, <1>5, <3>3
            <7>2. ok  BY <1>6, <6>2, <7>1 DEF Landed
            <7>3. sub[w][c].ph = "write"  BY <1>1, <1>2, <1>3, <3>3 DEF PartInv
            <7> QED  BY <1>a, <3>3, <6>2, <7>2, <7>3
          <6> QED  BY <6>1, <6>2
        <5>2. ~Stale(dev[c][x], u)  BY <3>1, <5>1 DEF Contents, Written
        <5>3. wq'[u].before = wq[u].before  BY <1>6
        <5> QED  BY <1>2, <5>2, <5>3 DEF Stale
      <4> QED  BY <1>2, <4>1, <4>2 DEF Contents
    <3> QED  BY <3>2, <3>3
  <2>2. NeverJunk'  BY <1>1, <1>2 DEF AllContents, NeverJunk
  <2> QED  BY <2>1, <2>2 DEF AllContents
<1> QED  BY <1>9, <1>11, <1>12, <1>13, <1>14, IInvParts

-----------------------------------------------------------------------------
(* RWTHandler's writes *)

\* A part ends: the chunk is settled by then, and the next write may start in it.
LEMMA FinishKeeps ==
    ASSUME IInv, mode = "rwt", UNCHANGED <<mode, dev, rq>>, rop' = Raced(sub'),
           below' \in Targets \cup {"offline"}, below = "offline" => below' = "offline",
           errors' \in 0..MaxErrors,
           NEW w \in Writes, NEW c \in Chunks, AtWork(sub[w][c]), NEW err \in BOOLEAN,
           NEW m \in Caches, NEW n \in Nat, seq <= n,
           FinishPart(w, c, err, m, n, below'),
           \A d \in Chunks : d # c => m[d] \in {cache[d], None},
           Online' /\ ~err =>
              /\ m[c] # None /\ ~m[c].raced => \A x \in Cells : m[c].buf[x] = dev[c][x]
              /\ \A x \in WSpan[w][c] : ~Stale(dev[c][x], w)
    PROVE  IInv'
<1>1. /\ Typed /\ RestTyped /\ PartInv /\ LockInv /\ AnswerInv /\ Control /\ AllContents
  BY IInvParts
<1>2. /\ Typed' /\ seq <= seq'
      /\ wq'[w] = Answer(wq[w], LastPart(w, c), err)
      /\ \A u \in Writes : u # w => wq'[u] = wq[u]
      /\ \/ crashed' = crashed /\ Finishes(w, c, err, m)
         \/ crashed' = TRUE /\ Dies(below')
  <2>1. PICK b : b = below'  OBVIOUS
  <2>2. FinishPart(w, c, err, m, n, b)  BY <2>1
  <2>3. /\ Typed' /\ seq <= seq'
        /\ wq'[w] = Answer(wq[w], LastPart(w, c), err)
        /\ \A u \in Writes : u # w => wq'[u] = wq[u]
        /\ \/ crashed' = crashed /\ Finishes(w, c, err, m)
           \/ crashed' = TRUE /\ Dies(b)
    BY <1>1, <2>2, FinishIs
  <2> QED  BY <2>1, <2>3
<1>3. LockInv'
  <2>1. CASE Finishes(w, c, err, m)  BY <1>1, <1>2, <2>1, FinishKeepsLocks
  <2>2. CASE Dies(below')  BY <1>1, <2>2 DEF Dies, LockInv
  <2> QED  BY <1>2, <2>1, <2>2
<1>4. PartInv' /\ AnswerInv' /\ Control'
  <2>1. PartInv' /\ AnswerInv'  BY <1>1, <1>2, <1>3, FinishKeepsAnswers
  <2> QED  BY <1>3, <2>1 DEF Control
<1>5. /\ \A u \in Writes : wq'[u].before = wq[u].before /\ (wq[u].err => wq'[u].err)
      /\ err => wq'[w].err
  <2>1. PICK last \in BOOLEAN : last = LastPart(w, c)  BY DEF LastPart
  <2>2. PICK q \in WQueries : q = wq[w]  BY <1>1 DEF Typed
  <2>3. wq'[w] = Answer(q, last, err)  BY <1>2, <2>1, <2>2
  <2>4. wq'[w].before = q.before /\ (wq'[w].err <=> q.err \/ err)
    BY <2>3, AnswerIs
  <2> QED  BY <1>2, <2>2, <2>4
<1>6. Memory  BY <1>5 DEF Memory
<1>7. NeverJunk'  BY <1>1 DEF AllContents, NeverJunk
<1>8. crashed' \in BOOLEAN  BY <1>1, <1>2 DEF RestTyped
<1>9. /\ rop' \in [Reads -> [Chunks -> ReadOps]] /\ ReadInv' /\ GotInv'
  <2>1. seq' \in Nat  BY <1>2 DEF Typed
  <2> QED  BY <1>2, <1>6, <2>1, WriteKeepsReads
<1>10. RestTyped'  BY <1>1, <1>8, <1>9 DEF RestTyped
<1>11. ASSUME Online', NEW d \in Chunks PROVE Contents(d)'
  <2>1. Online /\ Finishes(w, c, err, m)  BY <1>2, <1>11 DEF Online, Dies
  <2>2. Contents(d) /\ Contents(c)  BY <1>1, <2>1 DEF AllContents
  <2>3. CASE d # c
    <3>1. \A u \in Writes : sub'[u][d] = sub[u][d]
      BY <2>1, <2>3 DEF Finishes, Frees, HandsOver
    <3>2. cache'[d] \in {cache[d], None}  BY <2>1, <2>3 DEF Finishes
    <3>3. Undisturbed(d)  BY <1>5, <3>1, <3>2 DEF Undisturbed
    <3> QED  BY <2>2, <3>3, UndisturbedKeeps
  <2>4. CASE d = c
    <3>1. PICK e : e = IF err THEN None ELSE m[c]  OBVIOUS
    <3>2. ASSUME NEW u \in Writes, Landed(u, c)', u = w \/ sub'[u][c] = sub[u][c]
          PROVE  \A x \in WSpan[u][c] : ~Stale(dev[c][x], u)'
      <4>1. CASE u = w
        <5>1. ~err  BY <1>5, <3>2, <4>1 DEF Landed
        <5> QED  BY <1>5, <1>11, <4>1, <5>1 DEF Stale
      <4>2. CASE u # w
        <5>1. Landed(u, c)  BY <1>5, <3>2, <4>2 DEF Landed
        <5>2. \A x \in WSpan[u][c] : ~Stale(dev[c][x], u)
          BY <2>2, <5>1 DEF Contents, Written
        <5> QED  BY <1>5, <5>2 DEF Stale
      <4> QED  BY <4>1, <4>2
    <3>3. e # None /\ ~e.raced => \A x \in Cells : e.buf[x] = dev'[c][x]
      BY <1>11, <3>1
    <3>4. \A u, v \in Writes : AtWork(sub'[u][c]) /\ AtWork(sub'[v][c]) => u = v
      BY <1>3 DEF LockInv
    <3>5. CASE Frees(w, c, err, m)
      <4>1. /\ sub'[w][c] = Done /\ \A u \in Writes : u # w => sub'[u][c] = sub[u][c]
            /\ cache'[c] \in {m[c], None}
        BY <3>5 DEF Frees
      <4>2. Settles(c, e)  BY <3>2, <3>3, <4>1 DEF Settles
      <4>3. cache'[c] \in {e, None}  BY <2>1, <3>1, <4>1 DEF Finishes
      <4>4. \A u \in Writes : ~AtWork(sub'[u][c])
        <5>1. ~AtWork(sub'[w][c])  BY <4>1, IdleDone
        <5>2. \A u \in Writes : AtWork(sub[u][c]) => u = w  BY <1>1 DEF LockInv
        <5> QED  BY <4>1, <5>1, <5>2
      <4> QED  BY <1>7, <2>4, <4>2, <4>3, <4>4, RestKeeps
    <3>6. ASSUME NEW v \in Writes, HandsOver(w, c, err, m, v) PROVE Contents(c)'
      <4>1. /\ AtWork(sub'[v][c])
            /\ \A u \in Writes : u # w /\ u # v => sub'[u][c] = sub[u][c]
            /\ StartedAs(v, c, m[c], cache'[c], sub'[v][c])
        BY <3>6 DEF HandsOver
      <4>2. Settles(c, e)
        <5>1. \A u \in Writes : Landed(u, c)' => u # v
          BY <4>1 DEF Landed, AtWork
        <5> QED  BY <3>2, <3>3, <4>1, <5>1 DEF Settles
      <4>3. StartedAs(v, c, e, cache'[c], sub'[v][c])
        <5>1. err => cache'[c] = None  BY <2>1 DEF Finishes
        <5> QED  BY <3>1, <4>1, <5>1 DEF StartedAs
      <4> QED  BY <1>4, <1>7, <1>11, <3>4, <4>1, <4>2, <4>3, StartKeeps
    <3> QED  BY <2>1, <2>4, <3>5, <3>6 DEF Finishes
  <2> QED  BY <2>3, <2>4
<1>12. AllContents'  BY <1>7, <1>11 DEF AllContents
<1> QED  BY <1>2, <1>4, <1>9, <1>10, <1>12, IInvParts

\* chunk_wq_completer after a write: the cache and the target agree on the chunk.
LEMMA WriteDoneRWTKeeps ==
    ASSUME IInv, NEW w \in Writes, NEW c \in Chunks, NEW ok \in BOOLEAN,
           WriteDoneRWT(w, c, ok)
    PROVE  IInv'
<1>1. /\ Typed /\ RestTyped /\ LockInv /\ AllContents
  BY IInvParts
<1>2. /\ mode = "rwt" /\ sub[w][c].ph = "write" /\ Outcome(ok, sub[w][c].todo)
      /\ FinishPart(w, c, ~ok, cache, seq, below')
      /\ rop' = Raced(sub') /\ UNCHANGED <<mode, dev, rq>>
  BY DEF WriteDoneRWT
<1>3. /\ below' \in Targets \cup {"offline"} /\ errors' \in 0..MaxErrors
      /\ below = "offline" => below' = "offline"
      /\ ok => sub[w][c].todo = {}
  BY <1>1, <1>2, OutcomeIs
<1>4. AtWork(sub[w][c])  BY <1>2 DEF AtWork
<1>5. PICK m \in Caches : m = cache  BY <1>1 DEF Typed
<1>6. PICK n \in Nat : n = seq  BY <1>1 DEF Typed
<1>7. PICK err \in BOOLEAN : err <=> ~ok  OBVIOUS
<1>8. ASSUME Online', ~err
      PROVE  /\ m[c] # None /\ ~m[c].raced => \A x \in Cells : m[c].buf[x] = dev[c][x]
             /\ \A x \in WSpan[w][c] : ~Stale(dev[c][x], w)
  <2>1. Contents(c)  BY <1>1, <1>3, <1>8 DEF AllContents, Online
  <2>2. Through(w, c)  BY <1>2, <2>1 DEF Contents
  <2>3. /\ \A x \in WSpan[w][c] : dev[c][x] = w
        /\ Claimed(c) => \A x \in WSpan[w][c] : cache[c].buf[x] = w
    BY <1>2, <1>3, <1>7, <1>8, <2>2 DEF Through
  <2>4. \A u \in Writes : AtWork(sub[u][c]) => u = w  BY <1>1, <1>2, <1>4 DEF LockInv
  <2>5. Claimed(c) => \A x \in Cells : cache[c].buf[x] = dev[c][x]
    BY <2>1, <2>3, <2>4 DEF Contents, Kept
  <2>6. w \notin {Old, Junk}  BY ValuesAssumption
  <2> QED  BY <1>5, <2>3, <2>5, <2>6 DEF Claimed, Stale
<1>9. FinishPart(w, c, err, m, n, below')
  <2>1. err = ~ok  BY <1>7
  <2> QED  BY <1>2, <1>5, <1>6, <2>1
<1>10. seq <= n /\ \A d \in Chunks : d # c => m[d] \in {cache[d], None}
  BY <1>5, <1>6
<1> QED  BY <1>2, <1>3, <1>4, <1>8, <1>9, <1>10, FinishKeeps

\* The chunk that a write of a part of it has read goes into the cache with that
\* part written; then the target gets the write.
LEMMA RmwWrites ==
    ASSUME IInv, mode = "rwt", below # "offline", NEW w \in Writes, NEW c \in Chunks,
           sub[w][c].ph = "rmw", sub[w][c].todo = {},
           UNCHANGED <<mode, below, dev, locker, wqs_pending, rop, wq, rq, crashed>>,
           errors' \in 0..MaxErrors, seq' = seq + 1,
           cache' \in LruUpdate(cache, c, Entry(Over(sub[w][c].buf, WSpan[w][c], w), FALSE)),
           sub' = [sub EXCEPT ![w][c] = Part("write", WSpan[w][c])]
    PROVE  IInv'
<1> DEFINE p == sub[w][c]
           e == Entry(p.buf, FALSE)
           f == Entry(Over(p.buf, WSpan[w][c], w), FALSE)
<1>1. /\ Typed /\ RestTyped /\ PartInv /\ LockInv /\ AnswerInv /\ Control /\ AllContents
  BY IInvParts
<1>2. p.buf \in Buffers /\ w \in Values /\ WSpan[w][c] \in SUBSET Cells
  BY <1>1, SpanTypes DEF Typed, Parts, Values
<1>3. /\ e.buf = p.buf
      /\ f \in Entries /\ f.raced = FALSE
      /\ \A x \in Cells : f.buf[x] = IF x \in WSpan[w][c] THEN w ELSE p.buf[x]
  <2>1. Over(p.buf, WSpan[w][c], w) \in Buffers  BY <1>2, BufferTypes
  <2>2. f.buf = Over(p.buf, WSpan[w][c], w)  BY <2>1, EntryTypes
  <2> QED  BY <1>2, <2>1, <2>2, EntryTypes DEF Over
<1>4. e # None /\ e.raced = FALSE  BY <1>2, EntryTypes
<1> HIDE DEF e
<1>5. /\ cache' \in Caches /\ cache'[c] = f
      /\ \A d \in Chunks : d # c => cache'[d] \in {cache[d], None}
  <2>1. PICK m \in Caches : m = cache  BY <1>1 DEF Typed
  <2>2. PICK g \in Entries : g = f  BY <1>3
  <2>3. PICK u \in LruUpdate(m, c, g) : u = cache'  BY <2>1, <2>2
  <2> HIDE DEF f
  <2>4. u \in Caches /\ u[c] = g /\ \A d \in Chunks : d # c => u[d] \in {m[d], None}
    BY LruUpdateIs
  <2> QED  BY <2>1, <2>2, <2>3, <2>4
<1> HIDE DEF f
<1>6. /\ sub' \in [Writes -> [Chunks -> Parts]]
      /\ sub'[w][c].ph = "write" /\ sub'[w][c].todo = WSpan[w][c]
      /\ \A u \in Writes, d \in Chunks : u # w \/ d # c => sub'[u][d] = sub[u][d]
  BY <1>1, <1>2, PartTypes DEF Typed
<1>7. Control'
  <2>1. \A u \in Writes, d \in Chunks :
           /\ sub'[u][d].ph = "write" => sub'[u][d].todo \subseteq WSpan[u][d]
           /\ \/ sub'[u][d].ph = sub[u][d].ph
              \/ sub[u][d].ph = "rmw" /\ sub'[u][d].ph = "write"
    <3> SUFFICES ASSUME NEW u \in Writes, NEW d \in Chunks
                 PROVE  /\ sub'[u][d].ph = "write" => sub'[u][d].todo \subseteq WSpan[u][d]
                        /\ \/ sub'[u][d].ph = sub[u][d].ph
                           \/ sub[u][d].ph = "rmw" /\ sub'[u][d].ph = "write"
      OBVIOUS
    <3>1. CASE u = w /\ d = c  BY <1>6, <3>1
    <3>2. CASE u # w \/ d # c  BY <1>1, <1>6, <3>2 DEF PartInv
    <3> QED  BY <3>1, <3>2
  <2>2. below' # "offline" => \A r \in Reads : rq'[r].before \subseteq Acked
    BY <1>1 DEF AnswerInv, Online
  <2>3. wqs_pending \in Seq(Chunks \X Writes)  BY <1>1 DEF Typed
  <2> QED  BY <1>1, <2>1, <2>2, <2>3, PhasesKeepControl
<1>8. seq' \in Nat /\ seq <= seq'  BY <1>1 DEF Typed
<1>9. Typed' /\ RestTyped' /\ Memory /\ NeverJunk'
  BY <1>1, <1>5, <1>6, <1>8 DEF Typed, RestTyped, Memory, AllContents, NeverJunk
<1>10. ReadInv' /\ GotInv'
  <2>1. ASSUME NEW d \in Chunks, Busy(d, sub') PROVE Busy(d, sub)
    <3>1. PICK u \in Writes : AtWork(sub'[u][d])  BY <2>1 DEF Busy
    <3>2. CASE u = w /\ d = c  BY <3>2 DEF Busy, AtWork
    <3>3. CASE u # w \/ d # c  BY <1>6, <3>1, <3>3 DEF Busy
    <3> QED  BY <3>2, <3>3
  <2> QED  BY <1>8, <1>9, <2>1, WriteKeepsReads
<1>11. AllContents'
  <2>1. ASSUME Online', NEW d \in Chunks PROVE Contents(d)'
    <3>1. Contents(d) /\ Contents(c)  BY <1>1, <2>1 DEF Online, AllContents
    <3>2. CASE d # c
      <4>1. Undisturbed(d)  BY <1>5, <1>6, <3>2 DEF Undisturbed
      <4> QED  BY <3>1, <4>1, UndisturbedKeeps
    <3>3. CASE d = c
      <4>1. PICK z : z = e  OBVIOUS
      <4>2. \A x \in Cells : p.buf[x] = dev[c][x]
        BY <3>1 DEF Contents, Through
      <4>3. Settles(c, z)
        <5>1. ASSUME NEW u \in Writes, Landed(u, c)'
              PROVE  \A x \in WSpan[u][c] : ~Stale(dev[c][x], u)'
          <6>1. u # w  BY <1>6, <5>1 DEF Landed
          <6>2. Landed(u, c)  BY <1>6, <5>1, <6>1 DEF Landed
          <6> QED  BY <3>1, <6>2 DEF Contents, Written, Stale
        <5> QED  BY <1>3, <4>1, <4>2, <5>1 DEF Settles
      <4>4. StartedAs(w, c, z, cache'[c], sub'[w][c])
        <5>1. \A x \in WSpan[w][c] : cache'[c].buf[x] = w
          BY <1>2, <1>3, <1>5
        <5>2. \A x \in Cells \ WSpan[w][c] : cache'[c].buf[x] = z.buf[x]
          BY <1>3, <1>5, <4>1
        <5>3. z # None /\ cache'[c].raced = z.raced  BY <1>3, <1>4, <1>5, <4>1
        <5> QED  BY <1>6, <5>1, <5>2, <5>3 DEF StartedAs
      <4>5. AtWork(sub'[w][c])  BY <1>6 DEF AtWork
      <4>6. \A u \in Writes : AtWork(sub'[u][c]) => u = w
        BY <1>7, <4>5 DEF Control, LockInv
      <4>7. AnswerInv' /\ mode' = "rwt"  BY <1>7 DEF Control
      <4> QED  BY <1>9, <2>1, <3>3, <4>3, <4>4, <4>5, <4>6, <4>7, StartKeeps
    <3> QED  BY <3>2, <3>3
  <2> QED  BY <1>9, <2>1 DEF AllContents
<1> QED  BY <1>7, <1>9, <1>10, <1>11, IInvParts

\* The completer of the read of a chunk that is written in part
LEMMA RmwDoneKeeps ==
    ASSUME IInv, NEW w \in Writes, NEW c \in Chunks, NEW ok \in BOOLEAN, RmwDone(w, c, ok)
    PROVE  IInv'
<1> DEFINE f == Entry(Over(sub[w][c].buf, WSpan[w][c], w), FALSE)
<1>1. /\ Typed /\ RestTyped /\ PartInv
  BY IInvParts
<1>2. /\ sub[w][c].ph = "rmw" /\ Outcome(ok, sub[w][c].todo) /\ UNCHANGED <<mode, dev, rq>>
      /\ \/ ~ok /\ FinishPart(w, c, TRUE, cache, seq, below') /\ rop' = Raced(sub')
         \/ /\ ok
            /\ \E m \in LruUpdate(cache, c, f) :
               \/ /\ below # "offline"
                  /\ cache' = m /\ seq' = seq + 1
                  /\ sub' = [sub EXCEPT ![w][c] = Part("write", WSpan[w][c])]
                  /\ UNCHANGED <<locker, wqs_pending, wq, rop, crashed>>
               \/ /\ below = "offline"
                  /\ FinishPart(w, c, FALSE, m, seq + 1, below) /\ rop' = Raced(sub')
  BY DEF RmwDone
<1>3. /\ below' \in Targets \cup {"offline"} /\ errors' \in 0..MaxErrors
      /\ below = "offline" => below' = "offline"
      /\ ok => sub[w][c].todo = {} /\ below' = below
  BY <1>1, <1>2, OutcomeIs
<1>4. mode = "rwt" /\ AtWork(sub[w][c])
  BY <1>1, <1>2, ModesAssumption DEF PartInv, AtWork, RestTyped
<1>5. CASE ~ok /\ FinishPart(w, c, TRUE, cache, seq, below') /\ rop' = Raced(sub')
  <2>1. PICK m \in Caches : m = cache  BY <1>1 DEF Typed
  <2>2. PICK n \in Nat : n = seq  BY <1>1 DEF Typed
  <2>3. PICK err \in BOOLEAN : err = TRUE  OBVIOUS
  <2>4. FinishPart(w, c, err, m, n, below')  BY <1>5, <2>1, <2>2, <2>3
  <2>5. seq <= n /\ \A d \in Chunks : d # c => m[d] \in {cache[d], None}  BY <2>1, <2>2
  <2> QED  BY <1>2, <1>3, <1>4, <1>5, <2>3, <2>4, <2>5, FinishKeeps
<1>6. ASSUME ok, NEW m0, m0 \in LruUpdate(cache, c, f)
      PROVE  /\ m0 \in Caches
             /\ \A d \in Chunks : d # c => m0[d] \in {cache[d], None}
  <2>1. sub[w][c].buf \in Buffers /\ w \in Values /\ WSpan[w][c] \in SUBSET Cells
    BY <1>1, SpanTypes DEF Typed, Parts, Values
  <2>2. f \in Entries  BY <2>1, BufferTypes, EntryTypes
  <2>3. PICK m \in Caches : m = cache  BY <1>1 DEF Typed
  <2>4. PICK g \in Entries : g = f  BY <2>2
  <2>5. PICK u \in LruUpdate(m, c, g) : u = m0  BY <1>6, <2>3, <2>4
  <2> HIDE DEF f
  <2>6. u \in Caches /\ \A d \in Chunks : d # c => u[d] \in {m[d], None}
    BY LruUpdateIs
  <2> QED  BY <2>3, <2>5, <2>6
<1>7. CASE ok /\ below # "offline"
  <2>1. /\ cache' \in LruUpdate(cache, c, f) /\ seq' = seq + 1
        /\ sub' = [sub EXCEPT ![w][c] = Part("write", WSpan[w][c])]
        /\ UNCHANGED <<locker, wqs_pending, wq, rop, crashed>>
    BY <1>2, <1>7
  <2> QED  BY <1>2, <1>3, <1>4, <1>7, <2>1, RmwWrites
<1>8. CASE ok /\ below = "offline"
  <2>1. PICK m \in LruUpdate(cache, c, f) :
           FinishPart(w, c, FALSE, m, seq + 1, below) /\ rop' = Raced(sub')
    BY <1>2, <1>8
  <2>2. m \in Caches /\ \A d \in Chunks : d # c => m[d] \in {cache[d], None}
    BY <1>6, <1>8
  <2>3. PICK n \in Nat : n = seq + 1  BY <1>1 DEF Typed
  <2>4. PICK err \in BOOLEAN : err = FALSE  OBVIOUS
  <2>5. FinishPart(w, c, err, m, n, below')  BY <1>3, <1>8, <2>1, <2>3, <2>4
  <2>6. seq <= n  BY <1>1, <2>3 DEF Typed
  <2>7. ~Online'  BY <1>3, <1>8 DEF Online
  <2> QED  BY <1>2, <1>3, <1>4, <2>1, <2>2, <2>5, <2>6, <2>7, FinishKeeps
<1> QED  BY <1>2, <1>5, <1>7, <1>8

\* RWTHandler::submit(wq): the loop over the chunks
LEMMA WriteRWTKeeps ==
    ASSUME IInv, NEW w \in Writes, WriteRWT(w) PROVE IInv'
<1>1. /\ TypeOK /\ Typed /\ RestTyped /\ PartInv /\ LockInv /\ Control /\ AllContents
  BY IInvParts
<1>2. /\ mode = "rwt" /\ wq[w].st = "new" /\ rop' = Raced(sub')
      /\ UNCHANGED <<mode, below, dev, rq, errors, crashed>>
  BY DEF WriteRWT
<1>3. PICK o \in Turns(w)[NChunks] :
         /\ cache' = o.cache /\ seq' = o.seq /\ locker' = o.locked
         /\ wqs_pending' = o.pend
         /\ sub' = [sub EXCEPT ![w] = o.parts]
         /\ wq' = Begun(w, IF o.refused THEN "err" ELSE "busy")
  BY DEF WriteRWT
<1>4. Turned(w, NChunks, o)  BY <1>1, LoopTurned
<1>5. Typed' /\ Control'  BY <1>1, <1>2, <1>3, <1>4, LoopKeepsControl
<1>6. \A c \in Chunks : o.parts[c] \in Parts /\ TurnedIn(w, NChunks, o, c)
  BY <1>4 DEF Turned
<1>7. sub'[w] = o.parts /\ \A u \in Writes : u # w => sub'[u] = sub[u]
  BY <1>1, <1>3 DEF Typed
<1>8. \A u \in Writes : u # w => wq'[u] = wq[u]  BY <1>1, <1>3 DEF Begun, Typed
<1>9. Memory  BY <1>2, <1>8 DEF Memory
<1>10. /\ rop' \in [Reads -> [Chunks -> ReadOps]] /\ ReadInv' /\ GotInv'
  <2>1. seq' \in Nat /\ seq <= seq'  BY <1>3, <1>4, <1>5 DEF Turned, Typed
  <2> QED  BY <1>2, <1>9, <2>1, WriteKeepsReads
<1>11. RestTyped'  BY <1>1, <1>2, <1>10 DEF RestTyped
<1>12. NeverJunk'  BY <1>1, <1>2 DEF AllContents, NeverJunk
<1>13. ASSUME Online', NEW c \in Chunks PROVE Contents(c)'
  <2>1. below # "offline" /\ Contents(c)  BY <1>1, <1>2, <1>13 DEF Online, AllContents
  <2>2. sub[w][c].ph = "none" /\ ~AtWork(sub[w][c])
    BY <1>1, <1>2 DEF PartInv, AtWork
  <2>3. CASE ~AtWork(o.parts[c])
    <3>1. sub'[w][c].ph \in {"none", "pending"} /\ cache'[c] \in {cache[c], None}
      BY <1>3, <1>6, <1>7, <2>1, <2>3 DEF TurnedIn, Parts, AtWork
    <3>2. Undisturbed(c)  BY <1>2, <1>7, <1>8, <2>2, <3>1 DEF Undisturbed
    <3> QED  BY <2>1, <3>2, UndisturbedKeeps
  <2>4. CASE AtWork(o.parts[c])
    <3>1. c \notin locker /\ StartedAs(w, c, cache[c], cache'[c], sub'[w][c])
      BY <1>3, <1>6, <1>7, <2>4 DEF TurnedIn
    <3>2. \A u \in Writes : ~AtWork(sub[u][c])  BY <1>1, <1>2, <3>1 DEF LockInv, Busy
    <3>3. PICK e : e = cache[c]  OBVIOUS
    <3>4. Settles(c, e)
      <4>1. ASSUME NEW u \in Writes, Landed(u, c)'
            PROVE  \A x \in WSpan[u][c] : ~Stale(dev[c][x], u)'
        <5>1. u # w  BY <1>7, <2>4, <4>1 DEF Landed, AtWork
        <5>2. sub'[u] = sub[u] /\ wq'[u] = wq[u]  BY <1>7, <1>8, <5>1
        <5>3. \A x \in WSpan[u][c] : ~Stale(dev[c][x], u)
          BY <2>1, <4>1, <5>2 DEF Contents, Written, Landed
        <5> QED  BY <1>2, <5>2, <5>3 DEF Stale
      <4>2. e # None /\ ~e.raced => \A x \in Cells : e.buf[x] = dev[c][x]
        BY <2>1, <3>2, <3>3 DEF Contents, Kept, Claimed
      <4> QED  BY <1>2, <4>1, <4>2 DEF Settles
    <3>5. AtWork(sub'[w][c])  BY <1>7, <2>4
    <3>6. \A u \in Writes : AtWork(sub'[u][c]) => u = w  BY <1>7, <3>2
    <3>7. AnswerInv' /\ mode' = "rwt"  BY <1>2, <1>5 DEF Control
    <3> QED  BY <1>12, <1>13, <3>1, <3>3, <3>4, <3>5, <3>6, <3>7, StartKeeps
  <2> QED  BY <2>3, <2>4
<1>14. AllContents'  BY <1>12, <1>13 DEF AllContents
<1> QED  BY <1>5, <1>10, <1>11, <1>14, IInvParts

-----------------------------------------------------------------------------
(* The theorems *)

\* A state the program starts in satisfies the inductive invariant.
LEMMA InitIInv == Init => IInv
<1> SUFFICES ASSUME Init PROVE IInv  OBVIOUS
<1>1. Old \in Values /\ Whole(Old) \in Buffers  BY BufferTypes DEF Values
<1>2. \A w \in Writes, c \in Chunks : sub[w][c] = Idle /\ ~AtWork(sub[w][c])
  BY IdleDone DEF Init
<1>3. NoReadOp \in ReadOps /\ NoReadOp.ph = "none"
  BY BufferTypes DEF NoReadOp, ReadOps
<1>4. TypeOK
  <2>1. errors \in 0..MaxErrors  BY BoundAssumption DEF Init
  <2>2. wqs_pending \in Seq(Chunks \X Writes)  BY DEF Init
  <2>3. rop \in [Reads -> [Chunks -> ReadOps]] /\ sub \in [Writes -> [Chunks -> Parts]]
    BY <1>3, IdleDone DEF Init
  <2>4. /\ wq \in [Writes -> [st : States, err : BOOLEAN, before : SUBSET Writes]]
        /\ rq \in [Reads -> [st : States, err : BOOLEAN, before : SUBSET Writes,
                             raced : BOOLEAN, got : SUBSET (Chunks \X Cells \X Values)]]
    BY DEF Init
  <2>5. /\ dev \in [Chunks -> Buffers]
        /\ cache \in [Chunks -> [buf : Buffers, raced : BOOLEAN] \cup {None}]
    BY <1>1 DEF Init
  <2> QED  BY <2>1, <2>2, <2>3, <2>4, <2>5 DEF Init, TypeOK
<1>5. PartInv
  <2>1. \A w \in Writes, c \in Chunks : sub[w][c].ph = "none" /\ wq[w].st = "new"
    BY <1>2, IdleDone DEF Init
  <2> QED  BY <2>1 DEF PartInv
<1>6. LockInv
  <2>1. locker = {} /\ DOMAIN wqs_pending = {} /\ \A c \in Chunks : ~Busy(c, sub)
    BY <1>2 DEF Init, Busy
  <2>2. \A w \in Writes, c \in Chunks : sub[w][c].ph # "pending"  BY <1>2, IdleDone
  <2> QED  BY <1>2, <2>1, <2>2 DEF LockInv
<1>7. AnswerInv
  <2>1. \A w \in Writes : wq[w].before = {} /\ wq[w].st = "new"  BY DEF Init
  <2>2. \A r \in Reads : rq[r].before = {}  BY DEF Init
  <2>3. \A w \in Writes, c \in Chunks : sub[w][c].ph # "pending"  BY <1>2, IdleDone
  <2> QED  BY <1>2, <2>1, <2>2, <2>3 DEF AnswerInv
<1>8. \A w \in Writes, c \in Chunks : sub[w][c].ph = "none" /\ ~Landed(w, c)
  BY <1>2, IdleDone DEF Landed
<1>9. DevInv
  <2>1. \A c \in Chunks, x \in Cells : dev[c][x] = Old  BY DEF Init, Whole
  <2> QED  BY <1>8, <2>1, ValuesAssumption DEF DevInv
<1>10. ThroughInv  BY <1>8 DEF ThroughInv
<1>11. CacheCoherent /\ CacheInv  BY DEF Init, CacheCoherent, CacheInv, Claimed
<1>12. ReadInv  BY <1>3 DEF Init, ReadInv
<1>13. GotInv  BY DEF Init, GotInv
<1> QED
  BY <1>4, <1>5, <1>6, <1>7, <1>9, <1>10, <1>11, <1>12, <1>13 DEF IInv

\* Every step of the handlers and of the target below keeps it.
LEMMA NextIInv == IInv /\ [Next]_vars => IInv'
<1> SUFFICES ASSUME IInv, [Next]_vars PROVE IInv'  OBVIOUS
<1>1. CASE UNCHANGED vars
  BY <1>1 DEF vars, IInv, TypeOK, PartInv, LockInv, AnswerInv, DevInv, ThroughInv,
              CacheCoherent, CacheInv, ReadInv, GotInv, Online, Claimed, Landed, Stale,
              Answered, Acked
<1>2. ASSUME NEW r \in Reads, Read(r) PROVE IInv'  BY <1>2, ReadKeeps
<1>3. ASSUME NEW r \in Reads, ReadRefused(r) PROVE IInv'  BY <1>3, ReadRefusedKeeps
<1>4. ASSUME NEW w \in Writes, WriteRWI(w) PROVE IInv'  BY <1>4, WriteRWIKeeps
<1>5. ASSUME NEW w \in Writes, WriteRWIRefused(w) PROVE IInv'
  BY <1>5, WriteRWIRefusedKeeps
<1>6. ASSUME NEW w \in Writes, WriteRWT(w) PROVE IInv'  BY <1>6, WriteRWTKeeps
<1>7. CASE Execution
  <2>1. PICK c \in Chunks, x \in Cells :
           \/ \E r \in Reads : ReadExec(r, c, x)
           \/ \E w \in Writes : RmwExec(w, c, x) \/ WriteExec(w, c, x)
    BY <1>7 DEF Execution
  <2> QED  BY <2>1, ReadExecKeeps, RmwExecKeeps, WriteExecKeeps
<1>8. CASE Completion
  <2>1. PICK ok \in BOOLEAN :
           \/ \E r \in Reads, c \in Chunks : ReadDone(r, c, ok)
           \/ \E w \in Writes : WriteDoneRWI(w, ok)
           \/ \E w \in Writes, c \in Chunks : RmwDone(w, c, ok) \/ WriteDoneRWT(w, c, ok)
    BY <1>8 DEF Completion
  <2> QED
    BY <2>1, ReadDoneKeeps, WriteDoneRWIKeeps, RmwDoneKeeps, WriteDoneRWTKeeps
<1> QED  BY <1>1, <1>2, <1>3, <1>4, <1>5, <1>6, <1>7, <1>8 DEF Next

\* The inductive invariant holds in every reachable state of either handler, over a
\* bare target and over a RAID that an error takes offline.
THEOREM Invariance == Spec => []IInv
BY InitIInv, NextIInv, PTL DEF Spec

\* The state of the handlers keeps its types.
THEOREM TypeCorrect == Spec => []TypeOK
<1>1. IInv => TypeOK  BY DEF IInv
<1> QED  BY <1>1, Invariance, PTL

\* RWTHandler: one write at work in a chunk, exactly when chunk_w_locker_ has it
\* locked, and no write waits in wqs_pending_ for a chunk that nobody will unlock.
THEOREM ChunksLocked == Spec => []ChunkLocked
<1>1. IInv => ChunkLocked
  <2> SUFFICES ASSUME IInv PROVE ChunkLocked  OBVIOUS
  <2>1. \A c \in Chunks, w \in Writes :
           (\E i \in DOMAIN wqs_pending : wqs_pending[i] = <<c, w>>) =>
              <<c, w>> \in Range(wqs_pending)
    BY DEF Range
  <2> QED  BY <2>1 DEF IInv, LockInv, ChunkLocked
<1> QED  BY <1>1, Invariance, PTL

\* cache_ agrees with the target below it, but where a write at work is replacing
\* the cell: whatever the order in which reads, evictions, writes and errors meet.
THEOREM CacheIsCoherent == Spec => []CacheCoherent
<1>1. IInv => CacheCoherent  BY DEF IInv
<1> QED  BY <1>1, Invariance, PTL

\* A read answered with success is never older than what was answered before it was
\* submitted, and never a buffer that nobody filled.
THEOREM ReadsFresh == Spec => []ReadFresh
<1>1. IInv => ReadFresh  BY DEF IInv, GotInv, ReadFresh, Online
<1> QED  BY <1>1, Invariance, PTL

\* A write answered with success is on the target below, part by part, until a
\* newer one takes its place.
THEOREM WritesDurable == Spec => []AckedWriteDurable
<1>1. IInv => AckedWriteDurable
  <2> SUFFICES ASSUME IInv, below # "offline", NEW w \in Acked, NEW c \in Chunks,
                      NEW x \in WSpan[w][c]
               PROVE  ~Stale(dev[c][x], w)
    BY DEF AckedWriteDurable
  <2>1. w \in Writes /\ wq[w].st = "ok"  BY DEF Acked
  <2>2. Landed(w, c)  BY <2>1 DEF IInv, AnswerInv, Online
  <2> QED  BY <2>1, <2>2 DEF IInv, DevInv, Online
<1> QED  BY <1>1, Invariance, PTL
=============================================================================
