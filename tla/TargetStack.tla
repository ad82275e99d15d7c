----------------------------- MODULE TargetStack ----------------------------
(***************************************************************************)
(* The targets Master::create builds without parity: a single file, RAID0  *)
(* and RAID1 over files, RAID10, which is RAID0 over RAID1 over files, a   *)
(* piece of memory, and nothing at all.  RAID0 has groups, a group has     *)
(* mirrors, a mirror is a file (module DefTarget).  Every RAID0 and RAID1  *)
(* of a stack is a node with a state machine of its own.                   *)
(*                                                                         *)
(* A request goes down the stack in one step: the nodes cut it into parts  *)
(* and submit these, and a part that a node offline refuses stops the rest *)
(* of it.  What was submitted goes on.  The files execute their operations *)
(* in any order; errors come back up with the last reference to a query.   *)
(* What a submit returns is dropped by the adaptors on top.                *)
(*                                                                         *)
(* The content of a cell is the write that put it there.                   *)
(***************************************************************************)
EXTENDS DefTarget, FiniteSets

CONSTANTS
    Kinds,          \* of AllKinds
    NGroups,        \* handlers of a RAID0
    NMirrors,       \* handlers of a RAID1
    StripLen,       \* strip_len_sectors of the RAID0, in cells
    ReadStrip,      \* read_strip_len_sectors of the RAID1, 0 for no limit
    NCells,         \* cells of the block device
    Writes, Reads, Flushes,     \* requests, each submitted at most once
    First, Last,    \* the cells a read or write covers: First[q]..Last[q]
    Sizes,          \* initial sizes of the files
    Top,            \* the RAID0, a node beside the groups
    MaxErrors,      \* bound: system calls that fail
    MaxRestarts     \* bound: deaths of the process or of the machine

AllKinds == {"default", "raid0", "raid1", "raid10", "inmem", "null"}
Cells  == 0..(NCells - 1)
RWs    == Writes \cup Reads
Values == Writes \cup {Zero}

ASSUME StackAssumption ==
    /\ Kinds \subseteq AllKinds
    /\ NGroups \in Nat \ {0} /\ NMirrors \in Nat \ {0, 1} /\ NCells \in Nat \ {0}
    /\ StripLen \in Nat \ {0} /\ ReadStrip \in Nat /\ Sizes \subseteq Nat
ASSUME SpanAssumption ==
    /\ First \in [RWs -> Cells] /\ Last \in [RWs -> Cells]
    /\ \A q \in RWs : First[q] <= Last[q]
ASSUME ValuesAssumption ==
    /\ Top \notin Nat /\ Zero \notin Writes /\ Writes \cap Reads = {} /\ RWs \cap Flushes = {}
ASSUME BoundsAssumption == MaxErrors \in Nat /\ MaxRestarts \in Nat

VARIABLES
    kind,       \* which of the stacks it is
    offline,    \* the nodes whose state machine is in state offline
    next_hid,   \* next_hid_ of the RAID1 of each group
    file,       \* file[g][m]: the file of mirror m of group g, or the memory
    stable,     \* what of it a loss of power leaves
    ops,        \* operations on files, submitted and not completed
    bad,        \* the <<request, part>> that have an error set
    req,        \* the requests
    safe,       \* history: writes answered with success before the last flush
    failed,     \* history: groups that met an error
    cut,        \* history: <<write, cell, mirror>> that an ftruncate64 has cut off
    errors, restarts

vars == <<kind, offline, next_hid, file, stable, ops, bad, req, safe, failed,
          cut, errors, restarts>>

-----------------------------------------------------------------------------
(* The shape of a stack *)

\* RAID0 on top; RAID1 as groups
Striped  == kind \in {"raid0", "raid10"}
Mirrored == kind \in {"raid1", "raid10"}

Groups  == 0..((IF Striped THEN NGroups ELSE 1) - 1)
Mirrors == 0..((IF Mirrored THEN NMirrors ELSE 1) - 1)

\* make_raid1_ops: no limit given is as much as there may be.
ReadStripLen == IF ReadStrip = 0 THEN NCells ELSE ReadStrip

\* The nodes of the stack, and the one requests come in at
Nodes == (IF Striped THEN {Top} ELSE {}) \cup (IF Mirrored THEN Groups ELSE {})
Entry == IF Striped THEN {Top} ELSE IF Mirrored THEN {0} ELSE {}

\* Where RAID0 puts cell c
Place(c) ==
    IF ~Striped THEN [g |-> 0, off |-> c]
    ELSE LET strip == c \div StripLen IN
         [g |-> strip % NGroups,
          off |-> (c % StripLen) + (strip \div NGroups) * StripLen]

\* raid0::backend::do_op: request q falls into one part for each strip.
PartOf(c) == IF Striped THEN c \div StripLen ELSE 0
Parts(q)  == PartOf(First[q])..PartOf(Last[q])
PartCells(q, p) == {c \in First[q]..Last[q] : PartOf(c) = p}
PartFirst(q, p) == CHOOSE c \in PartCells(q, p) : \A d \in PartCells(q, p) : c <= d
PartLen(q, p)   == Cardinality(PartCells(q, p))
PartGroup(q, p) == Place(PartFirst(q, p)).g

\* An operation of len cells from cell c on, on mirror m of their group
Op(q, p, m, c, len) ==
    [q |-> q, p |-> p, g |-> Place(c).g, m |-> m, c |-> c, off |-> Place(c).off,
     len |-> len, ph |-> "sent", res |-> <<>>]

-----------------------------------------------------------------------------
(* Submitting *)

\* The parts of q that are taken: those before the first one that a node refuses
Taken(q) ==
    IF Entry \cap offline # {} THEN {}
    ELSE {p \in Parts(q) : \A d \in Parts(q) : d <= p => PartGroup(q, d) \notin offline}

Refused(q) == Taken(q) # Parts(q)

\* A refused part takes RAID0 offline, too.
OfflineAfter(q) == IF Refused(q) THEN offline \cup Entry ELSE offline

\* Mutant: the last mirror is left out.
WriteOpsButLast(w) ==
    {Op(w, p, m, PartFirst(w, p), PartLen(w, p)) : p \in Taken(w), m \in {0}}

\* raid1::backend::process(wq): every mirror is written.
WriteOps(w) ==
    {Op(w, p, m, PartFirst(w, p), PartLen(w, p)) : p \in Taken(w), m \in Mirrors}

\* raid1::backend::process(rq): the chunks part p of a read is cut into, each
\* read from the mirror whose turn it is.
ChunkLen == IF Mirrored THEN ReadStripLen ELSE NCells
Chunks(r, p) == 0..((PartLen(r, p) - 1) \div ChunkLen)
Turns(r, g, p, i) ==        \* chunks of group g before chunk i of part p
    Cardinality(UNION {{<<d, j>> : j \in Chunks(r, d)} :
                          d \in {d \in Taken(r) : d < p /\ PartGroup(r, d) = g}}) + i

\* Mutant: the last chunk has the length of the others.
ChunkSizeFull(r, p, i) == ChunkLen

ChunkSize(r, p, i) ==
    IF i * ChunkLen + ChunkLen <= PartLen(r, p) THEN ChunkLen
    ELSE PartLen(r, p) - i * ChunkLen

ReadOps(r) ==
    UNION {{LET g == PartGroup(r, p) IN
            Op(r, p, (next_hid[g] + Turns(r, g, p, i)) % Cardinality(Mirrors),
               PartFirst(r, p) + i * ChunkLen, ChunkSize(r, p, i)) :
              i \in Chunks(r, p)} : p \in Taken(r)}

\* Mutant: the turn does not come back to the first mirror.
NextHidUnwrapped(r) ==
    [g \in DOMAIN next_hid |-> next_hid[g] + Cardinality({o \in ReadOps(r) : o.g = g})]

\* next_hid_ after read r
NextHid(r) ==
    [g \in DOMAIN next_hid |->
        (next_hid[g] + Cardinality({o \in ReadOps(r) : o.g = g}))
           % (IF Mirrored THEN NMirrors ELSE 1)]

\* Writes that are to be found from now on
Claimed == {w \in Writes : kind # "null" /\ req[w].st = "ok" /\ ~req[w].refused}

\* The targets that work in the background
OnFiles == kind \notin {"inmem", "null"}

\* A request of which nothing was taken is answered at once, with no error.
Submitted(q) ==
    [req[q] EXCEPT !.st = IF Taken(q) = {} THEN "ok" ELSE "busy",
                   !.refused = Refused(q), !.before = Claimed]

SubmitWrite(w) ==
    /\ OnFiles /\ req[w].st = "new"
    /\ ops' = ops \cup WriteOps(w)
    /\ req' = [req EXCEPT ![w] = Submitted(w)]
    /\ offline' = OfflineAfter(w)
    /\ UNCHANGED <<kind, next_hid, file, stable, bad, safe, failed, cut, errors, restarts>>

SubmitRead(r) ==
    /\ OnFiles /\ req[r].st = "new"
    /\ ops' = ops \cup ReadOps(r)
    /\ next_hid' = NextHid(r)
    /\ req' = [req EXCEPT ![r] = Submitted(r)]
    /\ offline' = OfflineAfter(r)
    /\ UNCHANGED <<kind, file, stable, bad, safe, failed, cut, errors, restarts>>

\* Mutant: only the first of the flushers is called.
SyncedFirst(F) ==
    [g \in Groups |-> [m \in Mirrors |->
        IF g = 0 /\ m = 0 /\ <<g, m>> \notin F THEN file[g][m] ELSE stable[g][m]]]

\* What is stable after fsync of every file, F being those where it fails
Synced(F) ==
    [g \in Groups |-> [m \in Mirrors |->
        IF <<g, m>> \in F THEN stable[g][m] ELSE file[g][m]]]

\* FLQSubmitterComposite::submit: every file is flushed, and that one fails is
\* noticed by nobody.  The nodes' state machines are not asked.
Flush(f) ==
    /\ OnFiles /\ req[f].st = "new"
    /\ \E F \in SUBSET (Groups \X Mirrors) :
          /\ errors + Cardinality(F) <= MaxErrors
          /\ errors' = errors + Cardinality(F)
          /\ stable' = Synced(F)
          /\ safe' = IF F = {} THEN Claimed ELSE safe
    /\ req' = [req EXCEPT ![f].st = "ok"]
    /\ UNCHANGED <<kind, offline, next_hid, file, ops, bad, failed, cut, restarts>>

-----------------------------------------------------------------------------
(* Memory, and nothing: over when submit returns *)

Answer(q, refused, got) ==
    req' = [req EXCEPT ![q] = [st |-> "ok", refused |-> refused, before |-> Claimed,
                               got |-> got]]

\* inmem::Target refuses what does not fit.  Master::create gives it the capacity of
\* the device for its size, so here everything does.
Fits(q) == Last[q] < Len(file[0][0])

MemWrite(w) ==
    /\ kind = "inmem" /\ req[w].st = "new"
    /\ file' = IF Fits(w)
               THEN [file EXCEPT ![0][0] = Written(@, First[w], Last[w] + 1 - First[w], w)]
               ELSE file
    /\ Answer(w, ~Fits(w), {})
    /\ UNCHANGED <<kind, offline, next_hid, stable, ops, bad, safe, failed, cut, errors,
                   restarts>>

MemRead(r) ==
    /\ kind = "inmem" /\ req[r].st = "new"
    /\ Answer(r, ~Fits(r),
              IF Fits(r) THEN {<<c, At(file[0][0], c)>> : c \in First[r]..Last[r]} ELSE {})
    /\ UNCHANGED <<kind, offline, next_hid, file, stable, ops, bad, safe, failed, cut,
                   errors, restarts>>

\* The submitters of namespace null, which stand in where there is no other
NullRW(q) ==
    /\ kind = "null" /\ req[q].st = "new"
    /\ Answer(q, FALSE, {})
    /\ UNCHANGED <<kind, offline, next_hid, file, stable, ops, bad, safe, failed, cut,
                   errors, restarts>>

NullFlush(f) ==
    /\ ~OnFiles /\ req[f].st = "new"
    /\ Answer(f, FALSE, {})
    /\ UNCHANGED <<kind, offline, next_hid, file, stable, ops, bad, safe, failed, cut,
                   errors, restarts>>

-----------------------------------------------------------------------------
(* The files at work *)

Ran(o, res) == (ops \ {o}) \cup {[o EXCEPT !.ph = "run", !.res = res]}

WriteExec(o) ==
    /\ o.ph = "sent" /\ o.q \in Writes
    /\ file' = [file EXCEPT ![o.g][o.m] = Written(@, o.off, o.len, o.q)]
    /\ ops' = Ran(o, <<>>)
    /\ UNCHANGED <<kind, offline, next_hid, stable, bad, req, safe, failed, cut,
                   errors, restarts>>

ReadExec(o) ==
    /\ o.ph = "sent" /\ o.q \in Reads
    /\ ops' = Ran(o, ReadAt(file[o.g][o.m], o.off, o.len))
    /\ UNCHANGED <<kind, offline, next_hid, file, stable, bad, req, safe, failed,
                   cut, errors, restarts>>

Covers(q, c) == First[q] <= c /\ c <= Last[q]

\* The cells operation o is for
OpCells(o) == o.c..(o.c + o.len - 1)

\* Write w is still to be executed on mirror m of cell c.
Pending(w, c, m) ==
    \E o \in ops : o.q = w /\ o.m = m /\ o.ph = "sent" /\ c \in OpCells(o)

\* An error of a part is one of the request.
Err(q, b) == \E p \in Parts(q) : <<q, p>> \in b

\* Mutant: the completer of a node does not tell the state machine.
FailedNodesNone(o, rest, b) == {}

\* The nodes that learn of an error when operation o goes and rest are left: a
\* RAID1 when the part is over, the RAID0 when the request is.
FailedNodes(o, rest, b) ==
    LET part == \A x \in rest : ~(x.q = o.q /\ x.p = o.p)
        all  == \A x \in rest : x.q # o.q
    IN (IF Mirrored /\ part /\ <<o.q, o.p>> \in b THEN {o.g} ELSE {}) \cup
       (IF Striped /\ all /\ Err(o.q, b) THEN {Top} ELSE {})

\* Operation o of its request is over: b are the errors, got the cells read.
Completed(o, b, got) ==
    LET rest == ops \ {o}
        all  == \A x \in rest : x.q # o.q
    IN
    /\ ops' = rest
    /\ offline' = offline \cup FailedNodes(o, rest, b)
    /\ bad' = b
    /\ req' = [req EXCEPT ![o.q].got = @ \cup got,
                          ![o.q].st = IF ~all THEN @ ELSE IF Err(o.q, b) THEN "err" ELSE "ok"]

\* The handler of async_write_at, success
WriteDone(o) ==
    /\ o.q \in Writes /\ o.ph = "run"
    /\ Completed(o, bad, {})
    /\ UNCHANGED <<kind, next_hid, file, stable, safe, failed, cut, errors, restarts>>

\* The handler of async_read_at, success
ReadDone(o) ==
    /\ o.q \in Reads /\ o.ph = "run" /\ ~Short(o.res, o.len)
    /\ Completed(o, bad, {<<o.c + i - 1, o.res[i]>> : i \in DOMAIN o.res})
    /\ UNCHANGED <<kind, next_hid, file, stable, safe, failed, cut, errors, restarts>>

\* The cells whose content goes when the file of operation o gets size cells
Dropped(o, size) ==
    {c \in Cells : /\ Place(c).g = o.g /\ Place(c).off >= size
                   /\ Place(c).off < Len(file[o.g][o.m])}

\* What the handler of the short read o cuts off: in the cells it drops, the writes
\* that were executed there and had not been answered when the read was sent
CutBy(o) ==
    {t \in (Writes \ req[o.q].before) \X Dropped(o, SizeFor(o.off, o.len)) \X {o.m} :
       Covers(t[1], t[2]) /\ req[t[1]].st # "new" /\ ~Pending(t[1], t[2], t[3])}

\* The handler of async_read_at at the end of the file: the file gets the size the
\* read asked for, and the rest is read again.
ReadShort(o) ==
    LET n == Len(o.res) IN
    /\ o.q \in Reads /\ o.ph = "run" /\ Short(o.res, o.len)
    /\ file' = [file EXCEPT ![o.g][o.m] = Resized(@, SizeFor(o.off, o.len))]
    /\ cut' = cut \cup CutBy(o)
    /\ ops' = (ops \ {o}) \cup
                 {[o EXCEPT !.c = @ + n, !.off = @ + n, !.len = @ - n,
                            !.ph = "sent", !.res = <<>>]}
    /\ req' = [req EXCEPT ![o.q].got = @ \cup {<<o.c + i - 1, o.res[i]>> : i \in 1..n}]
    /\ UNCHANGED <<kind, offline, next_hid, stable, bad, safe, failed, errors, restarts>>

\* The operation, or the ftruncate64 after it, fails; executed or not.
Fail(o) ==
    /\ errors < MaxErrors /\ errors' = errors + 1
    /\ failed' = failed \cup {o.g}
    /\ Completed(o, bad \cup {<<o.q, o.p>>}, {})
    /\ UNCHANGED <<kind, next_hid, file, stable, safe, cut, restarts>>

\* The process dies, and its memory with it, or the machine, which loses in some
\* files what is not stable; the stack is built anew.
Restart ==
    /\ restarts < MaxRestarts /\ restarts' = restarts + 1
    /\ \E F \in SUBSET (Groups \X Mirrors) :
          /\ OnFiles \/ F = Groups \X Mirrors
          /\ file' = [g \in Groups |-> [m \in Mirrors |->
                        IF <<g, m>> \in F THEN stable[g][m] ELSE file[g][m]]]
          /\ req' = [q \in DOMAIN req |->
                       IF req[q].st = "busy" \/ (F # {} /\ q \in Claimed \ safe)
                       THEN [req[q] EXCEPT !.st = "lost"] ELSE req[q]]
    /\ stable' = file'
    /\ offline' = {} /\ next_hid' = [g \in DOMAIN next_hid |-> 0]
    /\ ops' = {} /\ bad' = {} /\ failed' = {}
    /\ UNCHANGED <<kind, safe, cut, errors>>

-----------------------------------------------------------------------------
Init ==
    /\ kind \in Kinds
    /\ offline = {} /\ next_hid = [g \in Groups |-> 0]
    /\ \E n \in IF OnFiles THEN Sizes ELSE {NCells} :
          file = [g \in Groups |-> [m \in Mirrors |-> Resized(<<>>, n)]]
    /\ stable = file
    /\ ops = {} /\ bad = {}
    /\ req = [q \in RWs \cup Flushes |->
                [st |-> "new", refused |-> FALSE, before |-> {}, got |-> {}]]
    /\ safe = {} /\ failed = {} /\ cut = {} /\ errors = 0 /\ restarts = 0

Submit ==
    \/ \E w \in Writes : SubmitWrite(w)
    \/ \E r \in Reads : SubmitRead(r)
    \/ \E f \in Flushes : Flush(f)
    \/ \E w \in Writes : MemWrite(w)
    \/ \E r \in Reads : MemRead(r)
    \/ \E q \in RWs : NullRW(q)
    \/ \E f \in Flushes : NullFlush(f)

FilesWork ==
    \E o \in ops :
       WriteExec(o) \/ ReadExec(o) \/ WriteDone(o) \/ ReadDone(o) \/ ReadShort(o) \/ Fail(o)

Next == Submit \/ FilesWork \/ Restart

\* Every operation is executed and its handler runs, at last.
Spec == Init /\ [][Next]_vars /\ WF_vars(FilesWork)

-----------------------------------------------------------------------------
(* Properties *)

OpRecords == [q : RWs, p : Nat, g : Groups, m : Mirrors, c : Cells, off : Nat,
              len : Nat \ {0}, ph : {"sent", "run"}, res : Seq(Values)]

ReqRecords == [st : {"new", "busy", "ok", "err", "lost"}, refused : BOOLEAN,
               before : SUBSET Writes, got : SUBSET (Cells \X Values)]

\* The type invariant: nodes, files and operations of the stack at hand
TypeOK ==
    /\ kind \in Kinds /\ offline \subseteq Nodes
    /\ next_hid \in [Groups -> Mirrors]
    /\ file \in [Groups -> [Mirrors -> Seq(Values)]]
    /\ stable \in [Groups -> [Mirrors -> Seq(Values)]]
    /\ ops \subseteq OpRecords /\ bad \subseteq RWs \X Nat
    /\ req \in [RWs \cup Flushes -> ReqRecords]
    /\ safe \subseteq Writes /\ failed \subseteq Groups /\ cut \subseteq Writes \X Cells \X Mirrors
    /\ errors \in 0..MaxErrors /\ restarts \in 0..MaxRestarts

\* Content v of a cell is stale for write w when it was there before w.
Stale(v, w) == v = Zero \/ (v # w /\ v \in req[w].before)

\* What mirror m has in cell c, now and after a loss of power
Held(c, m)       == At(file[Place(c).g][m], Place(c).off)
HeldStable(c, m) == At(stable[Place(c).g][m], Place(c).off)

\* The documented use of growing files says: what is written to the device and
\* answered is there afterwards, until it is written again.
WritesStay ==
    \A w \in Claimed, c \in Cells, m \in Mirrors : Covers(w, c) => ~Stale(Held(c, m), w)

\* A write that was carried out and answered with success is on every mirror, or
\* something is there that was not answered before it was sent: whatever other
\* requests meet it, in the other order on the other mirror too, whatever fails
\* later, and after a restart, if power was not lost or a flush came first.  The
\* handler of a short read may take from it only what was not yet answered when
\* that read was sent, and nothing from a write executed later.
MirrorsHold ==
    \A w \in Claimed, c \in Cells, m \in Mirrors :
       Covers(w, c) /\ <<w, c, m>> \notin cut => ~Stale(Held(c, m), w)

\* On some mirror a short read's handler has cut write w off cell c.
CutOff(w, c) == \E m \in Mirrors : <<w, c, m>> \in cut

\* A read that was carried out and answered with success has filled the whole
\* buffer; every cell of it is one that was written there, and none is older than
\* what had been answered with success before the read was sent, whichever mirror
\* each chunk came from; what CutOff says excepted.
ReadFresh ==
    \A r \in Reads : kind # "null" /\ req[r].st = "ok" /\ ~req[r].refused =>
       /\ {t[1] : t \in req[r].got} = First[r]..Last[r]
       /\ \A t \in req[r].got : t[2] = Zero \/ Covers(t[2], t[1])
       /\ \A t \in req[r].got, w \in req[r].before :
             Covers(w, t[1]) /\ ~CutOff(w, t[1]) => ~Stale(t[2], w)

\* What was answered with success before a flush that met no error is stable on
\* every mirror of every group; what is in cut excepted.
FlushedStable ==
    \A w \in safe, c \in Cells, m \in Mirrors :
       Covers(w, c) /\ <<w, c, m>> \notin cut => ~Stale(HeldStable(c, m), w)

\* An error takes offline the RAID1 it happened in, no other, and the RAID0; it
\* does so when nothing is at work any more, however the errors came back.
FaultContained ==
    /\ Mirrored => /\ offline \ {Top} \subseteq failed
                   /\ \A g \in failed : g \in offline \/ \E o \in ops : o.g = g
    /\ Striped  => /\ Top \in offline => failed # {}
                   /\ failed # {} => Top \in offline \/ ops # {}

\* Every request the stack takes is answered, also when a file ends again and
\* again before the end of a read.
Answered == \A q \in RWs : req[q].st = "busy" ~> req[q].st # "busy"

\* A request that the stack refuses, in whole or in part, is answered with an
\* error, as the state machine's EIO is meant to say.
RefusedReported ==
    \A q \in RWs : req[q].refused /\ req[q].st \in {"ok", "err"} => req[q].st = "err"

-----------------------------------------------------------------------------
(* The inductive invariant behind them *)

\* What may be in cell c
Belongs(v, c) == v = Zero \/ (v \in Writes /\ Covers(v, c))

\* A request sent after the writes in before were answered may find v in cell c.
Fresh(v, c, before) ==
    /\ Belongs(v, c)
    /\ \A w \in before : Covers(w, c) /\ ~CutOff(w, c) => ~Stale(v, w)

\* An operation is a piece of a part of its request, in one run of a file.
Located(o) ==
    /\ o.p \in Parts(o.q) /\ OpCells(o) \subseteq PartCells(o.q, o.p)
    /\ o.g = PartGroup(o.q, o.p)
    /\ \A c \in OpCells(o) : Place(c) = [g |-> o.g, off |-> o.off + (c - o.c)]

\* Where a read has met the end of the file, what was answered before it was sent is
\* not beyond the size the file is to get, unless it has been cut off there before.
ShortFit(o) ==
    o.ph = "run" /\ o.q \in Reads /\ Short(o.res, o.len) =>
       \A w \in req[o.q].before, c \in Cells :
          Covers(w, c) /\ Place(c).g = o.g /\ Place(c).off >= SizeFor(o.off, o.len) =>
             <<w, c, o.m>> \in cut

\* Its request is at work, and what it has read is fit for its cells.
OpFit(o) ==
    /\ OnFiles /\ req[o.q].st = "busy" /\ Located(o)
    /\ o.ph = "sent" \/ o.q \in Writes => o.res = <<>>
    /\ Len(o.res) <= o.len
    /\ \A i \in 1..Len(o.res) : Fresh(o.res[i], o.c + i - 1, req[o.q].before)

OpInv == \A o \in ops : OpFit(o) /\ ShortFit(o)

\* What a request found answered is over, and is still claimed while it is at work.
ReqInv ==
    \A q \in RWs \cup Flushes :
       /\ \A w \in req[q].before : req[w].st \in {"ok", "lost"}
       /\ req[q].st = "busy" => q \in RWs /\ OnFiles /\ req[q].before \subseteq Claimed
       /\ req[q].st = "new" => req[q].got = {} /\ req[q].before = {} /\ ~req[q].refused

\* A file has at the place of a cell only what was written to that cell.
DataInv ==
    \A c \in Cells, m \in Mirrors :
       Belongs(Held(c, m), c) /\ Belongs(HeldStable(c, m), c)

\* A write taken in whole that met no error is on a mirror where it is not still to be
\* executed.
WriteInv ==
    \A w \in Writes : req[w].st = "busy" /\ ~req[w].refused /\ ~Err(w, bad) =>
       \A c \in Cells, m \in Mirrors :
          Covers(w, c) /\ <<w, c, m>> \notin cut =>
             Pending(w, c, m) \/ ~Stale(Held(c, m), w)

\* Read r still asks for cell c, or has it.
Asked(r, c) == \E o \in ops : o.q = r /\ c \in OpCells(o)
Got(r, c)   == \E t \in req[r].got : t[1] = c

\* A read taken in whole that met no error has the cells that it does not still ask
\* for, and has them fresh.
ReadInv ==
    \A r \in Reads :
       /\ \A t \in req[r].got : /\ t[1] \in First[r]..Last[r]
                                /\ Fresh(t[2], t[1], req[r].before)
       /\ ~req[r].refused /\ kind # "null" /\ req[r].st \in {"busy", "ok"} =>
             \A c \in First[r]..Last[r] :
                Got(r, c) \/ (req[r].st = "busy" /\ (Err(r, bad) \/ Asked(r, c)))

\* A write that counts as flushed is still claimed.
HoldInv == MirrorsHold /\ FlushedStable /\ safe \subseteq Claimed

\* An error that a node has not heard of is that of a part that is still at work.
FaultInv ==
    /\ \A b \in bad : b[2] \in Parts(b[1]) /\ PartGroup(b[1], b[2]) \in failed
    /\ Mirrored => /\ offline \ {Top} \subseteq failed
                   /\ \A g \in failed : \/ g \in offline
                                        \/ \E o \in ops : o.g = g /\ <<o.q, o.p>> \in bad
    /\ Striped => /\ Top \in offline => failed # {}
                  /\ failed # {} => Top \in offline \/ \E o \in ops : Err(o.q, bad)

IInv == TypeOK /\ OpInv /\ ReqInv /\ DataInv /\ WriteInv /\ ReadInv /\ HoldInv /\ FaultInv
=============================================================================
