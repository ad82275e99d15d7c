------------------------------- MODULE RaidSP -------------------------------
(***************************************************************************)
(* A RAID with a single parity strip per stripe (RAID4 and RAID5): the     *)
(* write path of raidsp::acceptor, the fan-out of raidsp::backend and the  *)
(* online/offline machine of raidsp::Target.                               *)
(*                                                                         *)
(* Everything runs on one event loop, so a handler is one step; what       *)
(* interleaves is the order in which the devices answer.  The devices are  *)
(* def::Target instances, which take every submit and report a failure     *)
(* only when they complete.                                                *)
(*                                                                         *)
(* A stripe holds data cells and the parity of them.  The content of a     *)
(* cell is named by the write that put it there.  Parity is kept           *)
(* symbolically: the set of <<cell, content>> pairs XORed into it, for     *)
(* which XOR is the symmetric difference of sets.                          *)
(***************************************************************************)
EXTENDS Naturals, Sequences, FiniteSets, Functions

CONSTANTS
    Writes,         \* client writes, each submitted at most once
    Reads,          \* client reads, each submitted at most once
    Stripes,        \* stripe ids
    Strips,         \* data strips of a stripe
    Cells,          \* the units of data of a stripe a write may cover
    StripOf,        \* StripOf[c]: the strip cell c lies in
    Span,           \* Span[w][s]: the cells of stripe s that write w covers
    RSpan,          \* RSpan[r][s]: the cells of stripe s that read r covers
    Old,            \* what a cell holds before any write
    P,              \* names the operation on the parity strip
    MaxErrors,      \* bound: device operations that fail between restarts
    MaxRestarts     \* bound: restarts of the process serving the target

Values == Writes \cup {Old}
Tokens == Cells \X Values

Touched(span) == {s \in Stripes : span[s] # {}}
StripsOf(cs)  == {StripOf[c] : c \in cs}

ASSUME StripesAssumption == Stripes \subseteq Nat /\ IsFiniteSet(Stripes)
ASSUME StripsAssumption  == P \notin Strips
ASSUME CellsAssumption   == Cells # {} /\ StripOf \in [Cells -> Strips]
ASSUME ValuesAssumption  == Old \notin Writes
ASSUME SpanAssumption    ==
    /\ Span \in [Writes -> [Stripes -> SUBSET Cells]]
    /\ \A w \in Writes : Touched(Span[w]) # {}
ASSUME RSpanAssumption   ==
    /\ RSpan \in [Reads -> [Stripes -> SUBSET Cells]]
    /\ \A r \in Reads : Touched(RSpan[r]) # {}
ASSUME BoundsAssumption  == MaxErrors \in Nat /\ MaxRestarts \in Nat

VARIABLES
    fsm,            \* state of the target: "online" or "offline"
    locker,         \* stripe_w_locker_: the stripes locked for writing
    coherency,      \* stripe_parity_coherency_state_: stripes with good parity
    wqs_pending,    \* wqs_pending_: <<stripe, write>> waiting for the lock
    sub,            \* sub[w][s]: the part of write w that lies in stripe s
    wq,             \* wq[w]: the client's write query
    rq,             \* rq[r]: the client's read query
    data,           \* data[s][c]: content of the data cells on the devices
    par,            \* par[s]: content of the parity strip on its device
    errors,         \* device errors since the last restart
    restarts        \* restarts so far

vars == <<fsm, locker, coherency, wqs_pending, sub, wq, rq, data, par,
          errors, restarts>>

-----------------------------------------------------------------------------
(* Parity *)

ParityOf(f) == {<<c, f[c]>> : c \in Cells}

Xor(A, B) == (A \ B) \cup (B \ A)

\* The content of a whole stripe f after write w is put over cells cs.
Over(f, cs, w) == [c \in Cells |-> IF c \in cs THEN w ELSE f[c]]

\* Read-modify-write: XOR of the old and the new data of the cells cs, XORed
\* into the parity read.
ParityTo(parity, old, cs, w) ==
    Xor(parity, Xor({<<c, old[c]>> : c \in cs}, {<<c, w>> : c \in cs}))

-----------------------------------------------------------------------------
(* One write in one stripe *)

Phases == {"none", "pending", "rd_coh", "rp_coh", "rd_inc", "wr_coh",
           "wr_inc", "done"}
Reading == {"rd_coh", "rd_inc"}
Writing == {"wr_coh", "wr_inc"}
InStripe == Reading \cup {"rp_coh"} \cup Writing   \* holds the stripe

SubQuery(ph, todo, pbuf) ==
    [ph |-> ph, todo |-> todo, buf |-> [c \in Cells |-> Old], pbuf |-> pbuf,
     derr |-> FALSE, perr |-> FALSE]

Idle(ph) == SubQuery(ph, {}, {})

\* Mutant: an incoherent stripe is read only where the write covers it.
ProcessReadingOwnCells(w, s, coh) ==
    LET cs == Span[w][s] IN
    IF cs # Cells
    THEN SubQuery(IF s \in coh THEN "rd_coh" ELSE "rd_inc", StripsOf(cs), {})
    ELSE SubQuery(IF s \in coh THEN "wr_coh" ELSE "wr_inc",
                  StripsOf(Cells) \cup {P}, {<<c, w>> : c \in Cells})

\* acceptor::process(stripe_id, wq): a partial write of a coherent stripe reads
\* the cells it replaces, of an incoherent one the whole stripe; a write of the
\* whole stripe needs no read.
Process(w, s, coh) ==
    LET cs == Span[w][s] IN
    IF cs # Cells
    THEN IF s \in coh THEN SubQuery("rd_coh", StripsOf(cs), {})
                      ELSE SubQuery("rd_inc", StripsOf(Cells), {})
    ELSE SubQuery(IF s \in coh THEN "wr_coh" ELSE "wr_inc",
                  StripsOf(Cells) \cup {P}, {<<c, w>> : c \in Cells})

Continue(w, s, b) ==
    /\ sub' = [sub EXCEPT ![w][s] = b]
    /\ UNCHANGED <<fsm, locker, wqs_pending, wq>>

\* The pending write process() is called for next, if there is one: the first
\* of the stripe.  It is erased by moving the last one into its place.
FirstPending(s, i) ==
    /\ i \in 1..Len(wqs_pending) /\ wqs_pending[i][1] = s
    /\ \A j \in 1..(i - 1) : wqs_pending[j][1] # s

\* Mutant: the stripe is unlocked whoever waits for it.
PendingIgnored(s) == TRUE

NonePending(s) == \A i \in 1..Len(wqs_pending) : wqs_pending[i][1] # s

\* Mutant: a cleared entry is left in the place of the one erased.
SwapEraseCleared(q, i) ==
    [j \in 1..(Len(q) - 1) |-> IF j = i THEN <<0, Old>> ELSE q[j]]

SwapErase(q, i) ==
    [j \in 1..(Len(q) - 1) |-> IF j = i THEN q[Len(q)] ELSE q[j]]

\* The part in stripe s is the last of write w to complete.
LastPart(w, s) == \A t \in Touched(Span[w]) \ {s} : sub[w][t].ph = "done"

\* Mutant: errors do not reach the state machine.
FsmUntouched(last, err) == fsm

\* The completer Target::process wraps a request in: an error fails the target.
FsmAfter(last, err) == IF last /\ err THEN "offline" ELSE fsm

\* The completer of write w's part in stripe s: hand the stripe to the next
\* pending write or unlock it; the client's query completes with its last part.
Finish(w, s, err, coh) ==
    LET e    == wq[w].err \/ err
        last == LastPart(w, s)
    IN
    /\ wq' = [wq EXCEPT ![w] =
                [st |-> IF ~last THEN @.st ELSE IF e THEN "err" ELSE "ok",
                 err |-> e, before |-> @.before]]
    /\ fsm' = FsmAfter(last, e)
    /\ \/ /\ NonePending(s)
          /\ locker' = locker \ {s}
          /\ sub' = [sub EXCEPT ![w][s] = Idle("done")]
          /\ UNCHANGED wqs_pending
       \/ \E i \in 1..Len(wqs_pending) :
          LET v == wqs_pending[i][2] IN
          /\ FirstPending(s, i)
          /\ wqs_pending' = SwapErase(wqs_pending, i)
          /\ sub' = [sub EXCEPT ![w][s] = Idle("done"),
                                ![v][s] = Process(v, s, coh)]
          /\ UNCHANGED locker

-----------------------------------------------------------------------------
(* Client requests *)

Acked    == {w \in Writes : wq[w].st = "ok"}
Answered == {w \in Writes : wq[w].st \in {"ok", "err", "lost"}}

\* Mutant: the lock is not asked for.
NoWait(w) == {}

\* The stripes of write w for which try_lock() fails
MustWait(w) == Touched(Span[w]) \cap locker

\* acceptor::process(wq): split by stripes, in ascending order; a part whose
\* stripe is locked waits in wqs_pending.
Write(w) ==
    LET T    == Touched(Span[w])
        busy == MustWait(w)
    IN
    /\ wq[w].st = "new" /\ fsm = "online"
    /\ wq' = [wq EXCEPT ![w] = [st |-> "busy", err |-> FALSE,
                                   before |-> Answered]]
    /\ locker' = locker \cup T
    /\ sub' = [sub EXCEPT ![w] = [s \in Stripes |->
                  IF s \in busy THEN Idle("pending")
                  ELSE IF s \in T THEN Process(w, s, coherency)
                  ELSE Idle("none")]]
    /\ \E q \in [1..Cardinality(busy) -> busy] :
          /\ \A s \in busy : \E i \in DOMAIN q : q[i] = s
          /\ \A i, j \in DOMAIN q : i < j => q[i] < q[j]
          /\ wqs_pending' = wqs_pending \o [i \in DOMAIN q |-> <<q[i], w>>]
    /\ UNCHANGED <<fsm, coherency, rq, data, par, errors, restarts>>

\* Mutant: a read stops at the end of its first stripe.
ReadOpsOneStripe(r) ==
    {x \in Stripes \X Strips : /\ x[2] \in StripsOf(RSpan[r][x[1]])
                               /\ \A s \in Touched(RSpan[r]) : x[1] <= s}

\* backend::data_read: one device read per strip, stripe after stripe
ReadOps(r) == {x \in Stripes \X Strips : x[2] \in StripsOf(RSpan[r][x[1]])}

Read(r) ==
    /\ rq[r].st = "new" /\ fsm = "online"
    /\ rq' = [rq EXCEPT ![r] = [st |-> "busy", err |-> FALSE, got |-> {},
                               before |-> Acked, todo |-> ReadOps(r)]]
    /\ UNCHANGED <<fsm, locker, coherency, wqs_pending, sub, wq, data, par,
                   errors, restarts>>

\* An offline target answers EIO at once.
WriteOffline(w) ==
    /\ wq[w].st = "new" /\ fsm = "offline"
    /\ wq' = [wq EXCEPT ![w].st = "err"]
    /\ UNCHANGED <<fsm, locker, coherency, wqs_pending, sub, rq, data, par,
                   errors, restarts>>

ReadOffline(r) ==
    /\ rq[r].st = "new" /\ fsm = "offline"
    /\ rq' = [rq EXCEPT ![r].st = "err"]
    /\ UNCHANGED <<fsm, locker, coherency, wqs_pending, sub, wq, data, par,
                   errors, restarts>>

-----------------------------------------------------------------------------
(* Completions of device operations; ok says whether the operation succeeded *)

Outcome(ok) ==
    /\ ok \/ errors < MaxErrors
    /\ errors' = IF ok THEN errors ELSE errors + 1

\* A strip read for write w comes back.  After the last one the coherent path
\* reads the parity, the incoherent one computes it afresh and writes.
DataReadDone(w, s, k, ok) ==
    LET b    == sub[w][s]
        b1   == [b EXCEPT !.todo = @ \ {k}, !.derr = @ \/ ~ok,
                          !.buf = [c \in Cells |->
                              IF ok /\ StripOf[c] = k THEN data[s][c] ELSE @[c]]]
        cs   == Span[w][s]
    IN
    /\ b.ph \in Reading /\ k \in b.todo
    /\ Outcome(ok)
    /\ \/ b1.todo # {} /\ Continue(w, s, b1)
       \/ b1.todo = {} /\ b1.derr /\ Finish(w, s, TRUE, coherency)
       \/ /\ b1.todo = {} /\ ~b1.derr /\ b.ph = "rd_coh"
          /\ Continue(w, s, [b1 EXCEPT !.ph = "rp_coh", !.todo = {P}])
       \/ /\ b1.todo = {} /\ ~b1.derr /\ b.ph = "rd_inc"
          /\ Continue(w, s, [b1 EXCEPT !.ph = "wr_inc",
                                       !.todo = StripsOf(cs) \cup {P},
                                       !.pbuf = ParityOf(Over(b1.buf, cs, w))])
    /\ UNCHANGED <<coherency, rq, data, par, restarts>>

\* The parity read of the coherent path comes back.
ParityReadDone(w, s, ok) ==
    LET b  == sub[w][s]
        cs == Span[w][s]
    IN
    /\ b.ph = "rp_coh" /\ P \in b.todo
    /\ Outcome(ok)
    /\ \/ ~ok /\ Finish(w, s, TRUE, coherency)
       \/ /\ ok
          /\ Continue(w, s, [b EXCEPT !.ph = "wr_coh",
                                      !.todo = StripsOf(cs) \cup {P},
                                      !.pbuf = ParityTo(par[s], b.buf, cs, w)])
    /\ UNCHANGED <<coherency, rq, data, par, restarts>>

\* Mutant: a failed write of a coherent stripe leaves the flag set.
FlagKeptOnError(s, b) ==
    IF b.ph = "wr_coh" \/ b.todo # {} THEN coherency
    ELSE IF b.derr \/ b.perr THEN coherency \ {s} ELSE coherency \cup {s}

\* The coherency flag as the completers of the data query (wqd) and the parity
\* query (wqp) leave it: the coherent path resets it when either one fails, the
\* incoherent path sets it once, when both are over.
FlagAfter(s, b) ==
    LET wqdFailed == b.todo \cap Strips = {} /\ b.derr IN
    IF b.ph = "wr_coh"
    THEN IF wqdFailed \/ b.perr THEN coherency \ {s} ELSE coherency
    ELSE IF b.todo # {} THEN coherency
    ELSE IF b.derr \/ b.perr THEN coherency \ {s} ELSE coherency \cup {s}

\* Mutant: the error of a device write is forgotten.
WriteStepForgetting(w, s, b) ==
    /\ coherency' = FlagAfter(s, b)
    /\ \/ b.todo # {} /\ Continue(w, s, b)
       \/ b.todo = {} /\ Finish(w, s, FALSE, coherency')

WriteStep(w, s, b) ==
    /\ coherency' = FlagAfter(s, b)
    /\ \/ b.todo # {} /\ Continue(w, s, b)
       \/ b.todo = {} /\ Finish(w, s, b.derr \/ b.perr, coherency')

\* A strip of write w's data is answered; a failed write leaves any part of it.
DataWriteDone(w, s, k, ok) ==
    LET b  == sub[w][s]
        cs == {c \in Span[w][s] : StripOf[c] = k}
    IN
    /\ b.ph \in Writing /\ k \in b.todo \ {P}
    /\ Outcome(ok)
    /\ \E ws \in IF ok THEN {cs} ELSE SUBSET cs :
          data' = [data EXCEPT ![s] = Over(@, ws, w)]
    /\ WriteStep(w, s, [b EXCEPT !.todo = @ \ {k}, !.derr = @ \/ ~ok])
    /\ UNCHANGED <<rq, par, restarts>>

\* The parity strip of write w is answered.
ParityWriteDone(w, s, ok) ==
    LET b == sub[w][s] IN
    /\ b.ph \in Writing /\ P \in b.todo
    /\ Outcome(ok)
    /\ \E p \in IF ok THEN {b.pbuf} ELSE {par[s], b.pbuf} :
          par' = [par EXCEPT ![s] = p]
    /\ WriteStep(w, s, [b EXCEPT !.todo = @ \ {P}, !.perr = ~ok])
    /\ UNCHANGED <<rq, data, restarts>>

\* A strip of a client read is answered; the read takes no lock.
ReadDone(r, s, k, ok) ==
    LET b    == rq[r]
        e    == b.err \/ ~ok
        last == b.todo = {<<s, k>>}
        cs   == {c \in RSpan[r][s] : StripOf[c] = k}
    IN
    /\ b.st = "busy" /\ <<s, k>> \in b.todo
    /\ Outcome(ok)
    /\ rq' = [rq EXCEPT ![r] =
                [b EXCEPT !.todo = @ \ {<<s, k>>}, !.err = e,
                          !.got = IF ok THEN @ \cup {<<s, c, data[s][c]>> : c \in cs}
                                  ELSE @,
                          !.st = IF ~last THEN @ ELSE IF e THEN "err" ELSE "ok"]]
    /\ fsm' = FsmAfter(last, e)
    /\ UNCHANGED <<locker, coherency, wqs_pending, sub, wq, data, par, restarts>>

-----------------------------------------------------------------------------
(* The process serving the target dies at any point and is started again.    *)
(* The locks, the pending writes and the coherency flags are memory only;    *)
(* an operation in flight may or may not have reached its device.            *)

InFlight(w, s) ==
    IF sub[w][s].ph \in Writing
    THEN {c \in Span[w][s] : StripOf[c] \in sub[w][s].todo} ELSE {}

\* What the cells of stripe s may hold then; one write at most is at work there.
Landed(s) ==
    {data[s]} \cup
    UNION {{Over(data[s], cs, w) : cs \in SUBSET InFlight(w, s)} : w \in Writes}

Restart ==
    /\ restarts < MaxRestarts
    /\ restarts' = restarts + 1 /\ errors' = 0
    /\ fsm' = "online" /\ locker' = {} /\ coherency' = {} /\ wqs_pending' = <<>>
    /\ sub' = [w \in Writes |-> [s \in Stripes |-> Idle("none")]]
    /\ wq' = [w \in Writes |-> [wq[w] EXCEPT !.st = IF @ = "busy" THEN "lost" ELSE @]]
    /\ rq' = [r \in Reads |-> [rq[r] EXCEPT !.st = IF @ = "busy" THEN "lost" ELSE @]]
    /\ data' \in {d \in [Stripes -> UNION {Landed(s) : s \in Stripes}] :
                    \A s \in Stripes : d[s] \in Landed(s)}
    /\ par' \in {p \in [Stripes -> UNION {{par[s]} \cup {sub[w][s].pbuf : w \in Writes} : s \in Stripes}] :
                    \A s \in Stripes :
                       \/ p[s] = par[s]
                       \/ \E w \in Writes : /\ sub[w][s].ph \in Writing
                                            /\ P \in sub[w][s].todo
                                            /\ p[s] = sub[w][s].pbuf}

-----------------------------------------------------------------------------
Init ==
    /\ fsm = "online" /\ locker = {} /\ coherency = {} /\ wqs_pending = <<>>
    /\ sub = [w \in Writes |-> [s \in Stripes |-> Idle("none")]]
    /\ wq = [w \in Writes |-> [st |-> "new", err |-> FALSE, before |-> {}]]
    /\ rq = [r \in Reads |-> [st |-> "new", err |-> FALSE, got |-> {},
                              before |-> {}, todo |-> {}]]
    /\ data = [s \in Stripes |-> [c \in Cells |-> Old]]
    /\ par = [s \in Stripes |-> {}]    \* in no relation to the data
    /\ errors = 0 /\ restarts = 0

Completion ==
    \E ok \in BOOLEAN :
       \/ \E w \in Writes, s \in Stripes :
             \/ \E k \in Strips : DataReadDone(w, s, k, ok)
             \/ ParityReadDone(w, s, ok)
             \/ \E k \in Strips : DataWriteDone(w, s, k, ok)
             \/ ParityWriteDone(w, s, ok)
       \/ \E r \in Reads, s \in Stripes, k \in Strips : ReadDone(r, s, k, ok)

Next ==
    \/ \E w \in Writes : Write(w) \/ WriteOffline(w)
    \/ \E r \in Reads : Read(r) \/ ReadOffline(r)
    \/ Completion
    \/ Restart

Spec == Init /\ [][Next]_vars

\* Every device operation is answered at last, whatever the answer.
FairSpec == Spec /\ WF_vars(Completion)

-----------------------------------------------------------------------------
(* Properties *)

States == {"new", "busy", "ok", "err", "lost"}

SubQueries ==
    [ph : Phases, todo : SUBSET (Strips \cup {P}), buf : [Cells -> Values],
     pbuf : SUBSET Tokens, derr : BOOLEAN, perr : BOOLEAN]
WriteQueries == [st : States, err : BOOLEAN, before : SUBSET Writes]
ReadQueries ==
    [st : States, err : BOOLEAN, got : SUBSET (Stripes \X Cells \X Values),
     before : SUBSET Writes, todo : SUBSET (Stripes \X Strips)]

\* The type invariant of the target's state
TypeOK ==
    /\ fsm \in {"online", "offline"}
    /\ locker \subseteq Stripes /\ coherency \subseteq Stripes
    /\ wqs_pending \in Seq(Stripes \X Writes)
    /\ sub \in [Writes -> [Stripes -> SubQueries]]
    /\ wq \in [Writes -> WriteQueries]
    /\ rq \in [Reads -> ReadQueries]
    /\ data \in [Stripes -> [Cells -> Values]]
    /\ par \in [Stripes -> SUBSET Tokens]
    /\ errors \in 0..MaxErrors /\ restarts \in 0..MaxRestarts

Holds(w, s) == sub[w][s].ph \in InStripe

\* No two writes are at work in one stripe: the read-modify-write of one would
\* compute its parity from data the other is replacing.
StripeExclusive ==
    \A s \in Stripes, v, w \in Writes : Holds(v, s) /\ Holds(w, s) => v = w

\* A stripe is locked exactly while a write works in it, and a write waits only
\* for a locked stripe: no pending write is left behind by an unlock, and unlock()
\* is never called on a stripe that is not locked (Expects in bitset_locker).
LockHeld ==
    /\ \A s \in Stripes : s \in locker <=> \E w \in Writes : Holds(w, s)
    /\ \A w \in Writes, s \in Stripes :
          sub[w][s].ph = "pending" => /\ s \in locker
                                      /\ <<s, w>> \in Range(wqs_pending)

\* The answer of Target::is_stripe_parity_coherent
IsStripeParityCoherent(s) == fsm = "online" /\ s \in coherency

\* A stripe the target calls coherent, with no write at work in it, has on its
\* parity strip the XOR of what is on its data strips, so that a lost strip
\* could be computed from the others; whatever failed or was cut short before.
CoherentParity ==
    \A s \in Stripes :
       IsStripeParityCoherent(s) /\ s \notin locker => par[s] = ParityOf(data[s])

\* Content v of a cell is stale for write w when it was there before w.
Stale(v, w) == v = Old \/ (v # w /\ v \in wq[w].before)

\* Data of a write answered with success is never replaced by older data, nor
\* missing: not by a write that waited, by a retired one or by a restart.
AckedWriteDurable ==
    \A w \in Acked, s \in Stripes :
       \A c \in Span[w][s] : ~Stale(data[s][c], w)

\* A read answered with success returns nothing older than what was answered
\* with success before the read was submitted.
ReadFresh ==
    \A r \in Reads : rq[r].st = "ok" =>
       /\ \A w \in rq[r].before, x \in rq[r].got :
             x[2] \in Span[w][x[1]] => ~Stale(x[3], w)
       /\ \A s \in Stripes : \A c \in RSpan[r][s] :
             \E v \in Values : <<s, c, v>> \in rq[r].got

\* A device error, in whatever phase of whatever request, has taken the target
\* offline once no request is in progress.
ErrorsReachFsm ==
    /\ errors > 0
    /\ \A w \in Writes : wq[w].st # "busy"
    /\ \A r \in Reads : rq[r].st # "busy"
    => fsm = "offline"

\* Every write the target takes is answered: none stays in wqs_pending and none
\* waits for an operation that was not submitted.
WritesAnswered ==
    \A w \in Writes : wq[w].st = "busy" ~> wq[w].st # "busy"

-----------------------------------------------------------------------------
(* The inductive invariant behind StripeExclusive, LockHeld, CoherentParity *)

LockInv == StripeExclusive /\ LockHeld

\* wqs_pending lists every waiting part, once.
PendingInv ==
    /\ \A i \in DOMAIN wqs_pending :
          sub[wqs_pending[i][2]][wqs_pending[i][1]].ph = "pending"
    /\ \A i, j \in DOMAIN wqs_pending :
          wqs_pending[i] = wqs_pending[j] => i = j

\* Only the stripes a write touches, and only while it is in progress, know it.
BusyInv ==
    \A w \in Writes, s \in Stripes :
       Holds(w, s) \/ sub[w][s].ph = "pending" =>
          wq[w].st = "busy" /\ s \in Touched(Span[w])

\* What the write at work in a stripe knows, phase by phase: the cells read are
\* the cells on the devices; the parity it writes is that of the stripe with all
\* of its cells in place; what was answered with success is on the devices.
WorkOK(w, s) ==
    LET b  == sub[w][s]
        cs == Span[w][s]
        need == IF b.ph = "rd_inc" THEN Cells ELSE cs
    IN
    /\ b.todo # {}
    /\ b.ph \in {"rd_coh", "rp_coh"} =>
          s \in coherency /\ par[s] = ParityOf(data[s])
    /\ b.ph = "rd_inc" => s \notin coherency
    /\ b.ph \in Reading \cup {"rp_coh"} /\ ~b.derr =>
          \A c \in need : StripOf[c] \notin b.todo => b.buf[c] = data[s][c]
    /\ b.ph = "rp_coh" => ~b.derr /\ b.todo = {P}
    /\ b.ph \in Reading \cup {"rp_coh"} => ~b.perr
    /\ b.ph \in Reading => P \notin b.todo
    /\ b.ph \in Writing =>
          /\ b.pbuf = ParityOf(Over(data[s], cs, w))
          /\ ~b.derr => \A c \in cs : StripOf[c] \notin b.todo => data[s][c] = w
          /\ P \notin b.todo /\ ~b.perr => par[s] = b.pbuf
          /\ P \in b.todo => ~b.perr
    /\ b.ph = "wr_coh" /\ s \in coherency =>
          ~b.perr /\ (b.derr => b.todo \cap Strips # {})

StripeInv ==
    \A s \in Stripes :
       /\ \A w \in Writes : Holds(w, s) => WorkOK(w, s)
       /\ s \in coherency /\ s \notin locker => par[s] = ParityOf(data[s])

WorkInv == TypeOK /\ LockInv /\ PendingInv /\ BusyInv /\ StripeInv

-----------------------------------------------------------------------------
(* ... and behind AckedWriteDurable, ReadFresh and ErrorsReachFsm *)

\* What a write was submitted after has been answered, so it is not at work.
BeforeInv == \A w \in Writes : wq[w].before \subseteq Answered

\* The cells of a part that is over, of a write that has met no error, hold
\* nothing older than the write.
WrittenInv ==
    \A w \in Writes, s \in Stripes :
       \/ wq[w].st = "ok"
       \/ wq[w].st = "busy" /\ ~wq[w].err /\ sub[w][s].ph = "done"
       => \A c \in Span[w][s] : ~Stale(data[s][c], w)

\* Request in progress that has met an error
FailingWrite(w) ==
    /\ wq[w].st = "busy"
    /\ \/ wq[w].err
       \/ \E s \in Stripes : Holds(w, s) /\ (sub[w][s].derr \/ sub[w][s].perr)
FailingRead(r) == rq[r].st = "busy" /\ rq[r].err

\* An error that has not reached the state machine is carried by a request.
ErrorInv ==
    errors > 0 /\ fsm = "online" =>
       \/ \E w \in Writes : FailingWrite(w)
       \/ \E r \in Reads : FailingRead(r)

\* What a read has brought so far
GotInv ==
    \A r \in Reads : rq[r].st \in {"busy", "ok"} =>
       /\ rq[r].before \subseteq Acked
       /\ \A w \in rq[r].before, x \in rq[r].got :
             x[2] \in Span[w][x[1]] => ~Stale(x[3], w)
       /\ ~rq[r].err => \A s \in Stripes : \A c \in RSpan[r][s] :
             \/ <<s, StripOf[c]>> \in rq[r].todo
             \/ \E v \in Values : <<s, c, v>> \in rq[r].got
       /\ rq[r].st = "ok" => ~rq[r].err /\ rq[r].todo = {}

AnswerInv == BeforeInv /\ WrittenInv /\ ErrorInv /\ GotInv

\* The inductive invariant of the target: the locks, the pending writes and what
\* each write at work knows agree with the devices, no error is lost on its way
\* to the state machine, and what is answered is what is on the devices.
IInv == WorkInv /\ AnswerInv

=============================================================================
