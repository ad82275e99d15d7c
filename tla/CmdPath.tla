------------------------------- MODULE CmdPath -------------------------------
(***************************************************************************)
(* The way of a command through a slave process: the driver queues and     *)
(* announces it, the event loop pops it (handler.cpp), CmdHandler and the  *)
(* handler of its operation cut it into queries for the target, and the    *)
(* last of them to go acknowledges it.                                     *)
(*                                                                         *)
(* The process has one thread: a handler is one step, except where it      *)
(* spins, on an empty command ring or a full ring of acknowledgements;     *)
(* nothing else of the process runs then.  The driver runs all the time.   *)
(* The rings are FIFOs, which module Cfq shows them to be.                 *)
(***************************************************************************)
EXTENDS Integers, Sequences

CONSTANTS
    NCmds,      \* bound: commands, numbered as the driver queues them
    Op,         \* Op[c]: "read", "write", "flush", "discard" or "other"
    Chain,      \* Chain[c]: its cell descriptors, TRUE where one is in range
    W,          \* the counters are modulo W, 2^32 in the code
    RingCap,    \* capacity of the ring of commands
    AckCap,     \* capacity of the ring of acknowledgements
    MaxErrors   \* bound: queries that fail

Cmds == 1..NCmds

ASSUME OpAssumption    == Op \in [Cmds -> {"read", "write", "flush", "discard", "other"}]
ASSUME ChainAssumption == Chain \in [Cmds -> Seq(BOOLEAN)]
ASSUME CapAssumption   == RingCap \in Nat \ {0} /\ AckCap \in Nat \ {0}
ASSUME WAssumption     == W \in Nat /\ W > RingCap
ASSUME BoundAssumption == MaxErrors \in Nat /\ NCmds \in Nat

VARIABLES
    queued,     \* how many commands the driver queued so far
    told,       \* how many it announced so far
    ring,       \* the ring of commands
    reported,   \* how many the process reported as processed
    loop,       \* the reader of announcements: "reading", "popping", "stopped"
    last_cmds,  \* ctx->last_cmds
    cmds,       \* ctx->cmds: announced commands still to pop
    processed,  \* ctx->processed_cmds
    posted,     \* the commands posted to the event loop
    req,        \* req[c]: the request of command c
    errors,     \* queries that failed so far
    spin,       \* the acknowledgement the event loop waits to push, if any
    acks,       \* the ring of acknowledgements
    got         \* got[c]: the acknowledgements of c the driver took

driverVars == <<queued, told, got>>
readVars   == <<reported, loop, last_cmds, cmds, processed>>
vars       == <<driverVars, ring, readVars, posted, req, errors, spin, acks>>

\* Nothing keeps the event loop from running the next handler.
Free == loop # "popping" /\ spin = <<>>

-----------------------------------------------------------------------------
(* The driver, external: it knows how far the process is from the counts the *)
(* process reports, and announces a command it has room for just before or   *)
(* after it queues it.                                                       *)

DriverQueue ==
    /\ queued < NCmds /\ queued - reported < RingCap
    /\ queued' = queued + 1
    /\ ring' = Append(ring, queued + 1)
    /\ UNCHANGED <<told, got, readVars, posted, req, errors, spin, acks>>

DriverAnnounce ==
    /\ told < NCmds /\ told <= queued /\ told - reported < RingCap
    /\ told' = told + 1
    /\ UNCHANGED <<queued, got, ring, readVars, posted, req, errors, spin, acks>>

DriverTake ==
    /\ acks # <<>>
    /\ got' = [got EXCEPT ![Head(acks).id] = Append(@, Head(acks))]
    /\ acks' = Tail(acks)
    /\ UNCHANGED <<queued, told, ring, readVars, posted, req, errors, spin>>

-----------------------------------------------------------------------------
(* The reader of announcements *)

\* Mutant: an older count is not expected.
NewCmdsNoWrap(count) == IF count > last_cmds THEN count - last_cmds ELSE 0

NewCmds(count) == (count + W - last_cmds) % W

\* async_read completes with the number of announcements so far.
AsyncRead ==
    LET count == told % W IN
    /\ loop = "reading" /\ spin = <<>> /\ count # last_cmds
    /\ cmds' = NewCmds(count)
    /\ last_cmds' = count
    /\ processed' = 0
    /\ loop' = "popping"
    /\ UNCHANGED <<driverVars, ring, reported, posted, req, errors, spin, acks>>

\* One turn of the loop over the announced commands: pop, spinning on a command
\* that is announced and not in the ring yet, and post.
PopAndPost ==
    /\ loop = "popping" /\ cmds > 0 /\ ring # <<>>
    /\ posted' = Append(posted, Head(ring))
    /\ ring' = Tail(ring)
    /\ cmds' = cmds - 1 /\ processed' = processed + 1
    /\ UNCHANGED <<driverVars, reported, loop, last_cmds, req, errors, spin, acks>>

\* The end of the loop: the count goes to the driver, and the next read starts.
ReportProcessed ==
    /\ loop = "popping" /\ cmds = 0
    /\ reported' = reported + processed
    /\ loop' = "reading"
    /\ UNCHANGED <<driverVars, ring, last_cmds, cmds, processed, posted, req,
                   errors, spin, acks>>

\* async_read fails, the device is going away: no further read is started.
AsyncReadFails ==
    /\ loop = "reading" /\ spin = <<>>
    /\ loop' = "stopped"
    /\ UNCHANGED <<driverVars, ring, reported, last_cmds, cmds, processed, posted,
                   req, errors, spin, acks>>

-----------------------------------------------------------------------------
(* Requests *)

\* open: queries that hold the request; err: what set_err left; failed: whether
\* a query of it completed with an error
NewReq == [st |-> "held", open |-> 0, err |-> FALSE, failed |-> FALSE]
Reqs == [st : {"none", "held", "acked"}, open : Nat, err : BOOLEAN,
         failed : BOOLEAN]

\* Mutant: the first query that goes takes the request along.
ReleasedAlways(r) == [r EXCEPT !.st = "acked"]

\* The request goes with the last query that holds it.
Released(r) == IF r.open = 0 THEN [r EXCEPT !.st = "acked"] ELSE r

\* Mutant: the error stays with the query.
AckOfQuery(c, r) == [id |-> c, err |-> (Op[c] = "other")]

\* Its completer acknowledges it, with the error set by then.
AckOf(c, r) == [id |-> c, err |-> r.err]

\* Request c becomes r; the acknowledger spins until it can push.
Becomes(c, r) ==
    /\ req' = [req EXCEPT ![c] = Released(r)]
    /\ spin' = IF Released(r).st = "acked" THEN <<AckOf(c, r)>> ELSE <<>>

\* for_each_celld and the submit of each cell.  The loop ends with the chain, at
\* a descriptor out of range (EINVAL) or at a query the target refuses, and the
\* adaptor drops what it returns; a query refused goes at once, without an error,
\* unless the target has started on a part of it.  What matters is how many
\* queries are left open.
Submits(c) ==
    {n \in 0..Len(Chain[c]) : \A i \in 1..n : Chain[c][i]}

\* The operations Master::create has handlers for, and the entry of hs_ that
\* CmdHandler chooses
Supported == {"read", "write", "flush", "discard"}
HandlerOf(c) == IF Op[c] \in Supported THEN Op[c] ELSE "not_supp"

\* CmdHandler::handle of the next command, whose handler is h, leaves request r.
Handle(h, r) ==
    /\ Free /\ posted # <<>> /\ HandlerOf(Head(posted)) = h
    /\ posted' = Tail(posted)
    /\ Becomes(Head(posted), r)
    /\ UNCHANGED <<driverVars, ring, readVars, errors, acks>>

\* A request that n queries hold
Held(n) == [NewReq EXCEPT !.open = n]

\* A query goes, with or without an error, which its completer hands on.
QueryGone(r, fails) ==
    [r EXCEPT !.open = @ - 1, !.err = @ \/ fails, !.failed = @ \/ fails]

HandleRead ==
    posted # <<>> /\ \E n \in Submits(Head(posted)) : Handle("read", Held(n))
HandleWrite ==
    posted # <<>> /\ \E n \in Submits(Head(posted)) : Handle("write", Held(n))

\* The query of a flush or of a discard is gone when submit returns.  Neither has
\* its error set by anyone: one that occurs is returned, and the adaptor drops it.
FlushReq     == Held(1)
DiscardReq   == Held(1)
FlushQuery   == QueryGone(FlushReq, FALSE)
DiscardQuery == QueryGone(DiscardReq, FALSE)

HandleFlush   == Handle("flush", FlushQuery)
HandleDiscard == Handle("discard", DiscardQuery)

\* ReqHandlerNotSupp makes no query.
HandleNotSupp == Handle("not_supp", [NewReq EXCEPT !.err = TRUE])

\* The target is done with a query of c.
QueryDone(c, fails) ==
    /\ Free /\ req[c].open > 0
    /\ fails => errors < MaxErrors
    /\ errors' = IF fails THEN errors + 1 ELSE errors
    /\ Becomes(c, QueryGone(req[c], fails))
    /\ UNCHANGED <<driverVars, ring, readVars, posted, acks>>

ReadQueryDone(c, fails)  == Op[c] = "read" /\ QueryDone(c, fails)
WriteQueryDone(c, fails) == Op[c] = "write" /\ QueryDone(c, fails)

\* CmdAcknowledger::handle pushes as soon as the ring has room.
Acknowledge ==
    /\ spin # <<>> /\ Len(acks) < AckCap
    /\ acks' = Append(acks, spin[1])
    /\ spin' = <<>>
    /\ UNCHANGED <<driverVars, ring, readVars, posted, req, errors>>

-----------------------------------------------------------------------------
Init ==
    /\ queued = 0 /\ told = 0 /\ ring = <<>>
    /\ reported = 0 /\ loop = "reading" /\ last_cmds = 0 /\ cmds = 0
    /\ processed = 0 /\ posted = <<>>
    /\ req = [c \in Cmds |-> [NewReq EXCEPT !.st = "none"]]
    /\ errors = 0 /\ spin = <<>> /\ acks = <<>>
    /\ got = [c \in Cmds |-> <<>>]

HandlePosted == \/ HandleRead \/ HandleWrite
                \/ HandleFlush \/ HandleDiscard \/ HandleNotSupp
Loop == AsyncRead \/ PopAndPost \/ ReportProcessed \/ HandlePosted \/ Acknowledge
Target == \E c \in Cmds, fails \in BOOLEAN :
             ReadQueryDone(c, fails) \/ WriteQueryDone(c, fails)

Next == DriverQueue \/ DriverAnnounce \/ DriverTake \/ Loop \/ AsyncReadFails
        \/ Target

Spec == Init /\ [][Next]_vars

\* The event loop runs what is ready, the target answers what it took, and the
\* driver takes acknowledgements and finishes what it announced.
FairSpec ==
    /\ Spec
    /\ WF_vars(AsyncRead) /\ WF_vars(PopAndPost) /\ WF_vars(ReportProcessed)
    /\ WF_vars(HandlePosted) /\ WF_vars(Acknowledge)
    /\ WF_vars(Target)
    /\ WF_vars(DriverTake) /\ WF_vars(told > queued /\ DriverQueue)

-----------------------------------------------------------------------------
(* Properties *)

Popped == queued - Len(ring)

Acks == [id : Cmds, err : BOOLEAN]

\* Types; a conjunct of CountersAgree
Typed ==
    /\ queued \in 0..NCmds /\ told \in 0..NCmds /\ reported \in 0..NCmds
    /\ ring \in Seq(Cmds) /\ Len(ring) <= RingCap
    /\ loop \in {"reading", "popping", "stopped"}
    /\ last_cmds \in 0..(W - 1) /\ cmds \in 0..(W - 1) /\ processed \in 0..(W - 1)
    /\ posted \in Seq(Cmds)
    /\ req \in [Cmds -> Reqs]
    /\ errors \in 0..MaxErrors
    /\ spin \in Seq(Acks) /\ Len(spin) <= 1
    /\ acks \in Seq(Acks) /\ Len(acks) <= AckCap
    /\ got \in [Cmds -> Seq(Acks)]

\* The process pops what was announced, neither more nor less, across the wrap
\* of the counters, and reports what it popped: the difference of 32-bit
\* counters in async_read never loses or repeats a command.
CountersAgree ==
    /\ Typed
    /\ last_cmds = (Popped + cmds) % W
    /\ reported + (IF loop = "popping" THEN processed ELSE 0) = Popped

\* The acknowledgements of c on their way: taken by the driver, in the ring, or
\* waiting for room; and which of them are of c
Sent(c)   == got[c] \o acks \o spin
AcksOf(c) == {i \in 1..Len(Sent(c)) : Sent(c)[i].id = c}

\* A command is acknowledged once, and only when it has been handled: a request
\* goes with the last of its queries, in whatever order they complete, and an
\* acknowledgement that meets a full ring is not lost.
AckedOnce ==
    \A c \in Cmds :
        IF req[c].st = "acked" THEN \E i \in AcksOf(c) : AcksOf(c) = {i}
        ELSE AcksOf(c) = {}

\* An acknowledgement without error means that no query of the command is under
\* way and none completed with an error.
AckTruthful ==
    \A c \in Cmds : \A i \in AcksOf(c) :
        /\ req[c].open = 0
        /\ req[c].failed => Sent(c)[i].err

\* A command that is queued and announced is acknowledged to the driver, unless
\* the device goes away.  It takes all of: no wait on an empty ring without an
\* announcement, no spinning for ever on a full one, no request kept for ever.
Answered ==
    \A c \in Cmds :
        (c <= queued /\ c <= told) ~> (got[c] # <<>> \/ loop = "stopped")

-----------------------------------------------------------------------------
(* The inductive invariant behind CountersAgree, AckedOnce and AckTruthful *)

\* The driver is ahead of the reports by no more than a ring, and the process pops
\* no more than was announced.
RoomInv ==
    /\ queued - reported <= RingCap /\ told - reported <= RingCap
    /\ Popped + cmds <= told
    /\ loop # "popping" => cmds = 0

\* Commands stay in order in the ring, and none that is queued or posted has a
\* request yet.
OrderInv ==
    /\ \A i \in 1..Len(ring) : ring[i] = Popped + i
    /\ \A i \in 1..Len(posted) : /\ posted[i] <= Popped
                                 /\ req[posted[i]].st = "none"
    /\ \A i, j \in 1..Len(posted) : posted[i] = posted[j] => i = j
    /\ \A c \in Cmds : c > Popped => req[c].st = "none"

\* A request lives as long as a query holds it; what was sent of it carries the
\* error it had in the end.
RequestInv ==
    \A c \in Cmds :
        /\ req[c].open > 0 <=> req[c].st = "held"
        /\ req[c].failed => req[c].err
        /\ \A i \in AcksOf(c) : Sent(c)[i].err = req[c].err

IInv == CountersAgree /\ RoomInv /\ OrderInv /\ AckedOnce /\ RequestInv
=============================================================================
