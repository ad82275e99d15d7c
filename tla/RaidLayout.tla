----------------------------- MODULE RaidLayout -----------------------------
(***************************************************************************)
(* Where the RAID targets put a request: the loops of raid0::backend,      *)
(* raid1::backend, raidsp::backend and raidsp::acceptor that cut a request *)
(* into subqueries for the devices, one step for each subquery, and        *)
(* parity_to, which says what is XORed where.                              *)
(*                                                                         *)
(* Sizes and offsets are in units of 8 bytes, what parity_to XORs at a     *)
(* time; the devices take every submit.  The reads a partial write makes   *)
(* first are data_read as well, of a part of one stripe.                   *)
(***************************************************************************)
EXTENDS Integers, Sequences, FiniteSets

CONSTANTS
    Levels,         \* of "raid0", "raid1", "raid4", "raid5"
    Devices,        \* numbers of devices, hs_.size()
    StripSizes,     \* strip_sz, read_strip_sz for RAID1
    MaxOffset,      \* bound: offset of a request
    MaxLength       \* bound: length of a request

ASSUME LevelsAssumption  == Levels \subseteq {"raid0", "raid1", "raid4", "raid5"}
ASSUME DevicesAssumption == Devices \subseteq Nat \ (0..2)
ASSUME SizesAssumption   == StripSizes \subseteq Nat \ {0}
                            /\ MaxOffset \in Nat /\ MaxLength \in Nat \ {0}

VARIABLES
    req,        \* the request: level, devices, strip size, kind, offset, length
    done,       \* units submitted (rb, wb, submitted_bytes)
    id,         \* stripe_id, for RAID0 strip_id, for RAID1 next_hid_
    at,         \* stripe_offset
    part,       \* the unit of the request the part in the stripe starts with
    strip_off,  \* strip_offset
    chunk_sz,   \* what is left to submit of the part in the stripe at hand
    hs,         \* the devices left of handlers_data_view, <<>> between stripes
    ops,        \* the data subqueries submitted
    parity      \* the parity strips written

vars == <<req, done, id, at, part, strip_off, chunk_sz, hs, ops, parity>>

SP == {"raid4", "raid5"}
StripeDataSz == req.sz * (req.n - 1)
Smaller(a, b) == IF a < b THEN a ELSE b

DivRoundUp(a, b) == (a + b - 1) \div b

\* Mutant: the stripe is not taken modulo the number of devices but one less.
ParityIdRaid5Off(s) == req.n - (s % (req.n - 1)) - 1

\* The device of stripe s that holds its parity: the one make_raid4_ops puts last,
\* or each in turn
ParityIdRaid4    == req.n - 1
ParityIdRaid5(s) == req.n - (s % req.n) - 1
ParityId(s) == IF req.level = "raid4" THEN ParityIdRaid4 ELSE ParityIdRaid5(s)

\* handlers_data_view: nr devices from the first, the one with parity skipped
DataView(skip, first, nr) ==
    [i \in 1..nr |-> IF first + i - 1 < skip THEN first + i - 1 ELSE first + i]

\* len units of the request, from unit from of it on, at off of device dev
Op(dev, off, from, len) == [dev |-> dev, off |-> off, from |-> from, len |-> len]

-----------------------------------------------------------------------------
(* The loops *)

More == done < req.len

\* One turn of the loop of raid0::backend::do_op
Raid0Step ==
    LET sz == Smaller(req.sz - strip_off, req.len - done) IN
    /\ req.level = "raid0" /\ More
    /\ ops' = ops \cup
         {Op(id % req.n, strip_off + (id \div req.n) * req.sz, done, sz)}
    /\ done' = done + sz /\ id' = id + 1 /\ strip_off' = 0
    /\ UNCHANGED <<req, at, part, chunk_sz, hs, parity>>

\* One turn of the loop of raid1::backend::process(rq): the devices take turns.
Raid1Read ==
    LET sz == Smaller(req.sz, req.len - done) IN
    /\ req.level = "raid1" /\ req.kind = "read" /\ More
    /\ ops' = ops \cup {Op(id, req.off + done, done, sz)}
    /\ done' = done + sz /\ id' = (id + 1) % req.n
    /\ UNCHANGED <<req, at, part, strip_off, chunk_sz, hs, parity>>

\* raid1::backend::process(wq): every device gets the whole write.
Raid1Write ==
    /\ req.level = "raid1" /\ req.kind = "write" /\ More
    /\ ops' = {Op(h, req.off, 0, req.len) : h \in 0..(req.n - 1)}
    /\ done' = req.len
    /\ UNCHANGED <<req, id, at, part, strip_off, chunk_sz, hs, parity>>

\* Mutant: a last strip that is touched only in part is left out.
StripNrDown(from, len) == (from + len) \div req.sz - from \div req.sz

\* The number of strips that len units from offset from of a stripe on touch
StripNr(from, len) == DivRoundUp(from + len, req.sz) - from \div req.sz

\* The head of the outer loop of data_read and of acceptor::process(wq), with
\* that of stripe_write: the part in one stripe and the devices it lies on
StripeBegin ==
    LET sz == Smaller(StripeDataSz - at, req.len - done) IN
    /\ req.level \in SP /\ More /\ hs = <<>>
    /\ chunk_sz' = sz /\ part' = done
    /\ strip_off' = at % req.sz
    /\ hs' = DataView(ParityId(id), at \div req.sz, StripNr(at, sz))
    /\ UNCHANGED <<req, done, id, at, ops, parity>>

\* Mutant: the data is XORed in from the start of the parity on.
ParityToUnshifted(plen, start, dlen) ==
    [j \in 0..(plen - 1) |-> {i \in 0..(dlen - 1) : i % plen = j}]

\* parity_to: which of dlen units of data are XORed into each of plen units of
\* parity.  From start to the end of the parity first, then whole rounds from
\* its beginning, then what is left.
ParityTo(plen, start, dlen) ==
    LET first == start % plen
        head  == IF first = 0 THEN 0 ELSE Smaller(dlen, plen - first)
        into(b, len) == [j \in 0..(plen - 1) |-> IF j < len THEN {b + j} ELSE {}]
        rounds[b \in 0..dlen] ==
            IF dlen - b < plen THEN into(b, dlen - b)
            ELSE [j \in 0..(plen - 1) |-> into(b, plen)[j] \cup rounds[b + plen][j]]
    IN [j \in 0..(plen - 1) |->
          (IF j - first \in 0..(head - 1) THEN {j - first} ELSE {})
          \cup rounds[head][j]]

\* The parity strip of stripe id, written after the last data subquery of the
\* part: what of the request is XORed into each unit of it.  parity_renew is the
\* case of a part that is the whole stripe.
ParityWrite(from, len) ==
    [dev |-> ParityId(id), off |-> id * req.sz, from |-> from, len |-> len,
     xor |-> ParityTo(req.sz, at % req.sz, len)]

\* One turn of the inner loop of data_read and of stripe_write.  After the last
\* turn a write writes the parity, and the outer loop turns.
StripStep ==
    LET sz   == Smaller(req.sz - strip_off, chunk_sz)
        last == Len(hs) = 1
    IN
    /\ req.level \in SP /\ hs # <<>>
    /\ ops' = ops \cup {Op(Head(hs), id * req.sz + strip_off, done, sz)}
    /\ done' = done + sz /\ chunk_sz' = chunk_sz - sz
    /\ strip_off' = 0
    /\ hs' = Tail(hs)
    /\ at' = IF last THEN 0 ELSE at
    /\ id' = IF last THEN id + 1 ELSE id
    /\ parity' = IF last /\ req.kind = "write"
                 THEN parity \cup {ParityWrite(part, done + sz - part)}
                 ELSE parity
    /\ UNCHANGED <<req, part>>

-----------------------------------------------------------------------------
\* Requests to the targets that make_raid0_ops to make_raid5_ops build, of devices
\* in the order they are given
Requests ==
    [level : Levels, n : Devices, sz : StripSizes, kind : {"read", "write"},
     off : 0..MaxOffset, len : 1..MaxLength]

Init ==
    /\ req \in Requests
    /\ id \in CASE req.level = "raid0" -> {req.off \div req.sz}
                [] req.level = "raid1" -> 0..(req.n - 1)
                [] OTHER               -> {req.off \div StripeDataSz}
    /\ at = IF req.level \in SP THEN req.off % StripeDataSz ELSE 0
    /\ strip_off = IF req.level = "raid0" THEN req.off % req.sz ELSE 0
    /\ done = 0 /\ part = 0 /\ chunk_sz = 0
    /\ hs = <<>> /\ ops = {} /\ parity = {}

Next == Raid0Step \/ Raid1Read \/ Raid1Write \/ StripeBegin \/ StripStep

Spec == Init /\ [][Next]_vars

-----------------------------------------------------------------------------
(* Properties *)

Units(o) == o.from .. (o.from + o.len - 1)
MaxAddress == MaxOffset + MaxLength

\* Types; a conjunct of Covered
Typed ==
    /\ req \in Requests
    /\ done \in 0..req.len /\ part \in 0..req.len
    /\ id \in Nat
    /\ at \in 0..(StripeDataSz - 1)
    /\ strip_off \in 0..(req.sz - 1)
    /\ chunk_sz \in 0..StripeDataSz
    /\ hs \in Seq(0..(req.n - 1))
    /\ \A o \in ops : o.dev \in 0..(req.n - 1) /\ o.off \in Nat /\ o.len > 0
    /\ \A p \in parity : p.dev \in 0..(req.n - 1)

\* The layout the RAID levels promise, as an order instead of an address
\* computation: data is laid out stripe by stripe, in a stripe device by device
\* without the one with the parity, on a device unit by unit.
ParityDevice(level, n, stripe) ==
    CASE level = "raid4" -> n - 1
      [] level = "raid5" -> CHOOSE d \in 0..(n - 1) : (stripe + d + 1) % n = 0
      [] OTHER -> n
Locations(level, n, sz) ==
    {l \in (0..(n - 1)) \X (0..MaxAddress) :
        l[1] # ParityDevice(level, n, l[2] \div sz)}
Before(sz, l, m) ==
    \/ l[2] \div sz < m[2] \div sz
    \/ l[2] \div sz = m[2] \div sz /\ l[1] < m[1]
    \/ l[2] \div sz = m[2] \div sz /\ l[1] = m[1] /\ l[2] < m[2]
AddressOf ==
    [c \in (Levels \ {"raid1"}) \X Devices \X StripSizes |->
        [l \in Locations(c[1], c[2], c[3]) |->
            Cardinality({m \in Locations(c[1], c[2], c[3]) : Before(c[3], m, l)})]]

\* Every unit is put where the layout has its address, whatever request it
\* comes with: what one request writes, another that starts or ends elsewhere
\* reads.  For RAID1 the address is the offset on each device.
Placed ==
    \A o \in ops : \A k \in Units(o) :
        LET l == <<o.dev, o.off + k - o.from>> IN
        IF req.level = "raid1" THEN l[2] = req.off + k
        ELSE /\ l \in DOMAIN AddressOf[<<req.level, req.n, req.sz>>]
             /\ AddressOf[<<req.level, req.n, req.sz>>][l] = req.off + k

\* The subqueries submitted cover what the loop counted as submitted, each unit
\* once, a RAID1 write each unit once on every device; when a stripe ends
\* nothing of its part is left (Ensures(0 == chunk_sz)).
Covered ==
    /\ Typed
    /\ \A k \in 0..(req.len - 1) :
          LET on == {o \in ops : k \in Units(o)} IN
          IF k >= done THEN on = {}
          ELSE IF req.level = "raid1" /\ req.kind = "write"
               THEN {o.dev : o \in on} = 0..(req.n - 1) /\ Cardinality(on) = req.n
               ELSE Cardinality(on) = 1
    /\ hs = <<>> => chunk_sz = 0

\* A write leaves a parity for every stripe it finished, and what is XORed into
\* a unit of it are exactly the units the write put at the same offset on the
\* other devices: losing one device loses no more than one of them.
ParityAligned ==
    /\ \A p \in parity : \A o \in ops : \A k \in Units(o) :
          k \in p.from..(p.from + p.len - 1) =>
            /\ o.dev # p.dev
            /\ \A j \in 0..(req.sz - 1) :
                  k - p.from \in p.xor[j] <=> o.off + k - o.from = p.off + j
    /\ req.level \in SP /\ req.kind = "write" /\ hs = <<>> =>
          \A k \in 0..(done - 1) :
             \E p \in parity : k \in p.from..(p.from + p.len - 1)

-----------------------------------------------------------------------------
(* The inductive invariant behind them *)

\* The devices of a stripe that hold data, and the address of unit off of device
\* dev, computed as the loops do
DataNr == IF req.level = "raid0" THEN req.n ELSE req.n - 1
Skipped(off) == ParityDevice(req.level, req.n, off \div req.sz)
Address(dev, off) ==
    LET d == IF dev < Skipped(off) THEN dev ELSE dev - 1 IN
    ((off \div req.sz) * DataNr + d) * req.sz + (off % req.sz)

\* A subquery lies in a strip with data, at its address.
InPlace(o) ==
    IF req.level = "raid1" THEN o.off = req.off + o.from
    ELSE /\ o.dev # Skipped(o.off)
         /\ (o.off % req.sz) + o.len <= req.sz
         /\ Address(o.dev, o.off) = req.off + o.from

OpsInv ==
    \A o \in ops :
       /\ o \in [dev : 0..(req.n - 1), off : Nat, from : Nat, len : Nat \ {0}]
       /\ o.from + o.len <= done
       /\ InPlace(o)

\* The subqueries share no unit and leave none out.
OnceInv ==
    /\ \A k \in 0..(done - 1) : \E o \in ops : k \in Units(o)
    /\ IF req.level = "raid1" /\ req.kind = "write"
       THEN \/ done = 0 /\ ops = {}
            \/ /\ done = req.len
               /\ ops = {Op(h, req.off, 0, req.len) : h \in 0..(req.n - 1)}
       ELSE \A o, p \in ops : Units(o) \cap Units(p) # {} => o = p

\* How far the loop over the stripes has come: between two of them, and in one,
\* where the devices left are those that what is left lies on
LoopInv ==
    /\ req.level = "raid0" /\ More => id * req.sz + strip_off = req.off + done
    /\ req.level = "raid1" => id < req.n
    /\ hs = <<>> => chunk_sz = 0
    /\ hs = <<>> /\ req.level \in SP /\ More =>
          id * StripeDataSz + at = req.off + done
    /\ hs # <<>> =>
          LET in == at + done - part IN
          /\ req.level \in SP /\ part <= done
          /\ id * StripeDataSz + at = req.off + part
          /\ chunk_sz > 0 /\ done + chunk_sz <= req.len
          /\ in + chunk_sz <= StripeDataSz
          /\ in + chunk_sz = StripeDataSz \/ done + chunk_sz = req.len
          /\ strip_off = in % req.sz
          /\ hs = DataView(ParityId(id), in \div req.sz, StripNr(in, chunk_sz))

\* A parity strip is the one of the stripe that the part it was written for lies in.
InStripe(p) ==
    LET s == p.off \div req.sz
        a == req.off + p.from - s * StripeDataSz
    IN
    /\ req.level \in SP
    /\ p.from \in Nat /\ p.len \in Nat \ {0}
    /\ p.off \in Nat /\ p.off = s * req.sz /\ p.dev = ParityId(s)
    /\ a >= 0 /\ a + p.len <= StripeDataSz
    /\ p.xor = ParityTo(req.sz, a % req.sz, p.len)

\* The stripes left behind have their parity.
ParityInv ==
    /\ \A p \in parity : InStripe(p)
    /\ req.level \in SP /\ req.kind = "write" =>
          \A k \in 0..((IF hs = <<>> THEN done ELSE part) - 1) :
             \E p \in parity : k \in p.from..(p.from + p.len - 1)

IInv == Typed /\ OpsInv /\ OnceInv /\ LoopInv /\ ParityInv
=============================================================================
