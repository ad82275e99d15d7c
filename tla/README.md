# A TLA+ development for ublk

ublk serves Linux block devices from user space. A kernel driver (not part of
the repository) passes commands to a *slave* process through shared memory; the
slave runs them against a *target*: a file, memory, or a RAID built of files,
with or without a cache. A *master* process creates targets and forks a slave
for each block device.

The modules here model what decides whether data survives: the RAID4/RAID5
write path, RAID0, RAID1 and RAID10 over files, the caches, the layout of
requests on the devices, the rings shared with the driver, the way of a command
from the driver to its acknowledgement, and the life of targets, block devices
and slaves. TLC checks them on small instances; TLAPS proves the safety properties
of all of them for instances of any size. Four places where the code does not do
what the repository says of it are under Findings.

## Inventory

| component | state it keeps | operations | what makes it correct |
|---|---|---|---|
| raidsp engine (`ublk/raidsp`) | locked stripes, coherency flags, pending writes, state machine | write of a range, read, completions of device reads and writes | one write per stripe; a stripe called coherent has its parity; what was answered with success is on the devices; every write is answered |
| RAID4, RAID5 targets | none of their own | where the parity of a stripe lies | data never lies on the parity strip; every address has one place |
| RAID0, RAID1 targets | state machine, RAID1 the device to read next | cut a request, fan it out, read mirrors in turns | pieces cover the request once, each at its place; mirrors hold what was answered, whatever the order of writes on them; an error takes offline the nodes it happened in |
| `flat_lru` | sorted entries with an age | find, update, invalidate, invalidate a range | a sorted map that forgets the least recently used, and nothing else |
| cache handlers (`RWIHandler`, `RWTHandler`) | cache, sequence number of writes, RWT also chunk locks and pending writes | read, write, completions | nothing stale is cached or returned; every request is answered |
| queries and requests | error, completer | completion with the last reference | an error of a part is an error of the whole; answered once |
| rings (`ublk/cfq`) | items, head, tail | push, pop | a FIFO, although the sides run concurrently |
| command path (`handler.cpp`, `cmd_*`) | counters of announcements, posted commands | read announcements, pop, handle, acknowledge | every command is popped once and acknowledged once |
| default target | a file | asynchronous read and write, resize at the end of the file, fsync | a read fills its buffer; what was answered stays, also when the file grows; what was flushed survives a loss of power |
| in-memory and null targets | memory; nothing | read and write at once | refuses what does not fit |
| master, slave | targets by name, children by pid, threads that wait for them | create, destroy, map, unmap, exit; find the device, serve it, end | a target is kept while it is used; no child is left behind; what is unmapped is released |
| `ublksh` | none | binds the operations of the master | (in `Lifecycle`: any order of them) |
| memory pools | free chunks | get and put | not modelled |

Interaction. All of a slave runs on one thread and one `io_context`: handlers are
atomic, and what interleaves is the order in which devices complete operations.
Components call each other by `submit`/`process`; answers come back through the
completer a query runs in its destructor, so "the last reference goes" is the
event everything waits for. `submit` may also fail by its return value. The
driver shares memory with the slave and runs concurrently with it. RAIDs nest
(RAID10, 40, 50 are RAID0 over the others); a cache may sit over any target.

What is hard here: completions in any order; pending writes handed over inside a
completer; errors that come back in two ways; state that a handler read two
device operations ago; a process that dies between data and parity or between
mirrors; counters, positions and pids that wrap; processes that look each other
up by name. `PROJECT.json` lists these hazards line by line.

## Modules

| module | models | state and actions |
|---|---|---|
| `RaidSP` | `raidsp/acceptor`, `backend`, `target`, `fsm` | variables keep the names of the members; `Write` is `acceptor::process(wq)` with the loop over the stripes, `Process` is `process(stripe_id, wq)`, the `...Done` actions are the completers, `Finish` is the completer that hands a stripe over, `Restart` is the death of the process |
| `RaidSPProofs` | | proofs about `RaidSP`: locks, parity, the work in a stripe, and what clients may rely on |
| `RaidLayout` | loops of the RAID backends, `parity_to` | one step per subquery |
| `RaidLayoutProofs` | | proofs about `RaidLayout`, and what `parity_to` computes |
| `FlatLRU` | `flat_lru` | one action per operation, the rotation of the vector included; `uses` is a history variable, the order in which keys were used |
| `FlatLRUProofs` | | proofs about `FlatLRU`, the refinement of `LossyMap` included |
| `LossyMap` | what the handlers may rely on in a cache | abstract specification that `FlatLRU` implements |
| `CacheRW` | `RWIHandler`, `RWTHandler` | over a device or a RAID that goes offline; uses the cache as `LossyMap` describes it; `Turns` is the loop of `RWTHandler::submit` over the chunks of a write |
| `CacheRWProofs` | | proofs about `CacheRW` |
| `Cfq` | `cfq::pusher`, `cfq::popper` | push and pop in three steps each |
| `Channel` | a bounded FIFO | abstract specification that `Cfq` implements |
| `CfqProofs` | | proofs about `Cfq`, the refinement included |
| `CmdPath` | `handler.cpp`, `CmdHandler`, the handlers of the operations, `CmdAcknowledger` | the rings are the FIFOs of `Channel` |
| `CmdPathProofs` | | proofs about `CmdPath` |
| `DefTarget` | `def::Target` | what one system call does to a file, as operators |
| `TargetStack` | the stacks `Master::create` builds without parity: `raid0`, `raid1`, `inmem`, `null`, the flush composite | composes `DefTarget` into files, mirrors and groups; `offline` has the nodes whose state machine left `online`; `SubmitWrite` and `SubmitRead` go down the whole stack, `WriteDone`, `ReadDone`, `ReadShort` and `Fail` are the handlers of the file operations, with the completers up the stack |
| `TargetStackProofs` | | proofs about `TargetStack` and the file operations of `DefTarget` |
| `Lifecycle` | `Master`, `slave::run`, the thread of `map()`, the bindings and the end of `ublksh` | `targets`, `children` are the members; `proc` is the kernel's table of children, `bdev` the driver's devices; one action per operation, three for `~Master`, which waits |
| `LifecycleProofs` | | proofs about `Lifecycle` |
| `MC...` | | the instances TLC checks |

Data is kept symbolic. In `RaidSP` a cell's content is the write that put it
there, and parity is the set of `<<cell, content>>` pairs XORed into it, for
which XOR is symmetric difference. This loses no cases: real XOR satisfies every
law used, and two different symbolic parities can be told apart by some data.
In `CacheRW` a buffer from the pool holds `Junk` until it is filled.

Operators named as mutants ("Mutant: ...") are plausible bugs of the operator
below them. They are not used by any specification; they exist to show that each
property notices when the operator is replaced.

## Runs

| run | result | what it shows |
|---|---|---|
| `RaidSP` | holds | three overlapping writes of parts of strips on two stripes, or two with a read, two errors or a restart at any point; every order of answers; the inductive invariant; every write is answered |
| `RaidLayout` | holds | every request of 1 to 14 units at offset 0 to 14, four RAID levels, 3 and 4 devices, strips of 1, 2, 4 |
| `FlatLRU` | holds | all sequences of operations on four keys in a cache of three |
| `FlatLRU_silent` | violated | finding 1 |
| `CacheRW` | holds | two writes and a read of two chunks, or a write and two reads, eviction, one error; both handlers, over a device and over a RAID that may go offline; every request is answered |
| `CacheRW_unlock` | violated | finding 2 |
| `Cfq` | holds | a ring of four slots, wrapping for ever |
| `CmdPath` | holds | six commands of all kinds, counters that wrap, rings that fill up |
| `TargetStack` | holds | file, RAID0, RAID1, RAID10, memory and null; two overlapping writes, a read, one error, or a flush and a crash; files empty or full; what finding 4 loses is excepted |
| `TargetStack_refused` | violated | finding 3 |
| `TargetStack_cut` | violated | finding 4: a RAID0 on files that grow loses an answered write |
| `Lifecycle` | holds | three targets of two names, four calls of `map`, two pids, devices that follow each other under one name |

Bounds. `RaidSP`: two stripes are the least with a write that crosses; two data
strips the least where a partial write leaves a strip alone, two cells in one of
them for writes that share a strip; three writes give a lock two waiters; one
error per life suffices to take the target offline, two let data and parity fail
together. `Bounded` in `MCRaidSP`, `MCCacheRW` and `MCTargetStack` says which of these a
behaviour may combine, which keeps the instances small: a third write does not
meet a read, a second error or a restart, a read does not meet a second error,
in `CacheRW` a second read does not meet a second write, and in `TargetStack` a
second write does not meet a flush or a crash.
`RaidLayout`: 14 units are more than three stripes of the smaller layouts and
cover every alignment modulo strip and stripe. `FlatLRU`: with three entries one
can be newest, oldest and in between; four keys force evictions on both sides of
a key. `CacheRW`: a write of a part, and one that covers a chunk and reaches into
the next. `Cfq`: four slots allow any distance of the positions, including the
full ring, at every wrap. `CmdPath`: six commands pass a counter modulo 3, with
up to two unread. `TargetStack`: two groups of two mirrors, strips of two cells
and three strips, so that a write crosses groups and comes to the second stripe;
files of no length and of full length; at most five operations in flight.
`Lifecycle`: two children at once, and each pid used again while its old entry is
still in `children_`, take four calls of `map`; one device name, since devices of
different names do not meet. Requests are finite, so the models stop when all is
done, and deadlock is checked only in `Cfq`, which never stops; that nothing stops
too early is what `WritesAnswered`, `RequestsAnswered`, `Answered` and `Released`
say.

Fairness. `RaidSP`, `CacheRW`: weak fairness of completions (in `CacheRW` of the
operations' execution, too), since a device answers every operation it has taken, with success or not; no client has to send
anything. `CmdPath`: the event loop runs what is ready, and the driver takes
acknowledgements and finishes queueing what it has announced. `Cfq`: the popper
tries again (`handler.cpp` spins) and a published position is seen in the end.
`TargetStack`: the files carry out what was submitted; nobody has to submit.
`Lifecycle`: the master goes on with its destructor, every slave and every
waiting thread with what it can do; a user need not do anything, and a second
shell need not end.

## Proofs

Every theorem holds for any value of the constants that satisfies the assumptions
named in the module: any number of requests, devices, cells, keys, pids and so on,
and any bounds. The assumptions say what the sets are (finite where something is
counted, disjoint where a marker must not be mistaken for a value) and nothing
about sizes, but for these: a ring has two slots at least (`Cfq`), the counters of
the command path are wider than the ring they count (`CmdPath`, 32 bits in the
code), a cache has room for one entry, a stack has a cell to store and a RAID1 two
mirrors (`TargetStack`). Each module has one inductive invariant, `IInv`, in the
component's module beside the properties; the proofs have one lemma per action that
shows that the action keeps it, and `NextIInv` (`NextKeeps` in `TargetStackProofs`)
collects them. The invariants were checked with TLC before they were proved.

`RaidSPProofs`, first part (`WorkInv`, the part of `IInv` about locks, parity and the
work in a stripe):

- `WorkInvariance`: `Spec => []WorkInv`;
- `TypeCorrect`, `Exclusion`, `LockDiscipline`: types, `StripeExclusive`, `LockHeld`;
- `ParityIsCoherent`: `Spec => []CoherentParity`.

`CoherentParity` alone is not inductive: it says nothing of a stripe while a
write works in it. `WorkInv` adds what each phase of a write knows. `StripeInv`:
the cells read so far equal those on the devices; the parity to be written is the
one the stripe will have when all cells are in place; what was answered with
success is in place; an idle coherent stripe has its parity. That needs that no
second write is in the stripe (`LockInv`), which needs that the queue and the
phases agree when a stripe is handed over (`PendingInv`), and that only touched
stripes of busy writes are worked on (`BusyInv`). The step from old parity to new
one is `ParityToIsRenewal`: XORing old and new data of some cells into the parity
of a stripe gives the parity of the changed stripe.

`RaidSPProofs`, second part (`IInv`, that is `WorkInv` with `AnswerInv`, about
clients):

- `Invariance`: `Spec => []IInv`;
- `WritesDurable`: a write answered with success is on the devices, unless
  something newer is;
- `ReadsFresh`: a read answered with success has nothing older than what was
  answered before it was submitted;
- `ErrorsNotLost`: an error of a device reaches the state machine.

A write is answered when its last part ends, so durability of answered writes says
nothing of a write half done: `WrittenInv` follows each part from its end on, and
must survive later writes of the same cells, which is why `BeforeInv` is there (a
write that comes later does not count as older). `GotInv` says the same of every
cell a read has brought so far, and that a cell is still asked for or brought.
`ErrorInv` says who carries an error that the state machine has not seen: the flags
of a part at work, or the request it belongs to. `PartGoesOn` and `PartEnds` reduce
what an answer from a device does to a part to two cases, as a client sees it.

`CfqProofs`:

- `RingInvariance`: what a side saw of the other is behind where that is, and
  what it concluded from it holds until it has acted;
- `NoOverwrite`: no slot is written while it is read;
- `RingIsFifo`: `Spec => ImplementsFifo`, the ring implements `Channel` with one
  item less than it has slots. Contents are the items from head round to tail;
  publishing the tail sends, publishing the head receives, every other step
  changes nothing.

`FlatLRUProofs`:

- `StaysSorted`: keys stay sorted and unique in the vector, whatever is rotated;
- `StaysGone`: what was invalidated is not found until it is stored again;
- `LeastRecentGoes`: an entry lost without being invalidated was used before all
  that stay, which is an action property (`EvictsLeastRecent`);
- `Implements`: `Spec => ImplementsContract`, the refinement of `LossyMap`.

The ages in `refs` mean nothing by themselves; `RankInv` ties them to the history
of uses, kept as a relation of keys (who was used no later than whom), of which
`UsesInv` says that it is antisymmetric. `touch()` keeps the tie since it ages exactly the
entries used after the one touched. `std::lower_bound` is defined by what it
returns, the first entry not less than the key; that there is one comes from
`LeastNatural`, the least element of a set of numbers, and not from the search
itself, which is the library's.

`CacheRWProofs`:

- `Invariance`: `Spec => []IInv`; `TypeCorrect`: types;
- `ChunksLocked`: the write-through cache has one write at most at work in a
  chunk, exactly when the chunk is locked, and waiters only in locked chunks;
- `CacheIsCoherent`: what is cached is what is below, but for what a write at work
  replaces;
- `ReadsFresh`, `WritesDurable`: as for the RAID, over a cache.

The argument comes in three layers. Control (`PartInv`, `LockInv`, `AnswerInv`):
which parts are at work, which wait, and who is answered. Contents (`DevInv`,
`ThroughInv`, `CacheInv`): what has landed below is not older than the write that
landed; the buffer of a read-modify-write agrees with the device where it has been
read, and its chunk is not cached meanwhile; what is cached is as new as what
landed. Reads (`ReadInv`, `GotInv`): a read that no write met holds what the device
holds; one that was met by a write of `RWIHandler` still does as long as the
sequence number it started with is the last one, but where a write is at work. The
last clause is what makes it safe to put the buffer into the cache, and what the
check of `last_wq_done_seq_` is for. `RWTHandler::submit` walks over the chunks of a
write, and a turn may free chunks or start waiting writes; the states the turns
may leave are a recursive function of their number (`Turns`). `TurnsSolvable` shows
that there is such a function, by way of the least turn at which there would be
none, and `Turned` is the invariant of the loop. When the last chunk is done, it
gives the invariant of the step. `FinishIs` does the same for the end of a part,
which frees the chunk, hands it over, or ends the process (finding 2).

`CmdPathProofs`:

- `CountersRight`: the counters of driver and process agree modulo their width,
  and what the process concludes from their difference is right;
- `Acknowledged`: a command is acknowledged once, when handled, also when the ring
  of acknowledgements is full;
- `Truthful`: an acknowledgement without error means that no query is under way
  and none completed with an error.

The counters wrap, so their difference says how many commands were announced only
while fewer are under way than a counter can hold: `RoomInv` bounds how far the
driver may be ahead by the ring, and the assumption `W > RingCap` does the rest
(lemmas on remainders: `DivMod`, `ModUnique`). `OrderInv`: the ring holds the
commands that follow the last one popped, in order, and posted commands are
different ones without a request yet, so that none is handled twice. `RequestInv`:
a request lives exactly while a query holds it. "Acknowledged once" is a statement
about positions in what was sent, wherever it is (taken by the driver, in the ring,
or waiting for room), so that moving it along changes nothing (`MovesKeep`).

`LifecycleProofs`:

- `TypeCorrect`: types;
- `TargetsKept`: the target of a child is there as long as the child is, and one
  thread waits for it;
- `NoneOrphaned`: no child is left when the master has left in an orderly way.

The properties follow from what relates three places that are changed at different
times (`WaitInv`): a child of a living master has a thread that waits for it, an
entry in `children_` and a target with a name. `destroy()` tests the number of
references, which the shared pointers count and the model gets by counting threads;
`NoReferencesLeft` turns the number back into "nobody", for which the set of pids
must be finite.

`RaidLayoutProofs`:

- `LoopsCover`: the subqueries have every unit of the request once (`Covered`);
- `UnitsPlaced`: every unit lies where the layout counts its address out
  (`Placed`), so that requests that cut the same data differently find it;
- `ParityCovers`: a unit of parity gets exactly the units at the same offset on
  other devices, and no finished stripe of a write is without (`ParityAligned`).

`LoopInv` says where the loops are: between two stripes the number of the stripe and
the offset in it make up the address reached, and in one the devices left are those
that the rest of the part lies on. `NextStrip` is why that is kept: a part that goes
on after a strip does so at the beginning of the next one, with one strip less to
go. `StripPlace` shows that the next subquery is at its address (`InPlace`).
`ParityInv` keeps of each parity strip the stripe it was written for. The order of
the layout that `Placed` counts in has no formula, so the count needs a bijection:
`PlaceOrder` shows that places are in the order of their addresses
(a multiple and a remainder are ordered lexicographically), `PlaceOnto` that each
has one, and so the places before the one with address a are as many as the
numbers below a (`PlaceCount`). `ParityToIs` is the closed form of `parity_to`: unit
i goes to (start + i) modulo the size of the parity. It is found from the last round
that XORs something else: the rounds after it do what they should, and one round
more does then, too (`RoundsAre`). Products of variables are beyond most of the
solver's arithmetic; the lemmas on division at the beginning are the ones it needs.

`TargetStackProofs`:

- `Invariance`: `Spec => []IInv`; `TypeCorrect`: types;
- `MirrorsAreHeld`: a write that was carried out and answered with success is on
  every mirror, or something no older is, but for what is in `cut`;
- `FlushesHold`: what was answered before a flush without error is stable on every
  file of the stack, so a loss of power does not take it, but for what is in `cut`;
- `ReadsAreFresh`: a read has all its cells, each from its own place and as new as
  what was answered before the read was sent, but for writes in `cut`;
- `LongFilesLoseNothing`: on files that are long enough from the start, every
  answered write stays, without exception (`WritesStay`);
- `FaultsAreContained`: only nodes in which an error happened go offline, and they
  do when nothing is under way in them.

They hold for any number of groups, mirrors, cells and requests and any length of the
strips and of the strips RAID1 reads in turns.

On files that have to grow the code loses answered writes (finding 4), so the first
three cannot hold there as they stand. What they except is the triples `<<write,
cell, mirror>>` in `cut`, and no more. When the handler of a short read truncates its
file, `CutBy` puts in `cut` the writes that were executed in the cells that go
(`Dropped`), on that mirror, and that had not been answered when the read was sent.
So the theorems do say, of files of any initial length: what was answered before a
read is sent, that read does not cut off (it would not have been short; this is
`ShortFit`, a part of the invariant); the truncation touches no other mirror and no
other file; and a write executed after it is on the file. `LongFilesLoseNothing` adds
that the exception is needed only there: from `Long(file)` follows that no read is
short (`LongRead`), that no step makes a file shorter (`LongStep`), and that `cut`
stays empty.

A write is done when its last operation is, so the properties say nothing until
then; `WriteInv` follows it from the start: on each mirror each of its cells is in
place, or the operation that will put it there is still to be executed (`Pending`).
When no operation is left, what remains is `MirrorsHold`. `ReadInv` says the same of
a read, with cells asked for (`Asked`) and cells brought (`Got`); what it has must
stay fresh while later writes are answered, which is `ReqInv`: a request knows what
was answered when it was sent, and that does not change. A short read resizes the
file and asks again for what is missing, so `OpFit` speaks of the part of the answer
that is there. `FaultInv` says who carries an error that a node has not heard of: an
operation of the same part for a RAID1, of the same request for the RAID0.

Below that are three groups of lemmas. On the layout: no two cells have one place
(`PlaceInjective`), and a strip is a run of places in one file (`PlaceRun`,
`PartRun`), so that an operation, which has one offset and a length, is for the cells
it should be (`Located`, `DataInv`). On the operations: the chunks into which RAID1
cuts a part cover it, and none of them is empty (`ChunksAre`, `ReadOpsAre`). On
files: what a write, a resize and a read do at each position (`WrittenIs`,
`ResizedIs`, `ReadAtIs`). Each conjunct of `IInv` then has a lemma that says what a
step may do without disturbing it (`ReqInvKept`, ..., `FaultInvKept`), and each
action is shown to do no more: a file either gets cells of a write that is not
answered yet or, in `ReadShort`, loses cells of writes that were not answered when the
read was sent, which `cut` remembers. `ReadShortKeeps` and `RestartKeeps`
are the cases where cells are lost, by a resize or by the loss of what is not stable.

Only model-checked: everything under fairness (`WritesAnswered`, `RequestsAnswered`,
`Answered`, `Drains`, `Released`), which is out of the prover's reach.

## Findings

1. `FlatLRU_silent` (`flat_lru.hpp:217`). In a full cache with an invalidated
   entry, storing a key into that entry's slot ages all valid entries, and the
   oldest of them becomes invalid although a slot was free and nothing is
   returned as evicted. A unit test expects that nothing is evicted there. The
   handlers lose a cached chunk, no data: `ImplementsContract` still holds.
2. `CacheRW_unlock` (`rwt_handler.cpp:112`). A write-through cache over a RAID: a
   write fails and takes the RAID offline while another write waits for the
   chunk. The waiting write is refused, its own completer unlocks the chunk, and
   the loop it ran in unlocks it again, which `Expects` in `bitset_locker`
   forbids; the process terminates.
3. `TargetStack_refused` (`cmd_write_handler_adaptor.hpp:63`). A RAID that an error
   took offline refuses requests with `EIO` as the return value of `process()`,
   which its unit tests check; the query itself has no error. The adaptors drop
   the value, so the next write is acknowledged to the kernel with success and
   nothing is written, and a read returns what the buffer held.
4. `TargetStack_cut` (`def/target.cpp:42`). The readme builds a RAID0 "upon
   extendible files on backend" (`readme.md:150`): the master creates the files empty
   (`master.cpp:105`), and the device is written and read in full. A read that meets
   the end of a file calls `ftruncate64` with the end of that read as the size. The
   call is made in the handler, after the read came back short, and does not look at
   the size the file has by then. A write further on in the same file may have been
   executed and answered in between; its cells are cut off, and read as zeros from
   then on. The trace has nine states: a read, a write to a later stripe of the same
   file, no error, no crash. On files of full length it cannot happen
   (`LongFilesLoseNothing`).

## Limits

- `CacheCoherent` and `ReadFresh` of `CacheRW` leave out, for the write-through
  handler, a chunk that comes from a read which met a write of the same chunk. A
  write-through hit does not advance `last_wq_done_seq_`, so a read in flight puts
  old content back into the cache. Without the exclusion TLC shows it; nothing in
  the repository says what readers may expect there. The properties so say nothing
  of this hazard (`rwt_handler.cpp:42` in `PROJECT.json`).
- They, and `AckedWriteDurable` of `CacheRW`, hold while the target below is
  online. A refused query completes without an error, so an offline RAID answers
  reads with buffers nobody filled and writes with success.
- `AckTruthful` of `CmdPath` covers errors that queries complete with; errors that
  only `submit` returns (an offline RAID, a failed `fsync`) are dropped by the
  adaptors and acknowledged as success, which the model does too.
- `MirrorsHold`, `ReadFresh` and `FlushedStable` of `TargetStack` speak of requests
  that were carried out (finding 3 is about the others) and leave out, for each cell
  and mirror, the writes that finding 4 may have taken: those executed there, and not
  answered when the read was sent whose handler then cut the file
  (`def/target.cpp:41-43`). A read that comes later is excused for these writes too,
  whichever mirror it reads. Everything else is in the properties, other writes of
  the same cell and later cuts included. `RaidSP` and `CacheRW` are about devices that
  keep what they are given, so they do not hold for files that have to grow, except
  as far as finding 4 lets them.
- `Fits`, the check of `inmem::Target` against the size of its memory, is always true
  in a stack of the master, which gives the memory the capacity of the device. The
  branch is modelled and never taken.
- A request goes down a stack in one step and a file executes an operation in one
  step; parts of one `async_write_at` are not told apart.
- `Lifecycle`: a second shell (a slave that threw) is followed only to its end; it
  could also create and map. The kernel gives pids to children only, so a signal
  that hits a stranger is not seen. The threads return from `waitpid` and drop
  their reference in one step. Several slaves of one target are modelled, not the
  requests they serve: each has its own copy of locks, flags and caches, and
  nothing in the code keeps the copies together.
- RAID40 and RAID50 are RAID0 over the target of `RaidSP`; the two are modelled,
  not their composition.
- `RaidSP` assumes devices that take every submit, which holds for the targets
  the master builds (`def::Target`).
- `Cfq` takes the relaxed load of the head as it is on hardware that does not
  move a store before a load it depends on.
- The driver is external: it queues what it has room for, as far as it knows from
  the counts reported, and announces a command around the time it queues it.

Not modelled: memory pools (a chunk is free or has one owner, which the pointer
types of the code enforce; that a buffer's content is unknown is in `CacheRW`);
how `ublksh` parses commands; the maps of the driver's memory, beyond their being
there; formatting and logging.

## Plan

Done: `RaidSP`, `FlatLRU` with `LossyMap`, `CacheRW`, `Cfq` with `Channel`,
`CmdPath`, `Lifecycle`, `RaidLayout`, and `TargetStack` with `DefTarget`, each with
its proofs.

Worth adding: RAID40 and RAID50 through an abstract target that `RaidSP` and
`TargetStack` both implement; `CacheRW` over the same; two slaves of one target.
