------------------------------ MODULE Lifecycle -----------------------------
(***************************************************************************)
(* The master process, its targets and the slaves it forks.                *)
(*                                                                         *)
(* The shell calls the master, one operation at a time.  map() asks the    *)
(* driver for a block device, forks a slave and starts a thread that waits *)
(* for the slave with a reference to the target; destroy() counts          *)
(* references.  The slave finds the device in /sys/block at some later     *)
(* time and serves it until the driver takes it away.  The answer of the   *)
(* driver is not looked at.                                                *)
(*                                                                         *)
(* A slave that does not find its device throws, out of map() and into     *)
(* the shell: the child is then a second shell, with a copy of the master, *)
(* and is called astray here.  What a second shell does is restricted to   *)
(* its end.                                                                *)
(*                                                                         *)
(* The kernel gives the pid of a child that was waited for to a later one. *)
(***************************************************************************)
EXTENDS Naturals, FiniteSets

CONSTANTS
    Names,          \* names of targets
    Suffixes,       \* suffixes of block devices
    Pids,           \* pids there are
    MaxTargets,     \* bound: targets created
    MaxMaps         \* bound: calls of map()

ASSUME BoundsAssumption == MaxTargets \in Nat /\ MaxMaps \in Nat
ASSUME SetsAssumption   == /\ IsFiniteSet(Pids) /\ 0 \notin Pids
                           /\ Names # {} /\ Suffixes # {} /\ Pids # {}

VARIABLES
    master,         \* what the master does, see MasterStates
    targets,        \* targets_: the target of each name, 0 for none
    children,       \* children_: the pids in it
    waiting,        \* the threads in waitpid: <<pid, target>>
    bdev,           \* the driver's block devices: 0 or the map() that made it
    proc,           \* the child that has a pid
    created, maps   \* targets created and calls of map() so far

vars == <<master, targets, children, waiting, bdev, proc, created, maps>>

\* The master has finished an operation; is in emplace or erase of a child's
\* future until that child is waited for; has returned from ~Master; has died.
MasterStates == [st : {"ready", "emplace", "dying", "erase", "gone", "dead"},
                 pid : Pids \cup {0}]
Busy(st, p) == [st |-> st, pid |-> p]
Ready == master.st = "ready"
Up    == master.st \notin {"gone", "dead"}

\* A child: what it is at, its device and target, the children_ it was forked with
\* and those of them a thread waited for then
NoProc == [st |-> "none", suf |-> "", tgt |-> 0, dev |-> 0, kids |-> {}, held |-> {}]
Ended(p) == [NoProc EXCEPT !.st = "zombie", !.tgt = proc[p].tgt]
Alive(p) == proc[p].st \in {"forked", "serving", "astray", "hung"}

-----------------------------------------------------------------------------
(* The operations of the shell *)

\* Master::create, unless the name is taken or a file cannot be opened
Create(n) ==
    /\ Ready /\ targets[n] = 0
    /\ created < MaxTargets /\ created' = created + 1
    /\ targets' = [targets EXCEPT ![n] = created']
    /\ UNCHANGED <<master, children, waiting, bdev, proc, maps>>

\* A contract of the targets fails in Master::create (a RAID1 of one file), or a
\* signal comes: the process dies with all its threads, its children do not.
MasterDies ==
    /\ Up /\ master' = Busy("dead", 0) /\ waiting' = {}
    /\ UNCHANGED <<targets, children, bdev, proc, created, maps>>

\* Mutant: the references are not looked at.
NoReferences(t) == 0

\* References to a target besides the one in targets_
References(t) == Cardinality({w \in waiting : w[2] = t})

\* Master::destroy; with references it throws.
Destroy(n) ==
    /\ Ready /\ targets[n] # 0 /\ References(targets[n]) = 0
    /\ targets' = [targets EXCEPT ![n] = 0]
    /\ UNCHANGED <<master, children, waiting, bdev, proc, created, maps>>

\* The driver is asked to create device s for the m-th map(): it does not if the
\* device is there, or if it cannot.
DeviceCreated(s, m) == {bdev} \cup (IF bdev[s] = 0 THEN {[bdev EXCEPT ![s] = m]} ELSE {})

\* Mutant: the child is forked with an empty children_.
ForkedBare(s, t) ==
    [st |-> "forked", suf |-> s, tgt |-> t, dev |-> 0, kids |-> {},
     held |-> {w[1] : w \in waiting}]

Forked(s, t) ==
    [st |-> "forked", suf |-> s, tgt |-> t, dev |-> 0, kids |-> children,
     held |-> {w[1] : w \in waiting}]

\* children_.emplace: if the pid of a child long gone is still in children_, the
\* new future is dropped, which waits for its thread.
Emplaced(p) ==
    /\ children' = children \cup {p}
    /\ master' = IF p \in children THEN Busy("emplace", p) ELSE master

\* Master::map, with the thread that holds a reference to the target
Map(n, s) ==
    /\ Ready /\ targets[n] # 0
    /\ maps < MaxMaps /\ maps' = maps + 1
    /\ bdev' \in DeviceCreated(s, maps')
    /\ \E p \in Pids :
          /\ proc[p].st = "none"
          /\ proc' = [proc EXCEPT ![p] = Forked(s, targets[n])]
          /\ waiting' = waiting \cup {<<p, targets[n]>>}
          /\ Emplaced(p)
    /\ UNCHANGED <<targets, created>>

\* Master::map, fork() fails: the device stays, with nobody to serve it.
MapFails(n, s) ==
    /\ Ready /\ targets[n] # 0
    /\ maps < MaxMaps /\ maps' = maps + 1
    /\ bdev' \in DeviceCreated(s, maps')
    /\ UNCHANGED <<master, targets, children, waiting, proc, created>>

\* Master::unmap, of this shell or another one
Unmap(s) ==
    /\ bdev[s] # 0 /\ bdev' = [bdev EXCEPT ![s] = 0]
    /\ UNCHANGED <<master, targets, children, waiting, proc, created, maps>>

-----------------------------------------------------------------------------
(* ~Master *)

\* The children when the pids in ks are sent SIGTERM, which ends a slave or a shell
Signalled(ks) ==
    [p \in Pids |-> IF p \in ks /\ Alive(p) THEN Ended(p) ELSE proc[p]]

\* The script of the shell ends, also by an exception, and main returns.
Quit ==
    /\ Ready /\ master' = Busy("dying", 0)
    /\ UNCHANGED <<targets, children, waiting, bdev, proc, created, maps>>

\* Mutant: a child is forgotten once it was signalled.
KillAndForget(k) ==
    /\ master.st = "dying" /\ k \in children
    /\ proc' = Signalled({k})
    /\ children' = children \ {k}
    /\ UNCHANGED <<master, targets, waiting, bdev, created, maps>>

\* One child is signalled and its future erased, which waits for its thread.
KillChild(k) ==
    /\ master.st = "dying" /\ k \in children
    /\ proc' = Signalled({k})
    /\ master' = Busy("erase", k)
    /\ UNCHANGED <<targets, children, waiting, bdev, created, maps>>

\* The thread that emplace or erase waited for has returned.
Joined ==
    LET p == master.pid IN
    /\ master.st \in {"emplace", "erase"} /\ \A w \in waiting : w[1] # p
    /\ IF master.st = "emplace"
       THEN master' = Busy("ready", 0) /\ children' = children
       ELSE master' = Busy("dying", 0) /\ children' = children \ {p}
    /\ UNCHANGED <<targets, waiting, bdev, proc, created, maps>>

MasterGone ==
    /\ master.st = "dying" /\ children = {} /\ master' = Busy("gone", 0)
    /\ targets' = [n \in Names |-> 0]
    /\ UNCHANGED <<children, waiting, bdev, proc, created, maps>>

-----------------------------------------------------------------------------
(* The children *)

Becomes(p, r) ==
    /\ proc' = [proc EXCEPT ![p] = r]
    /\ UNCHANGED <<master, targets, children, waiting, bdev, created, maps>>

\* slave::run does not find the directory of its device, or a map or a file that
\* was there a moment ago, and throws.
SlaveThrows(p) ==
    /\ proc[p].st = "forked"
    /\ Becomes(p, [proc[p] EXCEPT !.st = "astray"])

\* slave::run finds the device of the name, whoever made it, and serves it.
SlaveStarts(p) ==
    /\ proc[p].st = "forked" /\ bdev[proc[p].suf] # 0
    /\ Becomes(p, [proc[p] EXCEPT !.st = "serving", !.dev = bdev[proc[p].suf]])

\* slave::run finds some of the maps only, and exits.
SlaveExits(p) ==
    /\ proc[p].st = "forked" /\ bdev[proc[p].suf] # 0
    /\ Becomes(p, Ended(p))

\* Mutant: a slave notices only that no device has its name.
GoneByName(p) == bdev[proc[p].suf] = 0

\* The device a slave serves is no longer there.
DeviceGone(p) == bdev[proc[p].suf] # proc[p].dev

\* async_read fails, no work is left and io_ctx.run() returns: _exit(0).
SlaveEnds(p) ==
    /\ proc[p].st = "serving" /\ DeviceGone(p)
    /\ Becomes(p, Ended(p))

\* A second shell ends.  Its copy of ~Master signals the children of the first
\* one, in the order of the hash table, and gets as far as the first whose future
\* waits for a thread, which a forked process does not have.
AstrayEnds(p) ==
    /\ proc[p].st = "astray"
    /\ LET kids == proc[p].kids
           held == proc[p].held
       IN
       \/ /\ held = {}
          /\ proc' = [Signalled(kids) EXCEPT ![p] = Ended(p)]
       \/ \E k \in held, S \in SUBSET (kids \ held) :
             proc' = IF p \in S THEN Signalled(S)
                     ELSE [Signalled(S \cup {k}) EXCEPT ![p].st = "hung"]
    /\ UNCHANGED <<master, targets, children, waiting, bdev, created, maps>>

\* waitpid returns and the thread drops its reference, in one step: in between only
\* destroy() would look at it, and refuse.  Without a master the child is waited
\* for by init.
Reaped(p) ==
    /\ proc[p].st = "zombie"
    /\ proc' = [proc EXCEPT ![p] = NoProc]
    /\ waiting' = {w \in waiting : w[1] # p}
    /\ UNCHANGED <<master, targets, children, bdev, created, maps>>

-----------------------------------------------------------------------------
Init ==
    /\ master = Busy("ready", 0)
    /\ targets = [n \in Names |-> 0] /\ children = {} /\ waiting = {}
    /\ bdev = [s \in Suffixes |-> 0]
    /\ proc = [p \in Pids |-> NoProc]
    /\ created = 0 /\ maps = 0

\* What the shell binds: list() changes nothing.
Shell ==
    \/ \E n \in Names : Create(n) \/ Destroy(n)
    \/ \E n \in Names, s \in Suffixes : Map(n, s) \/ MapFails(n, s)
    \/ \E s \in Suffixes : Unmap(s)
    \/ Quit \/ MasterDies

Exiting  == (\E k \in Pids : KillChild(k)) \/ Joined \/ MasterGone
Slave(p) == SlaveThrows(p) \/ SlaveStarts(p) \/ SlaveExits(p) \/ SlaveEnds(p)
Slaves   == \E p \in Pids : Slave(p)
Waiters  == \E p \in Pids : Reaped(p)
Next     == Shell \/ Exiting \/ Slaves \/ Waiters \/ \E p \in Pids : AstrayEnds(p)

\* The master and every process and thread go on when they can; a user need not
\* do anything.
Spec == /\ Init /\ [][Next]_vars /\ WF_vars(Exiting)
        /\ \A p \in Pids : WF_vars(Slave(p))
        /\ \A p \in Pids : WF_vars(Reaped(p))

-----------------------------------------------------------------------------
(* Properties *)

Procs ==
    [st : {"none", "forked", "serving", "astray", "hung", "zombie"},
     suf : Suffixes \cup {""}, tgt : 0..MaxTargets, dev : 0..MaxMaps,
     kids : SUBSET Pids, held : SUBSET Pids]

\* The type invariant of the processes
TypeOK ==
    /\ master \in MasterStates
    /\ targets \in [Names -> 0..MaxTargets] /\ children \subseteq Pids
    /\ waiting \subseteq Pids \X (1..MaxTargets)
    /\ bdev \in [Suffixes -> 0..MaxMaps]
    /\ proc \in [Pids -> Procs]
    /\ \A p \in Pids : proc[p].held \subseteq proc[p].kids
    /\ created \in 0..MaxTargets /\ maps \in 0..MaxMaps

\* destroy() never takes away a target that a process of the master is using,
\* however the death of children, the reuse of their pids and the threads that
\* wait for them interleave: each is waited for by one thread, with its target.
TargetKept ==
    master.st # "dead" =>
       \A p \in Pids : proc[p].st # "none" =>
          /\ \E n \in Names : targets[n] = proc[p].tgt
          /\ {w \in waiting : w[1] = p} = {<<p, proc[p].tgt>>}

\* When the master has left in an orderly way no child of it is left, neither a
\* slave nor a second shell, including those whose pid was used before.
NoOrphans == master.st = "gone" => \A p \in Pids : proc[p].st = "none"

\* A slave whose device the driver has taken away ends, also when a new device has
\* the old one's name, and its target can be destroyed then, unless the master dies.
Released ==
    \A p \in Pids :
       proc[p].st = "serving" /\ bdev[proc[p].suf] # proc[p].dev ~>
          ~Up \/ (\A w \in waiting : w[1] # p)

-----------------------------------------------------------------------------
(* The inductive invariant behind TypeOK, TargetKept and NoOrphans *)

\* The threads in waitpid are those of the children there are, each with its
\* target, which somebody can still name.
WaitInv ==
    /\ \A w \in waiting : proc[w[1]].st # "none" /\ w[2] = proc[w[1]].tgt
    /\ \A p \in Pids : proc[p].st # "none" =>
          /\ <<p, proc[p].tgt>> \in waiting
          /\ p \in children
          /\ \E n \in Names : targets[n] = proc[p].tgt

\* A child knows its device by a name, and its target exists.
ChildInv ==
    \A p \in Pids : proc[p].st # "none" =>
       /\ proc[p].tgt # 0
       /\ proc[p].st = "forked" => proc[p].suf \in Suffixes

IInv ==
    /\ TypeOK /\ ChildInv
    /\ master.st # "dead" => WaitInv
    /\ master.st = "gone" => children = {}
=============================================================================
