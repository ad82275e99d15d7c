-------------------------- MODULE LifecycleProofs --------------------------
(***************************************************************************)
(* What Lifecycle guarantees for any names, suffixes and pids and any      *)
(* number of targets and calls of map().                                   *)
(***************************************************************************)
EXTENDS Lifecycle, FiniteSetTheorems, TLAPS

\* The threads that wait are finitely many, so that counting the references to a
\* target says whether there are any.
LEMMA NoReferencesLeft ==
    ASSUME TypeOK, NEW t, References(t) = 0
    PROVE  \A w \in waiting : w[2] # t
<1> DEFINE R == {w \in waiting : w[2] = t}
<1>1. IsFiniteSet(1..MaxTargets)  BY BoundsAssumption, FS_Interval
<1>2. IsFiniteSet(Pids \X (1..MaxTargets))  BY <1>1, SetsAssumption, FS_Product
<1>3. R \subseteq Pids \X (1..MaxTargets)  BY DEF TypeOK
<1>4. IsFiniteSet(R)  BY <1>2, <1>3, FS_Subset
<1>5. Cardinality(R) = 0  BY DEF References
<1>6. R = {}  BY <1>4, <1>5, FS_EmptySet
<1> QED  BY <1>6

\* A child that has ended keeps its target until it is waited for.
LEMMA EndedType ==
    ASSUME TypeOK, NEW p \in Pids
    PROVE  /\ Ended(p) \in Procs
           /\ Ended(p).st = "zombie" /\ Ended(p).tgt = proc[p].tgt
           /\ Ended(p).held = {}
<1>1. proc[p].tgt \in 0..MaxTargets  BY DEF TypeOK, Procs
<1>2. 0 \in 0..MaxMaps  BY BoundsAssumption
<1> QED  BY <1>1, <1>2 DEF Ended, NoProc, Procs

\* There is nobody behind a free pid.
LEMMA NoProcType ==
    NoProc \in Procs /\ NoProc.st = "none" /\ NoProc.held = {}
<1>1. 0 \in 0..MaxMaps /\ 0 \in 0..MaxTargets  BY BoundsAssumption
<1> QED  BY <1>1 DEF NoProc, Procs

\* Steps of children that end no wait: who there is and for which target stays.
SameChildren ==
    /\ UNCHANGED <<master, targets, children, waiting, created, maps>>
    /\ \A p \in Pids :
          /\ proc'[p].st = "none" <=> proc[p].st = "none"
          /\ proc[p].st # "none" => proc'[p].tgt = proc[p].tgt
          /\ proc'[p].st = "forked" => proc[p].st = "forked" /\ proc'[p].suf = proc[p].suf

\* Such steps keep the invariant.
LEMMA SameChildrenKeeps ==
    ASSUME IInv, SameChildren, proc' \in [Pids -> Procs],
           bdev' \in [Suffixes -> 0..MaxMaps],
           \A p \in Pids : proc'[p].held \subseteq proc'[p].kids
    PROVE  IInv'
<1>1. TypeOK'  BY DEF IInv, TypeOK, SameChildren
<1>2. ChildInv'  BY DEF IInv, ChildInv, SameChildren
<1>3. (master.st # "dead" => WaitInv)'
  <2> SUFFICES ASSUME master.st # "dead" PROVE WaitInv'
    BY DEF SameChildren
  <2>1. WaitInv  BY DEF IInv
  <2>2. \A w \in waiting : w[1] \in Pids  BY DEF IInv, TypeOK
  <2> QED  BY <2>1, <2>2 DEF WaitInv, SameChildren
<1>4. (master.st = "gone" => children = {})'  BY DEF IInv, SameChildren
<1> QED  BY <1>1, <1>2, <1>3, <1>4 DEF IInv

\* Signals end processes and let no target go.
LEMMA SignalledType ==
    ASSUME TypeOK, NEW ks
    PROVE  /\ Signalled(ks) \in [Pids -> Procs]
           /\ \A p \in Pids :
                 LET q == Signalled(ks)[p] IN
                 /\ q.st = "none" <=> proc[p].st = "none"
                 /\ q.tgt = proc[p].tgt
                 /\ q.st = "forked" => proc[p].st = "forked" /\ q.suf = proc[p].suf
                 /\ q.held \subseteq q.kids
<1> SUFFICES ASSUME NEW p \in Pids
             PROVE  LET q == IF p \in ks /\ Alive(p) THEN Ended(p) ELSE proc[p] IN
                    /\ q \in Procs
                    /\ q.st = "none" <=> proc[p].st = "none"
                    /\ q.tgt = proc[p].tgt
                    /\ q.st = "forked" => proc[p].st = "forked" /\ q.suf = proc[p].suf
                    /\ q.held \subseteq q.kids
  BY DEF Signalled
<1>1. proc[p] \in Procs /\ proc[p].held \subseteq proc[p].kids  BY DEF TypeOK
<1>2. CASE p \in ks /\ Alive(p)
  BY <1>2, EndedType DEF Alive
<1>3. CASE ~(p \in ks /\ Alive(p))
  BY <1>1, <1>3
<1> QED  BY <1>2, <1>3

-----------------------------------------------------------------------------
(* The operations of the shell *)

\* Creating a target keeps the invariant.
LEMMA CreateKeeps ==
    ASSUME IInv, NEW n \in Names, Create(n)
    PROVE  IInv'
<1>1. TypeOK /\ ChildInv  BY DEF IInv
<1>2. created' \in 1..MaxTargets /\ created' = created + 1
  BY <1>1, BoundsAssumption DEF TypeOK, Create
<1>3. TypeOK'  BY <1>1, <1>2 DEF TypeOK, Create
<1>4. ChildInv'  BY <1>1 DEF ChildInv, Create
<1>5. WaitInv  BY DEF IInv, Create, Ready
<1>6. \A p \in Pids : proc[p].st # "none" =>
         \E m \in Names : targets'[m] = proc[p].tgt
  <2> SUFFICES ASSUME NEW p \in Pids, proc[p].st # "none"
               PROVE  \E m \in Names : targets'[m] = proc[p].tgt
    OBVIOUS
  <2>1. PICK m \in Names : targets[m] = proc[p].tgt  BY <1>5 DEF WaitInv
  <2>2. m # n  BY <1>1, <2>1 DEF ChildInv, Create
  <2>3. targets'[m] = targets[m]  BY <1>1, <2>2 DEF Create, TypeOK
  <2> QED  BY <2>1, <2>3
<1>7. WaitInv'  BY <1>5, <1>6 DEF WaitInv, Create
<1> QED  BY <1>3, <1>4, <1>7 DEF IInv, Create, Ready

\* destroy() looks at the references, and a child's thread holds one: the targets
\* of the children stay.
LEMMA DestroyKeeps ==
    ASSUME IInv, NEW n \in Names, Destroy(n)
    PROVE  IInv'
<1>1. TypeOK /\ ChildInv  BY DEF IInv
<1>2. 0 \in 0..MaxTargets  BY BoundsAssumption
<1>3. TypeOK'  BY <1>1, <1>2 DEF TypeOK, Destroy
<1>4. ChildInv'  BY <1>1 DEF ChildInv, Destroy
<1>5. WaitInv  BY DEF IInv, Destroy, Ready
<1>6. \A w \in waiting : w[2] # targets[n]
  BY <1>1, NoReferencesLeft DEF Destroy
<1>7. \A p \in Pids : proc[p].st # "none" =>
         \E m \in Names : targets'[m] = proc[p].tgt
  <2> SUFFICES ASSUME NEW p \in Pids, proc[p].st # "none"
               PROVE  \E m \in Names : targets'[m] = proc[p].tgt
    OBVIOUS
  <2>1. PICK m \in Names : targets[m] = proc[p].tgt  BY <1>5 DEF WaitInv
  <2>2. <<p, proc[p].tgt>> \in waiting  BY <1>5 DEF WaitInv
  <2>3. m # n  BY <1>6, <2>1, <2>2
  <2>4. targets'[m] = targets[m]  BY <1>1, <2>3 DEF Destroy, TypeOK
  <2> QED  BY <2>1, <2>4
<1>8. WaitInv'  BY <1>5, <1>7 DEF WaitInv, Destroy
<1> QED  BY <1>3, <1>4, <1>8 DEF IInv, Destroy, Ready

\* What the driver makes of a request for a device
LEMMA DeviceType ==
    ASSUME TypeOK, NEW s \in Suffixes, maps < MaxMaps, maps' = maps + 1,
           bdev' \in DeviceCreated(s, maps')
    PROVE  bdev' \in [Suffixes -> 0..MaxMaps] /\ maps' \in 0..MaxMaps
<1>1. maps' \in 0..MaxMaps  BY BoundsAssumption DEF TypeOK
<1> QED  BY <1>1 DEF TypeOK, DeviceCreated

\* map() gives the child a thread that waits for it and holds its target, and puts
\* it into children_, whatever was left there under its pid.
LEMMA MapKeeps ==
    ASSUME IInv, NEW n \in Names, NEW s \in Suffixes, Map(n, s)
    PROVE  IInv'
<1>1. TypeOK /\ ChildInv  BY DEF IInv
<1>2. Ready /\ WaitInv  BY DEF IInv, Map, Ready
<1>3. bdev' \in [Suffixes -> 0..MaxMaps] /\ maps' \in 0..MaxMaps
  BY <1>1, DeviceType DEF Map
<1>4. PICK p \in Pids :
         /\ proc[p].st = "none"
         /\ proc' = [proc EXCEPT ![p] = Forked(s, targets[n])]
         /\ waiting' = waiting \cup {<<p, targets[n]>>}
         /\ Emplaced(p)
  BY DEF Map
<1> DEFINE t == targets[n]
           f == Forked(s, t)
<1>5. t \in 1..MaxTargets  BY <1>1, BoundsAssumption DEF TypeOK, Map
<1>6. {w[1] : w \in waiting} \subseteq children
  BY <1>1, <1>2 DEF WaitInv, TypeOK
<1>7. /\ f \in Procs /\ f.st = "forked" /\ f.suf = s /\ f.tgt = t
      /\ f.held \subseteq f.kids
  <2>1. 0 \in 0..MaxMaps /\ t \in 0..MaxTargets  BY <1>5, BoundsAssumption
  <2>2. children \in SUBSET Pids /\ {w[1] : w \in waiting} \in SUBSET Pids
    BY <1>1, <1>6 DEF TypeOK
  <2> QED  BY <1>6, <2>1, <2>2 DEF Forked, Procs
<1> HIDE DEF f
<1>8. /\ proc'[p] = f
      /\ \A q \in Pids : q # p => proc'[q] = proc[q]
      /\ proc' \in [Pids -> Procs]
  BY <1>1, <1>4, <1>7 DEF TypeOK, f
<1>9. /\ children' = children \cup {p}
      /\ master' \in MasterStates /\ master'.st \in {"ready", "emplace"}
      /\ targets' = targets /\ created' = created
  BY <1>1, <1>2, <1>4 DEF Emplaced, TypeOK, MasterStates, Busy, Ready, Map
<1>10. TypeOK'
  <2>1. waiting' \subseteq Pids \X (1..MaxTargets)  BY <1>1, <1>4, <1>5 DEF TypeOK
  <2>2. \A q \in Pids : proc'[q].held \subseteq proc'[q].kids
    BY <1>1, <1>7, <1>8 DEF TypeOK
  <2> QED  BY <1>1, <1>3, <1>8, <1>9, <2>1, <2>2 DEF TypeOK
<1>11. ChildInv'
  BY <1>1, <1>5, <1>7, <1>8 DEF ChildInv
<1>12. WaitInv'
  <2>1. ASSUME NEW w \in waiting'
        PROVE  proc'[w[1]].st # "none" /\ w[2] = proc'[w[1]].tgt
    <3>1. CASE w \in waiting
      <4>1. w[1] \in Pids /\ w[1] # p  BY <1>1, <1>2, <1>4, <3>1 DEF TypeOK, WaitInv
      <4> QED  BY <1>2, <1>8, <3>1, <4>1 DEF WaitInv
    <3>2. CASE w = <<p, t>>  BY <1>7, <1>8, <3>2
    <3> QED  BY <1>4, <2>1, <3>1, <3>2
  <2>2. ASSUME NEW q \in Pids, proc'[q].st # "none"
        PROVE  /\ <<q, proc'[q].tgt>> \in waiting'
               /\ q \in children'
               /\ \E m \in Names : targets'[m] = proc'[q].tgt
    <3>1. CASE q = p  BY <1>4, <1>7, <1>8, <1>9, <3>1
    <3>2. CASE q # p
      BY <1>2, <1>4, <1>8, <1>9, <2>2, <3>2 DEF WaitInv
    <3> QED  BY <3>1, <3>2
  <2> QED  BY <2>1, <2>2 DEF WaitInv
<1> QED  BY <1>9, <1>10, <1>11, <1>12 DEF IInv

-----------------------------------------------------------------------------
(* ~Master *)

\* A future is erased from children_ only when its thread is back, which is when
\* the child of that pid is gone.
LEMMA JoinedKeeps ==
    ASSUME IInv, Joined
    PROVE  IInv'
<1>1. TypeOK /\ ChildInv  BY DEF IInv
<1>2. /\ master.st \in {"emplace", "erase"}
      /\ \A w \in waiting : w[1] # master.pid
      /\ UNCHANGED <<targets, waiting, bdev, proc, created, maps>>
  BY DEF Joined
<1>3. WaitInv  BY <1>2 DEF IInv
<1>4. /\ children' \subseteq children
      /\ \A p \in children : p # master.pid => p \in children'
      /\ master' \in MasterStates /\ master'.st \in {"ready", "dying"}
  BY <1>2 DEF Joined, Busy, MasterStates
<1>5. TypeOK'  BY <1>1, <1>2, <1>4 DEF TypeOK
<1>6. ChildInv'  BY <1>1, <1>2 DEF ChildInv
<1>7. ASSUME NEW p \in Pids, proc[p].st # "none"
      PROVE  p \in children'
  <2>1. <<p, proc[p].tgt>> \in waiting /\ p \in children
    BY <1>3, <1>7 DEF WaitInv
  <2>2. p # master.pid  BY <1>2, <2>1
  <2> QED  BY <1>4, <2>1, <2>2
<1>8. WaitInv'  BY <1>2, <1>3, <1>7 DEF WaitInv
<1> QED  BY <1>4, <1>5, <1>6, <1>8 DEF IInv

\* The master leaves, and its targets with it, only when no child is left.
LEMMA MasterGoneKeeps ==
    ASSUME IInv, MasterGone
    PROVE  IInv'
<1>1. TypeOK /\ ChildInv  BY DEF IInv
<1>2. /\ master.st = "dying" /\ children = {} /\ master'.st = "gone"
      /\ master' \in MasterStates
      /\ targets' = [n \in Names |-> 0]
      /\ UNCHANGED <<children, waiting, bdev, proc, created, maps>>
  BY DEF MasterGone, Busy, MasterStates
<1>3. WaitInv  BY <1>2 DEF IInv
<1>4. \A p \in Pids : proc[p].st = "none"  BY <1>2, <1>3 DEF WaitInv
<1>5. TypeOK'
  <2>1. 0 \in 0..MaxTargets  BY BoundsAssumption
  <2> QED  BY <1>1, <1>2, <2>1 DEF TypeOK
<1>6. ChildInv'  BY <1>1, <1>2 DEF ChildInv
<1>7. WaitInv'  BY <1>2, <1>3, <1>4 DEF WaitInv
<1> QED  BY <1>2, <1>5, <1>6, <1>7 DEF IInv

\* Leaving, signalling a child and dying keep the invariant.
LEMMA MasterKeeps ==
    ASSUME IInv, Quit \/ MasterDies \/ \E k \in Pids : KillChild(k)
    PROVE  IInv'
<1>1. TypeOK /\ ChildInv  BY DEF IInv
<1>2. CASE Quit
  <2>1. master' \in MasterStates /\ master'.st = "dying"
    BY <1>2 DEF Quit, Busy, MasterStates
  <2>2. WaitInv  BY <1>2 DEF IInv, Quit, Ready
  <2> QED  BY <1>1, <1>2, <2>1, <2>2 DEF Quit, IInv, TypeOK, ChildInv, WaitInv
<1>3. CASE MasterDies
  <2>1. master' \in MasterStates /\ master'.st = "dead"
    BY <1>3 DEF MasterDies, Busy, MasterStates
  <2>2. waiting' \subseteq Pids \X (1..MaxTargets)  BY <1>3 DEF MasterDies
  <2> QED  BY <1>1, <1>3, <2>1, <2>2 DEF MasterDies, IInv, TypeOK, ChildInv
<1>4. ASSUME NEW k \in Pids, KillChild(k) PROVE IInv'
  <2>1. /\ master' \in MasterStates /\ master'.st = "erase"
        /\ UNCHANGED <<targets, children, waiting, bdev, created, maps>>
        /\ proc' = Signalled({k})
    BY <1>4 DEF KillChild, Busy, MasterStates
  <2>2. WaitInv  BY <1>4 DEF IInv, KillChild
  <2>3. /\ proc' \in [Pids -> Procs]
        /\ \A p \in Pids :
              /\ proc'[p].st = "none" <=> proc[p].st = "none"
              /\ proc'[p].tgt = proc[p].tgt
              /\ proc'[p].st = "forked" => proc[p].st = "forked" /\ proc'[p].suf = proc[p].suf
              /\ proc'[p].held \subseteq proc'[p].kids
    BY <1>1, <2>1, SignalledType
  <2>4. TypeOK'  BY <1>1, <2>1, <2>3 DEF TypeOK
  <2>5. ChildInv'  BY <1>1, <2>3 DEF ChildInv
  <2>6. WaitInv'
    <3>1. ASSUME NEW w \in waiting
          PROVE  proc'[w[1]].st # "none" /\ w[2] = proc'[w[1]].tgt
      <4>1. w[1] \in Pids  BY <1>1 DEF TypeOK
      <4>2. proc[w[1]].st # "none" /\ w[2] = proc[w[1]].tgt  BY <2>2 DEF WaitInv
      <4> QED  BY <2>3, <4>1, <4>2
    <3>2. ASSUME NEW p \in Pids, proc'[p].st # "none"
          PROVE  /\ <<p, proc'[p].tgt>> \in waiting /\ p \in children
                 /\ \E n \in Names : targets[n] = proc'[p].tgt
      BY <2>2, <2>3, <3>2 DEF WaitInv
    <3> QED  BY <2>1, <3>1, <3>2 DEF WaitInv
  <2> QED  BY <2>1, <2>4, <2>5, <2>6 DEF IInv
<1> QED  BY <1>2, <1>3, <1>4

-----------------------------------------------------------------------------
(* The children *)

\* A step of a slave that starts, throws or ends keeps the invariant.
LEMMA SlaveKeeps ==
    ASSUME IInv, NEW p \in Pids, Slave(p)
    PROVE  IInv'
<1>1. TypeOK /\ ChildInv /\ proc[p] \in Procs  BY DEF IInv, TypeOK
<1>2. ASSUME NEW r \in Procs, Becomes(p, r), proc[p].st # "none",
             r.st \notin {"none", "forked"}, r.tgt = proc[p].tgt,
             r.held \subseteq r.kids
      PROVE  IInv'
  <2>1. /\ proc'[p] = r /\ \A q \in Pids : q # p => proc'[q] = proc[q]
        /\ proc' \in [Pids -> Procs]
    BY <1>1, <1>2 DEF Becomes, TypeOK
  <2>2. SameChildren  BY <1>2, <2>1 DEF Becomes, SameChildren
  <2>3. \A q \in Pids : proc'[q].held \subseteq proc'[q].kids
    BY <1>1, <1>2, <2>1 DEF TypeOK
  <2>4. bdev' \in [Suffixes -> 0..MaxMaps]  BY <1>1, <1>2 DEF Becomes, TypeOK
  <2> QED  BY <2>1, <2>2, <2>3, <2>4, SameChildrenKeeps
<1>3. CASE SlaveThrows(p)
  <2> DEFINE r == [proc[p] EXCEPT !.st = "astray"]
  <2>1. r \in Procs /\ r.st = "astray" /\ r.tgt = proc[p].tgt
        /\ r.held = proc[p].held /\ r.kids = proc[p].kids
    BY <1>1 DEF Procs
  <2>2. Becomes(p, r) /\ proc[p].st = "forked"  BY <1>3 DEF SlaveThrows
  <2>3. r.held \subseteq r.kids  BY <1>1, <2>1 DEF TypeOK
  <2> HIDE DEF r
  <2> QED  BY <1>2, <2>1, <2>2, <2>3
<1>4. CASE SlaveStarts(p)
  <2> DEFINE d == bdev[proc[p].suf]
             r == [proc[p] EXCEPT !.st = "serving", !.dev = d]
  <2>1. proc[p].suf \in Suffixes  BY <1>1, <1>4 DEF ChildInv, SlaveStarts
  <2>2. d \in 0..MaxMaps  BY <1>1, <2>1 DEF TypeOK
  <2>3. Becomes(p, r) /\ proc[p].st = "forked"  BY <1>4 DEF SlaveStarts
  <2> HIDE DEF d
  <2>4. r \in Procs /\ r.st = "serving" /\ r.tgt = proc[p].tgt
        /\ r.held = proc[p].held /\ r.kids = proc[p].kids
    BY <1>1, <2>2 DEF Procs
  <2>5. r.held \subseteq r.kids  BY <1>1, <2>4 DEF TypeOK
  <2> HIDE DEF r
  <2> QED  BY <1>2, <2>3, <2>4, <2>5
<1>5. CASE SlaveExits(p) \/ SlaveEnds(p)
  <2>1. Becomes(p, Ended(p)) /\ proc[p].st # "none"
    BY <1>5 DEF SlaveExits, SlaveEnds
  <2> QED  BY <1>1, <1>2, <2>1, EndedType
<1> QED  BY <1>3, <1>4, <1>5 DEF Slave

\* A second shell that ends takes others with it, and nobody's target.
LEMMA AstrayKeeps ==
    ASSUME IInv, NEW p \in Pids, AstrayEnds(p)
    PROVE  IInv'
<1>1. TypeOK /\ proc[p] \in Procs  BY DEF IInv, TypeOK
<1>2. /\ proc[p].st = "astray"
      /\ UNCHANGED <<master, targets, children, waiting, bdev, created, maps>>
  BY DEF AstrayEnds
<1>3. \E ks : \/ proc' = Signalled(ks)
              \/ proc' = [Signalled(ks) EXCEPT ![p] = Ended(p)]
              \/ proc' = [Signalled(ks) EXCEPT ![p].st = "hung"]
  BY DEF AstrayEnds
<1>4. PICK ks : \/ proc' = Signalled(ks)
                \/ proc' = [Signalled(ks) EXCEPT ![p] = Ended(p)]
                \/ proc' = [Signalled(ks) EXCEPT ![p].st = "hung"]
  BY <1>3
<1> DEFINE S == Signalled(ks)
<1>5. /\ S \in [Pids -> Procs]
      /\ \A q \in Pids :
            /\ S[q].st = "none" <=> proc[q].st = "none"
            /\ S[q].tgt = proc[q].tgt
            /\ S[q].st = "forked" => proc[q].st = "forked" /\ S[q].suf = proc[q].suf
            /\ S[q].held \subseteq S[q].kids
  BY <1>1, SignalledType
<1> HIDE DEF S
<1>6. /\ proc' \in [Pids -> Procs]
      /\ \A q \in Pids :
            /\ proc'[q].st = "none" <=> proc[q].st = "none"
            /\ proc'[q].tgt = proc[q].tgt
            /\ proc'[q].st = "forked" => proc[q].st = "forked" /\ proc'[q].suf = proc[q].suf
            /\ proc'[q].held \subseteq proc'[q].kids
  <2>1. CASE proc' = S  BY <1>5, <2>1
  <2>2. CASE proc' = [S EXCEPT ![p] = Ended(p)]
    BY <1>1, <1>2, <1>5, <2>2, EndedType
  <2>3. CASE proc' = [S EXCEPT ![p].st = "hung"]
    <3>1. S[p] \in Procs  BY <1>5
    <3>2. /\ proc'[p] = [S[p] EXCEPT !.st = "hung"]
          /\ \A q \in Pids : q # p => proc'[q] = S[q]
      BY <1>5, <2>3
    <3>3. /\ proc'[p] \in Procs /\ proc'[p].st = "hung" /\ proc'[p].tgt = S[p].tgt
          /\ proc'[p].held = S[p].held /\ proc'[p].kids = S[p].kids
      BY <3>1, <3>2 DEF Procs
    <3>4. proc' \in [Pids -> Procs]  BY <1>5, <2>3, <3>2, <3>3
    <3>5. ASSUME NEW q \in Pids
          PROVE  /\ proc'[q].st = "none" <=> proc[q].st = "none"
                 /\ proc'[q].tgt = proc[q].tgt
                 /\ proc'[q].st = "forked" => proc[q].st = "forked" /\ proc'[q].suf = proc[q].suf
                 /\ proc'[q].held \subseteq proc'[q].kids
      <4>1. CASE q = p  BY <1>2, <1>5, <3>3, <4>1
      <4>2. CASE q # p  BY <1>5, <3>2, <4>2
      <4> QED  BY <4>1, <4>2
    <3> QED  BY <3>4, <3>5
  <2> QED  BY <1>4, <2>1, <2>2, <2>3 DEF S
<1>7. SameChildren  BY <1>2, <1>6 DEF SameChildren
<1>8. bdev' \in [Suffixes -> 0..MaxMaps]  BY <1>1, <1>2 DEF TypeOK
<1> QED  BY <1>6, <1>7, <1>8, SameChildrenKeeps

\* waitpid returns: the child is gone and so is its reference.
LEMMA ReapedKeeps ==
    ASSUME IInv, NEW p \in Pids, Reaped(p)
    PROVE  IInv'
<1>1. TypeOK /\ ChildInv  BY DEF IInv
<1>2. /\ proc' = [proc EXCEPT ![p] = NoProc]
      /\ waiting' = {w \in waiting : w[1] # p}
      /\ UNCHANGED <<master, targets, children, bdev, created, maps>>
  BY DEF Reaped
<1>3. /\ proc'[p] = NoProc /\ \A q \in Pids : q # p => proc'[q] = proc[q]
      /\ proc' \in [Pids -> Procs]
  BY <1>1, <1>2, NoProcType DEF TypeOK
<1>4. TypeOK'
  <2>1. \A q \in Pids : proc'[q].held \subseteq proc'[q].kids
    BY <1>1, <1>3, NoProcType DEF TypeOK
  <2> QED  BY <1>1, <1>2, <1>3, <2>1 DEF TypeOK
<1>5. ChildInv'  BY <1>1, <1>3, NoProcType DEF ChildInv
<1>6. ASSUME WaitInv PROVE WaitInv'
  <2>1. ASSUME NEW w \in waiting'
        PROVE  proc'[w[1]].st # "none" /\ w[2] = proc'[w[1]].tgt
    <3>1. w \in waiting /\ w[1] # p /\ w[1] \in Pids  BY <1>1, <1>2, <2>1 DEF TypeOK
    <3> QED  BY <1>3, <1>6, <3>1 DEF WaitInv
  <2>2. ASSUME NEW q \in Pids, proc'[q].st # "none"
        PROVE  /\ <<q, proc'[q].tgt>> \in waiting'
               /\ q \in children'
               /\ \E m \in Names : targets'[m] = proc'[q].tgt
    <3>1. q # p  BY <1>3, <2>2, NoProcType
    <3> QED  BY <1>2, <1>3, <1>6, <2>2, <3>1 DEF WaitInv
  <2> QED  BY <2>1, <2>2 DEF WaitInv
<1> QED  BY <1>2, <1>4, <1>5, <1>6 DEF IInv

-----------------------------------------------------------------------------
(* Theorems *)

\* The shell starts with no target and no child.
LEMMA InitIInv == Init => IInv
<1> SUFFICES ASSUME Init PROVE IInv
  OBVIOUS
<1>1. \A p \in Pids : proc[p] = NoProc  BY DEF Init
<1>2. TypeOK
  <2>1. 0 \in 0..MaxMaps /\ 0 \in 0..MaxTargets  BY BoundsAssumption
  <2>2. master \in MasterStates  BY DEF Init, Busy, MasterStates
  <2>3. proc \in [Pids -> Procs] /\ \A p \in Pids : proc[p].held \subseteq proc[p].kids
    BY <1>1, NoProcType DEF Init
  <2> QED  BY <2>1, <2>2, <2>3 DEF Init, TypeOK
<1> QED  BY <1>1, <1>2, NoProcType DEF Init, IInv, ChildInv, WaitInv, Busy

\* Every step of the master, a child or a thread keeps the invariant.
LEMMA NextIInv == IInv /\ [Next]_vars => IInv'
<1> SUFFICES ASSUME IInv, [Next]_vars PROVE IInv'
  OBVIOUS
<1>1. ASSUME NEW n \in Names, Create(n) \/ Destroy(n) PROVE IInv'
  BY <1>1, CreateKeeps, DestroyKeeps
<1>2. ASSUME NEW n \in Names, NEW s \in Suffixes, Map(n, s) PROVE IInv'
  BY <1>2, MapKeeps
<1>3. ASSUME NEW n \in Names, NEW s \in Suffixes, MapFails(n, s) PROVE IInv'
  <2>1. bdev' \in [Suffixes -> 0..MaxMaps] /\ maps' \in 0..MaxMaps
    BY <1>3, DeviceType DEF MapFails, IInv
  <2> QED  BY <1>3, <2>1 DEF MapFails, IInv, TypeOK, ChildInv, WaitInv
<1>4. ASSUME NEW s \in Suffixes, Unmap(s) PROVE IInv'
  <2>1. 0 \in 0..MaxMaps  BY BoundsAssumption
  <2>2. bdev' \in [Suffixes -> 0..MaxMaps]  BY <1>4, <2>1 DEF Unmap, IInv, TypeOK
  <2> QED  BY <1>4, <2>2 DEF Unmap, IInv, TypeOK, ChildInv, WaitInv
<1>5. CASE Quit \/ MasterDies \/ \E k \in Pids : KillChild(k)
  BY <1>5, MasterKeeps
<1>6. CASE Joined  BY <1>6, JoinedKeeps
<1>7. CASE MasterGone  BY <1>7, MasterGoneKeeps
<1>8. CASE Slaves  BY <1>8, SlaveKeeps DEF Slaves
<1>9. CASE Waiters  BY <1>9, ReapedKeeps DEF Waiters
<1>10. ASSUME NEW p \in Pids, AstrayEnds(p) PROVE IInv'
  BY <1>10, AstrayKeeps
<1>11. CASE UNCHANGED vars
  BY <1>11 DEF vars, IInv, TypeOK, ChildInv, WaitInv
<1> QED
  BY <1>1, <1>2, <1>3, <1>4, <1>5, <1>6, <1>7, <1>8, <1>9, <1>10, <1>11
  DEF Next, Shell, Exiting

\* The inductive invariant holds for any names, suffixes, pids and bounds.
THEOREM Invariance == Spec => []IInv
<1>1. Init /\ [][Next]_vars => []IInv  BY InitIInv, NextIInv, PTL
<1> QED  BY <1>1, PTL DEF Spec

\* The processes keep their types; in particular a child never believes that a
\* thread waits for a process that is not in its copy of children_.
THEOREM TypeCorrect == Spec => []TypeOK
<1>1. IInv => TypeOK  BY DEF IInv
<1> QED  BY <1>1, Invariance, PTL

\* destroy() never takes away a target in use: whatever dies, is forked again with
\* the same pid or is waited for late, the thread of each child holds its target.
THEOREM TargetsKept == Spec => []TargetKept
<1>1. IInv => TargetKept
  <2> SUFFICES ASSUME IInv, master.st # "dead", NEW p \in Pids, proc[p].st # "none"
               PROVE  /\ \E n \in Names : targets[n] = proc[p].tgt
                      /\ {w \in waiting : w[1] = p} = {<<p, proc[p].tgt>>}
    BY DEF TargetKept
  <2>1. WaitInv /\ waiting \subseteq Pids \X (1..MaxTargets)  BY DEF IInv, TypeOK
  <2>2. \A w \in waiting : w = <<w[1], w[2]>>  BY <2>1
  <2>3. \A w \in waiting : w[1] = p => w = <<p, proc[p].tgt>>
    BY <2>1, <2>2 DEF WaitInv
  <2>4. <<p, proc[p].tgt>> \in waiting /\ \E n \in Names : targets[n] = proc[p].tgt
    BY <2>1 DEF WaitInv
  <2> QED  BY <2>3, <2>4
<1> QED  BY <1>1, Invariance, PTL

\* ~Master leaves no child behind, neither one it signalled nor one forked under a
\* pid that was in children_ before.
THEOREM NoneOrphaned == Spec => []NoOrphans
<1>1. IInv => NoOrphans  BY DEF IInv, WaitInv, NoOrphans
<1> QED  BY <1>1, Invariance, PTL

=============================================================================
