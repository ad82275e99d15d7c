---------------------------- MODULE RaidSPProofs ----------------------------
(***************************************************************************)
(* What RaidSP guarantees for any number of writes, reads, stripes, strips *)
(* and cells, and any bounds on errors and restarts: first the work in a   *)
(* stripe, then what clients see of it.                                    *)
(***************************************************************************)
EXTENDS RaidSP, FiniteSetTheorems, TLAPS

\* XORing the old and the new data of the cells into a parity that matches the
\* stripe gives the parity that matches the stripe once written: the
\* read-modify-write of the coherent path computes what a renewal would.
LEMMA ParityToIsRenewal ==
    ASSUME NEW f, NEW g, NEW cs \in SUBSET Cells, NEW w,
           \A c \in cs : g[c] = f[c]
    PROVE  ParityTo(ParityOf(f), g, cs, w) = ParityOf(Over(f, cs, w))
<1> DEFINE old == {<<c, g[c]>> : c \in cs}
           new == {<<c, w>> : c \in cs}
           L   == ParityTo(ParityOf(f), g, cs, w)
           R   == ParityOf(Over(f, cs, w))
<1>1. ASSUME NEW x \in L PROVE x \in R
  <2>1. CASE x \in ParityOf(f) /\ x \notin Xor(old, new)
    <3>1. PICK c \in Cells : x = <<c, f[c]>>  BY <2>1 DEF ParityOf
    <3>2. CASE c \in cs
      <4>1. x \in old  BY <3>1, <3>2
      <4>2. x \in new  BY <2>1, <4>1 DEF Xor
      <4>3. f[c] = w  BY <3>1, <4>2
      <4> QED  BY <3>1, <3>2, <4>3 DEF ParityOf, Over
    <3>3. CASE c \notin cs
      BY <3>1, <3>3 DEF ParityOf, Over
    <3> QED  BY <3>2, <3>3
  <2>2. CASE x \notin ParityOf(f) /\ x \in Xor(old, new)
    <3>1. ASSUME x \in old PROVE FALSE
      BY <2>2, <3>1 DEF ParityOf
    <3>2. x \in new  BY <2>2, <3>1 DEF Xor
    <3>3. PICK c \in cs : x = <<c, w>>  BY <3>2
    <3> QED  BY <3>3 DEF ParityOf, Over
  <2> QED  BY <1>1, <2>1, <2>2 DEF ParityTo, Xor
<1>2. ASSUME NEW x \in R PROVE x \in L
  <2>1. PICK c \in Cells : x = <<c, IF c \in cs THEN w ELSE f[c]>>
    BY <1>2 DEF ParityOf, Over
  <2>2. CASE c \notin cs
    <3>1. x \in ParityOf(f)  BY <2>1, <2>2 DEF ParityOf
    <3>2. x \notin old /\ x \notin new  BY <2>1, <2>2
    <3> QED  BY <3>1, <3>2 DEF ParityTo, Xor
  <2>3. CASE c \in cs /\ f[c] = w
    <3>1. x \in ParityOf(f)  BY <2>1, <2>3 DEF ParityOf
    <3>2. x \in old /\ x \in new  BY <2>1, <2>3
    <3> QED  BY <3>1, <3>2 DEF ParityTo, Xor
  <2>4. CASE c \in cs /\ f[c] # w
    <3>1. x \notin ParityOf(f)  BY <2>1, <2>4 DEF ParityOf
    <3>2. x \notin old /\ x \in new  BY <2>1, <2>4
    <3> QED  BY <3>1, <3>2 DEF ParityTo, Xor
  <2> QED  BY <2>2, <2>3, <2>4
<1> QED  BY <1>1, <1>2

-----------------------------------------------------------------------------
(* The queue of pending writes *)

\* Erasing a pending write keeps all the others, each in one place.
LEMMA SwapEraseType ==
    ASSUME NEW S, NEW q \in Seq(S), NEW i \in 1..Len(q)
    PROVE  /\ SwapErase(q, i) \in Seq(S)
           /\ Len(SwapErase(q, i)) = Len(q) - 1
<1>1. Len(q) \in Nat /\ Len(q) > 0  OBVIOUS
<1>2. \A n \in 1..(Len(q) - 1) : SwapErase(q, i)[n] \in S
  BY <1>1 DEF SwapErase
<1> QED  BY <1>1, <1>2 DEF SwapErase

\* The swap with the last entry (iter_swap, pop_back) loses no other pending write
\* and duplicates none.
LEMMA SwapEraseKeepsOthers ==
    ASSUME NEW S, NEW q \in Seq(S), NEW i \in 1..Len(q),
           NEW j \in 1..Len(q), j # i
    PROVE  \E n \in 1..(Len(q) - 1) : SwapErase(q, i)[n] = q[j]
<1>1. Len(q) \in Nat /\ Len(q) > 0  OBVIOUS
<1>2. CASE j = Len(q)
  <2>1. i \in 1..(Len(q) - 1)  BY <1>2, <1>1
  <2> QED  BY <1>2, <2>1 DEF SwapErase
<1>3. CASE j # Len(q)
  <2>1. j \in 1..(Len(q) - 1)  BY <1>3, <1>1
  <2> QED  BY <2>1 DEF SwapErase
<1> QED  BY <1>2, <1>3

\* Elements of a queue with others put at its end
LEMMA ConcatElements ==
    ASSUME NEW S, NEW a \in Seq(S), NEW n \in Nat, NEW f \in [1..n -> S]
    PROVE  /\ a \o f \in Seq(S)
           /\ DOMAIN (a \o f) = 1..(Len(a) + n)
           /\ \A i \in 1..Len(a) : (a \o f)[i] = a[i]
           /\ \A i \in 1..n : (a \o f)[Len(a) + i] = f[i]
<1>1. f \in Seq(S) /\ Len(f) = n  OBVIOUS
<1>2. a \o f \in Seq(S) /\ Len(a \o f) = Len(a) + n  BY <1>1
<1>3. DOMAIN (a \o f) = 1..(Len(a) + n)  BY <1>2
<1>4. \A i \in 1..Len(a) : (a \o f)[i] = a[i]  BY <1>1
<1>5. ASSUME NEW i \in 1..n PROVE (a \o f)[Len(a) + i] = f[i]
  <2>1. Len(a) + i \in 1..(Len(a) + n) /\ Len(a) + i > Len(a)  OBVIOUS
  <2> QED  BY <1>1, <2>1
<1> QED  BY <1>2, <1>3, <1>4, <1>5

-----------------------------------------------------------------------------
(* Typing *)

USE DEF Phases, Reading, Writing, InStripe, States

\* What process() starts a write with is a query at work in the stripe that has
\* a device operation outstanding and no error.
LEMMA ProcessTypeOK ==
    ASSUME NEW w \in Writes, NEW s \in Stripes, Span[w][s] # {}, NEW coh
    PROVE  /\ Process(w, s, coh) \in SubQueries
           /\ Process(w, s, coh).ph \in InStripe
           /\ Process(w, s, coh).todo # {}
<1> DEFINE cs == Span[w][s]
<1>1. cs \in SUBSET Cells  BY SpanAssumption
<1>2. StripsOf(cs) \subseteq Strips /\ StripsOf(Cells) \subseteq Strips
  BY <1>1, CellsAssumption DEF StripsOf
<1>3. StripsOf(cs) # {} /\ StripsOf(Cells) # {}
  BY <1>1, CellsAssumption DEF StripsOf
<1>4. {<<c, w>> : c \in Cells} \in SUBSET Tokens
  BY DEF Tokens, Values
<1>5. [c \in Cells |-> Old] \in [Cells -> Values]  BY DEF Values
<1> QED  BY <1>2, <1>3, <1>4, <1>5 DEF Process, SubQuery, SubQueries

\* A part of a write with no operation outstanding has its type.
LEMMA IdleTypeOK ==
    ASSUME NEW ph \in Phases
    PROVE  Idle(ph) \in SubQueries /\ Idle(ph).ph = ph
<1>1. [c \in Cells |-> Old] \in [Cells -> Values]  BY DEF Values
<1> QED  BY <1>1 DEF Idle, SubQuery, SubQueries

\* Typing of what the two ends of a completion leave
LEMMA ContinueTypeOK ==
    ASSUME TypeOK, NEW w \in Writes, NEW s \in Stripes, NEW b \in SubQueries,
           Continue(w, s, b)
    PROVE  /\ sub' \in [Writes -> [Stripes -> SubQueries]]
           /\ wqs_pending' \in Seq(Stripes \X Writes)
           /\ wq' \in [Writes -> WriteQueries]
           /\ locker' \subseteq Stripes /\ fsm' \in {"online", "offline"}
BY DEF TypeOK, Continue

\* The completer of a part leaves the lock, the queue and the queries well typed.
LEMMA FinishTypeOK ==
    ASSUME TypeOK, PendingInv, BusyInv, NEW w \in Writes, NEW s \in Stripes,
           NEW err \in BOOLEAN, NEW coh, Finish(w, s, err, coh)
    PROVE  /\ sub' \in [Writes -> [Stripes -> SubQueries]]
           /\ wqs_pending' \in Seq(Stripes \X Writes)
           /\ wq' \in [Writes -> WriteQueries]
           /\ locker' \subseteq Stripes /\ fsm' \in {"online", "offline"}
<1>1. wq' \in [Writes -> WriteQueries] /\ fsm' \in {"online", "offline"}
  BY DEF TypeOK, Finish, FsmAfter, WriteQueries
<1>2. CASE wqs_pending' = wqs_pending /\ locker' = locker \ {s}
           /\ sub' = [sub EXCEPT ![w][s] = Idle("done")]
  BY <1>1, <1>2, IdleTypeOK DEF TypeOK
<1>3. ASSUME NEW i \in 1..Len(wqs_pending), FirstPending(s, i),
             wqs_pending' = SwapErase(wqs_pending, i), locker' = locker,
             sub' = [sub EXCEPT ![w][s] = Idle("done"),
                        ![wqs_pending[i][2]][s] =
                             Process(wqs_pending[i][2], s, coh)]
      PROVE  /\ sub' \in [Writes -> [Stripes -> SubQueries]]
             /\ wqs_pending' \in Seq(Stripes \X Writes)
             /\ locker' \subseteq Stripes
  <2> DEFINE v == wqs_pending[i][2]
  <2>1. wqs_pending[i] \in Stripes \X Writes  BY DEF TypeOK
  <2>2. v \in Writes /\ wqs_pending[i][1] = s
    BY <2>1, <1>3 DEF FirstPending
  <2>3. Span[v][s] # {}
    <3>1. sub[v][s].ph = "pending"  BY <2>2 DEF PendingInv, TypeOK
    <3> QED  BY <2>2, <3>1 DEF BusyInv, Touched
  <2>4. Process(v, s, coh) \in SubQueries  BY <2>2, <2>3, ProcessTypeOK
  <2>5. wqs_pending' \in Seq(Stripes \X Writes)
    BY <1>3, SwapEraseType DEF TypeOK
  <2> QED  BY <1>3, <2>2, <2>4, <2>5, IdleTypeOK DEF TypeOK
<1> QED  BY <1>1, <1>2, <1>3 DEF Finish

-----------------------------------------------------------------------------
(* The two ends of a completion: the write goes on, or it is finished *)

QueueInv == LockInv /\ PendingInv /\ BusyInv

\* A part that goes on to its next operation disturbs neither the locks nor the
\* pending writes.
LEMMA ContinueKeepsQueue ==
    ASSUME TypeOK, QueueInv, NEW w \in Writes, NEW s \in Stripes, Holds(w, s),
           NEW b \in SubQueries, b.ph \in InStripe, Continue(w, s, b)
    PROVE  QueueInv'
<1>1. \A u \in Writes, t \in Stripes :
         /\ Holds(u, t)' <=> Holds(u, t)
         /\ sub'[u][t].ph = "pending" <=> sub[u][t].ph = "pending"
  BY DEF Continue, Holds, TypeOK
<1>2. LockInv'
  BY <1>1 DEF QueueInv, LockInv, StripeExclusive, LockHeld, Continue
<1>3. PendingInv'
  <2>1. wqs_pending' = wqs_pending  BY DEF Continue
  <2>2. \A i \in DOMAIN wqs_pending :
           wqs_pending[i][2] \in Writes /\ wqs_pending[i][1] \in Stripes
    BY DEF TypeOK
  <2> QED  BY <1>1, <2>1, <2>2 DEF QueueInv, PendingInv
<1>4. BusyInv'
  BY <1>1 DEF QueueInv, BusyInv, Continue
<1> QED  BY <1>2, <1>3, <1>4 DEF QueueInv

\* The two outcomes of Finish
Unlocks(w, s) ==
    /\ NonePending(s)
    /\ locker' = locker \ {s}
    /\ wqs_pending' = wqs_pending
    /\ \A u \in Writes : u # w => sub'[u][s] = sub[u][s]

HandsOver(w, s, i, v, coh) ==
    /\ wqs_pending[i] = <<s, v>>
    /\ sub[v][s].ph = "pending" /\ Span[v][s] # {}
    /\ wqs_pending' = SwapErase(wqs_pending, i)
    /\ locker' = locker
    /\ sub'[v][s] = Process(v, s, coh)
    /\ \A u \in Writes : u \notin {v, w} => sub'[u][s] = sub[u][s]

\* Finish either unlocks a stripe nobody waits for or hands it, locked, to a
\* write that waits; nothing changes in the other stripes.
LEMMA FinishEffect ==
    ASSUME TypeOK, QueueInv, NEW w \in Writes, NEW s \in Stripes, Holds(w, s),
           NEW err \in BOOLEAN, NEW coh, Finish(w, s, err, coh)
    PROVE  /\ \A u \in Writes, t \in Stripes :
                 t # s => sub'[u][t] = sub[u][t]
           /\ sub'[w][s].ph = "done"
           /\ \/ Unlocks(w, s)
              \/ \E i \in 1..Len(wqs_pending), v \in Writes \ {w} :
                    HandsOver(w, s, i, v, coh)
<1>1. CASE NonePending(s) /\ wqs_pending' = wqs_pending /\ locker' = locker \ {s}
           /\ sub' = [sub EXCEPT ![w][s] = Idle("done")]
  BY <1>1, IdleTypeOK DEF TypeOK, Unlocks
<1>2. ASSUME NEW i \in 1..Len(wqs_pending), FirstPending(s, i),
             wqs_pending' = SwapErase(wqs_pending, i), locker' = locker,
             sub' = [sub EXCEPT ![w][s] = Idle("done"),
                        ![wqs_pending[i][2]][s] =
                             Process(wqs_pending[i][2], s, coh)]
      PROVE  /\ \A u \in Writes, t \in Stripes :
                   t # s => sub'[u][t] = sub[u][t]
             /\ sub'[w][s].ph = "done"
             /\ \E v \in Writes \ {w} : HandsOver(w, s, i, v, coh)
  <2> DEFINE v == wqs_pending[i][2]
  <2>1. wqs_pending[i] \in Stripes \X Writes  BY DEF TypeOK
  <2>2. v \in Writes /\ wqs_pending[i] = <<s, v>>
    BY <2>1, <1>2 DEF FirstPending
  <2>3. sub[v][s].ph = "pending"
    <3>1. i \in DOMAIN wqs_pending  BY DEF TypeOK
    <3>2. sub[wqs_pending[i][2]][wqs_pending[i][1]].ph = "pending"
      BY <3>1 DEF QueueInv, PendingInv
    <3> QED  BY <2>2, <3>2
  <2>4. v # w  BY <2>3 DEF Holds
  <2>5. Span[v][s] # {}
    BY <2>2, <2>3 DEF QueueInv, BusyInv, Touched
  <2>6. sub'[v][s] = Process(v, s, coh) /\ sub'[w][s] = Idle("done")
    BY <1>2, <2>2, <2>4 DEF TypeOK
  <2>7. \A u \in Writes : u \notin {v, w} => sub'[u][s] = sub[u][s]
    BY <1>2, <2>2 DEF TypeOK
  <2>8. \A u \in Writes, t \in Stripes : t # s => sub'[u][t] = sub[u][t]
    BY <1>2, <2>2 DEF TypeOK
  <2>9. HandsOver(w, s, i, v, coh)
    BY <1>2, <2>2, <2>3, <2>5, <2>6, <2>7 DEF HandsOver
  <2> QED  BY <2>2, <2>4, <2>6, <2>8, <2>9, IdleTypeOK
<1>3. \/ NonePending(s) /\ wqs_pending' = wqs_pending /\ locker' = locker \ {s}
         /\ sub' = [sub EXCEPT ![w][s] = Idle("done")]
      \/ \E i \in 1..Len(wqs_pending) :
            /\ FirstPending(s, i)
            /\ wqs_pending' = SwapErase(wqs_pending, i) /\ locker' = locker
            /\ sub' = [sub EXCEPT ![w][s] = Idle("done"),
                        ![wqs_pending[i][2]][s] =
                             Process(wqs_pending[i][2], s, coh)]
  BY DEF Finish
<1>4. CASE \E i \in 1..Len(wqs_pending) :
            /\ FirstPending(s, i)
            /\ wqs_pending' = SwapErase(wqs_pending, i) /\ locker' = locker
            /\ sub' = [sub EXCEPT ![w][s] = Idle("done"),
                        ![wqs_pending[i][2]][s] =
                             Process(wqs_pending[i][2], s, coh)]
  <2>1. PICK i \in 1..Len(wqs_pending) :
            /\ FirstPending(s, i)
            /\ wqs_pending' = SwapErase(wqs_pending, i) /\ locker' = locker
            /\ sub' = [sub EXCEPT ![w][s] = Idle("done"),
                        ![wqs_pending[i][2]][s] =
                             Process(wqs_pending[i][2], s, coh)]
    BY <1>4
  <2> HIDE DEF FirstPending, SwapErase, Process
  <2> QED  BY <2>1, <1>2
<1> QED  BY <1>1, <1>3, <1>4

\* A finished write is not at work anywhere else once its client is answered.
LEMMA FinishAnswers ==
    ASSUME TypeOK, QueueInv, NEW w \in Writes, NEW s \in Stripes, Holds(w, s),
           NEW err \in BOOLEAN, NEW coh, Finish(w, s, err, coh)
    PROVE  /\ \A u \in Writes : u # w => wq'[u] = wq[u]
           /\ wq'[w].st = wq[w].st
              \/ \A t \in Touched(Span[w]) \ {s} : sub[w][t].ph = "done"
BY DEF Finish, LastPart, TypeOK, WriteQueries

\* Handing the stripe to the next pending write, or unlocking it when there is
\* none, keeps the locks, the pending writes and the queries in step.
LEMMA FinishKeepsQueue ==
    ASSUME TypeOK, QueueInv, NEW w \in Writes, NEW s \in Stripes, Holds(w, s),
           NEW err \in BOOLEAN, NEW coh, Finish(w, s, err, coh)
    PROVE  QueueInv'
<1>0. /\ \A u \in Writes, t \in Stripes : t # s => sub'[u][t] = sub[u][t]
      /\ sub'[w][s].ph = "done"
  BY FinishEffect
<1>a. /\ \A u \in Writes : Holds(u, s) => u = w
      /\ s \in locker
  BY DEF QueueInv, LockInv, StripeExclusive, LockHeld
<1>b. \A u \in Writes, t \in Stripes :
         t # s => /\ Holds(u, t)' <=> Holds(u, t)
                  /\ sub'[u][t].ph = "pending" <=> sub[u][t].ph = "pending"
  BY <1>0 DEF Holds
<1>c. ASSUME NEW u \in Writes, NEW t \in Stripes,
             Holds(u, t)' \/ sub'[u][t].ph = "pending",
             Holds(u, t) \/ sub[u][t].ph = "pending"
      PROVE  wq'[u].st = "busy" /\ t \in Touched(Span[u])
  <2>1. wq[u].st = "busy" /\ t \in Touched(Span[u])
    BY <1>c DEF QueueInv, BusyInv
  <2>2. CASE u # w
    BY <2>1, <2>2, FinishAnswers
  <2>3. CASE u = w
    <3>1. t # s  BY <1>0, <1>c, <2>3 DEF Holds
    <3>2. sub[w][t].ph # "done"  BY <1>c, <2>3 DEF Holds
    <3> QED  BY <2>1, <2>3, <3>1, <3>2, FinishAnswers
  <2> QED  BY <2>2, <2>3
<1>1. CASE Unlocks(w, s)
  <2>0. /\ NonePending(s)
        /\ locker' = locker \ {s}
        /\ wqs_pending' = wqs_pending
        /\ \A u \in Writes : u # w => sub'[u][s] = sub[u][s]
    BY <1>1 DEF Unlocks
  <2>1. \A u \in Writes : ~Holds(u, s)'
    BY <1>0, <2>0, <1>a DEF Holds
  <2>2. \A u \in Writes : sub[u][s].ph # "pending"
    <3> SUFFICES ASSUME NEW u \in Writes, sub[u][s].ph = "pending"
                 PROVE  FALSE
      OBVIOUS
    <3>1. <<s, u>> \in Range(wqs_pending)  BY DEF QueueInv, LockInv, LockHeld
    <3>2. PICK i \in DOMAIN wqs_pending : wqs_pending[i] = <<s, u>>
      BY <3>1 DEF Range
    <3>3. i \in 1..Len(wqs_pending)  BY <3>2 DEF TypeOK
    <3> QED  BY <2>0, <3>2, <3>3 DEF NonePending
  <2>3. \A u \in Writes : sub'[u][s].ph # "pending"
    BY <1>0, <2>0, <2>2
  <2>4. LockInv'
    <3>1. StripeExclusive'
      BY <2>1, <1>b DEF QueueInv, LockInv, StripeExclusive
    <3>2. LockHeld'
      BY <2>1, <2>3, <1>b, <2>0 DEF QueueInv, LockInv, LockHeld
    <3> QED  BY <3>1, <3>2 DEF LockInv
  <2>5. PendingInv'
    <3>0. DOMAIN wqs_pending = 1..Len(wqs_pending)  BY DEF TypeOK
    <3>1. \A i \in DOMAIN wqs_pending :
             /\ wqs_pending[i][2] \in Writes /\ wqs_pending[i][1] \in Stripes
             /\ wqs_pending[i][1] # s
      <4>1. \A i \in DOMAIN wqs_pending :
               wqs_pending[i][2] \in Writes /\ wqs_pending[i][1] \in Stripes
        BY DEF TypeOK
      <4>2. \A i \in DOMAIN wqs_pending : wqs_pending[i][1] # s
        BY <3>0, <2>0 DEF NonePending
      <4> QED  BY <4>1, <4>2
    <3> QED  BY <3>1, <1>b, <2>0 DEF QueueInv, PendingInv
  <2>6. BusyInv'
    BY <1>b, <1>c, <2>1, <2>3 DEF BusyInv
  <2> QED  BY <2>4, <2>5, <2>6 DEF QueueInv
<1>2. ASSUME NEW i \in 1..Len(wqs_pending), NEW v \in Writes \ {w},
             HandsOver(w, s, i, v, coh)
      PROVE  QueueInv'
  <2>0. /\ wqs_pending[i] = <<s, v>>
        /\ sub[v][s].ph = "pending" /\ Span[v][s] # {}
        /\ wqs_pending' = SwapErase(wqs_pending, i)
        /\ locker' = locker
        /\ sub'[v][s] = Process(v, s, coh)
        /\ \A u \in Writes : u \notin {v, w} => sub'[u][s] = sub[u][s]
    BY <1>2 DEF HandsOver
  <2> DEFINE q == wqs_pending
  <2>1. Holds(v, s)'  BY <2>0, ProcessTypeOK DEF Holds
  <2>2. \A u \in Writes : Holds(u, s)' => u = v
    BY <2>0, <1>0, <1>a DEF Holds
  <2>3. \A u \in Writes : sub'[u][s].ph = "pending" =>
           u \notin {v, w} /\ sub[u][s].ph = "pending"
    BY <2>0, <1>0, <2>1 DEF Holds
  <2>4. q \in Seq(Stripes \X Writes) /\ DOMAIN q = 1..Len(q) /\ Len(q) \in Nat
    BY DEF TypeOK
  <2>5. /\ DOMAIN q' = 1..(Len(q) - 1)
        /\ \A j \in 1..Len(q) : j # i => \E n \in 1..(Len(q) - 1) : q'[n] = q[j]
        /\ \A n \in 1..(Len(q) - 1) : q'[n] = q[IF n = i THEN Len(q) ELSE n]
    <3>1. SwapErase(q, i) \in Seq(Stripes \X Writes)
          /\ Len(SwapErase(q, i)) = Len(q) - 1
      BY <2>4, SwapEraseType
    <3>2. DOMAIN SwapErase(q, i) = 1..(Len(q) - 1)  BY <3>1
    <3>3. \A j \in 1..Len(q) : j # i =>
             \E n \in 1..(Len(q) - 1) : SwapErase(q, i)[n] = q[j]
      BY <2>4, SwapEraseKeepsOthers
    <3>4. \A n \in 1..(Len(q) - 1) :
             SwapErase(q, i)[n] = q[IF n = i THEN Len(q) ELSE n]
      BY DEF SwapErase
    <3> QED  BY <3>2, <3>3, <3>4, <2>0
  <2>6. LockInv'
    <3>1. StripeExclusive'
      BY <2>2, <1>b DEF QueueInv, LockInv, StripeExclusive
    <3>2. \A t \in Stripes : t \in locker' <=> \E u \in Writes : Holds(u, t)'
      BY <2>1, <1>b, <1>a, <2>0 DEF QueueInv, LockInv, LockHeld
    <3>3. ASSUME NEW u \in Writes, NEW t \in Stripes, sub'[u][t].ph = "pending"
          PROVE  t \in locker' /\ <<t, u>> \in Range(wqs_pending)'
      <4>1. sub[u][t].ph = "pending" /\ (t = s => u # v)
        BY <3>3, <2>3, <1>b
      <4>2. t \in locker /\ <<t, u>> \in Range(q)
        BY <4>1 DEF QueueInv, LockInv, LockHeld
      <4>3. PICK j \in 1..Len(q) : q[j] = <<t, u>>
        BY <4>2, <2>4 DEF Range
      <4>4. j # i  BY <4>1, <4>3, <2>0
      <4>5. PICK n \in 1..(Len(q) - 1) : q'[n] = <<t, u>>
        BY <4>3, <4>4, <2>5
      <4> QED  BY <4>2, <4>5, <2>5, <2>0 DEF Range
    <3> QED  BY <3>1, <3>2, <3>3 DEF LockInv, LockHeld
  <2>7. PendingInv'
    <3>1. ASSUME NEW n \in DOMAIN q'
          PROVE  sub'[q'[n][2]][q'[n][1]].ph = "pending"
      <4>1. PICK j \in 1..Len(q) : j # i /\ q'[n] = q[j]
        <5> DEFINE j == IF n = i THEN Len(q) ELSE n
        <5>1. n \in 1..(Len(q) - 1)  BY <2>5
        <5>2. j \in 1..Len(q) /\ j # i
          <6>1. CASE n = i  BY <5>1, <6>1, <2>4
          <6>2. CASE n # i  BY <5>1, <6>2, <2>4
          <6> QED  BY <6>1, <6>2
        <5>3. q'[n] = q[j]  BY <5>1, <2>5
        <5> QED  BY <5>2, <5>3
      <4>2. q[j][2] \in Writes /\ q[j][1] \in Stripes /\ q[j] = <<q[j][1], q[j][2]>>
        BY <2>4
      <4>3. q[j] # <<s, v>>
        BY <4>1, <2>0, <2>4 DEF QueueInv, PendingInv
      <4>4. sub[q[j][2]][q[j][1]].ph = "pending"
        BY <2>4 DEF QueueInv, PendingInv
      <4>5. CASE q[j][1] # s
        BY <4>1, <4>2, <4>4, <4>5, <1>b
      <4>6. CASE q[j][1] = s
        <5>1. q[j][2] # v  BY <4>2, <4>3, <4>6
        <5>2. q[j][2] # w  BY <4>4, <4>6 DEF Holds
        <5> QED  BY <4>1, <4>2, <4>4, <4>6, <5>1, <5>2, <2>0
      <4> QED  BY <4>5, <4>6
    <3>2. ASSUME NEW m \in DOMAIN q', NEW n \in DOMAIN q', q'[m] = q'[n]
          PROVE  m = n
      <4> DEFINE at(x) == IF x = i THEN Len(q) ELSE x
      <4>1. m \in 1..(Len(q) - 1) /\ n \in 1..(Len(q) - 1)  BY <2>5
      <4>2. at(m) \in 1..Len(q) /\ at(n) \in 1..Len(q)  BY <4>1, <2>4
      <4>3. q[at(m)] = q[at(n)]  BY <3>2, <4>1, <2>5
      <4>4. at(m) = at(n)
        BY <4>2, <4>3, <2>4 DEF QueueInv, PendingInv
      <4> QED  BY <4>1, <4>4, <2>4
    <3> QED  BY <3>1, <3>2 DEF PendingInv
  <2>8. BusyInv'
    <3> SUFFICES ASSUME NEW u \in Writes, NEW t \in Stripes,
                        Holds(u, t)' \/ sub'[u][t].ph = "pending"
                 PROVE  wq'[u].st = "busy" /\ t \in Touched(Span[u])
      BY DEF BusyInv
    <3>1. Holds(u, t) \/ sub[u][t].ph = "pending"
      BY <1>b, <2>2, <2>3, <2>0
    <3> QED  BY <3>1, <1>c
  <2> QED  BY <2>6, <2>7, <2>8 DEF QueueInv
<1> QED  BY <1>1, <1>2, FinishEffect

-----------------------------------------------------------------------------
(* The content of the stripes *)

\* A completion in stripe s touches no other stripe.
SameElsewhere(s) ==
    \A t \in Stripes : t # s => /\ data'[t] = data[t] /\ par'[t] = par[t]
                                /\ t \in coherency' <=> t \in coherency

\* A write that starts in a stripe whose flag is right knows what WorkOK says.
LEMMA ProcessWorkOK ==
    ASSUME NEW w \in Writes, NEW s \in Stripes, Span[w][s] # {},
           sub'[w][s] = Process(w, s, coherency'),
           s \in coherency' => par'[s] = ParityOf(data'[s])
    PROVE  WorkOK(w, s)'
<1> DEFINE cs == Span[w][s]
           b  == sub'[w][s]
<1>1. cs \in SUBSET Cells  BY SpanAssumption
<1>2. /\ \A c \in cs : StripOf[c] \in StripsOf(cs)
      /\ \A c \in Cells : StripOf[c] \in StripsOf(Cells)
      /\ P \notin StripsOf(cs) /\ P \notin StripsOf(Cells)
  BY <1>1, CellsAssumption, StripsAssumption DEF StripsOf
<1>3. b.todo # {}  BY ProcessTypeOK
<1>4. CASE cs # Cells /\ s \in coherency'
  <2>1. b.ph = "rd_coh" /\ b.todo = StripsOf(cs) /\ ~b.derr /\ ~b.perr
    BY <1>4 DEF Process, SubQuery
  <2> QED  BY <1>2, <1>3, <1>4, <2>1 DEF WorkOK
<1>5. CASE cs # Cells /\ s \notin coherency'
  <2>1. b.ph = "rd_inc" /\ b.todo = StripsOf(Cells) /\ ~b.derr /\ ~b.perr
    BY <1>5 DEF Process, SubQuery
  <2> QED  BY <1>2, <1>3, <1>5, <2>1 DEF WorkOK
<1>6. CASE cs = Cells
  <2>1. /\ b.ph \in Writing /\ b.todo = StripsOf(Cells) \cup {P}
        /\ ~b.derr /\ ~b.perr /\ b.pbuf = {<<c, w>> : c \in Cells}
    BY <1>6 DEF Process, SubQuery
  <2>2. b.pbuf = ParityOf(Over(data'[s], cs, w))
    BY <1>6, <2>1 DEF ParityOf, Over
  <2> QED  BY <1>2, <1>3, <1>6, <2>1, <2>2 DEF WorkOK
<1> QED  BY <1>4, <1>5, <1>6

\* What a write knows of its stripe depends on that stripe alone.
LEMMA WorkOKElsewhere ==
    ASSUME NEW w \in Writes, NEW s \in Stripes, sub'[w][s] = sub[w][s],
           data'[s] = data[s], par'[s] = par[s],
           s \in coherency' <=> s \in coherency, WorkOK(w, s)
    PROVE  WorkOK(w, s)'
BY DEF WorkOK

\* A part that goes on keeps what is known of every stripe, if what it knows of
\* its own is right.
LEMMA ContinueKeepsStripes ==
    ASSUME TypeOK, QueueInv, StripeInv, NEW w \in Writes, NEW s \in Stripes,
           Holds(w, s), NEW b \in SubQueries, Continue(w, s, b),
           SameElsewhere(s), WorkOK(w, s)'
    PROVE  StripeInv'
<1>1. \A u \in Writes, t \in Stripes : t # s => sub'[u][t] = sub[u][t]
  BY DEF Continue, TypeOK
<1>2. \A u \in Writes : u # w => sub'[u][s] = sub[u][s]
  BY DEF Continue, TypeOK
<1>3. s \in locker' /\ locker' = locker
  BY DEF QueueInv, LockInv, LockHeld, Continue
<1>4. ASSUME NEW u \in Writes, NEW t \in Stripes, Holds(u, t)'
      PROVE  WorkOK(u, t)'
  <2>1. CASE t # s
    <3>1. Holds(u, t)  BY <1>1, <1>4, <2>1 DEF Holds
    <3> QED  BY <1>1, <2>1, <3>1, WorkOKElsewhere DEF StripeInv, SameElsewhere
  <2>2. CASE t = s /\ u # w
    BY <1>2, <1>4, <2>2 DEF Holds, QueueInv, LockInv, StripeExclusive
  <2> QED  BY <2>1, <2>2
<1>5. ASSUME NEW t \in Stripes, t \in coherency', t \notin locker'
      PROVE  par'[t] = ParityOf(data'[t])
  BY <1>3, <1>5 DEF StripeInv, SameElsewhere
<1> QED  BY <1>4, <1>5 DEF StripeInv

\* A part that ends keeps what is known of every stripe, if it leaves the flag
\* of its own right.
LEMMA FinishKeepsStripes ==
    ASSUME TypeOK, QueueInv, StripeInv, NEW w \in Writes, NEW s \in Stripes,
           Holds(w, s), NEW err \in BOOLEAN, Finish(w, s, err, coherency'),
           SameElsewhere(s),
           s \in coherency' => par'[s] = ParityOf(data'[s])
    PROVE  StripeInv'
<1>0. /\ \A u \in Writes, t \in Stripes : t # s => sub'[u][t] = sub[u][t]
      /\ sub'[w][s].ph = "done"
  BY FinishEffect
<1>1. \A t \in Stripes : t # s => (t \in locker' <=> t \in locker)
  BY FinishEffect DEF Unlocks, HandsOver
<1>2. \A u \in Writes : Holds(u, s) => u = w
  BY DEF QueueInv, LockInv, StripeExclusive
<1>3. ASSUME NEW u \in Writes, Holds(u, s)'
      PROVE  WorkOK(u, s)'
  <2>1. u # w  BY <1>0, <1>3 DEF Holds
  <2>2. ~Holds(u, s)  BY <1>2, <2>1
  <2>3. sub'[u][s] # sub[u][s]  BY <1>3, <2>2 DEF Holds
  <2>4. PICK i \in 1..Len(wqs_pending), v \in Writes \ {w} :
           HandsOver(w, s, i, v, coherency')
    BY <2>1, <2>3, FinishEffect DEF Unlocks
  <2>5. u = v  BY <2>1, <2>3, <2>4 DEF HandsOver
  <2> QED  BY <2>4, <2>5, ProcessWorkOK DEF HandsOver
<1>4. ASSUME NEW u \in Writes, NEW t \in Stripes, t # s, Holds(u, t)'
      PROVE  WorkOK(u, t)'
  <2>1. Holds(u, t)  BY <1>0, <1>4 DEF Holds
  <2> QED  BY <1>0, <1>4, <2>1, WorkOKElsewhere DEF StripeInv, SameElsewhere
<1>5. ASSUME NEW t \in Stripes, t \in coherency', t \notin locker'
      PROVE  par'[t] = ParityOf(data'[t])
  BY <1>1, <1>5 DEF StripeInv, SameElsewhere
<1> QED  BY <1>3, <1>4, <1>5 DEF StripeInv

-----------------------------------------------------------------------------
(* One lemma per completion *)

\* The count of device errors stays within its bound.
LEMMA OutcomeTypeOK ==
    ASSUME TypeOK, NEW ok \in BOOLEAN, Outcome(ok)
    PROVE  errors' \in 0..MaxErrors
BY BoundsAssumption DEF TypeOK, Outcome

\* The completer of the data read (new_rdq_completer, both paths) keeps the invariant.
LEMMA DataReadDoneKeeps ==
    ASSUME WorkInv, NEW w \in Writes, NEW s \in Stripes, NEW k \in Strips,
           NEW ok \in BOOLEAN, DataReadDone(w, s, k, ok)
    PROVE  WorkInv'
<1> DEFINE b  == sub[w][s]
           b1 == [b EXCEPT !.todo = @ \ {k}, !.derr = @ \/ ~ok,
                           !.buf = [c \in Cells |->
                              IF ok /\ StripOf[c] = k THEN data[s][c] ELSE @[c]]]
           cs == Span[w][s]
           bp == [b1 EXCEPT !.ph = "rp_coh", !.todo = {P}]
           bw == [b1 EXCEPT !.ph = "wr_inc",
                            !.todo = StripsOf(cs) \cup {P},
                            !.pbuf = ParityOf(Over(b1.buf, cs, w))]
<1>1. TypeOK /\ QueueInv /\ StripeInv  BY DEF WorkInv, QueueInv
<1>2. /\ b \in SubQueries /\ b.ph \in Reading /\ k \in b.todo
      /\ coherency' = coherency /\ rq' = rq /\ data' = data /\ par' = par
      /\ restarts' = restarts
  BY <1>1 DEF DataReadDone, TypeOK
<1>3. errors' \in 0..MaxErrors
  BY <1>1, OutcomeTypeOK DEF DataReadDone
<1>4. Holds(w, s)  BY <1>2 DEF Holds
<1>5. WorkOK(w, s)  BY <1>1, <1>4 DEF StripeInv
<1>6. SameElsewhere(s)  BY <1>2 DEF SameElsewhere
<1>7. cs \in SUBSET Cells /\ cs # {}
  BY <1>1, <1>4, SpanAssumption DEF QueueInv, BusyInv, Touched
<1>8. /\ b1 \in SubQueries /\ b1.ph = b.ph /\ b1.todo = b.todo \ {k}
      /\ b1.derr = (b.derr \/ ~ok) /\ b1.perr = b.perr /\ b1.pbuf = b.pbuf
      /\ \A c \in Cells : b1.buf[c] =
            IF ok /\ StripOf[c] = k THEN data[s][c] ELSE b.buf[c]
  <2> DEFINE nbuf == [c \in Cells |->
                        IF ok /\ StripOf[c] = k THEN data[s][c] ELSE b.buf[c]]
  <2>1. b.buf \in [Cells -> Values] /\ data[s] \in [Cells -> Values]
    BY <1>1, <1>2 DEF TypeOK, SubQueries
  <2>2. nbuf \in [Cells -> Values]  BY <2>1
  <2>3. b1 = [b EXCEPT !.todo = b.todo \ {k}, !.derr = b.derr \/ ~ok, !.buf = nbuf]
    OBVIOUS
  <2>4. b.todo \ {k} \in SUBSET (Strips \cup {P}) /\ (b.derr \/ ~ok) \in BOOLEAN
    BY <1>2 DEF SubQueries
  <2> HIDE DEF nbuf, b1, b
  <2>5. /\ b1 \in SubQueries /\ b1.ph = b.ph /\ b1.todo = b.todo \ {k}
        /\ b1.derr = (b.derr \/ ~ok) /\ b1.perr = b.perr /\ b1.pbuf = b.pbuf
        /\ b1.buf = nbuf
    BY <1>2, <2>2, <2>3, <2>4 DEF SubQueries
  <2> QED  BY <2>5 DEF nbuf
<1>9. \A c \in IF b.ph = "rd_inc" THEN Cells ELSE cs :
         ~b1.derr /\ StripOf[c] \notin b1.todo => b1.buf[c] = data[s][c]
  BY <1>2, <1>5, <1>7, <1>8 DEF WorkOK
<1> HIDE DEF b1
<1>10. StripsOf(cs) \subseteq Strips
  BY <1>7, CellsAssumption DEF StripsOf
<1>11. CASE b1.todo # {} /\ Continue(w, s, b1)
  <2>1. sub'[w][s] = b1  BY <1>1, <1>11 DEF Continue, TypeOK
  <2>2. WorkOK(w, s)'
    BY <1>2, <1>5, <1>8, <1>9, <1>11, <2>1 DEF WorkOK
  <2>3. TypeOK'
    BY <1>1, <1>2, <1>3, <1>8, <1>11, ContinueTypeOK DEF TypeOK
  <2>4. QueueInv'
    BY <1>1, <1>2, <1>4, <1>8, <1>11, ContinueKeepsQueue
  <2>5. StripeInv'
    BY <1>1, <1>4, <1>6, <1>8, <1>11, <2>2, ContinueKeepsStripes
  <2> QED  BY <2>3, <2>4, <2>5 DEF WorkInv, QueueInv
<1>12. CASE b1.todo = {} /\ b1.derr /\ Finish(w, s, TRUE, coherency)
  <2>1. s \in coherency' => par'[s] = ParityOf(data'[s])
    BY <1>2, <1>5 DEF WorkOK
  <2>2. Finish(w, s, TRUE, coherency')  BY <1>2, <1>12
  <2>3. TypeOK'
    BY <1>1, <1>2, <1>3, <1>12, FinishTypeOK DEF TypeOK, QueueInv
  <2>4. QueueInv'
    BY <1>1, <1>4, <1>12, FinishKeepsQueue
  <2>5. StripeInv'
    BY <1>1, <1>4, <1>6, <2>1, <2>2, FinishKeepsStripes
  <2> QED  BY <2>3, <2>4, <2>5 DEF WorkInv, QueueInv
<1>13. CASE b1.todo = {} /\ ~b1.derr /\ b.ph = "rd_coh" /\ Continue(w, s, bp)
  <2>1. /\ bp \in SubQueries /\ bp.ph = "rp_coh" /\ bp.todo = {P}
        /\ ~bp.derr /\ bp.perr = b.perr /\ bp.buf = b1.buf
    BY <1>8, <1>13 DEF SubQueries
  <2> HIDE DEF bp
  <2>2. sub'[w][s] = bp  BY <1>1, <1>13 DEF Continue, TypeOK
  <2>3. WorkOK(w, s)'
    BY <1>2, <1>5, <1>9, <1>13, <2>1, <2>2 DEF WorkOK
  <2>4. TypeOK'
    BY <1>1, <1>2, <1>3, <1>13, <2>1, ContinueTypeOK DEF TypeOK
  <2>5. QueueInv'
    BY <1>1, <1>4, <1>13, <2>1, ContinueKeepsQueue
  <2>6. StripeInv'
    BY <1>1, <1>4, <1>6, <1>13, <2>1, <2>3, ContinueKeepsStripes
  <2> QED  BY <2>4, <2>5, <2>6 DEF WorkInv, QueueInv
<1>14. CASE b1.todo = {} /\ ~b1.derr /\ b.ph = "rd_inc" /\ Continue(w, s, bw)
  <2>1. ParityOf(Over(b1.buf, cs, w)) = ParityOf(Over(data[s], cs, w))
    BY <1>9, <1>14 DEF ParityOf, Over
  <2>2. ParityOf(Over(b1.buf, cs, w)) \in SUBSET Tokens
    BY <1>8, <1>7 DEF ParityOf, Over, Tokens, Values, SubQueries
  <2>3. /\ bw \in SubQueries /\ bw.ph = "wr_inc"
        /\ bw.todo = StripsOf(cs) \cup {P} /\ ~bw.derr /\ bw.perr = b.perr
        /\ bw.pbuf = ParityOf(Over(data[s], cs, w))
    BY <1>8, <1>10, <1>14, <2>1, <2>2 DEF SubQueries
  <2> HIDE DEF bw
  <2>4. sub'[w][s] = bw  BY <1>1, <1>14 DEF Continue, TypeOK
  <2>5. \A c \in cs : StripOf[c] \in bw.todo  BY <2>3 DEF StripsOf
  <2>6. WorkOK(w, s)'
    BY <1>2, <1>5, <2>3, <2>4, <2>5 DEF WorkOK
  <2>7. TypeOK'
    BY <1>1, <1>2, <1>3, <1>14, <2>3, ContinueTypeOK DEF TypeOK
  <2>8. QueueInv'
    BY <1>1, <1>4, <1>14, <2>3, ContinueKeepsQueue
  <2>9. StripeInv'
    BY <1>1, <1>4, <1>6, <1>14, <2>3, <2>6, ContinueKeepsStripes
  <2> QED  BY <2>7, <2>8, <2>9 DEF WorkInv, QueueInv
<1> QED  BY <1>11, <1>12, <1>13, <1>14 DEF DataReadDone, b1

\* The completer of the parity read (new_rpq_completer) keeps the invariant: the
\* parity it computes is that of the stripe with the new data in place.
LEMMA ParityReadDoneKeeps ==
    ASSUME WorkInv, NEW w \in Writes, NEW s \in Stripes, NEW ok \in BOOLEAN,
           ParityReadDone(w, s, ok)
    PROVE  WorkInv'
<1> DEFINE b  == sub[w][s]
           cs == Span[w][s]
           bw == [b EXCEPT !.ph = "wr_coh",
                           !.todo = StripsOf(cs) \cup {P},
                           !.pbuf = ParityTo(par[s], b.buf, cs, w)]
<1>1. TypeOK /\ QueueInv /\ StripeInv  BY DEF WorkInv, QueueInv
<1>2. /\ b \in SubQueries /\ b.ph = "rp_coh" /\ P \in b.todo
      /\ coherency' = coherency /\ rq' = rq /\ data' = data /\ par' = par
      /\ restarts' = restarts
  BY <1>1 DEF ParityReadDone, TypeOK
<1>3. errors' \in 0..MaxErrors
  BY <1>1, OutcomeTypeOK DEF ParityReadDone
<1>4. Holds(w, s)  BY <1>2 DEF Holds
<1>5. WorkOK(w, s)  BY <1>1, <1>4 DEF StripeInv
<1>6. SameElsewhere(s)  BY <1>2 DEF SameElsewhere
<1>7. cs \in SUBSET Cells
  BY SpanAssumption
<1>8. StripsOf(cs) \subseteq Strips
  BY <1>7, CellsAssumption DEF StripsOf
<1>9. CASE ~ok /\ Finish(w, s, TRUE, coherency)
  <2>1. s \in coherency' => par'[s] = ParityOf(data'[s])
    BY <1>2, <1>5 DEF WorkOK
  <2>2. Finish(w, s, TRUE, coherency')  BY <1>2, <1>9
  <2>3. TypeOK'
    BY <1>1, <1>2, <1>3, <1>9, FinishTypeOK DEF TypeOK, QueueInv
  <2>4. QueueInv'
    BY <1>1, <1>4, <1>9, FinishKeepsQueue
  <2>5. StripeInv'
    BY <1>1, <1>4, <1>6, <2>1, <2>2, FinishKeepsStripes
  <2> QED  BY <2>3, <2>4, <2>5 DEF WorkInv, QueueInv
<1>10. CASE ok /\ Continue(w, s, bw)
  <2>1. ParityTo(par[s], b.buf, cs, w) = ParityOf(Over(data[s], cs, w))
    <3>1. par[s] = ParityOf(data[s])  BY <1>2, <1>5 DEF WorkOK
    <3>2. \A c \in cs : StripOf[c] \notin b.todo
      BY <1>2, <1>5, <1>7, StripsAssumption, CellsAssumption DEF WorkOK
    <3>3. \A c \in cs : b.buf[c] = data[s][c]
      BY <1>2, <1>5, <3>2 DEF WorkOK
    <3> QED  BY <1>7, <3>1, <3>3, ParityToIsRenewal
  <2>2. ParityOf(Over(data[s], cs, w)) \in SUBSET Tokens
    BY <1>1 DEF ParityOf, Over, Tokens, Values, TypeOK
  <2>3. /\ bw \in SubQueries /\ bw.ph = "wr_coh"
        /\ bw.todo = StripsOf(cs) \cup {P} /\ bw.derr = b.derr /\ bw.perr = b.perr
        /\ bw.pbuf = ParityOf(Over(data[s], cs, w))
    BY <1>2, <1>8, <2>1, <2>2 DEF SubQueries
  <2> HIDE DEF bw
  <2>4. sub'[w][s] = bw  BY <1>1, <1>10 DEF Continue, TypeOK
  <2>5. \A c \in cs : StripOf[c] \in bw.todo  BY <2>3 DEF StripsOf
  <2>6. WorkOK(w, s)'
    BY <1>2, <1>5, <2>3, <2>4, <2>5 DEF WorkOK
  <2>7. TypeOK'
    BY <1>1, <1>2, <1>3, <1>10, <2>3, ContinueTypeOK DEF TypeOK
  <2>8. QueueInv'
    BY <1>1, <1>4, <1>10, <2>3, ContinueKeepsQueue
  <2>9. StripeInv'
    BY <1>1, <1>4, <1>6, <1>10, <2>3, <2>6, ContinueKeepsStripes
  <2> QED  BY <2>7, <2>8, <2>9 DEF WorkInv, QueueInv
<1> QED  BY <1>9, <1>10 DEF ParityReadDone

\* The end of a device write: b is the query with that operation taken off.
LEMMA WriteStepKeeps ==
    ASSUME WorkInv, NEW w \in Writes, NEW s \in Stripes,
           sub[w][s].ph \in Writing,
           NEW b \in SubQueries, b.ph = sub[w][s].ph, WriteStep(w, s, b),
           rq' = rq, restarts' = restarts, errors' \in 0..MaxErrors,
           data' \in [Stripes -> [Cells -> Values]],
           par' \in [Stripes -> SUBSET Tokens],
           \A t \in Stripes : t # s => data'[t] = data[t] /\ par'[t] = par[t],
           b.pbuf = ParityOf(Over(data'[s], Span[w][s], w)),
           ~b.derr => \A c \in Span[w][s] :
                         StripOf[c] \notin b.todo => data'[s][c] = w,
           P \notin b.todo /\ ~b.perr => par'[s] = b.pbuf,
           P \in b.todo => ~b.perr
    PROVE  WorkInv'
<1> DEFINE cs == Span[w][s]
<1>1. TypeOK /\ QueueInv /\ StripeInv  BY DEF WorkInv, QueueInv
<1>2. coherency' = FlagAfter(s, b)  BY DEF WriteStep
<1>3. Holds(w, s)  BY DEF Holds
<1>4. coherency' \subseteq Stripes
      /\ \A t \in Stripes : t # s => (t \in coherency' <=> t \in coherency)
  BY <1>1, <1>2 DEF FlagAfter, TypeOK
<1>5. SameElsewhere(s)  BY <1>4 DEF SameElsewhere
<1>6. CASE b.todo # {} /\ Continue(w, s, b)
  <2>1. sub'[w][s] = b  BY <1>1, <1>6 DEF Continue, TypeOK
  <2>2. b.ph = "wr_coh" /\ s \in coherency' =>
           ~b.perr /\ (b.derr => b.todo \cap Strips # {})
    BY <1>2 DEF FlagAfter
  <2>3. WorkOK(w, s)'
    BY <1>6, <2>1, <2>2 DEF WorkOK
  <2>4. TypeOK'
    BY <1>1, <1>4, <1>6, ContinueTypeOK DEF TypeOK
  <2>5. QueueInv'
    BY <1>1, <1>3, <1>6, ContinueKeepsQueue
  <2>6. StripeInv'
    BY <1>1, <1>3, <1>5, <1>6, <2>3, ContinueKeepsStripes
  <2> QED  BY <2>4, <2>5, <2>6 DEF WorkInv, QueueInv
<1>7. CASE b.todo = {} /\ Finish(w, s, b.derr \/ b.perr, coherency')
  <2>1. (b.derr \/ b.perr) \in BOOLEAN  BY DEF SubQueries
  <2>2. ASSUME s \in coherency' PROVE par'[s] = ParityOf(data'[s])
    <3>1. ~b.derr /\ ~b.perr  BY <1>2, <1>7, <2>2 DEF FlagAfter
    <3>2. \A c \in cs : data'[s][c] = w  BY <1>7, <3>1
    <3>3. ParityOf(Over(data'[s], cs, w)) = ParityOf(data'[s])
      BY <3>2 DEF ParityOf, Over
    <3> QED  BY <1>7, <3>1, <3>3
  <2>3. TypeOK'
    BY <1>1, <1>4, <1>7, <2>1, FinishTypeOK DEF TypeOK, QueueInv
  <2>4. QueueInv'
    BY <1>1, <1>3, <1>7, <2>1, FinishKeepsQueue
  <2>5. StripeInv'
    BY <1>1, <1>3, <1>5, <1>7, <2>1, <2>2, FinishKeepsStripes
  <2> QED  BY <2>3, <2>4, <2>5 DEF WorkInv, QueueInv
<1> QED  BY <1>6, <1>7 DEF WriteStep

\* The answer to a data strip's write keeps the invariant, failed or not.
LEMMA DataWriteDoneKeeps ==
    ASSUME WorkInv, NEW w \in Writes, NEW s \in Stripes, NEW k \in Strips,
           NEW ok \in BOOLEAN, DataWriteDone(w, s, k, ok)
    PROVE  WorkInv'
<1> DEFINE b  == sub[w][s]
           b1 == [b EXCEPT !.todo = @ \ {k}, !.derr = @ \/ ~ok]
           ks == {c \in Span[w][s] : StripOf[c] = k}
<1>1. TypeOK /\ QueueInv /\ StripeInv  BY DEF WorkInv, QueueInv
<1>2. /\ b \in SubQueries /\ b.ph \in Writing /\ k \in b.todo
      /\ rq' = rq /\ par' = par /\ restarts' = restarts
      /\ WriteStep(w, s, b1)
  BY <1>1 DEF DataWriteDone, TypeOK
<1>3. errors' \in 0..MaxErrors
  BY <1>1, OutcomeTypeOK DEF DataWriteDone
<1>4. WorkOK(w, s)  BY <1>1, <1>2 DEF StripeInv, Holds
<1>5. PICK ws \in SUBSET ks : /\ data' = [data EXCEPT ![s] = Over(data[s], ws, w)]
                              /\ ok => ws = ks
  BY DEF DataWriteDone
<1>6. /\ b1 \in SubQueries /\ b1.ph = b.ph /\ b1.todo = b.todo \ {k}
      /\ b1.derr = (b.derr \/ ~ok) /\ b1.perr = b.perr /\ b1.pbuf = b.pbuf
  BY <1>2 DEF SubQueries
<1> HIDE DEF b1
<1>7. /\ data'[s] = Over(data[s], ws, w)
      /\ \A t \in Stripes : t # s => data'[t] = data[t]
  BY <1>1, <1>5 DEF TypeOK
<1>8. data' \in [Stripes -> [Cells -> Values]]
  BY <1>1, <1>5 DEF TypeOK, Over, Values
<1>9. Span[w][s] \in SUBSET Cells /\ ws \subseteq Span[w][s]
  BY SpanAssumption
<1>10. b1.pbuf = ParityOf(Over(data'[s], Span[w][s], w))
  <2>1. Over(data'[s], Span[w][s], w) = Over(data[s], Span[w][s], w)
    BY <1>7, <1>9 DEF Over
  <2> QED  BY <1>2, <1>4, <1>6, <2>1 DEF WorkOK
<1>11. ASSUME ~b1.derr, NEW c \in Span[w][s], StripOf[c] \notin b1.todo
       PROVE  data'[s][c] = w
  <2>1. ~b.derr /\ ok  BY <1>6, <1>11, <1>2 DEF SubQueries
  <2>2. CASE StripOf[c] = k
    BY <1>5, <1>7, <1>9, <2>1, <2>2 DEF Over
  <2>3. CASE StripOf[c] # k
    <3>1. data[s][c] = w  BY <1>2, <1>4, <1>6, <1>11, <2>1, <2>3 DEF WorkOK
    <3> QED  BY <1>7, <1>9, <3>1 DEF Over
  <2> QED  BY <2>2, <2>3
<1>12. /\ P \notin b1.todo /\ ~b1.perr => par'[s] = b1.pbuf
       /\ P \in b1.todo => ~b1.perr
  BY <1>2, <1>4, <1>6, StripsAssumption DEF WorkOK
<1>13. par' \in [Stripes -> SUBSET Tokens]  BY <1>1, <1>2 DEF TypeOK
<1> QED
  BY <1>2, <1>3, <1>6, <1>7, <1>8, <1>10, <1>11, <1>12, <1>13, WriteStepKeeps

\* The answer to the parity strip's write keeps the invariant, failed or not.
LEMMA ParityWriteDoneKeeps ==
    ASSUME WorkInv, NEW w \in Writes, NEW s \in Stripes, NEW ok \in BOOLEAN,
           ParityWriteDone(w, s, ok)
    PROVE  WorkInv'
<1> DEFINE b  == sub[w][s]
           b1 == [b EXCEPT !.todo = @ \ {P}, !.perr = ~ok]
<1>1. TypeOK /\ QueueInv /\ StripeInv  BY DEF WorkInv, QueueInv
<1>2. /\ b \in SubQueries /\ b.ph \in Writing /\ P \in b.todo
      /\ rq' = rq /\ data' = data /\ restarts' = restarts
      /\ WriteStep(w, s, b1)
  BY <1>1 DEF ParityWriteDone, TypeOK
<1>3. errors' \in 0..MaxErrors
  BY <1>1, OutcomeTypeOK DEF ParityWriteDone
<1>4. WorkOK(w, s)  BY <1>1, <1>2 DEF StripeInv, Holds
<1>5. PICK p \in {par[s], b.pbuf} : /\ par' = [par EXCEPT ![s] = p]
                                    /\ ok => p = b.pbuf
  BY DEF ParityWriteDone
<1>6. /\ b1 \in SubQueries /\ b1.ph = b.ph /\ b1.todo = b.todo \ {P}
      /\ b1.derr = b.derr /\ b1.perr = ~ok /\ b1.pbuf = b.pbuf
  BY <1>2 DEF SubQueries
<1> HIDE DEF b1
<1>7. /\ par'[s] = p
      /\ \A t \in Stripes : t # s => par'[t] = par[t]
      /\ par' \in [Stripes -> SUBSET Tokens]
  BY <1>1, <1>2, <1>5 DEF TypeOK, SubQueries
<1>8. b1.pbuf = ParityOf(Over(data'[s], Span[w][s], w))
  BY <1>2, <1>4, <1>6 DEF WorkOK
<1>9. ~b1.derr => \A c \in Span[w][s] :
                    StripOf[c] \notin b1.todo => data'[s][c] = w
  <2>1. \A c \in Span[w][s] : StripOf[c] # P
    BY SpanAssumption, CellsAssumption, StripsAssumption
  <2> QED  BY <1>2, <1>4, <1>6, <2>1 DEF WorkOK
<1>10. /\ P \notin b1.todo /\ ~b1.perr => par'[s] = b1.pbuf
       /\ P \in b1.todo => ~b1.perr
  BY <1>5, <1>6, <1>7
<1>11. data' \in [Stripes -> [Cells -> Values]]  BY <1>1, <1>2 DEF TypeOK
<1> QED
  BY <1>2, <1>3, <1>6, <1>7, <1>8, <1>9, <1>10, <1>11, WriteStepKeeps

-----------------------------------------------------------------------------
(* Client requests, restart and the initial state *)

\* acceptor::process(wq), which locks or queues for every stripe of a write, keeps
\* the invariant.
LEMMA WriteKeeps ==
    ASSUME WorkInv, NEW w \in Writes, Write(w)
    PROVE  WorkInv'
<1> DEFINE T    == Touched(Span[w])
           busy == T \cap locker
           N    == Cardinality(busy)
           Q    == wqs_pending
<1>1. TypeOK /\ QueueInv /\ StripeInv  BY DEF WorkInv, QueueInv
<1>2. /\ wq[w].st = "new" /\ locker' = locker \cup T
      /\ fsm' = fsm /\ coherency' = coherency /\ rq' = rq /\ data' = data
      /\ par' = par /\ errors' = errors /\ restarts' = restarts
      /\ wq' = [wq EXCEPT ![w] = [st |-> "busy", err |-> FALSE,
                                  before |-> Answered]]
  BY DEF Write
<1>3. PICK q \in [1..N -> busy] :
         /\ \A s \in busy : \E i \in DOMAIN q : q[i] = s
         /\ \A i, j \in DOMAIN q : i < j => q[i] < q[j]
         /\ wqs_pending' = wqs_pending \o [i \in DOMAIN q |-> <<q[i], w>>]
  BY DEF Write, MustWait
<1>4. N \in Nat
  BY StripesAssumption, FS_Subset, FS_CardinalityType DEF Touched
<1>5. \A u \in Writes : u # w => sub'[u] = sub[u] /\ wq'[u] = wq[u]
  BY <1>1, <1>2 DEF Write, TypeOK
<1>6. \A s \in Stripes : sub'[w][s] = IF s \in busy THEN Idle("pending")
                                      ELSE IF s \in T THEN Process(w, s, coherency)
                                      ELSE Idle("none")
  BY <1>1 DEF Write, MustWait, TypeOK
<1>7. \A s \in Stripes : s \in T <=> Span[w][s] # {}  BY DEF Touched
<1>8. \A s \in Stripes : ~Holds(w, s) /\ sub[w][s].ph # "pending"
  BY <1>1, <1>2 DEF QueueInv, BusyInv
<1>9. \A s \in Stripes :
         /\ sub'[w][s] \in SubQueries
         /\ Holds(w, s)' <=> s \in T \ locker
         /\ sub'[w][s].ph = "pending" <=> s \in busy
  BY <1>6, <1>7, IdleTypeOK, ProcessTypeOK DEF Holds
<1>10. \A u \in Writes, s \in Stripes : u # w =>
          /\ Holds(u, s)' <=> Holds(u, s)
          /\ sub'[u][s].ph = "pending" <=> sub[u][s].ph = "pending"
  BY <1>5 DEF Holds
<1> DEFINE R == [i \in 1..N |-> <<q[i], w>>]
<1>11. R \in [1..N -> Stripes \X Writes] /\ wqs_pending' = Q \o R
  <2>1. R = [i \in DOMAIN q |-> <<q[i], w>>]  OBVIOUS
  <2>2. \A i \in 1..N : q[i] \in Stripes  BY DEF Touched
  <2> QED  BY <1>3, <2>1, <2>2
<1>12. /\ wqs_pending' \in Seq(Stripes \X Writes)
       /\ DOMAIN wqs_pending' = 1..(Len(Q) + N)
       /\ \A i \in 1..Len(Q) : wqs_pending'[i] = Q[i]
       /\ \A i \in 1..N : wqs_pending'[Len(Q) + i] = R[i]
  <2>1. Q \in Seq(Stripes \X Writes)  BY <1>1 DEF TypeOK
  <2> HIDE DEF Q, N, R
  <2> QED  BY <1>4, <1>11, <2>1, ConcatElements
<1>12b. /\ \A i \in 1..N : wqs_pending'[Len(Q) + i] = <<q[i], w>>
        /\ Len(Q) \in Nat /\ DOMAIN Q = 1..Len(Q)
        /\ Q \in Seq(Stripes \X Writes)
        /\ \A i \in 1..N : q[i] \in busy
  <2>1. Len(Q) \in Nat /\ DOMAIN Q = 1..Len(Q) /\ Q \in Seq(Stripes \X Writes)
    BY <1>1 DEF TypeOK
  <2>2. \A i \in 1..N : wqs_pending'[Len(Q) + i] = <<q[i], w>>
    <3> HIDE DEF N, Q
    <3> QED  BY <1>12
  <2>3. \A i \in 1..N : q[i] \in busy
    <3> HIDE DEF N, busy
    <3> QED  OBVIOUS
  <2> QED  BY <2>1, <2>2, <2>3
<1> HIDE DEF N
<1>13. TypeOK'
  <2>1. sub' \in [Writes -> [Stripes -> SubQueries]]
    <3>1. sub'[w] \in [Stripes -> SubQueries]
      BY <1>1, <1>6, <1>9 DEF Write, TypeOK
    <3> QED  BY <1>1, <3>1 DEF Write, TypeOK
  <2>2. wq' \in [Writes -> WriteQueries]
    BY <1>1, <1>2 DEF TypeOK, WriteQueries, Answered
  <2>3. locker' \subseteq Stripes  BY <1>1, <1>2 DEF TypeOK, Touched
  <2> QED  BY <1>1, <1>2, <1>12, <1>12b, <2>1, <2>2, <2>3 DEF TypeOK
<1>14. LockInv'
  <2>1. StripeExclusive'
    BY <1>1, <1>9, <1>10 DEF QueueInv, LockInv, StripeExclusive, LockHeld
  <2>2. \A s \in Stripes : s \in locker' <=> \E u \in Writes : Holds(u, s)'
    BY <1>1, <1>2, <1>8, <1>9, <1>10 DEF QueueInv, LockInv, LockHeld
  <2>3. ASSUME NEW u \in Writes, NEW s \in Stripes, sub'[u][s].ph = "pending"
        PROVE  s \in locker' /\ <<s, u>> \in Range(wqs_pending)'
    <3>1. CASE u # w
      <4>1. s \in locker /\ <<s, u>> \in Range(Q)
        BY <1>1, <1>10, <2>3, <3>1 DEF QueueInv, LockInv, LockHeld
      <4>2. PICK i \in 1..Len(Q) : Q[i] = <<s, u>>
        BY <1>12, <1>12b, <4>1 DEF Range
      <4>3. i \in DOMAIN wqs_pending' /\ wqs_pending'[i] = <<s, u>>
        BY <1>4, <1>12, <1>12b, <4>2
      <4> QED  BY <1>2, <4>1, <4>3 DEF Range
    <3>2. CASE u = w
      <4>1. s \in busy  BY <1>9, <2>3, <3>2
      <4>2. PICK i \in 1..N : q[i] = s  BY <1>3, <4>1
      <4>3. /\ Len(Q) + i \in DOMAIN wqs_pending'
            /\ wqs_pending'[Len(Q) + i] = <<s, u>>
        BY <1>4, <1>12, <1>12b, <3>2, <4>2
      <4> QED  BY <1>2, <4>1, <4>3 DEF Range
    <3> QED  BY <3>1, <3>2
  <2> QED  BY <2>1, <2>2, <2>3 DEF LockInv, LockHeld
<1>15. \A i \in 1..Len(Q) : /\ Q[i] \in Stripes \X Writes
                            /\ Q[i][2] # w
                            /\ sub[Q[i][2]][Q[i][1]].ph = "pending"
  BY <1>8, <1>12, <1>12b, <1>1 DEF QueueInv, PendingInv
<1>16. \A n \in DOMAIN wqs_pending' :
          \/ n \in 1..Len(Q)
          \/ \E i \in 1..N : n = Len(Q) + i
  <2> SUFFICES ASSUME NEW n \in DOMAIN wqs_pending', n \notin 1..Len(Q)
               PROVE  \E i \in 1..N : n = Len(Q) + i
    OBVIOUS
  <2>1. n - Len(Q) \in 1..N /\ n = Len(Q) + (n - Len(Q))  BY <1>4, <1>12, <1>12b
  <2> QED  BY <2>1
<1>17. PendingInv'
  <2>1. ASSUME NEW n \in DOMAIN wqs_pending'
        PROVE  sub'[wqs_pending'[n][2]][wqs_pending'[n][1]].ph = "pending"
    <3>1. CASE n \in 1..Len(Q)
      <4>1. wqs_pending'[n] = Q[n]  BY <1>12, <3>1
      <4>2. /\ Q[n][1] \in Stripes /\ Q[n][2] \in Writes /\ Q[n][2] # w
            /\ sub[Q[n][2]][Q[n][1]].ph = "pending"
        BY <1>15, <3>1
      <4>3. sub'[Q[n][2]][Q[n][1]].ph = "pending"  BY <1>10, <4>2
      <4> QED  BY <4>1, <4>3
    <3>2. ASSUME NEW i \in 1..N, n = Len(Q) + i
          PROVE  sub'[wqs_pending'[n][2]][wqs_pending'[n][1]].ph = "pending"
      <4>1. wqs_pending'[n] = <<q[i], w>> /\ q[i] \in busy  BY <1>12b, <3>2
      <4>2. q[i] \in Stripes  BY <4>1 DEF Touched
      <4>3. sub'[w][q[i]].ph = "pending"  BY <1>9, <4>1, <4>2
      <4> QED  BY <4>1, <4>3
    <3> QED  BY <1>16, <3>1, <3>2
  <2>2. ASSUME NEW m \in DOMAIN wqs_pending', NEW n \in DOMAIN wqs_pending',
               wqs_pending'[m] = wqs_pending'[n]
        PROVE  m = n
    <3>1. CASE m \in 1..Len(Q) /\ n \in 1..Len(Q)
      BY <1>1, <1>12, <1>12b, <2>2, <3>1 DEF QueueInv, PendingInv
    <3>2. ASSUME NEW i \in 1..N, NEW j \in 1..N, q[i] = q[j] PROVE i = j
      <4>1. q[i] \in Nat /\ q[j] \in Nat
        BY <1>12b, StripesAssumption DEF Touched
      <4>2. i \in DOMAIN q /\ j \in DOMAIN q /\ i \in Int /\ j \in Int
        BY <1>4
      <4>3. ~(i < j) /\ ~(j < i)  BY <1>3, <3>2, <4>1, <4>2
      <4> QED  BY <4>2, <4>3
    <3>3. ASSUME NEW i \in 1..N, NEW j \in 1..N, m = Len(Q) + i, n = Len(Q) + j
          PROVE  m = n
      <4>1. wqs_pending'[m] = <<q[i], w>> /\ wqs_pending'[n] = <<q[j], w>>
        BY <1>12b, <3>3
      <4>2. <<q[i], w>> = <<q[j], w>>  BY <2>2, <4>1
      <4>3. q[i] = q[j]  BY <4>2
      <4> QED  BY <3>2, <3>3, <4>3
    <3>4. ASSUME NEW i \in 1..N, NEW j \in 1..Len(Q),
                 wqs_pending'[Len(Q) + i] = wqs_pending'[j]
          PROVE  FALSE
      BY <1>12, <1>12b, <1>15, <3>4
    <3> QED  BY <1>16, <2>2, <3>1, <3>3, <3>4
  <2> QED  BY <2>1, <2>2 DEF PendingInv
<1>18. BusyInv'
  <2>1. wq'[w].st = "busy"  BY <1>1, <1>2 DEF TypeOK
  <2> QED  BY <1>1, <1>5, <1>9, <1>10, <2>1 DEF QueueInv, BusyInv
<1>19. StripeInv'
  <2>1. ASSUME NEW u \in Writes, NEW s \in Stripes, Holds(u, s)'
        PROVE  WorkOK(u, s)'
    <3>1. CASE u # w
      BY <1>1, <1>2, <1>5, <1>10, <2>1, <3>1, WorkOKElsewhere DEF StripeInv
    <3>2. CASE u = w
      <4>1. s \in T \ locker  BY <1>9, <2>1, <3>2
      <4>2. sub'[w][s] = Process(w, s, coherency')  BY <1>2, <1>6, <4>1
      <4>3. s \in coherency' => par'[s] = ParityOf(data'[s])
        BY <1>1, <1>2, <4>1 DEF StripeInv
      <4> QED  BY <1>7, <3>2, <4>1, <4>2, <4>3, ProcessWorkOK
    <3> QED  BY <3>1, <3>2
  <2>2. ASSUME NEW s \in Stripes, s \in coherency', s \notin locker'
        PROVE  par'[s] = ParityOf(data'[s])
    BY <1>1, <1>2, <2>2 DEF StripeInv
  <2> QED  BY <2>1, <2>2 DEF StripeInv
<1> QED  BY <1>13, <1>14, <1>17, <1>18, <1>19 DEF WorkInv

\* Steps that leave the writes in progress and the devices alone
LEMMA FrameKeeps ==
    ASSUME WorkInv, TypeOK',
           UNCHANGED <<locker, coherency, wqs_pending, sub, data, par>>,
           \A w \in Writes : wq'[w].st = wq[w].st \/ wq[w].st # "busy"
    PROVE  WorkInv'
<1>1. LockInv'
  BY DEF WorkInv, LockInv, StripeExclusive, LockHeld, Holds
<1>2. PendingInv'
  BY DEF WorkInv, PendingInv
<1>3. BusyInv'
  BY DEF WorkInv, BusyInv, Holds
<1>4. StripeInv'
  <2>1. ASSUME NEW u \in Writes, NEW s \in Stripes, Holds(u, s)'
        PROVE  WorkOK(u, s)'
    BY <2>1, WorkOKElsewhere DEF WorkInv, StripeInv, Holds
  <2>2. \A s \in Stripes :
           s \in coherency' /\ s \notin locker' => par'[s] = ParityOf(data'[s])
    BY DEF WorkInv, StripeInv
  <2> QED  BY <2>1, <2>2 DEF StripeInv
<1> QED  BY <1>1, <1>2, <1>3, <1>4 DEF WorkInv

\* A write refused by an offline target keeps the invariant.
LEMMA WriteOfflineKeeps ==
    ASSUME WorkInv, NEW w \in Writes, WriteOffline(w)
    PROVE  WorkInv'
<1>1. wq' \in [Writes -> WriteQueries]
  BY DEF WorkInv, TypeOK, WriteOffline, WriteQueries
<1>2. TypeOK'  BY <1>1 DEF WorkInv, TypeOK, WriteOffline
<1>3. \A u \in Writes : wq'[u].st = wq[u].st \/ wq[u].st # "busy"
  BY DEF WorkInv, TypeOK, WriteOffline, WriteQueries
<1> QED  BY <1>2, <1>3, FrameKeeps DEF WriteOffline

\* Submitting a read, or refusing it, keeps the invariant.
LEMMA ReadKeeps ==
    ASSUME WorkInv, NEW r \in Reads, Read(r) \/ ReadOffline(r)
    PROVE  WorkInv'
<1>0. rq \in [Reads -> ReadQueries] /\ rq[r] \in ReadQueries
  BY DEF WorkInv, TypeOK
<1>1. rq' \in [Reads -> ReadQueries]
  <2>1. CASE Read(r)
    <3> DEFINE todo == {x \in Stripes \X Strips :
                          x[2] \in StripsOf(RSpan[r][x[1]])}
               new  == [st |-> "busy", err |-> FALSE, got |-> {},
                        before |-> Acked, todo |-> todo]
    <3>1. todo \in SUBSET (Stripes \X Strips)  OBVIOUS
    <3>2. Acked \in SUBSET Writes  BY DEF Acked
    <3>3. rq' = [rq EXCEPT ![r] = new]  BY <2>1 DEF Read, ReadOps
    <3> HIDE DEF todo
    <3>4. new \in ReadQueries  BY <3>1, <3>2 DEF ReadQueries
    <3> QED  BY <1>0, <3>3, <3>4
  <2>2. CASE ReadOffline(r)
    <3>1. [rq[r] EXCEPT !.st = "err"] \in ReadQueries
      BY <1>0 DEF ReadQueries
    <3>2. rq' = [rq EXCEPT ![r] = [rq[r] EXCEPT !.st = "err"]]
      BY <2>2 DEF ReadOffline
    <3> QED  BY <1>0, <3>1, <3>2
  <2> QED  BY <2>1, <2>2
<1>2. TypeOK'  BY <1>1 DEF WorkInv, TypeOK, Read, ReadOffline
<1> QED  BY <1>2, FrameKeeps DEF Read, ReadOffline

\* The answer to a strip of a client read keeps the invariant.
LEMMA ReadDoneKeeps ==
    ASSUME WorkInv, NEW r \in Reads, NEW s \in Stripes, NEW k \in Strips,
           NEW ok \in BOOLEAN, ReadDone(r, s, k, ok)
    PROVE  WorkInv'
<1> DEFINE b    == rq[r]
           cs   == {c \in RSpan[r][s] : StripOf[c] = k}
           new  == {<<s, c, data[s][c]>> : c \in cs}
<1>1. TypeOK  BY DEF WorkInv
<1>2. errors' \in 0..MaxErrors
  BY <1>1, OutcomeTypeOK DEF ReadDone
<1>3. new \subseteq Stripes \X Cells \X Values
  <2>1. cs \subseteq Cells  BY RSpanAssumption
  <2> QED  BY <1>1, <2>1 DEF TypeOK
<1>4. b \in ReadQueries  BY <1>1 DEF TypeOK
<1>5. rq'[r] \in ReadQueries /\ rq' = [rq EXCEPT ![r] = rq'[r]]
  <2> DEFINE e    == b.err \/ ~ok
             last == b.todo = {<<s, k>>}
             got  == IF ok THEN b.got \cup new ELSE b.got
             st   == IF ~last THEN b.st ELSE IF e THEN "err" ELSE "ok"
  <2>1. rq' = [rq EXCEPT ![r] = [b EXCEPT !.todo = b.todo \ {<<s, k>>}, !.err = e,
                                          !.got = got, !.st = st]]
    BY DEF ReadDone
  <2>2. e \in BOOLEAN /\ st \in States /\ b.todo \ {<<s, k>>} \in SUBSET (Stripes \X Strips)
    BY <1>4 DEF ReadQueries
  <2>3. got \in SUBSET (Stripes \X Cells \X Values)
    BY <1>3, <1>4 DEF ReadQueries
  <2> HIDE DEF e, last, got, st, b
  <2>4. [b EXCEPT !.todo = b.todo \ {<<s, k>>}, !.err = e, !.got = got, !.st = st]
           \in ReadQueries
    BY <1>4, <2>2, <2>3 DEF ReadQueries
  <2> QED  BY <1>1, <2>1, <2>4 DEF TypeOK
<1>6. fsm' \in {"online", "offline"}  BY <1>1 DEF ReadDone, FsmAfter, TypeOK
<1>7. TypeOK'
  BY <1>1, <1>2, <1>5, <1>6 DEF TypeOK, ReadDone
<1> QED  BY <1>7, FrameKeeps DEF ReadDone

\* A state with nothing in progress and no stripe called coherent, as after the
\* start of the process, satisfies the invariant whatever is on the devices.
LEMMA FreshKeeps ==
    ASSUME TypeOK', locker' = {}, coherency' = {}, wqs_pending' = <<>>,
           sub' = [w \in Writes |-> [s \in Stripes |-> Idle("none")]]
    PROVE  WorkInv'
<1>1. \A w \in Writes, s \in Stripes : sub'[w][s].ph = "none"
  BY IdleTypeOK
<1> QED
  BY <1>1 DEF WorkInv, LockInv, StripeExclusive, LockHeld, PendingInv, BusyInv,
              StripeInv, Holds

\* A restart, wherever it cuts the writes short, keeps the invariant.
LEMMA RestartKeeps ==
    ASSUME WorkInv, Restart
    PROVE  WorkInv'
<1>1. TypeOK  BY DEF WorkInv
<1>2. sub' \in [Writes -> [Stripes -> SubQueries]]
  BY IdleTypeOK DEF Restart
<1>3. wq' \in [Writes -> WriteQueries] /\ rq' \in [Reads -> ReadQueries]
  <2>1. ASSUME NEW w \in Writes
        PROVE  [wq[w] EXCEPT !.st = IF @ = "busy" THEN "lost" ELSE @] \in WriteQueries
    <3>1. wq[w] \in WriteQueries  BY <1>1 DEF TypeOK
    <3> QED  BY <3>1 DEF WriteQueries
  <2>2. ASSUME NEW r \in Reads
        PROVE  [rq[r] EXCEPT !.st = IF @ = "busy" THEN "lost" ELSE @] \in ReadQueries
    <3>1. rq[r] \in ReadQueries  BY <1>1 DEF TypeOK
    <3> QED  BY <3>1 DEF ReadQueries
  <2> QED  BY <2>1, <2>2 DEF Restart
<1>4. data' \in [Stripes -> [Cells -> Values]]
  <2>1. ASSUME NEW s \in Stripes, NEW f \in Landed(s)
        PROVE  f \in [Cells -> Values]
    <3>1. data[s] \in [Cells -> Values]  BY <1>1 DEF TypeOK
    <3>2. CASE f = data[s]  BY <3>1, <3>2
    <3>3. CASE \E w \in Writes : \E cs \in SUBSET InFlight(w, s) :
                  f = Over(data[s], cs, w)
      BY <3>1, <3>3 DEF Over, Values
    <3> QED  BY <3>2, <3>3 DEF Landed
  <2>2. /\ data' \in [Stripes -> UNION {Landed(s) : s \in Stripes}]
        /\ \A s \in Stripes : data'[s] \in Landed(s)
    BY DEF Restart
  <2> QED  BY <2>1, <2>2
<1>5. par' \in [Stripes -> SUBSET Tokens]
  <2> DEFINE U == UNION {{par[s]} \cup {sub[w][s].pbuf : w \in Writes} :
                            s \in Stripes}
  <2>1. par' \in [Stripes -> U]  BY DEF Restart
  <2>2. \A p \in U : p \in SUBSET Tokens
    BY <1>1 DEF TypeOK, SubQueries
  <2> HIDE DEF U
  <2> QED  BY <2>1, <2>2
<1>6. /\ fsm' = "online" /\ locker' = {} /\ coherency' = {}
      /\ wqs_pending' = <<>> /\ errors' = 0 /\ restarts' = restarts + 1
      /\ restarts < MaxRestarts
      /\ sub' = [w \in Writes |-> [s \in Stripes |-> Idle("none")]]
  BY DEF Restart
<1>7. errors' \in 0..MaxErrors /\ restarts' \in 0..MaxRestarts
  BY <1>1, <1>6, BoundsAssumption DEF TypeOK
<1>8. TypeOK'
  BY <1>2, <1>3, <1>4, <1>5, <1>6, <1>7 DEF TypeOK
<1> QED  BY <1>6, <1>8, FreshKeeps

\* A target just built satisfies the invariant.
LEMMA InitWorkInv == Init => WorkInv
<1> SUFFICES ASSUME Init PROVE WorkInv
  OBVIOUS
<1>1. \A w \in Writes, s \in Stripes :
         sub[w][s].ph = "none" /\ sub[w][s] \in SubQueries
  BY IdleTypeOK DEF Init
<1>2. TypeOK
  <2>1. sub \in [Writes -> [Stripes -> SubQueries]]  BY IdleTypeOK DEF Init
  <2>2. wq \in [Writes -> WriteQueries] /\ rq \in [Reads -> ReadQueries]
    BY DEF Init, WriteQueries, ReadQueries
  <2> QED  BY <2>1, <2>2, BoundsAssumption DEF Init, TypeOK, Values
<1> QED
  BY <1>1, <1>2 DEF Init, WorkInv, LockInv, StripeExclusive, LockHeld, PendingInv,
              BusyInv, StripeInv, Holds

\* Every step of the target keeps the invariant.
LEMMA NextWorkInv == WorkInv /\ [Next]_vars => WorkInv'
<1> SUFFICES ASSUME WorkInv, [Next]_vars PROVE WorkInv'
  OBVIOUS
<1>1. ASSUME NEW w \in Writes, Write(w) \/ WriteOffline(w) PROVE WorkInv'
  BY <1>1, WriteKeeps, WriteOfflineKeeps
<1>2. ASSUME NEW r \in Reads, Read(r) \/ ReadOffline(r) PROVE WorkInv'
  BY <1>2, ReadKeeps
<1>3. CASE Completion
  <2>1. ASSUME NEW ok \in BOOLEAN, NEW w \in Writes, NEW s \in Stripes,
               \/ \E k \in Strips : DataReadDone(w, s, k, ok)
               \/ ParityReadDone(w, s, ok)
               \/ \E k \in Strips : DataWriteDone(w, s, k, ok)
               \/ ParityWriteDone(w, s, ok)
        PROVE  WorkInv'
    BY <2>1, DataReadDoneKeeps, ParityReadDoneKeeps, DataWriteDoneKeeps,
       ParityWriteDoneKeeps
  <2>2. ASSUME NEW ok \in BOOLEAN, NEW r \in Reads, NEW s \in Stripes,
               NEW k \in Strips, ReadDone(r, s, k, ok)
        PROVE  WorkInv'
    BY <2>2, ReadDoneKeeps
  <2> QED  BY <1>3, <2>1, <2>2 DEF Completion
<1>4. CASE Restart  BY <1>4, RestartKeeps
<1>5. CASE UNCHANGED vars
  <2>1. TypeOK'  BY <1>5 DEF WorkInv, TypeOK, vars
  <2> QED  BY <1>5, <2>1, FrameKeeps DEF vars
<1> QED  BY <1>1, <1>2, <1>3, <1>4, <1>5 DEF Next

-----------------------------------------------------------------------------
(* Theorems *)

\* What a write at work knows of its stripe, the locks and the pending writes stay
\* in step, whatever fails and wherever the process restarts.
THEOREM WorkInvariance == Spec => []WorkInv
BY InitWorkInv, NextWorkInv, PTL DEF Spec

\* The target's state keeps its type.
THEOREM TypeCorrect == Spec => []TypeOK
<1>1. WorkInv => TypeOK  BY DEF WorkInv
<1> QED  BY <1>1, WorkInvariance, PTL

\* No two writes are ever at work in one stripe (stripe_w_locker_ and the
\* hand-over in the completer of acceptor::process).
THEOREM Exclusion == Spec => []StripeExclusive
<1>1. WorkInv => StripeExclusive  BY DEF WorkInv, LockInv
<1> QED  BY <1>1, WorkInvariance, PTL

\* A stripe is locked exactly while a write works in it, so unlock() always finds
\* the lock taken and no pending write is left for an unlocked stripe.
THEOREM LockDiscipline == Spec => []LockHeld
<1>1. WorkInv => LockHeld  BY DEF WorkInv, LockInv
<1> QED  BY <1>1, WorkInvariance, PTL

\* A stripe reported coherent and at rest has matching data and parity, whatever
\* device operations failed and wherever the process was restarted.
THEOREM ParityIsCoherent == Spec => []CoherentParity
<1>1. WorkInv => CoherentParity
  BY DEF WorkInv, StripeInv, CoherentParity, IsStripeParityCoherent
<1> QED  BY <1>1, WorkInvariance, PTL

-----------------------------------------------------------------------------
(* What the clients of RaidSP may rely on: an acknowledged write is on the      *)
(* devices, a read returns nothing older, and no device error is swallowed.  It *)
(* rests on WorkInv.                                                            *)


\* What the answer to one operation of the part of write w in stripe s does, seen
\* from the clients: err says that the part has met an error so far.
PartGoesOn(w, s, err) ==
    /\ wq' = wq /\ fsm' = fsm
    /\ Holds(w, s)'
    /\ err => sub'[w][s].derr \/ sub'[w][s].perr
    /\ \A u \in Writes : u # w => sub'[u][s] = sub[u][s]

PartEnds(w, s, err) ==
    /\ sub'[w][s].ph = "done"
    /\ \A u \in Writes : u # w =>
          \/ sub'[u][s] = sub[u][s]
          \/ ~Holds(u, s) /\ Holds(u, s)'
    /\ \A u \in Writes : u # w => wq'[u] = wq[u]
    /\ wq'[w] = [st |-> IF ~LastPart(w, s) THEN wq[w].st
                        ELSE IF wq[w].err \/ err THEN "err" ELSE "ok",
                 err |-> wq[w].err \/ err, before |-> wq[w].before]
    /\ fsm' = FsmAfter(LastPart(w, s), wq[w].err \/ err)
    /\ ~err => \A c \in Span[w][s] : data'[s][c] = w

PartStep(w, s) ==
    /\ Holds(w, s)
    /\ rq' = rq
    /\ \A u \in Writes, t \in Stripes : t # s => sub'[u][t] = sub[u][t]
    /\ \A t \in Stripes, c \in Cells :
          data'[t][c] = data[t][c] \/ data'[t][c] = w
    /\ \E err \in BOOLEAN :
          /\ errors' # errors \/ sub[w][s].derr \/ sub[w][s].perr => err
          /\ PartGoesOn(w, s, err) \/ PartEnds(w, s, err)

\* The completer of a part is such a step.
LEMMA FinishIsEnd ==
    ASSUME WorkInv, NEW w \in Writes, NEW s \in Stripes, Holds(w, s),
           NEW err \in BOOLEAN, NEW coh, Finish(w, s, err, coh),
           ~err => \A c \in Span[w][s] : data'[s][c] = w
    PROVE  /\ PartEnds(w, s, err)
           /\ \A u \in Writes, t \in Stripes : t # s => sub'[u][t] = sub[u][t]
<1>1. TypeOK /\ QueueInv  BY DEF WorkInv, QueueInv
<1>2. /\ sub'[w][s].ph = "done"
      /\ \A u \in Writes, t \in Stripes : t # s => sub'[u][t] = sub[u][t]
  BY <1>1, FinishEffect
<1>3. ASSUME NEW u \in Writes, u # w
      PROVE  sub'[u][s] = sub[u][s] \/ (~Holds(u, s) /\ Holds(u, s)')
  <2>1. CASE Unlocks(w, s)  BY <1>3, <2>1 DEF Unlocks
  <2>2. ASSUME NEW i \in 1..Len(wqs_pending), NEW v \in Writes \ {w},
               HandsOver(w, s, i, v, coh)
        PROVE  sub'[u][s] = sub[u][s] \/ (~Holds(u, s) /\ Holds(u, s)')
    <3>1. CASE u # v  BY <1>3, <2>2, <3>1 DEF HandsOver
    <3>2. CASE u = v
      <4>1. /\ sub[v][s].ph = "pending" /\ Span[v][s] # {}
            /\ sub'[v][s] = Process(v, s, coh)
        BY <2>2 DEF HandsOver
      <4> QED  BY <3>2, <4>1, ProcessTypeOK DEF Holds
    <3> QED  BY <3>1, <3>2
  <2> QED  BY <1>1, <2>1, <2>2, FinishEffect
<1>4. /\ \A u \in Writes : u # w => wq'[u] = wq[u]
      /\ wq'[w] = [st |-> IF ~LastPart(w, s) THEN wq[w].st
                          ELSE IF wq[w].err \/ err THEN "err" ELSE "ok",
                   err |-> wq[w].err \/ err, before |-> wq[w].before]
      /\ fsm' = FsmAfter(LastPart(w, s), wq[w].err \/ err)
  BY <1>1 DEF Finish, TypeOK
<1> QED  BY <1>2, <1>3, <1>4 DEF PartEnds

\* A part that goes on is such a step, if what it carries on remembers the errors.
LEMMA ContinueGoesOn ==
    ASSUME WorkInv, NEW w \in Writes, NEW s \in Stripes,
           NEW b \in SubQueries, b.ph \in InStripe, Continue(w, s, b),
           NEW err \in BOOLEAN, err => b.derr \/ b.perr
    PROVE  /\ PartGoesOn(w, s, err)
           /\ \A u \in Writes, t \in Stripes : t # s => sub'[u][t] = sub[u][t]
<1>1. /\ sub'[w][s] = b /\ wq' = wq /\ fsm' = fsm
      /\ \A u \in Writes : u # w => sub'[u][s] = sub[u][s]
      /\ \A u \in Writes, t \in Stripes : t # s => sub'[u][t] = sub[u][t]
  BY DEF Continue, WorkInv, TypeOK
<1> QED  BY <1>1 DEF PartGoesOn, Holds

\* Failed operations are counted and noted.
LEMMA OutcomeCounts ==
    ASSUME TypeOK, NEW ok \in BOOLEAN, Outcome(ok)
    PROVE  errors' # errors <=> ~ok
BY DEF Outcome, TypeOK

\* The answer to a read of a data strip is a part's step.
LEMMA DataReadDoneIsPart ==
    ASSUME WorkInv, NEW w \in Writes, NEW s \in Stripes, NEW k \in Strips,
           NEW ok \in BOOLEAN, DataReadDone(w, s, k, ok)
    PROVE  PartStep(w, s)
<1> DEFINE b  == sub[w][s]
           b1 == [b EXCEPT !.todo = @ \ {k}, !.derr = @ \/ ~ok,
                           !.buf = [c \in Cells |->
                              IF ok /\ StripOf[c] = k THEN data[s][c] ELSE @[c]]]
           cs == Span[w][s]
           bp == [b1 EXCEPT !.ph = "rp_coh", !.todo = {P}]
           bw == [b1 EXCEPT !.ph = "wr_inc",
                            !.todo = StripsOf(cs) \cup {P},
                            !.pbuf = ParityOf(Over(b1.buf, cs, w))]
<1>1. TypeOK /\ StripeInv  BY DEF WorkInv
<1>2. /\ b \in SubQueries /\ b.ph \in Reading /\ k \in b.todo
      /\ rq' = rq /\ data' = data
  BY <1>1 DEF DataReadDone, TypeOK
<1>3. errors' # errors <=> ~ok  BY <1>1, OutcomeCounts DEF DataReadDone
<1>4. Holds(w, s)  BY <1>2 DEF Holds
<1>5. WorkOK(w, s)  BY <1>1, <1>4 DEF StripeInv
<1>6. ~b.perr  BY <1>2, <1>5 DEF WorkOK
<1>7. /\ b1 \in SubQueries /\ b1.ph = b.ph
      /\ b1.derr = (b.derr \/ ~ok) /\ b1.perr = b.perr
  <2> DEFINE nbuf == [c \in Cells |->
                        IF ok /\ StripOf[c] = k THEN data[s][c] ELSE b.buf[c]]
  <2>1. b.buf \in [Cells -> Values] /\ data[s] \in [Cells -> Values]
    BY <1>1, <1>2 DEF TypeOK, SubQueries
  <2>2. nbuf \in [Cells -> Values]  BY <2>1
  <2>3. b1 = [b EXCEPT !.todo = b.todo \ {k}, !.derr = b.derr \/ ~ok, !.buf = nbuf]
    OBVIOUS
  <2>4. b.todo \ {k} \in SUBSET (Strips \cup {P}) /\ (b.derr \/ ~ok) \in BOOLEAN
    BY <1>2 DEF SubQueries
  <2> HIDE DEF nbuf, b1, b
  <2> QED  BY <1>2, <2>2, <2>3, <2>4 DEF SubQueries
<1> HIDE DEF b1
<1>8. CASE Continue(w, s, b1)
  <2>1. b1.derr \in BOOLEAN  BY <1>7 DEF SubQueries
  <2>2. b1.ph \in InStripe  BY <1>2, <1>7
  <2>3. /\ PartGoesOn(w, s, b1.derr)
        /\ \A u \in Writes, t \in Stripes : t # s => sub'[u][t] = sub[u][t]
    BY <1>7, <1>8, <2>1, <2>2, ContinueGoesOn
  <2> QED  BY <1>2, <1>3, <1>4, <1>6, <1>7, <2>1, <2>3 DEF PartStep
<1>9. CASE Finish(w, s, TRUE, coherency)
  <2>1. /\ PartEnds(w, s, TRUE)
        /\ \A u \in Writes, t \in Stripes : t # s => sub'[u][t] = sub[u][t]
    BY <1>4, <1>9, FinishIsEnd
  <2> QED  BY <1>2, <1>4, <2>1 DEF PartStep
<1>10. CASE ~b1.derr /\ Continue(w, s, bp)
  <2>1. bp \in SubQueries /\ bp.ph = "rp_coh"  BY <1>7 DEF SubQueries
  <2> HIDE DEF bp
  <2>2. /\ PartGoesOn(w, s, FALSE)
        /\ \A u \in Writes, t \in Stripes : t # s => sub'[u][t] = sub[u][t]
    BY <1>10, <2>1, ContinueGoesOn
  <2> QED  BY <1>2, <1>3, <1>4, <1>6, <1>7, <1>10, <2>2 DEF PartStep
<1>11. CASE ~b1.derr /\ Continue(w, s, bw)
  <2>1. cs \in SUBSET Cells  BY SpanAssumption
  <2>2. StripsOf(cs) \subseteq Strips
    BY <2>1, CellsAssumption DEF StripsOf
  <2>3. ParityOf(Over(b1.buf, cs, w)) \in SUBSET Tokens
    BY <1>7, <2>1 DEF ParityOf, Over, Tokens, Values, SubQueries
  <2>4. bw \in SubQueries /\ bw.ph = "wr_inc"
    BY <1>7, <2>2, <2>3 DEF SubQueries
  <2> HIDE DEF bw
  <2>5. /\ PartGoesOn(w, s, FALSE)
        /\ \A u \in Writes, t \in Stripes : t # s => sub'[u][t] = sub[u][t]
    BY <1>11, <2>4, ContinueGoesOn
  <2> QED  BY <1>2, <1>3, <1>4, <1>6, <1>7, <1>11, <2>5 DEF PartStep
<1> QED  BY <1>8, <1>9, <1>10, <1>11 DEF DataReadDone, b1

\* The answer to the read of the parity strip is a part's step.
LEMMA ParityReadDoneIsPart ==
    ASSUME WorkInv, NEW w \in Writes, NEW s \in Stripes, NEW ok \in BOOLEAN,
           ParityReadDone(w, s, ok)
    PROVE  PartStep(w, s)
<1> DEFINE b  == sub[w][s]
           cs == Span[w][s]
           bw == [b EXCEPT !.ph = "wr_coh",
                           !.todo = StripsOf(cs) \cup {P},
                           !.pbuf = ParityTo(par[s], b.buf, cs, w)]
<1>1. TypeOK /\ StripeInv  BY DEF WorkInv
<1>2. /\ b \in SubQueries /\ b.ph = "rp_coh" /\ rq' = rq /\ data' = data
  BY <1>1 DEF ParityReadDone, TypeOK
<1>3. errors' # errors <=> ~ok  BY <1>1, OutcomeCounts DEF ParityReadDone
<1>4. Holds(w, s)  BY <1>2 DEF Holds
<1>5. WorkOK(w, s)  BY <1>1, <1>4 DEF StripeInv
<1>6. ~b.perr /\ ~b.derr  BY <1>2, <1>5 DEF WorkOK
<1>7. CASE Finish(w, s, TRUE, coherency)
  <2>1. /\ PartEnds(w, s, TRUE)
        /\ \A u \in Writes, t \in Stripes : t # s => sub'[u][t] = sub[u][t]
    BY <1>4, <1>7, FinishIsEnd
  <2> QED  BY <1>2, <1>4, <2>1 DEF PartStep
<1>8. CASE ok /\ Continue(w, s, bw)
  <2>1. cs \in SUBSET Cells  BY SpanAssumption
  <2>2. StripsOf(cs) \subseteq Strips
    BY <2>1, CellsAssumption DEF StripsOf
  <2>3. ParityTo(par[s], b.buf, cs, w) \in SUBSET Tokens
    <3>1. /\ par[s] \in SUBSET Tokens
          /\ {<<c, b.buf[c]>> : c \in cs} \in SUBSET Tokens
          /\ {<<c, w>> : c \in cs} \in SUBSET Tokens
      BY <1>1, <1>2, <2>1 DEF TypeOK, SubQueries, Tokens, Values
    <3> QED  BY <3>1 DEF ParityTo, Xor
  <2>4. bw \in SubQueries /\ bw.ph = "wr_coh"
    BY <1>2, <2>2, <2>3 DEF SubQueries
  <2> HIDE DEF bw
  <2>5. /\ PartGoesOn(w, s, FALSE)
        /\ \A u \in Writes, t \in Stripes : t # s => sub'[u][t] = sub[u][t]
    BY <1>8, <2>4, ContinueGoesOn
  <2> QED  BY <1>2, <1>3, <1>4, <1>6, <1>8, <2>5 DEF PartStep
<1> QED  BY <1>7, <1>8 DEF ParityReadDone

\* The answer to a device write is a part's step: the part ends without an error
\* only with all of its cells on the devices.
LEMMA WriteStepIsPart ==
    ASSUME WorkInv, NEW w \in Writes, NEW s \in Stripes,
           sub[w][s].ph \in Writing,
           NEW b \in SubQueries, b.ph = sub[w][s].ph, WriteStep(w, s, b),
           rq' = rq,
           \A t \in Stripes, c \in Cells :
              data'[t][c] = data[t][c] \/ data'[t][c] = w,
           ~b.derr => \A c \in Span[w][s] :
                         StripOf[c] \notin b.todo => data'[s][c] = w,
           errors' # errors \/ sub[w][s].derr \/ sub[w][s].perr =>
              b.derr \/ b.perr
    PROVE  PartStep(w, s)
<1> DEFINE err == b.derr \/ b.perr
<1>1. Holds(w, s) /\ b.ph \in InStripe  BY DEF Holds
<1>2. err \in BOOLEAN  BY DEF SubQueries
<1>3. CASE Continue(w, s, b)
  <2>1. /\ PartGoesOn(w, s, err)
        /\ \A u \in Writes, t \in Stripes : t # s => sub'[u][t] = sub[u][t]
    BY <1>1, <1>2, <1>3, ContinueGoesOn
  <2> QED  BY <1>1, <1>2, <2>1 DEF PartStep
<1>4. CASE b.todo = {} /\ Finish(w, s, err, coherency')
  <2>1. ~err => \A c \in Span[w][s] : data'[s][c] = w  BY <1>4
  <2>2. /\ PartEnds(w, s, err)
        /\ \A u \in Writes, t \in Stripes : t # s => sub'[u][t] = sub[u][t]
    BY <1>1, <1>2, <1>4, <2>1, FinishIsEnd
  <2> QED  BY <1>1, <1>2, <2>2 DEF PartStep
<1> QED  BY <1>3, <1>4 DEF WriteStep

\* The answer to the write of a data strip is a part's step.
LEMMA DataWriteDoneIsPart ==
    ASSUME WorkInv, NEW w \in Writes, NEW s \in Stripes, NEW k \in Strips,
           NEW ok \in BOOLEAN, DataWriteDone(w, s, k, ok)
    PROVE  PartStep(w, s)
<1> DEFINE b  == sub[w][s]
           b1 == [b EXCEPT !.todo = @ \ {k}, !.derr = @ \/ ~ok]
           ks == {c \in Span[w][s] : StripOf[c] = k}
<1>1. TypeOK /\ StripeInv  BY DEF WorkInv
<1>2. /\ b \in SubQueries /\ b.ph \in Writing /\ k \in b.todo
      /\ rq' = rq /\ WriteStep(w, s, b1)
  BY <1>1 DEF DataWriteDone, TypeOK
<1>3. errors' # errors <=> ~ok  BY <1>1, OutcomeCounts DEF DataWriteDone
<1>4. WorkOK(w, s)  BY <1>1, <1>2 DEF StripeInv, Holds
<1>5. PICK ws \in SUBSET ks : /\ data' = [data EXCEPT ![s] = Over(data[s], ws, w)]
                              /\ ok => ws = ks
  BY DEF DataWriteDone
<1>6. /\ b1 \in SubQueries /\ b1.ph = b.ph /\ b1.todo = b.todo \ {k}
      /\ b1.derr = (b.derr \/ ~ok) /\ b1.perr = b.perr
  BY <1>2 DEF SubQueries
<1> HIDE DEF b1
<1>7. Span[w][s] \in SUBSET Cells /\ ws \subseteq Span[w][s]
  BY SpanAssumption
<1>8. /\ \A c \in Cells : data'[s][c] = IF c \in ws THEN w ELSE data[s][c]
      /\ \A t \in Stripes : t # s => data'[t] = data[t]
  BY <1>1, <1>5 DEF TypeOK, Over
<1>9. ASSUME ~b1.derr, NEW c \in Span[w][s], StripOf[c] \notin b1.todo
      PROVE  data'[s][c] = w
  <2>1. ~b.derr /\ ok  BY <1>6, <1>9, <1>2 DEF SubQueries
  <2>2. CASE StripOf[c] = k  BY <1>5, <1>7, <1>8, <2>1, <2>2
  <2>3. CASE StripOf[c] # k
    <3>1. data[s][c] = w  BY <1>2, <1>4, <1>6, <1>9, <2>1, <2>3 DEF WorkOK
    <3> QED  BY <1>7, <1>8, <3>1
  <2> QED  BY <2>2, <2>3
<1>10. \A t \in Stripes, c \in Cells : data'[t][c] = data[t][c] \/ data'[t][c] = w
  BY <1>8
<1>11. errors' # errors \/ b.derr \/ b.perr => b1.derr \/ b1.perr
  BY <1>3, <1>6
<1> QED  BY <1>2, <1>6, <1>9, <1>10, <1>11, WriteStepIsPart

\* The answer to the write of the parity strip is a part's step.
LEMMA ParityWriteDoneIsPart ==
    ASSUME WorkInv, NEW w \in Writes, NEW s \in Stripes, NEW ok \in BOOLEAN,
           ParityWriteDone(w, s, ok)
    PROVE  PartStep(w, s)
<1> DEFINE b  == sub[w][s]
           b1 == [b EXCEPT !.todo = @ \ {P}, !.perr = ~ok]
<1>1. TypeOK /\ StripeInv  BY DEF WorkInv
<1>2. /\ b \in SubQueries /\ b.ph \in Writing /\ P \in b.todo
      /\ rq' = rq /\ data' = data /\ WriteStep(w, s, b1)
  BY <1>1 DEF ParityWriteDone, TypeOK
<1>3. errors' # errors <=> ~ok  BY <1>1, OutcomeCounts DEF ParityWriteDone
<1>4. WorkOK(w, s)  BY <1>1, <1>2 DEF StripeInv, Holds
<1>5. /\ b1 \in SubQueries /\ b1.ph = b.ph /\ b1.todo = b.todo \ {P}
      /\ b1.derr = b.derr /\ b1.perr = ~ok
  BY <1>2 DEF SubQueries
<1> HIDE DEF b1
<1>6. ~b.perr  BY <1>2, <1>4 DEF WorkOK
<1>7. ~b1.derr => \A c \in Span[w][s] :
                    StripOf[c] \notin b1.todo => data'[s][c] = w
  <2>1. \A c \in Span[w][s] : StripOf[c] # P
    BY SpanAssumption, CellsAssumption, StripsAssumption
  <2> QED  BY <1>2, <1>4, <1>5, <2>1 DEF WorkOK
<1>8. errors' # errors \/ b.derr \/ b.perr => b1.derr \/ b1.perr
  BY <1>3, <1>5, <1>6
<1>9. \A t \in Stripes, c \in Cells : data'[t][c] = data[t][c] \/ data'[t][c] = w
  BY <1>2
<1> QED  BY <1>2, <1>5, <1>7, <1>8, <1>9, WriteStepIsPart

-----------------------------------------------------------------------------
(* Every kind of step keeps what the answers rest on *)

\* A write at work is before nobody, so its data is stale for nobody.
LEMMA BusyIsFresh ==
    ASSUME WorkInv, BeforeInv, NEW w \in Writes, wq[w].st = "busy"
    PROVE  /\ w # Old
           /\ \A u \in Writes : w \notin wq[u].before
BY ValuesAssumption DEF BeforeInv, Answered

\* What a read has brought is judged by writes that were answered before it was
\* submitted, and those do not change.
LEMMA GotKept ==
    ASSUME WorkInv, GotInv, rq' = rq, Acked \subseteq Acked',
           \A u \in Acked : wq'[u].before = wq[u].before
    PROVE  GotInv'
<1> SUFFICES ASSUME NEW r \in Reads, rq[r].st \in {"busy", "ok"}
             PROVE  /\ rq[r].before \subseteq Acked'
                    /\ \A w \in rq[r].before, x \in rq[r].got :
                          x[2] \in Span[w][x[1]] => ~Stale(x[3], w)'
                    /\ ~rq[r].err => \A s \in Stripes : \A c \in RSpan[r][s] :
                          \/ <<s, StripOf[c]>> \in rq[r].todo
                          \/ \E v \in Values : <<s, c, v>> \in rq[r].got
                    /\ rq[r].st = "ok" => ~rq[r].err /\ rq[r].todo = {}
  BY DEF GotInv
<1>1. rq[r].before \subseteq Acked  BY DEF GotInv
<1>2. ASSUME NEW w \in rq[r].before, NEW x \in rq[r].got,
             x[2] \in Span[w][x[1]]
      PROVE  ~Stale(x[3], w)'
  <2>1. ~Stale(x[3], w)  BY <1>2 DEF GotInv
  <2>2. wq'[w].before = wq[w].before  BY <1>1
  <2> QED  BY <2>1, <2>2 DEF Stale
<1> QED  BY <1>1, <1>2 DEF GotInv

\* The answer to an operation of a write keeps what the answers rest on.
LEMMA PartStepKeeps ==
    ASSUME WorkInv, AnswerInv, NEW w \in Writes, NEW s \in Stripes,
           PartStep(w, s), errors' \in Nat
    PROVE  AnswerInv'
<1>1. TypeOK /\ QueueInv /\ StripeInv /\ BeforeInv /\ WrittenInv /\ ErrorInv
      /\ GotInv
  BY DEF WorkInv, QueueInv, AnswerInv
<1>2. /\ Holds(w, s) /\ rq' = rq
      /\ \A u \in Writes, t \in Stripes : t # s => sub'[u][t] = sub[u][t]
      /\ \A t \in Stripes, c \in Cells :
            data'[t][c] = data[t][c] \/ data'[t][c] = w
  BY DEF PartStep
<1>3. PICK err \in BOOLEAN :
         /\ errors' # errors \/ sub[w][s].derr \/ sub[w][s].perr => err
         /\ PartGoesOn(w, s, err) \/ PartEnds(w, s, err)
  BY DEF PartStep
<1>4. wq[w].st = "busy" /\ s \in Touched(Span[w])
  BY <1>1, <1>2 DEF QueueInv, BusyInv
<1>5. w # Old /\ \A u \in Writes : w \notin wq[u].before
  BY <1>1, <1>4, BusyIsFresh
<1>6. \A u \in Writes : /\ wq'[u].before = wq[u].before
                        /\ u # w => wq'[u] = wq[u]
  BY <1>3 DEF PartGoesOn, PartEnds
<1>e. ASSUME PartEnds(w, s, err)
      PROVE  /\ wq'[w].st = IF ~LastPart(w, s) THEN "busy"
                            ELSE IF wq[w].err \/ err THEN "err" ELSE "ok"
             /\ wq'[w].err = (wq[w].err \/ err)
             /\ fsm' = IF LastPart(w, s) /\ (wq[w].err \/ err) THEN "offline"
                       ELSE fsm
  BY <1>4, <1>e DEF PartEnds, FsmAfter
<1>7. Answered \subseteq Answered' /\ Acked \subseteq Acked'
  BY <1>4, <1>6 DEF Answered, Acked
<1>8. BeforeInv'
  BY <1>1, <1>6, <1>7 DEF BeforeInv
<1>9. \A u \in Writes : Span[u] \in [Stripes -> SUBSET Cells]
  BY SpanAssumption
<1>10. ASSUME NEW u \in Writes, NEW t \in Stripes, NEW c \in Span[u][t],
              ~Stale(data[t][c], u)
       PROVE  ~Stale(data[t][c], u)'
  <2>1. c \in Cells  BY <1>9
  <2> QED  BY <1>2, <1>5, <1>6, <1>10, <2>1 DEF Stale
<1>11. WrittenInv'
  <2> SUFFICES ASSUME NEW u \in Writes, NEW t \in Stripes, NEW c \in Span[u][t],
                      \/ wq'[u].st = "ok"
                      \/ wq'[u].st = "busy" /\ ~wq'[u].err /\ sub'[u][t].ph = "done"
               PROVE  ~Stale(data[t][c], u)'
    BY DEF WrittenInv
  <2>1. CASE u # w
    <3>1. wq'[u] = wq[u]  BY <1>6, <2>1
    <3>2. sub'[u][t].ph = "done" => sub[u][t].ph = "done"
      BY <1>2, <1>3, <2>1 DEF PartGoesOn, PartEnds, Holds
    <3>3. ~Stale(data[t][c], u)  BY <1>1, <3>1, <3>2 DEF WrittenInv
    <3> QED  BY <1>10, <3>3
  <2>2. CASE u = w /\ t # s
    <3>1. ~wq[w].err /\ sub[w][t].ph = "done"
      <4>1. t \in Touched(Span[w]) \ {s}  BY <2>2 DEF Touched
      <4>2. CASE PartGoesOn(w, s, err)
        BY <1>2, <1>4, <2>2, <4>2 DEF PartGoesOn
      <4>3. CASE PartEnds(w, s, err)
        BY <1>e, <1>2, <2>2, <4>1, <4>3 DEF LastPart
      <4> QED  BY <1>3, <4>2, <4>3
    <3>2. ~Stale(data[t][c], u)  BY <1>1, <1>4, <2>2, <3>1 DEF WrittenInv
    <3> QED  BY <1>10, <3>2
  <2>3. CASE u = w /\ t = s
    <3>1. CASE PartGoesOn(w, s, err)
      BY <1>4, <2>3, <3>1 DEF PartGoesOn, Holds
    <3>2. CASE PartEnds(w, s, err)
      <4>1. ~err  BY <1>e, <2>3, <3>2
      <4>2. data'[s][c] = w  BY <2>3, <3>2, <4>1 DEF PartEnds
      <4> QED  BY <1>5, <2>3, <4>2 DEF Stale
    <3> QED  BY <1>3, <3>1, <3>2
  <2> QED  BY <2>1, <2>2, <2>3
<1>12. ErrorInv'
  <2> SUFFICES ASSUME errors' > 0, fsm' = "online"
               PROVE  \/ \E u \in Writes : FailingWrite(u)'
                      \/ \E r \in Reads : FailingRead(r)'
    BY DEF ErrorInv
  <2>1. fsm = "online"  BY <1>1, <1>3 DEF PartGoesOn, PartEnds, FsmAfter, TypeOK
  <2>2. ASSUME err \/ wq[w].err PROVE FailingWrite(w)'
    <3>1. CASE PartGoesOn(w, s, err)
      BY <1>4, <2>2, <3>1 DEF PartGoesOn, FailingWrite
    <3>2. CASE PartEnds(w, s, err)
      BY <1>e, <2>2, <3>2 DEF FailingWrite
    <3> QED  BY <1>3, <3>1, <3>2
  <2>3. CASE errors' # errors  BY <1>3, <2>2, <2>3
  <2>4. ASSUME NEW u \in Writes, FailingWrite(u)
        PROVE  \E v \in Writes : FailingWrite(v)'
    <3>1. CASE u # w
      <4>1. wq'[u] = wq[u]  BY <1>6, <3>1
      <4>2. \A t \in Stripes : Holds(u, t) => sub'[u][t] = sub[u][t]
        BY <1>2, <1>3, <3>1 DEF PartGoesOn, PartEnds
      <4> QED  BY <2>4, <4>1, <4>2 DEF FailingWrite, Holds
    <3>2. CASE u = w /\ wq[w].err  BY <2>2, <3>2
    <3>3. ASSUME NEW t \in Stripes, Holds(w, t),
                 sub[w][t].derr \/ sub[w][t].perr
          PROVE  \E v \in Writes : FailingWrite(v)'
      <4>1. CASE t = s  BY <1>3, <2>2, <3>3, <4>1
      <4>2. CASE t # s
        <5>1. sub'[w][t] = sub[w][t]  BY <1>2, <4>2
        <5>2. t \in Touched(Span[w]) \ {s} /\ sub[w][t].ph # "done"
          BY <1>1, <3>3, <4>2 DEF QueueInv, BusyInv, Holds
        <5>3. wq'[w].st = "busy"
          BY <1>e, <1>3, <1>4, <5>2 DEF PartGoesOn, LastPart
        <5> QED  BY <3>3, <5>1, <5>3 DEF FailingWrite, Holds
      <4> QED  BY <4>1, <4>2
    <3> QED  BY <2>4, <3>1, <3>2, <3>3 DEF FailingWrite
  <2>5. ASSUME NEW r \in Reads, FailingRead(r) PROVE FailingRead(r)'
    BY <1>2, <2>5 DEF FailingRead
  <2>6. CASE errors' = errors
    BY <1>1, <2>1, <2>4, <2>5, <2>6 DEF ErrorInv
  <2> QED  BY <2>3, <2>6
<1>13. GotInv'  BY <1>1, <1>2, <1>6, <1>7, GotKept DEF Acked
<1> QED  BY <1>8, <1>11, <1>12, <1>13 DEF AnswerInv

\* Submitting a write, or refusing it, keeps what the answers rest on.
LEMMA SubmitKeeps ==
    ASSUME WorkInv, AnswerInv, NEW w \in Writes, Write(w) \/ WriteOffline(w)
    PROVE  AnswerInv'
<1>1. TypeOK /\ BeforeInv /\ WrittenInv /\ ErrorInv /\ GotInv
  BY DEF WorkInv, AnswerInv
<1>2. /\ wq[w].st = "new" /\ rq' = rq /\ data' = data /\ errors' = errors
      /\ fsm' = fsm
      /\ \A u \in Writes : u # w => wq'[u] = wq[u] /\ sub'[u] = sub[u]
  BY <1>1 DEF Write, WriteOffline, TypeOK
<1>3. /\ wq'[w].st \in {"busy", "err"}
      /\ wq'[w].before = wq[w].before \/ wq'[w].before = Answered
  BY <1>1 DEF Write, WriteOffline, TypeOK, WriteQueries
<1>4. Answered \subseteq Answered' /\ Acked \subseteq Acked'
  BY <1>2 DEF Answered, Acked
<1>5. BeforeInv'  BY <1>1, <1>2, <1>3, <1>4 DEF BeforeInv
<1>6. ASSUME NEW s \in Stripes
      PROVE  ~(wq'[w].st = "busy" /\ sub'[w][s].ph = "done")
  <2>1. CASE Write(w)
    <3>1. sub'[w][s] = IF s \in MustWait(w) THEN Idle("pending")
                       ELSE IF s \in Touched(Span[w]) THEN Process(w, s, coherency)
                       ELSE Idle("none")
      BY <1>1, <2>1 DEF Write, TypeOK
    <3>2. s \in Touched(Span[w]) => Span[w][s] # {}  BY DEF Touched
    <3> QED  BY <3>1, <3>2, IdleTypeOK, ProcessTypeOK
  <2>2. CASE WriteOffline(w)
    BY <1>1, <2>2 DEF WriteOffline, TypeOK, WriteQueries
  <2> QED  BY <2>1, <2>2
<1>7. WrittenInv'
  BY <1>1, <1>2, <1>3, <1>6 DEF WrittenInv, Stale
<1>8. ErrorInv'
  <2>1. ASSUME NEW u \in Writes, FailingWrite(u) PROVE FailingWrite(u)'
    <3>1. u # w  BY <1>2, <2>1 DEF FailingWrite
    <3> QED  BY <1>2, <2>1, <3>1 DEF FailingWrite, Holds
  <2>2. ASSUME NEW r \in Reads, FailingRead(r) PROVE FailingRead(r)'
    BY <1>2, <2>2 DEF FailingRead
  <2> QED  BY <1>1, <1>2, <2>1, <2>2 DEF ErrorInv
<1>9. GotInv'
  <2>1. \A u \in Acked : wq'[u].before = wq[u].before
    BY <1>2 DEF Acked
  <2> QED  BY <1>1, <1>2, <1>4, <2>1, GotKept
<1> QED  BY <1>5, <1>7, <1>8, <1>9 DEF AnswerInv

\* Steps that leave the writes and the devices alone keep what the answers to
\* writes rest on.
LEMMA WritesUntouched ==
    ASSUME AnswerInv, UNCHANGED <<sub, wq, data>>
    PROVE  /\ BeforeInv' /\ WrittenInv'
           /\ Acked' = Acked
           /\ \A w \in Writes : FailingWrite(w) => FailingWrite(w)'
BY DEF AnswerInv, BeforeInv, WrittenInv, Answered, Acked, Stale, FailingWrite, Holds

\* Submitting a read, or refusing it, keeps what the answers rest on: the read is
\* judged by the writes acknowledged by then.
LEMMA ReadSubmitKeeps ==
    ASSUME WorkInv, AnswerInv, NEW r \in Reads, Read(r) \/ ReadOffline(r)
    PROVE  AnswerInv'
<1>1. TypeOK /\ ErrorInv /\ GotInv  BY DEF WorkInv, AnswerInv
<1>2. /\ rq[r].st = "new" /\ fsm' = fsm /\ errors' = errors
      /\ UNCHANGED <<sub, wq, data>>
      /\ \A q \in Reads : q # r => rq'[q] = rq[q]
  BY <1>1 DEF Read, ReadOffline, TypeOK
<1>3. /\ BeforeInv' /\ WrittenInv' /\ Acked' = Acked
      /\ \A w \in Writes : FailingWrite(w) => FailingWrite(w)'
  BY <1>2, WritesUntouched
<1>4. ErrorInv'
  <2>1. ASSUME NEW q \in Reads, FailingRead(q) PROVE FailingRead(q)'
    BY <1>2, <2>1 DEF FailingRead
  <2> QED  BY <1>1, <1>2, <1>3, <2>1 DEF ErrorInv
<1>5. CASE Read(r)
  <2> DEFINE todo == {x \in Stripes \X Strips : x[2] \in StripsOf(RSpan[r][x[1]])}
  <2>1. rq'[r] = [st |-> "busy", err |-> FALSE, got |-> {}, before |-> Acked,
                  todo |-> todo]
    BY <1>1, <1>5 DEF Read, ReadOps, TypeOK
  <2>2. ASSUME NEW s \in Stripes, NEW c \in RSpan[r][s]
        PROVE  <<s, StripOf[c]>> \in todo
    <3>1. c \in Cells  BY RSpanAssumption
    <3>2. StripOf[c] \in Strips /\ StripOf[c] \in StripsOf(RSpan[r][s])
      BY <3>1, CellsAssumption DEF StripsOf
    <3> QED  BY <3>2
  <2> HIDE DEF todo
  <2>3. /\ rq'[r].st = "busy" /\ rq'[r].got = {} /\ rq'[r].before = Acked
        /\ rq'[r].todo = todo
    BY <2>1
  <2>4. ASSUME NEW q \in Reads, q # r, rq'[q].st \in {"busy", "ok"}
        PROVE  /\ rq'[q].before \subseteq Acked'
               /\ \A w \in rq'[q].before, x \in rq'[q].got :
                     x[2] \in Span[w][x[1]] => ~Stale(x[3], w)'
               /\ ~rq'[q].err => \A s \in Stripes : \A c \in RSpan[q][s] :
                     \/ <<s, StripOf[c]>> \in rq'[q].todo
                     \/ \E v \in Values : <<s, c, v>> \in rq'[q].got
               /\ rq'[q].st = "ok" => ~rq'[q].err /\ rq'[q].todo = {}
    <3>1. rq'[q] = rq[q] /\ rq[q].st \in {"busy", "ok"}  BY <1>2, <2>4
    <3>2. \A v, w : Stale(v, w)' <=> Stale(v, w)  BY <1>2 DEF Stale
    <3> QED  BY <1>1, <1>3, <3>1, <3>2, ZenonT(30) DEF GotInv
  <2>5. GotInv'
    BY <1>3, <2>2, <2>3, <2>4 DEF GotInv
  <2> QED  BY <1>3, <1>4, <2>5 DEF AnswerInv
<1>6. CASE ReadOffline(r)
  <2>1. rq'[r].st = "err"  BY <1>1, <1>6 DEF ReadOffline, TypeOK, ReadQueries
  <2>2. GotInv'  BY <1>1, <1>2, <1>3, <2>1, ZenonT(30) DEF GotInv, Stale
  <2> QED  BY <1>3, <1>4, <2>2 DEF AnswerInv
<1> QED  BY <1>5, <1>6

\* The answer to a strip of a read keeps what the answers rest on: what is on the
\* devices is fresh for every acknowledged write.
LEMMA ReadStepKeeps ==
    ASSUME WorkInv, AnswerInv, NEW r \in Reads, NEW s \in Stripes, NEW k \in Strips,
           NEW ok \in BOOLEAN, ReadDone(r, s, k, ok)
    PROVE  AnswerInv'
<1> DEFINE b    == rq[r]
           cs   == {c \in RSpan[r][s] : StripOf[c] = k}
           new  == {<<s, c, data[s][c]>> : c \in cs}
           e    == b.err \/ ~ok
           last == b.todo = {<<s, k>>}
<1>1. TypeOK /\ ErrorInv /\ GotInv /\ WrittenInv  BY DEF WorkInv, AnswerInv
<1>2. /\ b.st = "busy" /\ <<s, k>> \in b.todo /\ Outcome(ok)
      /\ UNCHANGED <<sub, wq, data>>
      /\ \A q \in Reads : q # r => rq'[q] = rq[q]
      /\ fsm' = IF last /\ e THEN "offline" ELSE fsm
  BY <1>1 DEF ReadDone, TypeOK, FsmAfter
<1>3. b \in ReadQueries  BY <1>1 DEF TypeOK
<1>4. /\ rq'[r].todo = b.todo \ {<<s, k>>} /\ rq'[r].err = e
      /\ rq'[r].got = (IF ok THEN b.got \cup new ELSE b.got)
      /\ rq'[r].st = (IF ~last THEN "busy" ELSE IF e THEN "err" ELSE "ok")
      /\ rq'[r].before = b.before
  <2>1. rq'[r] = [b EXCEPT !.todo = b.todo \ {<<s, k>>}, !.err = e,
                           !.got = IF ok THEN b.got \cup new ELSE b.got,
                           !.st = IF ~last THEN b.st ELSE IF e THEN "err" ELSE "ok"]
    BY <1>1 DEF ReadDone, TypeOK
  <2> HIDE DEF new, e, last
  <2> QED  BY <1>2, <1>3, <2>1 DEF ReadQueries
<1>5. /\ BeforeInv' /\ WrittenInv' /\ Acked' = Acked
      /\ \A w \in Writes : FailingWrite(w) => FailingWrite(w)'
  BY <1>2, WritesUntouched
<1>6. ErrorInv'
  <2> SUFFICES ASSUME errors' > 0, fsm' = "online"
               PROVE  \/ \E u \in Writes : FailingWrite(u)'
                      \/ \E q \in Reads : FailingRead(q)'
    BY DEF ErrorInv
  <2>1. e => FailingRead(r)'  BY <1>2, <1>4 DEF FailingRead
  <2>2. CASE ~ok  BY <2>1, <2>2
  <2>3. CASE ok
    <3>1. errors > 0 /\ fsm = "online"  BY <1>1, <1>2, <2>3 DEF Outcome, TypeOK
    <3>2. ASSUME NEW q \in Reads, FailingRead(q) PROVE FailingRead(q)'
      BY <1>2, <2>1, <3>2 DEF FailingRead
    <3> QED  BY <1>1, <1>5, <3>1, <3>2 DEF ErrorInv
  <2> QED  BY <2>2, <2>3
<1>7. cs \subseteq Cells  BY RSpanAssumption
<1>8. GotInv'
  <2>1. ASSUME NEW q \in Reads, q # r, rq'[q].st \in {"busy", "ok"}
        PROVE  /\ rq'[q].before \subseteq Acked'
               /\ \A w \in rq'[q].before, x \in rq'[q].got :
                     x[2] \in Span[w][x[1]] => ~Stale(x[3], w)'
               /\ ~rq'[q].err => \A t \in Stripes : \A c \in RSpan[q][t] :
                     \/ <<t, StripOf[c]>> \in rq'[q].todo
                     \/ \E v \in Values : <<t, c, v>> \in rq'[q].got
               /\ rq'[q].st = "ok" => ~rq'[q].err /\ rq'[q].todo = {}
    BY <1>1, <1>2, <1>5, <2>1, ZenonT(30) DEF GotInv, Stale
  <2>2. b.before \subseteq Acked  BY <1>1, <1>2 DEF GotInv
  <2>3. ASSUME NEW w \in b.before, NEW x \in rq'[r].got, x[2] \in Span[w][x[1]]
        PROVE  ~Stale(x[3], w)'
    <3>1. CASE x \in b.got
      BY <1>1, <1>2, <2>3, <3>1 DEF GotInv, Stale
    <3>2. CASE x \in new
      <4>1. PICK c \in cs : x = <<s, c, data[s][c]>>  BY <3>2
      <4>2. w \in Writes /\ wq[w].st = "ok"  BY <2>2 DEF Acked
      <4>3. ~Stale(data[s][c], w)
        BY <1>1, <2>3, <4>1, <4>2 DEF WrittenInv
      <4> QED  BY <1>2, <4>1, <4>3 DEF Stale
    <3> QED  BY <1>4, <3>1, <3>2
  <2>4. ASSUME ~e, NEW t \in Stripes, NEW c \in RSpan[r][t]
        PROVE  \/ <<t, StripOf[c]>> \in rq'[r].todo
               \/ \E v \in Values : <<t, c, v>> \in rq'[r].got
    <3>1. \/ <<t, StripOf[c]>> \in b.todo
          \/ \E v \in Values : <<t, c, v>> \in b.got
      BY <1>1, <1>2, <2>4 DEF GotInv
    <3>2. CASE t = s /\ StripOf[c] = k
      <4>1. c \in cs /\ c \in Cells  BY <1>7, <3>2
      <4>2. data[s][c] \in Values  BY <1>1, <4>1 DEF TypeOK
      <4>3. <<t, c, data[s][c]>> \in rq'[r].got
        BY <1>4, <2>4, <3>2, <4>1
      <4> QED  BY <4>2, <4>3
    <3>3. CASE ~(t = s /\ StripOf[c] = k)
      <4>1. <<t, StripOf[c]>> # <<s, k>>  BY <3>3
      <4> QED  BY <1>4, <3>1, <4>1
    <3> QED  BY <3>2, <3>3
  <2>5. rq'[r].st = "ok" => ~rq'[r].err /\ rq'[r].todo = {}
    BY <1>4
  <2> QED  BY <1>4, <1>5, <2>1, <2>2, <2>3, <2>4, <2>5 DEF GotInv
<1> QED  BY <1>5, <1>6, <1>8 DEF AnswerInv

\* A restart keeps what the answers rest on: what lands on a device then belongs
\* to a write that was at work, which is stale for nobody.
LEMMA RestartKeepsAnswers ==
    ASSUME WorkInv, AnswerInv, Restart
    PROVE  AnswerInv'
<1>1. TypeOK /\ QueueInv /\ BeforeInv /\ WrittenInv /\ GotInv
  BY DEF WorkInv, QueueInv, AnswerInv
<1>2. ASSUME NEW w \in Writes
      PROVE  /\ wq'[w].st = IF wq[w].st = "busy" THEN "lost" ELSE wq[w].st
             /\ wq'[w].before = wq[w].before
  <2>1. wq[w] \in WriteQueries  BY <1>1 DEF TypeOK
  <2>2. wq'[w] = [wq[w] EXCEPT !.st = IF wq[w].st = "busy" THEN "lost" ELSE wq[w].st]
    BY DEF Restart
  <2> QED  BY <2>1, <2>2 DEF WriteQueries
<1>3. ASSUME NEW r \in Reads
      PROVE  /\ rq'[r].st = IF rq[r].st = "busy" THEN "lost" ELSE rq[r].st
             /\ rq'[r].before = rq[r].before /\ rq'[r].got = rq[r].got
             /\ rq'[r].err = rq[r].err /\ rq'[r].todo = rq[r].todo
  <2>1. rq[r] \in ReadQueries  BY <1>1 DEF TypeOK
  <2>2. rq'[r] = [rq[r] EXCEPT !.st = IF rq[r].st = "busy" THEN "lost" ELSE rq[r].st]
    BY DEF Restart
  <2> QED  BY <2>1, <2>2 DEF ReadQueries
<1>4. BeforeInv'  BY <1>1, <1>2 DEF BeforeInv, Answered
<1>5. Acked' = Acked  BY <1>2 DEF Acked
<1>6. ASSUME NEW s \in Stripes, NEW c \in Cells
      PROVE  \/ data'[s][c] = data[s][c]
             \/ \E w \in Writes : wq[w].st = "busy" /\ data'[s][c] = w
  <2>1. data'[s] \in Landed(s)  BY DEF Restart
  <2>2. CASE data'[s] = data[s]  BY <2>2
  <2>3. ASSUME NEW w \in Writes, NEW cs \in SUBSET InFlight(w, s),
               data'[s] = Over(data[s], cs, w)
        PROVE  \/ data'[s][c] = data[s][c]
               \/ \E u \in Writes : wq[u].st = "busy" /\ data'[s][c] = u
    <3>1. CASE c \in cs
      <4>1. Holds(w, s)  BY <3>1 DEF InFlight, Holds
      <4>2. wq[w].st = "busy"  BY <1>1, <4>1 DEF QueueInv, BusyInv
      <4> QED  BY <2>3, <3>1, <4>2 DEF Over
    <3>2. CASE c \notin cs  BY <2>3, <3>2 DEF Over
    <3> QED  BY <3>1, <3>2
  <2> QED  BY <2>1, <2>2, <2>3 DEF Landed
<1>7. WrittenInv'
  <2> SUFFICES ASSUME NEW u \in Writes, NEW s \in Stripes, NEW c \in Span[u][s],
                      wq[u].st = "ok"
               PROVE  ~Stale(data[s][c], u)'
    BY <1>2 DEF WrittenInv
  <2>1. c \in Cells  BY SpanAssumption
  <2>2. ~Stale(data[s][c], u)  BY <1>1 DEF WrittenInv
  <2>3. CASE data'[s][c] = data[s][c]  BY <1>2, <2>2, <2>3 DEF Stale
  <2>4. ASSUME NEW w \in Writes, wq[w].st = "busy", data'[s][c] = w
        PROVE  ~Stale(data[s][c], u)'
    <3>1. w # Old /\ w \notin wq[u].before  BY <1>1, <2>4, BusyIsFresh
    <3> QED  BY <1>2, <2>4, <3>1 DEF Stale
  <2> QED  BY <1>6, <2>1, <2>3, <2>4
<1>8. ErrorInv'  BY DEF ErrorInv, Restart
<1>9. GotInv'
  <2> SUFFICES ASSUME NEW r \in Reads, rq[r].st = "ok"
               PROVE  /\ rq[r].before \subseteq Acked'
                      /\ \A w \in rq[r].before, x \in rq[r].got :
                            x[2] \in Span[w][x[1]] => ~Stale(x[3], w)'
                      /\ ~rq[r].err => \A s \in Stripes : \A c \in RSpan[r][s] :
                            \/ <<s, StripOf[c]>> \in rq[r].todo
                            \/ \E v \in Values : <<s, c, v>> \in rq[r].got
                      /\ ~rq[r].err /\ rq[r].todo = {}
    BY <1>3 DEF GotInv
  <2>1. rq[r].before \subseteq Writes  BY <1>1 DEF GotInv, Acked
  <2> QED  BY <1>1, <1>2, <1>5, <2>1 DEF GotInv, Stale
<1> QED  BY <1>4, <1>7, <1>8, <1>9 DEF AnswerInv

-----------------------------------------------------------------------------
(* Theorems *)

\* A target just built has answered nobody.
LEMMA InitAnswers == Init => AnswerInv
<1> SUFFICES ASSUME Init PROVE AnswerInv
  OBVIOUS
<1>1. \A w \in Writes : wq[w].st = "new" /\ wq[w].before = {}  BY DEF Init
<1>2. \A r \in Reads : rq[r].st = "new"  BY DEF Init
<1>3. errors = 0  BY DEF Init
<1> QED
  BY <1>1, <1>2, <1>3 DEF AnswerInv, BeforeInv, WrittenInv, ErrorInv, GotInv

\* Every step of the target keeps what the answers rest on.
LEMMA NextAnswers == WorkInv /\ WorkInv' /\ AnswerInv /\ [Next]_vars => AnswerInv'
<1> SUFFICES ASSUME WorkInv, WorkInv', AnswerInv, [Next]_vars PROVE AnswerInv'
  OBVIOUS
<1>0. errors' \in Nat  BY DEF WorkInv, TypeOK
<1>1. ASSUME NEW w \in Writes, Write(w) \/ WriteOffline(w) PROVE AnswerInv'
  BY <1>1, SubmitKeeps
<1>2. ASSUME NEW r \in Reads, Read(r) \/ ReadOffline(r) PROVE AnswerInv'
  BY <1>2, ReadSubmitKeeps
<1>3. CASE Completion
  <2>1. ASSUME NEW ok \in BOOLEAN, NEW w \in Writes, NEW s \in Stripes,
               \/ \E k \in Strips : DataReadDone(w, s, k, ok)
               \/ ParityReadDone(w, s, ok)
               \/ \E k \in Strips : DataWriteDone(w, s, k, ok)
               \/ ParityWriteDone(w, s, ok)
        PROVE  AnswerInv'
    <3>1. PartStep(w, s)
      BY <2>1, DataReadDoneIsPart, ParityReadDoneIsPart, DataWriteDoneIsPart,
         ParityWriteDoneIsPart
    <3> QED  BY <1>0, <3>1, PartStepKeeps
  <2>2. ASSUME NEW ok \in BOOLEAN, NEW r \in Reads, NEW s \in Stripes,
               NEW k \in Strips, ReadDone(r, s, k, ok)
        PROVE  AnswerInv'
    BY <2>2, ReadStepKeeps
  <2> QED  BY <1>3, <2>1, <2>2 DEF Completion
<1>4. CASE Restart  BY <1>4, RestartKeepsAnswers
<1>5. CASE UNCHANGED vars
  <2>1. UNCHANGED <<sub, wq, data, rq, errors, fsm>>  BY <1>5 DEF vars
  <2>2. /\ BeforeInv' /\ WrittenInv' /\ Acked' = Acked
        /\ \A w \in Writes : FailingWrite(w) => FailingWrite(w)'
    BY <2>1, WritesUntouched
  <2>3. ErrorInv'  BY <2>1, <2>2 DEF AnswerInv, ErrorInv, FailingRead
  <2>4. GotInv'  BY <2>1, <2>2, GotKept DEF AnswerInv
  <2> QED  BY <2>2, <2>3, <2>4 DEF AnswerInv
<1> QED  BY <1>1, <1>2, <1>3, <1>4, <1>5 DEF Next

\* The whole inductive invariant holds for every number of writes, reads, stripes,
\* strips, cells, device errors and restarts.
THEOREM Invariance == Spec => []IInv
<1>1. Init => IInv  BY InitWorkInv, InitAnswers DEF IInv
<1>2. IInv /\ [Next]_vars => IInv'  BY NextWorkInv, NextAnswers DEF IInv
<1> QED  BY <1>1, <1>2, PTL DEF Spec

\* Data of a write answered with success is on the devices, or newer data is: no
\* write that waited for a lock, failed half way or was cut short by a restart
\* ever puts older data back.
THEOREM WritesDurable == Spec => []AckedWriteDurable
<1>1. IInv => AckedWriteDurable
  BY DEF IInv, AnswerInv, WrittenInv, AckedWriteDurable, Acked
<1> QED  BY <1>1, Invariance, PTL

\* A device error, in whatever phase of whatever request, has taken the target
\* offline by the time no request is in progress: no completer drops it.
THEOREM ErrorsNotLost == Spec => []ErrorsReachFsm
<1>1. IInv => ErrorsReachFsm
  BY DEF IInv, WorkInv, TypeOK, AnswerInv, ErrorInv, ErrorsReachFsm, FailingWrite,
         FailingRead
<1> QED  BY <1>1, Invariance, PTL

\* A read answered with success has brought every cell asked for, and none older
\* than what was acknowledged before the read was submitted.
THEOREM ReadsFresh == Spec => []ReadFresh
<1>1. IInv => ReadFresh
  <2> SUFFICES ASSUME IInv, NEW r \in Reads, rq[r].st = "ok"
               PROVE  /\ \A w \in rq[r].before, x \in rq[r].got :
                            x[2] \in Span[w][x[1]] => ~Stale(x[3], w)
                      /\ \A s \in Stripes : \A c \in RSpan[r][s] :
                            \E v \in Values : <<s, c, v>> \in rq[r].got
    BY DEF ReadFresh
  <2>1. GotInv  BY DEF IInv, AnswerInv
  <2> QED  BY <2>1 DEF GotInv
<1> QED  BY <1>1, Invariance, PTL

=============================================================================
