------------------------------ MODULE CfqProofs ------------------------------
(***************************************************************************)
(* Proofs about the rings of commands, for any number of slots and any     *)
(* values: the ring implements a bounded FIFO, and no slot is read while   *)
(* it is written.                                                          *)
(***************************************************************************)
EXTENDS Cfq, TLAPS

\* The position after p, without the modulo of the code.
LEMMA NextSlotIs ==
    ASSUME NEW p \in Slots
    PROVE  /\ NextSlot(p) = IF p + 1 = N THEN 0 ELSE p + 1
           /\ NextSlot(p) \in Slots
BY NAssumption DEF NextSlot, Slots

\* Distances round the ring stay below the number of slots; what lies between
\* a and b is no further from a than b is, and moving from a towards b brings
\* one nearer.
LEMMA AheadFacts ==
    ASSUME NEW a \in Slots, NEW b \in Slots
    PROVE  /\ Ahead(a, b) \in 0..(N - 1)
           /\ Ahead(a, b) = 0 <=> a = b
           /\ Ahead(a, b) = N - 1 <=> NextSlot(b) = a
           /\ NextSlot(b) # a => Ahead(a, NextSlot(b)) = Ahead(a, b) + 1
           /\ a # b => Ahead(NextSlot(a), b) = Ahead(a, b) - 1
BY NAssumption, NextSlotIs DEF Ahead, Slots

\* Going round the ring from a, what lies between b and c is met after b and
\* before c.
LEMMA BetweenFacts ==
    ASSUME NEW a \in Slots, NEW b \in Slots, NEW c \in Slots,
           Ahead(a, b) <= Ahead(a, c),
           NEW x \in Between(b, c)
    PROVE  /\ x \in Slots
           /\ Ahead(a, b) <= Ahead(a, x)
           /\ Ahead(a, x) <= Ahead(a, c)
BY NAssumption DEF Ahead, Slots, Between

\* The same, seen from the end: what lies between b and c is nearer to a
\* point ahead of both than b is, and not nearer than c.
LEMMA BetweenBehind ==
    ASSUME NEW a \in Slots, NEW b \in Slots, NEW c \in Slots,
           Ahead(c, a) <= Ahead(b, a),
           NEW x \in Between(b, c)
    PROVE  /\ x \in Slots
           /\ Ahead(c, a) <= Ahead(x, a)
           /\ Ahead(x, a) <= Ahead(b, a)
BY NAssumption DEF Ahead, Slots, Between

-----------------------------------------------------------------------------
(* The inductive invariant *)

\* Initially both sides stand at slot 0 and have seen each other there.
LEMMA InitInv == Init => IInv
BY NAssumption DEF Init, IInv, TypeOK, SeenInv, PushInv, PopInv, Ahead, Slots

\* Every step of push and of pop preserves the invariant.
LEMMA StepInv == IInv /\ [Next]_vars => IInv'
<1> SUFFICES ASSUME IInv, [Next]_vars
             PROVE  IInv'
  OBVIOUS
<1> USE DEF IInv, pushVars, popVars
<1>0. /\ ph \in Slots /\ pt \in Slots /\ hseen \in Slots /\ tseen \in Slots
      /\ NextSlot(ph) \in Slots /\ NextSlot(pt) \in Slots
  BY NextSlotIs DEF TypeOK
<1>1. ASSUME NEW val \in Values, NEW h \in Slots, PushCheck(val, h)
      PROVE  IInv'
  <2>1. Ahead(ph, pt) <= Ahead(h, pt)
    BY <1>0, <1>1, BetweenBehind DEF PushCheck, SeenInv
  <2>2. Ahead(h, pt) < N - 1
    BY <1>0, <1>1, AheadFacts, NAssumption DEF PushCheck, HasRoom
  <2> QED BY <1>1, <2>1, <2>2
        DEF PushCheck, TypeOK, SeenInv, PushInv, PopInv, Ahead
<1>2. ASSUME NEW h \in Slots, PushFull(h)
      PROVE  IInv'
  <2>1. Ahead(ph, pt) <= Ahead(h, pt)
    BY <1>0, <1>2, BetweenBehind DEF PushFull, SeenInv
  <2> QED BY <1>2, <2>1
        DEF PushFull, TypeOK, SeenInv, PushInv, PopInv, Ahead
<1>3. CASE PushCopy
  <2>1. pop = "publish" => ph # pt
    BY <1>0, AheadFacts, NAssumption DEF PopInv, SeenInv, Ahead, Slots
  <2> QED BY <1>0, <1>3, <2>1
        DEF PushCopy, TypeOK, SeenInv, PushInv, PopInv, Ahead
<1>4. CASE PushPublish
  <2>1. NextSlot(pt) # hseen /\ NextSlot(pt) # ph
    BY <1>0, <1>4, AheadFacts, NAssumption
    DEF PushPublish, PushInv, SeenInv, Slots
  <2>2. /\ Ahead(ph, NextSlot(pt)) = Ahead(ph, pt) + 1
        /\ Ahead(hseen, NextSlot(pt)) = Ahead(hseen, pt) + 1
    BY <1>0, <2>1, AheadFacts
  <2>3. /\ Ahead(ph, pt)' = Ahead(ph, NextSlot(pt))
        /\ Ahead(hseen, pt)' = Ahead(hseen, NextSlot(pt))
        /\ Ahead(ph, tseen)' = Ahead(ph, tseen)
    BY <1>4 DEF PushPublish, Ahead
  <2>4. /\ Ahead(ph, pt) \in 0..(N - 1) /\ Ahead(hseen, pt) \in 0..(N - 1)
        /\ Ahead(ph, tseen) \in 0..(N - 1)
    BY <1>0, AheadFacts
  <2>5. SeenInv'
    BY <2>2, <2>3, <2>4, NAssumption DEF SeenInv
  <2>6. TypeOK' /\ PushInv' /\ PopInv'
    BY <1>0, <1>4 DEF PushPublish, TypeOK, PushInv, PopInv
  <2> QED BY <2>5, <2>6
<1>5. ASSUME NEW t \in Slots, PopCheck(t)
      PROVE  IInv'
  <2>1. Ahead(ph, t) <= Ahead(ph, pt)
    BY <1>0, <1>5, BetweenFacts DEF PopCheck, SeenInv
  <2> QED BY <1>5, <2>1
        DEF PopCheck, HasItem, TypeOK, SeenInv, PushInv, PopInv, Ahead
<1>6. ASSUME NEW t \in Slots, PopEmpty(t)
      PROVE  IInv'
  <2>1. Ahead(ph, t) <= Ahead(ph, pt)
    BY <1>0, <1>6, BetweenFacts DEF PopEmpty, SeenInv
  <2> QED BY <1>6, <2>1
        DEF PopEmpty, TypeOK, SeenInv, PushInv, PopInv, Ahead
<1>7. CASE PopCopy
  BY <1>0, <1>7 DEF PopCopy, SlotToPop, TypeOK, SeenInv, PushInv, PopInv, Ahead
<1>8. CASE PopPublish
  <2>1. tseen # ph /\ pt # ph
    BY <1>0, <1>8, AheadFacts, NAssumption
    DEF PopPublish, PopInv, SeenInv, Slots
  <2>2. /\ Ahead(NextSlot(ph), pt) = Ahead(ph, pt) - 1
        /\ Ahead(NextSlot(ph), tseen) = Ahead(ph, tseen) - 1
    BY <1>0, <2>1, AheadFacts
  <2>3. /\ Ahead(ph, pt)' = Ahead(NextSlot(ph), pt)
        /\ Ahead(ph, tseen)' = Ahead(NextSlot(ph), tseen)
        /\ Ahead(hseen, pt)' = Ahead(hseen, pt)
    BY <1>8 DEF PopPublish, Ahead
  <2>4. /\ Ahead(ph, pt) \in 0..(N - 1) /\ Ahead(hseen, pt) \in 0..(N - 1)
        /\ Ahead(ph, tseen) \in 0..(N - 1)
    BY <1>0, AheadFacts
  <2>5. SeenInv'
    BY <2>2, <2>3, <2>4, NAssumption DEF SeenInv
  <2>6. TypeOK' /\ PushInv' /\ PopInv'
    BY <1>0, <1>8, <2>3 DEF PopPublish, TypeOK, PushInv, PopInv
  <2> QED BY <2>5, <2>6
<1>9. CASE UNCHANGED vars
  BY <1>9 DEF vars, TypeOK, SeenInv, PushInv, PopInv, Ahead
<1> QED BY <1>1, <1>2, <1>3, <1>4, <1>5, <1>6, <1>7, <1>8, <1>9 DEF Next, Push, Pop

\* The invariant holds in every state of the ring, for any number of slots.
THEOREM RingInvariance == Spec => []IInv
BY InitInv, StepInv, PTL DEF Spec

\* No item is overwritten while it is read, although the pusher synchronises
\* with nothing but a relaxed load of the head.
THEOREM NoOverwrite == Spec => []SlotExclusive
<1>1. ASSUME IInv, pop # "idle"
      PROVE  pt # ph
  <2>1. ph \in Slots /\ pt \in Slots /\ tseen \in Slots /\ tseen # ph
    BY <1>1 DEF IInv, TypeOK, PopInv
  <2>2. Ahead(ph, tseen) \in 0..(N - 1) /\ Ahead(ph, tseen) # 0
    BY <2>1, AheadFacts
  <2>3. Ahead(ph, pt) # 0
    BY <1>1, <2>1, <2>2, AheadFacts, NAssumption DEF IInv, SeenInv
  <2> QED BY <2>1, <2>3, AheadFacts
<1>2. IInv => SlotExclusive
  BY <1>1 DEF SlotExclusive
<1> QED BY <1>2, RingInvariance, PTL

-----------------------------------------------------------------------------
(* The ring implements the FIFO *)

\* The slots of the items under way are slots of the ring, the oldest at the
\* head; the slot after the newest is the one at the tail.
LEMMA SlotFacts ==
    ASSUME ph \in Slots, pt \in Slots
    PROVE  /\ Ahead(ph, pt) \in Nat
           /\ \A i \in 0..(Ahead(ph, pt) - 1) : Slot(i) \in Slots \ {pt}
           /\ Slot(Ahead(ph, pt)) = pt
           /\ Slot(0) = ph
BY NAssumption DEF Slot, Ahead, Slots

\* The items under way are a sequence of values.
LEMMA ContentsType ==
    ASSUME TypeOK
    PROVE  /\ Contents \in Seq(Values)
           /\ Len(Contents) = Ahead(ph, pt)
           /\ \A i \in 1..Ahead(ph, pt) : Contents[i] = items[Slot(i - 1)]
<1>1. /\ Ahead(ph, pt) \in Nat
      /\ \A i \in 0..(Ahead(ph, pt) - 1) : Slot(i) \in Slots
  BY SlotFacts DEF TypeOK
<1>2. \A i \in 1..Ahead(ph, pt) : items[Slot(i - 1)] \in Values
  BY <1>1 DEF TypeOK
<1> QED BY <1>1, <1>2 DEF Contents

\* Sequences that agree in length and in every element are equal.
LEMMA SeqEqual ==
    ASSUME NEW S, NEW s \in Seq(S), NEW t \in Seq(S), Len(s) = Len(t),
           \A i \in 1..Len(s) : s[i] = t[i]
    PROVE  s = t
OBVIOUS

\* A step that leaves positions, items and result alone leaves the FIFO alone.
LEMMA SameContents ==
    ASSUME UNCHANGED <<items, ph, pt, last>>
    PROVE  UNCHANGED <<Contents, last>>
BY DEF Contents, Ahead, Slot

\* Copying an item into the slot at the tail changes nothing that is queued.
LEMMA CopyStutters ==
    ASSUME IInv, IInv', PushCopy
    PROVE  UNCHANGED <<Contents, last>>
<1>1. /\ UNCHANGED <<ph, pt, last>>
      /\ \A x \in Slots \ {pt} : items'[x] = items[x]
  BY DEF PushCopy, popVars, IInv, TypeOK
<1>2. Ahead(ph, pt)' = Ahead(ph, pt) /\ \A i : Slot(i)' = Slot(i)
  BY <1>1 DEF Ahead, Slot
<1>3. \A i \in 1..Ahead(ph, pt) : items'[Slot(i - 1)] = items[Slot(i - 1)]
  BY <1>1, SlotFacts DEF IInv, TypeOK
<1> QED BY <1>1, <1>2, <1>3 DEF Contents

\* Publishing the tail sends the item copied.
LEMMA PublishSends ==
    ASSUME IInv, IInv', PushPublish
    PROVE  Fifo!Send(new)
<1> DEFINE n == Ahead(ph, pt)
<1>0. ph \in Slots /\ pt \in Slots /\ hseen \in Slots
  BY DEF IInv, TypeOK
<1>1. UNCHANGED <<ph, items, last>> /\ pt' = NextSlot(pt)
  BY DEF PushPublish, popVars
<1>2. n \in Nat /\ n < N - 1
  BY <1>0, AheadFacts, NAssumption DEF IInv, SeenInv, PushInv, PushPublish
<1>3. NextSlot(pt) # ph
  BY <1>0, <1>2, AheadFacts
<1>4. Ahead(ph, pt)' = n + 1 /\ \A i : Slot(i)' = Slot(i)
  <2>1. Ahead(ph, pt)' = Ahead(ph, NextSlot(pt))
    BY <1>1 DEF Ahead
  <2> QED BY <2>1, <1>0, <1>1, <1>3, AheadFacts DEF Slot
<1>5. items[Slot(n)] = new
  BY <1>0, SlotFacts DEF IInv, PushInv, PushPublish
<1>6. /\ Contents \in Seq(Values) /\ Len(Contents) = n
      /\ \A i \in 1..n : Contents[i] = items[Slot(i - 1)]
  BY ContentsType DEF IInv
<1>7. /\ Contents' \in Seq(Values) /\ Len(Contents') = n + 1
      /\ \A i \in 1..(n + 1) : Contents'[i] = items[Slot(i - 1)]
  <2> DEFINE g == [i \in 1..(n + 1) |-> items[Slot(i - 1)]]
  <2>1. Contents' = g
    BY <1>1, <1>4 DEF Contents
  <2>2. \A i \in 1..(n + 1) : Slot(i - 1) \in Slots
    BY <1>0, <1>2, SlotFacts
  <2>3. g \in [1..(n + 1) -> Values]
    BY <2>2 DEF IInv, TypeOK
  <2>4. n + 1 \in Nat
    BY <1>2
  <2>5. g \in Seq(Values) /\ Len(g) = n + 1
    BY <2>3, <2>4
  <2>6. \A i \in 1..(n + 1) : g[i] = items[Slot(i - 1)]
    OBVIOUS
  <2> HIDE DEF g
  <2> QED BY <2>1, <2>5, <2>6
<1>8. new \in Values
  BY DEF IInv, TypeOK
<1>9. Contents' = Append(Contents, new)
  <2> DEFINE s == Append(Contents, new)
  <2>1. s \in Seq(Values) /\ Len(s) = n + 1 /\ s[n + 1] = new
        /\ \A i \in 1..n : s[i] = Contents[i]
    BY <1>2, <1>6, <1>8
  <2>2. \A i \in 1..(n + 1) : Contents'[i] = s[i]
    <3> SUFFICES ASSUME NEW i \in 1..(n + 1) PROVE Contents'[i] = s[i]
      OBVIOUS
    <3>1. CASE i = n + 1
      <4>1. Contents'[i] = items[Slot(n)]
        BY <1>2, <1>7, <3>1
      <4> QED BY <4>1, <2>1, <1>5, <3>1
    <3>2. CASE i \in 1..n
      BY <1>6, <1>7, <2>1, <3>2
    <3>3. i = n + 1 \/ i \in 1..n
      BY <1>2
    <3> QED BY <3>1, <3>2, <3>3
  <2> QED BY <1>7, <2>1, <2>2, SeqEqual
<1> QED BY <1>1, <1>2, <1>6, <1>9 DEF Fifo!Send

\* Publishing the head receives the oldest item.
LEMMA PublishReceives ==
    ASSUME IInv, IInv', PopPublish
    PROVE  Fifo!Receive
<1> DEFINE n == Ahead(ph, pt)
<1>0. ph \in Slots /\ pt \in Slots /\ tseen \in Slots /\ ph # tseen
  BY DEF IInv, TypeOK, PopInv, PopPublish
<1>1. /\ UNCHANGED <<pt, items>> /\ ph' = NextSlot(ph)
      /\ last' = v /\ v = items[ph]
  BY DEF PopPublish, pushVars, IInv, PopInv
<1>2. n \in Nat /\ n > 0 /\ ph # pt
  <2>1. Ahead(ph, tseen) \in 0..(N - 1) /\ Ahead(ph, tseen) # 0
    BY <1>0, AheadFacts
  <2>2. n \in 0..(N - 1) /\ n # 0
    BY <1>0, <2>1, AheadFacts, NAssumption DEF IInv, SeenInv
  <2> QED BY <1>0, <2>2, AheadFacts
<1>3. Ahead(ph, pt)' = n - 1
  <2>1. Ahead(ph, pt)' = Ahead(NextSlot(ph), pt)
    BY <1>1 DEF Ahead
  <2> QED BY <2>1, <1>0, <1>2, AheadFacts
<1>4. \A i \in 0..(n - 1) : Slot(i)' = Slot(i + 1)
  BY <1>0, <1>1, <1>2, NextSlotIs, NAssumption DEF Slot, Slots, Ahead
<1>5. /\ Contents \in Seq(Values) /\ Len(Contents) = n
      /\ \A i \in 1..n : Contents[i] = items[Slot(i - 1)]
  BY ContentsType DEF IInv
<1>6. /\ Contents' \in Seq(Values) /\ Len(Contents') = n - 1
      /\ \A i \in 1..(n - 1) : Contents'[i] = items[Slot(i)]
  <2> DEFINE g == [i \in 1..(n - 1) |-> items[Slot(i)]]
  <2>1. \A i \in 1..(n - 1) : Slot(i - 1)' = Slot(i)
    BY <1>2, <1>4
  <2>2. Contents' = g
    BY <1>1, <1>3, <2>1 DEF Contents
  <2>3. \A i \in 1..(n - 1) : Slot(i) \in Slots
    BY <1>0, <1>2, SlotFacts
  <2>4. g \in [1..(n - 1) -> Values]
    BY <2>3 DEF IInv, TypeOK
  <2> QED BY <2>2, <2>4, <1>2
<1>7. Head(Contents) = v /\ Contents # <<>>
  BY <1>0, <1>1, <1>2, <1>5, SlotFacts
<1>8. Contents' = Tail(Contents)
  <2>1. /\ Tail(Contents) \in Seq(Values) /\ Len(Tail(Contents)) = n - 1
        /\ \A i \in 1..(n - 1) : Tail(Contents)[i] = Contents[i + 1]
    BY <1>2, <1>5, <1>7
  <2>2. \A i \in 1..(n - 1) : Contents'[i] = Tail(Contents)[i]
    BY <1>2, <1>5, <1>6, <2>1, SMTT(20)
  <2> QED BY <1>6, <2>1, <2>2, SeqEqual
<1> QED BY <1>1, <1>7, <1>8 DEF Fifo!Receive

\* The ring is a FIFO of one item less than it has slots, for any number of
\* slots: nothing is lost, doubled, reordered or overwritten, though each side
\* decides on what may be an old position of the other.
THEOREM RingIsFifo == Spec => ImplementsFifo
<1>1. Init => Fifo!Init
  <2> SUFFICES ASSUME Init PROVE Fifo!Init
    OBVIOUS
  <2>1. Ahead(ph, pt) = 0
    BY DEF Init, Ahead
  <2>2. Contents = <<>>
    BY <2>1 DEF Contents
  <2> QED BY <2>2 DEF Fifo!Init, Init
<1>2. IInv /\ IInv' /\ [Next]_vars => [Fifo!Next]_<<Contents, last>>
  <2> SUFFICES ASSUME IInv, IInv', [Next]_vars
               PROVE  [Fifo!Next]_<<Contents, last>>
    OBVIOUS
  <2>1. CASE PushPublish
    <3>1. new \in Values
      BY DEF IInv, TypeOK
    <3> QED BY <2>1, <3>1, PublishSends DEF Fifo!Next
  <2>2. CASE PopPublish
    BY <2>2, PublishReceives DEF Fifo!Next
  <2>3. CASE PushCopy
    BY <2>3, CopyStutters
  <2>4. CASE UNCHANGED <<items, ph, pt, last>>
    BY <2>4, SameContents
  <2>5. \/ PushPublish \/ PopPublish \/ PushCopy
        \/ UNCHANGED <<items, ph, pt, last>>
    BY DEF Next, Push, Pop, PushCheck, PushFull, PopCheck, PopEmpty, PopCopy,
           vars, pushVars, popVars
  <2> QED BY <2>1, <2>2, <2>3, <2>4, <2>5
<1> QED BY <1>1, <1>2, RingInvariance, PTL DEF Spec, ImplementsFifo, Fifo!Spec
=============================================================================
