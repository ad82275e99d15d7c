--------------------------------- MODULE Cfq ---------------------------------
(***************************************************************************)
(* A ring between one cfq::pusher and one cfq::popper, the queues of       *)
(* commands and of acknowledgements that the driver and the process share. *)
(* Driver and process run concurrently, so push and pop are steps: look at *)
(* the position of the other side, copy the item, publish the position.    *)
(*                                                                         *)
(* A side may see an old position of the other one, though never one older *)
(* than it saw before.  For the commands it always does: the head is a     *)
(* variable of the process (slave.cpp), and the driver knows it from the   *)
(* counts the process reports.  The item is copied before the position     *)
(* that covers it is published (release), and read after (acquire).        *)
(***************************************************************************)
EXTENDS Naturals, Sequences

CONSTANTS
    Values,     \* what is queued
    N           \* capacity_full(), the number of slots

ASSUME NAssumption == N \in Nat /\ N >= 2

Slots == 0..(N - 1)

VARIABLES
    items,      \* items_
    ph, pt,     \* *ph_ and *pt_, the positions in shared memory
    hseen,      \* the head the pusher saw last
    tseen,      \* the tail the popper saw last
    push, new,  \* where the call of push() is, and its argument
    pop, v,     \* where the call of pop() is, and what it has copied
    last        \* what the last successful pop() returned

pushVars == <<pt, hseen, push, new>>
popVars  == <<ph, tseen, pop, v, last>>
vars     == <<items, pushVars, popVars>>

\* Mutant: the position is not taken modulo the number of slots.
NextSlotUnwrapped(p) == p + 1

NextSlot(p) == (p + 1) % N

\* From a on, round the ring, up to b
Between(a, b) == IF a <= b THEN a..b ELSE (a..(N - 1)) \cup (0..b)

-----------------------------------------------------------------------------
(* push(new) *)

\* Mutant: the ring is filled to the last slot.
HasRoomAlways(h) == TRUE

HasRoom(h) == NextSlot(pt) # h

\* There is room, seen from here: the push will succeed.
PushCheck(val, h) ==
    /\ push = "idle"
    /\ h \in Between(hseen, ph) /\ HasRoom(h)
    /\ hseen' = h
    /\ push' = "copy" /\ new' = val
    /\ UNCHANGED <<items, pt, popVars>>

\* There is none: push() returns false.
PushFull(h) ==
    /\ push = "idle"
    /\ h \in Between(hseen, ph) /\ ~HasRoom(h)
    /\ hseen' = h
    /\ UNCHANGED <<items, pt, push, new, popVars>>

PushCopy ==
    /\ push = "copy"
    /\ items' = [items EXCEPT ![pt] = new]
    /\ push' = "publish"
    /\ UNCHANGED <<pt, hseen, new, popVars>>

PushPublish ==
    /\ push = "publish"
    /\ pt' = NextSlot(pt)
    /\ push' = "idle"
    /\ UNCHANGED <<items, hseen, new, popVars>>

-----------------------------------------------------------------------------
(* pop() *)

\* Mutant: the tail is expected above the head, which it is not once it wraps.
HasItemAbove(t) == t > ph

HasItem(t) == t # ph

PopCheck(t) ==
    /\ pop = "idle"
    /\ t \in Between(tseen, pt) /\ HasItem(t)
    /\ tseen' = t
    /\ pop' = "copy"
    /\ UNCHANGED <<items, pushVars, ph, v, last>>

\* pop() returns nothing.
PopEmpty(t) ==
    /\ pop = "idle"
    /\ t \in Between(tseen, pt) /\ ~HasItem(t)
    /\ tseen' = t
    /\ UNCHANGED <<items, pushVars, ph, pop, v, last>>

\* Mutant: the slot after the head is copied.
SlotToPopNext == NextSlot(ph)

SlotToPop == ph

PopCopy ==
    /\ pop = "copy"
    /\ v' = items[SlotToPop]
    /\ pop' = "publish"
    /\ UNCHANGED <<items, pushVars, ph, tseen, last>>

PopPublish ==
    /\ pop = "publish"
    /\ ph' = NextSlot(ph)
    /\ last' = v
    /\ pop' = "idle"
    /\ UNCHANGED <<items, pushVars, tseen, v>>

-----------------------------------------------------------------------------
Init ==
    /\ items \in [Slots -> Values]
    /\ ph = 0 /\ pt = 0 /\ hseen = 0 /\ tseen = 0
    /\ push = "idle" /\ new \in Values
    /\ pop = "idle" /\ v \in Values
    /\ last \in Values

Push == \/ \E val \in Values, h \in Slots : PushCheck(val, h)
        \/ \E h \in Slots : PushFull(h)
        \/ PushCopy \/ PushPublish

Pop == \/ \E t \in Slots : PopCheck(t) \/ PopEmpty(t)
       \/ PopCopy \/ PopPublish

Next == Push \/ Pop

Spec == Init /\ [][Next]_vars

\* The popper calls pop() until it gets an item, and a published tail is seen
\* in the end; nobody has to push.
FairSpec ==
    Spec /\ WF_vars(PopCheck(pt)) /\ WF_vars(PopCopy) /\ WF_vars(PopPublish)

-----------------------------------------------------------------------------
(* Properties *)

TypeOK ==
    /\ items \in [Slots -> Values]
    /\ ph \in Slots /\ pt \in Slots /\ hseen \in Slots /\ tseen \in Slots
    /\ push \in {"idle", "copy", "publish"} /\ new \in Values
    /\ pop \in {"idle", "copy", "publish"} /\ v \in Values
    /\ last \in Values

\* The slot an item is being copied into is never the one an item is being
\* copied from: no item is overwritten while it is read (push writes items_[ct]
\* with nothing but the relaxed load of the head before it).
SlotExclusive == ~(push = "copy" /\ pop = "copy" /\ pt = ph)

\* The items under way: from the head round to the tail.
Ahead(a, b) == IF a <= b THEN b - a ELSE b + N - a
Slot(i) == IF ph + i < N THEN ph + i ELSE ph + i - N
Contents == [i \in 1..Ahead(ph, pt) |-> items[Slot(i - 1)]]

Fifo == INSTANCE Channel WITH q <- Contents, Capacity <- N - 1

\* The ring is a FIFO of capacity_full() - 1 items: every item popped is the
\* oldest pushed, none is lost, doubled or overwritten, although each side acts
\* on what may be an old position of the other.
ImplementsFifo == Fifo!Spec

\* An item that is queued is taken, wherever the head stands and however often
\* the ring has wrapped: the pop loop of the command handler ends.
Drains == \A p \in Slots : (ph = p /\ pt # p) ~> ph # p

\* The inductive invariant: what a side saw is behind where the other side is,
\* and what it concluded from it still holds while it acts on it.
SeenInv ==
    /\ Ahead(ph, pt) <= Ahead(hseen, pt)
    /\ Ahead(ph, tseen) <= Ahead(ph, pt)
PushInv ==
    /\ push # "idle" => Ahead(hseen, pt) < N - 1
    /\ push = "publish" => items[pt] = new
PopInv ==
    /\ pop # "idle" => tseen # ph
    /\ pop = "publish" => v = items[ph]
IInv == TypeOK /\ SeenInv /\ PushInv /\ PopInv
==============================================================================
