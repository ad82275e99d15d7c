------------------------------- MODULE Channel -------------------------------
(***************************************************************************)
(* What a command ring promises: a FIFO of bounded capacity between one    *)
(* producer and one consumer.  A push or a pop that fails changes nothing. *)
(***************************************************************************)
EXTENDS Naturals, Sequences

CONSTANTS
    Values,     \* what is sent
    Capacity    \* how many values may be under way

VARIABLES
    q,          \* the values under way, in the order they were sent
    last        \* the value received last; any one before the first

Init == q = <<>> /\ last \in Values

Send(v) == /\ Len(q) < Capacity
           /\ q' = Append(q, v)
           /\ UNCHANGED last

Receive == /\ q # <<>>
           /\ last' = Head(q)
           /\ q' = Tail(q)

Next == (\E v \in Values : Send(v)) \/ Receive

Spec == Init /\ [][Next]_<<q, last>>
==============================================================================
