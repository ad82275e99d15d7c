------------------------------ MODULE MCRaidSP ------------------------------
(* A small instance of RaidSP: two stripes of two data strips, the first      *)
(* strip of two cells.  Writes to the same stripe overlap, one crosses from   *)
(* one stripe into the next, and writes of a part of a strip, of a part of a  *)
(* stripe and of a whole stripe meet.                                         *)
EXTENDS RaidSP, TLC

CONSTANTS w1, w2, w3, r1

MCStripes == {0, 1}
MCStrips  == {1, 2}
MCCells   == {1, 2, 3}
MCStripOf == [c \in MCCells |-> IF c = 3 THEN 2 ELSE 1]
MCSpan ==
    (w1 :> (0 :> {2}       @@ 1 :> {})) @@
    (w2 :> (0 :> {1, 3}    @@ 1 :> {3})) @@
    (w3 :> (0 :> {1, 2, 3} @@ 1 :> {}))
MCRSpan == r1 :> (0 :> {2} @@ 1 :> {1})

\* What a behaviour has besides two writes and one device error: a third write,
\* so that two wait for a lock; a read; a second error, so that data and parity
\* fail together; or a restart, with a read before or after it.
Bounded ==
    \/ rq[r1].st = "new" /\ restarts = 0 /\ errors <= 1
    \/ wq[w3].st = "new" /\ restarts = 0 /\ (rq[r1].st = "new" \/ errors <= 1)
    \/ wq[w3].st = "new" /\ errors <= 1 /\ rq[r1].st # "lost"

MCNext == Next /\ Bounded'
MCSpec == Init /\ [][MCNext]_vars /\ WF_vars(Completion)
=============================================================================
