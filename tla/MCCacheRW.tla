----------------------------- MODULE MCCacheRW ------------------------------
(* Two chunks of two cells; a write of a part of a chunk, one that crosses    *)
(* from a whole chunk into the next, a read of both chunks, and one that may  *)
(* find what the first has cached.                                            *)
EXTENDS CacheRW, TLC

CONSTANTS w1, w2, r1, r2

MCCells == {1, 2}
MCWSpan == (w1 :> (0 :> {1}    @@ 1 :> {})) @@
           (w2 :> (0 :> {1, 2} @@ 1 :> {1}))
MCRSpan == (r1 :> (0 :> {1} @@ 1 :> {1})) @@
           (r2 :> (0 :> {1} @@ 1 :> {}))
\* Without the second read
OneRSpan == r1 :> MCRSpan[r1]

\* What a behaviour has besides a read, a write and an error: a second write, or a
\* second read.
Bounded == rq[r2].st = "new" \/ \E w \in Writes : wq[w].st = "new"

MCNext == Next /\ Bounded'
MCSpec == Init /\ [][MCNext]_vars /\ WF_vars(~crashed /\ (Execution \/ Completion))
=============================================================================
