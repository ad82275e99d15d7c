---------------------------- MODULE MCTargetStack ---------------------------
(* Two groups of two mirrors, strips of two cells, three strips.  A write of   *)
(* a strip is met by one that crosses into the other group and the second     *)
(* stripe, and by a read from before it, which in a file ends before the      *)
(* second write does.                                                         *)
EXTENDS TargetStack, TLC

CONSTANTS w1, w2, r1, f1

MCFirst == w1 :> 2 @@ w2 :> 3 @@ r1 :> 1
MCLast  == w1 :> 3 @@ w2 :> 4 @@ r1 :> 3

\* What a behaviour has besides a write, a read and an error: a second write, or a
\* flush and a restart.  At most MaxOps operations are in flight.
CONSTANT MaxOps
Bounded ==
    /\ Cardinality(ops) <= MaxOps
    /\ req[w2].st = "new" \/ (req[f1].st = "new" /\ restarts = 0)

\* A RAID0 of files that are empty, a RAID10 of devices, the others of both
MCInit ==
    /\ Init
    /\ kind = "raid0"  => file[0][0] = <<>>
    /\ kind = "raid10" => file[0][0] # <<>>

MCNext == Next /\ Bounded'
MCSpec == MCInit /\ [][MCNext]_vars /\ WF_vars(FilesWork)
=============================================================================
