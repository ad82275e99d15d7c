------------------------------ MODULE DefTarget -----------------------------
(***************************************************************************)
(* def::Target: a file, or a block device, read and written by             *)
(* asynchronous operations.  A file is the sequence of its cells.  The     *)
(* operations here say what one system call does to it; TargetStack takes  *)
(* them one at a time, in any order.                                       *)
(*                                                                         *)
(* The handler of a read that met the end of the file sets the size of the *)
(* file to the end of the read, with ftruncate64, and reads the rest.  If  *)
(* the file has grown past that in the meantime it is cut.                 *)
(***************************************************************************)
EXTENDS Naturals, Sequences

CONSTANT Zero       \* a cell of a file nobody has written

\* What cell off of file f reads as
At(f, off) == IF off < Len(f) THEN f[off + 1] ELSE Zero

\* ftruncate64: cells are added or dropped at the end.
Resized(f, n) == [i \in 1..n |-> At(f, i - 1)]

\* One read of len cells at off: those before the end of the file
ReadAt(f, off, len) ==
    IF off + len <= Len(f) THEN SubSeq(f, off + 1, off + len)
    ELSE SubSeq(f, off + 1, Len(f))

\* One write of len cells at off, all of them v
Written(f, off, len, v) ==
    [i \in 1..(IF Len(f) < off + len THEN off + len ELSE Len(f)) |->
        IF i > off /\ i <= off + len THEN v ELSE At(f, i - 1)]

\* Whether a read came short of len
Short(got, len) == Len(got) < len

\* Mutant: the last cell of the read is left out.
SizeForLess(off, len) == off + len - 1

\* The size the handler of a short read then asks for
SizeFor(off, len) == off + len
=============================================================================
