------------------------------- MODULE Volume -------------------------------
(***************************************************************************)
(* What the readers of file systems (src/smart/<kind>.rs) have in common,  *)
(* and the driver of an operating system they read after.                  *)
(*                                                                         *)
(* A partition is Cells, counted in the file system's allocation unit.  A  *)
(* file system of one kind is a record, the metadata on disk; while it is  *)
(* mounted the driver holds a newer one in memory and writes its pieces    *)
(* back.  A reader X is                                                    *)
(*   XRead(d, mode)  what the code makes of the metadata d (map),          *)
(* and its environment, what the readers may meet on a drive, is           *)
(*   XFresh          what making the file system leaves on the disk,       *)
(*   XMounted(d)     what a driver that mounts d has in memory: marked as  *)
(*                   in use, where the kind has a mark,                    *)
(*   XChanges(m)     the states one change leads the driver's memory to,   *)
(*   XFlushed(d, m)  what one write to the disk leaves there,              *)
(*   XUnmounted(m)   the metadata with the mark taken back,                *)
(*   XNeed(d)        the cells whose contents a system that mounts d       *)
(*                   depends on.                                           *)
(***************************************************************************)
EXTENDS Integers, FiniteSets, Sequences, TLC

CONSTANTS Size,      \* cells of the partition
          HeadKept   \* cells of HEAD_KEPT

ASSUME SizeAssumption == Size \in Nat /\ HeadKept \in 0..Size

Cells == 0..(Size - 1)
Span(first, count) == first..(first + count - 1)

\* The modes of an analysis (Opts): Copy takes nothing on trust, Estimate previews.
Copy == "copy"
Estimate == "estimate"

\* What a reader returns: Err(Bad) or Ok(Usage).
Bad == [ok |-> FALSE, used |-> {}, end |-> 0]
Usage(used, end) == [ok |-> TRUE, used |-> used, end |-> end]
Result(guard, used, end) == IF guard THEN Usage(used, end) ELSE Bad

\* The clusters whose bit is set, as a reader adds them: the table's first bit
\* stands for the cell `first`.
BitRuns(bits, first) == {first + b : b \in bits}

\* One piece of metadata written back, in any order.
WriteBack(d, m, pieces) == {[d EXCEPT ![p] = m[p]] : p \in pieces}
=============================================================================
