------------------------------- MODULE Iso9660 -------------------------------
(***************************************************************************)
(* ISO 9660 (src/smart/iso.rs): one piece, as long as its descriptor says  *)
(* or as a hybrid image's own partition table reaches.  The descriptors    *)
(* start at cell IsoSystem, past the system area.                          *)
(***************************************************************************)
EXTENDS Volume

CONSTANTS IsoSystem,      \* cells before the primary volume descriptor
          MaxDescriptors  \* descriptors looked at, at most

ASSUME IsoAssumption == IsoSystem \in Nat /\ IsoSystem + 5 <= Size /\ MaxDescriptors \in Nat

IsoMaximum(S) == CHOOSE x \in S : \A y \in S : y <= x

\* hybrid_end: where the partitions of the MBR, and a GPT's backup header, end.
HybridEnd(d) ==
  IsoMaximum({0} \cup {e.start + e.count : e \in {x \in d.mbr : x.count > 0}}
             \cup {IsoMaximum({g.alternate, g.last}) + 1 : g \in d.gpt})

\* The set ends with a terminator, in the volume, after descriptors only.
Terminated(d) ==
  \E i \in 2..MaxDescriptors :
    /\ i <= Len(d.descriptors) /\ d.descriptors[i] = "terminator"
    /\ IsoSystem + i <= d.blocks
    /\ \A j \in 1..i : d.descriptors[j] # "other"

IsoRead(d, mode) ==
  Result(/\ d.descriptors[1] = "primary" /\ d.agree
         /\ d.blocks > IsoSystem /\ d.blocks <= Size
         /\ Terminated(d),
         Span(0, IsoMaximum({d.blocks, HybridEnd(d)})), Size)
-----------------------------------------------------------------------------
\* Images as they are written: plain, hybrid with a partition in the image and
\* one appended to it, cut short, with halves or descriptors damaged.
IsoFresh ==
  {[descriptors |-> ds, agree |-> agree, blocks |-> blocks, mbr |-> mbr, gpt |-> gpt]
     : ds \in {<<"primary", "terminator">>, <<"primary", "joliet", "terminator">>,
               <<"primary", "joliet", "other">>},
       agree \in BOOLEAN, blocks \in {IsoSystem + 2, IsoSystem + 3, Size + 1},
       mbr \in {{}, {[start |-> 0, count |-> IsoSystem + 2], [start |-> IsoSystem + 3, count |-> 2]}},
       gpt \in {{}, {[alternate |-> Size - 2, last |-> IsoSystem + 2]}}}

\* The volume, and what the image's own table adds; all of one that is damaged.
IsoNeed(d) ==
  IF d.blocks > Size \/ ~d.agree THEN Cells
  ELSE Span(0, d.blocks) \cup (UNION {Span(e.start, e.count) : e \in d.mbr})
       \cup UNION {{g.alternate} \cup 0..g.last : g \in d.gpt}

-----------------------------------------------------------------------------
(***************************************************************************)
(* Linux swap (src/smart/swap.rs): its first page, unless hibernation left *)
(* an image.  A cell is the smallest page; the header may take more.       *)
(***************************************************************************)
SwapSignatures == {"SWAPSPACE2", "SWAP-SPACE"}
SuspendSignatures == {"S1SUSPEND", "S2SUSPEND", "ULSUSPEND", "LINHIB0001"}

SwapHeader(d) ==
  /\ d.version = 1
  /\ d.last > 0 /\ (d.last + 1) * d.page <= Size
  /\ \A b \in d.badPages : b > 0 /\ b <= d.last

SwapRead(d, mode) ==
  Result(/\ d.magic \in SwapSignatures \cup SuspendSignatures
         /\ d.magic \notin SuspendSignatures /\ ~d.tuxonice
         /\ d.page <= Size
         /\ d.magic = "SWAPSPACE2" => SwapHeader(d),
         Span(0, d.page), Size)

SwapFresh ==
  {[magic |-> magic, tuxonice |-> FALSE, version |-> 1, page |-> page, last |-> last, badPages |-> bad, image |-> {}]
     : magic \in SwapSignatures, page \in {1, 2}, last \in {3, Size}, bad \in {{}, {2}}}

\* In use, pages are swapped out; hibernating leaves an image in them.
SwapChanges(d) ==
  {[d EXCEPT !.magic = magic, !.image = (d.page..(Size - 1)) \ d.badPages] : magic \in SuspendSignatures}
  \cup {[d EXCEPT !.tuxonice = TRUE, !.image = (d.page..(Size - 1)) \ d.badPages]}

SwapNeed(d) == Span(0, d.page) \cup d.image
=============================================================================
