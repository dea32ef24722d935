------------------------------- MODULE HfsPlus -------------------------------
(***************************************************************************)
(* HFS+ and HFSX (src/smart/hfsplus.rs).  A cell is an allocation block.   *)
(* The allocation file is a bitmap; its first extents are in the volume    *)
(* header, the others in the extents overflow file.  The volume may be     *)
(* embedded in an HFS wrapper, at d.offset.                                *)
(***************************************************************************)
EXTENDS Volume

CONSTANTS HfsExtents,  \* extents of a fork in the volume header (8)
          HfsBits      \* bits of a block of the allocation file

HfsAt(d, b) == d.offset + b
ExtentBlocks(e) == Span(e.first, e.count)

\* Fork::covered, and the blocks of a list of extents in order.
Covered(extents) ==
  LET sum[i \in 0..Len(extents)] == IF i = 0 THEN 0 ELSE sum[i - 1] + extents[i].count
  IN  sum[Len(extents)]
FileBlocks(extents) ==
  LET list[i \in 0..Len(extents)] ==
        IF i = 0 THEN <<>> ELSE list[i - 1] \o [k \in 1..extents[i].count |-> extents[i].first + k - 1]
  IN  list[Len(extents)]

\* The overflow records of the allocation file continue its extents in order.
LinesUp(allocation, more) ==
  \A i \in 1..Len(more) : more[i].at = Covered(allocation.extents) + Covered([j \in 1..(i - 1) |-> more[j].extent])
AllocationExtents(d) == d.allocation.extents \o [i \in 1..Len(d.more) |-> d.more[i].extent]
AllocationFile(d) ==
  /\ IF Covered(d.allocation.extents) < d.allocation.blocks
     THEN Len(d.allocation.extents) = HfsExtents /\ LinesUp(d.allocation, d.more)
     ELSE d.more = <<>>
  /\ Covered(AllocationExtents(d)) = d.allocation.blocks
  /\ d.allocation.blocks * HfsBits >= d.blocks

\* The bitmap, a block of the file at a time.
HfsSet(d) ==
  LET file == FileBlocks(AllocationExtents(d))
  IN  {b \in 0..(d.blocks - 1) : b % HfsBits \in d.bits[file[b \div HfsBits + 1]]}

\* journal: nothing to replay, or a journal that is made anew.
JournalEmpty(d) == d.journal \in {"none", "empty", "need_init"}

\* overflow: the extents no header has room for; wrapper: an HFS volume around
\* this one, which is kept.
OverflowExtents(d) == {ExtentBlocks(e) : e \in d.overflow} \cup {ExtentBlocks(d.more[i].extent) : i \in 1..Len(d.more)}
Wrapper(d) == Span(0, d.offset)

HfsRead(d, mode) ==
  LET special == {ExtentBlocks(e) : e \in {d.allocation.extents[i] : i \in 1..Len(d.allocation.extents)}}
                 \cup {ExtentBlocks(d.special)}
      log == IF d.journal = "none" THEN {} ELSE ExtentBlocks(d.journalled)
      fixed == {0, d.blocks - 1} \cup log \cup (UNION special) \cup UNION OverflowExtents(d)
      sound == /\ d.offset + d.blocks <= d.room
               /\ mode = Copy => d.unmounted /\ ~d.inconsistent /\ JournalEmpty(d)
               /\ d.records
               /\ mode = Copy => d.blocks - Cardinality(HfsSet(d)) = d.free
  IN  IF ~AllocationFile(d) \/ d.room > Size THEN Bad
      ELSE Result(sound, Wrapper(d) \cup {HfsAt(d, b) : b \in fixed \cup HfsSet(d)}, d.offset + d.blocks)
-----------------------------------------------------------------------------
(***************************************************************************)
(* A volume of twelve blocks: headers at both ends, the allocation file in *)
(* one to three extents, special files in 5, the journal in 6.  The third  *)
(* extent of the allocation file is beyond what its header has room for.   *)
(***************************************************************************)
HfsBlocks == 12
HfsExtent(first, count) == [first |-> first, count |-> count]
HfsContent(d, held) ==
  LET file == FileBlocks(AllocationExtents(d))
  IN  [b \in 0..(HfsBlocks - 1) |->
         IF \E i \in 1..Len(file) : file[i] = b
         THEN LET i == CHOOSE k \in 1..Len(file) : file[k] = b
              IN  {r \in 0..(HfsBits - 1) : (i - 1) * HfsBits + r \in held}
         ELSE {}]
HfsSystem(d) == {0, HfsBlocks - 1, 5, 6} \cup {b \in 0..(HfsBlocks - 1) : \E i \in 1..Len(AllocationExtents(d)) : b \in ExtentBlocks(AllocationExtents(d)[i])}

\* `extra` is an extent of a file that only the overflow file tells of.
HfsMake(extents, more, offset, room, journal, records) ==
  LET d == [offset |-> offset, blocks |-> HfsBlocks, room |-> room, journal |-> journal, journalled |-> HfsExtent(6, 1),
            special |-> HfsExtent(5, 1), overflow |-> {}, records |-> records, files |-> {}, pending |-> {},
            allocation |-> [blocks |-> 3, extents |-> extents], more |-> more,
            unmounted |-> TRUE, inconsistent |-> FALSE, free |-> 0, bits |-> [b \in 0..(HfsBlocks - 1) |-> {}]]
      held == HfsSystem(d)
  IN  [d EXCEPT !.bits = HfsContent(d, held), !.free = HfsBlocks - Cardinality(held)]
HfsFresh ==
  LET whole == <<HfsExtent(1, 3)>>
      pieces == <<HfsExtent(2, 1), HfsExtent(1, 1)>>
      third == <<[at |-> 2, extent |-> HfsExtent(8, 1)]>>
  IN  {HfsMake(whole, <<>>, 0, HfsBlocks, j, TRUE) : j \in {"none", "empty", "need_init"}}
      \cup {HfsMake(pieces, third, o, HfsBlocks + o, "empty", TRUE) : o \in {0, 4}}
      \cup {HfsMake(pieces, <<>>, 0, HfsBlocks, "none", TRUE), HfsMake(whole, <<>>, 0, Size + 1, "none", TRUE),
            HfsMake(whole, <<>>, 0, HfsBlocks, "none", FALSE)}

\* Linux marks the volume inconsistent as well; a mount that starts a new
\* journal leaves an empty one.
HfsMounted(d) ==
  [d EXCEPT !.unmounted = FALSE, !.inconsistent = d.journal = "none",
            !.journal = IF @ = "need_init" THEN "empty" ELSE @]
HfsUnmounted(m) ==
  [m EXCEPT !.unmounted = TRUE, !.inconsistent = FALSE, !.journal = IF @ = "pending" THEN "empty" ELSE @, !.pending = {}]

HfsHolding(m, files) ==
  LET held == HfsSystem(m) \cup files
  IN  [m EXCEPT !.files = files, !.bits = HfsContent(m, held), !.free = m.blocks - Cardinality(held),
                !.journal = IF @ = "none" THEN @ ELSE "pending",
                !.pending = IF m.journal = "none" THEN {} ELSE files,
                !.overflow = {HfsExtent(b, 1) : b \in {c \in files : c > 8}}]
HfsChanges(m) ==
  {HfsHolding(m, m.files \cup {b}) : b \in (0..(m.blocks - 1)) \ (HfsSystem(m) \cup m.files)}
  \cup {HfsHolding(m, m.files \ {b}) : b \in m.files}

\* The mark, then the journal, then what it is about.
HfsFlushed(d, m) ==
  WriteBack(d, m, {"unmounted", "inconsistent"})
  \cup (IF d.unmounted = m.unmounted /\ d.inconsistent = m.inconsistent
        THEN {[d EXCEPT !.journal = m.journal, !.pending = m.pending]} ELSE {})
  \cup (IF d.unmounted = m.unmounted /\ d.pending = m.pending
        THEN WriteBack(d, m, {"files", "free", "overflow"})
             \cup {[d EXCEPT !.bits[b] = m.bits[b]] : b \in DOMAIN m.bits} ELSE {})

\* A block of the bitmap that reads as zeros.
HfsDamaged(d) == {[d EXCEPT !.bits[b] = {}] : b \in {x \in DOMAIN d.bits : d.bits[x] # {}}}

\* The wrapper, the headers, the files, and those the journal brings back; all
\* of a volume whose allocation file cannot be told.
HfsNeed(d) ==
  IF d.room > Size \/ Covered(AllocationExtents(d)) < d.allocation.blocks THEN Cells
  ELSE 0..(d.offset - 1) \cup (d.offset + d.blocks)..(Size - 1)
       \cup {HfsAt(d, b) : b \in HfsSystem(d) \cup d.files \cup d.pending}
=============================================================================
