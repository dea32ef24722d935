--------------------------------- MODULE Vhd ---------------------------------
(***************************************************************************)
(* VHD images (src/engine/formats/vhd.rs).  A cell is a sector, a block    *)
(* two.  A footer ends the file; a dynamic disk has a copy of it in cell 0 *)
(* and its header in cell 1.                                               *)
(***************************************************************************)
EXTENDS ImageFile

VhdBlock == 2
Unallocated == -1

NoFooter == [there |-> FALSE, sum |-> FALSE, type |-> "none", size |-> 0]
Footer(type, size) == [there |-> TRUE, sum |-> TRUE, type |-> type, size |-> size]
Spoilt(f) == [f EXCEPT !.sum = FALSE]

\* open: the copy at the start unless it is of a fixed disk, else the one at the end,
\* which a file cut short has lost.
VhdTail(src, f, size) == IF src.size = size THEN f ELSE NoFooter
VhdFooter(head, tail) ==
  IF head.there /\ head.sum /\ head.type # "fixed" THEN head
  ELSE IF tail.there /\ tail.sum THEN tail ELSE NoFooter

\* Dynamic::next, of one block: the sectors whose bit is clear were never written.
VhdBlockPieces(src, entry) ==
  IF entry = Unallocated THEN <<Zeros(VhdBlock)>>
  ELSE IF ~Readable(src, entry, 1) THEN <<Damaged>>
  ELSE LET set == CellAt(src, entry).entries
       IN IF set = 1..VhdBlock THEN <<Stored(entry + 1, VhdBlock)>>
          ELSE IF set = {} THEN <<Zeros(VhdBlock)>>
          ELSE [s \in 1..VhdBlock |-> IF s \in set THEN Stored(entry + s, 1) ELSE Zeros(1)]

\* Past the BAT's entries no block is allocated.
VhdLayout(src, h, size) ==
  LET blocks == CeilDiv(size, VhdBlock)
      entries == Min({h.entries, blocks})
      from[b \in 0..blocks] ==
        IF b = blocks THEN <<>>
        ELSE IF b < entries /\ ~Readable(src, h.table, 1) THEN <<Damaged>>
        ELSE VhdBlockPieces(src, IF b < entries THEN EntryOf(CellAt(src, h.table), b + 1, 0) ELSE Unallocated) \o from[b + 1]
  IN from[0]

VhdOpen(src, h, size) ==
  LET tail == VhdTail(src, h.tail, size)
      f == VhdFooter(h.head, tail)
      data == src.size - (IF tail.there THEN 1 ELSE 0)
  IN CASE f.type = "fixed" -> OpenedIf(f.size <= data, src, f.size, <<Stored(0, f.size)>>)
       [] f.type = "dynamic" -> OpenedIf(Readable(src, 1, 1) /\ h.dynamic, src, f.size, VhdLayout(src, h, f.size))
       [] OTHER -> Refused                        \* no footer, a differencing disk
-----------------------------------------------------------------------------
\* The images Virtual PC, Hyper-V and QEMU write.

VhdBlocks == 3
VhdHeader(head, tail) == [head |-> head, tail |-> tail, dynamic |-> TRUE, table |-> 2, entries |-> VhdBlocks]

\* A fixed disk, with more than the footer's geometry counts or less than it says.
VhdFixed(size, stored, tail) ==
  [format |-> "vhd", h |-> VhdHeader(NoFooter, tail),
   cells |-> [o \in 0..stored |-> IF o < stored THEN Data(o + 1) ELSE Blank], size |-> stored + 1,
   disk |-> [c \in 1..size |-> c], sound |-> tail.sum /\ stored >= size, whole |-> TRUE]

\* A dynamic one: what is written of each block, or that none is.
VhdDynamic(h, size, written) ==
  LET start(b) == 3 + (VhdBlock + 1) * (b - 1)
      end == start(VhdBlocks + 1)
      block(o) == ((o - 3) \div (VhdBlock + 1)) + 1
      held(b, s) == 10 * b + s
      content(o) ==
        IF o = 2 THEN Table([b \in 1..VhdBlocks |-> IF written[b] = {Unallocated} THEN Unallocated ELSE start(b)])
        ELSE IF o < 3 \/ o = end THEN Blank
        ELSE LET b == block(o)
                 s == o - start(b)
             IN IF s = 0 THEN Table(written[b] \ {Unallocated})
                ELSE Data(IF s \in written[b] THEN held(b, s) ELSE Stale)
      guest(c) ==
        LET b == ((c - 1) \div VhdBlock) + 1
            s == ((c - 1) % VhdBlock) + 1
        IN IF b <= VhdBlocks /\ s \in written[b] THEN held(b, s) ELSE 0
  IN [format |-> "vhd", h |-> h, cells |-> [o \in 0..end |-> content(o)], size |-> end + 1,
      disk |-> [c \in 1..size |-> guest(c)],
      sound |-> h.dynamic, whole |-> "differencing" \notin {h.head.type, h.tail.type}]

VhdImages ==
  {VhdFixed(3, stored, tail) : stored \in 2..4, tail \in {Footer("fixed", 3), Spoilt(Footer("fixed", 3))}}
  \cup LET f == Footer("dynamic", 5)
           all == [b \in 1..VhdBlocks |-> 1..VhdBlock]
           states == [1..VhdBlocks -> SUBSET (1..VhdBlock) \cup {{Unallocated}}]
       IN {VhdDynamic(VhdHeader(f, f), 5, w) : w \in states}
          \cup {VhdDynamic(VhdHeader(Spoilt(f), f), 5, all), VhdDynamic(VhdHeader(f, Spoilt(f)), 5, all),
                VhdDynamic(VhdHeader(f, NoFooter), 5, all),
                VhdDynamic([VhdHeader(f, f) EXCEPT !.dynamic = FALSE], 5, all),
                VhdDynamic(VhdHeader(Footer("dynamic", 8), Footer("dynamic", 8)), 8, all),
                VhdDynamic(VhdHeader(Footer("differencing", 5), Footer("differencing", 5)), 5, all)}
=============================================================================
