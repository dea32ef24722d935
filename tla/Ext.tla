--------------------------------- MODULE Ext ---------------------------------
(***************************************************************************)
(* ext2, ext3 and ext4 (src/smart/ext.rs).  A cell is a block; where it is *)
(* 1 KiB (small), block 0 is the boot block and belongs to no group unless *)
(* bigalloc has clusters of several.  Each group has a descriptor that     *)
(* says where its bitmaps and its inode table are; a group that was never  *)
(* written to (uninit) holds its metadata only.                            *)
(***************************************************************************)
EXTENDS Volume, Rounding

ExtGroups(sb) == CeilDiv(sb.blocks - sb.first, sb.perGroup)
GroupFirst(sb, g) == sb.first + g * sb.perGroup
DescBlocks(sb) == CeilDiv(ExtGroups(sb), sb.perBlock)
FirstMetaBg(sb) == IF sb.metaBg THEN sb.firstMetaBg ELSE DescBlocks(sb)

\* has_super: group 0, the two sparse_super2 names, or 1 and the powers of 3, 5 and 7.
PowerOf(n, base) ==
  LET whole[k \in 1..n] == k = 1 \/ (k % base = 0 /\ whole[k \div base])
  IN  whole[n]
HasSuper(sb, g) ==
  \/ g = 0
  \/ sb.backups # {} /\ g \in sb.backups
  \/ sb.backups = {} /\ (g = 1 \/ ~sb.sparse)
  \/ sb.backups = {} /\ g % 2 = 1 /\ \E base \in {3, 5, 7} : PowerOf(g, base)
After(sb, g) == IF HasSuper(sb, g) THEN 1 ELSE 0

\* Blocks of the boot block in front of a group's first: 1 KiB blocks with bigalloc.
BootBlock(sb, g) == IF sb.small /\ GroupFirst(sb, g) = 0 THEN 1 ELSE 0

\* desc_block: where descriptor block i is read from.
DescBlock(sb, i) ==
  LET g == i * sb.perBlock
  IN  IF i < FirstMetaBg(sb) THEN (IF sb.small THEN 1 ELSE 0) + 1 + i
      ELSE GroupFirst(sb, g) + After(sb, g) + (IF i = 0 THEN BootBlock(sb, g) ELSE 0)

\* mark_super: the superblock and the descriptors a group holds copies of.
MarkSuper(sb, g) ==
  LET start == GroupFirst(sb, g) + BootBlock(sb, g)
      copies == IF sb.metaBg THEN sb.firstMetaBg ELSE DescBlocks(sb) + sb.reserved
      table == IF HasSuper(sb, g) THEN Span(start + 1, Least(copies, Most(0, sb.blocks - (start + 1)))) ELSE {}
  IN  Span(0, BootBlock(sb, g)) \cup Span(start, After(sb, g))
      \cup (IF g \div sb.perBlock < FirstMetaBg(sb) THEN table
            ELSE IF g % sb.perBlock \in {0, 1, sb.perBlock - 1} THEN {start + After(sb, g)} ELSE {})

\* The metadata a descriptor names.
MetaOf(d, g) == {d.desc[g].bitmap, d.desc[g].inodes} \cup Span(d.desc[g].table, d.sb.itable)
Uninit(d, g) == d.sb.csum /\ d.desc[g].uninit

\* descriptor_ok: with checksums, zeros are not a descriptor.
DescriptorOk(d, g) == d.sb.csum => ~d.desc[g].zeroed

\* superblock: what it takes for an ext file system, and what Copy asks of it.
ExtSuper(sb, mode) ==
  /\ ~sb.unknown
  /\ mode = Copy => ~sb.recover /\ sb.valid /\ ~sb.errors
  /\ sb.first = (IF sb.small /\ ~sb.bigalloc THEN 1 ELSE 0)
  /\ sb.first < sb.blocks /\ sb.blocks <= Size
  /\ FirstMetaBg(sb) <= DescBlocks(sb)

\* The bits of a group's bitmap; nothing that is not one has bits.
GroupBits(sb, g) ==
  LET rest == sb.blocks - GroupFirst(sb, g)
  IN  CeilDiv(IF rest < sb.perGroup THEN rest ELSE sb.perGroup, sb.unit)
GroupMap(d, g) == {b \in 0..(GroupBits(d.sb, g) - 1) : b \in d.map[d.desc[g].bitmap]}

\* group_blocks: the checksum and the free count of the descriptor.
GroupChecked(d, g) ==
  /\ d.sb.csum => d.map[d.desc[g].bitmap] = d.desc[g].sum
  /\ GroupBits(d.sb, g) - Cardinality(GroupMap(d, g)) <= d.desc[g].free
GroupUsed(d, g) ==
  UNION {Span(GroupFirst(d.sb, g) + b * d.sb.unit, d.sb.unit) : b \in GroupMap(d, g)}

ExtRead(d, mode) ==
  LET groups == 0..(ExtGroups(d.sb) - 1)
      mapped == {g \in groups : ~Uninit(d, g)}
  IN  Result(/\ ExtSuper(d.sb, mode)
             /\ \A i \in 0..(DescBlocks(d.sb) - 1) : DescBlock(d.sb, i) < d.sb.blocks
             /\ \A g \in groups : DescriptorOk(d, g)
             /\ \A g \in groups : MetaOf(d, g) \subseteq d.sb.first..(d.sb.blocks - 1)
             /\ 0 \in mapped
             /\ mode = Copy => \A g \in mapped : GroupChecked(d, g),
             (UNION {MetaOf(d, g) \cup MarkSuper(d.sb, g) : g \in groups})
             \cup UNION {GroupUsed(d, g) : g \in mapped},
             d.sb.blocks)
-----------------------------------------------------------------------------
(***************************************************************************)
(* What mkfs leaves: four groups of six blocks, the last one shorter; the  *)
(* third holds no superblock and what group 3 has no room for.  With 1 KiB *)
(* blocks all lie one further, with bigalloc those of group 0 only.        *)
(***************************************************************************)
ExtBlocks == 22
ExtTables == (0 :> 2) @@ (1 :> 8) @@ (2 :> 12) @@ (3 :> 15)
ExtMeta == 0..4 \cup 6..10 \cup 12..17 \cup {18, 19}

ExtSb(csum, metaBg, unit, small) ==
  LET first == IF small /\ unit = 1 THEN 1 ELSE 0
  IN  [blocks |-> ExtBlocks + first, first |-> first, small |-> small, perGroup |-> 6, perBlock |-> IF metaBg THEN 1 ELSE 4,
       reserved |-> 0, metaBg |-> metaBg, firstMetaBg |-> 0, sparse |-> TRUE, backups |-> {}, itable |-> 1,
       unit |-> unit, bigalloc |-> unit > 1, csum |-> csum, journal |-> csum,
       unknown |-> FALSE, recover |-> FALSE, valid |-> TRUE, errors |-> FALSE]

\* The bits of group g that the blocks `held` take.
ExtBits(sb, held, g) == {b \in 0..(GroupBits(sb, g) - 1) : Span(GroupFirst(sb, g) + b * sb.unit, sb.unit) \cap held # {}}
\* With meta_bg a group without a backup has its descriptor there: the third group's comes first.
ExtTable(sb, g) ==
  sb.first + BootBlock(sb, g) + (IF sb.metaBg /\ g = 2 THEN 13 ELSE IF sb.metaBg /\ g = 3 THEN 20 ELSE ExtTables[g])
ExtHeld(sb) ==
  {0} \cup Span(5, BootBlock(sb, 0)) \cup {sb.first + c : c \in ExtMeta \cup (IF sb.metaBg THEN {20, 21} ELSE {})}

\* The descriptors and bitmaps of a file system that holds `held`, where the groups of `uninit`
\* were never written to.
ExtDesc(sb, held, uninit) ==
  [g \in 0..3 |->
     [bitmap |-> ExtTable(sb, g), inodes |-> ExtTable(sb, g) + 1,
      table |-> IF sb.metaBg /\ g = 3 THEN sb.first + 16 ELSE ExtTable(sb, g) + 2, zeroed |-> FALSE,
      uninit |-> g \in uninit, free |-> GroupBits(sb, g) - Cardinality(ExtBits(sb, held, g)),
      sum |-> ExtBits(sb, held, g)]]
ExtMap(sb, held, uninit) ==
  [c \in Cells |->
     IF \E g \in 0..3 : g \notin uninit /\ ExtTable(sb, g) = c
     THEN ExtBits(sb, held, CHOOSE g \in 0..3 : ExtTable(sb, g) = c) ELSE {}]

ExtMake(sb, uninit) ==
  [sb |-> sb, desc |-> ExtDesc(sb, ExtHeld(sb), uninit), map |-> ExtMap(sb, ExtHeld(sb), uninit),
   uninit |-> uninit, files |-> {}, log |-> {}]
ExtFresh ==
  {ExtMake(ExtSb(FALSE, FALSE, 1, FALSE), {}), ExtMake(ExtSb(TRUE, FALSE, 1, FALSE), {1, 3}),
   ExtMake(ExtSb(TRUE, TRUE, 1, FALSE), {1}), ExtMake(ExtSb(FALSE, FALSE, 2, FALSE), {}),
   ExtMake(ExtSb(TRUE, FALSE, 1, TRUE), {1, 3}), ExtMake(ExtSb(TRUE, TRUE, 2, TRUE), {1}), ExtMake(ExtSb(FALSE, FALSE, 2, TRUE), {}),
   ExtMake([ExtSb(TRUE, TRUE, 1, FALSE) EXCEPT !.perBlock = 2, !.firstMetaBg = 1], {1, 3}),
   ExtMake([ExtSb(FALSE, FALSE, 1, FALSE) EXCEPT !.blocks = Size + 1], {}),
   ExtMake([ExtSb(FALSE, FALSE, 1, FALSE) EXCEPT !.unknown = TRUE], {})}

\* With a journal RECOVER is set while mounted; without one the state says so.
ExtMounted(d) == [d EXCEPT !.sb.recover = d.sb.journal, !.sb.valid = FALSE]
ExtUnmounted(m) == [m EXCEPT !.sb.recover = FALSE, !.sb.valid = TRUE, !.log = {}]

ExtHolding(m, files, uninit) ==
  [m EXCEPT !.files = files, !.uninit = uninit,
            !.desc = ExtDesc(m.sb, ExtHeld(m.sb) \cup files, uninit),
            !.map = ExtMap(m.sb, ExtHeld(m.sb) \cup files, uninit),
            !.log = IF m.sb.journal THEN files ELSE {}]
ExtChanges(m) ==
  LET held == ExtHeld(m.sb) \cup m.files
      clusters == {c \in 0..(m.sb.blocks - 1) : c % m.sb.unit = 0}
      free == {c \in clusters : Span(c, m.sb.unit) \cap held = {}}
  IN  {ExtHolding(m, m.files \cup Span(c, m.sb.unit), m.uninit \ {(c - m.sb.first) \div m.sb.perGroup}) : c \in free}
      \cup {ExtHolding(m, m.files \ Span(c, m.sb.unit), m.uninit) : c \in m.files \cap clusters}

ExtFlushed(d, m) ==
  WriteBack(d, m, {"sb"})
  \cup (IF d.sb = m.sb THEN WriteBack(d, m, {"log"}) ELSE {})
  \cup (IF d.sb = m.sb /\ d.log = m.log THEN WriteBack(d, m, {"desc", "map", "files", "uninit"}) ELSE {})

\* A block of bitmaps or of descriptors that reads as zeros.
ExtDamaged(d) ==
  {[d EXCEPT !.map[c] = {}] : c \in {x \in Cells : d.map[x] # {}}}
  \cup {[d EXCEPT !.desc[g] = [bitmap |-> 0, inodes |-> 0, table |-> 0, zeroed |-> TRUE, uninit |-> FALSE, free |-> 0, sum |-> {}]] : g \in 0..3}

\* Its metadata, its files, and those the journal brings back.
ExtNeed(d) ==
  IF d.sb.blocks > Size \/ d.sb.unknown THEN Cells
  ELSE ExtHeld(d.sb) \cup d.files \cup d.log \cup d.sb.blocks..(Size - 1)
=============================================================================
