--------------------------------- MODULE Dmg ---------------------------------
(***************************************************************************)
(* Apple disk images (src/engine/formats/dmg.rs): the trailer at the end   *)
(* of the file leads to blocks, each a range of the disk with its chunks,  *)
(* in any order, and a checksum.  A cell is a sector.                      *)
(***************************************************************************)
EXTENDS ImageFile

DmgKinds == {"zero", "ignore", "raw", "packed"}     \* and "comment", "end"

\* A block's chunks up to its end mark, at their places on the disk.
DmgChunks(block) ==
  LET ends == {i \in DOMAIN block.chunks : block.chunks[i].kind = "end"}
      upto == IF ends = {} THEN Len(block.chunks) ELSE Min(ends) - 1
      counted == SelectSeq(SubSeq(block.chunks, 1, upto), LAMBDA c : c.kind # "comment")
  IN [i \in DOMAIN counted |-> [counted[i] EXCEPT !.start = @ + block.first]]

Inside(c, block) == block.first <= c.start /\ c.start + c.len <= block.first + block.len
Apart(ranges) ==
  \A i, j \in DOMAIN ranges : i # j => (ranges[i].start + ranges[i].len <= ranges[j].start \/ ranges[j].start + ranges[j].len <= ranges[i].start)

\* assemble
DmgAssembles(blocks) ==
  /\ \A i \in DOMAIN blocks :
       \A j \in DOMAIN DmgChunks(blocks[i]) :
         LET c == DmgChunks(blocks[i])[j] IN c.kind \in DmgKinds /\ (c.len = 0 \/ Inside(c, blocks[i]))
  /\ Apart(SelectSeq(FlattenSeq([i \in DOMAIN blocks |-> DmgChunks(blocks[i])]), LAMBDA c : c.len > 0))
  /\ Apart([i \in DOMAIN blocks |-> [start |-> blocks[i].first, len |-> blocks[i].len]])
DmgSorted(blocks) ==
  SortSeq(SelectSeq(FlattenSeq([i \in DOMAIN blocks |-> DmgChunks(blocks[i])]), LAMBDA c : c.len > 0),
          LAMBDA a, b : a.start < b.start)

\* Chunks::next: the gap in front of a chunk, and the chunk.
DmgPiece(c, data) ==
  CASE c.kind \in {"zero", "ignore"} -> Zeros(c.len)
    [] c.kind = "raw" -> IF c.stored < c.len THEN Damaged ELSE Stored(data + c.at, c.len)
    [] OTHER -> Packed(data + c.at, c.stored, c.len, FALSE)
DmgLayout(blocks, data) ==
  LET chunks == DmgSorted(blocks)
      end(i) == IF i = 0 THEN 0 ELSE chunks[i].start + chunks[i].len
  IN FlattenSeq([i \in DOMAIN chunks |->
       (IF chunks[i].start > end(i - 1) THEN <<Zeros(chunks[i].start - end(i - 1))>> ELSE <<>>) \o <<DmgPiece(chunks[i], data)>>])

\* What Crcs::update compares: each block's checksum, by all its data or without what is ignored.
DmgSums(blocks) ==
  LET ignored == UNION {IF c.kind = "ignore" THEN c.start..(c.start + c.len - 1) ELSE {} : c \in Range(DmgSorted(blocks))}
  IN [i \in DOMAIN blocks |->
        [start |-> blocks[i].first, end |-> blocks[i].first + blocks[i].len, ignored |-> ignored,
         checked |-> blocks[i].crc # <<>>, all |-> blocks[i].crc, data |-> [c \in blocks[i].crcOf |-> blocks[i].crc[c]]]]

DmgOpen(src, h, size) ==
  IF src.size = size /\ h.segments <= 1 /\ h.contents /\ DmgAssembles(h.blocks)
  THEN [Opened(src, h.sectors, DmgLayout(h.blocks, h.data)) EXCEPT !.sums = DmgSums(h.blocks)]
  ELSE Refused
-----------------------------------------------------------------------------
\* The images hdiutil writes, and some that are damaged: two blocks with a gap between
\* them, the first one's two chunks in either order.

DmgStates == {"zero", "ignore", "raw", "flipped", "packed", "rotten", "brief"}
Chunk(kind, start, len, at) == [kind |-> kind, start |-> start, len |-> len, at |-> at, stored |-> len]

\* `apart` cells lie between the two blocks: fewer than none where they overlap.
DmgImage(states, swapped, apart, checked, h) ==
  LET kind(k) == IF states[k] \in DmgKinds THEN states[k] ELSE IF states[k] = "rotten" THEN "packed" ELSE "raw"
      len == <<2, 1, 2>>
      at == <<1, 3, 4>>                                        \* past the data fork's start
      start == <<0, 2, 3 + apart>>
      full(k, rel) == [Chunk(kind(k), rel, len[k], at[k]) EXCEPT !.stored = IF states[k] = "brief" THEN len[k] - 1 ELSE len[k]]
      mark(what) == Chunk(what, 0, 0, 0)
      held(k, i) == IF states[k] \in {"zero", "ignore"} THEN 0 ELSE 10 * k + i
      first == [i \in 1..3 |-> IF i <= 2 THEN held(1, i) ELSE held(2, 1)]
      second == [i \in 1..2 |-> held(3, i)]
      counts(k, i) == states[k] # "ignore"
      block(from, cells, cs, crc, crcOf) == [first |-> from, len |-> cells, chunks |-> cs, crc |-> IF checked THEN crc ELSE <<>>, crcOf |-> IF checked THEN crcOf ELSE {}]
      blocks ==
        <<block(0, 3, IF swapped THEN <<full(2, 2), mark("comment"), full(1, 0), mark("end"), Chunk("other", 9, 9, 9)>>
                      ELSE <<full(1, 0), full(2, 2), mark("end")>>,
                first, {i \in 1..3 : counts(IF i <= 2 THEN 1 ELSE 2, i)}),
          block(start[3], 2, <<full(3, 0)>>, second, {i \in 1..2 : counts(3, i)})>>
      sectors == 5 + apart + 1
      size == 8
      content(o) ==
        LET k == IF o \in 2..3 THEN 1 ELSE IF o = 4 THEN 2 ELSE 3
            i == o - at[k]
        IN IF o \notin 2..6 THEN Blank
           ELSE Data(IF states[k] = "flipped" /\ i = 1 THEN 77 ELSE IF states[k] = "rotten" /\ i = 1 THEN Rot ELSE held(k, i))
      guest(c) ==
        IF c <= 3 THEN first[c] ELSE IF c \in (start[3] + 1)..(start[3] + 2) THEN second[c - start[3]] ELSE 0
  IN [format |-> "dmg", h |-> [segments |-> h.segments, contents |-> h.contents, data |-> 1, sectors |-> sectors,
                               blocks |-> IF swapped THEN <<blocks[2], blocks[1]>> ELSE blocks],
      cells |-> [o \in 0..(size - 1) |-> content(o)], size |-> size,
      disk |-> [c \in 1..sectors |-> guest(c)],
      sound |-> Range(states) \subseteq DmgKinds /\ apart >= 0 /\ h.contents, whole |-> h.segments <= 1]

DmgImages ==
  LET plain == [segments |-> 1, contents |-> TRUE]
      states == {s \in [1..3 -> DmgStates] : Cardinality({k \in 1..3 : s[k] \in DmgStates \ DmgKinds}) <= 1}
  IN {DmgImage(s, swapped, 1, TRUE, plain) : s \in states, swapped \in BOOLEAN}
     \cup {DmgImage(<<"raw", "packed", "zero">>, FALSE, apart, checked, h) :
             apart \in {-1, 0, 1}, checked \in BOOLEAN,
             h \in {plain, [plain EXCEPT !.segments = 2], [plain EXCEPT !.contents = FALSE]}}
=============================================================================
