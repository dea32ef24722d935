------------------------------ MODULE ImageFile ------------------------------
(***************************************************************************)
(* The file of a virtual disk (Source in src/engine/formats/source.rs),    *)
(* and the pieces a format describes its disk with (vdisk.rs).             *)
(*                                                                         *)
(* File and disk are counted in cells: the smallest run a format maps.  A  *)
(* cell of the file is data, a number (0: zeros), or holds a table.        *)
(***************************************************************************)
EXTENDS Sequences, FiniteSetsExt, SequencesExt, TLC, Rounding

Data(v) == [v |-> v]
Table(entries) == [entries |-> entries]
Blank == Data(0)

\* Compressed data whose decoder fails on it, and what an owner never wrote.
Rot == -1
Stale == -2

\* The entries of a table that starts at a cell; where zeros are, no entry is set.
EntryOf(content, i, unset) == IF "entries" \in DOMAIN content THEN content.entries[i] ELSE unset

\* Source::new.  Cells past `size` are what a file cut short has lost.
Source(cells, size) == [cells |-> cells, size |-> size, patches |-> <<>>, end |-> size]
Patch(offset, len, content) == [offset |-> offset, len |-> len, content |-> content]
SetPatches(src, patches, end) == [src EXCEPT !.patches = patches, !.end = Max({end, src.size})]

\* read_at: an error past the end, zeros where a log has grown the file, later patches on top.
Readable(src, offset, len) == offset + len <= src.end
CellAt(src, offset) ==
  LET over == {i \in DOMAIN src.patches :
                 offset \in src.patches[i].offset..(src.patches[i].offset + src.patches[i].len - 1)}
  IN IF over # {} THEN src.patches[Max(over)].content
     ELSE IF offset < src.size THEN src.cells[offset] ELSE Blank
ReadAt(src, offset, len) == [i \in 1..len |-> CellAt(src, offset + i - 1).v]

\* read_upto: fewer where the file ends.
ReadUpto(src, offset, len) == ReadAt(src, offset, Max({0, Min({len, src.end - offset})}))
-----------------------------------------------------------------------------
\* Pieces: `len` cells of the disk that are zeros, stored at a cell of the file, or
\* the start of what `stored` cells from there decode to, at most `max` cells.
Piece(len, run, at, stored, max, shortOk) ==
  [len |-> len, run |-> run, at |-> at, stored |-> stored, max |-> max, shortOk |-> shortOk]
Zeros(len) == Piece(len, "zeros", 0, 0, 0, FALSE)
Stored(at, len) == Piece(len, "stored", at, 0, 0, FALSE)
Packed(at, stored, max, shortOk) == Piece(max, "packed", at, stored, max, shortOk)

\* The format finds its metadata damaged when it gets there.
Damaged == Piece(0, "damaged", 0, 0, 0, FALSE)

\* codec::decode.  A cell of compressed data stands for one cell of the disk; input
\* that ends early is no error, only less output.
Decode(src, p) ==
  LET input == ReadUpto(src, p.at, p.stored)
      got == SubSeq(input, 1, Min({Len(input), p.max}))
  IN [ok |-> \A i \in DOMAIN got : got[i] # Rot, cells |-> got]

\* The opened disk: an error, or the source, the disk's size and what next() returns,
\* call by call; a disk whose data is checked as it goes by has sums.
Refused == [ok |-> FALSE, src |-> Source(<<>>, 0), size |-> 0, layout |-> <<>>, sums |-> <<>>]
Opened(src, size, layout) == [ok |-> TRUE, src |-> src, size |-> size, layout |-> layout, sums |-> <<>>]
OpenedIf(guard, src, size, layout) == IF guard THEN Opened(src, size, layout) ELSE Refused
=============================================================================
