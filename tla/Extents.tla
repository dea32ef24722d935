-------------------------------- MODULE Extents --------------------------------
(* The parts of a drive that hold data, from what the file system readers     *)
(* found (smart/util.rs) to the map in a smart image (engine/image.rs) and    *)
(* back, and how they're cut into pieces. Bytes are cells here: a few of them *)
(* stand for a 4 KiB block.                                                    *)
EXTENDS Sequences, SequencesExt, TLC, Rounding

CONSTANTS
  Align,       \* ALIGN, the 4 KiB that extents are aligned to and maps count in
  Gap,         \* GAP: extents closer than this are merged
  MaxExtents,  \* MAX_EXTENTS: more of them are merged at wider gaps
  Edge,        \* what is copied of every drive, at its start and at its end
  ZerosMax     \* ZEROS_MAX, the biggest frame of zeros

ASSUME ExtentsAssumption ==
  /\ {Align, Gap, MaxExtents, Edge, ZerosMax} \subseteq Nat \ {0}
  /\ ZerosMax >= Align

Extent(start, len) == [start |-> start, len |-> len]
End(e) == e.start + e.len
CellsOf(e) == e.start..End(e) - 1
AllCells(v) == UNION {CellsOf(v[i]) : i \in DOMAIN v}

-------------------------------------------------------------------------------
(* What the analysis makes of what was found *)

\* merge: an extent that begins less than `gap` after the last one becomes a part of
\* it, and one that lies within the last one changes nothing.
FaultyJoinedEnd(last, e) == End(e)
JoinedEnd(last, e) == Most(End(e), End(last))

Joins(last, e, gap) == e.start <= End(last) \/ e.start - End(last) < gap
MergeInto(out, e, gap) ==
  IF e.len = 0 THEN out
  ELSE IF out # <<>> /\ Joins(Last(out), e, gap)
       THEN Front(out) \o <<Extent(Last(out).start, JoinedEnd(Last(out), e) - Last(out).start)>>
       ELSE Append(out, e)

\* By their starts; what's merged doesn't depend on the order of those with the same one.
Inserted(out, e) ==
  InsertAt(out, CHOOSE k \in 1..Len(out) + 1 : /\ k > 1 => out[k - 1].start <= e.start
                                               /\ k <= Len(out) => e.start < out[k].start, e)
Sorted(v) == FoldLeft(Inserted, <<>>, v)
Merge(v, gap) == FoldLeft(LAMBDA out, e : MergeInto(out, e, gap), <<>>, Sorted(v))

\* normalize: align and clamp, sort and merge, at doubled gaps until few enough are left.
Aligned(e, size) ==
  LET start == RoundDown(e.start, Align)
      end == Least(RoundUp(Least(End(e), size), Align), size)
  IN Extent(start, Most(end - start, 0))
Normalize(v, size) ==
  LET gap[k \in 0..size] == IF k = 0 THEN Gap ELSE 2 * Most(gap[k - 1], Align)
      merged[k \in 0..size] ==
        Merge(IF k = 0 THEN [i \in DOMAIN v |-> Aligned(v[i], size)] ELSE merged[k - 1], gap[k])
      rounds == CHOOSE k \in 0..size : /\ Len(merged[k]) <= MaxExtents
                                       /\ \A j \in 0..k - 1 : Len(merged[j]) > MaxExtents
  IN merged[rounds]

\* smart::run adds boot code and tables at the start, the backup GPT at the end.
Layout(found, size) ==
  LET edge == Least(Edge, size)
  IN Normalize(<<Extent(0, edge), Extent(size - edge, edge)>> \o found, size)

\* engine::tidy, which makes sure of it once more.
Tidy(v, size) ==
  Merge([i \in DOMAIN v |-> Extent(v[i].start, Most(Least(End(v[i]), size) - v[i].start, 0))], 0)

-------------------------------------------------------------------------------
(* The map in a smart image *)

UsedCells(v) == FoldLeft(LAMBDA n, e : n + e.len, 0, v)
\* Map::end: how big a drive has to be.
DataEnd(v) == IF v = <<>> THEN 0 ELSE End(Last(v))

\* Map::to_text counts units of 4 KiB where it can; the last one may be cut short.
Unit(v, size) ==
  IF \A i \in DOMAIN v : /\ v[i].start % Align = 0
                         /\ v[i].len % Align = 0 \/ End(v[i]) = size
  THEN Align ELSE 1
FaultyUnits(len, unit) == len \div unit
Units(len, unit) == (len + unit - 1) \div unit
ToText(v, size) ==
  LET unit == Unit(v, size)
  IN [size |-> size, used |-> UsedCells(v), count |-> Len(v), unit |-> unit,
      pairs |-> [i \in DOMAIN v |->
                   <<(v[i].start - (IF i = 1 THEN 0 ELSE End(v[i - 1]))) \div unit,
                     Units(v[i].len, unit)>>]]

\* parse_body, pair by pair. Only the drive's end cuts a unit short.
Damaged == <<Extent(0, 0)>>
ParsedWith(v, pair, unit, size) ==
  LET start == DataEnd(v) + pair[1] * unit
      far == start + pair[2] * unit
      end == IF far > size /\ far - size < unit THEN size ELSE far
  IN IF v = Damaged \/ end <= start \/ end > size THEN Damaged
                                                  ELSE Append(v, Extent(start, end - start))
ParsedPairs(text) ==
  FoldLeft(LAMBDA v, pair : ParsedWith(v, pair, text.unit, text.size), <<>>, text.pairs)
Parse(text) ==
  LET parsed == ParsedPairs(text)
  IN IF parsed # Damaged /\ (Len(parsed) # text.count \/ UsedCells(parsed) # text.used)
     THEN Damaged ELSE parsed

-------------------------------------------------------------------------------
(* Pieces *)

\* copy::pieces, of one extent.
PiecesOf(e, chunk) ==
  [i \in 1..Units(e.len, chunk) |->
     LET off == e.start + (i - 1) * chunk IN Extent(off, Least(End(e) - off, chunk))]

\* Zeros::pieces: as big as they get, then powers of two down to ALIGN, then what's left
\* at the end of the drive.
Power(len) ==
  LET power[n \in 0..len] == IF n <= 1 THEN 1 ELSE 2 * power[n \div 2]
  IN power[len]
ZerosPiece(len) == CASE len >= ZerosMax -> ZerosMax
                     [] len < ZerosMax /\ len >= Align -> Power(len)
                     [] len < Align -> len
ZerosPieces(len) ==
  LET pieces[n \in 0..len] == IF n = 0 THEN <<>>
                              ELSE <<ZerosPiece(n)>> \o pieces[n - ZerosPiece(n)]
  IN pieces[len]

\* Cursor::run: the run of used or free space that starts at `pos`, and the extent the
\* cursor is at. It only ever moves forward.
Advanced(v, at, pos) ==
  CHOOSE i \in at..Len(v) + 1 : /\ i <= Len(v) => End(v[i]) > pos
                                /\ \A j \in at..i - 1 : End(v[j]) <= pos
Run(v, at, pos, len) ==
  LET i == Advanced(v, at, pos)
  IN CASE i > Len(v)         -> [used |-> FALSE, len |-> len, at |-> i]
       [] i <= Len(v) /\ v[i].start <= pos
                             -> [used |-> TRUE, len |-> Least(len, End(v[i]) - pos), at |-> i]
       [] i <= Len(v) /\ v[i].start > pos
                             -> [used |-> FALSE, len |-> Least(len, v[i].start - pos), at |-> i]
IsFree(v, at, pos, len) == ~Run(v, at, pos, len).used /\ Run(v, at, pos, len).len = len
================================================================================
