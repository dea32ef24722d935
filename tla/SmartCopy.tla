------------------------------- MODULE SmartCopy -------------------------------
(* A smart copy of a drive, onto another drive or into a smart image and from     *)
(* there onto a drive or into a file: which bytes end up where. Analysis          *)
(* (smart/mod.rs), smart_copy and restore (engine/mod.rs), the format             *)
(* (engine/image.rs) and its restore (engine/restore.rs) on whole drives of a few *)
(* cells. Cell c of the source holds the value c; those in free space don't       *)
(* matter. The threads in between are in WriterPipe, ImagePipe and RestorePipe:   *)
(* they keep the order, so here a piece is read and written in one step.          *)
EXTENDS Extents, Sectors, FiniteSets

CONSTANTS
  Sources,     \* the drives: sizes and sectors
  Founds,      \* what the readers find in them: sequences of extents
  Drives,      \* the drives that take the copy
  Chunks,      \* block sizes
  DataMax      \* DATA_MAX, the most data in one frame

ASSUME SmartCopyAssumption ==
  /\ \A d \in Sources \cup Drives : d.size \in Nat /\ d.sector \in Nat \ {0} /\ d.size % d.sector = 0
  /\ Founds \subseteq Seq([start : Nat, len : Nat])
  /\ Chunks \subseteq Nat \ {0} /\ DataMax \in Nat \ {0}

VARIABLES
  source, chunk,
  phase,       \* how far the copy is
  found,       \* what the analysis found,
  layout,      \* Layout::extents, what it made of it
  map,         \* Map::extents, what gets copied
  image,       \* the smart image: its map, its frames in the file, and those in its table
  target,      \* where the copy goes: a drive or a file, and what it holds
  todo,        \* the pieces, or the frames, that are left
  staging,     \* Staging, the data that waits for a full buffer
  transfers    \* what the last step read and wrote
vars == <<source, chunk, phase, found, layout, map, image, target, todo, staging, transfers>>

NoImage == [version |-> 0, text |-> <<>>, frames |-> <<>>, table |-> <<>>]
NoTarget == [drive |-> FALSE, sector |-> 1, cells |-> <<>>]
NoTable == <<-1>>
Old(c) == -2 - c
Original == [c \in 0..source.size - 1 |-> c]

EmptyStaging == [start |-> 0, data |-> <<>>]

Init ==
  /\ source \in Sources /\ chunk \in Chunks /\ found \in Founds
  /\ phase = "analysis"
  /\ layout = <<>> /\ map = <<>>
  /\ image = NoImage /\ target = NoTarget
  /\ todo = <<>> /\ staging = EmptyStaging /\ transfers = {}

Analyze ==
  /\ phase = "analysis" /\ phase' = "layout"
  /\ layout' = Layout(found, source.size)
  /\ UNCHANGED <<source, chunk, found, map, image, target, todo, staging, transfers>>

MakeMap ==
  /\ phase = "layout" /\ phase' = "map"
  /\ map' = Tidy(layout, source.size)
  /\ found' = <<>> /\ layout' = <<>>
  /\ UNCHANGED <<source, chunk, image, target, todo, staging, transfers>>

-------------------------------------------------------------------------------
(* The target *)

OnDrive(d) == [drive |-> TRUE, sector |-> d.sector, cells |-> [c \in 0..d.size - 1 |-> Old(c)]]
Fits(v, t) == DataEnd(v) <= Cardinality(DOMAIN t.cells)

\* Filled buffers reach the target. A write that fails may have written any part of its own.
Written(cells, buffers) ==
  FoldLeft(LAMBDA held, b : WriteAt(held, b.start, b.data, target.sector), cells, buffers)
WriteAll(buffers) ==
  target' = [target EXCEPT !.cells = Written(@, buffers)]
TornWrite(buffers) ==
  \E b \in DOMAIN buffers : \E n \in 0..Len(buffers[b].data) - 1 :
    target' = [target EXCEPT !.cells =
                 Written(@, SubSeq(buffers, 1, b - 1)
                            \o <<[buffers[b] EXCEPT !.data = SubSeq(@, 1, n)]>>)]
TransfersTo(buffers) ==
  UNION {WriteTransfers(buffers[b].start, Len(buffers[b].data), target.sector) : b \in DOMAIN buffers}
OfDrive(transferred, sector) == {[off |-> t.off, len |-> t.len, sector |-> sector] : t \in transferred}

-------------------------------------------------------------------------------
(* Drive to drive: smart_copy and to_drive *)

OpenTarget ==
  /\ phase = "map"
  /\ \E d \in Drives : target' = OnDrive(d)
  /\ IF Fits(map, target')
     THEN phase' = "copy" /\ todo' = FlattenSeq([i \in DOMAIN map |-> PiecesOf(map[i], chunk)])
     ELSE phase' = "failed" /\ UNCHANGED todo
  /\ UNCHANGED <<source, chunk, found, layout, map, image, staging, transfers>>

CopyPiece ==
  /\ phase = "copy" /\ todo # <<>>
  /\ LET piece == Head(todo)
         read  == ReadAt(Original, piece.start, piece.len, chunk, source.sector)
         sent  == <<[start |-> piece.start, data |-> read]>>
     IN /\ transfers' = OfDrive(ReadTransfers(piece.start, piece.len, chunk, source.sector), source.sector)
                        \cup OfDrive(TransfersTo(sent), target.sector)
        /\ \/ WriteAll(sent) /\ todo' = Tail(todo) /\ UNCHANGED phase
           \/ TornWrite(sent) /\ phase' = "failed" /\ UNCHANGED todo
  /\ UNCHANGED <<source, chunk, found, layout, map, image, staging>>

CopyDone ==
  /\ phase = "copy" /\ todo = <<>>
  /\ phase' = "done"
  /\ UNCHANGED <<source, chunk, found, layout, map, image, target, todo, staging, transfers>>

-------------------------------------------------------------------------------
(* Drive to image: to_image *)

\* The free space before an extent, from the end of the last one.
FreeBefore(e, pos) == e.start - pos
ZeroFrames(len) == [i \in DOMAIN ZerosPieces(len) |-> [j \in 1..ZerosPieces(len)[i] |-> Zero]]
DataFrames(e) ==
  LET pieces == PiecesOf(e, DataMax)
  IN [i \in DOMAIN pieces |->
        ReadAt(Original, pieces[i].start, pieces[i].len, DataMax, source.sector)]
Frames ==
  FlattenSeq([i \in DOMAIN map |->
                ZeroFrames(FreeBefore(map[i], IF i = 1 THEN 0 ELSE End(map[i - 1])))
                \o DataFrames(map[i])])
  \o ZeroFrames(source.size - DataEnd(map))

\* Version 1 images, which DD-GUI no longer writes, hold the same in gzip members.
MakeImage ==
  /\ phase = "map" /\ phase' = "image"
  /\ \E version \in {1, 2} :
       image' = [version |-> version, text |-> ToText(map, source.size), frames |-> Frames,
                 table |-> IF version = 1 THEN NoTable ELSE <<0>> \o [i \in DOMAIN Frames |-> Len(Frames[i])]]
  /\ transfers' = UNION {OfDrive(ReadTransfers(p.start, p.len, DataMax, source.sector), source.sector) :
                         p \in UNION {ToSet(PiecesOf(map[i], DataMax)) : i \in DOMAIN map}}
  /\ UNCHANGED <<source, chunk, found, layout, map, target, todo, staging>>

\* The image loses a part: its end, with the table, because the copier stopped or the
\* disk was full; or a frame in the middle.
Damage ==
  /\ phase = "image" /\ phase' = "damaged image"
  /\ \E i \in DOMAIN image.frames :
       \/ image' = [image EXCEPT !.frames = SubSeq(@, 1, i - 1), !.table = NoTable]
       \/ image' = [image EXCEPT !.frames = RemoveAt(@, i)]
  /\ UNCHANGED <<source, chunk, found, layout, map, target, todo, staging, transfers>>

-------------------------------------------------------------------------------
(* Image to drive or file: inspect, restore_smart_v1 and restore_smart_v2. Every  *)
(* frame, the map's too, takes one unit of the image's file.                      *)

Sum(lens) == FoldLeft(+, 0, lens)
Unpacked == Sum([i \in DOMAIN image.frames |-> Len(image.frames[i])])

\* The map's frame first, then frames covering the drive.
TableMatches ==
  /\ image.table[1] = 0
  /\ Len(image.table) = Len(image.frames) + 1
  /\ Sum(image.table) = source.size

\* The frames to unpack, each with its place on the drive: those that aren't all free.
WithFrame(v, state, frame) ==
  [pos    |-> state.pos + Len(frame),
   cursor |-> Run(v, state.cursor, state.pos, Len(frame)).at,
   jobs   |-> IF IsFree(v, state.cursor, state.pos, Len(frame)) THEN state.jobs
              ELSE Append(state.jobs, [start |-> state.pos, data |-> frame])]
FrameJobs(v, frames) ==
  FoldLeft(LAMBDA state, frame : WithFrame(v, state, frame),
           [pos |-> 0, cursor |-> 1, jobs |-> <<>>], frames).jobs

\* A file is emptied first. Version 1 has no table: it's read to the end.
OpenImage ==
  /\ phase \in {"image", "damaged image"}
  /\ map' = Parse(image.text)
  /\ target' \in {NoTarget} \cup {OnDrive(d) : d \in Drives}
  /\ IF (target'.drive => Fits(map', target')) /\ (image.version = 2 => image.table # NoTable /\ TableMatches)
     THEN phase' = "restore" /\ todo' = FrameJobs(map', image.frames)
     ELSE phase' = "failed" /\ UNCHANGED todo
  /\ UNCHANGED <<source, chunk, found, layout, image, staging, transfers>>

\* Staging::put, cell by cell: a buffer that's full, or that the data doesn't continue,
\* is flushed.
FaultyContinues(staged, pos) == Len(staged.data) < chunk
Continues(staged, pos) == pos = staged.start + Len(staged.data) /\ Len(staged.data) < chunk
Put(state, pos, value) ==
  IF state.staged.data # <<>> /\ Continues(state.staged, pos)
  THEN [state EXCEPT !.staged.data = Append(@, value)]
  ELSE [staged |-> [start |-> pos, data |-> <<value>>],
        sent |-> IF state.staged.data = <<>> THEN state.sent ELSE Append(state.sent, state.staged)]

\* The cursor tells the used cells of a frame, whose run begins at the frame's start.
PutCell(state, value) ==
  [put |-> IF Run(map, 1, state.pos, 1).used THEN Put(state.put, state.pos, value) ELSE state.put,
   pos |-> state.pos + 1]
PutUsed(job) ==
  FoldLeft(PutCell, [put |-> [staged |-> staging, sent |-> <<>>], pos |-> job.start], job.data).put

RestoreFrame ==
  /\ phase = "restore" /\ todo # <<>>
  /\ LET put == PutUsed(Head(todo))
     IN /\ staging' = put.staged
        /\ transfers' = OfDrive(TransfersTo(put.sent), target.sector)
        /\ \/ WriteAll(put.sent) /\ todo' = Tail(todo) /\ UNCHANGED phase
           \/ TornWrite(put.sent) /\ phase' = "failed" /\ UNCHANGED todo
  /\ UNCHANGED <<source, chunk, found, layout, map, image>>

\* The last buffer is flushed, then version 1 finds out whether it was the whole image.
\* A file that ends in free space gets its full size.
FaultyEndsWell == TRUE
EndsWell == image.version = 1 => Unpacked = source.size
RestoreDone ==
  /\ phase = "restore" /\ todo = <<>>
  /\ LET last  == IF staging.data = <<>> THEN <<>> ELSE <<staging>>
         cells == Written(target.cells, last)
     IN /\ transfers' = OfDrive(TransfersTo(last), target.sector)
        /\ IF EndsWell
           THEN /\ phase' = "done"
                /\ target' = [target EXCEPT !.cells =
                                IF target.drive THEN cells
                                ELSE [c \in 0..source.size - 1 |-> IF c \in DOMAIN cells THEN cells[c] ELSE Zero]]
           ELSE phase' = "failed" /\ target' = [target EXCEPT !.cells = cells]
  /\ staging' = EmptyStaging
  /\ UNCHANGED <<source, chunk, found, layout, map, image, todo>>

-------------------------------------------------------------------------------
Next == \/ Analyze \/ MakeMap
        \/ OpenTarget \/ CopyPiece \/ CopyDone
        \/ MakeImage \/ Damage
        \/ OpenImage \/ RestoreFrame \/ RestoreDone

Spec == Init /\ [][Next]_vars

-------------------------------------------------------------------------------
(* Properties *)

Used == AllCells(map)

\* The variables hold what they can hold; in particular, a read gives as many cells as it
\* was asked for, and no buffer holds more than the block size.
TypeOK ==
  /\ source \in Sources /\ chunk \in Chunks
  /\ phase \in {"analysis", "layout", "map", "copy", "image", "damaged image", "restore", "done", "failed"}
  /\ Used \subseteq 0..source.size - 1
  /\ \A i \in DOMAIN image.frames : Len(image.frames[i]) \in 1..IF Zero \in ToSet(image.frames[i])
                                                                 THEN ZerosMax ELSE DataMax
  /\ Len(staging.data) <= chunk
  /\ target.cells # <<>> /\ target.drive => \E d \in Drives : DOMAIN target.cells = 0..d.size - 1

\* Whatever overlaps, touches or goes past the end in what the readers found, the layout
\* keeps every cell of it and both ends of the drive, sorted and apart, in few enough
\* extents; engine::tidy has nothing left to do (its debug_assert).
LayoutKeepsData ==
  phase = "layout" =>
    /\ (AllCells(found) \cup 0..Edge - 1 \cup source.size - Edge..source.size - 1) \cap 0..source.size - 1
         \subseteq AllCells(layout)
    /\ \A i \in 2..Len(layout) : layout[i].start > End(layout[i - 1])
    /\ Len(layout) <= MaxExtents
    /\ Tidy(layout, source.size) = layout

\* The map reads back from the image as it went in, also where the drive's end cuts its
\* last unit short (Map::to_text, Map::parse).
MapSurvives == phase \in {"image", "damaged image"} => Parse(image.text) = map

\* Any zstd decoder gives the whole drive: its data in place, zeros for free space
\* (what image.rs says of its format).
PlainImage ==
  phase = "image" =>
    FlattenSeq(image.frames) = [i \in 1..source.size |-> IF i - 1 \in Used THEN i - 1 ELSE Zero]

\* The image, after every step of writing, damaging and reading it.
ImageIsReadable == TypeOK /\ MapSurvives /\ PlainImage

\* A copy that succeeded has all of the data in place; a file is as big as the drive was,
\* with zeros for its free space.
SuccessIsComplete ==
  phase = "done" =>
    /\ \A c \in Used : target.cells[c] = c
    /\ ~target.drive => /\ DOMAIN target.cells = 0..source.size - 1
                        /\ \A c \in DOMAIN target.cells \ Used : target.cells[c] = Zero

\* What a drive holds outside the copied extents is never touched, however the extents,
\* the block size and the sectors of both drives fit together, and whatever fails.
FreeUntouched ==
  target.drive => \A c \in DOMAIN target.cells \ Used : target.cells[c] = Old(c)

\* An image that lost a part is never restored with success.
DamageIsReported ==
  phase = "done" /\ image # NoImage => Unpacked = source.size

\* A drive only ever sees transfers of whole sectors (Disk::check in the tests).
WholeSectors == \A t \in transfers : t.off % t.sector = 0 /\ t.len % t.sector = 0
================================================================================
