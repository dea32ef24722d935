-------------------------------- MODULE VDisk --------------------------------
(***************************************************************************)
(* A virtual disk read from start to end (VDisk in                         *)
(* src/engine/formats/vdisk.rs): the pieces of its format are followed a   *)
(* bounded stretch ahead, compressed ones are decoded by a pool of threads *)
(* in any order, and the reader gets the disk's cells in theirs.           *)
(***************************************************************************)
EXTENDS ImageFile

CONSTANTS MaxAhead,       \* MAX_AHEAD: slots looked at ahead
          LookAhead,      \* LOOK_AHEAD: cells the layout is followed ahead of the reader
          InFlightCells,  \* IN_FLIGHT_BYTES
          MaxBlock,       \* MAX_BLOCK: cells of the biggest compressed block
          MaxEmpty,       \* 1 << 16: empty pieces in a row that are let pass
          Workers,        \* decoding threads; 0 on a single CPU
          MaxDeaths,      \* threads a decoder may panic in
          Buffers         \* sizes of the buffers the disk is read into

ASSUME VDiskAssumption ==
  /\ {MaxAhead, LookAhead, InFlightCells, MaxBlock} \subseteq Nat \ {0}
  /\ {MaxEmpty, Workers, MaxDeaths} \subseteq Nat /\ Buffers \subseteq Nat \ {0}

VARIABLES opened,   \* what the format's open returned
          layout,   \* the pieces next() has still to return
          pos,      \* cells returned so far
          mapped,   \* cells the layout has described so far
          mapDone,
          empty,    \* empty pieces in a row from the layout
          ahead,    \* the slots in front of the reader
          inFlight, inFlightCells,  \* packed slots with a job, and their decoded sizes
          want,     \* the read() that runs: what it is to fill
          buf,      \* and has filled
          out,      \* what the reads returned
          outcome,  \* "closed", "reading", "ended", "failed" or "panicked"
          pool      \* the threads: started or not, their queue, who runs what, the answers

read == <<pos, out, want, buf>>
map == <<layout, mapped, mapDone, empty>>
flight == <<inFlight, inFlightCells>>
stream == <<opened, read, map, flight, ahead, outcome, pool>>

\* Slots: a piece, where it starts on the disk, whether a job decodes it or has.
Slot(piece, start, job) ==
  [len |-> piece.len, run |-> piece.run, at |-> piece.at, stored |-> piece.stored, max |-> piece.max,
   shortOk |-> piece.shortOk, start |-> start, job |-> job, decoded |-> FALSE, taken |-> 0]

NoPool == [tried |-> FALSE, on |-> FALSE, queue |-> <<>>, free |-> 0, running |-> {}, sent |-> {}, gone |-> {}, deaths |-> 0]
Closed ==
  /\ opened = Refused /\ layout = <<>> /\ pos = 0 /\ mapped = 0 /\ mapDone = FALSE /\ empty = 0 /\ ahead = <<>>
  /\ inFlight = 0 /\ inFlightCells = 0 /\ want = 0 /\ buf = <<>> /\ out = <<>>
  /\ outcome = "closed" /\ pool = NoPool

\* VDisk::new, once the format has opened the file.
Opening(result) ==
  /\ outcome = "closed"
  /\ opened' = result /\ layout' = result.layout /\ mapDone' = (result.size = 0)
  /\ outcome' = IF result.ok THEN "reading" ELSE "failed"
  /\ UNCHANGED <<read, mapped, empty, flight, ahead, pool>>

\* The error ends the reading: the VDisk is dropped, what the call had filled with it.
Fail == outcome' = "failed" /\ UNCHANGED <<opened, read, map, flight, ahead, pool>>
-----------------------------------------------------------------------------
Reading == outcome = "reading" /\ Len(buf) < want

FaultyMayFill ==
  /\ ~mapDone /\ Len(ahead) < MaxAhead
  /\ ahead = <<>> \/ (mapped < pos + LookAhead /\ (pool.on => inFlight < 2 * Workers))

\* fill: at least one slot, more while the threads can be handed blocks.
MayFill ==
  /\ ~mapDone /\ Len(ahead) < MaxAhead
  /\ \/ ahead = <<>>
     \/ /\ mapped < pos + LookAhead
        /\ pool.on => (inFlight < 2 * Workers /\ inFlightCells < InFlightCells)

FaultyMerges(last, piece) ==
  \/ last.run = "zeros" /\ piece.run = "zeros"
  \/ last.run = "stored" /\ piece.run = "stored"

\* push: neighbours of a kind become one slot.
Merges(last, piece) ==
  \/ last.run = "zeros" /\ piece.run = "zeros"
  \/ last.run = "stored" /\ piece.run = "stored" /\ last.at + last.len = piece.at

Oversized(p) == p.run = "packed" /\ (p.max > MaxBlock \/ p.stored > MaxBlock \/ p.len > p.max)

\* Pool::start, at the first compressed block.
Started == IF pool.tried THEN pool ELSE [pool EXCEPT !.tried = TRUE, !.on = (Workers > 1), !.free = IF Workers > 1 THEN Workers ELSE 0]

\* submit: the queue ends with its last thread.
Takes(p) == p.on /\ (p.free > 0 \/ p.running # {})

Push(piece) ==
  LET started == IF piece.run = "packed" THEN Started ELSE pool
      job == piece.run = "packed" /\ Takes(started)
  IN IF ahead # <<>> /\ Merges(Last(ahead), piece)
     THEN /\ ahead' = [ahead EXCEPT ![Len(ahead)].len = @ + piece.len]
          /\ UNCHANGED <<flight, pool>>
     ELSE /\ ahead' = Append(ahead, Slot(piece, mapped, job))
          /\ pool' = IF job THEN [started EXCEPT !.queue = Append(@, mapped)] ELSE started
          /\ inFlight' = inFlight + (IF job THEN 1 ELSE 0)
          /\ inFlightCells' = inFlightCells + (IF job THEN piece.max ELSE 0)

\* A piece that maps nothing; a map that goes on like that goes nowhere.
Skip ==
  IF empty = MaxEmpty THEN Fail
  ELSE /\ layout' = Tail(layout) /\ empty' = empty + 1
       /\ UNCHANGED <<opened, read, mapped, mapDone, flight, ahead, outcome, pool>>

Fill ==
  /\ Reading /\ MayFill
  /\ IF layout = <<>>
     THEN mapDone' = TRUE /\ UNCHANGED <<opened, read, layout, mapped, empty, flight, ahead, outcome, pool>>
     ELSE LET piece == Head(layout)
          IN IF piece.run = "damaged" THEN Fail
             ELSE IF piece.len = 0 THEN Skip
             ELSE IF Oversized(piece) THEN Fail
             ELSE /\ Push(piece)
                  /\ layout' = Tail(layout) /\ empty' = 0
                  /\ mapped' = mapped + piece.len
                  /\ mapDone' = (mapped' >= opened.size)
                  /\ UNCHANGED <<opened, read, outcome>>
-----------------------------------------------------------------------------
FaultyAnswered(slot) == ~slot.job \/ slot.start \in pool.sent

\* A packed slot's data: decoded ahead, or here where no thread did it.
Answered(slot) == ~slot.job \/ slot.start \in pool.sent \cup pool.gone

Enough(slot, got) == got.ok /\ (Len(got.cells) >= slot.len \/ slot.shortOk)

\* `k` cells of a slot, from its cell `at`; past what its block decoded to: zeros.
Unpacked(got, at, k) == [i \in 1..k |-> IF at + i <= Len(got.cells) THEN got.cells[at + i] ELSE 0]

FaultyRest(slot, k) == [slot EXCEPT !.len = @ - k]

\* The part of a slot that was read is gone from it.
Rest(slot, k) == [slot EXCEPT !.len = @ - k, !.at = @ + k]

Give(cells, left) ==
  /\ buf' = buf \o cells
  /\ ahead' = IF left.len = left.taken THEN Tail(ahead) ELSE <<left>> \o Tail(ahead)
  /\ UNCHANGED <<opened, pos, out, want, map, outcome, pool>>

\* read: from the front slot.  The layout may end early: the rest is zeros.
NothingMapped ==
  /\ Reading /\ ~MayFill /\ ahead = <<>>
  /\ buf' = buf \o [i \in 1..(want - Len(buf)) |-> 0]
  /\ UNCHANGED <<opened, pos, out, want, map, flight, ahead, outcome, pool>>
TakeSlot ==
  /\ Reading /\ ~MayFill /\ ahead # <<>>
  /\ LET slot == Head(ahead)
         k == Min({slot.len - slot.taken, want - Len(buf)})
     IN \/ /\ slot.run = "zeros"
           /\ Give([i \in 1..k |-> 0], Rest(slot, k)) /\ UNCHANGED flight
        \/ /\ slot.run = "stored"
           /\ IF Readable(opened.src, slot.at, k)
              THEN Give(ReadAt(opened.src, slot.at, k), Rest(slot, k)) /\ UNCHANGED flight
              ELSE Fail
        \/ /\ slot.run = "packed" /\ (slot.decoded \/ Answered(slot))
           /\ LET got == Decode(opened.src, slot)
                  left == [slot EXCEPT !.decoded = TRUE, !.job = FALSE, !.taken = @ + k]
              IN IF Enough(slot, got)
                 THEN /\ Give(Unpacked(got, slot.taken, k), left)
                      /\ inFlight' = inFlight - (IF slot.job THEN 1 ELSE 0)
                      /\ inFlightCells' = inFlightCells - (IF slot.job THEN slot.max ELSE 0)
                 ELSE Fail

\* A block that no thread answers for is decoded by the reader itself, where its decoder
\* may panic too: the read never returns.
ReaderPanics ==
  /\ Reading /\ ~MayFill /\ ahead # <<>>
  /\ LET slot == Head(ahead)
     IN slot.run = "packed" /\ ~slot.decoded /\ (slot.job => slot.start \in pool.gone)
  /\ outcome' = "panicked"
  /\ UNCHANGED <<opened, read, map, flight, ahead, pool>>

\* read: a call, and its return; the layout sees the bytes first (the check of a DMG).
Call(len) ==
  /\ outcome = "reading" /\ want = 0
  /\ IF pos = opened.size THEN outcome' = "ended" /\ UNCHANGED want
     ELSE want' = Min({len, opened.size - pos}) /\ UNCHANGED outcome
  /\ UNCHANGED <<opened, pos, out, buf, map, flight, ahead, pool>>

\* Crcs::update: a range's sum, with or without its ignored chunks, once its end is reached.
SumHolds(s, all) ==
  LET cells == SubSeq(all, s.start + 1, s.end)
      kept == [i \in {j \in DOMAIN cells : (s.start + j - 1) \notin s.ignored} |-> cells[i]]
  IN ~s.checked \/ cells = s.all \/ kept = s.data
SumsHold(all) == \A i \in DOMAIN opened.sums : opened.sums[i].end \in (pos + 1)..Len(all) => SumHolds(opened.sums[i], all)

Return ==
  /\ outcome = "reading" /\ want > 0 /\ Len(buf) = want
  /\ IF SumsHold(out \o buf)
     THEN /\ out' = out \o buf /\ pos' = pos + want /\ want' = 0 /\ buf' = <<>>
          /\ UNCHANGED <<opened, map, flight, ahead, outcome, pool>>
     ELSE Fail
-----------------------------------------------------------------------------
\* The threads.  They stop once the VDisk, and with it the queue's sender, is gone.
OnlyPool == UNCHANGED <<opened, read, map, flight, ahead, outcome>>

TakeJob ==
  /\ pool.free > 0 /\ pool.queue # <<>>
  /\ pool' = [pool EXCEPT !.queue = Tail(@), !.free = @ - 1, !.running = @ \cup {Head(pool.queue)}]
  /\ OnlyPool
Reply ==
  /\ \E job \in pool.running :
       pool' = [pool EXCEPT !.running = @ \ {job}, !.free = @ + 1, !.sent = @ \cup {job}]
  /\ OnlyPool
\* A decoder panics: its thread goes, with the sender of the answer; the last one takes the queue along.
Dies ==
  /\ pool.deaths < MaxDeaths
  /\ \E job \in pool.running :
       LET last == pool.free = 0 /\ pool.running = {job}
       IN pool' = [pool EXCEPT !.deaths = @ + 1, !.running = @ \ {job},
                               !.queue = IF last THEN <<>> ELSE @,
                               !.gone = @ \cup {job} \cup (IF last THEN Range(pool.queue) ELSE {})]
  /\ OnlyPool
Stops ==
  /\ outcome \in {"ended", "failed", "panicked"} /\ pool.free > 0 /\ pool.queue = <<>>
  /\ pool' = [pool EXCEPT !.free = @ - 1]
  /\ OnlyPool

Reader == Fill \/ NothingMapped \/ TakeSlot \/ Return \/ \E len \in Buffers : Call(len)
Threads == TakeJob \/ Reply \/ Dies \/ Stops

\* What goes on by itself: the reader keeps reading, decoding a block ends; no panic has to come.
Progress == Reader \/ TakeJob \/ Reply \/ Stops
-----------------------------------------------------------------------------
HasJob(slot) == slot.run = "packed" /\ slot.job
Jobs == {i \in DOMAIN ahead : HasJob(ahead[i])}
JobCells(slots) ==
  LET sum[i \in 0..Len(slots)] ==
        IF i = 0 THEN 0 ELSE sum[i - 1] + (IF HasJob(slots[i]) THEN slots[i].max ELSE 0)
  IN sum[Len(slots)]

\* What is decoded and not returned yet stays within the window, whatever the threads
\* do: the counts of the jobs in flight are those of the slots.
WindowIsBounded ==
  /\ outcome = "reading" =>
       /\ inFlight = Cardinality(Jobs) /\ inFlightCells = JobCells(ahead)
       /\ pool.running \cup Range(pool.queue) \subseteq {ahead[i].start : i \in Jobs}
  /\ Len(ahead) <= MaxAhead /\ inFlight <= 2 * Max({Workers, 1})
  /\ inFlightCells < InFlightCells + MaxBlock
  /\ pool.free + Cardinality(pool.running) + pool.deaths <= Workers
-----------------------------------------------------------------------------
\* Where the pieces of a layout end on the disk.
Ends(pieces) ==
  LET end[i \in 0..Len(pieces)] == IF i = 0 THEN 0 ELSE end[i - 1] + pieces[i].len
  IN end

\* What a piece has at its cell `k`, counted from 0.
CellOf(src, piece, k) ==
  LET decoded == Decode(src, piece).cells
  IN CASE piece.run = "stored" -> CellAt(src, piece.at + k).v
       [] piece.run = "packed" -> IF k + 1 <= Len(decoded) THEN decoded[k + 1] ELSE 0
       [] OTHER -> 0

\* The disk has a value at its cell `p`: that of the piece which covers it, and zeros
\* behind the last one.
Shows(src, pieces, p, value) ==
  LET ends == Ends(pieces)
  IN /\ \A i \in DOMAIN pieces :
          ends[i - 1] <= p /\ p < ends[i] => value = CellOf(src, pieces[i], p - ends[i - 1])
     /\ ends[Len(pieces)] <= p => value = 0

\* Whatever order the blocks are decoded in, whichever threads panic, and however the
\* disk's cells are split over pieces, slots and buffers: each one is read with what the
\* layout has there, and all of them by the time the reads end.
ReadsTheLayout ==
  /\ \A i \in DOMAIN out : Shows(opened.src, opened.layout, i - 1, out[i])
  /\ outcome = "ended" => Len(out) = opened.size
=============================================================================
