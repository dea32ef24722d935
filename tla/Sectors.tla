-------------------------------- MODULE Sectors --------------------------------
(* Disk::read_at and Disk::write_at (engine/disk.rs): reads and writes of any     *)
(* length at any offset, made of transfers of whole sectors, which is all that a  *)
(* drive opened with O_DIRECT takes. A disk's content is a function from cells to *)
(* values; `s` is the number of cells in a sector, 1 for a file.                  *)
EXTENDS Sequences, Rounding

Zero == -1   \* what new buffers and holes in files hold

Content(disk, off, len) == [i \in 1..len |-> disk[off + i - 1]]

\* pwrite: a file grows, with a hole up to where it's written.
Patched(disk, off, data) ==
  [c \in DOMAIN disk \cup 0..off + Len(data) - 1 |->
     CASE c \in off..off + Len(data) - 1 -> data[c - off + 1]
       [] c \in DOMAIN disk \ (off..off + Len(data) - 1) -> disk[c]
       [] OTHER -> Zero]

-------------------------------------------------------------------------------
(* read_at, into a buffer that has room for `room` cells *)

\* What goes straight into the buffer, and what's read to fill it.
ReadBody(off, len, room, s) == CASE off % s # 0                          -> 0
                                 [] off % s = 0 /\ RoundUp(len, s) <= room -> len
                                 [] off % s = 0 /\ RoundUp(len, s) > room  -> len - (len % s)

\* The rest: the sectors around it, through a buffer of their own.
Around(off, len, s) == [off |-> RoundDown(off, s), len |-> RoundUp(off + len, s) - RoundDown(off, s)]

\* The transfers that a read makes, ...
ReadTransfers(off, len, room, s) ==
  LET body == ReadBody(off, len, room, s)
  IN (IF body > 0 THEN {[off |-> off, len |-> RoundUp(body, s)]} ELSE {})
     \cup IF body < len THEN {Around(off + body, len - body, s)} ELSE {}

\* ... and what it returns.
ReadAt(disk, off, len, room, s) ==
  LET body  == ReadBody(off, len, room, s)
      whole == Around(off + body, len - body, s)
  IN Content(disk, off, body)
     \o SubSeq(Content(disk, whole.off, whole.len),
               off + body - whole.off + 1, off + len - whole.off)

-------------------------------------------------------------------------------
(* write_at *)

FaultyWriteBody(off, len, s) == len - (len % s)
WriteBody(off, len, s) == IF off % s = 0 THEN len - (len % s) ELSE 0

\* The sectors that have to be read because only a part of them is new: the first one,
\* and the last one if it's another.
FaultyPartial(whole, head, end, s) ==
  (IF head > 0 THEN {whole.off} ELSE {})
  \cup (IF end % s # 0 /\ whole.len > s THEN {whole.off + whole.len - s} ELSE {})
Partial(whole, head, end, s) ==
  (IF head > 0 \/ (end % s # 0 /\ whole.len = s) THEN {whole.off} ELSE {})
  \cup (IF end % s # 0 /\ whole.len > s THEN {whole.off + whole.len - s} ELSE {})

WriteTransfers(off, len, s) ==
  LET body  == WriteBody(off, len, s)
      whole == Around(off + body, len - body, s)
      head  == off + body - whole.off
  IN (IF body > 0 THEN {[off |-> off, len |-> body]} ELSE {})
     \cup IF body = len THEN {}
          ELSE {whole} \cup {[off |-> first, len |-> s] :
                             first \in Partial(whole, head, head + len - body, s)}

\* The buffer for some sectors: zeros where nothing was read.
Buffer(disk, known, off, len) == [c \in off..off + len - 1 |-> IF c \in known THEN disk[c] ELSE Zero]

\* Whole sectors, the others with the new data in them, and what was read around it.
WriteAt(disk, off, data, s) ==
  LET len   == Len(data)
      body  == WriteBody(off, len, s)
      whole == Around(off + body, len - body, s)
      head  == off + body - whole.off
      known == UNION {first..first + s - 1 : first \in Partial(whole, head, head + len - body, s)}
      after == Patched(disk, off, SubSeq(data, 1, body))
      held  == Buffer(after, known, whole.off, whole.len)
      new   == Patched(held, off + body, SubSeq(data, body + 1, len))
  IN IF body = len THEN after
     ELSE Patched(after, whole.off, Content(new, whole.off, whole.len))
================================================================================
