-------------------------------- MODULE F2fs ---------------------------------
(***************************************************************************)
(* F2FS (src/smart/f2fs.rs).  A checkpoint pack says which of the two      *)
(* copies of each block of the segment table (SIT) is current and holds    *)
(* entries not written back yet; of the two packs the valid one with the   *)
(* higher version counts.  What fsync wrote after it is rolled forward at  *)
(* the next mount.  A cell is a block; a segment has two.                  *)
(***************************************************************************)
EXTENDS Volume

CONSTANTS F2fsMain,     \* the main area's first cell
          F2fsSegments  \* its segments

ASSUME F2fsAssumption == F2fsMain \in Nat /\ F2fsSegments \in Nat \ {0}

Segments == 0..(F2fsSegments - 1)
SegmentCells(s) == Span(F2fsMain + 2 * s, 2)
Entry(blocks) == [count |-> Cardinality(blocks), blocks |-> blocks]

\* superblocks: both copies are there and agree; layout: inside its partition.
Superblocks(d) == d.agree
F2fsLayout(d) == ~d.unknown /\ d.blocks <= Size

\* checkpoint: a pack whose first and last blocks are whole and agree.
ValidPacks(d) == {k \in {1, 2} : d.pack[k].header > 0 /\ d.pack[k].footer = d.pack[k].header}
CurrentPack(d) == d.pack[CHOOSE k \in ValidPacks(d) : \A j \in ValidPacks(d) : d.pack[j].header <= d.pack[k].header]

\* (Faulty, a bug the code might have had: only the table.)
FaultySitEntry(d, pack, s) == d.sit[pack.copy[s]][s]

\* The entry of a segment: the journal first, else the current copy of its block.
SitEntry(d, pack, s) == IF s \in DOMAIN pack.journal THEN pack.journal[s] ELSE d.sit[pack.copy[s]][s]

\* segment: as many blocks in its map as it counts.
SegmentOk(entry) == Cardinality(entry.blocks) = entry.count

\* roll_forward: the node block the warm log would take next, unless its segment is
\* full, belongs to this checkpoint.
RollForward(d) == ~CurrentPack(d).full /\ d.node.version = CurrentPack(d).header

F2fsRead(d, mode) ==
  LET pack == CurrentPack(d)
      entry(s) == SitEntry(d, pack, s)
      valid[n \in 0..F2fsSegments] == IF n = 0 THEN 0 ELSE valid[n - 1] + entry(n - 1).count
      sound == /\ F2fsLayout(d)
               /\ ~pack.error
               /\ mode = Copy => pack.umount /\ ~RollForward(d)
               /\ \A s \in Segments : SegmentOk(entry(s))
               /\ mode = Copy => valid[F2fsSegments] = pack.valid
  IN  IF ~Superblocks(d) \/ ValidPacks(d) = {} THEN Bad
      ELSE Result(sound, Span(0, F2fsMain) \cup UNION {entry(s).blocks : s \in Segments},
                  F2fsMain + 2 * F2fsSegments)
-----------------------------------------------------------------------------
NoBlocks == [s \in Segments |-> Entry({})]
\* `held` is what a checkpoint's nodes refer to, which the code does not read.
F2fsPack(version, umount, copy, journal, held) ==
  [header |-> version, footer |-> version, umount |-> umount, error |-> FALSE, copy |-> copy,
   journal |-> journal, valid |-> Cardinality(held), held |-> held,
   full |-> (UNION {SegmentCells(s) : s \in Segments}) \subseteq held]
NoPack == F2fsPack(0, FALSE, [s \in Segments |-> 1], <<>>, {})
NoNode == [version |-> 0, blocks |-> {}]

\* One file's block; superblocks that disagree, a partition made smaller, an
\* unknown feature, a checkpoint with errors.
F2fsFresh ==
  LET one == [NoBlocks EXCEPT ![0] = Entry({F2fsMain})]
      make(agree, blocks, unknown, error) ==
        [pack |-> <<[F2fsPack(1, TRUE, [s \in Segments |-> 1], <<>>, {F2fsMain}) EXCEPT !.error = error], NoPack>>,
         sit |-> <<one, NoBlocks>>, node |-> NoNode, agree |-> agree, blocks |-> blocks, unknown |-> unknown]
      end == F2fsMain + 2 * F2fsSegments
  IN  {make(TRUE, end, FALSE, FALSE), make(FALSE, end, FALSE, FALSE), make(TRUE, Size + 1, FALSE, FALSE),
       make(TRUE, end, TRUE, FALSE), make(TRUE, end, FALSE, TRUE)}

\* The entries a system sees once it has mounted d.
F2fsView(d) == LET pack == CurrentPack(d) IN [s \in Segments |-> SitEntry(d, pack, s)]
F2fsHeld(d) == UNION {F2fsView(d)[s].blocks : s \in Segments}

F2fsMounted(d) == d

\* A new checkpoint: the other pack, with the entries of the segments in
\* `changed` in its journal or in the other copy of the table.
F2fsCheckpoint(m, view, journalled, umount) ==
  LET old == CurrentPack(m)
      changed == {s \in Segments : view[s] # F2fsView(m)[s] \/ s \in DOMAIN old.journal}
      moved == changed \ journalled
      copy == [s \in Segments |-> IF s \in moved THEN 3 - old.copy[s] ELSE old.copy[s]]
      slot == IF CurrentPack(m) = m.pack[1] THEN 2 ELSE 1
      held == UNION {view[s].blocks : s \in Segments}
  IN  [m EXCEPT !.pack[slot] = F2fsPack(old.header + 1, umount, copy, [s \in changed \cap journalled |-> view[s]], held),
                !.sit = [c \in 1..2 |-> [s \in Segments |-> IF s \in moved /\ copy[s] = c THEN view[s] ELSE m.sit[c][s]]],
                !.node = NoNode]

\* A block is written where nothing was (its old place freed), and fsync'd or
\* put in a checkpoint.
F2fsChanges(m) ==
  LET view == F2fsView(m)
      free == (UNION {SegmentCells(s) : s \in Segments}) \ (F2fsHeld(m) \cup m.node.blocks)
      segment(c) == (c - F2fsMain) \div 2
      with(c) == [view EXCEPT ![segment(c)] = Entry(@.blocks \cup {c})]
      without(v, c) == [v EXCEPT ![segment(c)] = Entry(@.blocks \ {c})]
  IN  {[m EXCEPT !.node = [version |-> CurrentPack(m).header, blocks |-> {c}]] : c \in free}
      \cup {F2fsCheckpoint(m, with(c), j, FALSE) : c \in free, j \in {{}, {0}}}
      \cup {F2fsCheckpoint(m, without(with(c), old), j, FALSE) : c \in free, old \in F2fsHeld(m), j \in {{}, {0}}}
F2fsUnmounted(m) ==
  LET view == F2fsView(m)
      kept == [s \in Segments |-> Entry(view[s].blocks \cup (m.node.blocks \cap SegmentCells(s)))]
  IN  F2fsCheckpoint(m, kept, {0}, TRUE)

\* The table, then the pack's first block, then its last.
F2fsFlushed(d, m) ==
  {[d EXCEPT !.sit[c][s] = m.sit[c][s]] : c \in 1..2, s \in Segments}
  \cup (IF d.pack = m.pack THEN WriteBack(d, m, {"node"}) ELSE {})
  \cup {[d EXCEPT !.pack[k] = [m.pack[k] EXCEPT !.footer = d.pack[k].footer]] : k \in IF d.sit = m.sit THEN 1..2 ELSE {}}
  \cup {[d EXCEPT !.pack[k] = m.pack[k]] : k \in {j \in 1..2 : d.sit = m.sit /\ d.pack[j].header = m.pack[j].header}}

\* A block of the table that reads as zeros.
F2fsDamaged(d) == {[d EXCEPT !.sit[c][s] = Entry({})] : c \in 1..2, s \in Segments}

\* What the current checkpoint holds, and what fsync wrote since where its log had room.
F2fsNeed(d) ==
  LET packs == {p \in {d.pack[1], d.pack[2]} : p.header > 0 /\ p.footer = p.header}
      newest == {p \in packs : \A q \in packs : q.header <= p.header}
  IN  IF d.blocks > Size \/ d.unknown THEN Cells
      ELSE 0..(F2fsMain - 1) \cup (F2fsMain + 2 * F2fsSegments)..(Size - 1)
           \cup UNION {p.held \cup (IF ~p.full /\ d.node.version = p.header THEN d.node.blocks ELSE {}) : p \in newest}
=============================================================================
