--------------------------------- MODULE Lvm ---------------------------------
(***************************************************************************)
(* An LVM physical volume (src/smart/lvm.rs).  Its metadata areas hold     *)
(* copies of the volume group, the newest of which counts: the extents of  *)
(* each logical volume (LV).  A plain LV is read like a partition of its   *)
(* own and mapped back, any other keeps its extents.                       *)
(***************************************************************************)
EXTENDS Volume

CONSTANTS LvmStart,    \* the first extent's cell
          LvmExtent,   \* cells of an extent
          LvmCount,    \* extents of this volume
          LvmSecond,   \* the cell of the second metadata area
          MaxNesting   \* levels of LVM looked into (3)

LvmAreas == {1, LvmSecond}
LvmNames == {"a", "b", "c"}
LvmEnd == LvmStart + LvmCount * LvmExtent
PeCells(pe, n) == Span(LvmStart + pe * LvmExtent, n * LvmExtent)

\* analyze: the copy with the highest sequence number, of those not ignored.
Copies(d) == {i \in DOMAIN d.mda : d.mda[i].state = "text"}
Best(d) == d.mda[CHOOSE i \in Copies(d) : \A j \in Copies(d) : d.mda[j].seqno <= d.mda[i].seqno]

\* lv: the extents it has here, in its order, each [lv, pe, n]; an LV is plain
\* when all it has is one run of visible, unshared extents on this volume.
LvCount(segs) ==
  LET sum[i \in 0..Len(segs)] == IF i = 0 THEN 0 ELSE sum[i - 1] + segs[i].count
  IN  sum[Len(segs)]
AreaLength(seg) == IF seg.type = "striped" THEN seg.count \div Len(seg.areas) ELSE seg.count
Ours(lv) ==
  UNION {{[at |-> lv.segs[i].start, pe |-> a.pe, n |-> AreaLength(lv.segs[i])]
          : a \in {x \in {lv.segs[i].areas[k] : k \in DOMAIN lv.segs[i].areas} : x.pv = "ours"}} : i \in DOMAIN lv.segs}
Referenced(vg, lv) == \E other \in vg : other.name # lv.name /\ lv.name \in other.refs
Simple(vg, lv) ==
  /\ lv.visible /\ ~Referenced(vg, lv)
  /\ \A i \in DOMAIN lv.segs :
       /\ lv.segs[i].type = "striped" /\ Len(lv.segs[i].areas) = 1
       /\ \A k \in DOMAIN lv.segs[i].areas : lv.segs[i].areas[k].pv = "ours"
       /\ lv.segs[i].start = LvCount(SubSeq(lv.segs, 1, i - 1))
  /\ Ours(lv) # {}

\* map_back: an LV's cells on the volume.
MapBack(lv, cells) ==
  UNION {{LvmStart + r.pe * LvmExtent + (c - r.at * LvmExtent) : c \in cells \cap Span(r.at * LvmExtent, r.n * LvmExtent)}
         : r \in Ours(lv)}

\* inside: what the partition that an LV is gives, at most MaxNesting levels of LVM down.
Nested(levels) == levels < MaxNesting
Inside(lv, content) ==
  IF content.known /\ Nested(content.levels) THEN content.held
  ELSE 0..(LvCount(lv.segs) * LvmExtent - 1)

\* A segment that is read: of a known kind, its stripes alike and on volumes of the group
\* (the legs of a mirror may be LVs).
SegmentSound(seg) ==
  /\ seg.type # "unknown" /\ seg.count > 0
  /\ seg.type = "striped" => /\ seg.areas # <<>> /\ seg.count % Len(seg.areas) = 0
                             /\ \A k \in DOMAIN seg.areas : seg.areas[k].pv # "lv"

\* VolumeGroup::new: all segments sound, no extent in two LVs, none past the end.
GroupSound(vg) ==
  /\ \A lv \in vg : \A i \in DOMAIN lv.segs : SegmentSound(lv.segs[i])
  /\ \A lv \in vg : \A r \in Ours(lv) : r.pe + r.n <= LvmCount
  /\ \A lv, other \in vg : \A r \in Ours(lv), s \in Ours(other) :
       <<lv.name, r>> # <<other.name, s>> => Span(r.pe, r.n) \cap Span(s.pe, s.n) = {}

LvKept(d, vg, lv) ==
  IF Simple(vg, lv) THEN MapBack(lv, Inside(lv, d.content[lv.name]))
  ELSE UNION {PeCells(r.pe, r.n) : r \in Ours(lv)}

LvmRead(d, mode) ==
  LET kept == Span(0, LvmStart) \cup (IF DOMAIN d.mda = {} THEN {} ELSE LvmAreas)
      whole == d.label /\ \A i \in DOMAIN d.mda : d.mda[i].state # "torn"
      orphan == DOMAIN d.mda # {} /\ ~d.usedFlag /\ \A i \in DOMAIN d.mda : d.mda[i].state # "ignored"
  IN  IF Copies(d) = {} THEN Result(whole /\ orphan, kept, Size)
      ELSE LET vg == Best(d).vg
           IN  Result(whole /\ d.peStart = LvmStart /\ LvmEnd <= Size /\ GroupSound(vg),
                      kept \cup UNION {LvKept(d, vg, lv) : lv \in vg}, LvmEnd)
-----------------------------------------------------------------------------
Mda(state, seqno, vg) == [state |-> state, seqno |-> seqno, vg |-> vg]
NoContent == [known |-> FALSE, levels |-> 0, held |-> {}]
Segment(start, count, type, areas) == [start |-> start, count |-> count, type |-> type, areas |-> areas]
On(pv, pe) == [pv |-> pv, pe |-> pe]
\* `plain` and `extents`, those it has on this volume, are what its makers know.
Lv(name, visible, refs, segs, plain, extents) ==
  [name |-> name, visible |-> visible, refs |-> refs, segs |-> segs, plain |-> plain, extents |-> extents]

\* A volume in a group without LVs, with two, or in none; without metadata, or
\* with it elsewhere; a label that was damaged.
LvmFresh ==
  LET linear(n, pe) == Lv(n, TRUE, {}, <<Segment(0, 1, "striped", <<On("ours", pe)>>)>>, TRUE, {pe})
      make(mda, usedFlag, label) ==
        [mda |-> mda, usedFlag |-> usedFlag, label |-> label, peStart |-> LvmStart,
         content |-> [n \in LvmNames |-> NoContent]]
      both(x) == [i \in 1..2 |-> x]
  IN  {make(both(Mda("text", 1, {})), TRUE, TRUE), make(both(Mda("empty", 0, {})), FALSE, TRUE),
       make(both(Mda("ignored", 0, {})), TRUE, TRUE), make(both(Mda("empty", 0, {})), TRUE, TRUE),
       make(<<>>, TRUE, TRUE), [make(both(Mda("text", 1, {linear("a", 2), linear("b", 0)})), TRUE, TRUE) EXCEPT
                                  !.content["a"] = [known |-> TRUE, levels |-> 0, held |-> {0}]],
       make(<<>>, FALSE, TRUE), make(both(Mda("text", 1, {})), TRUE, FALSE)}

LvmMounted(d) == d
LvmUnmounted(m) == m

LvmCommit(m, vg) == [m EXCEPT !.mda = [i \in DOMAIN @ |-> Mda("text", Best(m).seqno + 1, vg)]]

\* pvmove keeps the extents it moves in a mirror of its own, which their LV is put on.
Moving(vg) == \E lv \in vg : \E i \in DOMAIN lv.segs : lv.segs[i].type = "mirror"
LvmMoving(d) == Copies(d) # {} /\ Moving(Best(d).vg)
Move(vg, lv, pe) ==
  (vg \ {lv})
  \cup {[lv EXCEPT !.refs = {"c"}, !.segs = <<Segment(0, 1, "striped", <<On("lv", 0)>>)>>, !.plain = FALSE, !.extents = {}],
        Lv("c", FALSE, {}, <<Segment(0, 1, "mirror", <<On("ours", pe), On("other", 0)>>)>>, FALSE, {pe})}
Moved(vg) ==
  {IF lv.refs = {} THEN lv ELSE [lv EXCEPT !.refs = {}, !.segs = <<Segment(0, 1, "striped", <<On("other", 0)>>)>>]
   : lv \in {x \in vg : x.name # "c"}}

\* A plain LV made or made longer, one across two volumes or striped, a
\* snapshot of one in another, an LV removed or moved to another volume, or a
\* file system made in one.
LvmChanges(m) ==
  LET vg == Best(m).vg
      free == (0..(LvmCount - 1)) \ UNION {lv.extents : lv \in vg}
      names == {n \in LvmNames : \A lv \in vg : lv.name # n}
      new(n, segs, plain, extents) == LvmCommit(m, vg \cup {Lv(n, TRUE, {}, segs, plain, extents)})
      plains == {lv \in vg : lv.plain}
      striped(start, areas) == Segment(start, Len(areas), "striped", areas)
  IN  IF Copies(m) # {1, 2} THEN {}
      ELSE IF Moving(vg) THEN {LvmCommit(m, Moved(vg))}
      ELSE {new(n, <<striped(0, <<On("ours", pe)>>)>>, TRUE, {pe}) : n \in names \ {"c"}, pe \in free}
           \cup {new(n, <<striped(0, <<On("ours", pe)>>), striped(1, <<On("other", 0)>>)>>, FALSE, {pe})
                 : n \in names \cap {"b"}, pe \in free}
           \cup {new("b", <<striped(0, <<On("ours", x[1]), On("ours", x[2])>>)>>, FALSE, {x[1], x[2]})
                 : x \in {y \in free \X free : y[1] < y[2] /\ "b" \in names}}
           \cup {LvmCommit(m, (vg \ {lv}) \cup {[lv EXCEPT !.segs = Append(@, striped(Len(@), <<On("ours", pe)>>)),
                                                        !.extents = @ \cup {pe}]})
                 : lv \in plains, pe \in free}
           \cup {LvmCommit(m, Move(vg, lv, CHOOSE pe \in lv.extents : TRUE))
                 : lv \in {x \in plains : "c" \in names /\ Cardinality(x.extents) = 1}}
           \cup {LvmCommit(m, vg \cup {Lv("c", TRUE, {"a", "b"}, <<Segment(0, 1, "snapshot", <<>>)>>, FALSE, {})})
                 : x \in {y \in {1} : {lv.name : lv \in vg} = {"a", "b"}}}
           \cup {LvmCommit(m, vg \ {lv}) : lv \in {x \in vg : ~Referenced(vg, x)}}
           \cup {[m EXCEPT !.content[lv.name] = [known |-> TRUE, levels |-> levels, held |-> {0, Len(lv.segs) * LvmExtent - 1}]]
                 : lv \in {x \in vg : ~m.content[x.name].known}, levels \in {0, MaxNesting}}

\* The metadata areas one after the other, then what is in the LVs.
LvmFlushed(d, m) ==
  {[d EXCEPT !.mda[i] = m.mda[i]] : i \in DOMAIN m.mda}
  \cup (IF d.mda = m.mda THEN WriteBack(d, m, {"content"}) ELSE {})

\* A metadata area whose text no longer matches its checksum.
LvmDamaged(d) == {[d EXCEPT !.mda[i].state = "torn"] : i \in {x \in DOMAIN d.mda : d.mda[x].state = "text"}}

\* The cells of an LV in its order, and what of them is needed.
LvCells(lv) ==
  LET cells[i \in 0..Len(lv.segs)] ==
        IF i = 0 THEN <<>>
        ELSE cells[i - 1] \o [k \in 1..(lv.segs[i].count * LvmExtent) |-> LvmStart + lv.segs[i].areas[1].pe * LvmExtent + k - 1]
  IN  cells[Len(lv.segs)]
LvNeeds(d, vg, lv) ==
  IF lv.plain /\ ~(\E snapshot \in vg : lv.name \in snapshot.refs)
     /\ d.content[lv.name].known /\ d.content[lv.name].levels < MaxNesting
  THEN {LvCells(lv)[c + 1] : c \in {x \in d.content[lv.name].held : x < Len(LvCells(lv))}}
  ELSE UNION {PeCells(pe, 1) : pe \in lv.extents}
LvmNeed(d) ==
  LET copies == {d.mda[i] : i \in {k \in DOMAIN d.mda : d.mda[k].state = "text"}}
      newest == {c \in copies : \A other \in copies : other.seqno <= c.seqno}
      elsewhere == d.mda = <<>> \/ \E i \in DOMAIN d.mda : d.mda[i].state = "ignored"
  IN  IF ~d.label \/ (copies = {} /\ (elsewhere \/ d.usedFlag)) THEN Cells
      ELSE Span(0, LvmStart) \cup {LvmSecond}
           \cup UNION {UNION {LvNeeds(d, c.vg, lv) : lv \in c.vg} : c \in newest}
=============================================================================
