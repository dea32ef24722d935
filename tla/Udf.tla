--------------------------------- MODULE Udf ---------------------------------
(***************************************************************************)
(* UDF (src/smart/udf.rs): the partition's bitmap or table of free blocks, *)
(* found through an anchor and one of two descriptor sequences; the last   *)
(* integrity descriptor says whether the volume was closed.  Without free  *)
(* space information everything up to the last recorded block is kept.     *)
(***************************************************************************)
EXTENDS Volume

CONSTANTS UdfStart,   \* the partition's first cell
          UdfBlocks,  \* its blocks
          UdfAnchor,  \* the anchor's cell (256)
          UdfMain, UdfReserve, \* the cells of the descriptor sequences
          UdfIntegrity, UdfRoom  \* where the integrity sequence is, and its cells

ASSUME UdfAssumption ==
  /\ UdfStart \in Nat /\ UdfBlocks \in Nat /\ UdfBlocks >= 2
  /\ UdfRoom \in Nat \ {0} /\ UdfIntegrity \in Nat /\ UdfIntegrity + UdfRoom <= Size
  /\ {UdfAnchor, UdfMain, UdfReserve} \subseteq Cells

UdfAt(b) == UdfStart + b
UdfMaximum(S) == CHOOSE x \in S : \A y \in S : y <= x
UdfKept == {UdfAnchor, UdfMain, UdfReserve} \cup Span(UdfIntegrity, UdfRoom)

\* The main sequence, else the reserve one.
Described(d) == d.main \/ d.reserve

\* The last descriptor of the sequence.
LastIntegrity(d) == d.integrity[Len(d.integrity)]

\* (Faulty, a bug the code might have had: a volume in use has to be closed as well.)
FaultyUdfClosed(d, mode) == IF d.integrity = <<>> THEN d.readOnly ELSE LastIntegrity(d).closed

\* closed: the last descriptor says so; the free count it records.
UdfClosed(d, mode) ==
  IF d.integrity = <<>> THEN d.readOnly ELSE mode = Copy => LastIntegrity(d).closed
CountAgrees(d, free) ==
  d.integrity = <<>> \/ LastIntegrity(d).free = -1 \/ LastIntegrity(d).free = Cardinality(free)

\* bitmap and table: what they call free, unless they call themselves free.
UdfFree(d) == d.space.free \cap 0..(UdfBlocks - 1)
BitmapSpace(d, mode) == mode = Copy => d.space.at \notin UdfFree(d) /\ CountAgrees(d, UdfFree(d))
TableSpace(d, mode) == d.space.at \notin UdfFree(d) /\ (mode = Copy => CountAgrees(d, UdfFree(d)))
UdfSpace(d, mode) ==
  CASE d.space.kind = "bitmap" -> BitmapSpace(d, mode)
    [] d.space.kind = "table" -> TableSpace(d, mode)
    [] OTHER -> ~d.freed

\* Without free space information: the last block anything records.
UdfRecorded(d) == UdfMaximum({UdfStart + UdfBlocks, d.iso} \cup {c + 1 : c \in UdfKept})

UdfRead(d, mode) ==
  LET known == d.space.kind \in {"bitmap", "table"}
      end == IF known THEN UdfAt(UdfBlocks) ELSE Size
      data == IF known THEN Span(0, UdfStart) \cup {UdfAt(b) : b \in (0..(UdfBlocks - 1)) \ UdfFree(d)}
              ELSE Span(0, UdfRecorded(d))
  IN  Result(/\ d.anchored /\ Described(d)
             /\ d.maps = "physical" /\ UdfAt(UdfBlocks) <= Size
             /\ UdfClosed(d, mode) /\ UdfSpace(d, mode),
             data \cup (UdfKept \cap 0..(end - 1)), end)
-----------------------------------------------------------------------------
Integrity(closed, free) == [closed |-> closed, free |-> free]

\* A volume with each kind of free space information, with its main sequence
\* damaged, of a kind of partition that maps blocks, or on read-only media.
UdfFresh ==
  LET free == (0..(UdfBlocks - 1)) \ {0, 1}
      make(kind, main, maps, readOnly, count, iso) ==
        [anchored |-> TRUE, main |-> main, reserve |-> TRUE, maps |-> maps, freed |-> FALSE, readOnly |-> readOnly,
         integrity |-> IF readOnly THEN <<>> ELSE <<Integrity(TRUE, IF count THEN Cardinality(free) ELSE -1)>>,
         space |-> [kind |-> kind, at |-> 1, free |-> free], files |-> {}, iso |-> iso]
  IN  {make("bitmap", TRUE, "physical", FALSE, n, 0) : n \in BOOLEAN}
      \cup {make("table", TRUE, "physical", FALSE, n, 0) : n \in BOOLEAN}
      \cup {make("bitmap", FALSE, "physical", FALSE, TRUE, 0), make("bitmap", TRUE, "metadata", FALSE, TRUE, 0),
            make("none", TRUE, "physical", TRUE, TRUE, 0), make("none", TRUE, "physical", TRUE, TRUE, Size - 1),
            [make("none", TRUE, "physical", FALSE, TRUE, 0) EXCEPT !.freed = TRUE]}

\* The driver opens the volume with a descriptor after the others where there
\* is room, else over the last.
UdfRecord(m, closed) ==
  LET free == IF LastIntegrity(m).free = -1 THEN -1 ELSE Cardinality(m.space.free)
      at == IF Len(m.integrity) < UdfRoom THEN Len(m.integrity) + 1 ELSE UdfRoom
  IN  [m EXCEPT !.integrity = [i \in 1..at |-> IF i = at THEN Integrity(closed, free) ELSE m.integrity[i]]]
UdfMounted(d) == IF d.readOnly THEN d ELSE UdfRecord(d, FALSE)
UdfUnmounted(m) == IF m.readOnly THEN m ELSE UdfRecord(m, TRUE)
UdfChanges(m) ==
  IF m.readOnly \/ m.freed THEN {}
  ELSE {[m EXCEPT !.space.free = @ \ {b}, !.files = @ \cup {b}] : b \in m.space.free}
       \cup {[m EXCEPT !.space.free = @ \cup {b}, !.files = @ \ {b}] : b \in m.files}
UdfFlushed(d, m) ==
  WriteBack(d, m, {"integrity"})
  \cup (IF d.integrity = m.integrity THEN WriteBack(d, m, {"space", "files"}) ELSE {})

\* A map of the free blocks that reads as all ones: everything free.
UdfDamaged(d) == {[d EXCEPT !.space.free = 0..(UdfBlocks - 1)]}

UdfNeed(d) ==
  IF d.maps # "physical" \/ d.freed THEN Cells
  ELSE UdfKept \cup Span(0, UdfStart) \cup Span(0, d.iso)
       \cup (IF d.space.kind = "none" THEN {UdfAt(b) : b \in 0..(UdfBlocks - 1)}
             ELSE {UdfAt(b) : b \in {0, 1} \cup d.files} \cup UdfAt(UdfBlocks)..(Size - 1))
=============================================================================
