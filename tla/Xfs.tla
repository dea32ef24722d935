--------------------------------- MODULE Xfs ---------------------------------
(***************************************************************************)
(* XFS (src/smart/xfs.rs): all but the free extents of each allocation     *)
(* group, once the log is clean.  The log is a ring of blocks stamped with *)
(* the cycle, the pass over the ring, that wrote them; records are written *)
(* several at a time and may land in any order.  A record has two blocks.  *)
(***************************************************************************)
EXTENDS Volume

CONSTANTS XfsAgBlocks,  \* blocks of an allocation group
          XfsBlocks,    \* blocks of the file system
          XfsLog,       \* blocks of the log
          XfsWindow,    \* blocks checked on each side of the head (LOG_WINDOW)
          XfsInFlight   \* blocks of the log a driver writes at a time, at most

XfsLeast(a, b) == IF a < b THEN a ELSE b
LogBlocks == 0..(XfsLog - 1)
Groups == 0..((XfsBlocks - 1) \div XfsAgBlocks)
GroupCells(a) == (a * XfsAgBlocks)..(XfsLeast((a + 1) * XfsAgBlocks, XfsBlocks) - 1)

\* The first block of the previous pass, by bisection; 0 when the cycles are out of order.
Bisect(log, first, last) ==
  LET half[r \in LogBlocks \X LogBlocks] ==
        LET mid == r[1] + (r[2] - r[1]) \div 2
        IN  IF r[2] - r[1] <= 1 THEN r[2]
            ELSE IF log[mid].cycle = first THEN half[<<mid, r[2]>>]
            ELSE IF log[mid].cycle = last THEN half[<<r[1], mid>>]
            ELSE 0
  IN  half[<<0, XfsLog - 1>>]

\* (Faulty: the last unmount record will do, whatever was written around it.)
FaultyLogClean(log) == \E b \in LogBlocks : log[b].kind = "unmount"

\* log_clean: where the cycle drops, nothing else around it, and right before
\* it the unmount record.
LogClean(log) ==
  LET first == log[0].cycle
      last == log[XfsLog - 1].cycle
      head == IF first = last THEN 0 ELSE Bisect(log, first, last)
      window == XfsLeast(XfsWindow, XfsLog \div 2)
      back == IF head = 0 THEN window ELSE XfsLeast(window, head)
      from == IF head = 0 THEN XfsLog - back ELSE head - back
      ahead == IF head = 0 THEN window ELSE XfsLeast(window, XfsLog - head)
      headers == {b \in Span(from, back) : log[b].kind = "header"}
      at == CHOOSE b \in headers : \A c \in headers : c <= b
  IN  /\ first \in {last, last + 1}
      /\ first = last \/ head > 0
      /\ \A b \in Span(from, back) : log[b].cycle = first
      /\ \A b \in Span(head, ahead) : log[b].cycle = last
      /\ headers # {}
      /\ (at + 2) % XfsLog = head
      /\ log[(at + 1) % XfsLog].kind = "unmount"

\* superblock: the log inside, and the file system inside its partition.
XfsSuper(d) == ~d.external /\ d.blocks <= Size

\* allocation_group: the AGF's count, and how much and how many records the
\* tree by size lists, agree with the tree by block number.
Records(free) == Cardinality({b \in free : b - 1 \notin free})
GroupAgrees(ag) ==
  /\ Cardinality(ag.byBlock) = ag.freeblks
  /\ Cardinality(ag.bySize) = Cardinality(ag.byBlock)
  /\ Records(ag.bySize) = Records(ag.byBlock)
GroupKept(d, a) == GroupCells(a) \ d.ag[a].byBlock

XfsRead(d, mode) ==
  Result(/\ XfsSuper(d)
         /\ mode = Copy => LogClean(d.log)
         /\ mode = Copy => \A a \in Groups : GroupAgrees(d.ag[a]),
         UNION {GroupKept(d, a) : a \in Groups}, XfsBlocks)
-----------------------------------------------------------------------------
LogBlock(cycle, kind) == [cycle |-> cycle, kind |-> kind, files |-> {}]
FreeGroup(a, files) ==
  LET free == (GroupCells(a) \ {a * XfsAgBlocks, a * XfsAgBlocks + 1}) \ (files \cup {2, 3})
  IN  [byBlock |-> free, bySize |-> free, freeblks |-> Cardinality(free)]

\* A file system whose log's unmount record is at any place of the ring.
XfsFresh ==
  LET ring(head) ==
        [b \in LogBlocks |-> IF b = (head + XfsLog - 2) % XfsLog THEN LogBlock(2, "header")
                             ELSE IF b = (head + XfsLog - 1) % XfsLog THEN LogBlock(2, "unmount")
                             ELSE LogBlock(IF b < head \/ head = 0 THEN 2 ELSE 1, "data")]
      make(head, external, blocks) ==
        [log |-> ring(head), head |-> head, ag |-> [a \in Groups |-> FreeGroup(a, {})], files |-> {},
         external |-> external, blocks |-> blocks]
  IN  {make(h, FALSE, XfsBlocks) : h \in {x \in LogBlocks : x % 2 = 0}}
      \cup {make(2, TRUE, XfsBlocks), make(2, FALSE, Size + 1)}

Record(m, kind, files) ==
  LET cycle == m.log[(m.head + XfsLog - 1) % XfsLog].cycle + IF m.head = 0 THEN 1 ELSE 0
  IN  [m EXCEPT !.log[m.head] = LogBlock(cycle, "header"),
                !.log[m.head + 1] = [cycle |-> cycle, kind |-> kind, files |-> files],
                !.head = (@ + 2) % XfsLog]

XfsMounted(d) == d
XfsUnmounted(m) == Record(m, "unmount", {})

\* A change logs the files of its groups; its metadata stays in memory.
XfsChanges(m) ==
  LET to(files) == [Record(m, "commit", files) EXCEPT !.files = files, !.ag = [a \in Groups |-> FreeGroup(a, files)]]
  IN  {to(m.files \cup {c}) : c \in UNION {m.ag[a].byBlock : a \in Groups}}
      \cup {to(m.files \ {c}) : c \in m.files}

Unwritten(d, m) == {b \in LogBlocks : d.log[b] # m.log[b]}

\* The blocks of the log land in any order, the metadata after them.
XfsFlushed(d, m) ==
  {[d EXCEPT !.log[b] = m.log[b]] : b \in Unwritten(d, m)}
  \cup (IF Unwritten(d, m) = {}
        THEN WriteBack(d, m, {"files", "head"}) \cup {[d EXCEPT !.ag[a] = m.ag[a]] : a \in Groups} ELSE {})

\* A lost write: the tree by block number still lists what has been taken since.
XfsDamaged(d) == {[d EXCEPT !.ag[a].byBlock = @ \cup {c}] : a \in Groups, c \in d.files}

\* What a mount replays: the commits written after the last unmount record,
\* up to the first block that never arrived.
Written(log, b) == log[b].cycle * XfsLog + b
Replayed(d) ==
  LET unmounts == {b \in LogBlocks : d.log[b].kind = "unmount"}
      last == CHOOSE u \in unmounts : \A v \in unmounts : Written(d.log, v) <= Written(d.log, u)
      follows(b) == {x \in LogBlocks : Written(d.log, last) < Written(d.log, x) /\ Written(d.log, x) <= Written(d.log, b)}
  IN  UNION {d.log[b].files : b \in {x \in LogBlocks :
        /\ d.log[x].kind = "commit"
        /\ Cardinality(follows(x)) = Written(d.log, x) - Written(d.log, last)}}
XfsNeed(d) ==
  IF d.blocks > Size \/ d.external THEN Cells
  ELSE {2, 3} \cup d.files \cup XfsBlocks..(Size - 1) \cup Replayed(d)
       \cup UNION {{a * XfsAgBlocks, a * XfsAgBlocks + 1} : a \in Groups}
=============================================================================
