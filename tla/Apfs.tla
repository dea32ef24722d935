--------------------------------- MODULE Apfs --------------------------------
(***************************************************************************)
(* APFS (src/smart/apfs.rs).  Checkpoints go round a ring; the newest      *)
(* whole one has a space manager, which lists for each chunk a bitmap and  *)
(* a free count, and the queues of what is freed but may still be needed.  *)
(* Block 0 is brought up to date when the container is unmounted.          *)
(***************************************************************************)
EXTENDS Volume

CONSTANTS ApfsBlocks,  \* blocks of the container
          ApfsChunk,   \* blocks of a chunk
          ApfsRing     \* checkpoints the descriptor area has room for

ASSUME ApfsAssumption ==
  ApfsBlocks \in Nat /\ ApfsBlocks > 7 /\ ApfsChunk \in Nat \ {0} /\ ApfsRing \in Nat \ {0, 1}

ApfsChunks == 0..((ApfsBlocks - 1) \div ApfsChunk)
ChunkBlocks(k) == {b \in Span(k * ApfsChunk, ApfsChunk) : b < ApfsBlocks}
ApfsFixed == 0..3            \* block 0, both checkpoint areas, the internal pool
NoBitmap == 0

\* checkpoint: the whole one with the highest transaction ID.
WholePoints(d) == {i \in 1..ApfsRing : d.ring[i].whole /\ d.ring[i].xid > 0}
Latest(d) == d.ring[CHOOSE i \in WholePoints(d) : \A j \in WholePoints(d) : d.ring[j].xid <= d.ring[i].xid]
OneLatest(d) == \A i, j \in WholePoints(d) : d.ring[i].xid = d.ring[j].xid => i = j

\* spaceman: a chunk without a bitmap is free; a bitmap agrees with its count.
ChunkSet(d, s, k) == IF s.chunk[k].bitmap = NoBitmap THEN {} ELSE d.pool[s.chunk[k].bitmap] \cap ChunkBlocks(k)
ChunkSound(d, s, k, mode) ==
  /\ s.chunk[k].bitmap = NoBitmap => s.chunk[k].free = Cardinality(ChunkBlocks(k))
  /\ mode = Copy => Cardinality(ChunkBlocks(k) \ ChunkSet(d, s, k)) = s.chunk[k].free
FreeTotal(s) ==
  LET sum[k \in 0..Cardinality(ApfsChunks)] == IF k = 0 THEN 0 ELSE sum[k - 1] + s.chunk[k - 1].free
  IN  sum[Cardinality(ApfsChunks)]

SpacemanSound(d, s, mode) ==
  /\ \A k \in ApfsChunks : ChunkSound(d, s, k, mode)
  /\ mode = Copy => FreeTotal(s) = s.free /\ Cardinality(s.queue) = s.queued
SpacemanKept(d, s) == s.queue \cup UNION {ChunkSet(d, s, k) : k \in ApfsChunks}

\* Blocks the container's superblock names besides: those of the EFI driver and its record,
\* and the key lockers.
Besides(x) == x.driver \cup x.lockers

\* object_map: the volumes' superblocks are found through it.  Its blocks, `map`, are those
\* of its tree and of the snapshots'.
ObjectMap(s) == s.volumes \subseteq s.map

ApfsRead(d, mode) ==
  IF WholePoints(d) = {} \/ ~OneLatest(d) THEN Bad
  ELSE LET s == Latest(d)
       IN  Result(/\ d.blocks <= Size /\ ~d.fusion /\ ~d.resizing
                  /\ mode = Copy => d.zero = s.xid
                  /\ SpacemanSound(d, s, mode) /\ ObjectMap(s)
                  /\ d.besides.sound /\ Besides(d.besides) \subseteq 0..(ApfsBlocks - 1),
                  ApfsFixed \cup s.map \cup SpacemanKept(d, s) \cup Besides(d.besides),
                  ApfsBlocks)
-----------------------------------------------------------------------------
(***************************************************************************)
(* A container with an object map in 4 and a volume superblock in 5, and   *)
(* no bitmap yet for the chunks past the first.  Checkpoint n has its      *)
(* bitmaps in the pool's blocks for n modulo the ring, one per chunk.      *)
(* `held` is what its trees refer to, which the code does not read.        *)
(***************************************************************************)
PoolBlock(xid, k) == 1 + (xid % ApfsRing) * Cardinality(ApfsChunks) + k
ApfsPoint(xid, held, queue) ==
  LET taken(k) == ChunkBlocks(k) \cap held
  IN  [xid |-> xid, whole |-> TRUE, queue |-> queue, queued |-> Cardinality(queue), map |-> {4, 5}, volumes |-> {5},
       held |-> held, free |-> Cardinality((0..(ApfsBlocks - 1)) \ held),
       chunk |-> [k \in ApfsChunks |-> [bitmap |-> IF taken(k) = {} THEN NoBitmap ELSE PoolBlock(xid, k),
                                        free |-> Cardinality(ChunkBlocks(k) \ held)]]]
NoPoint == [ApfsPoint(0, {}, {}) EXCEPT !.whole = FALSE]
ApfsSystem == ApfsFixed \cup {4, 5}

ApfsPut(d, xid, files, queue) ==
  LET held == ApfsSystem \cup files
      slot == 1 + (xid % ApfsRing)
  IN  [d EXCEPT !.ring[slot] = ApfsPoint(xid, held, queue),
                !.pool = [b \in DOMAIN d.pool |->
                            IF \E k \in ApfsChunks : b = PoolBlock(xid, k)
                            THEN held \cap ChunkBlocks(CHOOSE k \in ApfsChunks : b = PoolBlock(xid, k))
                            ELSE d.pool[b]],
                !.now = [xid |-> xid, files |-> files]]
\* Containers with neither driver nor lockers, with both, and with a driver whose record is bad.
ApfsBesides == {[sound |-> TRUE, driver |-> {}, lockers |-> {}], [sound |-> TRUE, driver |-> {6}, lockers |-> {7}],
                [sound |-> FALSE, driver |-> {6}, lockers |-> {}]}
ApfsFresh ==
  LET blank(blocks, fusion, resizing, besides) ==
        [ring |-> [i \in 1..ApfsRing |-> NoPoint], pool |-> [b \in 1..(ApfsRing * Cardinality(ApfsChunks)) |-> {}],
         zero |-> 1, now |-> [xid |-> 1, files |-> {}], blocks |-> blocks, fusion |-> fusion, resizing |-> resizing,
         besides |-> besides]
  IN  {ApfsPut(blank(b, f, r, x), 1, Besides(x), {}) :
         b \in {ApfsBlocks, Size + 1}, f \in BOOLEAN, r \in BOOLEAN, x \in ApfsBesides}

ApfsMounted(d) == d
ApfsUnmounted(m) == [m EXCEPT !.zero = m.now.xid]

\* A checkpoint with a block taken or given back; what the last one gave back
\* stays in the queue until the next.
ApfsChanges(m) ==
  LET queue == Latest(m).queue
      free == (0..(ApfsBlocks - 1)) \ (ApfsSystem \cup m.now.files \cup queue)
  IN  {ApfsPut(m, m.now.xid + 1, m.now.files \cup {c}, {}) : c \in free}
      \cup {ApfsPut(m, m.now.xid + 1, m.now.files \ {c}, {c}) : c \in m.now.files \ Besides(m.besides)}

\* The bitmaps, then the checkpoint (which may be torn), then block 0.
ApfsFlushed(d, m) ==
  WriteBack(d, m, {"pool"})
  \cup {[d EXCEPT !.ring[w[1]] = w[2]] : w \in
          {x \in (1..ApfsRing) \X {[m.ring[k] EXCEPT !.whole = b] : k \in 1..ApfsRing, b \in BOOLEAN} :
             d.pool = m.pool /\ d.ring[x[1]] # m.ring[x[1]] /\ x[2].xid = m.ring[x[1]].xid}}
  \cup (IF d.ring = m.ring THEN WriteBack(d, m, {"zero", "now"}) ELSE {})

\* A bitmap that reads as zeros: bitmaps have no checksum.
ApfsDamaged(d) == {[d EXCEPT !.pool[b] = {}] : b \in {x \in DOMAIN d.pool : d.pool[x] # {}}}

\* What the newest checkpoint holds, and what its queue may still be asked for.
ApfsNeed(d) ==
  LET points == {p \in {d.ring[i] : i \in 1..ApfsRing} : p.whole}
      newest == {p \in points : \A q \in points : q.xid <= p.xid}
  IN  IF d.blocks > Size \/ d.fusion \/ d.resizing THEN Cells
      ELSE ApfsBlocks..(Size - 1) \cup Besides(d.besides) \cup UNION {p.held \cup p.queue : p \in newest}
=============================================================================
