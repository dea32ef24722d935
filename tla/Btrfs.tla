-------------------------------- MODULE Btrfs --------------------------------
(***************************************************************************)
(* btrfs on one device (src/smart/btrfs.rs): the chunk tree maps logical   *)
(* addresses onto the device, the extent tree says which hold something.   *)
(* Trees are never written in place: a commit writes a new one, then the   *)
(* superblock that points to it, then the superblock's copy.               *)
(***************************************************************************)
EXTENDS Volume, FiniteSetsExt

CONSTANTS BtrfsSize,   \* cells of the device; the first holds the first superblock
          BtrfsMirror  \* the cell of the superblock's copy

ASSUME BtrfsAssumption == BtrfsSize \in Nat \ {0} /\ BtrfsMirror \in 0..(BtrfsSize - 1)

\* chunk: how long the stripes of a profile are, rounded up.
StripeLen(profile, n, len) ==
  LET up(parts) == (len + parts - 1) \div parts
  IN  CASE profile \in {"single", "dup", "raid1"} -> len
        [] profile = "raid0" -> up(n)
        [] profile = "raid10" -> up(n \div 2)
        [] profile = "raid5" -> up(n - 1)
        [] profile = "raid6" -> up(n - 2)
Chunk(logical, len, types, profile, stripes) ==
  [logical |-> logical, len |-> len, types |-> types, stripes |-> stripes,
   stripeLen |-> StripeLen(profile, Cardinality(stripes), len)]
Linear(c) == c.stripeLen = c.len
HoldsData(c) == c.types = {"data"}
Logical(c) == Span(c.logical, c.len)
Stripe(s, c) == Span(s, c.stripeLen)

\* superblock, and what Copy asks of it: no log tree to replay.
BtrfsSuper(d, mode) ==
  /\ d.devices = 1 /\ ~d.unknown /\ BtrfsSize <= d.room
  /\ mode = Copy => ~d.sb.error /\ d.sb.log = {}

\* (Faulty: its copy is as recent as the first whenever it is read, in use or not.)
FaultyMirrors(d, mode) == d.mirror.whole /\ d.mirror.generation = d.sb.generation

\* mirrors: the superblock's copy is whole, and as recent as the first.
Mirrors(d, mode) == d.mirror.whole /\ (mode = Copy => d.mirror.generation = d.sb.generation)

\* system_chunks: those the superblock lists are among the chunk tree's.
SystemChunks(d) == d.system # {} /\ d.system \subseteq d.chunks

\* check_overlaps, and chunk: neither in logical addresses nor on the device.
ChunksSound(d) ==
  /\ \A c \in d.chunks : \A s \in c.stripes : Stripe(s, c) \subseteq 0..(BtrfsSize - 1)
  /\ \A c, e \in d.chunks : c # e => Logical(c) \cap Logical(e) = {}
  /\ \A c, e \in d.chunks : \A s \in c.stripes, t \in e.stripes : <<c, s>> # <<e, t>> => Stripe(s, c) \cap Stripe(t, e) = {}

\* walk and node: a tree block is whole and of the generation its parent names.
TreeBlock(d, slot) == d.tree[slot].whole /\ d.tree[slot].generation = d.sb.generation

\* The extents of a chunk, and what the block groups say they use.
ExtentsIn(d, c) == d.tree[d.sb.root].extents \cap Logical(c)
GroupsAgree(d) ==
  LET used == d.tree[d.sb.root].used
  IN  /\ MapThenSumSet(LAMBDA c : used[c.logical], d.chunks) = d.sb.used
      /\ \A c \in d.chunks : HoldsData(c) => Cardinality(ExtentsIn(d, c)) = used[c.logical]

\* A linear data chunk keeps its extents on every stripe, any other chunk all of them.
KeptOf(d, c) ==
  UNION {IF HoldsData(c) /\ Linear(c) THEN {s + x - c.logical : x \in ExtentsIn(d, c)} ELSE Stripe(s, c) : s \in c.stripes}

BtrfsRead(d, mode) ==
  Result(/\ BtrfsSuper(d, mode) /\ Mirrors(d, mode)
         /\ SystemChunks(d) /\ ChunksSound(d)
         /\ TreeBlock(d, d.sb.root)
         /\ mode = Copy => GroupsAgree(d),
         {0, BtrfsMirror} \cup UNION {KeptOf(d, c) : c \in d.chunks}, BtrfsSize)
-----------------------------------------------------------------------------
(***************************************************************************)
(* Twelve logical blocks: a system chunk, a metadata chunk, a data chunk   *)
(* of four in one profile or another, or mixed with metadata.              *)
(***************************************************************************)
BtrfsSystem == Chunk(0, 1, {"system"}, "dup", {1, 2})
BtrfsMetadata == Chunk(1, 2, {"metadata"}, "single", {3})
BtrfsData == {Chunk(4, 4, {"data"}, "single", {6}), Chunk(4, 4, {"data"}, "raid1", {6, 12}),
              Chunk(4, 3, {"data"}, "raid0", {6, 12}), Chunk(4, 4, {"data"}, "raid5", {6, 9, 12}),
              Chunk(4, 4, {"data", "metadata"}, "single", {6})}
BtrfsTree(generation, extents) ==
  [whole |-> TRUE, generation |-> generation, extents |-> extents,
   used |-> (0 :> 1) @@ (1 :> 2) @@ (4 :> Cardinality(extents))]

BtrfsFresh ==
  LET make(chunks, devices, unknown) ==
        [sb |-> [generation |-> 1, root |-> 1, log |-> {}, error |-> FALSE, used |-> 3],
         mirror |-> [whole |-> TRUE, generation |-> 1],
         tree |-> <<BtrfsTree(1, {}), BtrfsTree(0, {})>>, chunks |-> chunks, system |-> {BtrfsSystem},
         devices |-> devices, unknown |-> unknown, room |-> Size]
      with(c) == {BtrfsSystem, BtrfsMetadata, c}
      single == Chunk(4, 4, {"data"}, "single", {6})
      crossing == Chunk(4, 4, {"data"}, "single", {4})
  IN  {make(with(c), 1, FALSE) : c \in BtrfsData}
      \cup {make(with(single), 2, FALSE), make(with(single), 1, TRUE), make(with(crossing), 1, FALSE),
            make({BtrfsMetadata, single}, 1, FALSE)}

BtrfsMounted(d) == d

\* A commit: a new tree in the other slot and the superblocks; an fsync: a log
\* tree the first superblock points to.
BtrfsCommit(m, extents) ==
  LET slot == 3 - m.sb.root
      g == m.sb.generation + 1
  IN  [m EXCEPT !.tree[slot] = BtrfsTree(g, extents), !.mirror.generation = g,
                !.sb = [generation |-> g, root |-> slot, log |-> {}, error |-> FALSE, used |-> 3 + Cardinality(extents)]]
BtrfsChanges(m) ==
  LET extents == m.tree[m.sb.root].extents
      room == UNION {Logical(c) : c \in {x \in m.chunks : "data" \in x.types}}
  IN  {BtrfsCommit(m, extents \cup m.sb.log \cup {x}) : x \in room \ extents}
      \cup {BtrfsCommit(m, extents \ {x}) : x \in extents}
      \cup {[m EXCEPT !.sb.log = {x}] : x \in IF m.sb.log = {} THEN room \ extents ELSE {}}
\* What is only in the log tree is committed last.
BtrfsUnmounted(m) == IF m.sb.log = {} THEN m ELSE BtrfsCommit(m, m.tree[m.sb.root].extents \cup m.sb.log)
BtrfsFlushed(d, m) ==
  WriteBack(d, m, {"tree"})
  \cup (IF d.tree = m.tree THEN WriteBack(d, m, {"sb"}) ELSE {})
  \cup (IF d.sb = m.sb THEN WriteBack(d, m, {"mirror"}) ELSE {})

\* A block of the tree that was torn, or whose last write never arrived; a
\* torn copy of the superblock.
BtrfsDamaged(d) ==
  {[d EXCEPT !.mirror.whole = FALSE], [d EXCEPT !.tree[d.sb.root].whole = FALSE], [d EXCEPT !.tree[d.sb.root] = [d.tree[3 - d.sb.root] EXCEPT !.whole = TRUE]]}

\* Where the log tree has extents that the others do not have yet.
BtrfsLogged(d) ==
  UNION {UNION {{s + x - c.logical : x \in d.sb.log \cap Logical(c)} : s \in c.stripes} :
           c \in {k \in d.chunks : HoldsData(k) /\ Linear(k)}}

\* Everything the trees on disk and the log tree refer to, on every copy.
BtrfsNeed(d) ==
  LET held == IF d.tree[d.sb.root].generation = d.sb.generation THEN d.tree[d.sb.root].extents \cup d.sb.log ELSE 4..7
      place(c, s) == IF Linear(c) THEN {s + x - c.logical : x \in held \cap Logical(c)} ELSE Stripe(s, c)
  IN  IF d.devices > 1 \/ d.unknown \/ ~SystemChunks(d) \/ ~ChunksSound(d) THEN Cells
      ELSE {0, BtrfsMirror} \cup BtrfsSize..(Size - 1)
           \cup UNION {UNION {IF "data" \in c.types THEN place(c, s) ELSE Stripe(s, c) : s \in c.stripes} : c \in d.chunks}
=============================================================================
