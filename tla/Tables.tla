------------------------------- MODULE Tables -------------------------------
(***************************************************************************)
(* Where the partitions of a drive are (src/smart/partitions.rs), and what *)
(* a smart image keeps of it (run in src/smart/mod.rs), while partitioning *)
(* tools make, change and half write its tables.                           *)
(*                                                                         *)
(* A drive is a block per cell, a sector of 512 bytes; one with sectors of *)
(* 4096 bytes has Large cells to a sector, which its tables count and the  *)
(* code has to find out.  The first block, where several tables and a file *)
(* system may coexist, is a record of its own.                             *)
(***************************************************************************)
EXTENDS Integers, FiniteSetsExt, Sequences, TLC

CONSTANTS DriveSize,   \* cells of the drive
          Edge,        \* cells at each end that are kept whatever they hold (1 MiB)
          Large,       \* cells of a sector of 4096 bytes
          MaxLogical,  \* logical partitions followed, at most
          BsdListed,   \* partitions of a disklabel that Linux lists, at most
          BsdBoot,     \* cells of boot code and label at the start of a BSD slice
          ZfsRing      \* the cell of a slice where ZFS on it has its uberblocks

ASSUME TablesAssumption ==
  /\ DriveSize \in Nat \ {0} /\ Large \in Nat \ {0, 1}
  /\ {Edge, MaxLogical, BsdListed, BsdBoot, ZfsRing} \subseteq Nat

Drive == 0..(DriveSize - 1)
Run(start, len) == start..(start + len - 1)
Slot(start, len) == [start |-> start, len |-> len]
CellsIn(s) == Run(s.start, s.len)

Entry(kind, start, count) == [kind |-> kind, start |-> start, count |-> count]
Unused == Entry("none", 0, 0)
Used(e) == {i \in DOMAIN e : e[i].count > 0}
Extended(x) == x.kind = "extended"

\* Entry::bytes: clamped to the drive, nothing past its end.
Bytes(first, count, ss) ==
  IF first * ss >= DriveSize THEN {}
  ELSE {Slot(first * ss, Min({(first + count) * ss, DriveSize}) - first * ss)}

\* Scheme: the slots to look into, the cells fixed, and whether nothing can be trusted.
Scheme(table, slots, fixed, whole) == [table |-> table, slots |-> slots, fixed |-> fixed \cap Drive, whole |-> whole]
Floppy(whole) == Scheme("none", {Slot(0, DriveSize)}, {}, whole)

\* probe::detect on what starts at cell c.
NoFs == [kind |-> "none", len |-> 0, held |-> {}]
FsAt(d, c) == IF c = 0 THEN d.first.fs ELSE IF d.at[c].type = "fs" THEN d.at[c].fs ELSE NoFs
-----------------------------------------------------------------------------
\* BSD disklabels.

Flavours == {"freebsd", "openbsd", "netbsd"}
LabelAt(d, c) == c \in Drive /\ d.at[c].type = "label"

\* bsd_label: offsets count from the slice for FreeBSD when its raw partition, the
\* third, starts at 0 (as it reads where the label counts fewer); else from the drive.
BsdBase(x, l) == IF x.kind = "freebsd" /\ (Len(l.parts) < 3 \/ l.parts[3].at = 0) THEN x.start ELSE 0

\* What each of its partitions is to the slice: inside it, of no matter (empty,
\* the slice itself, clear of it or around it), or across its edge.
BsdPlace(x, l, i) ==
  LET start == BsdBase(x, l) + l.parts[i].at
      end == start + l.parts[i].len
      slice == x.start + x.count
  IN  IF start = x.start /\ end = slice THEN "raw"
      ELSE IF start = end \/ end <= x.start \/ slice <= start \/ (start <= x.start /\ slice <= end) THEN "clear"
      ELSE IF x.start <= start /\ end <= slice THEN "inside" ELSE "across"

\* zfs: on the slice itself, or so it must be assumed.
Zfs(d, x, ss) ==
  LET ring == x.start * ss + ZfsRing
  IN  ring < Min({(x.start + x.count) * ss, DriveSize}) /\ d.at[ring].type \in {"zfs", "bad"}

\* A label to trust; a file system on the slice itself is not.
BsdTrusted(d, x, ss) ==
  LET l == d.at[(x.start + 1) * ss]
  IN  /\ x.kind \in Flavours /\ LabelAt(d, (x.start + 1) * ss)
      /\ l.sound /\ l.ss = ss /\ l.parts # <<>>
      /\ \A i \in DOMAIN l.parts : BsdPlace(x, l, i) # "across"
      /\ FsAt(d, x.start * ss).kind \in {"none", "ufs"} /\ ~Zfs(d, x, ss)

\* BsdLabel::add: the partitions Linux lists, and those inside it doesn't.
BsdParts(d, x, ss) ==
  LET l == d.at[(x.start + 1) * ss]
      inside == {i \in DOMAIN l.parts : BsdPlace(x, l, i) = "inside"}
      listed == {i \in inside : i <= BsdListed /\ l.parts[i].type # "unused"}
      at(i) == Bytes(BsdBase(x, l) + l.parts[i].at, l.parts[i].len, ss)
  IN  [slots |-> UNION {at(i) : i \in listed},
       fixed |-> Run(x.start * ss, Min({BsdBoot, x.count * ss})) \cup UNION {UNION {CellsIn(s) : s \in at(i)} : i \in inside \ listed}]
-----------------------------------------------------------------------------
\* MBR.

\* evidence: the entries that point at a file system, a label or, for an extended
\* partition, a boot sector's signature, which an EBR has too.
BootSigned(d, c) == d.at[c].type = "ebr" \/ FsAt(d, c).kind = "fs"
Evidence(d, e, ss) ==
  Cardinality({i \in Used(e) :
    \E s \in Bytes(e[i].start, e[i].count, ss) :
      IF Extended(e[i]) THEN BootSigned(d, s.start)
      ELSE FsAt(d, s.start).kind # "none" \/ (e[i].kind \in Flavours /\ LabelAt(d, s.start + ss))})

\* sector_size: and whether it is unsure.
SectorSize(d, e) ==
  LET small == Evidence(d, e, 1)
      fits == \A i \in Used(e) : e[i].start * Large < DriveSize
  IN  IF Evidence(d, e, Large) > small THEN [ss |-> Large, unsure |-> FALSE]
      ELSE [ss |-> 1, unsure |-> small = 0 /\ fits]

\* logical: one EBR of the chain.  `this` is where it is, `room` the sectors
\* that the link to it gave.
\* (Faulty: the next link counts from the EBR it is in.)
FaultyLink(ext, link, this) == this + link.start
Link(ext, link, this) == ext.start + link.start
Followed(d, ext, ss, c) ==
  LET pos == c.this * ss
      e == d.at[pos].entry
      fits(i) == /\ e[i].start + e[i].count <= c.room
                 /\ c.this + e[i].start + e[i].count <= ext.start + ext.count
      data == {i \in Used(e) : ~Extended(e[i]) /\ (i <= 2 \/ fits(i))}
      links == {i \in Used(e) : Extended(e[i])}
      found == [c EXCEPT !.fixed = @ \cup Run(pos, ss), !.seen = @ \cup {c.this},
                         !.slots = @ \cup UNION {Bytes(c.this + e[i].start, e[i].count, ss) : i \in data}]
  IN  IF c.this \in c.seen \/ pos >= DriveSize THEN [c EXCEPT !.more = FALSE]
      ELSE IF d.at[pos].type = "bad"
      THEN [c EXCEPT !.fixed = @ \cup pos..((ext.start + ext.count) * ss - 1), !.more = FALSE]
      ELSE IF d.at[pos].type # "ebr" THEN [c EXCEPT !.fixed = @ \cup Run(pos, ss), !.more = FALSE]
      ELSE IF links = {} THEN [found EXCEPT !.more = FALSE]
      ELSE [found EXCEPT !.this = Link(ext, e[Min(links)], c.this), !.room = e[Min(links)].count]
Logical(d, ext, ss) ==
  LET chain[n \in 0..MaxLogical] ==
        IF n = 0 THEN [this |-> ext.start, room |-> ext.count, seen |-> {}, fixed |-> {}, slots |-> {}, more |-> TRUE]
        ELSE IF chain[n - 1].more THEN Followed(d, ext, ss, chain[n - 1]) ELSE chain[n - 1]
  IN  chain[MaxLogical]

\* mbr_table: what comes of an entry, and of them all; when unsure, what they
\* would cover in large sectors is kept too.
EntryParts(d, x, ss) ==
  IF Bytes(x.start, x.count, ss) = {} THEN [slots |-> {}, fixed |-> {}]
  ELSE IF Extended(x) THEN Logical(d, x, ss)
  ELSE IF BsdTrusted(d, x, ss) THEN BsdParts(d, x, ss)
  ELSE [slots |-> Bytes(x.start, x.count, ss), fixed |-> {}]
MbrTable(d) ==
  LET e == d.first.entry
      size == SectorSize(d, e)
      parts == {EntryParts(d, e[i], size.ss) : i \in Used(e)}
      larger == UNION {Bytes(e[i].start, e[i].count, Large) : i \in Used(e)}
  IN  Scheme("mbr", UNION {p.slots : p \in parts},
             UNION {p.fixed : p \in parts} \cup (IF size.unsure THEN UNION {CellsIn(s) : s \in larger} ELSE {}), FALSE)
-----------------------------------------------------------------------------
\* GPT.

\* gpt_at: a header that is where it says, and entries that it vouches for.
GptAt(d, ss, lba) ==
  LET h == d.at[lba * ss]
  IN  /\ lba * ss \in Drive /\ h.type = "header"
      /\ h.lba = lba /\ h.last < DriveSize \div ss
      /\ h.array * ss \in Drive /\ d.at[h.array * ss].type = "array" /\ d.at[h.array * ss].parts = h.sum

\* gpt: the primary header at LBA 1, else the backup at the last; in small
\* sectors, else in large ones.
GptPlaces == <<[ss |-> 1, lba |-> 1], [ss |-> Large, lba |-> 1],
               [ss |-> 1, lba |-> DriveSize - 1], [ss |-> Large, lba |-> DriveSize \div Large - 1]>>
GptFound(d) == {i \in DOMAIN GptPlaces : GptAt(d, GptPlaces[i].ss, GptPlaces[i].lba)}

\* The other copy, where it belongs if it can't be read; the array takes a sector.
\* (Faulty: at the drive's end, where the edge is kept anyway.)
FaultyOtherCopy(d, g, h) == {}
OtherCopy(d, g, h) ==
  IF h.alt * g.ss \notin Drive THEN {}
  ELSE Run(h.alt * g.ss, g.ss)
       \cup Run(IF GptAt(d, g.ss, h.alt) THEN d.at[h.alt * g.ss].array * g.ss
                ELSE IF g.lba = 1 THEN (h.alt - 1) * g.ss ELSE 2 * g.ss, g.ss)

\* A hybrid MBR may describe space no partition of the GPT covers.
\* (Faulty: whatever the kind of its entries.)
FaultyHybridKept(e, ss, slots) == UNION {UNION {CellsIn(s) : s \in Bytes(e[i].start, e[i].count, ss)} : i \in Used(e)}
HybridKept(e, ss, slots) ==
  UNION {CellsIn(s) : s \in {r \in UNION {Bytes(e[i].start, e[i].count, ss)
                                           : i \in {j \in Used(e) : e[j].kind # "efi" /\ ~Extended(e[j])}} :
                               \A slot \in slots : ~(CellsIn(r) \subseteq CellsIn(slot))}}
Gpt(d) ==
  LET g == GptPlaces[Min(GptFound(d))]
      h == d.at[g.lba * g.ss]
      slots == UNION {Bytes(p.first, p.last + 1 - p.first, g.ss) : p \in {q \in h.sum : q.first <= q.last}}
  IN  Scheme("gpt", slots,
             Run(g.lba * g.ss, g.ss) \cup Run(h.array * g.ss, g.ss) \cup OtherCopy(d, g, h)
             \cup HybridKept(d.first.entry, g.ss, slots), FALSE)
-----------------------------------------------------------------------------
\* Apple partition maps.

\* apple_map: the entries up to the first block that isn't one.
HasAppleMap(d) == d.first.driver.bs > 0 /\ d.at[d.first.driver.bs].type = "pm" /\ d.at[d.first.driver.bs].count > 0
AppleEntries(d) ==
  LET bs == d.first.driver.bs
      pm(k) == k * bs \in Drive /\ d.at[k * bs].type = "pm"
  IN  {d.at[k * bs] : k \in {j \in 1..d.at[bs].count : \A i \in 1..j : pm(i)}}
AppleCells(d, p) == UNION {CellsIn(s) : s \in Bytes(p.first, p.blocks, d.first.driver.bs)}
AppleFixed(d) ==
  LET bs == d.first.driver.bs
  IN  Run(0, (Cardinality(AppleEntries(d)) + 1) * bs) \cup UNION {Run(b * bs, bs) : b \in d.first.driver.blocks}

\* AppleMap::scheme, when it is the only table; AppleMap::keep, next to another.
AppleScheme(d) ==
  Scheme("apm", UNION {Bytes(p.first, p.blocks, d.first.driver.bs) : p \in {q \in AppleEntries(d) : q.kind = "data"}},
         AppleFixed(d) \cup UNION {AppleCells(d, p) : p \in {q \in AppleEntries(d) : q.kind = "kept"}}, FALSE)
AppleKeep(d, scheme) ==
  IF HasAppleMap(d)
  THEN [scheme EXCEPT !.fixed = @ \cup AppleFixed(d) \cup UNION {AppleCells(d, p) : p \in {q \in AppleEntries(d) : q.kind # "free"}}]
  ELSE scheme
-----------------------------------------------------------------------------
\* scan: a GPT, or else an MBR, or else an Apple map, or else no table.
Protected(d) == d.first.signed /\ \E i \in DOMAIN d.first.entry : d.first.entry[i].kind = "efi"
Partitioned(d) == d.first.signed /\ d.first.flags /\ \E i \in Used(d.first.entry) : d.first.entry[i].start < DriveSize
Scan(d) ==
  CASE Protected(d) /\ GptFound(d) # {} -> AppleKeep(d, Gpt(d))
    [] ~(Protected(d) /\ GptFound(d) # {}) /\ Partitioned(d) ->
         IF d.first.boot THEN Floppy(TRUE) ELSE AppleKeep(d, MbrTable(d))
    [] ~(Protected(d) /\ GptFound(d) # {}) /\ ~Partitioned(d) ->
         IF HasAppleMap(d) THEN AppleScheme(d)
         ELSE IF ~d.first.boot /\ d.first.signed /\ d.first.flags /\ d.first.fs.kind = "none" THEN Scheme("mbr", {}, {}, FALSE)
         ELSE Floppy(FALSE)

\* md_at_end: where an md RAID superblock of a device would be; fake_raid.
MdAt(d, start, len) == {c \in {start + (len - (len % 2)) - 2} : len >= 4 /\ d.at[c].type = "md"}
FakeRaid(d) == \E c \in {DriveSize - 2, DriveSize - 1} : d.at[c].type = "fake"

\* read: what else the drive may be a part of, and an ISO image across its partitions.
ReadTables(d) ==
  LET scheme == Scan(d)
      array == \E c \in MdAt(d, 0, DriveSize) : \A s \in scheme.slots : c \notin CellsIn(s)
      iso == IF scheme.table = "none" THEN 0 ELSE d.first.iso
  IN  [scheme EXCEPT !.whole = @ \/ FakeRaid(d) \/ array \/ iso = -1,
                     !.fixed = @ \cup Run(0, Min({Max({iso, 0}), DriveSize}))]

\* partition: what its file system holds and what lies after it, or all of it.
SlotKept(d, s) ==
  LET fs == FsAt(d, s.start)
  IN  IF fs.kind = "fs" /\ fs.len <= s.len /\ MdAt(d, s.start, s.len) = {}
      THEN {s.start + x : x \in fs.held} \cup Run(s.start + fs.len, s.len - fs.len)
      ELSE CellsIn(s)

\* run: the extents of the layout.
Kept(d) ==
  LET scheme == ReadTables(d)
  IN  IF scheme.whole THEN Drive
      ELSE Run(0, Edge) \cup Run(DriveSize - Edge, Edge) \cup scheme.fixed \cup UNION {SlotKept(d, s) : s \in scheme.slots}
=============================================================================
