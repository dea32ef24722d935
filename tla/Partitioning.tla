---------------------------- MODULE Partitioning ----------------------------
(***************************************************************************)
(* The drives Tables may meet: a partitioning tool makes and removes       *)
(* partitions, writing one sector after the other in any order, is         *)
(* interrupted, or a sector of a table becomes unreadable.  All of it is   *)
(* the environment of src/smart/partitions.rs; what the tool knows (the    *)
(* sector size, which partitions it made) is what the code has to find.    *)
(***************************************************************************)
EXTENDS Tables

CONSTANTS MaxEdits

VARIABLES kind,   \* the drive's partitioning
          ss,     \* cells of its sectors
          disk,   \* what is on it
          mem,    \* what the tool is writing to it
          parts,  \* the names of the partitions the tool is making it have
          made,   \* those that have been there all along
          edits, whole

vars == <<kind, ss, disk, mem, parts, made, edits, whole>>

Data == [type |-> "data"]
Signed(entry) == [signed |-> TRUE, flags |-> TRUE, boot |-> FALSE, entry |-> entry, fs |-> NoFs, iso |-> 0,
                  driver |-> [bs |-> 0, blocks |-> {}]]
Unsigned == [Signed(<<>>) EXCEPT !.signed = FALSE]
Ebr(entry) == [type |-> "ebr", entry |-> entry]
Fs(fs, len, held) == [type |-> "fs", fs |-> [kind |-> fs, len |-> len, held |-> held]]

\* Partitions by name, in sectors: primary ones and logical ones of an MBR, those of
\* a BSD slice, of a GPT and of an Apple map.
Where ==
  [p1 |-> Slot(2, 2), l1 |-> Slot(6, 2), l2 |-> Slot(9, 2), l3 |-> Slot(12, 2), p3 |-> Slot(14, 1),
   b1 |-> Slot(7, 2), b2 |-> Slot(9, 2), g1 |-> Slot(3, 3), g2 |-> Slot(6, 2), a1 |-> Slot(5, 2), a2 |-> Slot(7, 3)]
NamesOf(k) ==
  CASE k = "mbr" -> {"p1", "l1", "l2", "l3", "p3"}
    [] k \in Flavours \cup {"absolute"} -> {"p1", "b1", "b2"}
    [] k \in {"gpt", "grown", "hybrid"} -> {"g1", "g2"}
    [] k \in {"apple", "apple_mbr"} -> {"a1", "a2"}
    [] OTHER -> {}
Region(n) == Slot(Where[n].start * ss, Min({Where[n].len * ss, DriveSize - Where[n].start * ss}))

\* The MBR: two primary partitions, and an extended one whose EBRs are each before
\* their logical partition and link to the next, counting from the first.
Primary(names, n) == IF n \in names THEN Entry("data", Where[n].start, Where[n].len) ELSE Unused
EbrOf(names, n) ==
  LET later == {l \in names \cap {"l2", "l3"} : Where[l].start > Where[n].start}
      next == CHOOSE l \in later : \A k \in later : Where[l].start <= Where[k].start
  IN  Ebr(<<IF n \in names THEN Entry("data", 1, 2) ELSE Unused,
            IF later = {} THEN Unused ELSE Entry("extended", Where[next].start - 6, 3), Entry("data", 1, 99)>>)
MbrImage(names) ==
  [first |-> Signed(<<Primary(names, "p1"), Entry("extended", 5, 9), Primary(names, "p3")>>),
   at |-> [c \in {(Where[l].start - 1) * ss : l \in {"l1"} \cup (names \cap {"l2", "l3"})} |->
             EbrOf(names, CHOOSE l \in {"l1", "l2", "l3"} : (Where[l].start - 1) * ss = c)]]

\* A BSD slice: the third partition is the slice, the fourth the drive, and the
\* last is one of a type Linux does not list.
BsdImage(names, k) ==
  LET from == IF k = "freebsd" THEN 5 ELSE 0
      part(n) == IF n \in names THEN [at |-> Where[n].start - from, len |-> Where[n].len, type |-> "ufs"]
                 ELSE [at |-> 0, len |-> 0, type |-> "unused"]
      extra == IF "b2" \in names THEN [at |-> 0, len |-> 0, type |-> "unused"]
               ELSE [at |-> 9 - from, len |-> 1, type |-> "unused"]
      around == IF k = "freebsd" THEN [at |-> 20, len |-> 1, type |-> "boot"]
                ELSE [at |-> 0, len |-> DriveSize \div ss, type |-> "unused"]
  IN  [first |-> Signed(<<Primary(names, "p1"), Entry(IF k = "absolute" THEN "freebsd" ELSE k, 5, 6)>>),
       at |-> (6 * ss :> [type |-> "label", sound |-> TRUE, ss |-> ss,
                          parts |-> <<part("b1"), part("b2"), [at |-> 5 - from, len |-> 6, type |-> "unused"], around, extra>>])]

\* A GPT, whose end is before the drive's when the drive has grown; a hybrid MBR
\* has entries for the first partition, and for sectors no partition covers.
GptLast(k) == IF k = "grown" THEN 10 ELSE DriveSize \div ss - 1
GptImage(names, k) ==
  LET last == GptLast(k)
      list == {[first |-> Where[n].start, last |-> Where[n].start + Where[n].len - 1] : n \in names}
      header(lba, alt, array) == [type |-> "header", lba |-> lba, alt |-> alt, array |-> array, last |-> last - 2, sum |-> list]
      array == [type |-> "array", parts |-> list]
      entry == IF k = "hybrid" THEN <<Entry("efi", 1, 2), Entry("data", 3, 3), Entry("data", 8, 2)>>
               ELSE <<Entry("efi", 1, last)>>
  IN  [first |-> Signed(entry),
       at |-> (ss :> header(1, last, 2)) @@ (2 * ss :> array)
              @@ ((last - 1) * ss :> array) @@ (last * ss :> header(last, 1, last - 1))]

\* An Apple map of four entries: itself, two partitions or free space, a driver.
AppleImage(names, k) ==
  LET pm(slot, first, blocks, type) == (slot * ss :> [type |-> "pm", count |-> 4, first |-> first, blocks |-> blocks, kind |-> type])
      data(n) == IF n \in names THEN "data" ELSE "free"
  IN  [first |-> [(IF k = "apple" THEN Unsigned ELSE Signed(<<Entry("data", 5, 2)>>)) EXCEPT !.driver = [bs |-> ss, blocks |-> {11}]],
       at |-> pm(1, 1, 4, "kept") @@ pm(2, 5, 2, data("a1")) @@ pm(3, 7, 3, data("a2")) @@ pm(4, 10, 1, "kept")]

Image(k, names) ==
  CASE k = "mbr" -> MbrImage(names)
    [] k \in Flavours \cup {"absolute"} -> BsdImage(names, k)
    [] k \in {"gpt", "grown", "hybrid"} -> GptImage(names, k)
    [] k \in {"apple", "apple_mbr"} -> AppleImage(names, k)

\* Drives without partitions to edit: a file system on all of it, next to a
\* table, or none; an image of a CD, a member of an array; a label that a file
\* system or ZFS on its slice has not overwritten.
BlankDrive == [first |-> Unsigned, at |-> [c \in Drive |-> Data]]
OnDrive == [kind |-> "fs", len |-> DriveSize - 2, held |-> {0, DriveSize \div 2}]
One == Signed(<<Entry("data", 3, 4)>>)
Others ==
  [empty |-> [BlankDrive EXCEPT !.first = Signed(<<>>)],
   blank |-> BlankDrive,
   floppy |-> [BlankDrive EXCEPT !.first = [Signed(<<>>) EXCEPT !.boot = TRUE, !.fs = OnDrive]],
   code |-> [BlankDrive EXCEPT !.first = [One EXCEPT !.flags = FALSE]],
   both |-> [BlankDrive EXCEPT !.first = [One EXCEPT !.boot = TRUE, !.fs = OnDrive], !.at[3] = Fs("fs", 4, {0})],
   iso |-> [BlankDrive EXCEPT !.first = [One EXCEPT !.iso = 14], !.at[3] = Fs("fs", 4, {0})],
   unknown_iso |-> [BlankDrive EXCEPT !.first = [One EXCEPT !.iso = -1], !.at[3] = Fs("fs", 4, {0})],
   raid |-> [BlankDrive EXCEPT !.first = One, !.at[3] = Fs("fs", 4, {0}), !.at[DriveSize - 2] = [type |-> "md"]],
   raid_part |-> [BlankDrive EXCEPT !.first = One, !.at[3] = Fs("fs", 4, {0}), !.at[5] = [type |-> "md"]],
   fake |-> [BlankDrive EXCEPT !.first = One, !.at[3] = Fs("fs", 4, {0}), !.at[DriveSize - 1] = [type |-> "fake"]],
   stale |-> [BlankDrive EXCEPT !.first = Signed(<<Entry("freebsd", 5, 8)>>), !.at[5] = Fs("fs", 8, {0, 7}),
                                !.at[6] = [type |-> "label", sound |-> TRUE, ss |-> 1,
                                           parts |-> <<[at |-> 4, len |-> 2, type |-> "ufs"]>>]],
   zfs |-> [BlankDrive EXCEPT !.first = Signed(<<Entry("freebsd", 5, 8)>>), !.at[5 + ZfsRing] = [type |-> "zfs"],
                              !.at[6] = [type |-> "label", sound |-> TRUE, ss |-> 1,
                                         parts |-> <<[at |-> 2, len |-> 2, type |-> "ufs"]>>]]]

\* What such a drive needs.
OthersNeed ==
  [k \in DOMAIN Others |->
     CASE k = "empty" -> {}
       [] k = "floppy" -> OnDrive.held
       [] k = "iso" -> Run(0, 14)
       [] k = "raid_part" -> Run(3, 4)
       [] k = "stale" -> {5, 12}
       [] k = "zfs" -> Run(5, 8)
       [] OTHER -> Drive]

Overlay(d, image) == [first |-> image.first, at |-> image.at @@ d.at]
-----------------------------------------------------------------------------
Tabled == {"mbr", "freebsd", "absolute", "openbsd", "netbsd", "gpt", "grown", "hybrid", "apple", "apple_mbr"}

\* An MBR drive may still have the copies of a GPT it had before.
StaleGpt(d) == [d EXCEPT !.at = GptImage({"g1"}, "gpt").at @@ @]

Init ==
  /\ kind \in Tabled \cup DOMAIN Others
  /\ ss \in IF kind \in Tabled THEN {1, Large} ELSE {1}
  /\ parts \in SUBSET NamesOf(kind)
  /\ IF kind \in Tabled
     THEN disk \in {Overlay(d, Image(kind, parts)) : d \in {BlankDrive} \cup (IF kind = "mbr" THEN {StaleGpt(BlankDrive)} ELSE {})}
     ELSE disk = Others[kind]
  /\ mem = disk /\ made = parts /\ edits = 0 /\ whole = TRUE

\* The tool makes or removes a partition.
Edit ==
  /\ whole /\ disk = mem /\ edits < MaxEdits
  /\ \E n \in NamesOf(kind) :
       /\ parts' = IF n \in parts THEN parts \ {n} ELSE parts \cup {n}
       /\ mem' = Overlay(disk, Image(kind, parts'))
       /\ made' = made \cap parts'
  /\ edits' = edits + 1
  /\ UNCHANGED <<kind, ss, disk, whole>>

\* A tool is done with one copy of a GPT before it begins with the other, and
\* writes an EBR before the link to it (or everybody loses those after it).
Copies == <<{ss, 2 * ss}, {(GptLast(kind) - 1) * ss, GptLast(kind) * ss}>>
HalfWritten(copy) == \E a, b \in copy : disk.at[a] = mem.at[a] /\ disk.at[b] # mem.at[b]
Linked(ebr) == {(5 + ebr.entry[i].start) * ss : i \in {j \in DOMAIN ebr.entry : Extended(ebr.entry[j])}}
MayWrite(c) ==
  /\ kind \in {"gpt", "grown", "hybrid"} => \A i \in 1..2 : c \in Copies[i] => ~HalfWritten(Copies[3 - i])
  /\ mem.at[c].type = "ebr" => \A next \in Linked(mem.at[c]) : disk.at[next] = mem.at[next]

Flush ==
  /\ \/ disk.first # mem.first /\ disk' = [disk EXCEPT !.first = mem.first]
     \/ \E c \in {x \in Drive : disk.at[x] # mem.at[x] /\ MayWrite(x)} : disk' = [disk EXCEPT !.at[c] = mem.at[c]]
  /\ made' = IF disk' = mem THEN parts ELSE made
  /\ UNCHANGED <<kind, ss, mem, parts, edits, whole>>

\* A file system is made in a partition; it holds its first and its last cell.
Format ==
  /\ whole /\ disk = mem
  /\ \E n \in made :
       LET r == Region(n)
           fs == IF n \in {"b1", "b2"} THEN "ufs" ELSE "fs"
       IN  /\ disk.at[r.start].type # "fs"
           /\ disk' = [disk EXCEPT !.at[r.start] = Fs(fs, r.len, {0, r.len - 1})]
  /\ mem' = disk'
  /\ UNCHANGED <<kind, ss, parts, made, edits, whole>>

\* The tool is interrupted.
Interrupt ==
  /\ whole /\ disk # mem
  /\ mem' = disk /\ whole' = FALSE
  /\ UNCHANGED <<kind, ss, disk, parts, made, edits>>

\* A sector of a table becomes unreadable, or reads as zeros where there is a
\* copy.  (Without the Apple map's, nothing reads it any more.)
Damage ==
  /\ whole /\ disk = mem
  /\ \E c \in {x \in Drive : disk.at[x].type \in {"ebr", "header", "array"}} :
       disk' \in {[disk EXCEPT !.at[c] = [type |-> "bad"]]}
                 \cup (IF disk.at[c].type = "ebr" THEN {} ELSE {[disk EXCEPT !.at[c] = Data]})
  /\ mem' = disk' /\ whole' = FALSE
  /\ UNCHANGED <<kind, ss, parts, made, edits>>

Next == Edit \/ Flush \/ Format \/ Interrupt \/ Damage
Spec == Init /\ [][Next]_vars
-----------------------------------------------------------------------------
\* What the partitions that have been there all along hold.
HeldBy(n) ==
  LET r == Region(n)
      fs == disk.at[r.start]
  IN  IF fs.type = "fs" /\ fs.fs.kind = "fs" /\ fs.fs.len <= r.len THEN {r.start + x : x \in fs.fs.held} ELSE CellsIn(r)
TableCells ==
  {0} \cup UNION {Run(c, ss) : c \in DOMAIN Image(kind, parts).at}
      \cup (IF kind = "apple" THEN Run(0, ss) \cup Run(10 * ss, 2 * ss) ELSE {})
Held == IF kind \in Tabled THEN UNION {HeldBy(n) : n \in made} ELSE OthersNeed[kind]

\* No smart image leaves out a cell that a partition holds, whichever tables the
\* drive has, in whichever sectors they count, and however far the tool came.
PartitionsAreKept == Held \subseteq Kept(disk)

\* No smart image leaves out a part of the tables that describe them.
TablesAreKept == kind \in Tabled /\ disk = mem /\ whole => TableCells \subseteq Kept(disk)

\* A drive in order, all of it formatted, is not copied in full: the cells of its
\* file systems that they do not use, and those in no partition, are left out.
FreeIsLeftOut ==
  kind \in {"mbr", "gpt", "grown", "apple"} /\ disk = mem /\ whole
    /\ (\A n \in parts : disk.at[Region(n).start].type = "fs")
    /\ (kind = "mbr" /\ ss = Large => SectorSize(disk, disk.first.entry).ss = ss)
  => Kept(disk) \subseteq Held \cup TableCells \cup Run(0, Edge) \cup Run(DriveSize - Edge, Edge)
=============================================================================
