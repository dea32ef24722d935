-------------------------------- MODULE InUse --------------------------------
(***************************************************************************)
(* A partition that lives: an operating system mounts what is on it,       *)
(* changes it, writes it back piece by piece, unmounts it, or loses it in  *)
(* the middle; then DD-GUI looks at it.  The analysis of one partition     *)
(* (src/smart/mod.rs partition, src/smart/probe.rs) is Partition(mode),    *)
(* through the reader of the file system recognised.                       *)
(*                                                                         *)
(* DD-GUI unmounts a drive before it reads it, so what it may meet is the  *)
(* metadata of an idle volume: whole, or as a pulled cable, a crash or a   *)
(* failing drive left it.                                                  *)
(***************************************************************************)
EXTENDS Fat, Exfat, Ntfs, Iso9660, Ext, F2fs, HfsPlus, Xfs, Btrfs, Udf, Apfs, Lvm

CONSTANTS Kinds,     \* the file systems checked
          MaxOps     \* mounts and changes of a volume, at most

FileSystems == {"vfat", "exfat", "ntfs", "iso9660", "swap", "ext", "f2fs", "hfsplus", "xfs", "btrfs", "udf", "apfs", "lvm"}

ASSUME KindsAssumption == Kinds \subseteq FileSystems

VARIABLES kind,      \* the file system on the partition
          disk, mem, \* its metadata: on the disk, and in the driver's memory
          phase,     \* "idle", "mounted" or "closing"
          leftover,  \* what else the partition shows: see Leftovers
          ops,       \* mounts and changes so far
          whole,     \* no driver lost the volume and no block of it was lost
          known      \* it was understood when it was made

volumeVars == <<kind, disk, mem, phase, leftover, ops, whole, known>>

\* Of something else on the partition: nothing, the signature of a weak kind,
\* of another file system or of one that is not read, one past the first bytes,
\* an md RAID superblock at the end, or first bytes that cannot be read.
Leftovers == {"none", "weak", "strong", "other", "far", "raid", "unreadable"}

\* The kinds whose signature often survives inside other file systems.
Weak == {"swap", "iso9660"}

\* What Ok or Err(Bad) comes of the partition's reader.
Read(k, d, mode) ==
  CASE k = "vfat" -> FatRead(d, mode)
    [] k = "exfat" -> ExfatRead(d, mode)
    [] k = "ntfs" -> NtfsRead(d, mode)
    [] k = "iso9660" -> IsoRead(d, mode)
    [] k = "swap" -> SwapRead(d, mode)
    [] k = "ext" -> ExtRead(d, mode)
    [] k = "f2fs" -> F2fsRead(d, mode)
    [] k = "hfsplus" -> HfsRead(d, mode)
    [] k = "xfs" -> XfsRead(d, mode)
    [] k = "btrfs" -> BtrfsRead(d, mode)
    [] k = "udf" -> UdfRead(d, mode)
    [] k = "apfs" -> ApfsRead(d, mode)
    [] k = "lvm" -> LvmRead(d, mode)

\* detect: the signatures found, as far as they decide.
Strong == (IF kind \in Weak THEN {} ELSE {kind})
          \cup (IF leftover \in {"strong", "other"} THEN {leftover} ELSE {})

\* partition: copied in full unless exactly one reader is sure.
InFull == [understood |-> FALSE, used |-> Cells]
PartitionOf(d, mode) ==
  LET usage == Read(kind, d, mode)
      end == IF usage.end < Size THEN usage.end ELSE Size
  IN  IF leftover \in {"unreadable", "far", "raid", "other"} \/ Cardinality(Strong) > 1
         \/ (leftover = "strong" /\ kind \in Weak) \/ ~usage.ok
      THEN InFull
      ELSE [understood |-> TRUE, used |-> (usage.used \cap Cells) \cup Span(0, HeadKept) \cup end..(Size - 1)]
Partition(mode) == PartitionOf(disk, mode)
-----------------------------------------------------------------------------
\* The environment: what is on a drive.

Fresh(k) ==
  CASE k = "vfat" -> FatFresh [] k = "exfat" -> ExfatFresh [] k = "ntfs" -> NtfsFresh
    [] k = "iso9660" -> IsoFresh [] k = "swap" -> SwapFresh [] k = "ext" -> ExtFresh
    [] k = "f2fs" -> F2fsFresh [] k = "hfsplus" -> HfsFresh [] k = "xfs" -> XfsFresh
    [] k = "btrfs" -> BtrfsFresh [] k = "udf" -> UdfFresh [] k = "apfs" -> ApfsFresh
    [] k = "lvm" -> LvmFresh

Mounted(k, d) ==
  CASE k = "vfat" -> FatMounted(d) [] k = "exfat" -> ExfatMounted(d) [] k = "ntfs" -> NtfsMounted(d)
    [] k = "ext" -> ExtMounted(d) [] k = "f2fs" -> F2fsMounted(d) [] k = "hfsplus" -> HfsMounted(d)
    [] k = "xfs" -> XfsMounted(d) [] k = "btrfs" -> BtrfsMounted(d) [] k = "udf" -> UdfMounted(d)
    [] k = "apfs" -> ApfsMounted(d) [] OTHER -> d

Unmounted(k, m) ==
  CASE k = "vfat" -> FatUnmounted(m) [] k = "exfat" -> ExfatUnmounted(m) [] k = "ntfs" -> NtfsUnmounted(m)
    [] k = "ext" -> ExtUnmounted(m) [] k = "f2fs" -> F2fsUnmounted(m) [] k = "hfsplus" -> HfsUnmounted(m)
    [] k = "xfs" -> XfsUnmounted(m) [] k = "btrfs" -> BtrfsUnmounted(m) [] k = "udf" -> UdfUnmounted(m)
    [] k = "apfs" -> ApfsUnmounted(m) [] OTHER -> m

Changes(k, m) ==
  CASE k = "vfat" -> FatChanges(m) [] k = "exfat" -> ExfatChanges(m) [] k = "ntfs" -> NtfsChanges(m)
    [] k = "swap" -> SwapChanges(m) [] k = "ext" -> ExtChanges(m) [] k = "f2fs" -> F2fsChanges(m)
    [] k = "hfsplus" -> HfsChanges(m) [] k = "xfs" -> XfsChanges(m) [] k = "btrfs" -> BtrfsChanges(m)
    [] k = "udf" -> UdfChanges(m) [] k = "apfs" -> ApfsChanges(m) [] k = "lvm" -> LvmChanges(m)
    [] OTHER -> {}

Flushed(k, d, m) ==
  CASE k = "vfat" -> FatFlushed(d, m) [] k = "exfat" -> ExfatFlushed(d, m) [] k = "ntfs" -> NtfsFlushed(d, m)
    [] k = "ext" -> ExtFlushed(d, m) [] k = "f2fs" -> F2fsFlushed(d, m) [] k = "hfsplus" -> HfsFlushed(d, m)
    [] k = "xfs" -> XfsFlushed(d, m) [] k = "btrfs" -> BtrfsFlushed(d, m) [] k = "udf" -> UdfFlushed(d, m)
    [] k = "apfs" -> ApfsFlushed(d, m) [] k = "lvm" -> LvmFlushed(d, m) [] OTHER -> {m}

\* The kinds with checks that a lost block of metadata runs into.
Damages(k, d) ==
  CASE k = "ext" -> ExtDamaged(d) [] k = "f2fs" -> F2fsDamaged(d) [] k = "hfsplus" -> HfsDamaged(d)
    [] k = "xfs" -> XfsDamaged(d) [] k = "btrfs" -> BtrfsDamaged(d) [] k = "udf" -> UdfDamaged(d)
    [] k = "apfs" -> ApfsDamaged(d) [] k = "lvm" -> LvmDamaged(d) [] OTHER -> {}

NeedOf(k, d) ==
  CASE k = "vfat" -> FatNeed(d) [] k = "exfat" -> ExfatNeed(d) [] k = "ntfs" -> NtfsNeed(d)
    [] k = "iso9660" -> IsoNeed(d) [] k = "swap" -> SwapNeed(d) [] k = "ext" -> ExtNeed(d)
    [] k = "f2fs" -> F2fsNeed(d) [] k = "hfsplus" -> HfsNeed(d) [] k = "xfs" -> XfsNeed(d)
    [] k = "btrfs" -> BtrfsNeed(d) [] k = "udf" -> UdfNeed(d) [] k = "apfs" -> ApfsNeed(d)
    [] k = "lvm" -> LvmNeed(d)

\* What a later system may depend on: all of it where the partition may really
\* hold something else.
Need == IF leftover \in {"none", "weak"} THEN NeedOf(kind, disk) ELSE Cells
-----------------------------------------------------------------------------
InitVolume ==
  /\ kind \in Kinds
  /\ disk \in Fresh(kind) /\ mem = disk
  /\ phase = "idle" /\ ops = 0 /\ whole = TRUE
  /\ leftover \in Leftovers
  /\ known = Partition(Copy).understood

Mount ==
  /\ phase = "idle" /\ whole /\ ops < MaxOps
  /\ leftover \in {"none", "weak"} /\ kind # "iso9660"
  /\ mem' = Mounted(kind, disk)
  /\ phase' = "mounted" /\ ops' = ops + 1
  /\ UNCHANGED <<kind, disk, leftover, whole, known>>

\* One change at a time where a commit waits for the one before; a log never
\* holds more unwritten blocks than it writes at a time.
MayChange ==
  /\ kind \in {"f2fs", "apfs", "btrfs", "lvm"} => disk = mem
  /\ kind = "xfs" => Cardinality(Unwritten(disk, mem)) + 2 <= XfsInFlight

Edit ==
  /\ phase = "mounted" /\ ops < MaxOps /\ MayChange
  /\ mem' \in Changes(kind, mem)
  /\ ops' = ops + 1
  /\ UNCHANGED <<kind, disk, phase, leftover, whole, known>>

Flush ==
  /\ phase # "idle"
  /\ disk' \in Flushed(kind, disk, mem) \ {disk}
  /\ UNCHANGED <<kind, mem, phase, leftover, ops, whole, known>>

\* The last writes of a volume: once all else is there, its mark is taken back.
Unmount ==
  /\ phase = "mounted" /\ disk = mem
  /\ mem' = Unmounted(kind, mem)
  /\ phase' = "closing"
  /\ UNCHANGED <<kind, disk, leftover, ops, whole, known>>

Eject ==
  /\ phase = "closing" /\ disk = mem
  /\ phase' = "idle"
  /\ UNCHANGED <<kind, disk, mem, leftover, ops, whole, known>>

\* The cable, the power or the system goes: what was in memory is lost.
Unplug ==
  /\ phase # "idle"
  /\ phase' = "idle" /\ mem' = disk
  /\ whole' = FALSE
  /\ UNCHANGED <<kind, disk, leftover, ops, known>>

\* A block of metadata that reads as zeros, or whose last write was lost.
Damage ==
  /\ phase = "idle" /\ whole
  /\ disk' \in Damages(kind, disk)
  /\ mem' = disk' /\ whole' = FALSE
  /\ UNCHANGED <<kind, phase, leftover, ops, known>>

NextVolume == Mount \/ Edit \/ Flush \/ Unmount \/ Eject \/ Unplug \/ Damage
SpecVolume == InitVolume /\ [][NextVolume]_volumeVars
-----------------------------------------------------------------------------
\* What a smart image leaves out of a partition it understands is never
\* anything a system that mounts the restored partition depends on, however the
\* volume was left: unmounted, pulled out between two writes, or damaged.
UnderstoodIsEnough ==
  phase = "idle" /\ Partition(Copy).understood => Need \subseteq Partition(Copy).used

\* What the copy will read: it analyzes the volume once more, unmounted.
AfterUnmount == IF phase = "mounted" THEN Unmounted(kind, mem) ELSE mem
CopyTakes == PartitionOf(AfterUnmount, Copy)

\* What only the next commit puts in the maps: blocks fsync'd since F2FS's last
\* checkpoint, and those in the log tree of a btrfs.
Late ==
  CASE phase = "mounted" /\ kind = "f2fs" -> mem.node.blocks
    [] phase = "mounted" /\ kind = "btrfs" -> BtrfsLogged(mem)
    [] OTHER -> {}

\* The preview of a volume, not in use or mounted with every change written,
\* foretells the copy made of it once it is unmounted: where that copy will
\* understand the volume the preview does too, though it is marked as in use and
\* its journal may not be empty, and it shows what the copy will take.
AtRest == phase = "idle" \/ (phase = "mounted" /\ disk = mem /\ known)
PreviewForetells ==
  AtRest /\ CopyTakes.understood
  => Partition(Estimate).understood /\ Partition(Estimate).used \cup Late = CopyTakes.used

\* Left in a state that is copied in full: hibernated to, or in the middle of a move.
Suspended == kind = "swap" \/ (kind = "lvm" /\ LvmMoving(disk))

\* The preview understands a volume that the copy will, also while a driver is
\* halfway through its writes: no check that a moment between two of them fails is
\* made of a drive in use.  (An exFAT directory may wait for the chain of its entry.)
PreviewUnderstands ==
  known /\ whole /\ ~Suspended /\ (kind = "exfat" => disk = mem) /\ CopyTakes.understood => Partition(Estimate).understood

\* A volume understood when it was made is understood again whenever it was
\* unmounted: the tests a reader makes are no stricter than what a driver
\* leaves.
CleanIsUnderstood ==
  phase = "idle" /\ whole /\ known /\ ~Suspended => Partition(Copy).understood
=============================================================================
