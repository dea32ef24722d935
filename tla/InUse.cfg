SPECIFICATION SpecVolume
CHECK_DEADLOCK FALSE
CONSTANTS
  Size = 24
  HeadKept = 1
  Kinds = {"vfat", "exfat", "ntfs", "iso9660", "swap", "ext", "f2fs", "hfsplus", "xfs", "btrfs", "udf", "apfs", "lvm"}
  MaxOps = 3
  Fat12Limit = 3
  Fat16Limit = 5
  Fat32Limit = 6
  FatSectorBits = 96
  ExfatHeap = 3
  ExfatClusters = 7
  NtfsClusters = 7
  NtfsSystem = {1, 2, 3}
  IsoSystem = 4
  MaxDescriptors = 4
  F2fsMain = 3
  F2fsSegments = 2
  HfsExtents = 2
  HfsBits = 4
  XfsAgBlocks = 8
  XfsBlocks = 14
  XfsLog = 8
  XfsWindow = 4
  XfsInFlight = 4
  BtrfsSize = 20
  BtrfsMirror = 18
  UdfStart = 6
  UdfBlocks = 8
  UdfAnchor = 2
  UdfMain = 3
  UdfReserve = 15
  UdfIntegrity = 4
  UdfRoom = 2
  ApfsBlocks = 12
  ApfsChunk = 6
  ApfsRing = 2
  LvmStart = 3
  LvmExtent = 2
  LvmCount = 4
  LvmSecond = 2
  MaxNesting = 1
INVARIANTS UnderstoodIsEnough PreviewForetells PreviewUnderstands CleanIsUnderstood
