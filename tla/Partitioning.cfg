SPECIFICATION Spec
CHECK_DEADLOCK FALSE
CONSTANTS
  DriveSize = 32
  Edge = 1
  Large = 2
  MaxLogical = 4
  BsdListed = 4
  BsdBoot = 4
  ZfsRing = 4
  MaxEdits = 2
INVARIANTS PartitionsAreKept TablesAreKept FreeIsLeftOut
