SPECIFICATION Spec
CONSTANTS
  Align = 4
  Gap = 5
  MaxExtents = 3
  Edge = 4
  ZerosMax = 16
  DataMax = 8
  Chunks = {3, 4, 5, 9}
  Sources <- MCSources
  Founds <- MCFounds
  Drives <- MCDrives
INVARIANTS
  LayoutKeepsData
  ImageIsReadable
  SuccessIsComplete
  FreeUntouched
  DamageIsReported
  WholeSectors
CHECK_DEADLOCK FALSE
