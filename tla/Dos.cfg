\* Sessions of fdisk.c on five disks.
SPECIFICATION Spec
CONSTANTS
  MaximumParts = 7
  CylinderSize = 4
  TrackSize = 2
  Cylinders = 4
  Linux = 131
  OtherTypes = {130}
  Disks <- MCDisks
  TypedStarts = {3, 9}
  TypedStops = {2, 11}
  Begins = {6, 11, 15}
  MaxEdits = 2
INVARIANTS
  TypeOK
  ChainAgrees
  TornWriteKeepsPartitions
  SavedIsFound
  UnmarkedIsOnDisk
  VerifyCountsFreeSectors
  NothingFreeBelow
  RoomLeftIsOutOfReach
PROPERTIES
  EditorImplementsDosSpace
CHECK_DEADLOCK FALSE
