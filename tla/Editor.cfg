\* The editor on three disks, with memory to spare and no number near 2^32.
SPECIFICATION Spec
CONSTANTS
  Entry = {e1, e2, e3, e4}
  U32 = 32
  UserTypes <- MCUserTypes
  Disks <- MCDisks
  DriverTables <- MCBothDrivers
  MediaNumbers = {0, 9}
  BaseNumbers = {3, 5, 6}
  LengthNumbers = {1, 2}
  IndexNumbers = {0, 1, 2, 3, 4}
  SizeNumbers = {2, 3, 4, 5, 6}
  CreateTypes <- MCCreateTypes
  Bootstrap = 2
  SmallMedia = 5
  SmallMap = 2
  LargeMap = 3
  Mallocs = {9}
SYMMETRY Nodes
INVARIANTS
  TypeOK
  ListsAgree
  NoOverlap
  BaseOrderAscends
  FreeSpaceInOnePiece
  EntriesWithinMaximum
PROPERTIES
  MapEntryLostOnlyWhenStale
  ReorderGivesNumber
  EditorImplementsDiskSpace
