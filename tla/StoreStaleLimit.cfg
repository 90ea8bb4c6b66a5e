\* After a shrink the limit, and so the write, reaches behind the map.
SPECIFICATION StoreSpec
CONSTANTS
  Entry = {e1, e2, e3}
  U32 = 32
  UserTypes <- MCUserTypes
  Disks <- MCDisks
  DriverTables = {{}}
  MediaNumbers = {6}
  BaseNumbers = {3}
  LengthNumbers = {1}
  IndexNumbers = {2, 3}
  SizeNumbers = {2, 3}
  CreateTypes <- MCCreateTypes
  Bootstrap = 6
  SmallMedia = 5
  SmallMap = 2
  LargeMap = 3
  Mallocs = {9}
  WritesMayFail = FALSE
  MaxWrites = 3
SYMMETRY Nodes
PROPERTY KeptPartitionsKeepTheirData
