\* Any allocation of an add, a delete or a resize may fail.
SPECIFICATION Spec
CONSTANTS
  Entry = {e1, e2, e3, e4}
  U32 = 32
  UserTypes <- MCUserTypes
  Disks <- MCWholeDisks
  DriverTables = {{}}
  MediaNumbers = {9}
  BaseNumbers = {6}
  LengthNumbers = {1}
  IndexNumbers = {1, 2}
  SizeNumbers = {2, 4}
  CreateTypes <- MCCreateTypes
  Bootstrap = 2
  SmallMedia = 5
  SmallMap = 2
  LargeMap = 3
  Mallocs = {0, 1, 2, 5, 6}
SYMMETRY Nodes
INVARIANTS
  NoOverlap
