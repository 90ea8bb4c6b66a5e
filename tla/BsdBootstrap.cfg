\* i after an i whose second file could not be read.
SPECIFICATION Spec
CONSTANTS
  MaxPartitions = 5
  U32 = 64
  CylinderSize = 4
  Cylinders = 4
  DosPartitions <- MCPartitions
  NetBSD = 1
  Labels <- MCLabels
  FsTypes = {7}
  TypedFirst = {4}
  TypedLast = {2, 12}
  MaxEdits = 1
PROPERTIES
  BootstrapKeepsLabel
CHECK_DEADLOCK FALSE
