\* The disklabel editor on a disk with a label and on one without.
SPECIFICATION Spec
CONSTANTS
  MaxPartitions = 5
  U32 = 64
  CylinderSize = 4
  Cylinders = 4
  DosPartitions <- MCPartitions
  NetBSD = 1
  Labels <- MCLabels
  FsTypes = {7}
  TypedFirst = {4}
  TypedLast = {2, 12}
  MaxEdits = 3
INVARIANTS
  TypeOK
  CountCoversPartitions
  BootAreaHoldsLabel
PROPERTIES
  NewPartitionInSlice
CHECK_DEADLOCK FALSE
