\* Where n puts the table of a logical partition.
SPECIFICATION Spec
CONSTANTS
  MaximumParts = 7
  CylinderSize = 4
  TrackSize = 2
  Cylinders = 4
  Linux = 131
  OtherTypes = {130}
  Disks <- MCDisks
  TypedStarts = {3, 9}
  TypedStops = {2, 11}
  Begins = {6, 11, 15}
  MaxEdits = 2
INVARIANTS
  TablesApart
CHECK_DEADLOCK FALSE
