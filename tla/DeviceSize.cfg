\* Every device of up to 18 blocks, two of which may be bad.
SPECIFICATION FairSpec
CONSTANTS
  Devices <- MCDevices
  First = 2
  Factor = 4
  Cap = 16
CHECK_DEADLOCK FALSE
INVARIANTS
  ResultIsAnEnd
PROPERTIES
  SearchEnds
