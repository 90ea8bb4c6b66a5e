\* A call with three tries on a clock that wraps.
SPECIFICATION Spec
CONSTANTS
  BlockLength = 2
  SenseLength = 2
  MaxRetries = 3
  MaxGets = 2
  WaitTicks = 2
  PauseTicks = 1
  Ticks = 5
INVARIANTS
  TypeOK
  SuccessIsWhole
  NothingLeftBehind
  SenseIsOfCommand
PROPERTIES
  EveryCallEnds
CHECK_DEADLOCK FALSE
