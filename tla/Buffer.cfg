CONSTANTS
  kCheapPrepend = 1
  kInitialSize = 5
  ExtraSize = 10
  MaxLen = 11
  MaxBytes = 12
SPECIFICATION Spec
INVARIANTS TypeOK Fifo CountRight MakespaceMakesRoom
CHECK_DEADLOCK FALSE
