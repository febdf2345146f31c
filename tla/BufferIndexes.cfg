CONSTANTS
  kCheapPrepend = 2
  kInitialSize = 3
  ExtraSize = 4
  MaxLen = 3
  MaxBytes = 6
SPECIFICATION Spec
INVARIANT IndexesInOrder
CHECK_DEADLOCK FALSE
