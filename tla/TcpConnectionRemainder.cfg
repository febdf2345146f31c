CONSTANTS
  Loop = loop
  Users = {}
  NoThread = none
  HighWaterMark = 4
  Callbacks = {"writeCallback_", "highWaterMarkCallback_"}
  MaxLen = 2
  MaxBytes = 2
SPECIFICATION Spec
INVARIANT RemainderKept
CHECK_DEADLOCK FALSE
