CONSTANTS
  Loop = loop
  Users = {u1}
  NoThread = none
  HighWaterMark = 2
  Callbacks = {"writeCallback_", "highWaterMarkCallback_"}
  MaxLen = 2
  MaxBytes = 2
SPECIFICATION Spec
INVARIANTS WireInOrder FinAfterData
PROPERTY KeepsStream
CHECK_DEADLOCK FALSE
