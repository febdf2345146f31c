CONSTANTS
  Loop = loop
  Users = {}
  NoThread = none
  HighWaterMark = 2
  Callbacks = {"writeCallback_", "highWaterMarkCallback_"}
  MaxLen = 3
  MaxBytes = 5
SPECIFICATION FairSpec
INVARIANTS TypeOK WritingIffBuffered
PROPERTIES NothingAfterClose ImplementsByteStream ShutdownEnds EndCloses
CHECK_DEADLOCK FALSE
