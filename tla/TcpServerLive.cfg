CONSTANTS
  MaxThreads = 1
  MaxConns = 2
  Users = {}
  Kept = {}
  CallbackShutdown = TRUE
  Destroys = TRUE
SPECIFICATION FairSpec
INVARIANT CallbackShutdownSafe
PROPERTIES DisconnectedIsFinal ImplementsConnectionLife DestructionEnds WaitingAccepted
CHECK_DEADLOCK FALSE
