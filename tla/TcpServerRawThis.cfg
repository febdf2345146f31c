CONSTANTS
  MaxThreads = 1
  MaxConns = 1
  Users = {u1}
  Kept = {1}
  CallbackShutdown = FALSE
  Destroys = FALSE
SPECIFICATION Spec
INVARIANT NoUseAfterFree
CHECK_DEADLOCK FALSE
