CONSTANTS
  MaxThreads = 2
  MaxConns = 2
  Users = {u1}
  Kept = {1}
  CallbackShutdown = TRUE
  Destroys = TRUE
SPECIFICATION Spec
INVARIANTS TypeOK CallbackOrder PollerClean FreedWentDown DestroyedOnce RoundRobin
CHECK_DEADLOCK FALSE
