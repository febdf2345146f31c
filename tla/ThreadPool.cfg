CONSTANTS
  NumThreads = 2
  DestroysEarly = FALSE
SPECIFICATION FairSpec
INVARIANTS TypeOK TidKnown PoolHasLoops JoinedWhenDestroyed
PROPERTIES StartReturns DestructorReturns
CHECK_DEADLOCK FALSE
