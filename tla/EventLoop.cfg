CONSTANTS
  Loop = loop
  Callers = {t1, t2}
  Functors = {f1, f2, f3}
  QueuesBeforeLoop = FALSE
SPECIFICATION FairSpec
INVARIANTS TypeOK NoLostWakeup
PROPERTIES ImplementsTaskQueue QuitStopsLoop
CHECK_DEADLOCK FALSE
