CONSTANTS
  Loop = loop
  Callers = {t1}
  Functors = {f1}
  QueuesBeforeLoop = FALSE
SPECIFICATION FairSpec
PROPERTY QuitAlwaysStopsLoop
CHECK_DEADLOCK FALSE
