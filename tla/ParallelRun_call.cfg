SPECIFICATION RunSpec
CONSTANTS
  Tasks = {1, 2, 3}
  None = None
  Size = 2
  MaxWorkers = 4
  MaxInits = 1
  MaxFaults = 2
  IdleCleanExit = FALSE
  EarlyExecute = FALSE
  Operations = {"hash-upgrade", "migration", "validation", "unknown"}
INVARIANT AllOrNothing
PROPERTIES ProgressCounts CallSettles EveryTaskSettles
CHECK_DEADLOCK FALSE
