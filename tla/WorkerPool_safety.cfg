SPECIFICATION Spec
CONSTANTS
  Tasks = {t1, t2, t3}
  None = None
  Size = 2
  MaxWorkers = 5
  MaxInits = 2
  MaxFaults = 1
  IdleCleanExit = FALSE
  EarlyExecute = FALSE
SYMMETRY TaskSymmetry
INVARIANTS TypeOK WorkConserving OneOwner OwnAnswer CapacityKept NoReapedWorker
PROPERTY ImplementsServer
CHECK_DEADLOCK FALSE
