SPECIFICATION Spec
CONSTANTS
  Procs = {p1, p2}
  Settings <- MCSettings
  Keep = 1
  MaxTime = 8
  MaxVer = 4
INVARIANTS TornIsRestorable PinUndoable
PROPERTIES OverwrittenIsBackedUp CleanKeepsNewest BackupsImmutable
CHECK_DEADLOCK FALSE
