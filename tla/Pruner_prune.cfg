SPECIFICATION Spec
CONSTANTS
  None = None
  Top = "top"
  Dirs = {"top", "w"}
  Names = {"a", "b", "w"}
  Lockfiles <- MCLockfiles
  MaxCalls = 2
INVARIANTS KeepsExactlyNeeded
PROPERTIES SameResolution HostsStay PruneOnce Terminates
CHECK_DEADLOCK FALSE
