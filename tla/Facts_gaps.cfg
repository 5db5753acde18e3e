CONSTANTS
  None = None
  Builtins = {"fs", "events"}
  Listed = 1
  Trees <- HiddenTrees
SPECIFICATION Spec
INVARIANTS NeverSilentlyDropped
