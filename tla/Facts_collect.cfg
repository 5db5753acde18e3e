CONSTANTS
  None = None
  Builtins = {"fs", "events"}
  Listed = 1
  Trees <- MCTrees
SPECIFICATION Spec
INVARIANTS GapsTold UseCredited MergedFairly
