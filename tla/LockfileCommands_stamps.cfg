CONSTANTS
  None = None
  Top = "."
  Names = {"a", "b", "w"}
  Versions = {"1.0.0", "2.0.0"}
  Projects <- MCProjects
SPECIFICATION Spec
INVARIANT StampsRegistryOnly
