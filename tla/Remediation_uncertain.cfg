CONSTANTS
  None = None
  Runs <- Scanning
SPECIFICATION Spec
INVARIANT UncertainNeverFails
