CONSTANTS
  None = None
  Runs <- MCRuns
SPECIFICATION Spec
INVARIANTS ExitIsEarned NothingVanishes AffectedExactly PlanAccounts
