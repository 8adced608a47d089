SPECIFICATION Spec
CONSTANTS
  Routes = {"range"}
  DryRuns = {TRUE}
  Reporters = {"none"}
  Txns = 1
  Callers = {c1}
  Stoppers = {}
  Causes = {}
INVARIANT DryRunExecutesNothing
CHECK_DEADLOCK FALSE
