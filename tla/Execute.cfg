SPECIFICATION FairSpec
CONSTANTS
  Routes = {"range", "covering"}
  DryRuns = {TRUE, FALSE}
  Reporters = {"none", "callback", "print"}
  Txns = 2
  Callers = {c1, c2}
  Stoppers = {s1}
  Causes = {"canceled", "timeout"}
INVARIANTS CallbacksDoNotOverlap FailuresSurface
PROPERTIES QuietAfterOwnEnd StopReturns StrategyEndReturns
CHECK_DEADLOCK FALSE
