SPECIFICATION FairSpec
CONSTANTS
  Partitions = {1, 2}
  PerPartition = 2
  Workers = {w1, w2}
  Plans <- MCPlans
  MaxAttempts = 2
INVARIANTS BudgetIsExact CleanEndIsComplete ErrorsAreReported PauseReachesEveryone
PROPERTIES RunEnds ImplementsChunkRun
CHECK_DEADLOCK FALSE
