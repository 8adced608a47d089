SPECIFICATION FairSpec
CONSTANTS
  OldRows = {1, 2, 4}
  NewRows = {3}
  Plans <- MCPlans
  MaxAttempts = 2
  MaxFaults = 1
  MaxLost = 1
  MaxLags = 1
  MaxTouched = 1
INVARIANTS CleanEndIsComplete OvershootBounded
PROPERTIES OnlyMatchingRowsGo RunEnds ImplementsChunkRun
CHECK_DEADLOCK FALSE
