SPECIFICATION Spec
CONSTANTS
  OldRows = {1, 2, 4}
  NewRows = {3}
  Plans <- MCNullOrder
  MaxAttempts = 2
  MaxFaults = 0
  MaxLost = 0
  MaxLags = 0
  MaxTouched = 0
INVARIANT ShortPageIsTail
CHECK_DEADLOCK FALSE
