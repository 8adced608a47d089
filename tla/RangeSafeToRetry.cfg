SPECIFICATION Spec
CONSTANTS
  OldIds = {1, 2, 4, 5}
  NewIds = {3}
  NoId = NoId
  FIN = FIN
  Statements = {"update"}
  ChunkSizes = {2}
  TxnSizes = {1}
  RowLimits = {0}
  QueueCap = 1
  PageSize = 2
  MaxAttempts = 2
  MaxFaults = 1
  MaxLost = 1
INVARIANT SafeToRetry
CHECK_DEADLOCK FALSE
