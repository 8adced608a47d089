SPECIFICATION FairSpec
CONSTANTS
  OldIds = {1, 2, 4, 5}
  NewIds = {3}
  NoId = NoId
  FIN = FIN
  Statements = {"delete", "update"}
  ChunkSizes = {0, 1, 2}
  TxnSizes = {1, 3}
  RowLimits = {0, 3}
  QueueCap = 1
  PageSize = 2
  MaxAttempts = 2
  MaxFaults = 2
  MaxLost = 1
INVARIANTS OnlyLostRepliesReplay FinishedCoversTable OvershootBounded
PROPERTIES RunReturns ImplementsChunkRun
CHECK_DEADLOCK FALSE
