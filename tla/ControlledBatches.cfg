\* The batch loop against the database: two batches and a budget that ends
\* inside the second one, two rows written by other clients.
SPECIFICATION Spec
CONSTANTS
  Ids = {1, 2, 3, 4}
  NoId = NoId
  BatchSize = 2
  MaxRows = 3
  Callers = {c1}
  Stoppers = {}
  Waiters = {}
  MaxTouched = 2
INVARIANTS TypeOK KnownOutcomeIsExact BudgetHolds EveryCommitIsReported ExhaustedLeavesNothing
PROPERTIES OnlyEligibleRowsGo DeletesAreFreshlyApproved ImplementsBudgetedDelete
CHECK_DEADLOCK FALSE
