SPECIFICATION Spec
CONSTANTS
  Servers = {"mysql", "oceanbase", "tidb"}
  Catalog <- MCCatalog
  Configs <- MCConfigs
  OptionLists <- MCOptionLists
  PageSize = 2
  MaxCalls = 2
  MaxEdits = 1
INVARIANTS RouteFitsWriter TargetIsNamed ScanIsExact
CHECK_DEADLOCK FALSE
