SPECIFICATION Spec
CONSTANTS
  Servers = {"mysql"}
  Catalog <- MCCatalog
  Configs <- MCForbidden
  OptionLists <- MCOptionLists
  PageSize = 2
  MaxCalls = 1
  MaxEdits = 0
INVARIANT StatementIsKept
CHECK_DEADLOCK FALSE
