CONSTANTS
  Pids = {0, 1, 2}
  Checks = 1
SPECIFICATION ProcSpec
INVARIANTS
  ProcTypeOK
  ZygoteOrder
PROPERTIES
  BudgetSpent
  SettledForGood
