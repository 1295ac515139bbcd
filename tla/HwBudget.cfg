SPECIFICATION BudgetSpec
CONSTANTS
  None = None
  Totals <- MCTotals
  Sizes <- MCSizes
  Cores <- MCCores
  RamPerJob = 4
  ReserveNum = 1
  ReserveDen = 5
  FallbackTotal = 8
  FallbackAvailable = 4
  MaxChanges = 1
INVARIANTS BudgetFits BudgetIsLargest
CHECK_DEADLOCK FALSE
