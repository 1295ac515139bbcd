SPECIFICATION PlanSpec
CONSTANTS
  Registries <- MCRegistries
  Documents <- MCDocuments
  NewLines <- MCNewLines
  MaxPlanEdits = 2
INVARIANTS CycleMeansStuck NextIsFirstInLine
CHECK_DEADLOCK FALSE
PROPERTIES FinishKeepsAccepted
