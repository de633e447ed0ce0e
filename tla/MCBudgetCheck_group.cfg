CONSTANTS
  BUDGETS <- GroupBudgets
  Trees <- GroupTrees
  Means <- GroupMeans
  NoEstimatesV = NoEstimatesV
  BadEstimatesV = BadEstimatesV
  NoEstimates <- NoEstimatesV
  BadEstimates <- BadEstimatesV
  NoMean = NoMean
  NotObject = NotObject
  SummaryWriteErrors = TRUE
  NoExit = NoExit

SPECIFICATION Spec

INVARIANT TypeOK
INVARIANT GroupVerdictsExact
PROPERTY RefinesBudgetSpec
