CONSTANTS
  BUDGETS <- RealBudgets
  Trees <- RealTrees
  Means <- RealMeans
  NoEstimatesV = NoEstimatesV
  BadEstimatesV = BadEstimatesV
  NoEstimates <- NoEstimatesV
  BadEstimates <- BadEstimatesV
  NoMean = NoMean
  NotObject = NotObject
  SummaryWriteErrors = FALSE
  NoExit = NoExit

SPECIFICATION Spec

INVARIANT BudgetViolationDetected
