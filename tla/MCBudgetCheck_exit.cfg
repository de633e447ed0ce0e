CONSTANTS
  BUDGETS <- RealBudgets
  Trees <- RealTrees
  Means <- RealMeans
  NoEstimatesV = NoEstimatesV
  BadEstimatesV = BadEstimatesV
  NoEstimates <- NoEstimatesV
  BadEstimates <- BadEstimatesV
  NoMean = NoMean
  NotObject = NotObject
  SummaryWriteErrors = TRUE
  NoExit = NoExit

SPECIFICATION Spec

INVARIANT BudgetExitMeansViolation
