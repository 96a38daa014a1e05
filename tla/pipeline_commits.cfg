SPECIFICATION Spec
CONSTANTS
  Jobs = {1, 2, 3}
  MaxApiRetries = 0
  MaxDeletions = 0
  MayFail = FALSE
  MayEnd = TRUE
  MayClose = TRUE
  MaxReturns = 1
INVARIANT
  ResultMatchesDiff
PROPERTY
  NoRegression
CHECK_DEADLOCK FALSE
