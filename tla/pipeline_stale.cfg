SPECIFICATION Spec
CONSTANTS
  Jobs = {1, 2}
  MaxApiRetries = 0
  MaxDeletions = 0
  MayFail = FALSE
  MayEnd = FALSE
  MayClose = FALSE
  MaxReturns = 0
PROPERTY StaleFindingsDiscarded
CHECK_DEADLOCK FALSE
