SPECIFICATION Spec
CONSTANTS
  Jobs = {1, 2}
  MaxApiRetries = 1
  MaxDeletions = 1
  MayFail = TRUE
  MayEnd = FALSE
  MayClose = FALSE
  MaxReturns = 0
INVARIANTS
  TypeOK
  DuplicatesOnlyFromLostReplies
  ReportedIsShown
PROPERTY
  JobEnds
CHECK_DEADLOCK FALSE
