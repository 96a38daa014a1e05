SPECIFICATION Spec
CONSTANTS
  Apps = {"payment", "catalog"}
  MaxFaults = 1
  MaxRuns = 2
  MayKill = TRUE
  Others <- MCOthers
  MinReplicas = 2
  MaxReplicas = 3
INVARIANT OthersAnswered
CHECK_DEADLOCK FALSE
