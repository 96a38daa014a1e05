SPECIFICATION Spec
CONSTANTS
  Apps = {"payment", "catalog"}
  MaxFaults = 1
  MaxRuns = 2
  MayKill = TRUE
  Others <- MCOthers
  MinReplicas = 2
  MaxReplicas = 3
INVARIANTS
  TypeOK
  OutageHolds
  DownIsRecorded
  PassedMeansRestored
  ArmedIsRecorded
PROPERTIES
  PaymentRestored
  CatalogRestored
CHECK_DEADLOCK FALSE
