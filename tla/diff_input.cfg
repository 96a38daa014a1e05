\* Every patch of up to three sections, under every combination of limits.
SPECIFICATION Spec
CONSTANTS
  Patches <- MCPatches
  Configs <- MCConfigs
  Sensitive <- MCSensitive
  Excluded <- MCExcluded
  Unsupported <- MCUnsupported
INVARIANTS
  TypeOK
  EverySectionAccounted
  StatusesTell
  LimitsBind
  RenamesJudgedByBothPaths
  KeysHaveOneMarker
CHECK_DEADLOCK FALSE
