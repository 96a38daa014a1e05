CONSTANTS
  PRs <- MCPRs
  Budget = 10
  MaxChunks = 4
  MaxTotal = 30
  MaxFiles = 3
SPECIFICATION Spec
INVARIANTS
  TypeOK
  WithinLimits
  OnlyOversizedSkipped
  EveryLineOnce
  EveryFileReported
  DiffOrder
  NoChunkClosedEarly
PROPERTIES
  KeepsPromise
