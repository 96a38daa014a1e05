CONSTANTS
  PRs <- MCPRs
  Budget = 10
  MaxChunks = 3
  MaxTotal = 30
  MaxFiles = 1
SPECIFICATION Spec
INVARIANTS
  AddedLinesAreChanged
