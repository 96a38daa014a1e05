CONSTANTS
  MaxRequests = 7
  MaxRequestsPerChunk = 2
  MaxInput = 6
  MaxOutput = 4
  MaxRetries = 2
  MaxOutputTokens = 2
  ModelContext = 5
  InitialDelay = 1
  MaxDelay = 2
  LongestRequest = 3
  Deadline = 8
  RequireStructured = TRUE
  RequireZDR = FALSE
  DenyCollection = FALSE
  Contexts <- MCContexts
  ChunkTokens = {1, 2, 3, 4}
  Preflights <- MCPreflights
  Answers <- MCAnswers
  Files = {"a", "b", "c"}
  Plans <- MCPlans
SPECIFICATION RunSpec
INVARIANTS
  RunTypeOK
  EveryChunkAccounted
  OneFailureDoesNotStopOthers
  StatusesAgree
  CompletedIsReviewed
  ReviewedFilesWereChunked
PROPERTIES
  RunEnds
