CONSTANTS
  MaxRequests = 6
  MaxRequestsPerChunk = 3
  MaxInput = 4
  MaxOutput = 3
  MaxRetries = 2
  MaxOutputTokens = 2
  ModelContext = 5
  InitialDelay = 1
  MaxDelay = 3
  LongestRequest = 3
  Deadline = 9
  RequireStructured = TRUE
  RequireZDR = TRUE
  DenyCollection = TRUE
  Contexts <- MCContexts
  ChunkTokens = {1, 3, 4}
  Preflights <- MCPreflights
  Answers <- MCAnswers
SPECIFICATION Spec
INVARIANTS
  TypeOK
  QuotasRespected
  AttemptsBounded
  OverrunBounded
  OnlyTransientRetried
  SubmittedBounded
