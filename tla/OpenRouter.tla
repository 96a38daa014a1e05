------------------------------ MODULE OpenRouter ------------------------------
(***************************************************************************)
(* review_runner/openrouter.py: the provider that sends the chunks of one  *)
(* review run to OpenRouter, within the quotas of the run, retrying what   *)
(* may succeed later.                                                      *)
(*                                                                         *)
(* The caller awaits one call at a time: prepare once, then review for one *)
(* chunk after the other.  What the service answers, and when, is chosen   *)
(* from Answers and Preflights.  Time is counted in abstract units since   *)
(* prepare was called; it passes while an answer or a retry is awaited.    *)
(***************************************************************************)
EXTENDS Integers, FiniteSets

CONSTANTS
  MaxRequests,          \* max_requests_per_run
  MaxRequestsPerChunk,  \* max_requests_per_chunk
  MaxInput,             \* max_input_tokens_per_run
  MaxOutput,            \* max_output_tokens_per_run
  MaxRetries,           \* max_retries
  MaxOutputTokens,      \* max_output_tokens, of one answer
  ModelContext,         \* model_context_tokens
  InitialDelay,         \* retry_initial_delay_seconds
  MaxDelay,             \* retry_max_delay_seconds
  LongestRequest,       \* how long a request can take (httpx bounds each wait for bytes)
  Deadline,             \* the smaller max_execution_seconds of provider and runner
  RequireStructured,    \* require_structured_outputs
  RequireZDR,           \* require_zero_data_retention
  DenyCollection,       \* deny_data_collection
  Contexts,             \* the runner's limits: [model, reserved]
  ChunkTokens,          \* estimates of the chunks a caller may send
  Preflights,           \* what the service may say of the model
  Answers               \* what it may answer to a completion request

Pos == Nat \ {0}

\* OpenRouterConfig.validate, as far as numbers are concerned.
ValidConfig ==
  /\ MaxRequests \in Pos /\ MaxRequestsPerChunk \in Pos
  /\ MaxInput \in Pos /\ MaxOutput \in Pos
  /\ MaxOutputTokens \in Pos /\ ModelContext \in Pos
  /\ MaxRetries \in Nat
  /\ InitialDelay \in Nat /\ MaxDelay \in Nat /\ InitialDelay <= MaxDelay
  /\ Deadline \in Pos
  /\ MaxRequestsPerChunk <= MaxRequests
  /\ MaxOutputTokens < ModelContext

ASSUME ConfigAssumption == ValidConfig /\ LongestRequest \in Nat

----------------------------------------------------------------------------
\* What the service answers.

\* An answer that is not a review at all, and the category it is reported as.
\* "broken" stands for the exceptions nobody expected; 408 and 5xx are
\* "unavailable"; "privacy", "unsupported", "too_large" and "rejected" are what
\* _classify_client_error reads in a 400, 402, 409 or 422, and "rejected" is any
\* other status that is no success.
Refusals ==
  [ timeout     |-> "network_timeout",
    interrupted |-> "provider_unavailable",
    broken      |-> "unexpected_provider_error",
    denied      |-> "authentication_error",
    limited     |-> "rate_limited",
    unavailable |-> "provider_unavailable",
    missing     |-> "model_unavailable",
    privacy     |-> "privacy_requirement_unavailable",
    unsupported |-> "unsupported_capability",
    too_large   |-> "payload_too_large",
    rejected    |-> "unexpected_provider_error",
    oversized   |-> "invalid_structured_response",
    garbled     |-> "invalid_structured_response" ]

\* An answer that reports its output tokens: it may still break the schema or
\* name a file that was not sent.
Reviews == {"bad_schema", "wrong_file", "valid"}

NoResponse == {"timeout", "interrupted"}

\* Mutant: a route that does not support the request is tried again.
RetryableTooMuch == {"timeout", "interrupted", "limited", "unavailable", "garbled",
                     "bad_schema", "wrong_file", "unsupported"}

Retryable == {"timeout", "interrupted", "limited", "unavailable", "garbled",
              "bad_schema", "wrong_file"}

Answer == [kind : DOMAIN Refusals \cup Reviews, out : Nat, retryAfter : Nat,
           duration : 0..LongestRequest]

ASSUME AnswersAssumption == Answers \subseteq Answer

Categories ==
  {Refusals[k] : k \in DOMAIN Refusals} \cup {"configuration_error", "quota_exhausted"}

\* What the service says of the model before the review: a refusal, metadata
\* that make the adapter raise, or the endpoints that serve the model.
PreflightRefusals ==
  [ timeout     |-> "network_timeout",
    interrupted |-> "provider_unavailable",
    denied      |-> "authentication_error",
    missing     |-> "model_unavailable",
    unavailable |-> "provider_unavailable",
    garbled     |-> "model_unavailable" ]

\* An endpoint; one that states no maximum counts as one with a high maximum.
Endpoint == [up : BOOLEAN, structured : BOOLEAN, context : Nat, maximum : Nat,
             free : BOOLEAN, listed : BOOLEAN, zdr : BOOLEAN, collects : BOOLEAN]

\* _eligible_endpoint: it can serve this run ("listed": it is among
\* allowed_providers, or there is no such list).
Capable(endpoint, context) ==
  /\ endpoint.up
  /\ RequireStructured => endpoint.structured
  /\ endpoint.context >= context.model
  /\ endpoint.maximum >= MaxOutputTokens
  /\ endpoint.free
  /\ endpoint.listed

\* _privacy_eligible.
Private(endpoint) ==
  /\ RequireZDR => endpoint.zdr
  /\ DenyCollection => ~endpoint.collects

ASSUME ServiceAssumption ==
  /\ ChunkTokens \subseteq Pos
  /\ Contexts \subseteq [model : Pos, reserved : Nat]
  /\ Preflights \subseteq
       [kind : DOMAIN PreflightRefusals \cup {"raises", "offered"},
        endpoints : SUBSET Endpoint, duration : 0..LongestRequest]

----------------------------------------------------------------------------
VARIABLES
  context,     \* _context, or NoContext before prepare
  prepared,    \* _prepared
  requests,    \* _requests
  inTokens,    \* _input_tokens
  outTokens,   \* _output_tokens
  retries,     \* _retries
  retryAfter,  \* _retry_after_seconds
  elapsed,     \* the time since _started
  call,        \* the call that is awaited, or Idle
  result       \* what the last call returned

\* What really went over the wire, which the provider does not count.
VARIABLES
  posts,       \* completion requests for the current chunk
  submitted    \* tokens sent, those of retries included

counters == <<requests, inTokens, outTokens, retries>>
wire == <<posts, submitted>>
providerVars == <<context, prepared, counters, retryAfter, elapsed, call, result, wire>>

NoContext == [model |-> 0, reserved |-> 0]
Called(stage, tokens) ==
  [stage |-> stage, tokens |-> tokens, attempt |-> 0, delay |-> 0, last |-> "none"]
Idle == Called("idle", 0)

NoResult == [outcome |-> "none", category |-> "none", retries |-> 0]
Ready == [outcome |-> "ready", category |-> "none", retries |-> 0]
Raised == [outcome |-> "raised", category |-> "none", retries |-> 0]
Failure(category, n) == [outcome |-> "failed", category |-> category, retries |-> n]
Reviewed(n) == [outcome |-> "reviewed", category |-> "none", retries |-> n]

Return(value) == call' = Idle /\ result' = value

ProviderInit ==
  /\ context = NoContext
  /\ prepared = FALSE
  /\ requests = 0 /\ inTokens = 0 /\ outTokens = 0 /\ retries = 0
  /\ retryAfter = 0
  /\ elapsed = 0
  /\ call = Idle
  /\ result = NoResult
  /\ posts = 0 /\ submitted = 0

\* Mutants: each quota is tested once it is exceeded instead of when it is reached;
\* the deadline is not tested.
OverQuotaLate(tokens, attempts) ==
  \/ requests > MaxRequests
  \/ attempts > MaxRequestsPerChunk
  \/ inTokens + tokens > MaxInput
  \/ elapsed > Deadline

OverQuotaNoDeadline(tokens, attempts) ==
  \/ requests >= MaxRequests
  \/ attempts >= MaxRequestsPerChunk
  \/ inTokens + tokens > MaxInput

\* _quota_failure: a request of so many tokens, the attempts already made for
\* its chunk being given, is beyond a quota of the run.
OverQuota(tokens, attempts) ==
  \/ requests >= MaxRequests
  \/ attempts >= MaxRequestsPerChunk
  \/ inTokens + tokens > MaxInput
  \/ elapsed >= Deadline

----------------------------------------------------------------------------
\* prepare

Compatible(c) == c.model <= ModelContext /\ c.reserved <= MaxOutputTokens

PrepareRefused(c) ==
  /\ call.stage = "idle" /\ context = NoContext
  /\ ~Compatible(c)
  /\ context' = c
  /\ Return(Failure("unsupported_capability", 0))
  /\ UNCHANGED <<prepared, counters, retryAfter, elapsed, wire>>

PrepareStart(c) ==
  /\ call.stage = "idle" /\ context = NoContext
  /\ Compatible(c)
  /\ context' = c
  /\ IF OverQuota(0, 0)
     THEN Return(Failure("quota_exhausted", 0)) /\ UNCHANGED requests
     ELSE /\ requests' = requests + 1
          /\ call' = Called("preflight", 0)
          /\ UNCHANGED result
  /\ UNCHANGED <<prepared, inTokens, outTokens, retries, retryAfter, elapsed, wire>>

\* The failure of a preflight, in the order the code looks for it.
PreflightAnswer(p) ==
  /\ call.stage = "preflight"
  /\ elapsed' = elapsed + p.duration
  /\ LET capable == {e \in p.endpoints : Capable(e, context)}
         ready == p.kind = "offered" /\ \E e \in capable : Private(e)
     IN  /\ prepared' = ready
         /\ Return(CASE p.kind = "raises" -> Raised
                     [] p.kind \in DOMAIN PreflightRefusals ->
                          Failure(PreflightRefusals[p.kind], 0)
                     [] p.kind = "offered" /\ capable = {} ->
                          Failure("unsupported_capability", 0)
                     [] p.kind = "offered" /\ capable # {} /\ ~ready ->
                          Failure("privacy_requirement_unavailable", 0)
                     [] OTHER -> Ready)
  /\ UNCHANGED <<context, counters, retryAfter, wire>>

----------------------------------------------------------------------------
\* review

\* The checks before the first attempt.
ReviewRefused(tokens) ==
  /\ call.stage = "idle"
  /\ \/ ~prepared /\ Return(Failure("configuration_error", 0))
     \/ prepared /\ OverQuota(tokens, 0) /\ Return(Failure("quota_exhausted", 0))
     \/ /\ prepared /\ ~OverQuota(tokens, 0)
        /\ tokens + MaxOutputTokens > ModelContext
        /\ Return(Failure("payload_too_large", 0))
  /\ posts' = 0
  /\ UNCHANGED <<context, prepared, counters, retryAfter, elapsed, submitted>>

\* Mutant: a chunk is sent although the preflight failed.
ReviewStartUnprepared(tokens) ==
  /\ call.stage = "idle"
  /\ ~OverQuota(tokens, 0)
  /\ tokens + MaxOutputTokens <= ModelContext
  /\ call' = Called("attempt", tokens)
  /\ posts' = 0
  /\ UNCHANGED <<context, prepared, counters, retryAfter, elapsed, result, submitted>>

ReviewStart(tokens) ==
  /\ call.stage = "idle"
  /\ prepared
  /\ ~OverQuota(tokens, 0)
  /\ tokens + MaxOutputTokens <= ModelContext
  /\ call' = Called("attempt", tokens)
  /\ posts' = 0
  /\ UNCHANGED <<context, prepared, counters, retryAfter, elapsed, result, submitted>>

\* The tokens an attempt is charged: those of a retry are not.
\* Mutant: nothing is charged when the first request of a chunk is made.
ChargeRetries == IF call.attempt = 1 THEN call.tokens ELSE 0

Charge == IF call.attempt = 0 THEN call.tokens ELSE 0

AttemptDenied ==
  /\ call.stage = "attempt"
  /\ OverQuota(Charge, call.attempt)
  /\ Return(Failure("quota_exhausted", call.attempt))
  /\ UNCHANGED <<context, prepared, counters, retryAfter, elapsed, wire>>

Post ==
  /\ call.stage = "attempt"
  /\ ~OverQuota(Charge, call.attempt)
  /\ requests' = requests + 1
  /\ inTokens' = inTokens + Charge
  /\ call' = [call EXCEPT !.stage = "post"]
  /\ posts' = posts + 1
  /\ submitted' = submitted + call.tokens
  /\ UNCHANGED <<context, prepared, outTokens, retries, retryAfter, elapsed, result>>

\* _handle_response and the handlers of the exceptions of post; an exception nobody
\* expected may come before or after the Retry-After of the answer is read.
OutputExhausted(a) == a.kind \in Reviews /\ outTokens + a.out > MaxOutput

Counted(a) == IF a.kind \in Reviews /\ ~OutputExhausted(a) THEN a.out ELSE 0

RetryPossible(a) == a.kind \in Retryable /\ ~OutputExhausted(a)

Judged(a, n) ==
  CASE a.kind \in DOMAIN Refusals -> Failure(Refusals[a.kind], n)
    [] OutputExhausted(a) -> Failure("quota_exhausted", n)
    [] a.kind \in {"bad_schema", "wrong_file"} /\ ~OutputExhausted(a) ->
         Failure("invalid_structured_response", n)
    [] OTHER -> Reviewed(n)

Received(a) ==
  /\ call.stage = "post"
  /\ elapsed' = elapsed + a.duration
  /\ \/ a.kind \in NoResponse \cup {"broken"} /\ UNCHANGED retryAfter
     \/ a.kind \notin NoResponse /\ retryAfter' = a.retryAfter
  /\ outTokens' = outTokens + Counted(a)
  /\ UNCHANGED <<context, prepared, requests, inTokens, wire>>

\* The call returns, and _log_result counts its retries.
AnswerFinal(a) ==
  /\ Received(a)
  /\ ~RetryPossible(a) \/ call.attempt >= MaxRetries
  /\ retries' = retries + call.attempt
  /\ Return(Judged(a, call.attempt))

Smaller(x, y) == IF x < y THEN x ELSE y
Larger(x, y) == IF x > y THEN x ELSE y

\* The wait before the retry; a timeout leaves the Retry-After of an earlier
\* answer in place.
Backoff(n, after) == Smaller(Larger(InitialDelay * 2^n, after), MaxDelay)

\* Mutant: the failed attempt is not counted.
AnswerRetriedUncounted(a) ==
  /\ Received(a)
  /\ RetryPossible(a) /\ call.attempt < MaxRetries
  /\ call' = [call EXCEPT !.stage = "sleep", !.delay = Backoff(call.attempt, retryAfter'),
                          !.last = Judged(a, call.attempt).category]
  /\ UNCHANGED <<retries, result>>

AnswerRetried(a) ==
  /\ Received(a)
  /\ RetryPossible(a) /\ call.attempt < MaxRetries
  /\ call' = [call EXCEPT !.stage = "sleep",
                          !.attempt = @ + 1,
                          !.delay = Backoff(call.attempt, retryAfter'),
                          !.last = Judged(a, call.attempt).category]
  /\ UNCHANGED <<retries, result>>

Sleep ==
  /\ call.stage = "sleep"
  /\ elapsed' = elapsed + call.delay
  /\ call' = [call EXCEPT !.stage = "attempt", !.delay = 0]
  /\ UNCHANGED <<context, prepared, counters, retryAfter, result, wire>>

----------------------------------------------------------------------------
\* Steps of the calls once they are made, and any caller.

Continue ==
  \/ \E p \in Preflights : PreflightAnswer(p)
  \/ AttemptDenied
  \/ Post
  \/ \E a \in Answers : AnswerFinal(a) \/ AnswerRetried(a)
  \/ Sleep

Prepare == \E c \in Contexts : PrepareRefused(c) \/ PrepareStart(c)

Review == \E tokens \in ChunkTokens : ReviewRefused(tokens) \/ ReviewStart(tokens)

Next == Prepare \/ Review \/ Continue

Spec == ProviderInit /\ [][Next]_providerVars

----------------------------------------------------------------------------
\* Properties.

CallType ==
  [stage : {"idle", "preflight", "attempt", "post", "sleep"}, tokens : Nat, attempt : Nat,
   delay : Nat, last : Categories \cup {"none"}]

ResultType ==
  [outcome : {"none", "ready", "raised", "failed", "reviewed"},
   category : Categories \cup {"none"}, retries : Nat]

\* Every variable holds a value of its type; a chunk is being reviewed only by a
\* provider that passed its preflight.
TypeOK ==
  /\ context \in Contexts \cup {NoContext}
  /\ prepared \in BOOLEAN
  /\ requests \in Nat /\ inTokens \in Nat /\ outTokens \in Nat /\ retries \in Nat
  /\ retryAfter \in Nat /\ elapsed \in Nat
  /\ call \in CallType
  /\ call.stage \in {"attempt", "post", "sleep"} => prepared
  /\ result \in ResultType
  /\ posts \in Nat /\ submitted \in Nat

\* No quota of the run is ever exceeded: not by the retries of a chunk, nor by an
\* answer that reports more output than is left.
QuotasRespected ==
  /\ requests <= MaxRequests
  /\ inTokens <= MaxInput
  /\ outTokens <= MaxOutput

\* No chunk is sent more often than either of the two limits on its attempts
\* allows, whichever is the smaller.
AttemptsBounded == posts <= MaxRetries + 1 /\ posts <= MaxRequestsPerChunk

\* The run outlasts its deadline by less than one request and the wait after it,
\* however the retries of its chunks and their Retry-After add up.
OverrunBounded == elapsed < Deadline + LongestRequest + MaxDelay

\* README.md:113: what is tried again are rate limits, network failures,
\* timeouts, provider failures and invalid answers; never a rejected credential,
\* an unsupported request, a privacy refusal or a payload that is too large.
OnlyTransientRetried ==
  call.stage # "idle" /\ call.attempt > 0 =>
    call.last \in {"rate_limited", "network_timeout", "provider_unavailable",
                   "invalid_structured_response"}

\* A chunk is charged once, however often it is sent ("Submitted input-token budget" in
\* README.md:96 is not what the code bounds); but what is really sent, retries included,
\* stays within the input budget times the attempts a chunk may have.
SubmittedBounded == submitted <= MaxInput * Smaller(MaxRetries + 1, MaxRequestsPerChunk)

=============================================================================
