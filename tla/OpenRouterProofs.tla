--------------------------- MODULE OpenRouterProofs ---------------------------
(***************************************************************************)
(* Proofs about module OpenRouter, for every configuration, every caller   *)
(* and every service: the quotas of a run, the attempts for a chunk, the   *)
(* time a run takes and the tokens that go over the wire are bounded, and  *)
(* only what may succeed later is tried again.                             *)
(***************************************************************************)
EXTENDS OpenRouter, FiniteSetTheorems, TLAPS

USE DEF ValidConfig

\* What an attempt may repeat.
Transient ==
  {"rate_limited", "network_timeout", "provider_unavailable", "invalid_structured_response"}

\* The attempts a chunk may have.
Attempts == Smaller(MaxRetries + 1, MaxRequestsPerChunk)

\* What each stage of a call knows.  A request is only made before the deadline,
\* so its wait starts at most one request after it; the attempts are the requests
\* made for the chunk, less the one that is awaited.
InCall ==
  /\ call.stage \in {"preflight", "post"} => elapsed < Deadline
  /\ call.stage = "sleep" => elapsed < Deadline + LongestRequest /\ call.delay <= MaxDelay
  /\ call.stage \in {"attempt", "post", "sleep"} => call.attempt <= MaxRetries
  /\ call.stage \in {"attempt", "sleep"} => posts = call.attempt
  /\ call.stage = "post" => posts = call.attempt + 1

\* The tokens sent, and those the current chunk may still send, are paid for by
\* what was charged.
Paid ==
  /\ submitted <= Attempts * inTokens
  /\ call.stage \in {"attempt", "post", "sleep"} /\ posts > 0 =>
       submitted + (Attempts - posts) * call.tokens <= Attempts * inTokens

\* The inductive invariant.
Invariant ==
  /\ TypeOK
  /\ QuotasRespected
  /\ AttemptsBounded
  /\ OverrunBounded
  /\ OnlyTransientRetried
  /\ InCall
  /\ Paid

-----------------------------------------------------------------------------
\* Facts about the constants and the operators.

\* A power of two is a number: it counts the subsets of an interval.
LEMMA PowerType == ASSUME NEW n \in Nat PROVE 2^n \in Nat
<1>1. IsFiniteSet(1..n) /\ Cardinality(1..n) = n
  BY FS_Interval
<1>2. IsFiniteSet(SUBSET (1..n)) /\ Cardinality(SUBSET (1..n)) = 2^n
  BY <1>1, FS_SUBSET
<1> QED
  BY <1>2, FS_CardinalityType

\* The wait before a retry is bounded, whatever the service asks for.
LEMMA BackoffBounded ==
  ASSUME NEW n \in Nat, NEW after \in Nat
  PROVE  Backoff(n, after) \in Nat /\ Backoff(n, after) <= MaxDelay
<1> DEFINE p == 2^n
<1>1. p \in Nat
  BY PowerType
<1> HIDE DEF p
<1>2. InitialDelay * p \in Nat
  BY <1>1, ConfigAssumption
<1> DEFINE q == InitialDelay * p
<1> HIDE DEF q
<1>3. /\ Smaller(Larger(q, after), MaxDelay) \in Nat
      /\ Smaller(Larger(q, after), MaxDelay) <= MaxDelay
  BY <1>2, ConfigAssumption DEF Smaller, Larger, q
<1> QED
  BY <1>3 DEF Backoff, p, q

\* A chunk may be sent once at least.
LEMMA AttemptsType ==
  /\ Attempts \in Nat /\ Attempts >= 1
  /\ Attempts <= MaxRetries + 1 /\ Attempts <= MaxRequestsPerChunk
  /\ \A n \in Nat : n <= MaxRetries + 1 /\ n <= MaxRequestsPerChunk => n <= Attempts
BY ConfigAssumption DEF Attempts, Smaller, Pos

\* A failure of a known category is a result.
LEMMA FailureType ==
  ASSUME NEW category \in Categories, NEW n \in Nat
  PROVE  Failure(category, n) \in ResultType /\ Failure(category, n).category = category
BY DEF Failure, ResultType

\* The categories the checks of the provider report.
LEMMA KnownCategories ==
  {"configuration_error", "quota_exhausted", "payload_too_large", "unsupported_capability",
   "privacy_requirement_unavailable", "invalid_structured_response"} \subseteq Categories
<1>1. /\ "too_large" \in DOMAIN Refusals /\ Refusals["too_large"] = "payload_too_large"
      /\ "unsupported" \in DOMAIN Refusals
      /\ Refusals["unsupported"] = "unsupported_capability"
      /\ "privacy" \in DOMAIN Refusals
      /\ Refusals["privacy"] = "privacy_requirement_unavailable"
      /\ "garbled" \in DOMAIN Refusals
      /\ Refusals["garbled"] = "invalid_structured_response"
  BY DEF Refusals
<1> QED
  BY <1>1 DEF Categories

\* What the preflight reports is a category as well.
LEMMA PreflightCategories ==
  \A k \in DOMAIN PreflightRefusals : PreflightRefusals[k] \in Categories
<1>1. \A k \in DOMAIN PreflightRefusals :
        \E j \in DOMAIN Refusals : PreflightRefusals[k] = Refusals[j]
  BY DEF PreflightRefusals, Refusals
<1> QED
  BY <1>1 DEF Categories

\* What an answer is judged to be is a result; what is tried again is transient.
LEMMA JudgedType ==
  ASSUME NEW a \in Answer, NEW n \in Nat
  PROVE  /\ Judged(a, n) \in ResultType
         /\ RetryPossible(a) => Judged(a, n).category \in Transient
<1>1. CASE a.kind \in DOMAIN Refusals
  <2>1. Refusals[a.kind] \in Categories
    BY <1>1 DEF Categories
  <2>2. a.kind \notin Reviews
    BY <1>1 DEF Refusals, Reviews
  <2>3. Judged(a, n) = Failure(Refusals[a.kind], n)
    BY <1>1, <2>2 DEF Judged, OutputExhausted, Reviews
  <2>4. RetryPossible(a) => Refusals[a.kind] \in Transient
    BY <1>1, <2>2 DEF RetryPossible, Retryable, Reviews, Refusals, Transient
  <2> QED
    BY <2>1, <2>3, <2>4, FailureType
<1>2. CASE a.kind \notin DOMAIN Refusals /\ OutputExhausted(a)
  <2>1. Judged(a, n) = Failure("quota_exhausted", n)
    BY <1>2 DEF Judged
  <2> QED
    BY <1>2, <2>1, FailureType, KnownCategories DEF RetryPossible
<1>3. CASE a.kind \in {"bad_schema", "wrong_file"} /\ ~OutputExhausted(a)
  <2>1. a.kind \notin DOMAIN Refusals
    BY <1>3 DEF Refusals
  <2>2. Judged(a, n) = Failure("invalid_structured_response", n)
    BY <1>3, <2>1 DEF Judged
  <2> QED
    BY <2>2, FailureType, KnownCategories DEF Transient
<1>4. CASE a.kind = "valid" /\ ~OutputExhausted(a)
  <2>1. a.kind \notin DOMAIN Refusals
    BY <1>4 DEF Refusals
  <2>2. Judged(a, n) = Reviewed(n)
    BY <1>4, <2>1 DEF Judged
  <2>3. Reviewed(n) \in ResultType
    BY DEF Reviewed, ResultType
  <2> QED
    BY <1>4, <2>2, <2>3 DEF RetryPossible, Retryable
<1> QED
  BY <1>1, <1>2, <1>3, <1>4 DEF Answer, Reviews

\* Nothing changes when no step is taken.
LEMMA StutterKeeps ==
  ASSUME Invariant, UNCHANGED providerVars
  PROVE  Invariant'
BY DEF Invariant, providerVars, counters, wire, TypeOK, QuotasRespected, AttemptsBounded,
       OverrunBounded, OnlyTransientRetried, InCall, Paid

-----------------------------------------------------------------------------
\* Types.

LEMMA TypeInit == ProviderInit => TypeOK
<1>1. Idle \in CallType /\ Idle.stage = "idle"
  BY DEF Idle, Called, CallType
<1>2. NoResult \in ResultType
  BY DEF NoResult, ResultType
<1> SUFFICES ASSUME ProviderInit PROVE TypeOK
  OBVIOUS
<1>3. call = Idle /\ result = NoResult /\ context = NoContext
  BY DEF ProviderInit
<1>4. context \in Contexts \cup {NoContext}
  BY <1>3
<1>5. call \in CallType /\ call.stage = "idle" /\ result \in ResultType
  BY <1>1, <1>2, <1>3
<1> QED
  BY <1>4, <1>5 DEF ProviderInit, TypeOK

\* A call that starts, and the idle state, have their type.
LEMMA CalledType ==
  ASSUME NEW stage \in {"preflight", "attempt"}, NEW tokens \in Nat
  PROVE  /\ Called(stage, tokens) \in CallType
         /\ Called(stage, tokens).stage = stage
         /\ Called(stage, tokens).tokens = tokens
         /\ Called(stage, tokens).attempt = 0
BY DEF Called, CallType

LEMMA IdleType ==
  /\ Idle \in CallType
  /\ Idle.stage = "idle"
  /\ Idle.attempt = 0
BY DEF Idle, Called, CallType

LEMMA AnswersType == Answers \subseteq Answer
BY AnswersAssumption

LEMMA TypePrepare == TypeOK /\ Prepare => TypeOK'
<1> SUFFICES ASSUME TypeOK, NEW c \in Contexts, PrepareRefused(c) \/ PrepareStart(c)
             PROVE  TypeOK'
  BY DEF Prepare
<1>1. CASE PrepareRefused(c)
  <2>1. result' \in ResultType /\ call' = Idle
    BY <1>1, FailureType, KnownCategories DEF PrepareRefused, Return
  <2> QED
    BY <1>1, <2>1, IdleType DEF PrepareRefused, TypeOK, counters, wire
<1>2. CASE PrepareStart(c)
  <2>1. /\ result' \in ResultType
        /\ call' \in CallType
        /\ call'.stage \notin {"attempt", "post", "sleep"}
        /\ requests' \in Nat
    <3>1. CASE OverQuota(0, 0)
      <4>1. result' = Failure("quota_exhausted", 0) /\ call' = Idle /\ requests' = requests
        BY <1>2, <3>1 DEF PrepareStart, Return
      <4> QED
        BY <4>1, FailureType, KnownCategories, IdleType DEF TypeOK
    <3>2. CASE ~OverQuota(0, 0)
      <4>1. result' = result /\ call' = Called("preflight", 0) /\ requests' = requests + 1
        BY <1>2, <3>2 DEF PrepareStart
      <4> QED
        BY <4>1, CalledType DEF TypeOK
    <3> QED
      BY <3>1, <3>2
  <2> QED
    BY <1>2, <2>1 DEF PrepareStart, TypeOK, wire
<1> QED
  BY <1>1, <1>2

LEMMA TypePreflight == ASSUME TypeOK, NEW p \in Preflights, PreflightAnswer(p) PROVE TypeOK'
<1> DEFINE capable == {e \in p.endpoints : Capable(e, context)}
           ready == p.kind = "offered" /\ \E e \in capable : Private(e)
<1>1. p.duration \in Nat /\ p.kind \in DOMAIN PreflightRefusals \cup {"raises", "offered"}
  BY ServiceAssumption, ConfigAssumption
<1>2. Ready \in ResultType /\ Raised \in ResultType
  BY DEF Ready, Raised, ResultType
<1>3. prepared' = ready /\ call' = Idle /\ elapsed' = elapsed + p.duration
  BY DEF PreflightAnswer, Return
<1>4. prepared' \in BOOLEAN
  BY <1>3
<1>5. result' \in ResultType
  <2>1. result' = CASE p.kind = "raises" -> Raised
                    [] p.kind \in DOMAIN PreflightRefusals -> Failure(PreflightRefusals[p.kind], 0)
                    [] p.kind = "offered" /\ capable = {} -> Failure("unsupported_capability", 0)
                    [] p.kind = "offered" /\ capable # {} /\ ~ready ->
                         Failure("privacy_requirement_unavailable", 0)
                    [] OTHER -> Ready
    BY DEF PreflightAnswer, Return
  <2>2. p.kind \in DOMAIN PreflightRefusals => Failure(PreflightRefusals[p.kind], 0) \in ResultType
    BY FailureType, PreflightCategories
  <2>3. /\ Failure("unsupported_capability", 0) \in ResultType
        /\ Failure("privacy_requirement_unavailable", 0) \in ResultType
    BY FailureType, KnownCategories
  <2>4. /\ p.kind = "raises" \/ p.kind \in DOMAIN PreflightRefusals \/ p.kind = "offered"
        /\ p.kind = "offered" => capable = {} \/ ready \/ (capable # {} /\ ~ready)
    BY <1>1
  <2> HIDE DEF capable, ready
  <2> QED
    BY <1>2, <2>1, <2>2, <2>3, <2>4
<1> QED
  BY <1>1, <1>3, <1>4, <1>5, IdleType DEF PreflightAnswer, TypeOK, counters, wire

LEMMA TypeReview == TypeOK /\ Review => TypeOK'
<1> SUFFICES ASSUME TypeOK, NEW tokens \in ChunkTokens, ReviewRefused(tokens) \/ ReviewStart(tokens)
             PROVE  TypeOK'
  BY DEF Review
<1>1. CASE ReviewRefused(tokens)
  <2>1. result' \in ResultType /\ call' = Idle
    BY <1>1, FailureType, KnownCategories DEF ReviewRefused, Return
  <2> QED
    BY <1>1, <2>1, IdleType DEF ReviewRefused, TypeOK, counters
<1>2. CASE ReviewStart(tokens)
  <2>1. call' \in CallType /\ prepared /\ prepared' = prepared
    BY <1>2, CalledType, ServiceAssumption DEF ReviewStart, Pos
  <2> QED
    BY <1>2, <2>1 DEF ReviewStart, TypeOK, counters
<1> QED
  BY <1>1, <1>2

LEMMA TypePost == TypeOK /\ (AttemptDenied \/ Post \/ Sleep) => TypeOK'
<1> SUFFICES ASSUME TypeOK, AttemptDenied \/ Post \/ Sleep
             PROVE  TypeOK'
  OBVIOUS
<1>1. CASE AttemptDenied
  <2>1. result' \in ResultType /\ call' = Idle
    BY <1>1, FailureType, KnownCategories DEF AttemptDenied, Return, TypeOK, CallType
  <2> QED
    BY <1>1, <2>1, IdleType DEF AttemptDenied, TypeOK, counters, wire
<1>2. CASE Post
  <2>1. Charge \in Nat /\ call.tokens \in Nat
    BY DEF Charge, TypeOK, CallType
  <2>2. call' \in CallType /\ call'.stage = "post"
    BY <1>2 DEF Post, TypeOK, CallType
  <2>3. prepared
    BY <1>2 DEF Post, TypeOK
  <2> QED
    BY <1>2, <2>1, <2>2, <2>3 DEF Post, TypeOK
<1>3. CASE Sleep
  <2>1. call' \in CallType /\ call'.stage = "attempt"
    BY <1>3 DEF Sleep, TypeOK, CallType
  <2>2. prepared /\ elapsed' \in Nat
    BY <1>3 DEF Sleep, TypeOK, CallType
  <2> QED
    BY <1>3, <2>1, <2>2 DEF Sleep, TypeOK, counters, wire
<1> QED
  BY <1>1, <1>2, <1>3

LEMMA TypeAnswer ==
  ASSUME TypeOK, NEW a \in Answers, AnswerFinal(a) \/ AnswerRetried(a)
  PROVE  TypeOK'
<1>1. a \in Answer
  BY AnswersType
<1>2. call.attempt \in Nat /\ a.duration \in Nat /\ a.retryAfter \in Nat /\ a.out \in Nat
  BY <1>1, ConfigAssumption DEF TypeOK, CallType, Answer
<1>3. Counted(a) \in Nat
  BY <1>2 DEF Counted
<1>4. Received(a)
  BY DEF AnswerFinal, AnswerRetried
<1>5. elapsed' \in Nat /\ retryAfter' \in Nat /\ outTokens' \in Nat
  BY <1>2, <1>3, <1>4 DEF Received, TypeOK
<1>6. prepared
  BY <1>4 DEF Received, TypeOK
<1>7. Judged(a, call.attempt) \in ResultType
  BY <1>1, <1>2, JudgedType
<1>8. CASE AnswerFinal(a)
  <2>1. call' = Idle /\ result' = Judged(a, call.attempt) /\ retries' \in Nat
    BY <1>2, <1>8 DEF AnswerFinal, Return, TypeOK
  <2> QED
    BY <1>4, <1>5, <1>7, <2>1, IdleType DEF Received, TypeOK, wire
<1>9. CASE AnswerRetried(a)
  <2> DEFINE last == Judged(a, call.attempt).category
             delay == Backoff(call.attempt, retryAfter')
  <2>1. last \in Categories \cup {"none"}
    BY <1>7 DEF ResultType
  <2>2. delay \in Nat
    BY <1>2, <1>5, BackoffBounded
  <2>3. call' = [call EXCEPT !.stage = "sleep", !.attempt = call.attempt + 1, !.delay = delay,
                             !.last = last]
    BY <1>9, Zenon DEF AnswerRetried
  <2> HIDE DEF last, delay
  <2>4. call' \in CallType
    <3>1. call \in CallType
      BY DEF TypeOK
    <3>2. call' = [stage |-> "sleep", tokens |-> call.tokens, attempt |-> call.attempt + 1,
                   delay |-> delay, last |-> last]
      BY <2>3, <3>1 DEF CallType
    <3> QED
      BY <1>2, <2>1, <2>2, <3>1, <3>2 DEF CallType
  <2>5. retries' = retries /\ result' = result
    BY <1>9 DEF AnswerRetried
  <2> QED
    BY <1>4, <1>5, <1>6, <2>4, <2>5 DEF Received, TypeOK, wire
<1> QED
  BY <1>8, <1>9

\* Every step preserves the types.
LEMMA TypeStep == TypeOK /\ Next => TypeOK'
BY TypePrepare, TypePreflight, TypeReview, TypePost, TypeAnswer DEF Next, Continue

-----------------------------------------------------------------------------
\* The bounds on requests, tokens, attempts and time.

Bounds == QuotasRespected /\ AttemptsBounded /\ OverrunBounded /\ InCall

\* What the tests of a quota let through.
LEMMA WithinQuota ==
  ASSUME TypeOK, NEW tokens \in Nat, NEW attempts \in Nat, ~OverQuota(tokens, attempts)
  PROVE  /\ requests + 1 <= MaxRequests
         /\ attempts + 1 <= MaxRequestsPerChunk
         /\ inTokens + tokens <= MaxInput
         /\ elapsed < Deadline
BY ConfigAssumption DEF OverQuota, TypeOK, Pos

\* A call that returns, or one that starts, keeps the bounds.
LEMMA IdleInCall ==
  ASSUME call' = Idle
  PROVE  InCall'
BY IdleType DEF InCall

LEMMA BoundsInit == ProviderInit => Bounds
<1> SUFFICES ASSUME ProviderInit PROVE Bounds
  OBVIOUS
<1>1. QuotasRespected /\ AttemptsBounded
  BY ConfigAssumption DEF ProviderInit, QuotasRespected, AttemptsBounded, Pos
<1>2. OverrunBounded
  BY ConfigAssumption DEF ProviderInit, OverrunBounded, Pos
<1>3. InCall
  BY IdleType DEF ProviderInit, InCall
<1> QED
  BY <1>1, <1>2, <1>3 DEF Bounds

LEMMA BoundsPrepare == TypeOK /\ Bounds /\ Prepare => Bounds'
<1> SUFFICES ASSUME TypeOK, Bounds, NEW c \in Contexts, PrepareRefused(c) \/ PrepareStart(c)
             PROVE  Bounds'
  BY DEF Prepare
<1>1. CASE PrepareRefused(c)
  <2>1. UNCHANGED <<requests, inTokens, outTokens, posts, elapsed>> /\ call' = Idle
    BY <1>1 DEF PrepareRefused, Return, counters, wire
  <2> QED
    BY <2>1, IdleInCall DEF Bounds, QuotasRespected, AttemptsBounded, OverrunBounded
<1>2. CASE PrepareStart(c)
  <2>1. UNCHANGED <<inTokens, outTokens, posts, elapsed>>
    BY <1>2 DEF PrepareStart, wire
  <2>2. AttemptsBounded' /\ OverrunBounded'
    BY <2>1 DEF Bounds, AttemptsBounded, OverrunBounded
  <2>3. requests' <= MaxRequests /\ InCall'
    <3>1. CASE OverQuota(0, 0)
      <4>1. requests' = requests /\ call' = Idle
        BY <1>2, <3>1 DEF PrepareStart, Return
      <4> QED
        BY <4>1, IdleInCall DEF Bounds, QuotasRespected
    <3>2. CASE ~OverQuota(0, 0)
      <4>1. requests' = requests + 1 /\ call' = Called("preflight", 0)
        BY <1>2, <3>2 DEF PrepareStart
      <4>2. requests + 1 <= MaxRequests /\ elapsed < Deadline
        BY <3>2, WithinQuota
      <4>3. InCall'
        BY <2>1, <4>1, <4>2, CalledType DEF InCall
      <4> QED
        BY <4>1, <4>2, <4>3
    <3> QED
      BY <3>1, <3>2
  <2> QED
    BY <2>1, <2>2, <2>3 DEF Bounds, QuotasRespected
<1> QED
  BY <1>1, <1>2

LEMMA BoundsPreflight ==
  ASSUME TypeOK, Bounds, NEW p \in Preflights, PreflightAnswer(p)
  PROVE  Bounds'
<1>1. UNCHANGED <<requests, inTokens, outTokens, posts>> /\ call' = Idle
  BY DEF PreflightAnswer, Return, counters, wire
<1>2. p.duration \in Nat /\ p.duration <= LongestRequest
  BY ServiceAssumption, ConfigAssumption
<1>3. call.stage = "preflight" /\ elapsed' = elapsed + p.duration
  BY DEF PreflightAnswer
<1>4. elapsed < Deadline
  BY <1>3 DEF Bounds, InCall
<1>5. OverrunBounded'
  BY <1>2, <1>3, <1>4, ConfigAssumption DEF OverrunBounded, TypeOK, Pos
<1> QED
  BY <1>1, <1>5, IdleInCall DEF Bounds, QuotasRespected, AttemptsBounded

LEMMA BoundsReview == TypeOK /\ Bounds /\ Review => Bounds'
<1> SUFFICES ASSUME TypeOK, Bounds, NEW tokens \in ChunkTokens,
                    ReviewRefused(tokens) \/ ReviewStart(tokens)
             PROVE  Bounds'
  BY DEF Review
<1>1. UNCHANGED <<requests, inTokens, outTokens, elapsed>> /\ posts' = 0
  BY DEF ReviewRefused, ReviewStart, counters
<1>2. AttemptsBounded'
  BY <1>1, ConfigAssumption DEF AttemptsBounded, Pos
<1>3. InCall'
  <2>1. CASE ReviewRefused(tokens)
    BY <2>1, IdleInCall DEF ReviewRefused, Return
  <2>2. CASE ReviewStart(tokens)
    <3>1. call' = Called("attempt", tokens)
      BY <2>2 DEF ReviewStart
    <3>2. call'.stage = "attempt" /\ call'.attempt = 0
      BY <3>1, CalledType, ServiceAssumption DEF Pos
    <3> QED
      BY <1>1, <3>2, ConfigAssumption DEF InCall
  <2> QED
    BY <2>1, <2>2
<1> QED
  BY <1>1, <1>2, <1>3 DEF Bounds, QuotasRespected, OverrunBounded

LEMMA BoundsPost == TypeOK /\ Bounds /\ (AttemptDenied \/ Post \/ Sleep) => Bounds'
<1> SUFFICES ASSUME TypeOK, Bounds, AttemptDenied \/ Post \/ Sleep
             PROVE  Bounds'
  OBVIOUS
<1>1. CASE AttemptDenied
  <2>1. UNCHANGED <<requests, inTokens, outTokens, posts, elapsed>> /\ call' = Idle
    BY <1>1 DEF AttemptDenied, Return, counters, wire
  <2> QED
    BY <2>1, IdleInCall DEF Bounds, QuotasRespected, AttemptsBounded, OverrunBounded
<1>2. CASE Post
  <2>1. /\ Charge \in Nat /\ call.attempt \in Nat /\ call.attempt <= MaxRetries
        /\ posts = call.attempt
    BY <1>2 DEF Charge, Post, TypeOK, CallType, Bounds, InCall
  <2>2. /\ requests + 1 <= MaxRequests
        /\ call.attempt + 1 <= MaxRequestsPerChunk
        /\ inTokens + Charge <= MaxInput
        /\ elapsed < Deadline
    BY <1>2, <2>1, WithinQuota DEF Post
  <2>3. QuotasRespected'
    BY <1>2, <2>2 DEF Post, Bounds, QuotasRespected
  <2>4. AttemptsBounded'
    BY <1>2, <2>1, <2>2, ConfigAssumption DEF Post, AttemptsBounded, Pos
  <2>5. OverrunBounded'
    BY <1>2 DEF Post, Bounds, OverrunBounded
  <2>6. call'.stage = "post" /\ call'.attempt = call.attempt
    BY <1>2 DEF Post, TypeOK, CallType
  <2>7. InCall'
    BY <1>2, <2>1, <2>2, <2>6 DEF Post, InCall
  <2> QED
    BY <2>3, <2>4, <2>5, <2>7 DEF Bounds
<1>3. CASE Sleep
  <2>1. /\ call.attempt <= MaxRetries /\ posts = call.attempt
        /\ elapsed < Deadline + LongestRequest
        /\ call.delay <= MaxDelay /\ call.delay \in Nat
    BY <1>3 DEF Sleep, TypeOK, CallType, Bounds, InCall
  <2>2. call'.stage = "attempt" /\ call'.attempt = call.attempt
    BY <1>3 DEF Sleep, TypeOK, CallType
  <2>3. elapsed' = elapsed + call.delay /\ UNCHANGED <<requests, inTokens, outTokens, posts>>
    BY <1>3 DEF Sleep, counters, wire
  <2>4. OverrunBounded'
    BY <2>1, <2>3, ConfigAssumption DEF OverrunBounded, TypeOK, Pos
  <2>5. InCall'
    BY <2>1, <2>2, <2>3 DEF InCall
  <2> QED
    BY <2>3, <2>4, <2>5 DEF Bounds, QuotasRespected, AttemptsBounded
<1> QED
  BY <1>1, <1>2, <1>3

\* A retry waits no longer than the longest delay, and is one attempt more.
LEMMA RetriedCall ==
  ASSUME TypeOK, NEW a \in Answers, AnswerRetried(a)
  PROVE  /\ call'.stage = "sleep"
         /\ call'.tokens = call.tokens
         /\ call'.attempt = call.attempt + 1
         /\ call'.delay <= MaxDelay
         /\ call'.last = Judged(a, call.attempt).category
<1> DEFINE last == Judged(a, call.attempt).category
           delay == Backoff(call.attempt, retryAfter')
<1>1. call.attempt \in Nat /\ call \in CallType
  BY DEF TypeOK, CallType
<1>2. retryAfter' \in Nat
  BY TypeAnswer DEF TypeOK
<1>3. delay <= MaxDelay
  BY <1>1, <1>2, BackoffBounded
<1>4. call' = [call EXCEPT !.stage = "sleep", !.attempt = call.attempt + 1, !.delay = delay,
                           !.last = last]
  BY Zenon DEF AnswerRetried
<1> HIDE DEF last, delay
<1>5. call' = [stage |-> "sleep", tokens |-> call.tokens, attempt |-> call.attempt + 1,
               delay |-> delay, last |-> last]
  BY <1>1, <1>4 DEF CallType
<1>6. /\ call'.stage = "sleep"
      /\ call'.tokens = call.tokens
      /\ call'.attempt = call.attempt + 1
      /\ call'.delay <= MaxDelay
      /\ call'.last = last
  BY <1>3, <1>5
<1> QED
  BY <1>6 DEF last

LEMMA BoundsAnswer ==
  ASSUME TypeOK, Bounds, NEW a \in Answers, AnswerFinal(a) \/ AnswerRetried(a)
  PROVE  Bounds'
<1>1. Received(a)
  BY DEF AnswerFinal, AnswerRetried
<1>2. a.duration \in Nat /\ a.duration <= LongestRequest /\ a.out \in Nat
  BY AnswersType, ConfigAssumption DEF Answer
<1>3. /\ call.stage = "post" /\ elapsed < Deadline /\ elapsed' = elapsed + a.duration
      /\ posts = call.attempt + 1
      /\ UNCHANGED <<requests, inTokens, posts>>
  BY <1>1 DEF Received, Bounds, InCall, wire
<1>4. elapsed' < Deadline + LongestRequest
  BY <1>2, <1>3, ConfigAssumption DEF TypeOK, Pos
<1>5. OverrunBounded'
  BY <1>1, <1>4, ConfigAssumption, TypeAnswer DEF OverrunBounded, TypeOK, Pos
<1>6. outTokens' <= MaxOutput
  <2>1. outTokens' = outTokens + Counted(a)
    BY <1>1 DEF Received
  <2>2. CASE a.kind \in Reviews /\ ~OutputExhausted(a)
    BY <1>2, <2>1, <2>2, ConfigAssumption DEF Counted, OutputExhausted, TypeOK, Pos
  <2>3. CASE ~(a.kind \in Reviews /\ ~OutputExhausted(a))
    <3>1. Counted(a) = 0
      BY <2>3 DEF Counted
    <3> QED
      BY <2>1, <3>1 DEF Bounds, QuotasRespected, TypeOK
  <2> QED
    BY <2>2, <2>3
<1>7. InCall'
  <2>1. CASE AnswerFinal(a)
    BY <2>1, IdleInCall DEF AnswerFinal, Return
  <2>2. CASE AnswerRetried(a)
    <3>1. /\ call'.stage = "sleep" /\ call'.attempt = call.attempt + 1
          /\ call'.delay <= MaxDelay
      BY <2>2, RetriedCall
    <3>2. call.attempt \in Nat /\ call.attempt < MaxRetries
      BY <2>2 DEF AnswerRetried, TypeOK, CallType
    <3> QED
      BY <1>3, <1>4, <3>1, <3>2, ConfigAssumption DEF InCall
  <2> QED
    BY <2>1, <2>2
<1> QED
  BY <1>3, <1>5, <1>6, <1>7 DEF Bounds, QuotasRespected, AttemptsBounded

\* Every step keeps the bounds.
LEMMA BoundsStep == TypeOK /\ Bounds /\ Next => Bounds'
BY BoundsPrepare, BoundsPreflight, BoundsReview, BoundsPost, BoundsAnswer DEF Next, Continue

-----------------------------------------------------------------------------
\* The tokens that go over the wire.

\* The first request for a chunk pays for all that the chunk may have.
LEMMA FirstPaid ==
  ASSUME NEW k \in Nat, k >= 1, NEW i \in Nat, NEW s \in Nat, NEW t \in Nat, s <= k * i
  PROVE  s + t <= k * (i + t) /\ (s + t) + (k - 1) * t <= k * (i + t)
<1>1. k * (i + t) = k * i + k * t /\ (k - 1) * t = k * t - t
  OBVIOUS
<1>2. (k - 1) * t \in Nat
  OBVIOUS
<1>3. k * i \in Nat /\ k * t \in Nat
  OBVIOUS
<1> QED
  BY <1>1, <1>2, <1>3

\* A request that repeats one uses up what was paid.
LEMMA RepeatPaid ==
  ASSUME NEW k \in Nat, NEW b \in Nat, NEW s \in Nat, NEW t \in Nat, NEW p \in Nat,
         p + 1 <= k, s + (k - p) * t <= b
  PROVE  s + t <= b /\ (s + t) + (k - (p + 1)) * t <= b
<1>1. (k - p) * t = (k - (p + 1)) * t + t
  OBVIOUS
<1>2. (k - (p + 1)) * t \in Nat
  OBVIOUS
<1> QED
  BY <1>1, <1>2

LEMMA PaidInit == ProviderInit => Paid
<1> SUFFICES ASSUME ProviderInit PROVE Paid
  OBVIOUS
<1>1. Attempts * 0 = 0
  BY AttemptsType
<1> QED
  BY <1>1 DEF ProviderInit, Paid

\* A step that sends nothing, charges nothing and does not go back in the attempts
\* of the chunk.
LEMMA PaidKept ==
  ASSUME Paid, UNCHANGED <<inTokens, submitted>>,
         \/ call'.stage \notin {"attempt", "post", "sleep"}
         \/ posts' = 0
         \/ /\ call.stage \in {"attempt", "post", "sleep"}
            /\ posts' = posts /\ call'.tokens = call.tokens
  PROVE  Paid'
<1>1. submitted' <= Attempts * inTokens'
  BY DEF Paid
<1>2. CASE call'.stage \notin {"attempt", "post", "sleep"}
  BY <1>1, <1>2 DEF Paid
<1>3. CASE posts' = 0
  BY <1>1, <1>3 DEF Paid
<1>4. CASE /\ call.stage \in {"attempt", "post", "sleep"}
           /\ posts' = posts /\ call'.tokens = call.tokens
  BY <1>1, <1>4 DEF Paid
<1> QED
  BY <1>2, <1>3, <1>4

LEMMA PaidPost == ASSUME TypeOK, Bounds, Paid, Post PROVE Paid'
<1>1. /\ call.attempt \in Nat /\ call.tokens \in Nat /\ posts \in Nat
      /\ inTokens \in Nat /\ submitted \in Nat
  BY DEF TypeOK, CallType
<1>2. /\ call.stage = "attempt" /\ posts = call.attempt
      /\ posts' = posts + 1 /\ submitted' = submitted + call.tokens
      /\ inTokens' = inTokens + Charge
  BY DEF Post, Bounds, InCall
<1>3. call'.tokens = call.tokens
  BY DEF Post, TypeOK, CallType
<1>4. posts + 1 <= Attempts
  <2>1. AttemptsBounded'
    BY BoundsPost DEF Bounds
  <2> QED
    BY <1>1, <1>2, <2>1, AttemptsType DEF AttemptsBounded
<1>5. CASE posts = 0
  <2>1. inTokens' = inTokens + call.tokens
    BY <1>2, <1>5 DEF Charge
  <2>2. submitted <= Attempts * inTokens
    BY DEF Paid
  <2>3. /\ submitted + call.tokens <= Attempts * (inTokens + call.tokens)
        /\ (submitted + call.tokens) + (Attempts - 1) * call.tokens
             <= Attempts * (inTokens + call.tokens)
    BY <1>1, <2>2, FirstPaid, AttemptsType
  <2>4. posts' = 1
    BY <1>2, <1>5
  <2> QED
    BY <1>2, <1>3, <2>1, <2>3, <2>4 DEF Paid
<1>6. CASE posts # 0
  <2>1. inTokens' = inTokens
    BY <1>1, <1>2, <1>6 DEF Charge
  <2>2. posts > 0
    BY <1>1, <1>6
  <2>3. submitted + (Attempts - posts) * call.tokens <= Attempts * inTokens
    BY <1>2, <2>2 DEF Paid
  <2>4. Attempts * inTokens \in Nat
    BY <1>1, AttemptsType
  <2>5. /\ submitted + call.tokens <= Attempts * inTokens
        /\ (submitted + call.tokens) + (Attempts - (posts + 1)) * call.tokens
             <= Attempts * inTokens
    BY <1>1, <1>4, <2>3, <2>4, RepeatPaid, AttemptsType
  <2> QED
    BY <1>2, <1>3, <2>1, <2>5 DEF Paid
<1> QED
  BY <1>5, <1>6

\* Every step keeps what was sent paid for.
LEMMA PaidStep == TypeOK /\ Bounds /\ Paid /\ Next => Paid'
<1> SUFFICES ASSUME TypeOK, Bounds, Paid, Next PROVE Paid'
  OBVIOUS
<1>1. CASE Prepare
  <2> PICK c \in Contexts : PrepareRefused(c) \/ PrepareStart(c)
    BY <1>1 DEF Prepare
  <2>1. UNCHANGED <<inTokens, submitted>>
    BY DEF PrepareRefused, PrepareStart, counters, wire
  <2>2. call' = Idle \/ call' = Called("preflight", 0)
    BY DEF PrepareRefused, PrepareStart, Return
  <2>3. call'.stage \notin {"attempt", "post", "sleep"}
    BY <2>2, IdleType, CalledType
  <2> QED
    BY <2>1, <2>3, PaidKept
<1>2. CASE Review
  <2> PICK tokens \in ChunkTokens : ReviewRefused(tokens) \/ ReviewStart(tokens)
    BY <1>2 DEF Review
  <2>1. UNCHANGED <<inTokens, submitted>> /\ posts' = 0
    BY DEF ReviewRefused, ReviewStart, counters
  <2> QED
    BY <2>1, PaidKept
<1>3. CASE AttemptDenied \/ \E p \in Preflights : PreflightAnswer(p)
  <2>1. UNCHANGED <<inTokens, submitted>> /\ call' = Idle
    BY <1>3 DEF AttemptDenied, PreflightAnswer, Return, counters, wire
  <2> QED
    BY <2>1, PaidKept, IdleType
<1>4. CASE Post
  BY <1>4, PaidPost
<1>5. CASE \E a \in Answers : AnswerFinal(a) \/ AnswerRetried(a)
  <2> PICK a \in Answers : AnswerFinal(a) \/ AnswerRetried(a)
    BY <1>5
  <2>1. UNCHANGED <<inTokens, submitted, posts>> /\ call.stage = "post"
    BY DEF AnswerFinal, AnswerRetried, Received, wire
  <2>2. CASE AnswerFinal(a)
    <3>1. call' = Idle
      BY <2>2 DEF AnswerFinal, Return
    <3> QED
      BY <2>1, <3>1, PaidKept, IdleType
  <2>3. CASE AnswerRetried(a)
    <3>1. call'.tokens = call.tokens
      BY <2>3, RetriedCall
    <3> QED
      BY <2>1, <3>1, PaidKept
  <2> QED
    BY <2>2, <2>3
<1>6. CASE Sleep
  <2>1. UNCHANGED <<inTokens, submitted, posts>> /\ call.stage = "sleep"
    BY <1>6 DEF Sleep, counters, wire
  <2>2. call'.tokens = call.tokens
    BY <1>6 DEF Sleep, TypeOK, CallType
  <2> QED
    BY <2>1, <2>2, PaidKept
<1> QED
  BY <1>1, <1>2, <1>3, <1>4, <1>5, <1>6 DEF Next, Continue

-----------------------------------------------------------------------------
\* What is tried again.

\* A call that is not a retry has nothing to say of one.
LEMMA NoRetry == ASSUME call'.attempt = 0 PROVE OnlyTransientRetried'
BY DEF OnlyTransientRetried

LEMMA TransientStep == TypeOK /\ OnlyTransientRetried /\ Next => OnlyTransientRetried'
<1> SUFFICES ASSUME TypeOK, OnlyTransientRetried, Next
             PROVE  OnlyTransientRetried'
  OBVIOUS
<1>1. CASE Prepare
  <2>1. call' = Idle \/ call' = Called("preflight", 0)
    BY <1>1 DEF Prepare, PrepareRefused, PrepareStart, Return
  <2> QED
    BY <2>1, NoRetry, IdleType, CalledType
<1>2. CASE Review
  <2> PICK tokens \in ChunkTokens : ReviewRefused(tokens) \/ ReviewStart(tokens)
    BY <1>2 DEF Review
  <2>1. call' = Idle \/ call' = Called("attempt", tokens)
    BY DEF ReviewRefused, ReviewStart, Return
  <2>2. tokens \in Nat
    BY ServiceAssumption DEF Pos
  <2> QED
    BY <2>1, <2>2, NoRetry, IdleType, CalledType
<1>3. CASE \/ AttemptDenied
           \/ \E p \in Preflights : PreflightAnswer(p)
           \/ \E a \in Answers : AnswerFinal(a)
  <2>1. call' = Idle
    BY <1>3 DEF AttemptDenied, PreflightAnswer, AnswerFinal, Return
  <2> QED
    BY <2>1, NoRetry, IdleType
<1>4. CASE \E a \in Answers : AnswerRetried(a)
  <2> PICK a \in Answers : AnswerRetried(a)
    BY <1>4
  <2>1. a \in Answer /\ call.attempt \in Nat /\ RetryPossible(a)
    BY AnswersType DEF AnswerRetried, TypeOK, CallType
  <2>2. Judged(a, call.attempt).category \in Transient
    BY <2>1, JudgedType
  <2>3. call'.last \in Transient
    BY <2>2, RetriedCall
  <2> QED
    BY <2>3 DEF OnlyTransientRetried, Transient
<1>5. CASE Post
  <2>1. call'.attempt = call.attempt /\ call'.last = call.last /\ call.stage # "idle"
    BY <1>5 DEF Post, TypeOK, CallType
  <2> QED
    BY <2>1 DEF OnlyTransientRetried
<1>6. CASE Sleep
  <2>1. call'.attempt = call.attempt /\ call'.last = call.last /\ call.stage # "idle"
    BY <1>6 DEF Sleep, TypeOK, CallType
  <2> QED
    BY <2>1 DEF OnlyTransientRetried
<1> QED
  BY <1>1, <1>2, <1>3, <1>4, <1>5, <1>6 DEF Next, Continue

-----------------------------------------------------------------------------
\* The theorems.

\* The invariant holds initially and is kept by every step.
LEMMA Inductive ==
  /\ ProviderInit => Invariant
  /\ Invariant /\ [Next]_providerVars => Invariant'
<1>1. ProviderInit => OnlyTransientRetried
  BY IdleType DEF ProviderInit, OnlyTransientRetried
<1>2. ProviderInit => Invariant
  BY <1>1, TypeInit, BoundsInit, PaidInit DEF Invariant, Bounds
<1>3. Invariant /\ Next => Invariant'
  BY TypeStep, BoundsStep, PaidStep, TransientStep DEF Invariant, Bounds
<1> QED
  BY <1>2, <1>3, StutterKeeps

\* Everything the invariant says holds in every run.
LEMMA InvariantHolds == Spec => []Invariant
BY Inductive, PTL DEF Spec

\* The variables of the provider have their types, and only a provider that passed
\* its preflight reviews a chunk.
THEOREM ProviderTypeCorrect == Spec => []TypeOK
<1>1. Invariant => TypeOK
  BY DEF Invariant
<1> QED
  BY <1>1, InvariantHolds, PTL

\* No service, however it answers, makes the provider exceed a quota of the run.
THEOREM QuotasHold == Spec => []QuotasRespected
<1>1. Invariant => QuotasRespected
  BY DEF Invariant
<1> QED
  BY <1>1, InvariantHolds, PTL

\* Both limits on the attempts for a chunk hold, whichever is the smaller.
THEOREM AttemptsHold == Spec => []AttemptsBounded
<1>1. Invariant => AttemptsBounded
  BY DEF Invariant
<1> QED
  BY <1>1, InvariantHolds, PTL

\* A run outlasts its deadline by less than one request and one wait, for every
\* sequence of answers and of values of Retry-After.
THEOREM OverrunHolds == Spec => []OverrunBounded
<1>1. Invariant => OverrunBounded
  BY DEF Invariant
<1> QED
  BY <1>1, InvariantHolds, PTL

\* Only what may succeed later is tried again.
THEOREM RetriesHold == Spec => []OnlyTransientRetried
<1>1. Invariant => OnlyTransientRetried
  BY DEF Invariant
<1> QED
  BY <1>1, InvariantHolds, PTL

\* What goes over the wire stays within the input budget times the attempts a
\* chunk may have.
THEOREM SubmittedHolds == Spec => []SubmittedBounded
<1>1. Invariant => SubmittedBounded
  <2> SUFFICES ASSUME Invariant PROVE SubmittedBounded
    OBVIOUS
  <2>1. submitted <= Attempts * inTokens /\ inTokens <= MaxInput
    BY DEF Invariant, Paid, QuotasRespected
  <2>2. inTokens \in Nat /\ submitted \in Nat /\ MaxInput \in Nat /\ Attempts \in Nat
    BY ConfigAssumption, AttemptsType DEF Invariant, TypeOK, Pos
  <2>3. Attempts * inTokens <= MaxInput * Attempts
    BY <2>1, <2>2
  <2>4. submitted <= MaxInput * Attempts
    BY <2>1, <2>2, <2>3
  <2> QED
    BY <2>4 DEF SubmittedBounded, Attempts
<1> QED
  BY <1>1, InvariantHolds, PTL

=============================================================================
