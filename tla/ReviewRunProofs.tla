---------------------------- MODULE ReviewRunProofs ----------------------------
(***************************************************************************)
(* Proofs about module ReviewRun, for every plan, every configuration of   *)
(* the provider and every service: a run keeps to the provider's protocol, *)
(* so that what is proved of the provider holds of the run; every chunk is *)
(* accounted for; and what the comment says was reviewed was.              *)
(***************************************************************************)
EXTENDS ReviewRun, OpenRouterProofs

\* What the provider may answer about a chunk it made no request for.
RunRefusals == {"quota_exhausted", "payload_too_large"}

\* The provider works only while the runner awaits it.
Turns ==
  /\ runStage \in {"start", "chunks", "aggregate", "done"} => call.stage = "idle"
  /\ runStage = "preparing" => call.stage \in {"idle", "preflight"}
  /\ runStage = "reviewing" => call.stage # "preflight"

\* Chunks are reviewed only by a provider whose preparation succeeded.
Preparation ==
  /\ runStage = "start" => ~prepared /\ result.outcome = "none"
  /\ runStage = "preparing" /\ call.stage = "preflight" => ~prepared /\ result.outcome = "none"
  /\ runStage = "preparing" /\ call.stage = "idle" =>
       /\ result.outcome \in {"ready", "failed", "raised"}
       /\ result.outcome = "ready" <=> prepared
       /\ result.outcome = "failed" => result.category # "none"
  /\ runStage \in {"chunks", "reviewing"} => prepared

\* A chunk without a request is one the provider refused.
Reported ==
  runStage = "reviewing" =>
    /\ call.stage = "post" => Current \in asked
    /\ call.stage = "idle" =>
         /\ result.outcome = "reviewed" => result.category = "none"
         /\ Current \notin asked => result.category \in RunRefusals

\* How many results there are at each point of the run, and what they say.
Filed ==
  /\ Len(results) <= Len(plan.chunks)
  /\ runStage \in {"start", "preparing"} => results = <<>> /\ asked = {}
  /\ runStage = "preparing" => plan.chunks # <<>>
  /\ runStage = "reviewing" => Current \in Chunks
  /\ runStage \in {"aggregate", "done"} => Len(results) = Len(plan.chunks)
  /\ \A i \in DOMAIN results :
       /\ results[i].findings => Succeeded(results[i])
       /\ Succeeded(results[i]) => i \in asked
       /\ prepared /\ i \notin asked => results[i].category \in RunRefusals

Good == {i \in Chunks : Succeeded(results[i])}

\* The review tells what the results say.
Told ==
  runStage = "done" =>
    review = [processed       |-> Good,
              failed          |-> Chunks \ Good,
              findings        |-> \E i \in Good : results[i].findings,
              partial         |-> Good # {} /\ Chunks \ Good # {},
              aiReviewSkipped |-> plan.chunks # <<>> /\ Good = {},
              statuses        |-> FileStatuses]

ResultOfChunk ==
  [chunk : Pos, category : Categories \cup {"none", "exception"}, findings : BOOLEAN]

\* The types of the variables of the run.
RunTypes ==
  /\ plan \in Plans
  /\ runStage \in {"start", "preparing", "chunks", "reviewing", "aggregate", "done"}
  /\ results \in Seq(ResultOfChunk)
  /\ \A i \in DOMAIN results : results[i].chunk = i /\ i \in Chunks
  /\ asked \subseteq Chunks

\* The inductive invariant, beside that of the provider.
RunInvariant == RunTypes /\ Turns /\ Preparation /\ Reported /\ Filed /\ Told

-----------------------------------------------------------------------------
\* The run keeps to the protocol of the provider.

LEMMA PlanType ==
  ASSUME plan \in Plans
  PROVE  /\ plan.chunks \in Seq([tokens : ChunkTokens, files : SUBSET Files])
         /\ Len(plan.chunks) \in Nat
         /\ Chunks = 1..Len(plan.chunks)
         /\ plan.leftOut \subseteq Files
         /\ plan.filtered \in [Files -> Statuses]
<1> DEFINE C == [tokens : ChunkTokens, files : SUBSET Files]
<1>1. plan \in [chunks : Seq(C), leftOut : SUBSET Files, filtered : [Files -> Statuses]]
  BY PlansAssumption DEF Plan
<1> HIDE DEF C
<1>2. plan.chunks \in Seq(C)
  BY <1>1
<1>3. plan.leftOut \subseteq Files /\ plan.filtered \in [Files -> Statuses]
  BY <1>1
<1>4. Len(plan.chunks) \in Nat /\ DOMAIN plan.chunks = 1..Len(plan.chunks)
  BY <1>2
<1> QED
  BY <1>2, <1>3, <1>4 DEF Chunks, C

\* A call of review sends a chunk of the plan.
LEMMA ReviewIsCalled == ASSUME plan \in Plans, CallReview PROVE Review
<1> DEFINE tokens == plan.chunks[Current].tokens
<1>1. Current \in Chunks /\ (ReviewRefused(tokens) \/ ReviewStart(tokens))
  BY DEF CallReview
<1>2. plan.chunks[Current] \in [tokens : ChunkTokens, files : SUBSET Files]
  <2> DEFINE C == [tokens : ChunkTokens, files : SUBSET Files]
  <2>1. plan.chunks \in Seq(C) /\ Current \in DOMAIN plan.chunks
    BY <1>1, PlanType DEF Chunks
  <2> HIDE DEF C
  <2>2. plan.chunks[Current] \in C
    BY <2>1
  <2> QED
    BY <2>2 DEF C
<1>3. tokens \in ChunkTokens
  BY <1>2
<1> HIDE DEF tokens
<1> QED
  BY <1>1, <1>3 DEF Review

LEMMA ProviderStep ==
  ASSUME plan \in Plans, [RunNext]_vars
  PROVE  [Next]_providerVars /\ plan' = plan
<1>1. CASE NothingToReview
  BY <1>1 DEF NothingToReview
<1>2. CASE CallPrepare
  BY <1>2 DEF CallPrepare, Next
<1>3. CASE Await
  BY <1>3 DEF Await, Next
<1>4. CASE Prepared
  BY <1>4 DEF Prepared
<1>5. CASE PreparationFailed
  BY <1>5 DEF PreparationFailed
<1>6. CASE CallReview
  <2>1. plan' = plan
    BY <1>6 DEF CallReview
  <2> QED
    BY <1>6, <2>1, ReviewIsCalled DEF Next
<1>7. CASE ChunkDone
  BY <1>7 DEF ChunkDone
<1>8. CASE ChunkRaises
  BY <1>8 DEF ChunkRaises
<1>9. CASE ChunksDone
  BY <1>9 DEF ChunksDone
<1>10. CASE Aggregate
  BY <1>10 DEF Aggregate
<1>11. CASE UNCHANGED vars
  BY <1>11 DEF vars, runVars
<1> QED
  BY <1>1, <1>2, <1>3, <1>4, <1>5, <1>6, <1>7, <1>8, <1>9, <1>10, <1>11 DEF RunNext, Done

LEMMA PlanKept == RunSpec => [](plan \in Plans)
<1>1. Init => plan \in Plans
  BY DEF Init
<1>2. plan \in Plans /\ [RunNext]_vars => (plan \in Plans)'
  BY ProviderStep
<1> QED
  BY <1>1, <1>2, PTL DEF RunSpec

\* The runner uses the provider as module OpenRouter assumes of any caller: prepare once
\* and first, then one review at a time, each of a chunk of the plan.  Whatever is proved
\* of the provider holds of a run.
THEOREM RunUsesProvider == RunSpec => Spec
<1>1. Init => ProviderInit
  BY DEF Init
<1>2. plan \in Plans /\ [RunNext]_vars => [Next]_providerVars
  BY ProviderStep
<1> QED
  BY <1>1, <1>2, PlanKept, PTL DEF RunSpec, Spec

LEMMA ProviderInvariant == RunSpec => []Invariant
BY RunUsesProvider, InvariantHolds, PTL

-----------------------------------------------------------------------------
\* Every step keeps the invariant.

LEMMA NoneIsNoCategory == "none" \notin Categories
<1>1. \A k \in DOMAIN Refusals : Refusals[k] # "none"
  BY DEF Refusals
<1> QED
  BY <1>1 DEF Categories

\* What the outcome of an answer says of its category.
LEMMA JudgedOutcome ==
  ASSUME NEW a \in Answer, NEW n \in Nat
  PROVE  Judged(a, n).outcome = "reviewed" => Judged(a, n).category = "none"
<1>1. CASE a.kind \in DOMAIN Refusals
  <2>1. Judged(a, n) = Failure(Refusals[a.kind], n)
    BY <1>1 DEF Judged, OutputExhausted, Reviews, Refusals
  <2> QED
    BY <2>1 DEF Failure
<1>2. CASE a.kind \notin DOMAIN Refusals /\ OutputExhausted(a)
  <2>1. Judged(a, n) = Failure("quota_exhausted", n)
    BY <1>2 DEF Judged
  <2> QED
    BY <2>1 DEF Failure
<1>3. CASE a.kind \in {"bad_schema", "wrong_file"} /\ ~OutputExhausted(a)
  <2>1. Judged(a, n) = Failure("invalid_structured_response", n)
    BY <1>3 DEF Judged, Refusals
  <2> QED
    BY <2>1 DEF Failure
<1>4. CASE a.kind = "valid" /\ ~OutputExhausted(a)
  <2>1. Judged(a, n) = Reviewed(n)
    BY <1>4 DEF Judged, Refusals
  <2> QED
    BY <2>1 DEF Reviewed
<1> QED
  BY <1>1, <1>2, <1>3, <1>4 DEF Answer, Reviews

\* A result that is added names its chunk and has its type.
LEMMA AppendResult ==
  ASSUME RunTypes, NEW r \in ResultOfChunk, r.chunk = Current, Current \in Chunks
  PROVE  LET longer == Append(results, r)
         IN  /\ longer \in Seq(ResultOfChunk)
             /\ Len(longer) = Len(results) + 1
             /\ DOMAIN longer = 1..(Len(results) + 1)
             /\ \A i \in DOMAIN results : longer[i] = results[i]
             /\ longer[Current] = r
             /\ \A i \in DOMAIN longer : i \in DOMAIN results \/ i = Current
BY DEF RunTypes, Current

LEMMA RunInit == Init => RunInvariant
<1> SUFFICES ASSUME Init PROVE RunInvariant
  OBVIOUS
<1>1. /\ runStage = "start" /\ call.stage = "idle" /\ ~prepared /\ result.outcome = "none"
      /\ results = <<>> /\ asked = {} /\ plan \in Plans
  BY IdleType DEF Init, ProviderInit, NoResult
<1>2. RunTypes
  BY <1>1 DEF RunTypes
<1>3. Filed
  BY <1>1, PlanType DEF Filed
<1>4. Turns /\ Preparation /\ Reported /\ Told
  BY <1>1 DEF Turns, Preparation, Reported, Told
<1> QED
  BY <1>2, <1>3, <1>4 DEF RunInvariant

LEMMA RunNothing == ASSUME RunInvariant, NothingToReview PROVE RunInvariant'
<1>1. /\ runStage = "start" /\ runStage' = "aggregate" /\ plan.chunks = <<>>
      /\ UNCHANGED <<plan, results, asked, review>>
      /\ UNCHANGED <<call, result, prepared>>
  BY DEF NothingToReview, providerVars
<1>2. results = <<>> /\ asked = {} /\ call.stage = "idle"
  BY <1>1 DEF RunInvariant, Filed, Turns
<1>3. RunTypes'
  BY <1>1 DEF RunInvariant, RunTypes, Chunks
<1>4. Filed'
  BY <1>1, <1>2 DEF Filed
<1> QED
  BY <1>1, <1>2, <1>3, <1>4 DEF RunInvariant, Turns, Preparation, Reported, Told

LEMMA RunCallPrepare == ASSUME RunInvariant, CallPrepare PROVE RunInvariant'
<1>1. /\ runStage = "start" /\ runStage' = "preparing" /\ plan.chunks # <<>>
      /\ UNCHANGED <<plan, results, asked, review>>
  BY DEF CallPrepare
<1>2. PICK c \in Contexts : PrepareRefused(c) \/ PrepareStart(c)
  BY DEF CallPrepare, Prepare
<1>3. results = <<>> /\ asked = {} /\ ~prepared /\ result.outcome = "none"
  BY <1>1 DEF RunInvariant, Filed, Preparation
<1>4. /\ ~prepared'
      /\ \/ /\ call'.stage = "idle" /\ result'.outcome = "failed"
            /\ result'.category \in Categories
         \/ call'.stage = "preflight" /\ result' = result
  <2>1. prepared' = prepared
    BY <1>2 DEF PrepareRefused, PrepareStart
  <2>2. CASE PrepareRefused(c)
    BY <1>3, <2>1, <2>2, IdleType, KnownCategories DEF PrepareRefused, Return, Failure
  <2>3. CASE PrepareStart(c) /\ OverQuota(0, 0)
    BY <1>3, <2>1, <2>3, IdleType, KnownCategories DEF PrepareStart, Return, Failure
  <2>4. CASE PrepareStart(c) /\ ~OverQuota(0, 0)
    BY <1>3, <2>1, <2>4 DEF PrepareStart, Called
  <2> QED
    BY <1>2, <2>2, <2>3, <2>4
<1>5. RunTypes'
  BY <1>1 DEF RunInvariant, RunTypes, Chunks
<1>6. Filed'
  BY <1>1, <1>3 DEF RunInvariant, Filed
<1>7. Turns' /\ Preparation'
  BY <1>1, <1>3, <1>4, NoneIsNoCategory DEF Turns, Preparation
<1> QED
  BY <1>1, <1>5, <1>6, <1>7 DEF RunInvariant, Reported, Told

\* The provider's answer to prepare.
LEMMA RunAwaitPrepare ==
  ASSUME TypeOK, RunInvariant, Await, runStage = "preparing"
  PROVE  RunInvariant'
<1>1. UNCHANGED <<plan, runStage, results, review>>
  BY DEF Await
<1>2. call.stage \in {"idle", "preflight"} /\ asked = {} /\ results = <<>> /\ plan.chunks # <<>>
  BY DEF RunInvariant, Turns, Filed
<1>3. PICK p \in Preflights : PreflightAnswer(p)
  BY <1>2 DEF Await, Continue, AttemptDenied, Post, AnswerFinal, AnswerRetried, Received, Sleep
<1>4. call' = Idle /\ call'.stage = "idle"
  BY <1>3, IdleType DEF PreflightAnswer, Return
<1>5. asked' = asked
  BY <1>4 DEF Await
<1>6. /\ result'.outcome \in {"ready", "failed", "raised"}
      /\ result'.outcome = "ready" <=> prepared'
      /\ result'.outcome = "failed" => result'.category # "none"
  <2> DEFINE capable == {e \in p.endpoints : Capable(e, context)}
             ready == p.kind = "offered" /\ \E e \in capable : Private(e)
  <2>1. p.kind \in DOMAIN PreflightRefusals \cup {"raises", "offered"}
    BY ServiceAssumption
  <2>2. /\ prepared' = ready
        /\ result' = CASE p.kind = "raises" -> Raised
                       [] p.kind \in DOMAIN PreflightRefusals ->
                            Failure(PreflightRefusals[p.kind], 0)
                       [] p.kind = "offered" /\ capable = {} ->
                            Failure("unsupported_capability", 0)
                       [] p.kind = "offered" /\ capable # {} /\ ~ready ->
                            Failure("privacy_requirement_unavailable", 0)
                       [] OTHER -> Ready
    BY <1>3 DEF PreflightAnswer, Return
  <2>3. "raises" \notin DOMAIN PreflightRefusals /\ "offered" \notin DOMAIN PreflightRefusals
    BY DEF PreflightRefusals
  <2>4. ready => p.kind = "offered" /\ capable # {}
    OBVIOUS
  <2> HIDE DEF capable, ready
  <2>5. CASE p.kind = "raises"
    <3>1. result' = Raised
      BY <2>2, <2>3, <2>5
    <3> QED
      BY <2>2, <2>4, <2>5, <3>1 DEF Raised
  <2>6. CASE p.kind \in DOMAIN PreflightRefusals
    <3>1. result' = Failure(PreflightRefusals[p.kind], 0)
      BY <2>2, <2>3, <2>6
    <3> QED
      BY <2>2, <2>3, <2>4, <2>6, <3>1, PreflightCategories, NoneIsNoCategory DEF Failure
  <2>7. CASE p.kind = "offered" /\ capable = {}
    <3>1. result' = Failure("unsupported_capability", 0)
      BY <2>2, <2>3, <2>7
    <3> QED
      BY <2>2, <2>4, <2>7, <3>1 DEF Failure
  <2>8. CASE p.kind = "offered" /\ capable # {} /\ ~ready
    <3>1. result' = Failure("privacy_requirement_unavailable", 0)
      BY <2>2, <2>3, <2>8
    <3> QED
      BY <2>2, <2>8, <3>1 DEF Failure
  <2>9. CASE p.kind = "offered" /\ capable # {} /\ ready
    <3>1. result' = Ready
      BY <2>2, <2>3, <2>9
    <3> QED
      BY <2>2, <2>9, <3>1 DEF Ready
  <2> QED
    BY <2>1, <2>5, <2>6, <2>7, <2>8, <2>9
<1>7. Preparation' /\ Turns'
  BY <1>1, <1>4, <1>6 DEF Preparation, Turns
<1>8. RunTypes'
  BY <1>1, <1>5 DEF RunInvariant, RunTypes, Chunks
<1>9. Filed'
  BY <1>1, <1>2, <1>5 DEF RunInvariant, Filed
<1> QED
  BY <1>1, <1>7, <1>8, <1>9 DEF RunInvariant, Reported, Told

\* The provider's work on a chunk.
LEMMA RunAwaitReview ==
  ASSUME TypeOK, RunInvariant, Await, runStage = "reviewing"
  PROVE  RunInvariant'
<1>1. UNCHANGED <<plan, runStage, results, review>>
  BY DEF Await
<1>2. call.stage # "preflight" /\ prepared /\ Current \in Chunks
  BY DEF RunInvariant, Turns, Preparation, Filed
<1>3. asked' = IF call'.stage = "post" THEN asked \cup {Current} ELSE asked
  BY DEF Await
<1>4. \/ AttemptDenied \/ Post \/ Sleep
      \/ \E a \in Answers : AnswerFinal(a) \/ AnswerRetried(a)
  BY <1>2 DEF Await, Continue, PreflightAnswer
<1>5. prepared' = prepared
  BY <1>4 DEF AttemptDenied, Post, Sleep, AnswerFinal, AnswerRetried, Received
<1>6. /\ call'.stage # "preflight"
      /\ call'.stage = "idle" =>
           /\ result'.outcome = "reviewed" => result'.category = "none"
           /\ Current \notin asked => result'.category \in RunRefusals
  <2>1. CASE AttemptDenied
    <3>1. result' = Failure("quota_exhausted", call.attempt)
      BY <2>1 DEF AttemptDenied, Return
    <3>2. call'.stage = "idle"
      BY <2>1, IdleType DEF AttemptDenied, Return
    <3> QED
      BY <3>1, <3>2 DEF Failure, RunRefusals
  <2>2. CASE Post
    <3>1. call'.stage = "post"
      BY <2>2 DEF Post, TypeOK, CallType
    <3> QED
      BY <3>1
  <2>3. CASE Sleep
    <3>1. call'.stage = "attempt"
      BY <2>3 DEF Sleep, TypeOK, CallType
    <3> QED
      BY <3>1
  <2>4. ASSUME NEW a \in Answers, AnswerFinal(a)
        PROVE  /\ call'.stage = "idle" /\ Current \in asked
               /\ result'.outcome = "reviewed" => result'.category = "none"
    <3>1. call' = Idle /\ result' = Judged(a, call.attempt) /\ call.stage = "post"
      BY <2>4 DEF AnswerFinal, Received, Return
    <3>2. call.attempt \in Nat
      BY DEF TypeOK, CallType
    <3>3. Current \in asked
      BY <3>1 DEF RunInvariant, Reported
    <3> QED
      BY <3>1, <3>2, <3>3, IdleType, AnswersType, JudgedOutcome
  <2>5. ASSUME NEW a \in Answers, AnswerRetried(a)
        PROVE  call'.stage = "sleep"
    BY <2>5 DEF AnswerRetried, TypeOK, CallType
  <2> QED
    BY <1>4, <2>1, <2>2, <2>3, <2>4, <2>5
<1>7. asked \subseteq asked' /\ asked' \subseteq Chunks /\ Current' = Current
  BY <1>1, <1>2, <1>3 DEF RunInvariant, RunTypes, Current
<1>8. Turns' /\ Preparation'
  BY <1>1, <1>2, <1>5, <1>6 DEF Turns, Preparation
<1>9. Reported'
  BY <1>1, <1>3, <1>6, <1>7 DEF Reported
<1>10. RunTypes'
  BY <1>1, <1>7 DEF RunInvariant, RunTypes, Chunks
<1>11. Filed'
  <2>1. Len(results) <= Len(plan.chunks) /\ Current' \in Chunks'
    BY <1>1, <1>2, <1>7 DEF RunInvariant, Filed, Chunks
  <2>2. \A i \in DOMAIN results :
          /\ results[i].findings => Succeeded(results[i])
          /\ Succeeded(results[i]) => i \in asked
          /\ prepared /\ i \notin asked => results[i].category \in RunRefusals
    BY DEF RunInvariant, Filed
  <2> QED
    BY <1>1, <1>5, <1>7, <2>1, <2>2 DEF Filed, Succeeded
<1> QED
  BY <1>1, <1>8, <1>9, <1>10, <1>11 DEF RunInvariant, Told

LEMMA RunPrepared == ASSUME RunInvariant, Prepared PROVE RunInvariant'
<1>1. /\ runStage = "preparing" /\ runStage' = "chunks" /\ result.outcome = "ready"
      /\ UNCHANGED <<plan, results, asked, review>>
      /\ UNCHANGED <<call, result, prepared>>
  BY DEF Prepared, providerVars
<1>2. call.stage = "idle" /\ prepared
  BY <1>1 DEF RunInvariant, Turns, Preparation
<1>3. RunTypes'
  BY <1>1 DEF RunInvariant, RunTypes, Chunks
<1>4. Filed'
  BY <1>1 DEF RunInvariant, Filed
<1> QED
  BY <1>1, <1>2, <1>3, <1>4 DEF RunInvariant, Turns, Preparation, Reported, Told

LEMMA RunPreparationFailed == ASSUME TypeOK, RunInvariant, PreparationFailed PROVE RunInvariant'
<1> DEFINE category == IF result.outcome = "raised" THEN "exception" ELSE result.category
           r(i) == ChunkResult(i, category, FALSE)
<1>1. /\ runStage = "preparing" /\ runStage' = "aggregate"
      /\ result.outcome \in {"failed", "raised"}
      /\ results' = [i \in Chunks |-> r(i)]
      /\ UNCHANGED <<plan, asked, review>>
      /\ UNCHANGED <<call, result, prepared>>
  BY DEF PreparationFailed, providerVars
<1>2. call.stage = "idle" /\ ~prepared /\ plan \in Plans
  BY <1>1 DEF RunInvariant, RunTypes, Turns, Preparation
<1>3. category \in Categories \cup {"none", "exception"} /\ category # "none"
  BY <1>1, <1>2 DEF RunInvariant, Preparation, TypeOK, ResultType
<1> HIDE DEF category
<1>4. Len(plan.chunks) \in Nat /\ Chunks = 1..Len(plan.chunks)
  BY <1>2, PlanType
<1>5. \A i \in Chunks : /\ r(i) \in ResultOfChunk
                        /\ r(i).chunk = i /\ ~r(i).findings /\ ~Succeeded(r(i))
  BY <1>3, <1>4 DEF ChunkResult, ResultOfChunk, Succeeded, Pos
<1> HIDE DEF r
<1>6. /\ results' \in Seq(ResultOfChunk)
      /\ DOMAIN results' = Chunks /\ Len(results') = Len(plan.chunks)
      /\ \A i \in Chunks : results'[i] = r(i)
  BY <1>1, <1>4, <1>5
<1>7. RunTypes'
  BY <1>1, <1>5, <1>6 DEF RunInvariant, RunTypes, Chunks
<1>8. Filed'
  <2>1. \A i \in DOMAIN results' : ~results'[i].findings /\ ~Succeeded(results'[i])
    BY <1>5, <1>6
  <2>2. ~prepared' /\ runStage' = "aggregate" /\ plan' = plan
    BY <1>1, <1>2
  <2>3. \A i \in DOMAIN results' :
          /\ results'[i].findings => Succeeded(results'[i])
          /\ Succeeded(results'[i]) => i \in asked'
          /\ prepared' /\ i \notin asked' => results'[i].category \in RunRefusals
    BY <2>1, <2>2
  <2>4. Len(results') = Len(plan.chunks) /\ Len(plan.chunks) \in Nat
    BY <1>4, <1>6
  <2> QED
    BY <2>2, <2>3, <2>4 DEF Filed, Succeeded
<1> QED
  BY <1>1, <1>2, <1>7, <1>8 DEF RunInvariant, Turns, Preparation, Reported, Told

LEMMA RunCallReview == ASSUME RunInvariant, CallReview PROVE RunInvariant'
<1>1. /\ runStage = "chunks" /\ runStage' = "reviewing" /\ Current \in Chunks
      /\ UNCHANGED <<plan, results, asked, review>>
  BY DEF CallReview
<1>2. PICK tokens : ReviewRefused(tokens) \/ ReviewStart(tokens)
  BY DEF CallReview
<1>3. prepared /\ prepared' = prepared
  BY <1>1, <1>2 DEF RunInvariant, Preparation, ReviewRefused, ReviewStart
<1>4. \/ /\ call'.stage = "idle"
         /\ result'.outcome = "failed" /\ result'.category \in RunRefusals
      \/ call'.stage = "attempt"
  BY <1>2, <1>3, IdleType DEF ReviewRefused, ReviewStart, Return, Called, Failure, RunRefusals
<1>5. RunTypes'
  BY <1>1 DEF RunInvariant, RunTypes, Chunks
<1>6. Filed'
  BY <1>1, <1>3 DEF RunInvariant, Filed, Current, Chunks
<1>7. Turns' /\ Preparation' /\ Reported'
  BY <1>1, <1>3, <1>4 DEF Turns, Preparation, Reported
<1> QED
  BY <1>1, <1>5, <1>6, <1>7 DEF RunInvariant, Told

\* The result of one chunk is recorded.
LEMMA RunRecorded ==
  ASSUME RunInvariant, runStage = "reviewing", runStage' = "chunks", call.stage = "idle",
         UNCHANGED <<plan, asked, review>>, UNCHANGED <<call, result, prepared>>,
         NEW category \in Categories \cup {"none", "exception"}, NEW findings \in BOOLEAN,
         findings => category = "none", Current \notin asked => category \in RunRefusals,
         results' = Append(results, ChunkResult(Current, category, findings))
  PROVE  RunInvariant'
<1> DEFINE r == ChunkResult(Current, category, findings)
<1>1. prepared /\ Current \in Chunks /\ plan \in Plans
  BY DEF RunInvariant, RunTypes, Filed, Preparation, Reported
<1>2. Len(plan.chunks) \in Nat /\ Chunks = 1..Len(plan.chunks)
  BY <1>1, PlanType
<1>3. /\ r \in ResultOfChunk /\ r.chunk = Current
      /\ r.findings => Succeeded(r)
      /\ Succeeded(r) => Current \in asked
      /\ Current \notin asked => r.category \in RunRefusals
  BY <1>1, <1>2 DEF ChunkResult, ResultOfChunk, Succeeded, RunRefusals, Pos
<1> HIDE DEF r
<1>4. /\ results' \in Seq(ResultOfChunk)
      /\ Len(results') = Len(results) + 1
      /\ \A i \in DOMAIN results : results'[i] = results[i]
      /\ results'[Current] = r
      /\ \A i \in DOMAIN results' : i \in DOMAIN results \/ i = Current
  BY <1>1, <1>3, AppendResult DEF RunInvariant, r
<1>5. RunTypes'
  BY <1>1, <1>3, <1>4 DEF RunInvariant, RunTypes, Chunks
<1>6. Filed'
  <2>1. Len(results) \in Nat
    BY DEF RunInvariant, RunTypes
  <2>2. Len(results') <= Len(plan.chunks)
    BY <1>1, <1>2, <1>4, <2>1 DEF Current
  <2>3. \A i \in DOMAIN results' :
          /\ results'[i].findings => Succeeded(results'[i])
          /\ Succeeded(results'[i]) => i \in asked
          /\ prepared /\ i \notin asked => results'[i].category \in RunRefusals
    BY <1>3, <1>4 DEF RunInvariant, Filed
  <2> QED
    BY <2>2, <2>3 DEF Filed, Succeeded
<1> QED
  BY <1>1, <1>5, <1>6 DEF RunInvariant, Turns, Preparation, Reported, Told

LEMMA RunChunkDone == ASSUME TypeOK, RunInvariant, ChunkDone PROVE RunInvariant'
<1>1. /\ runStage = "reviewing" /\ runStage' = "chunks" /\ call.stage = "idle"
      /\ UNCHANGED <<plan, asked, review>>
      /\ UNCHANGED <<call, result, prepared>>
  BY DEF ChunkDone, providerVars
<1>2. PICK findings \in BOOLEAN :
        /\ findings => result.outcome = "reviewed"
        /\ results' = Append(results, ChunkResult(Current, result.category, findings))
  BY DEF ChunkDone
<1>3. /\ findings => result.category = "none"
      /\ Current \notin asked => result.category \in RunRefusals
  BY <1>1, <1>2 DEF RunInvariant, Reported
<1>4. result.category \in Categories \cup {"none", "exception"}
  BY DEF TypeOK, ResultType
<1> QED
  BY <1>1, <1>2, <1>3, <1>4, RunRecorded

LEMMA RunChunkRaises == ASSUME RunInvariant, ChunkRaises PROVE RunInvariant'
<1>1. /\ runStage = "reviewing" /\ runStage' = "chunks" /\ call.stage = "idle"
      /\ UNCHANGED <<plan, asked, review>>
      /\ UNCHANGED <<call, result, prepared>>
      /\ Current \in asked
      /\ results' = Append(results, ChunkResult(Current, "exception", FALSE))
  BY DEF ChunkRaises, providerVars
<1> QED
  BY <1>1, RunRecorded

LEMMA RunChunksDone == ASSUME RunInvariant, ChunksDone PROVE RunInvariant'
<1>1. /\ runStage = "chunks" /\ runStage' = "aggregate" /\ Current \notin Chunks
      /\ UNCHANGED <<plan, results, asked, review>>
      /\ UNCHANGED <<call, result, prepared>>
  BY DEF ChunksDone, providerVars
<1>2. Len(results) = Len(plan.chunks)
  <2>1. /\ Len(plan.chunks) \in Nat /\ Chunks = 1..Len(plan.chunks)
        /\ Len(results) \in Nat /\ Len(results) <= Len(plan.chunks)
    BY PlanType DEF RunInvariant, RunTypes, Filed
  <2> QED
    BY <1>1, <2>1 DEF Current
<1>3. RunTypes'
  BY <1>1 DEF RunInvariant, RunTypes, Chunks
<1>4. Filed'
  BY <1>1, <1>2 DEF RunInvariant, Filed
<1> QED
  BY <1>1, <1>3, <1>4 DEF RunInvariant, Turns, Preparation, Reported, Told

LEMMA RunAggregate == ASSUME RunInvariant, Aggregate PROVE RunInvariant'
<1> DEFINE good == {i \in DOMAIN results : Succeeded(results[i])}
           processed == {results[i].chunk : i \in good}
           failed == {results[i].chunk : i \in DOMAIN results \ good}
<1>1. /\ runStage = "aggregate" /\ runStage' = "done"
      /\ UNCHANGED <<plan, results, asked>>
      /\ UNCHANGED <<call, result, prepared>>
  BY DEF Aggregate, providerVars
<1>2. review' = [processed       |-> processed,
                 failed          |-> failed,
                 findings        |-> \E i \in good : results[i].findings,
                 partial         |-> processed # {} /\ failed # {},
                 aiReviewSkipped |-> plan.chunks # <<>> /\ processed = {},
                 statuses        |-> FileStatuses]
  BY DEF Aggregate
<1>3. DOMAIN results = Chunks
  BY <1>1, PlanType DEF RunInvariant, RunTypes, Filed
<1>4. \A i \in DOMAIN results : results[i].chunk = i
  BY DEF RunInvariant, RunTypes
<1>5. good = Good
  BY <1>3 DEF Good
<1>6. processed = Good /\ failed = Chunks \ Good
  <2>1. processed = good
    BY <1>4
  <2>2. failed = DOMAIN results \ good
    BY <1>4
  <2> QED
    BY <1>3, <1>5, <2>1, <2>2
<1> HIDE DEF good, processed, failed
<1>7. Good' = Good /\ Chunks' = Chunks /\ FileStatuses' = FileStatuses
  BY <1>1 DEF Good, Chunks, Succeeded, FileStatuses, ChunkPaths
<1>8. Told'
  BY <1>1, <1>2, <1>5, <1>6, <1>7 DEF Told
<1>9. RunTypes'
  BY <1>1 DEF RunInvariant, RunTypes, Chunks
<1>10. Filed'
  BY <1>1 DEF RunInvariant, Filed
<1>11. Turns' /\ Preparation' /\ Reported'
  BY <1>1 DEF RunInvariant, Turns, Preparation, Reported
<1> QED
  BY <1>8, <1>9, <1>10, <1>11 DEF RunInvariant

LEMMA RunStutter == ASSUME RunInvariant, UNCHANGED vars PROVE RunInvariant'
<1>1. UNCHANGED <<plan, runStage, results, review, asked>> /\ UNCHANGED <<call, result, prepared>>
  BY DEF vars, runVars, providerVars
<1>2. RunTypes'
  BY <1>1 DEF RunInvariant, RunTypes, Chunks
<1>3. Filed'
  BY <1>1 DEF RunInvariant, Filed, Current, Chunks, Succeeded
<1>4. Told'
  BY <1>1 DEF RunInvariant, Told, Good, Chunks, Succeeded, FileStatuses, ChunkPaths
<1>5. Turns' /\ Preparation' /\ Reported'
  BY <1>1 DEF RunInvariant, Turns, Preparation, Reported, Current
<1> QED
  BY <1>2, <1>3, <1>4, <1>5 DEF RunInvariant

LEMMA RunInvariantHolds == RunSpec => [](TypeOK /\ RunInvariant)
<1>1. TypeOK /\ RunInvariant /\ [RunNext]_vars => RunInvariant'
  <2> SUFFICES ASSUME TypeOK, RunInvariant, [RunNext]_vars PROVE RunInvariant'
    OBVIOUS
  <2>1. CASE Await
    BY <2>1, RunAwaitPrepare, RunAwaitReview DEF Await
  <2> QED
    BY <2>1, RunNothing, RunCallPrepare, RunPrepared, RunPreparationFailed, RunCallReview,
       RunChunkDone, RunChunkRaises, RunChunksDone, RunAggregate, RunStutter DEF RunNext, Done
<1>2. Invariant => TypeOK
  BY DEF Invariant
<1> QED
  BY <1>1, <1>2, RunInit, ProviderInvariant, PTL DEF RunSpec

-----------------------------------------------------------------------------
\* The theorems.

\* Every variable of a run has its type, and the results are in the order of the chunks.
THEOREM RunTypesHold == RunSpec => []RunTypeOK
<1>1. TypeOK /\ RunInvariant => RunTypeOK
  BY DEF RunInvariant, RunTypes, RunTypeOK, ResultOfChunk
<1> QED
  BY <1>1, RunInvariantHolds, PTL

\* What the review of a finished run says, field by field.
LEMMA ToldFields ==
  ASSUME RunInvariant, runStage = "done"
  PROVE  /\ review.processed = Good /\ review.failed = Chunks \ Good
         /\ review.findings <=> \E i \in Good : results[i].findings
         /\ review.partial <=> Good # {} /\ Chunks \ Good # {}
         /\ review.aiReviewSkipped <=> plan.chunks # <<>> /\ Good = {}
         /\ review.statuses = FileStatuses
         /\ Good \subseteq Chunks /\ Good \subseteq asked
         /\ Chunks = {} <=> plan.chunks = <<>>
         /\ DOMAIN results = Chunks
<1> DEFINE good == Good
           rest == Chunks \ Good
           findings == \E i \in Good : results[i].findings
           partial == Good # {} /\ Chunks \ Good # {}
           none == plan.chunks # <<>> /\ Good = {}
           statuses == FileStatuses
<1>1. review = [processed |-> good, failed |-> rest, findings |-> findings,
                partial |-> partial, aiReviewSkipped |-> none, statuses |-> statuses]
  BY DEF RunInvariant, Told
<1> HIDE DEF good, rest, findings, partial, none, statuses
<1>2. /\ review.processed = good /\ review.failed = rest
      /\ review.findings = findings /\ review.partial = partial
      /\ review.aiReviewSkipped = none /\ review.statuses = statuses
  BY <1>1
<1>3. Len(plan.chunks) \in Nat /\ Chunks = 1..Len(plan.chunks) /\ DOMAIN results = Chunks
  BY PlanType DEF RunInvariant, RunTypes, Filed
<1>4. Chunks = {} <=> plan.chunks = <<>>
  <2> DEFINE C == [tokens : ChunkTokens, files : SUBSET Files]
             chunks == plan.chunks
  <2>1. chunks \in Seq(C) /\ Chunks = 1..Len(chunks)
    BY <1>3, PlanType DEF RunInvariant, RunTypes
  <2> HIDE DEF C, chunks
  <2>2. chunks = <<>> <=> Len(chunks) = 0
    BY <2>1
  <2>3. Len(chunks) \in Nat
    BY <2>1
  <2>4. 1..Len(chunks) = {} <=> Len(chunks) = 0
    BY <2>3
  <2> QED
    BY <2>1, <2>2, <2>4 DEF chunks
<1>5. Good \subseteq Chunks /\ Good \subseteq asked
  BY <1>3 DEF Good, RunInvariant, Filed
<1> QED
  BY <1>2, <1>3, <1>4, <1>5 DEF good, rest, findings, partial, none, statuses

\* Every chunk is processed or failed, and not both: for any number of chunks, and
\* however preparation, quotas and answers go.
THEOREM ChunksAccounted == RunSpec => []EveryChunkAccounted
<1>1. RunInvariant => EveryChunkAccounted
  BY ToldFields DEF EveryChunkAccounted
<1> QED
  BY <1>1, RunInvariantHolds, PTL

\* A chunk no request was made for was beyond a quota of the run or the context of the
\* model, whatever happened to the chunks before it.
THEOREM OthersGoOn == RunSpec => []OneFailureDoesNotStopOthers
<1>1. RunInvariant => OneFailureDoesNotStopOthers
  BY DEF RunInvariant, Filed, OneFailureDoesNotStopOthers, RunRefusals
<1> QED
  BY <1>1, RunInvariantHolds, PTL

\* The heading of the comment and the status of the workflow tell the same story of
\* every run: whatever the review says, the two functions agree on it.
THEOREM NamesAgree == RunSpec => []StatusesAgree
<1>1. StatusesAgree
  <2> SUFFICES ASSUME runStage = "done"
               PROVE  <<DisplayState, NormalizedStatus>> \in
                        {<<"Partial", "partial">>, <<"Skipped", "skipped">>,
                         <<"Skipped", "provider_failure">>, <<"Completed", "completed">>,
                         <<"Completed", "completed_no_findings">>}
    BY DEF StatusesAgree
  <2>1. CASE review.partial
    BY <2>1 DEF DisplayState, NormalizedStatus
  <2>2. CASE ~review.partial /\ review.aiReviewSkipped
    BY <2>2 DEF DisplayState, NormalizedStatus
  <2>3. CASE ~review.partial /\ ~review.aiReviewSkipped
    BY <2>3 DEF DisplayState, NormalizedStatus
  <2> QED
    BY <2>1, <2>2, <2>3
<1> QED
  BY <1>1, PTL

\* A run is called completed only when every chunk was sent and reviewed, and has
\* findings only when some chunk was sent.
THEOREM CompletedRunsAreReviewed == RunSpec => []CompletedIsReviewed
<1>1. RunInvariant => CompletedIsReviewed
  <2> SUFFICES ASSUME RunInvariant, runStage = "done"
               PROVE  /\ DisplayState = "Completed" =>
                           review.processed = Chunks /\ Chunks \subseteq asked
                      /\ review.findings => asked # {}
    BY DEF CompletedIsReviewed
  <2>1. ASSUME DisplayState = "Completed"
        PROVE  review.processed = Chunks /\ Chunks \subseteq asked
    <3>1. ~review.partial /\ ~review.aiReviewSkipped /\ plan.chunks # <<>>
      BY <2>1 DEF DisplayState
    <3>2. Chunks = Good
      BY <3>1, ToldFields
    <3> QED
      BY <3>2, ToldFields
  <2> QED
    BY <2>1, ToldFields
<1> QED
  BY <1>1, RunInvariantHolds, PTL

\* A file is shown as reviewed only if some of its content reached a chunk, and one of its
\* chunks was processed unless the heading says otherwise, for every outcome of filtering and
\* chunking that loses no file.
THEOREM ReviewedWereChunked == RunSpec => []ReviewedFilesWereChunked
<1>1. RunInvariant => ReviewedFilesWereChunked
  <2> SUFFICES ASSUME RunInvariant, runStage = "done", NEW p \in ReviewedFiles
               PROVE  /\ p \in ChunkPaths
                      /\ \/ \E i \in review.processed : p \in plan.chunks[i].files
                         \/ DisplayState \in {"Partial", "Skipped"}
    BY DEF ReviewedFilesWereChunked
  <2>1. p \in Files /\ FileStatuses[p] # "skipped"
    BY ToldFields DEF ReviewedFiles
  <2>2. p \in ChunkPaths
    <3>1. CASE p \in plan.leftOut
      BY <2>1, <3>1 DEF FileStatuses
    <3>2. CASE p \notin plan.leftOut
      <4>1. plan.filtered[p] # "skipped"
        BY <2>1, <3>2 DEF FileStatuses
      <4>2. PICK i \in DOMAIN plan.chunks : p \in plan.chunks[i].files
        BY <2>1, <3>2, <4>1, NothingLostAssumption DEF RunInvariant, RunTypes
      <4> QED
        BY <4>2 DEF ChunkPaths, Chunks
    <3> QED
      BY <3>1, <3>2
  <2>3. PICK i \in Chunks : p \in plan.chunks[i].files
    BY <2>2 DEF ChunkPaths
  <2>4. CASE i \in review.processed
    BY <2>2, <2>3, <2>4
  <2>5. CASE i \notin review.processed
    <3>1. Chunks \ Good # {} /\ plan.chunks # <<>>
      BY <2>5, ToldFields
    <3>2. review.partial \/ review.aiReviewSkipped
      BY <3>1, ToldFields
    <3> QED
      BY <2>2, <3>2 DEF DisplayState
  <2> QED
    BY <2>4, <2>5
<1> QED
  BY <1>1, RunInvariantHolds, PTL

=============================================================================
