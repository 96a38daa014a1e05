------------------------------- MODULE ReviewRun -------------------------------
(***************************************************************************)
(* review_runner/runner.py with aggregation.py: one review run.  The       *)
(* runner prepares the provider, awaits a review of every chunk, one after *)
(* the other, and aggregates what came back; comment_renderer.py gives the *)
(* outcome a name, twice.  The provider is that of module OpenRouter; the  *)
(* chunks, and the files filtering and chunking left out, are given.       *)
(***************************************************************************)
EXTENDS OpenRouter, Sequences

CONSTANTS
  Files,  \* the paths of the pull request
  Plans   \* what filtering and chunking can hand to the rest of the run

Statuses == {"fully_reviewed", "partially_included", "skipped"}

\* A plan: the chunks, the files with an item in ChunkingResult.skipped, and the
\* statuses filter_files gave.
Plan == [chunks : Seq([tokens : ChunkTokens, files : SUBSET Files]),
         leftOut : SUBSET Files,
         filtered : [Files -> Statuses]]

ASSUME PlansAssumption == Plans \subseteq Plan

\* Chunking reports every file that filtering let through (EveryFileReported of
\* module Chunking).
ASSUME NothingLostAssumption ==
  \A p \in Plans : \A file \in Files :
    p.filtered[file] # "skipped" =>
      file \in p.leftOut \/ \E i \in DOMAIN p.chunks : file \in p.chunks[i].files

VARIABLES
  plan,
  runStage,  \* where ReviewRunner.run is
  results,   \* the ChunkResults so far
  review,    \* the ReviewResult in the end
  asked      \* the chunks a completion request was made for

runVars == <<plan, runStage, results, review, asked>>
vars == <<providerVars, runVars>>

Chunks == DOMAIN plan.chunks

\* The chunk whose turn it is.
Current == Len(results) + 1

NoReview == [processed |-> {}, failed |-> {}, findings |-> FALSE, partial |-> FALSE,
             aiReviewSkipped |-> FALSE, statuses |-> [p \in Files |-> "skipped"]]

Init ==
  /\ ProviderInit
  /\ plan \in Plans
  /\ runStage = "start"
  /\ results = <<>>
  /\ review = NoReview
  /\ asked = {}

\* A ChunkResult.  An exception has a category of its own, the name of its type.
ChunkResult(i, category, findings) == [chunk |-> i, category |-> category, findings |-> findings]
Succeeded(r) == r.category = "none"

----------------------------------------------------------------------------
NothingToReview ==
  /\ runStage = "start"
  /\ plan.chunks = <<>>
  /\ runStage' = "aggregate"
  /\ UNCHANGED <<providerVars, plan, results, review, asked>>

CallPrepare ==
  /\ runStage = "start"
  /\ plan.chunks # <<>>
  /\ Prepare
  /\ runStage' = "preparing"
  /\ UNCHANGED <<plan, results, review, asked>>

\* The provider goes on with the call the runner awaits.
Await ==
  /\ runStage \in {"preparing", "reviewing"}
  /\ Continue
  /\ asked' = IF call'.stage = "post" THEN asked \cup {Current} ELSE asked
  /\ UNCHANGED <<plan, runStage, results, review>>

Prepared ==
  /\ runStage = "preparing"
  /\ result.outcome = "ready"
  /\ runStage' = "chunks"
  /\ UNCHANGED <<providerVars, plan, results, review, asked>>

\* Mutant: only the first chunk is reported as failed.
PreparationFailedFirstOnly ==
  /\ runStage = "preparing"
  /\ result.outcome \in {"failed", "raised"}
  /\ results' = <<ChunkResult(1, result.category, FALSE)>>
  /\ runStage' = "aggregate"
  /\ UNCHANGED <<providerVars, plan, review, asked>>

\* Every chunk fails as the preparation did.
PreparationFailed ==
  /\ runStage = "preparing"
  /\ result.outcome \in {"failed", "raised"}
  /\ results' = [i \in Chunks |->
                   ChunkResult(i, IF result.outcome = "raised" THEN "exception" ELSE result.category,
                               FALSE)]
  /\ runStage' = "aggregate"
  /\ UNCHANGED <<providerVars, plan, review, asked>>

CallReview ==
  /\ runStage = "chunks"
  /\ Current \in Chunks
  /\ LET tokens == plan.chunks[Current].tokens
     IN  ReviewRefused(tokens) \/ ReviewStart(tokens)
  /\ runStage' = "reviewing"
  /\ UNCHANGED <<plan, results, review, asked>>

\* Mutants: a chunk that failed is sent once more; a result is filed under the chunk
\* before; a failure is taken for that of all the chunks that follow.
ChunkDoneRepeats ==
  /\ runStage = "reviewing"
  /\ call.stage = "idle"
  /\ results' = IF result.outcome = "reviewed"
                THEN Append(results, ChunkResult(Current, "none", FALSE)) ELSE results
  /\ runStage' = "chunks"
  /\ UNCHANGED <<providerVars, plan, review, asked>>

ChunkDoneOffByOne ==
  /\ runStage = "reviewing"
  /\ call.stage = "idle"
  /\ results' = Append(results, ChunkResult(Len(results), result.category, FALSE))
  /\ runStage' = "chunks"
  /\ UNCHANGED <<providerVars, plan, review, asked>>

ChunkDoneStopsOthers ==
  /\ runStage = "reviewing"
  /\ call.stage = "idle"
  /\ results' = IF result.outcome = "reviewed"
                THEN Append(results, ChunkResult(Current, "none", FALSE))
                ELSE results \o [i \in 1..(Len(plan.chunks) - Len(results)) |->
                                   ChunkResult(Len(results) + i, result.category, FALSE)]
  /\ runStage' = "chunks"
  /\ UNCHANGED <<providerVars, plan, review, asked>>

\* The result of a review is recorded, whatever it is, and the loop goes on.
ChunkDone ==
  /\ runStage = "reviewing"
  /\ call.stage = "idle"
  /\ \E findings \in BOOLEAN :
       /\ findings => result.outcome = "reviewed"
       /\ results' = Append(results, ChunkResult(Current, result.category, findings))
  /\ runStage' = "chunks"
  /\ UNCHANGED <<providerVars, plan, review, asked>>

\* An exception leaves a review that has made a request: its chunk failed, whatever came of
\* the request.  Before the first request a review only compares numbers.
ChunkRaises ==
  /\ runStage = "reviewing"
  /\ call.stage = "idle" /\ Current \in asked
  /\ results' = Append(results, ChunkResult(Current, "exception", FALSE))
  /\ runStage' = "chunks"
  /\ UNCHANGED <<providerVars, plan, review, asked>>

ChunksDone ==
  /\ runStage = "chunks"
  /\ Current \notin Chunks
  /\ runStage' = "aggregate"
  /\ UNCHANGED <<providerVars, plan, results, review, asked>>

ChunkPaths == UNION {plan.chunks[i].files : i \in Chunks}

\* Mutant: a file none of whose fragments got into a chunk counts as partial.
FileStatusesAllPartial ==
  [p \in Files |-> IF p \in plan.leftOut THEN "partially_included" ELSE plan.filtered[p]]

\* run: what chunking left out lowers the status of a file.
FileStatuses ==
  [p \in Files |->
     IF p \notin plan.leftOut THEN plan.filtered[p]
     ELSE IF p \in ChunkPaths THEN "partially_included" ELSE "skipped"]

\* aggregate_results
Aggregate ==
  /\ runStage = "aggregate"
  /\ LET good == {i \in DOMAIN results : Succeeded(results[i])}
         processed == {results[i].chunk : i \in good}
         failed == {results[i].chunk : i \in DOMAIN results \ good}
     IN  review' = [processed       |-> processed,
                    failed          |-> failed,
                    findings        |-> \E i \in good : results[i].findings,
                    partial         |-> processed # {} /\ failed # {},
                    aiReviewSkipped |-> plan.chunks # <<>> /\ processed = {},
                    statuses        |-> FileStatuses]
  /\ runStage' = "done"
  /\ UNCHANGED <<providerVars, plan, results, asked>>

Done == runStage = "done" /\ UNCHANGED vars

RunNext ==
  \/ NothingToReview \/ CallPrepare \/ Await \/ Prepared \/ PreparationFailed
  \/ CallReview \/ ChunkDone \/ ChunkRaises \/ ChunksDone \/ Aggregate
  \/ Done

\* The runner is one coroutine: every request it awaits is answered or times out,
\* and every wait ends.
RunSpec == Init /\ [][RunNext]_vars /\ WF_vars(RunNext)

----------------------------------------------------------------------------
\* The names of an outcome.

\* Mutant: one chunk reviewed is enough.
DisplayStateAnyReviewed ==
  IF review.aiReviewSkipped \/ plan.chunks = <<>> THEN "Skipped" ELSE "Completed"

\* comment_renderer.display_state, the heading of the comment.
DisplayState ==
  IF review.partial THEN "Partial"
  ELSE IF review.aiReviewSkipped \/ plan.chunks = <<>> THEN "Skipped"
  ELSE "Completed"

\* Mutant: a failing provider is not told apart.
NormalizedStatusNoFailure ==
  IF review.partial THEN "partial"
  ELSE IF plan.chunks = <<>> THEN "skipped"
  ELSE IF review.findings THEN "completed"
  ELSE "completed_no_findings"

\* comment_renderer.normalized_status, the output of the workflow.
NormalizedStatus ==
  IF review.partial THEN "partial"
  ELSE IF review.aiReviewSkipped THEN "provider_failure"
  ELSE IF plan.chunks = <<>> THEN "skipped"
  ELSE IF review.findings THEN "completed"
  ELSE "completed_no_findings"

\* comment_renderer.render_result, the coverage lines of the comment.
ReviewedFiles == {p \in Files : review.statuses[p] # "skipped"}

----------------------------------------------------------------------------
\* Properties.

\* Every variable of the run holds a value of its type; results are in the order of
\* the chunks.
RunTypeOK ==
  /\ TypeOK
  /\ plan \in Plans
  /\ runStage \in {"start", "preparing", "chunks", "reviewing", "aggregate", "done"}
  /\ results \in Seq([chunk : Pos, category : Categories \cup {"none", "exception"},
                      findings : BOOLEAN])
  /\ \A i \in DOMAIN results : results[i].chunk = i /\ i \in Chunks
  /\ asked \subseteq Chunks

\* In the end every chunk that was generated is either processed or failed, and
\* not both, however preparation, quotas and answers went.
EveryChunkAccounted ==
  runStage = "done" =>
    review.processed \cup review.failed = Chunks /\ review.processed \cap review.failed = {}

\* README.md:113: "One failed chunk does not stop later chunks unless a run quota or
\* preflight requirement blocks the review".  A chunk no request was made for is
\* beyond a quota of the run or beyond the context of the model.
OneFailureDoesNotStopOthers ==
  runStage = "done" /\ prepared =>
    \A i \in DOMAIN results :
      i \notin asked => results[i].category \in {"quota_exhausted", "payload_too_large"}

\* The heading of the comment and the status output of the workflow, computed by
\* two functions, never tell different stories.
StatusesAgree ==
  runStage = "done" =>
    <<DisplayState, NormalizedStatus>> \in
      {<<"Partial", "partial">>, <<"Skipped", "skipped">>, <<"Skipped", "provider_failure">>,
       <<"Completed", "completed">>, <<"Completed", "completed_no_findings">>}

\* A comment says "Completed", and a finding is reported, only when some request was
\* made; and "Completed" only when every chunk was reviewed.
CompletedIsReviewed ==
  runStage = "done" =>
    /\ DisplayState = "Completed" => review.processed = Chunks /\ Chunks \subseteq asked
    /\ review.findings => asked # {}

\* A file is counted among the reviewed only if some of its content reached a chunk, and
\* that one of these chunks was processed unless the heading says that the review is not
\* complete: a file whose chunks all failed is still counted, as its status says nothing of
\* results.
ReviewedFilesWereChunked ==
  runStage = "done" => \A p \in ReviewedFiles :
    /\ p \in ChunkPaths
    /\ \/ \E i \in review.processed : p \in plan.chunks[i].files
       \/ DisplayState \in {"Partial", "Skipped"}

\* Every run ends: quotas, retries and failures never keep it from its result.
RunEnds == <>(runStage = "done")

=============================================================================
