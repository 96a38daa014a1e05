# Verification of the sports-store deployments repository

The repository deploys the sports store to Kubernetes and reviews its own pull
requests with a language model. Two parts have behaviour of their own: the
*advisory review*, the Python package `review_runner/` and the workflows that
start it, and the *drills*, scripts that break a service of the production cluster on
purpose and restore it. This directory holds TLA+ models of it, TLC configurations that check
them on small instances, and proofs that TLAPS checks.

Paths below are relative to the root of the repository.

## 1. The system

### Components

| Component | Code | State | Operations |
| --- | --- | --- | --- |
| Review workflows | `.github/workflows/ai-review-after-ci.yml`, `reusable-ai-review.yml` | one run per pull request (concurrency group) | start a job when CI succeeds, cancel the job in progress, report a failed bootstrap |
| Review driver | `review_runner/github_review.py` | none between steps but what it read | validate metadata, authorize, get the diff, announce, review, look again, publish |
| GitHub client | `github_client.py` | retry count | list, create and update comments, *upsert* the marker comment, retry requests |
| Review run | `runner.py`, `aggregation.py` | results of chunks, statuses of files | parse, filter, redact, chunk, prepare, review each chunk, aggregate |
| Diff parser, filtering, redaction | `diff_parser.py`, `filtering.py`, `redaction.py` | none | pure passes over the diff |
| Chunking | `chunking.py`, `tokens.py` | the open chunk, the chunks, the total | split files into fragments, pack fragments into chunks |
| OpenRouter provider | `openrouter.py`, `openrouter_config.py` | counters of requests, tokens and retries; the start time; the last Retry-After | `prepare`, `review` |
| Comment rendering | `comment_renderer.py` | none | names the outcome, counts the coverage, renders |
| Drills | `scripts/dep-271-validation-drill.sh`, `scripts/dep-324-outage-drill.sh` | snapshots of a cluster | break something, watch, restore |
| Bootstrap | `scripts/bootstrap-gitops.ps1`, `bootstrap/` | the cluster | apply in order, wait |
| Charts and manifests | `helm/`, `k8s/`, `apps/`, `environments/`, `observability/` | declarative | executed by Helm, Argo CD, Argo Rollouts |

### How they interact

A push starts CI; the success of CI starts a review job, which cancels the
pull request's job in progress. The job calls GitHub and OpenRouter, never two
requests at once: inside a job everything is sequential, but every `await` lets
the world move on. Jobs, people and GitHub share the head of the pull request
and its comments. The driver passes the diff to the runner; the runner calls the
provider once per chunk and gets a `ProviderResult`; the aggregate goes to the
renderer, whose text the client writes to the one persistent comment.

A drill changes the cluster by commands and remembers in flags what its EXIT trap has
to undo. Argo CD changes the same objects beside it, on two levels: an Application
restores its workload from Git, and the root Application restores the Applications,
whose sync the drills pause.

### What is hard

- **Reads that are stale when used.** The head is read up to four times in a job and
  may move between any two of them, or between the last and the write.
- **Order.** CI of successive commits ends in any order, so jobs start in any order.
- **Lost replies, retries, cancellation.** A write may be applied though its call
  failed; a job may end between any two requests.
- **Limits that meet.** A fragment passes three limits before it joins a chunk that
  is not closed yet; an attempt passes four quotas before it is made, and time
  passes after they were tested.
- **Partial failure.** Preparation, a chunk, a retry or a comment may fail alone; what
  is reported must still add up.
- **Other hands.** While a drill waits, Argo CD, the autoscaler and the controllers go
  on; a command whose reply is lost took effect and is not in a flag; after a kill the
  next run takes what it finds for the original.
- **One name, several things.** A path may have several sections in a patch, a key may
  be spread over hunks, a rename has two paths.
- **Boundaries.** Newlines count in estimates; budgets are met exactly.

`PROJECT.json` lists these as hazards, each at its line, with the properties that
cover it.

### What makes each component correct

| Component | Correct when |
| --- | --- |
| Chunking | no chunk, nor their number, nor their total exceeds its limit; every line of the diff is sent once or reported as skipped; order is kept; nothing is cut or closed without need |
| Provider | no quota is exceeded whatever retries and answers do; only what may succeed later is tried again; the deadline is overrun by a bounded amount; the metrics tell what happened |
| Parsing, filtering, redaction | every section is reviewed or reported; a status tells what happened to its path; limits leave out no more than needed; a move does not get round the rules; a key has one marker from its first line to its last |
| Review run | every chunk is reported once; a failure does not stop what it does not concern; names and counts agree with what was done; the run ends |
| Client, driver, workflows | one comment; what it shows is of the commit it names; it never goes back to an older commit; what a job reports is what readers see; a job ends |
| Drills | the outage is real while it is looked at; what was changed is known until it is undone; a drill that passed, failed or was killed is followed by healthy services |

## 2. The modules

| Module | Models | State and actions |
| --- | --- | --- |
| `ChunkBudget` | what chunking promises (abstract) | the sizes of the chunks made and their sum; `MakeChunk` |
| `Chunking` | `chunking.py` | one variable per local of the code; one action per turn of a loop and branch |
| `ChunkingProofs` | theorems about `Chunking`: types, limits, the refinement of `ChunkBudget` | |
| `ChunkCoverageProofs` | theorems about `Chunking`: coverage, order, sizes; extends `ChunkingProofs` | |
| `DiffInput` | `diff_parser.py`, `filtering.py`, `redaction.py`, the statuses of `runner.py` | the files parsed and included, the skipped items, the statuses, the markers; one action per section or file and pass |
| `DiffInputProofs` | theorems about `DiffInput` | |
| `OpenRouter` | `openrouter.py` | the attributes of the provider, the call that is awaited, and what went over the wire; one action per step between two awaits |
| `OpenRouterProofs` | theorems about `OpenRouter` | |
| `ReviewRun` | `runner.py` (from the chunks on), `aggregation.py`, the names and counts of `comment_renderer.py` | extends `OpenRouter`; the runner's stage, its results, the `ReviewResult` |
| `ReviewRunProofs` | theorems about `ReviewRun`; extends `OpenRouterProofs` | |
| `GitHubComments` | the upsert of `github_client.py`, against GitHub | the comments with the marker, and where each job's upsert is |
| `ReviewPipeline` | `github_review.py`, the workflows, pushes and CI | extends `GitHubComments`; head, CI and job of each commit |
| `ReviewPipelineProofs` | theorems about `ReviewPipeline` | |
| `DrillScript` | what the drills share: sync of the Applications, lost replies, restarts | `autoSync`, `faults`, `runs` |
| `OutageDrill` | `scripts/dep-324-outage-drill.sh`, payment in the cluster | autoscaler, replicas, pods, the variables of the script; one action per command |
| `ValidationDrill` | `scripts/dep-271-validation-drill.sh`, catalog in the cluster | image, revisions, phase and settings of the Rollout, the variables of the script; one action per command |
| `Drills` | both, one at a time, with `apps/` and the controllers | extends the two |
| `DrillsProofs` | theorems about `Drills` | |
| `SharedLemmas` | what several proofs need of numbers, sequences and folds | |
| `MC...` | values of the constants for TLC | |

Correspondence, in short:

- **`Chunking`.** A text is its estimate in tokens. `Joined` is what the byte estimator
  returns for texts joined by newlines, so the `+ 1` in every sum is a newline of
  the code. `create_chunks`, `_split_file`, `_split_hunk` are the stages `files`,
  `hunks`, `lines`; the packing loop is `pack`. `SplitLine`, `Pack` and `Cut` are whole
  turns of a loop: a turn may close a chunk *and* take a fragment or skip the rest.
  Lines are named by file, hunk and place, so that a fragment and a `SkippedItem`
  carry the set of lines they stand for (the code's item has no such set; it makes
  coverage a property one can state).
- **`DiffInput`.** A patch is a sequence of lines; a line is its kind, its bytes and, in
  a hunk, whether it looks like the BEGIN or the END of a private key (`key`); `begins` is how
  often it matches the rule for private keys, which the BEGIN of an encrypted key does not.
  `Ascending` lists a set of line numbers in order, from which sections and hunks are cut. `Sections` is `_split_sections`;
  `WellFormed` holds where `_parse_hunk` raises nothing; `Kept` is its loop over hunks as
  the longest prefix all of whose prefixes fit. Files and items carry the number of
  their section (`of`), which the code has not; it makes "nothing disappears" a
  property one can state. `Texts` are the texts of a file in the order of their redaction:
  its headers, then per hunk its lines and *after* them its header; `RedactText` is what is done
  to one, and `marks` are the numbers of the keys whose markers it shows afterwards.
- **`OpenRouter`.** An answer of the service is its class, the output tokens it
  reports, its Retry-After and how long it took. Time is counted from `prepare` and
  passes only in awaits. `posts` and `submitted` count what was really sent;
  the code has no such counters, its own are `requests`, `inTokens`, `outTokens` and
  `retries`. `max_execution_seconds` of provider and runner are one constant, their
  minimum, as in `_quota_failure`.
- **`ReviewRun`.** `Plans` stands for what parsing, filtering, redaction and chunking
  hand to the rest. The runner's `await`s are steps of `OpenRouter`; `ChunkRaises` is the
  `except Exception` around one.
- **`GitHubComments`.** A read is one step, taken when its last attempt is answered; a
  write is one step per attempt, because an attempt whose reply is lost may have been
  applied (`ReplyLost`) or not (`WriteLost`). A reply without an id fails a creation that was
  made (`ReplyUnusable`), and any request may raise what is no `GitHubApiError` (`CallRaises`):
  a ValueError or OSError, which `main` expects, or another. Rate-limit delays are not counted.
- **`ReviewPipeline`.** Commits are numbered in the order they are first pushed and a job has
  its commit's number. `Return` is a force-push to a commit that was pushed before; its CI
  and its job run again. `returned` records that for the properties. Each action of a job is one `await` with the code up to the
  next: `Recheck`, for instance, is the second look at the pull request with the two
  early returns after it. The reviewer itself is one step (`Reviewed`). `Raises` and
  `UpsertRaises` are the exceptions that reach `main`, and `Report` the comment it writes of
  one it does not expect.
- **The drills.** Variables of a script are the fields of `drill` and `script`. A command
  succeeds, fails with no effect (`GivesUp`, `Quit`: `set -e` ends the script, as does a
  limit or an interrupt), or takes effect and its reply is lost (`Fault`). `MayKill` lets
  a script die with no trap. BODY_FILE is one bit, whether it looks like JSON.
  `hpa` is its `minReplicas`, 0 when there is none. `stranded` and `leftArmed` record that a
  fault or a kill hid a change from the script; they are in no condition of an action.

## 3. What is checked

All runs are in `PROJECT.json`; each `.cfg` names its properties.

| Run | Question | Bounds |
| --- | --- | --- |
| `chunking` | Are the limits, coverage and order kept, and is `ChunkBudget` implemented? | up to 3 files of 7 shapes; budget 10, 4 chunks, total 30 |
| `diff_input` | Does any part of a patch disappear, do statuses and limits hold, are renames judged and keys hidden? | up to 3 of 12 sections, 24 configurations, 3 patches without sections |
| `openrouter` | Are quotas, attempts, retries and the deadline respected under any caller and any answers? | 6 requests, 3 per chunk, 2 retries, 4 input and 3 output tokens, deadline 9 |
| `review_run` | Is every chunk accounted for and the outcome named consistently? Does every run end? | 5 plans of up to 4 chunks and 3 files |
| `review_pipeline` | How many comments are there, do they show what jobs report, and does every job end? | 2 commits, 1 retry, 1 deletion, every failure and exception; no closing |
| `pipeline_commits` | Can the comment show findings of another diff, or go back? | 3 commits, 1 return to an earlier or later one, closing, jobs ended from outside; no failures |
| `drills` | Is the outage real while it is looked at, what was changed known, and everything restored? | 2 runs of either drill in any order, 1 lost reply or failed trap command, kills anywhere, 2 of the 4 other services, 2 to 3 replicas |

**Why the bounds suffice.** The shapes of files are chosen so that each branch of
splitting and packing is taken, with estimates that meet the budget exactly, miss it
by one newline, or exceed it; three files are enough for a chunk to be closed in
mid-loop, at a limit and at the end. In `openrouter` each quota can be the first to
be reached, alone and together with another. Its two limits on the attempts of a chunk, of
which the smaller counts, are equal there as they are in the code (`max_retries` 2,
`max_requests_per_chunk` 3), so that the run cannot tell one from the other; the theorem
`AttemptsHold` does. Two
commits give the two orders in which CI can end; the third lets a job be cancelled by
an older commit and again by a newer one. One retry gives every combination of
applied and lost writes, and one deletion every place of a deletion relative to one
upsert. The sections of `diff_input` are one for each way the parser, the rules and the
redaction treat a section; three in a row give a path with two outcomes, a limit on
files reached before and after a skipped file, and a key left open before another. Two
runs of a drill give a second that starts on what a killed or failed first one left;
two services are enough for one to be asked after another that answered, and 3
replicas for an autoscaler that stays above its minimum. `MaxFaults`, `MaxRuns` and
`MaxReplicas` bound the environment of the drills; in the review, `MaxDeletions` and
`MaxReturns` do besides the commits. One return is enough for a head that comes back during
a review, and for a second review of a commit;
`MaxApiRetries` and the quotas are limits of the code.

Every property of a passing run has a mutant of the code's definitions (a dropped
guard, a missing newline, a step out of order), listed in `PROJECT.json`, under which
the run finds it violated.

**Fairness.** `RunSpec` is weakly fair in the runner's next step and `Spec` of
`ReviewPipeline` in each job's: a coroutine goes on once what it awaits is answered,
and every request has a timeout (`httpx.Timeout` in `openrouter.py`, the client's
timeout in `github_client.py`), every wait a maximum. Nothing is assumed of pushes, CI,
people or cancellation. `Spec` of `Chunking` and `OpenRouter` have no fairness; only
safety is checked of them. `ReviewPipeline` may stop (no deadlock check): a pull
request without pushes or jobs is at rest. `Spec` of `Drills` is weakly fair in the
script's next step (its waits and requests have limits: `DOWN_TIMEOUT`,
`CURL_TIMEOUT`, `RECOVERY_TIMEOUT`, `ABORT_TIMEOUT`, `SLA_SECONDS`) and in what Argo CD and
the controllers do (they reconcile for ever); nothing is assumed of the operator, of
kills or of the autoscaler. It may stop when the last run is over. `DiffInput` ends.

### Where the code does otherwise

Five runs state what a document, a comment or a script says and find it violated; the
findings of `PROJECT.json` quote the lines.

| Run | What is said | What the code does |
| --- | --- | --- |
| `chunking_added` | invalid line numbers become null | all do: changed lines are looked up under the kind `add`, parsed under `added` |
| `pipeline_stale` | stale findings are discarded | a push between the last look and the write lets them through |
| `pipeline_cancel` | a push cancels the older review | an older commit's late CI cancels the newer review |
| `drill_alive` | the other services are seen to answer | a request without an answer counts, by the body of the one before |
| `drill_selfheal` | sync is paused while the drill waits | the root Application turns it on again, and the injected image is reverted |

More were met that no run is spent on.

In the review (paths under `review_runner/`):

- `README.md:59` says the complete pull request is attempted first; with `max_chunks` 1
  all its files but the first are skipped although they fit (`chunking.py:55`).
- `comment_renderer.py:98` shows the retries; those of a review that a quota ended are
  missing, because it returns without `_log_result` (`openrouter.py:187`).
- `README.md:57` lists `fully_reviewed` files; a file whose only chunk failed is one
  (`runner.py:58`); what does hold is that the heading then says that the review is not complete
  (`ReviewedFilesWereChunked`). It also says omitted hunks include their hunk header, which those of a
  file that is cut to its limits do not (`filtering.py:93`).
- `README.md:182` says the comment progresses from In Progress to an outcome; it stays when
  a job is stale or cancelled and none follows.
- `README.md:96` calls `max_input_tokens_per_run` a budget of what is submitted, but retries
  are submitted and not charged; what does hold is `SubmittedBounded`. A result whose retry
  a quota denied counts that retry as made.
- `README.md:180` says the client creates no second comment, but the retry of a creation
  whose reply was lost does; what does hold is `DuplicatesOnlyFromLostReplies`.
- `README.md:170` says stale findings are discarded; the findings of another diff are shown when
  the head was moved away before the diff was asked for and back before the next look at
  it (`github_review.py:145`). `ResultMatchesDiff` says that this is the only way.
- A path with two sections (a file that becomes a link) has the status of the last.
- An unexpected exception is reported with no look at the head (`github_review.py:341`). Met
  before the job has compared it, the report of an older commit replaces the comment of a
  newer one; `Unchecked` in `NoRegression` and `ReportedIsShown` is that exception.
- A key is followed only from a line that shows its BEGIN: if only the hunk header does
  (`redaction.py:58`), or a line before the hunk, its other lines are left as they are. The lines of an
  encrypted key, whose BEGIN the rule does not match, are hidden, but under the number of the key
  before it, and not at all if there was none (`redaction.py:52`).

In the drills:

- `docs/dep-324-validation-drill.md:79` says the trap always restores the replicas; it does
  not when the reply to the scale-down was lost, or its own command fails. `stranded` in
  `DownIsRecorded` and `PaymentRestored` is that exception, and that of a run killed while
  payment is down: no trap runs, Argo CD sets no replicas, and the next run ends where it asks
  payment, unless a request without an answer lets it pass (`drill_alive`). If it goes on and
  passes, payment is up (`PassedMeansRestored`).
- Both scripts say they are safe to re-run. A run of the validation drill after a killed
  one reads the short deadline as the original and restores *it*; `leftArmed` in
  `ArmedIsRecorded` is that exception. The image is restored nevertheless, by Argo CD.
- The trap's `undo` follows its `set image`, so that it may bring back the image before it,
  the breaking one included, until self-heal (`scripts/dep-271-validation-drill.sh:76`).
- Any Result of K8sGPT that names the namespace passes the validation drill, an old one too (line 144).
- `--target` of the outage drill does not change the Application it pauses (line 38).

What remains true despite the others is checked too: findings that are published late are still those of
the commit they name (`ResultMatchesDiff`), and never replace a newer one
(`NoRegression`), as long as the head does not go back itself.

## 4. What is proved

Every safety invariant and every action property of the passing runs is a theorem, for
every value of the constants that satisfies the assumptions. The strengthenings below
were checked by TLC on the runs before they were proved.

In `ChunkingProofs`, for every set of pull requests and all positive limits:

- `TypeCorrect`: `Spec => []TypeOK`. The indices of file, hunk and line need
  strengthening by nothing but the stages, which `TypeOK` includes.
- `LimitsHold`: `Spec => []WithinLimits`. `WithinLimits` alone is not inductive: a
  chunk is closed long after its fragments were admitted. The invariant is
  `WithinLimits /\ OpenChunkHasRoom`, where the second says that the open chunk fits the
  budget, that the total has room for it and that there is a slot for it.
- `ChunkingImplementsBudget`: `Spec => KeepsPromise`, the refinement of `ChunkBudget`,
  where the chunks map to their estimates. A turn of the loop closes at most one
  chunk, so that each step is a `MakeChunk` or a stutter.

They assume `LimitsAssumption` (`RunnerConfig.validate`: positive limits) and
`PRsAssumption` (pull requests are sequences of files), nothing of the estimates. The
lemmas before them state what each helper of the packing loop returns.

In `ChunkCoverageProofs`, for the same and with `RenderAssumption` (the estimate of a
file or hunk is that of the text rendered from it):

- `EveryLineIsCoveredOnce`, `EveryFileIsReported`, `OnlyOversizedAreSkipped`,
  `OrderHolds` and `NoneClosedEarly`. The first two speak of the end only; the
  invariant is `Accounted`, that is `Splitting` (the lines *passed so far* are in exactly one
  fragment, in the open part, or in one item that is too large by itself) and
  `Packing` (the fragments *before the next one* are in exactly one chunk or the open
  one, in order, and the first fragment of a chunk did not fit the one before).
  Where the whole pull request fits, its files become fragments untested; that each of them
  fits follows from what `Joined` computes (`CompleteIsLargest`).

In `OpenRouterProofs`, for every valid configuration, every caller and every service
(`ConfigAssumption`: what `OpenRouterConfig.validate` demands; `AnswersAssumption` and
`ServiceAssumption`: the types of what is answered, and that no request takes longer
than `LongestRequest`):

- `ProviderTypeCorrect`: `Spec => []TypeOK`. The wait before a retry doubles, and that
  `2^n` is a number has no rule in the provers: it is obtained by counting subsets
  (`PowerType`).
- `QuotasHold`, `AttemptsHold`, `OverrunHolds`: `Spec => []QuotasRespected` and so on. They
  need what each stage of a call keeps of the tests it passed (`InCall`): a request
  that is awaited was made before the deadline, so its retry starts to wait at most one
  request after it; the requests made for a chunk are its attempts, and one more while
  one is awaited.
- `RetriesHold`: `Spec => []OnlyTransientRetried`, by the cases of an answer.
- `SubmittedHolds`: `Spec => []SubmittedBounded`. A chunk is charged once and sent up to
  `Attempts` times, so the bound is not kept by one step alone: the invariant `Paid` says
  that what was sent, with all that the current chunk may still send, is at most
  `Attempts` times what was charged. The first request pays for the rest (`FirstPaid`),
  each retry uses some of it up (`RepeatPaid`).

In `ReviewRunProofs`, for every plan, provider and service (besides the assumptions of
`OpenRouter`, `PlansAssumption` and `NothingLostAssumption`: a file that filtering let
through is in a chunk or left out, which `EveryFileIsReported` proves of `Chunking`):

- `RunUsesProvider`: `RunSpec => Spec` of the provider: the runner prepares first and
  once, and starts no review before the last one is answered. The theorems on the
  provider therefore hold in every run.
- `RunTypesHold`, `ChunksAccounted`, `OthersGoOn`, `NamesAgree`,
  `CompletedRunsAreReviewed`, `ReviewedWereChunked` (with the heading of a run whose chunks
  failed), from one invariant,
  `RunInvariant`: whose turn it is (`Turns`), that chunks are reviewed only after
  a successful `prepare` (`Preparation`), that the provider answers for a chunk it did not send
  only by a quota or its size (`Reported`), and what results, statuses and names say of
  the chunks so far.

In `ReviewPipelineProofs`, for any commits, retries, deletions and returns of the head
(`CommentsAssumption`, `PipelineAssumption`: the bounds are numbers):

- `TypesHold`: with the types go `OneAtATime` (the concurrency group) and `ClientWaits` (a
  client works only while its job waits for it, on that job's comment); together they are
  `Control`, on which the rest stands.
- `DuplicatesBounded`: the invariant `CommentsFit` adds that a client that is about to create a
  comment found none, or as many as there are lost replies.
- `CommentsGoForward`: `Spec => NoRegression`. `History` says why: commits are first pushed in
  order, and a job past its first look at the head is later than every comment and
  every job that is done, or the head came back to it, or it has compared no head (`Compared`)
  and writes nothing but the report of an exception.
- `FindingsFit`: `Spec => []ResultMatchesDiff`. The invariant `Diffs`: a job that holds the
  diff of another commit finds its own at the head again only if it came back.
- `ReportsAreShown`: `Spec => []ReportedIsShown`. `Visible` follows the canonical comment
  through the job: the upsert writes to it, what was written successfully stays while the
  job runs, and afterwards until a later commit, a returned one or such a report replaces it; `Statused`
  gives the kind of the last comment from the fields of the job.

In `DiffInputProofs`, for every configuration (`ConfigsAssumption`: what `RunnerConfig`
accepts) and every patch (`PatchesAssumption`: a section has at most one `rename from` and
one `rename to`, as git writes them):

- `FileLimitsHold`, `StatusesHold`, `RenamesHold`, from `InputInvariant`: what the files
  parsed, the items and the statuses are after so many sections or files, by the
  order of the passes.
- `SectionsAccountedFor`: each section that was looked at has a file, or one item
  (`Answered`); and nothing of it is missing, as a section is its headers and its
  hunks (`HunksJoin`).
- `MarkersHold`: `Spec => []KeysHaveOneMarker`. The numbers come from a fold over the texts of a
  file; what it has done after each text is proved by induction over them: a text outside of
  keys takes the numbers after the count before it and no other, so that two such texts, of one
  file or of two, share none; one in a key repeats the number of the text that opened it.
- `InputTypesHold`: `Spec => []TypeOK`, with marks for exactly the texts of each file.

In `DrillsProofs`, for any number of runs, faults and replicas, any other services and
with kills (`ScriptAssumption`, `OutageAssumption`: at least one replica;
`ValidationAssumption`):

- `OutageLasts`: `Spec => []OutageHolds`, `PassedRestores`: `Spec => []PassedMeansRestored`.
  Both need what the script has achieved by each of its steps, which nothing beside it
  may undo: the invariant `Progress` (zero replicas from the scale-down to the
  restore, since an autoscaler leaves them alone and Argo CD sets none; the sync on,
  the autoscaler back and the pods there, in this order, after it).
- `DownKnown`: `Spec => []DownIsRecorded`. Inductive with the types and `Progress`: only
  after `FromResume` is the flag cleared, and then the replicas are not zero.
- `ArmedKnown`: `Spec => []ArmedIsRecorded`. A run writes back what it read, so it needs
  `ShortWasLeft`: what it read is short only if an earlier run left it so.
- `DrillTypes`: `Spec => []TypeOK`. The controller has an image in at most one revision
  (`Renumbered`), and only one script runs at a time.

`SharedLemmas` has what several of them need. Folds are recursive functions over finite
sets; that such a function exists is shown by induction over the set (`InductionBySet`), and
its equations then give what `Joined`, `FlattenSeq` and the redaction compute step by
step.

Only model-checked are the liveness properties `RunEnds`, `JobEnds`, `PaymentRestored` and
`CatalogRestored`: they need fairness and `ENABLED`, which the prover does not support. What the runs
that find a violation state is false, so there is nothing to prove.

## 5. What is not modelled

- The text of comments, prompts and logs; escaping; the order and de-duplication of
  findings; the paging of lists; the delays between retries to GitHub.
- A write that GitHub applies after its attempt has timed out *and* a later write was
  made; the head a job is given being computed when its event is delivered. They are
  listed as hazards. Two CI runs of one commit at the same time count as one; CI that
  somebody starts again without a push is not modelled.
- A cancelled job is taken to stop at once and the next to start after it. Closing the clients
  at the end of a job (`aclose` in the `finally` of `github_review.py:353`) is taken not to fail.
- Which paths match a pattern and which types are included (sets given to `DiffInput`),
  and redaction rules other than private keys: expressions applied to one line.
- What K8sGPT reports; the preconditions of the drills in detail; two drills at once, or
  one whose options name another service.
- Charts, manifests and canary steps, but for what the drills meet of them: declared
  here, executed by other systems. `bootstrap-gitops.ps1` applies manifests in order and
  waits; it restores nothing and keeps no state.
- Static tests of manifests and load tests.

## 6. Plan

In this order; what is marked done is described above.

1. *Done.* `ChunkBudget`, `Chunking`, with `ChunkingProofs`: the limits of what is sent.
2. *Done.* `OpenRouter`, with `OpenRouterProofs`, and `ReviewRun` composed with it.
3. *Done.* `GitHubComments`, and `ReviewPipeline` composed with it.
4. *Done.* `DiffInput`: the scanner of sections and hunks, the order of the rules, the
   file limits and the markers of keys.
5. *Done.* `OutageDrill`, `ValidationDrill` and `Drills`, with `DrillsProofs`.
6. `ReviewPipeline`: *done*, heads that return; next, delayed writes, and an abstract
   specification of the comment (a register that only moves to later commits) that
   the pipeline implements.
7. Proofs. *Done:* every safety invariant and action property of the runs, and the
   refinements of `ChunkBudget` by `Chunking` and of the provider's protocol by
   `ReviewRun`. Next: the refinement of the specification of the comment named in 6.

## 7. Running

    tlc -config chunking.cfg MCChunking.tla
    tlc -config diff_input.cfg MCDiffInput.tla
    tlc -config openrouter.cfg MCOpenRouter.tla
    tlc -config review_run.cfg MCReviewRun.tla
    tlc -config review_pipeline.cfg ReviewPipeline.tla
    tlc -config drills.cfg MCDrills.tla
    tlapm SharedLemmas.tla
    tlapm ChunkingProofs.tla
    tlapm ChunkCoverageProofs.tla
    tlapm DiffInputProofs.tla
    tlapm OpenRouterProofs.tla
    tlapm ReviewRunProofs.tla
    tlapm ReviewPipelineProofs.tla
    tlapm DrillsProofs.tla
