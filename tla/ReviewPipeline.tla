---------------------------- MODULE ReviewPipeline ----------------------------
(***************************************************************************)
(* The reviews of one pull request: pushes move its head, the CI of each   *)
(* commit ends in its own time, the success of one starts a review job     *)
(* (.github/workflows) that ends the job of any other commit, and each job *)
(* runs execute_review of review_runner/github_review.py, which reads the  *)
(* pull request again and again and writes to the persistent comment.      *)
(* Commits are numbered in the order in which they are first pushed; a job *)
(* has the number of its commit.  A force-push may bring an earlier commit *)
(* back, whose CI and review then run again.                               *)
(***************************************************************************)
EXTENDS GitHubComments, Sequences, SequencesExt

CONSTANTS
  MayEnd,     \* whether a job may be ended from outside: time limit, lost runner
  MayClose,   \* whether the pull request may be closed
  MaxReturns  \* bound: how often a commit that was pushed before is pushed again

Commits == Jobs

ASSUME PipelineAssumption ==
  /\ Jobs \subseteq Nat \ {0} /\ 1 \in Jobs
  /\ {MayEnd, MayClose} \subseteq BOOLEAN
  /\ MaxReturns \in Nat

VARIABLES
  open,     \* the pull request is open
  fork,     \* it comes from a fork
  ci,       \* the CI run of each commit
  job,      \* the review job of each commit
  returned  \* the returns of the head: [to, reviewing], whether to a commit under review

vars == <<head, commentVars, open, fork, ci, job, returned>>

NotStarted == [pc |-> "none", status |-> "none", comment |-> "none",
               progress |-> "none", diff |-> NoHead]

Init ==
  /\ head = 1
  /\ open = TRUE
  /\ fork \in BOOLEAN
  /\ ci = [c \in Commits |-> IF c = 1 THEN "running" ELSE "none"]
  /\ job = [j \in Jobs |-> NotStarted]
  /\ returned = <<>>
  /\ CommentsInit

Active(j) == job[j].pc \notin {"none", "done", "cancelled"}

----------------------------------------------------------------------------
\* The pull request and its CI.

Push ==
  /\ open
  /\ \E c \in Commits :
       /\ ci[c] = "none" /\ \A d \in Commits : d < c => ci[d] # "none"
       /\ head' = c
       /\ ci' = [ci EXCEPT ![c] = "running"]
  /\ UNCHANGED <<commentVars, open, fork, job, returned>>

\* A force-push to a commit that was the head before: its CI runs again.
Return ==
  /\ open
  /\ Len(returned) < MaxReturns
  /\ \E c \in Commits \ {head} :
       /\ ci[c] # "none"
       /\ head' = c
       /\ ci' = [ci EXCEPT ![c] = "running"]
       /\ returned' = Append(returned, [to |-> c, reviewing |-> Active(c)])
  /\ UNCHANGED <<commentVars, open, fork, job>>

Close ==
  /\ MayClose
  /\ open
  /\ open' = FALSE
  /\ UNCHANGED <<head, commentVars, fork, ci, job, returned>>

CiFails(c) ==
  /\ ci[c] = "running"
  /\ ci' = [ci EXCEPT ![c] = "failure"]
  /\ UNCHANGED <<head, commentVars, open, fork, job, returned>>

\* Mutant: the jobs of a pull request have no concurrency group.
CiSucceedsNoGroup(c) ==
  /\ ci[c] = "running"
  /\ ci' = [ci EXCEPT ![c] = "success"]
  /\ job' = IF open THEN [job EXCEPT ![c].pc = "bootstrap"] ELSE job
  /\ UNCHANGED <<head, commentVars, open, fork, returned>>

\* Mutant: the job in progress is ended, not the write it is making.
CiSucceedsWriteGoesOn(c) ==
  /\ ci[c] = "running"
  /\ ci' = [ci EXCEPT ![c] = "success"]
  /\ job' = IF open
            THEN [j \in Jobs |-> IF j = c THEN [NotStarted EXCEPT !.pc = "bootstrap"]
                                ELSE IF Active(j) THEN [job[j] EXCEPT !.pc = "cancelled"]
                                ELSE job[j]]
            ELSE job
  /\ UNCHANGED <<head, commentVars, open, fork, returned>>

\* The CI run of a commit succeeds.  While the pull request is open that starts the
\* commit's review job, and the concurrency group ends the one in progress.
CiSucceeds(c) ==
  /\ ci[c] = "running"
  /\ ci' = [ci EXCEPT ![c] = "success"]
  /\ IF open
     THEN /\ job' = [j \in Jobs |-> IF j = c THEN [NotStarted EXCEPT !.pc = "bootstrap"]
                                   ELSE IF Active(j) THEN [job[j] EXCEPT !.pc = "cancelled"]
                                   ELSE job[j]]
          /\ client' = [j \in Jobs |-> IF Active(j) THEN Idle ELSE client[j]]
     ELSE UNCHANGED <<job, client>>
  /\ UNCHANGED <<head, comments, lastId, lostCreates, deletions, open, fork, returned>>

\* The job is ended from outside: timeout-minutes, or the runner is lost.
EndedOutside(j) ==
  /\ MayEnd
  /\ Active(j)
  /\ job' = [job EXCEPT ![j].pc = "cancelled"]
  /\ client' = [client EXCEPT ![j] = Idle]
  /\ UNCHANGED <<head, comments, lastId, lostCreates, deletions, open, fork, ci, returned>>

----------------------------------------------------------------------------
\* The job: the steps of the workflow, then execute_review.

Outcome(j, status, comment) ==
  job' = [job EXCEPT ![j].pc = "done", ![j].status = status, ![j].comment = comment]

Goes(j, pc) == job' = [job EXCEPT ![j].pc = pc]

Unchanged == UNCHANGED <<head, open, fork, ci, returned>>

\* Checkout, set-up and installation, then the inputs and the configuration; what
\* fails here is reported by the bootstrap step or by main.
Bootstrap(j) ==
  /\ job[j].pc = "bootstrap"
  /\ \/ Goes(j, "metadata")
     \/ MayFail /\ Outcome(j, "failed_safely", "not_attempted")
  /\ Unchanged /\ UNCHANGED commentVars

\* GitHubApiError in execute_review.
ApiError(j) ==
  /\ MayFail
  /\ job[j].pc \in {"metadata", "recheck"} \/ (job[j].pc \in {"authorize", "diff"} /\ ~fork)
  /\ Outcome(j, "failed_safely", "comment_failure")
  /\ Unchanged /\ UNCHANGED commentVars

\* Mutant: the head is not compared with the trusted one.
ValidateMetadataAnyHead(j) ==
  /\ job[j].pc = "metadata"
  /\ IF open THEN Goes(j, "authorize") ELSE Outcome(j, "failed_safely", "not_attempted")
  /\ Unchanged /\ UNCHANGED commentVars

\* The pull request must be open and its head the commit of the job.
ValidateMetadata(j) ==
  /\ job[j].pc = "metadata"
  /\ IF open /\ HeadIs(j)
     THEN Goes(j, "authorize")
     ELSE Outcome(j, "failed_safely", "not_attempted")
  /\ Unchanged /\ UNCHANGED commentVars

\* The base of the pull request moved after its CI ran.
BaseMoved(j) ==
  /\ job[j].pc = "metadata"
  /\ Outcome(j, "failed_safely", "not_attempted")
  /\ Unchanged /\ UNCHANGED commentVars

Body(kind, j) == [kind |-> kind, sha |-> j, diff |-> job[j].diff]

\* A comment in place of a review; the job ends when it is written.
Notice(j, status) ==
  /\ Upsert(j, Body("notice", j), NoHead)
  /\ job' = [job EXCEPT ![j].pc = "notice", ![j].status = status]
  /\ Unchanged

\* The handler of _async_main for an exception it does not expect: the comment says that
\* the reviewer failed, whatever the head of the pull request is.
Report(j) ==
  /\ Upsert(j, Body("error", j), NoHead)
  /\ job' = [job EXCEPT ![j].pc = "report", ![j].status = "failed_safely"]
  /\ Unchanged

\* An exception other than GitHubApiError in a request of execute_review or in the
\* runner: a ValueError or an OSError ends the job, any other is reported.
Raises(j) ==
  /\ MayFail
  /\ job[j].pc \in {"metadata", "authorize", "diff", "review", "recheck"}
  /\ \/ Outcome(j, "failed_safely", "not_attempted") /\ Unchanged /\ UNCHANGED commentVars
     \/ Report(j)

\* The repository of the fork is gone: an unexpected TypeError.
HeadRepositoryGone(j) ==
  /\ job[j].pc = "metadata"
  /\ open /\ HeadIs(j) /\ fork
  /\ Report(j)

\* The CI run must authorize the review: it and every required job succeeded, and
\* the pull request leaves the CI definition as it is.
Authorized(j) ==
  /\ job[j].pc = "authorize"
  /\ Goes(j, "diff")
  /\ Unchanged /\ UNCHANGED commentVars

NotAuthorized(j) ==
  /\ job[j].pc = "authorize"
  /\ IF fork
     THEN Notice(j, "fork_review_skipped")
     ELSE /\ Outcome(j, "failed_safely", "not_attempted")
          /\ Unchanged /\ UNCHANGED commentVars

\* The diff is that of the pull request as it is now.  Then the comment says the
\* review is in progress, whatever the head has become.
GetDiff(j) ==
  /\ job[j].pc = "diff"
  /\ job' = [job EXCEPT ![j].pc = "progress", ![j].diff = head]
  /\ Upsert(j, [kind |-> "in_progress", sha |-> j, diff |-> head], NoHead)
  /\ Unchanged

DiffTooLarge(j) ==
  /\ job[j].pc = "diff"
  /\ Notice(j, "skipped")

ForkDiffFails(j) ==
  /\ MayFail /\ fork
  /\ job[j].pc = "diff"
  /\ Notice(j, "fork_review_skipped")

Returned(j, pc) ==
  /\ job[j].pc = pc
  /\ client[j].step = "idle" /\ client[j].outcome \notin Escapes

\* An exception leaves _safe_comment, and execute_review with it.
UpsertRaises(j) ==
  /\ job[j].pc \in {"progress", "publish", "notice"}
  /\ client[j].step = "idle"
  /\ \/ /\ client[j].outcome = "expected"
        /\ Outcome(j, "failed_safely", "not_attempted") /\ Unchanged /\ UNCHANGED commentVars
     \/ client[j].outcome = "unexpected" /\ Report(j)

\* The review starts, even if the comment could not be written.
ProgressDone(j) ==
  /\ Returned(j, "progress")
  /\ job' = [job EXCEPT ![j].pc = "review", ![j].progress = client[j].outcome]
  /\ Unchanged /\ UNCHANGED commentVars

\* ReviewRunner.run returns.  The job reports the normalized status of the result;
\* "reviewed" stands for any of them (NormalizedStatus of module ReviewRun).
Reviewed(j) ==
  /\ job[j].pc = "review"
  /\ job' = [job EXCEPT ![j].pc = "recheck", ![j].status = "reviewed"]
  /\ Unchanged /\ UNCHANGED commentVars

Recheck(j) ==
  /\ job[j].pc = "recheck"
  /\ IF open /\ HeadIs(j)
     THEN /\ Upsert(j, Body("result", j), j)
          /\ Goes(j, "publish")
     ELSE /\ Outcome(j, IF open THEN "stale" ELSE "skipped", job[j].progress)
          /\ UNCHANGED commentVars
  /\ Unchanged

Published(j) ==
  /\ Returned(j, "publish")
  /\ CASE client[j].outcome = "stale"  -> Outcome(j, "stale", "not_attempted")
       [] client[j].outcome = "failed" -> Outcome(j, job[j].status, "comment_failure")
       [] OTHER                        -> Outcome(j, job[j].status, client[j].outcome)
  /\ Unchanged /\ UNCHANGED commentVars

NoticeDone(j) ==
  /\ Returned(j, "notice")
  /\ Outcome(j, job[j].status, client[j].outcome)
  /\ Unchanged /\ UNCHANGED commentVars

\* No exception leaves the report.
ReportDone(j) ==
  /\ job[j].pc = "report" /\ client[j].step = "idle"
  /\ Outcome(j, job[j].status, IF client[j].outcome \in Escapes THEN "failed"
                               ELSE client[j].outcome)
  /\ Unchanged /\ UNCHANGED commentVars

ClientMoves(j) ==
  /\ ClientStep(j)
  /\ UNCHANGED <<head, open, fork, ci, job, returned>>

DriverStep(j) ==
  \/ Bootstrap(j) \/ ApiError(j) \/ ValidateMetadata(j) \/ BaseMoved(j)
  \/ HeadRepositoryGone(j) \/ Raises(j)
  \/ Authorized(j) \/ NotAuthorized(j)
  \/ GetDiff(j) \/ DiffTooLarge(j) \/ ForkDiffFails(j)
  \/ UpsertRaises(j) \/ ProgressDone(j) \/ Reviewed(j)
  \/ Recheck(j) \/ Published(j) \/ NoticeDone(j) \/ ReportDone(j)

JobStep(j) == DriverStep(j) \/ ClientMoves(j)

DeleteComment == Delete /\ UNCHANGED <<head, open, fork, ci, job, returned>>

Next ==
  \/ Push \/ Return \/ Close \/ DeleteComment
  \/ \E c \in Commits : CiFails(c) \/ CiSucceeds(c)
  \/ \E j \in Jobs : JobStep(j) \/ EndedOutside(j)

\* A job that runs goes on: requests are answered or time out.
Spec == Init /\ [][Next]_vars /\ \A j \in Jobs : WF_vars(JobStep(j))

----------------------------------------------------------------------------
\* Properties.

Statuses == {"none", "reviewed", "skipped", "stale", "failed_safely",
             "fork_review_skipped"}
CommentStatuses == {"none", "created", "updated", "failed", "comment_failure",
                    "not_attempted"}
Shas == Commits \cup {NoHead}

\* Every variable has the values the code gives it; a job waits on its client exactly
\* while a comment is being written, and no two jobs run at once.
TypeOK ==
  /\ head \in Commits
  /\ open \in BOOLEAN /\ fork \in BOOLEAN
  /\ ci \in [Commits -> {"none", "running", "success", "failure"}]
  /\ \A j \in Jobs :
       /\ job[j].pc \in {"none", "bootstrap", "metadata", "authorize", "diff", "progress",
                         "review", "recheck", "publish", "notice", "report", "done",
                         "cancelled"}
       /\ job[j].status \in Statuses
       /\ {job[j].comment, job[j].progress} \subseteq CommentStatuses
       /\ job[j].diff \in Shas
       /\ client[j].step \in {"idle", "list", "head", "write"}
       /\ client[j].step # "idle" => job[j].pc \in {"progress", "publish", "notice", "report"}
  /\ \A c \in comments : c.id \in 1 .. lastId
  /\ Cardinality({j \in Jobs : Active(j)}) <= 1

\* upsert_marker_comment "does not create another": a second marker comment exists only
\* where GitHub applied a creation and its reply was lost, whatever the jobs, pushes
\* and deletions in between.
DuplicatesOnlyFromLostReplies == Cardinality(comments) <= 1 + lostCreates

\* The findings a comment shows are those of the diff of the commit it names, although
\* the diff is that of whatever the head was when it was asked for: unless the head left
\* the commit and came back to it during the review, which no comparison of heads sees.
ResultMatchesDiff ==
  \A c \in comments :
    c.body.kind = "result" /\ c.body.diff # c.body.sha =>
      [to |-> c.body.sha, reviewing |-> TRUE] \in ToSet(returned)

\* The commits the head came back to.
ReturnedTo == {r.to : r \in ToSet(returned)}

\* The report of an exception met before the job asked for the diff: it may be that the
\* head was not compared with the commit of the job before it.
Unchecked(body) == body.kind = "error" /\ body.diff = NoHead

\* A comment never goes back to an older commit, however late that commit's CI ends,
\* unless the pull request did, or main reports that the job of the older commit met an
\* unexpected exception at its start.
NoRegression ==
  [][\A c \in comments, d \in comments' :
       c.id = d.id /\ c.body.sha > d.body.sha =>
         d.body.sha \in ReturnedTo \/ Unchecked(d.body)]_vars

Reports(j) ==
  /\ job[j].pc = "done"
  /\ job[j].comment \in {"created", "updated"}

\* The kind of comment that goes with what a job reports.
Wrote(j) ==
  CASE job[j].status = "reviewed" -> "result"
    [] job[j].status \in {"stale", "skipped"} /\ job[j].progress # "none" -> "in_progress"
    [] job[j].status = "failed_safely" -> "error"
    [] OTHER -> "notice"

\* What a job reports it wrote is what readers see, until a later commit is reviewed, or
\* one the head came back to, or a job fails at its start, or somebody deletes a comment:
\* it reached the canonical comment and no later step of the job overwrote it.
ReportedIsShown ==
  \A j \in Jobs : Reports(j) /\ deletions = 0 =>
    /\ comments # {}
    /\ \/ Canonical.body.sha > j
       \/ Canonical.body.sha \in ReturnedTo
       \/ Unchecked(Canonical.body)
       \/ Canonical.body.sha = j /\ Canonical.body.kind = Wrote(j)

\* A job that starts ends, whatever GitHub answers: every retry and every new look at
\* the comments is bounded.
JobEnds == \A j \in Jobs : Active(j) ~> ~Active(j)

\* review_runner/README.md:170: "Stale findings are discarded without updating the
\* comment": findings are written only while the commit they are of is the head.
StaleFindingsDiscarded ==
  [][\A c \in comments' \ comments : c.body.kind = "result" => head = c.body.sha]_vars

\* review_runner/README.md:170: "A push to one PR cancels only that PR's older review":
\* the CI of a commit, when it succeeds, ends the job of an earlier one only.
OnlyOlderReviewsCancelled ==
  [][\A j \in Jobs, c \in Commits :
       ci[c] = "running" /\ ci'[c] = "success" /\ Active(j) /\ job'[j].pc = "cancelled" =>
         c > j]_vars

============================================================================
