------------------------- MODULE ReviewPipelineProofs -------------------------
(***************************************************************************)
(* Proofs about module ReviewPipeline, for any number of commits, any      *)
(* retries, deletions and returns of the head: the types and the single    *)
(* running job, the number of comments, the order of the commits they      *)
(* name, the diff their findings are of, and that what a job reports it    *)
(* wrote is what readers see.                                              *)
(***************************************************************************)
EXTENDS ReviewPipeline, SharedLemmas

Steps == {"none", "bootstrap", "metadata", "authorize", "diff", "progress", "review",
          "recheck", "publish", "notice", "report", "done", "cancelled"}

\* The steps in which a job waits for its client, and those that only a job whose commit
\* was found at the head comes to.
Writing == {"progress", "publish", "notice", "report"}
PastMetadata == {"authorize", "diff", "progress", "review", "recheck", "publish", "notice"}

\* The commit of the job was found at the head: a job that has a diff got past that.
Compared(j) ==
  job[j].pc \in PastMetadata \/ (job[j].pc = "report" /\ job[j].diff # NoHead)

\* The kind of comment written in each of those steps.
KindAt(pc) == CASE pc = "progress" -> "in_progress"
                [] pc = "publish"  -> "result"
                [] pc = "report"   -> "error"
                [] OTHER           -> "notice"

JobRecords == [pc : Steps, status : Statuses, comment : CommentStatuses,
               progress : CommentStatuses, diff : Shas]

Bodies == [kind : {"none", "in_progress", "result", "notice", "error"}, sha : Shas, diff : Shas]

ClientRecords == [step : {"idle", "list", "head", "write"}, body : Bodies, expected : Shas,
                  target : Nat, relisted : BOOLEAN, attempt : Nat,
                  outcome : {"none", "created", "updated", "failed", "stale"} \cup Escapes]

Types ==
  /\ head \in Commits
  /\ open \in BOOLEAN /\ fork \in BOOLEAN
  /\ ci \in [Commits -> {"none", "running", "success", "failure"}]
  /\ job \in [Jobs -> JobRecords]
  /\ client \in [Jobs -> ClientRecords]
  /\ returned \in Seq([to : Commits, reviewing : BOOLEAN])
  /\ lastId \in Nat /\ lostCreates \in Nat /\ deletions \in Nat
  /\ comments \subseteq [id : 1 .. lastId, body : Bodies]

\* The concurrency group runs one job at a time.
OneAtATime == \A i, j \in Jobs : Active(i) /\ Active(j) => i = j

\* The client of a job is busy only while the job waits for it, with the comment of
\* that step; the check of the head belongs to the findings.
ClientWaits ==
  \A j \in Jobs :
    /\ client[j].step # "idle" =>
         /\ job[j].pc \in Writing
         /\ client[j].body.sha = j
         /\ client[j].body.kind = KindAt(job[j].pc)
         /\ client[j].expected = IF job[j].pc = "publish" THEN j ELSE NoHead
         /\ job[j].pc = "report" => client[j].body.diff = job[j].diff
    /\ job[j].pc \in {"progress", "notice", "report"} =>
         client[j].step # "head" /\ client[j].outcome # "stale"

Control == Types /\ OneAtATime /\ ClientWaits

\* A comment is created only where there is none or the reply to the creation of every
\* one was lost.
CommentsFit ==
  /\ IsFiniteSet(comments)
  /\ \A c, d \in comments : c.id = d.id => c = d
  /\ Cardinality(comments) <= 1 + lostCreates
  /\ \A j \in Jobs : client[j].step \in {"head", "write"} /\ client[j].target = 0 =>
       Cardinality(comments) <= lostCreates

Pushed(c) == ci[c] # "none"

\* A job has no diff before its commit was compared with the head.
Fresh(j) == job[j].pc \in {"bootstrap", "metadata"} => job[j].diff = NoHead

\* Commits are pushed in their order, and unless the head came back to an earlier one it
\* is the latest; since a job found its commit at the head no later one was reviewed, or
\* the head came back.
History ==
  /\ \A c, d \in Commits : Pushed(d) /\ c < d => Pushed(c)
  /\ Pushed(head)
  /\ head \in ReturnedTo \/ \A c \in Commits : Pushed(c) => c <= head
  /\ \A j \in Jobs : Fresh(j) /\ (job[j].pc # "none" => Pushed(j))
  /\ \A c \in comments : c.body.sha \in Commits /\ Pushed(c.body.sha)
  /\ \A j \in Jobs : Compared(j) =>
       \/ j \in ReturnedTo
       \/ /\ \A c \in comments : c.body.sha <= j
          /\ \A i \in Jobs : job[i].pc = "done" => i <= j

LeftAndBack(c) == [to |-> c, reviewing |-> TRUE] \in ToSet(returned)

\* A job that has the diff of another commit does not find its own at the head again,
\* unless the head came back to it.
Diffs ==
  /\ ResultMatchesDiff
  /\ \A j \in Jobs : client[j].step # "idle" /\ client[j].body.kind = "result"
                     /\ client[j].body.diff # j => LeftAndBack(j)
  /\ \A j \in Jobs : job[j].pc \in {"progress", "review", "recheck"} /\ job[j].diff # j =>
       head # j \/ LeftAndBack(j)

Succeeded == {"created", "updated"}

\* The fields of a job from which the kind of its last comment follows.
Statused ==
  \A j \in Jobs :
    /\ job[j].pc \in {"bootstrap", "metadata", "authorize", "diff", "progress"} =>
         job[j].progress = "none"
    /\ job[j].pc \in {"recheck", "publish"} => job[j].status = "reviewed"
    /\ job[j].pc = "notice" =>
         /\ job[j].status \in {"skipped", "fork_review_skipped"}
         /\ job[j].status = "skipped" => job[j].progress = "none"
    /\ job[j].pc = "report" => job[j].status = "failed_safely"

Shows(j, kind) == comments # {} /\ Canonical.body.sha = j /\ Canonical.body.kind = kind

\* Until somebody deletes a comment, a client writes to the canonical one, or makes it;
\* what was written successfully stays there while the job runs, and after it ends until
\* a later commit, one the head came back to or the report of an exception replaces it.
TargetsCanonical(j) ==
  client[j].step \in {"head", "write"} =>
    IF client[j].target = 0
    THEN comments = {} \/ Canonical.body = client[j].body
    ELSE comments # {} /\ client[j].target = Canonical.id

ShownWhileRunning(j) ==
  /\ job[j].pc \in Writing /\ client[j].outcome \in Succeeded => Shows(j, KindAt(job[j].pc))
  /\ job[j].pc \in {"review", "recheck"} /\ job[j].progress \in Succeeded =>
       Shows(j, "in_progress")

ShownWhenDone(j) ==
  Reports(j) =>
    /\ comments # {}
    /\ \/ Canonical.body.sha > j
       \/ Canonical.body.sha \in ReturnedTo
       \/ Unchecked(Canonical.body)
       \/ Canonical.body.sha = j /\ Canonical.body.kind = Wrote(j)

Visible ==
  deletions = 0 =>
    \A j \in Jobs : TargetsCanonical(j) /\ ShownWhileRunning(j) /\ ShownWhenDone(j)

----------------------------------------------------------------------------
\* The identifiers of comments.

\* What a client takes for the comment to write to is a comment, or none where there is
\* none.
LEMMA TargetIsLeast ==
  ASSUME Types
  PROVE  /\ Target \in Nat
         /\ IF comments = {} THEN Target = 0
            ELSE Target \in Ids /\ Target # 0 /\ \A i \in Ids : Target <= i
PROOF
<1>1. Ids \in SUBSET Nat /\ 0 \notin Ids
  BY DEF Types, Ids
<1>2. comments # {} => Ids # {}
  BY DEF Ids
<1> QED
  BY <1>1, <1>2, MinOfNaturals DEF Target

----------------------------------------------------------------------------
\* Types and control.

LEMMA ControlInit == Init => Control
BY PipelineAssumption, CommentsAssumption
   DEF Init, CommentsInit, Control, Types, OneAtATime, ClientWaits, Active, NotStarted, Idle,
       NoBody, JobRecords, ClientRecords, Bodies, Shas, Commits, Steps, Statuses,
       CommentStatuses, NoHead, Writing

\* The steps outside the jobs.
LEMMA OutsideKeepsControl ==
  ASSUME Control, Push \/ Return \/ Close \/ DeleteComment \/ \E c \in Commits : CiFails(c)
  PROVE  Control'
PROOF
<1> USE DEF Control, Types, OneAtATime, ClientWaits, Active, Commits, commentVars
<1>1. CASE Push
  BY <1>1 DEF Push
<1>2. CASE Return
  <2>1. PICK c \in Commits : head' = c /\ ci' = [ci EXCEPT ![c] = "running"]
                             /\ returned' = Append(returned, [to |-> c, reviewing |-> Active(c)])
    BY <1>2 DEF Return
  <2>2. Active(c) \in BOOLEAN
    BY DEF Active
  <2> HIDE DEF Active
  <2>3. [to |-> c, reviewing |-> Active(c)] \in [to : Commits, reviewing : BOOLEAN]
    BY <2>2
  <2>4. returned' \in Seq([to : Commits, reviewing : BOOLEAN])
    BY <2>1, <2>3
  <2> USE DEF Active
  <2> QED
    BY <1>2, <2>1, <2>4 DEF Return
<1>3. CASE Close
  BY <1>3 DEF Close
<1>4. CASE DeleteComment
  BY <1>4 DEF DeleteComment, Delete
<1>5. CASE \E c \in Commits : CiFails(c)
  BY <1>5 DEF CiFails
<1> QED
  BY <1>1, <1>2, <1>3, <1>4, <1>5

\* A job that ends, or goes on to a step in which it does not wait for its client.
LEMMA JobKeepsControl ==
  ASSUME Control, NEW j \in Jobs, Active(j), client[j].step = "idle",
         job' \in [Jobs -> JobRecords], \A i \in Jobs \ {j} : job'[i] = job[i],
         job'[j].pc \notin Writing, Unchanged, UNCHANGED commentVars
  PROVE  Control'
BY DEF Control, Types, OneAtATime, ClientWaits, Active, commentVars, Unchanged, Writing

LEMMA OutcomeKeepsControl ==
  ASSUME Control, NEW j \in Jobs, Active(j), client[j].step = "idle",
         NEW status \in Statuses, NEW comment \in CommentStatuses,
         Outcome(j, status, comment), Unchanged, UNCHANGED commentVars
  PROVE  Control'
PROOF
<1>1. job \in [Jobs -> JobRecords]
  BY DEF Control, Types
<1>2. "done" \in Steps
  BY DEF Steps
<1>3. job' \in [Jobs -> JobRecords]
  BY <1>1, <1>2 DEF Outcome, JobRecords
<1>4. \A i \in Jobs \ {j} : job'[i] = job[i]
  BY <1>1 DEF Outcome
<1>5. job'[j].pc = "done"
  BY <1>1 DEF Outcome, JobRecords
<1> QED
  BY <1>3, <1>4, <1>5, JobKeepsControl DEF Writing

LEMMA GoesKeepsControl ==
  ASSUME Control, NEW j \in Jobs, Active(j), client[j].step = "idle",
         NEW pc \in Steps \ Writing, Goes(j, pc), Unchanged, UNCHANGED commentVars
  PROVE  Control'
PROOF
<1>1. job \in [Jobs -> JobRecords]
  BY DEF Control, Types
<1>2. job' \in [Jobs -> JobRecords]
  BY <1>1 DEF Goes, JobRecords
<1>3. \A i \in Jobs \ {j} : job'[i] = job[i]
  BY <1>1 DEF Goes
<1>4. job'[j].pc = pc
  BY <1>1 DEF Goes, JobRecords
<1> QED
  BY <1>2, <1>3, <1>4, JobKeepsControl

\* A job that starts to write a comment.
LEMMA UpsertKeepsControl ==
  ASSUME Control, NEW j \in Jobs, Active(j), NEW pc \in Writing,
         NEW body \in Bodies, body.sha = j, body.kind = KindAt(pc),
         job' \in [Jobs -> JobRecords], \A i \in Jobs \ {j} : job'[i] = job[i],
         job'[j].pc = pc, pc = "report" => body.diff = job'[j].diff,
         Upsert(j, body, IF pc = "publish" THEN j ELSE NoHead), Unchanged
  PROVE  Control'
PROOF
<1> DEFINE expected == IF pc = "publish" THEN j ELSE NoHead
<1>1. expected \in Shas
  BY DEF Shas, Commits
<1>2. Idle \in ClientRecords
  BY DEF Idle, NoBody, ClientRecords, Bodies, Shas, NoHead
<1> DEFINE c == [Idle EXCEPT !.step = "list", !.body = body, !.expected = expected]
<1>3. c \in ClientRecords /\ c.step = "list" /\ c.body = body /\ c.expected = expected
      /\ c.outcome = "none"
  BY <1>1, <1>2 DEF ClientRecords, Idle
<1>4. client' = [client EXCEPT ![j] = c] /\ client \in [Jobs -> ClientRecords]
  BY DEF Upsert, Control, Types
<1> HIDE DEF c, expected
<1>5. client' \in [Jobs -> ClientRecords] /\ client'[j] = c
      /\ \A i \in Jobs \ {j} : client'[i] = client[i]
  BY <1>3, <1>4
<1>6. Types'
  BY <1>5 DEF Control, Types, Upsert, Unchanged
<1>7. OneAtATime'
  BY DEF Control, OneAtATime, Active
<1>8. ClientWaits'
  <2> SUFFICES ASSUME NEW i \in Jobs
               PROVE  /\ client'[i].step # "idle" =>
                           /\ job'[i].pc \in Writing
                           /\ client'[i].body.sha = i
                           /\ client'[i].body.kind = KindAt(job'[i].pc)
                           /\ client'[i].expected = IF job'[i].pc = "publish" THEN i ELSE NoHead
                           /\ job'[i].pc = "report" => client'[i].body.diff = job'[i].diff
                      /\ job'[i].pc \in {"progress", "notice", "report"} =>
                           client'[i].step # "head" /\ client'[i].outcome # "stale"
    BY DEF ClientWaits
  <2>1. CASE i = j
    BY <1>3, <1>5, <2>1 DEF expected, Writing
  <2>2. CASE i # j
    BY <1>5, <2>2 DEF Control, ClientWaits
  <2> QED
    BY <2>1, <2>2
<1> QED
  BY <1>6, <1>7, <1>8 DEF Control

LEMMA NoticeKeepsControl ==
  ASSUME Control, NEW j \in Jobs, Active(j), NEW status \in Statuses, Notice(j, status)
  PROVE  Control'
PROOF
<1>1. job \in [Jobs -> JobRecords]
  BY DEF Control, Types
<1>2. "notice" \in Steps /\ "notice" \in Writing
  BY DEF Steps, Writing
<1>3. job' \in [Jobs -> JobRecords]
  BY <1>1, <1>2 DEF Notice, JobRecords
<1>4. \A i \in Jobs \ {j} : job'[i] = job[i]
  BY <1>1 DEF Notice
<1>5. job'[j].pc = "notice"
  BY <1>1 DEF Notice, JobRecords
<1> DEFINE body == Body("notice", j)
<1>6. job[j].diff \in Shas /\ j \in Shas
  BY <1>1 DEF JobRecords, Shas, Commits
<1>7. body \in Bodies /\ body.sha = j /\ body.kind = KindAt("notice")
  BY <1>6 DEF Body, Bodies, KindAt
<1>8. Upsert(j, body, IF "notice" = "publish" THEN j ELSE NoHead) /\ Unchanged
  BY DEF Notice
<1> HIDE DEF body
<1> QED
  BY <1>2, <1>3, <1>4, <1>5, <1>7, <1>8, UpsertKeepsControl

LEMMA ReportKeepsControl ==
  ASSUME Control, NEW j \in Jobs, Active(j), Report(j)
  PROVE  Control'
PROOF
<1>1. job \in [Jobs -> JobRecords]
  BY DEF Control, Types
<1>2. "report" \in Steps /\ "report" \in Writing /\ "failed_safely" \in Statuses
  BY DEF Steps, Writing, Statuses
<1>3. job' \in [Jobs -> JobRecords]
  BY <1>1, <1>2 DEF Report, JobRecords
<1>4. \A i \in Jobs \ {j} : job'[i] = job[i]
  BY <1>1 DEF Report
<1>5. job'[j].pc = "report" /\ job'[j].diff = job[j].diff
  BY <1>1 DEF Report, JobRecords
<1> DEFINE body == Body("error", j)
<1>6. job[j].diff \in Shas /\ j \in Shas
  BY <1>1 DEF JobRecords, Shas, Commits
<1>7. body \in Bodies /\ body.sha = j /\ body.kind = KindAt("report")
      /\ body.diff = job'[j].diff
  BY <1>5, <1>6 DEF Body, Bodies, KindAt
<1>8. Upsert(j, body, IF "report" = "publish" THEN j ELSE NoHead) /\ Unchanged
  BY DEF Report
<1> HIDE DEF body
<1> QED
  BY <1>2, <1>3, <1>4, <1>5, <1>7, <1>8, UpsertKeepsControl

LEMMA DriverKeepsControl ==
  ASSUME Control, NEW j \in Jobs, DriverStep(j)
  PROVE  Control'
PROOF
<1>1. job[j].pc \notin {"none", "done", "cancelled"} => Active(j)
  BY DEF Active
<1>2. job[j].pc \notin Writing => client[j].step = "idle"
  BY DEF Control, ClientWaits
<1>3. job \in [Jobs -> JobRecords] /\ client \in [Jobs -> ClientRecords]
  BY DEF Control, Types
<1>4. /\ job[j].status \in Statuses /\ job[j].progress \in CommentStatuses
      /\ job[j].diff \in Shas
  BY <1>3 DEF JobRecords
<1>5. /\ {"metadata", "authorize", "diff", "review", "recheck"} \subseteq Steps \ Writing
      /\ {"reviewed", "skipped", "stale", "failed_safely", "fork_review_skipped"} \subseteq Statuses
      /\ {"created", "updated", "failed", "none", "comment_failure", "not_attempted"}
           \subseteq CommentStatuses
  BY DEF Steps, Writing, Statuses, CommentStatuses
<1>6. CASE Bootstrap(j)
  BY <1>1, <1>2, <1>5, <1>6, GoesKeepsControl, OutcomeKeepsControl DEF Bootstrap, Writing
<1>7. CASE ApiError(j)
  BY <1>1, <1>2, <1>5, <1>7, OutcomeKeepsControl DEF ApiError, Writing
<1>8. CASE ValidateMetadata(j)
  BY <1>1, <1>2, <1>5, <1>8, GoesKeepsControl, OutcomeKeepsControl
     DEF ValidateMetadata, Writing
<1>9. CASE BaseMoved(j)
  BY <1>1, <1>2, <1>5, <1>9, OutcomeKeepsControl DEF BaseMoved, Writing
<1>10. CASE HeadRepositoryGone(j)
  BY <1>1, <1>10, ReportKeepsControl DEF HeadRepositoryGone
<1>11. CASE Authorized(j)
  BY <1>1, <1>2, <1>5, <1>11, GoesKeepsControl DEF Authorized, Writing
<1>12. CASE NotAuthorized(j)
  BY <1>1, <1>2, <1>5, <1>12, NoticeKeepsControl, OutcomeKeepsControl
     DEF NotAuthorized, Writing
<1>13. CASE GetDiff(j)
  <2> DEFINE body == [kind |-> "in_progress", sha |-> j, diff |-> head]
  <2>1. head \in Shas /\ j \in Shas
    BY DEF Control, Types, Shas, Commits
  <2>2. body \in Bodies /\ body.sha = j /\ body.kind = KindAt("progress")
    BY <2>1 DEF Bodies, KindAt
  <2>3. "progress" \in Steps /\ "progress" \in Writing
    BY DEF Steps, Writing
  <2>4. job' \in [Jobs -> JobRecords]
    BY <1>3, <1>13, <2>1, <2>3 DEF GetDiff, JobRecords
  <2>5. \A i \in Jobs \ {j} : job'[i] = job[i]
    BY <1>3, <1>13 DEF GetDiff
  <2>6. job'[j].pc = "progress"
    BY <1>3, <1>13 DEF GetDiff, JobRecords
  <2>7. Upsert(j, body, IF "progress" = "publish" THEN j ELSE NoHead) /\ Unchanged /\ Active(j)
    BY <1>1, <1>13 DEF GetDiff
  <2> HIDE DEF body
  <2> QED
    BY <2>2, <2>3, <2>4, <2>5, <2>6, <2>7, UpsertKeepsControl
<1>14. CASE DiffTooLarge(j)
  BY <1>1, <1>5, <1>14, NoticeKeepsControl DEF DiffTooLarge
<1>15. CASE ForkDiffFails(j)
  BY <1>1, <1>5, <1>15, NoticeKeepsControl DEF ForkDiffFails
<1>16. CASE ProgressDone(j)
  <2>1. client[j].outcome \in CommentStatuses
    BY <1>3, <1>16 DEF Control, ClientWaits, ProgressDone, Returned, ClientRecords,
                       CommentStatuses, Escapes
  <2>2. job' \in [Jobs -> JobRecords]
    BY <1>3, <1>5, <1>16, <2>1 DEF ProgressDone, JobRecords
  <2>3. \A i \in Jobs \ {j} : job'[i] = job[i]
    BY <1>3, <1>16 DEF ProgressDone
  <2>4. job'[j].pc = "review"
    BY <1>3, <1>16 DEF ProgressDone, JobRecords
  <2> QED
    BY <1>1, <1>16, <2>2, <2>3, <2>4, JobKeepsControl DEF ProgressDone, Returned, Writing
<1>17. CASE Reviewed(j)
  <2>1. job' \in [Jobs -> JobRecords]
    BY <1>3, <1>5, <1>17 DEF Reviewed, JobRecords
  <2>2. \A i \in Jobs \ {j} : job'[i] = job[i]
    BY <1>3, <1>17 DEF Reviewed
  <2>3. job'[j].pc = "recheck"
    BY <1>3, <1>17 DEF Reviewed, JobRecords
  <2> QED
    BY <1>1, <1>2, <1>17, <2>1, <2>2, <2>3, JobKeepsControl DEF Reviewed, Writing
<1>18. CASE Raises(j)
  BY <1>1, <1>2, <1>5, <1>18, ReportKeepsControl, OutcomeKeepsControl DEF Raises, Writing
<1>19. CASE Recheck(j)
  <2>1. CASE open /\ HeadIs(j)
    <3> DEFINE body == Body("result", j)
    <3>1. j \in Shas
      BY DEF Shas, Commits
    <3>2. body \in Bodies /\ body.sha = j /\ body.kind = KindAt("publish")
      BY <1>4, <3>1 DEF Body, Bodies, KindAt
    <3>3. "publish" \in Steps /\ "publish" \in Writing
      BY DEF Steps, Writing
    <3>4. Goes(j, "publish")
      BY <1>19, <2>1 DEF Recheck
    <3>5. job' \in [Jobs -> JobRecords]
      BY <1>3, <3>3, <3>4 DEF Goes, JobRecords
    <3>6. \A i \in Jobs \ {j} : job'[i] = job[i]
      BY <1>3, <3>4 DEF Goes
    <3>7. job'[j].pc = "publish"
      BY <1>3, <3>4 DEF Goes, JobRecords
    <3>8. Upsert(j, body, IF "publish" = "publish" THEN j ELSE NoHead) /\ Unchanged /\ Active(j)
      BY <1>1, <1>19, <2>1 DEF Recheck
    <3> HIDE DEF body
    <3> QED
      BY <3>2, <3>3, <3>5, <3>6, <3>7, <3>8, UpsertKeepsControl
  <2>2. CASE ~(open /\ HeadIs(j))
    <3>1. PICK status \in Statuses : Outcome(j, status, job[j].progress)
      BY <1>5, <1>19, <2>2 DEF Recheck
    <3> QED
      BY <1>1, <1>2, <1>4, <1>19, <2>2, <3>1, OutcomeKeepsControl DEF Recheck, Writing
  <2> QED
    BY <2>1, <2>2
<1>20. CASE Published(j)
  <2>1. client[j].outcome \in {"none", "created", "updated", "failed", "stale"}
    BY <1>3, <1>20 DEF Published, Returned, ClientRecords
  <2>2. PICK status \in Statuses, comment \in CommentStatuses : Outcome(j, status, comment)
    BY <1>4, <1>5, <1>20, <2>1 DEF Published
  <2> QED
    BY <1>1, <1>20, <2>2, OutcomeKeepsControl DEF Published, Returned
<1>21. CASE NoticeDone(j)
  <2>1. client[j].outcome \in CommentStatuses
    BY <1>3, <1>21 DEF Control, ClientWaits, NoticeDone, Returned, ClientRecords,
                       CommentStatuses, Escapes
  <2> QED
    BY <1>1, <1>4, <1>21, <2>1, OutcomeKeepsControl DEF NoticeDone, Returned
<1>22. CASE UpsertRaises(j)
  BY <1>1, <1>5, <1>22, ReportKeepsControl, OutcomeKeepsControl DEF UpsertRaises
<1>23. CASE ReportDone(j)
  <2> DEFINE outcome == IF client[j].outcome \in Escapes THEN "failed" ELSE client[j].outcome
  <2>1. outcome \in CommentStatuses
    BY <1>3, <1>23 DEF Control, ClientWaits, ReportDone, ClientRecords, CommentStatuses, Escapes
  <2>2. Outcome(j, job[j].status, outcome)
    BY <1>23 DEF ReportDone
  <2> HIDE DEF outcome
  <2> QED
    BY <1>1, <1>4, <1>23, <2>1, <2>2, OutcomeKeepsControl DEF ReportDone
<1> QED
  BY <1>6, <1>7, <1>8, <1>9, <1>10, <1>11, <1>12, <1>13, <1>14, <1>15, <1>16, <1>17,
     <1>18, <1>19, <1>20, <1>21, <1>22, <1>23 DEF DriverStep

\* The moves of a client: it goes on with the same comment, or ends.
LEMMA MoveKeepsControl ==
  ASSUME Control, NEW j \in Jobs, client[j].step # "idle",
         NEW c \in ClientRecords, client' = [client EXCEPT ![j] = c],
         \/ /\ c.step # "idle" /\ c.body = client[j].body /\ c.expected = client[j].expected
            /\ c.step = "head" => c.expected # NoHead
            /\ c.outcome = client[j].outcome
         \/ /\ c.step = "idle"
            /\ c.outcome = "stale" => client[j].expected # NoHead,
         lastId' \in Nat, lostCreates' \in Nat,
         comments' \subseteq [id : 1 .. lastId', body : Bodies],
         UNCHANGED <<head, open, fork, ci, job, returned, deletions>>
  PROVE  Control'
PROOF
<1>1. client' \in [Jobs -> ClientRecords] /\ client'[j] = c
      /\ \A i \in Jobs \ {j} : client'[i] = client[i]
  BY DEF Control, Types
<1>2. Types'
  BY <1>1 DEF Control, Types
<1>3. OneAtATime'
  BY DEF Control, OneAtATime, Active
<1>4. ClientWaits'
  <2> SUFFICES ASSUME NEW i \in Jobs
               PROVE  /\ client'[i].step # "idle" =>
                           /\ job[i].pc \in Writing
                           /\ client'[i].body.sha = i
                           /\ client'[i].body.kind = KindAt(job[i].pc)
                           /\ client'[i].expected = IF job[i].pc = "publish" THEN i ELSE NoHead
                           /\ job[i].pc = "report" => client'[i].body.diff = job[i].diff
                      /\ job[i].pc \in {"progress", "notice", "report"} =>
                           client'[i].step # "head" /\ client'[i].outcome # "stale"
    BY DEF ClientWaits
  <2>1. CASE i = j
    BY <1>1, <2>1 DEF Control, ClientWaits
  <2>2. CASE i # j
    BY <1>1, <2>2 DEF Control, ClientWaits
  <2> QED
    BY <2>1, <2>2
<1> QED
  BY <1>2, <1>3, <1>4 DEF Control

LEMMA EndKeepsControl ==
  ASSUME Control, NEW j \in Jobs, client[j].step # "idle",
         NEW outcome \in {"created", "updated", "failed", "stale"} \cup Escapes, Ends(j, outcome),
         outcome = "stale" => client[j].expected # NoHead,
         lastId' \in Nat, lostCreates' \in Nat,
         comments' \subseteq [id : 1 .. lastId', body : Bodies],
         UNCHANGED <<head, open, fork, ci, job, returned, deletions>>
  PROVE  Control'
PROOF
<1> DEFINE c == [Idle EXCEPT !.outcome = outcome]
<1>1. Idle \in ClientRecords
  BY DEF Idle, NoBody, ClientRecords, Bodies, Shas, NoHead
<1>2. c \in ClientRecords /\ c.step = "idle" /\ c.outcome = outcome
  BY <1>1 DEF ClientRecords, Idle
<1>3. client' = [client EXCEPT ![j] = c]
  BY DEF Ends
<1> HIDE DEF c
<1> QED
  BY <1>2, <1>3, MoveKeepsControl

\* What GitHub stores when a write is applied.
LEMMA AppliedTypes ==
  ASSUME Types, NEW j \in Jobs, Applicable(j), Applied(j)
  PROVE  lastId' \in Nat /\ comments' \subseteq [id : 1 .. lastId', body : Bodies]
PROOF
<1>1. client[j].body \in Bodies /\ client[j].target \in Ids \cup {0}
  BY DEF Types, ClientRecords, Applicable
<1>2. Ids \subseteq 1 .. lastId
  BY DEF Types, Ids
<1>3. CASE client[j].target = 0
  <2> DEFINE new == [id |-> lastId + 1, body |-> client[j].body]
  <2>1. lastId' = lastId + 1 /\ lastId \in Nat
    BY <1>3 DEF Applied, Types
  <2>2. \A c \in comments' : c \in comments \/ c = new
    BY <1>3 DEF Applied, Written
  <2>3. new \in [id : 1 .. lastId', body : Bodies]
    BY <1>1, <2>1
  <2>4. 1 .. lastId \subseteq 1 .. lastId'
    BY <2>1
  <2>5. [id : 1 .. lastId, body : Bodies] \subseteq [id : 1 .. lastId', body : Bodies]
    BY <2>4
  <2> QED
    BY <2>1, <2>2, <2>3, <2>5 DEF Types
<1>4. CASE client[j].target # 0
  <2> DEFINE new == [id |-> client[j].target, body |-> client[j].body]
  <2>1. lastId' = lastId /\ lastId \in Nat
    BY <1>4 DEF Applied, Types
  <2>2. \A c \in comments' : c \in comments \/ c = new
    BY <1>4 DEF Applied, Written
  <2>3. new \in [id : 1 .. lastId, body : Bodies]
    BY <1>1, <1>2, <1>4
  <2> QED
    BY <2>1, <2>2, <2>3 DEF Types
<1> QED
  BY <1>3, <1>4

LEMMA TryKeepsControl ==
  ASSUME Control, NEW j \in Jobs, client[j].step = "write", TriedAgain(j),
         lastId' \in Nat, lostCreates' \in Nat,
         comments' \subseteq [id : 1 .. lastId', body : Bodies],
         UNCHANGED <<head, open, fork, ci, job, returned, deletions>>
  PROVE  Control'
PROOF
<1>1. CASE client[j].attempt < MaxApiRetries
  <2> DEFINE c == [client[j] EXCEPT !.attempt = @ + 1]
  <2>1. client[j] \in ClientRecords
    BY DEF Control, Types
  <2>2. c \in ClientRecords /\ c.step = "write" /\ c.body = client[j].body
        /\ c.expected = client[j].expected /\ c.outcome = client[j].outcome
    BY <2>1 DEF ClientRecords
  <2>3. client' = [client EXCEPT ![j] = c]
    BY <1>1 DEF TriedAgain
  <2> HIDE DEF c
  <2> QED
    BY <2>2, <2>3, MoveKeepsControl
<1>2. CASE ~(client[j].attempt < MaxApiRetries)
  BY <1>2, EndKeepsControl DEF TriedAgain
<1> QED
  BY <1>1, <1>2

LEMMA ClientKeepsControl ==
  ASSUME Control, NEW j \in Jobs, ClientMoves(j)
  PROVE  Control'
PROOF
<1> DEFINE Same == comments' = comments /\ lastId' = lastId /\ lostCreates' = lostCreates
<1>1. UNCHANGED <<head, open, fork, ci, job, returned>>
  BY DEF ClientMoves
<1>2. client[j] \in ClientRecords /\ lostCreates \in Nat /\ Types
  BY DEF Control, Types
<1>3. Same => /\ lastId' \in Nat /\ lostCreates' \in Nat
              /\ comments' \subseteq [id : 1 .. lastId', body : Bodies]
  BY DEF Control, Types
<1>4. CASE List(j)
  <2> DEFINE c == [client[j] EXCEPT !.step = IF client[j].expected = NoHead
                                             THEN "write" ELSE "head",
                                    !.target = Target]
  <2>1. c \in ClientRecords /\ c.step # "idle" /\ c.body = client[j].body
        /\ c.expected = client[j].expected /\ c.outcome = client[j].outcome
        /\ (c.step = "head" => c.expected # NoHead)
    BY <1>2, TargetIsLeast DEF ClientRecords
  <2>2. client' = [client EXCEPT ![j] = c]
    BY <1>4 DEF List
  <2>3. client[j].step # "idle" /\ Same /\ UNCHANGED deletions
    BY <1>4 DEF List
  <2> HIDE DEF c
  <2> QED
    BY <1>1, <1>3, <2>1, <2>2, <2>3, MoveKeepsControl
<1>5. CASE RequireHead(j)
  <2>1. client[j].step = "head" /\ Same /\ UNCHANGED deletions
    BY <1>5 DEF RequireHead
  <2>2. client[j].expected # NoHead
    BY <2>1, PipelineAssumption DEF Control, ClientWaits, NoHead, Writing
  <2>3. CASE HeadIs(client[j].expected)
    <3> DEFINE c == [client[j] EXCEPT !.step = "write"]
    <3>1. c \in ClientRecords /\ c.step = "write" /\ c.body = client[j].body
          /\ c.expected = client[j].expected /\ c.outcome = client[j].outcome
      BY <1>2 DEF ClientRecords
    <3>2. client' = [client EXCEPT ![j] = c]
      BY <1>5, <2>3 DEF RequireHead
    <3> HIDE DEF c
    <3> QED
      BY <1>1, <1>3, <2>1, <3>1, <3>2, MoveKeepsControl
  <2>4. CASE ~HeadIs(client[j].expected)
    BY <1>1, <1>3, <1>5, <2>1, <2>2, <2>4, EndKeepsControl DEF RequireHead
  <2> QED
    BY <2>3, <2>4
<1>6. CASE Write(j)
  <2>1. client[j].step = "write" /\ Applicable(j) /\ Applied(j)
        /\ UNCHANGED <<lostCreates, deletions>>
    BY <1>6 DEF Write, Applicable
  <2>2. Ends(j, "created") \/ Ends(j, "updated")
    BY <1>6 DEF Write
  <2> QED
    BY <1>1, <1>2, <2>1, <2>2, AppliedTypes, EndKeepsControl
<1>7. CASE WriteLost(j)
  BY <1>1, <1>3, <1>7, TryKeepsControl DEF WriteLost
<1>8. CASE ReplyLost(j)
  <2>1. client[j].step = "write" /\ Applicable(j) /\ Applied(j) /\ TriedAgain(j)
        /\ UNCHANGED deletions
    BY <1>8 DEF ReplyLost, Applicable
  <2>2. lostCreates' \in Nat
    BY <1>2, <1>8 DEF ReplyLost
  <2> QED
    BY <1>1, <1>2, <2>1, <2>2, AppliedTypes, TryKeepsControl
<1>9. CASE NotFound(j)
  <2>1. client[j].step # "idle" /\ Same /\ UNCHANGED deletions
    BY <1>9 DEF NotFound
  <2>2. CASE client[j].relisted
    BY <1>1, <1>3, <1>9, <2>1, <2>2, EndKeepsControl DEF NotFound
  <2>3. CASE ~client[j].relisted
    <3> DEFINE c == [client[j] EXCEPT !.step = "list", !.relisted = TRUE, !.attempt = 0]
    <3>1. c \in ClientRecords /\ c.step = "list" /\ c.body = client[j].body
          /\ c.expected = client[j].expected /\ c.outcome = client[j].outcome
      BY <1>2 DEF ClientRecords
    <3>2. client' = [client EXCEPT ![j] = c]
      BY <1>9, <2>3 DEF NotFound
    <3> HIDE DEF c
    <3> QED
      BY <1>1, <1>3, <2>1, <3>1, <3>2, MoveKeepsControl
  <2> QED
    BY <2>2, <2>3
<1>10. CASE Refused(j)
  BY <1>1, <1>3, <1>10, EndKeepsControl DEF Refused
<1>11. CASE ReplyUnusable(j)
  <2>1. client[j].step = "write" /\ Applicable(j) /\ Applied(j) /\ Ends(j, "failed")
        /\ UNCHANGED <<lostCreates, deletions>>
    BY <1>11 DEF ReplyUnusable, Applicable
  <2> QED
    BY <1>1, <1>2, <2>1, AppliedTypes, EndKeepsControl
<1>12. CASE CallRaises(j)
  <2>1. PICK outcome \in Escapes : Ends(j, outcome)
    BY <1>12 DEF CallRaises
  <2>2. client[j].step # "idle" /\ UNCHANGED <<lostCreates, deletions>> /\ outcome # "stale"
    BY <1>12, <2>1 DEF CallRaises, Escapes
  <2>3. CASE UNCHANGED <<comments, lastId>>
    BY <1>1, <1>3, <2>1, <2>2, <2>3, EndKeepsControl
  <2>4. CASE Applicable(j) /\ Applied(j)
    BY <1>1, <1>2, <2>1, <2>2, <2>4, AppliedTypes, EndKeepsControl
  <2> QED
    BY <1>12, <2>3, <2>4 DEF CallRaises
<1> QED
  BY <1>4, <1>5, <1>6, <1>7, <1>8, <1>9, <1>10, <1>11, <1>12 DEF ClientMoves, ClientStep

LEMMA EndedOutsideKeepsControl ==
  ASSUME Control, NEW j \in Jobs, EndedOutside(j)
  PROVE  Control'
PROOF
<1>1. job \in [Jobs -> JobRecords] /\ client \in [Jobs -> ClientRecords]
  BY DEF Control, Types
<1>2. "cancelled" \in Steps
  BY DEF Steps
<1>3. job' \in [Jobs -> JobRecords]
  BY <1>1, <1>2 DEF EndedOutside, JobRecords
<1>4. job'[j].pc = "cancelled" /\ \A i \in Jobs \ {j} : job'[i] = job[i]
  BY <1>1 DEF EndedOutside, JobRecords
<1>5. Idle \in ClientRecords
  BY DEF Idle, NoBody, ClientRecords, Bodies, Shas, NoHead
<1>6. client' \in [Jobs -> ClientRecords] /\ client'[j] = Idle
      /\ \A i \in Jobs \ {j} : client'[i] = client[i]
  BY <1>1, <1>5 DEF EndedOutside
<1>7. Types'
  BY <1>3, <1>6 DEF EndedOutside, Control, Types
<1>8. OneAtATime'
  BY <1>4 DEF Control, OneAtATime, Active
<1>9. ClientWaits'
  BY <1>4, <1>6 DEF Control, ClientWaits, Idle, Writing
<1> QED
  BY <1>7, <1>8, <1>9 DEF Control

LEMMA CiSucceedsKeepsControl ==
  ASSUME Control, NEW c \in Commits, CiSucceeds(c)
  PROVE  Control'
PROOF
<1>1. job \in [Jobs -> JobRecords] /\ client \in [Jobs -> ClientRecords]
      /\ ci \in [Commits -> {"none", "running", "success", "failure"}]
      /\ c \in Jobs /\ c \in Shas
  BY DEF Control, Types, Commits, Shas
<1>2. ci' \in [Commits -> {"none", "running", "success", "failure"}]
  BY <1>1 DEF CiSucceeds
<1>3. CASE ~open
  BY <1>2, <1>3 DEF CiSucceeds, Control, Types, OneAtATime, ClientWaits, Active
<1>4. CASE open
  <2> DEFINE started == [NotStarted EXCEPT !.pc = "bootstrap"]
  <2>1. started \in JobRecords /\ started.pc = "bootstrap"
    BY DEF NotStarted, JobRecords, Steps, Statuses, CommentStatuses, Shas, NoHead
  <2>2. \A j \in Jobs : /\ [job[j] EXCEPT !.pc = "cancelled"] \in JobRecords
                        /\ [job[j] EXCEPT !.pc = "cancelled"].pc = "cancelled"
    BY <1>1 DEF JobRecords, Steps
  <2>3. job' = [j \in Jobs |-> IF j = c THEN started
                              ELSE IF Active(j) THEN [job[j] EXCEPT !.pc = "cancelled"]
                              ELSE job[j]]
    BY <1>4 DEF CiSucceeds
  <2> HIDE DEF started
  <2>4. job' \in [Jobs -> JobRecords]
    BY <1>1, <2>1, <2>2, <2>3
  <2>5. /\ job'[c].pc = "bootstrap"
        /\ \A j \in Jobs \ {c} : IF Active(j) THEN job'[j].pc = "cancelled"
                                 ELSE job'[j] = job[j]
    BY <1>1, <2>1, <2>2, <2>3
  <2>6. Idle \in ClientRecords
    BY DEF Idle, NoBody, ClientRecords, Bodies, Shas, NoHead
  <2>7. client' = [j \in Jobs |-> IF Active(j) THEN Idle ELSE client[j]]
    BY <1>4 DEF CiSucceeds
  <2>8. client' \in [Jobs -> ClientRecords]
    BY <1>1, <2>6, <2>7
  <2>9. \A j \in Jobs : client'[j].step = "idle"
    BY <2>7 DEF Control, ClientWaits, Active, Writing, Idle
  <2>10. Types'
    BY <1>2, <2>4, <2>8 DEF CiSucceeds, Control, Types
  <2>11. \A j \in Jobs \ {c} : ~Active(j)'
    BY <2>5 DEF Active
  <2>12. OneAtATime'
    BY <2>11 DEF OneAtATime
  <2>13. \A j \in Jobs : job'[j].pc \notin Writing
    BY <2>5, <2>11 DEF Active, Writing
  <2>14. ClientWaits'
    BY <2>9, <2>13 DEF ClientWaits, Writing
  <2> QED
    BY <2>10, <2>12, <2>14 DEF Control
<1> QED
  BY <1>3, <1>4

LEMMA ControlStep ==
  ASSUME Control, [Next]_vars PROVE Control'
PROOF
<1>1. CASE UNCHANGED vars
  BY <1>1 DEF vars, commentVars, Control, Types, OneAtATime, ClientWaits, Active
<1>2. CASE \E c \in Commits : CiSucceeds(c)
  BY <1>2, CiSucceedsKeepsControl
<1>3. CASE \E j \in Jobs : JobStep(j)
  BY <1>3, DriverKeepsControl, ClientKeepsControl DEF JobStep
<1>4. CASE \E j \in Jobs : EndedOutside(j)
  BY <1>4, EndedOutsideKeepsControl
<1> QED
  BY <1>1, <1>2, <1>3, <1>4, OutsideKeepsControl DEF Next

LEMMA ControlHolds == Spec => []Control
BY ControlInit, ControlStep, PTL DEF Spec

\* Every variable has the values the code gives it, a client is busy only while its job
\* waits for it, and the concurrency group lets one job run at a time, whatever the order
\* in which commits are pushed, tested and reviewed.
THEOREM TypesHold == Spec => []TypeOK
PROOF
<1>1. ASSUME Control PROVE TypeOK
  <2>1. job \in [Jobs -> JobRecords] /\ client \in [Jobs -> ClientRecords]
    BY <1>1 DEF Control, Types
  <2>2. \A j \in Jobs :
          /\ job[j].pc \in Steps /\ job[j].status \in Statuses
          /\ job[j].comment \in CommentStatuses /\ job[j].progress \in CommentStatuses
          /\ job[j].diff \in Shas
          /\ client[j].step \in {"idle", "list", "head", "write"}
    BY <2>1 DEF JobRecords, ClientRecords
  <2>3. \A j \in Jobs : client[j].step # "idle" => job[j].pc \in Writing
    BY <1>1 DEF Control, ClientWaits
  <2> DEFINE A == {j \in Jobs : Active(j)}
  <2>4. A = {} \/ \E j : A = {j}
    BY <1>1 DEF Control, OneAtATime
  <2>5. Cardinality(A) <= 1
    <3> HIDE DEF A
    <3>1. CASE A = {}
      BY <3>1, FS_EmptySet
    <3>2. ASSUME NEW j, A = {j} PROVE Cardinality(A) <= 1
      <4>1. Cardinality({j}) = 1
        BY FS_Singleton, Zenon
      <4> QED
        BY <3>2, <4>1
    <3> QED
      BY <2>4, <3>1, <3>2
  <2>6. \A c \in comments : c.id \in 1 .. lastId
    BY <1>1 DEF Control, Types
  <2>7. head \in Commits /\ open \in BOOLEAN /\ fork \in BOOLEAN
        /\ ci \in [Commits -> {"none", "running", "success", "failure"}]
    BY <1>1 DEF Control, Types
  <2> QED
    <3>1. \A j \in Jobs : {job[j].comment, job[j].progress} \subseteq CommentStatuses
      BY <2>2
    <3> HIDE DEF A
    <3> QED
      BY <2>2, <2>3, <2>5, <2>6, <2>7, <3>1 DEF TypeOK, Steps, Writing, A
<1> QED
  BY <1>1, ControlHolds, PTL

----------------------------------------------------------------------------
\* What a step does to the comments.

\* It leaves them; a client that is about to write goes on with the comment it was
\* given, and with its target or the one it just found.
LeavesComments ==
  /\ UNCHANGED <<comments, lastId, lostCreates, deletions>>
  /\ \A i \in Jobs : client'[i].step \in {"head", "write"} =>
       /\ client'[i].body = client[i].body
       /\ \/ client[i].step \in {"head", "write"} /\ client'[i].target = client[i].target
          \/ client'[i].target = Target
  /\ \A i \in Jobs : client'[i].outcome \in {"none", "failed", "stale", client[i].outcome}
                                               \cup Escapes

\* GitHub applies the write of a job; the reply arrives, or it is lost.
Applies(j) ==
  /\ client[j].step = "write"
  /\ client[j].target \in Ids \cup {0}
  /\ Applied(j)
  /\ \A i \in Jobs \ {j} : client'[i] = client[i]
  /\ \/ client'[j].step = "idle" /\ UNCHANGED lostCreates
     \/ /\ \/ client'[j].step = "idle" /\ client'[j].outcome = "failed"
           \/ /\ client'[j].step = "write"
              /\ client'[j].target = client[j].target /\ client'[j].body = client[j].body
              /\ client'[j].outcome = client[j].outcome
        /\ lostCreates' = IF client[j].target = 0 THEN lostCreates + 1 ELSE lostCreates
  /\ UNCHANGED <<head, open, fork, ci, job, returned, deletions>>

LEMMA UpsertLeaves ==
  ASSUME Types, NEW j \in Jobs, NEW body, NEW expected, Upsert(j, body, expected)
  PROVE  LeavesComments
BY DEF Types, Upsert, Idle, LeavesComments

LEMMA EndsMeans ==
  ASSUME Types, NEW j \in Jobs, NEW outcome, Ends(j, outcome)
  PROVE  /\ client'[j].step = "idle" /\ client'[j].outcome = outcome
         /\ \A i \in Jobs \ {j} : client'[i] = client[i]
BY DEF Types, Ends, Idle

LEMMA TriesMeans ==
  ASSUME Types, NEW j \in Jobs, TriedAgain(j)
  PROVE  /\ \/ client'[j].step = "idle" /\ client'[j].outcome = "failed"
            \/ /\ client'[j].step = client[j].step /\ client'[j].target = client[j].target
               /\ client'[j].body = client[j].body /\ client'[j].outcome = client[j].outcome
         /\ \A i \in Jobs \ {j} : client'[i] = client[i]
PROOF
<1>1. CASE client[j].attempt < MaxApiRetries
  BY <1>1 DEF Types, TriedAgain, ClientRecords
<1>2. CASE ~(client[j].attempt < MaxApiRetries)
  BY <1>2, EndsMeans DEF TriedAgain
<1> QED
  BY <1>1, <1>2

LEMMA ClientEffect ==
  ASSUME Types, NEW j \in Jobs, ClientMoves(j)
  PROVE  LeavesComments \/ Applies(j)
PROOF
<1>1. client \in [Jobs -> ClientRecords]
  BY DEF Types
<1>2. CASE List(j)
  <2>1. /\ client'[j].body = client[j].body /\ client'[j].target = Target
        /\ client'[j].outcome = client[j].outcome
        /\ \A i \in Jobs \ {j} : client'[i] = client[i]
    BY <1>1, <1>2 DEF List, ClientRecords
  <2> QED
    BY <1>2, <2>1 DEF List, LeavesComments
<1>3. CASE RequireHead(j)
  <2>1. CASE HeadIs(client[j].expected)
    <3>1. /\ client'[j].body = client[j].body /\ client'[j].target = client[j].target
          /\ client[j].step = "head" /\ client'[j].outcome = client[j].outcome
          /\ \A i \in Jobs \ {j} : client'[i] = client[i]
      BY <1>1, <1>3, <2>1 DEF RequireHead, ClientRecords
    <3> QED
      BY <1>3, <3>1 DEF RequireHead, LeavesComments
  <2>2. CASE ~HeadIs(client[j].expected)
    BY <1>3, <2>2, EndsMeans DEF RequireHead, LeavesComments
  <2> QED
    BY <2>1, <2>2
<1>4. CASE Write(j)
  <2>1. PICK outcome : Ends(j, outcome)
    BY <1>4 DEF Write
  <2> QED
    BY <1>4, <2>1, EndsMeans DEF Write, Applicable, Applies, ClientMoves
<1>5. CASE WriteLost(j)
  BY <1>5, TriesMeans DEF WriteLost, LeavesComments
<1>6. CASE ReplyLost(j)
  BY <1>6, TriesMeans DEF ReplyLost, Applicable, Applies, ClientMoves
<1>7. CASE NotFound(j)
  <2>1. CASE client[j].relisted
    BY <1>7, <2>1, EndsMeans DEF NotFound, LeavesComments
  <2>2. CASE ~client[j].relisted
    <3>1. client'[j].step = "list" /\ client'[j].outcome = client[j].outcome
          /\ \A i \in Jobs \ {j} : client'[i] = client[i]
      BY <1>1, <1>7, <2>2 DEF NotFound, ClientRecords
    <3> QED
      BY <1>7, <3>1 DEF NotFound, LeavesComments
  <2> QED
    BY <2>1, <2>2
<1>8. CASE Refused(j)
  BY <1>8, EndsMeans DEF Refused, LeavesComments
<1>9. CASE ReplyUnusable(j)
  BY <1>9, EndsMeans DEF ReplyUnusable, Applicable, Applies, ClientMoves
<1>10. CASE CallRaises(j)
  <2>1. PICK outcome \in Escapes : Ends(j, outcome)
    BY <1>10 DEF CallRaises
  <2>2. CASE UNCHANGED <<comments, lastId>>
    BY <1>10, <2>1, <2>2, EndsMeans DEF CallRaises, LeavesComments
  <2>3. CASE Applicable(j) /\ Applied(j)
    BY <1>10, <2>1, <2>3, EndsMeans DEF CallRaises, Applicable, Applies, ClientMoves
  <2> QED
    BY <1>10, <2>2, <2>3 DEF CallRaises
<1> QED
  BY <1>2, <1>3, <1>4, <1>5, <1>6, <1>7, <1>8, <1>9, <1>10 DEF ClientMoves, ClientStep

LEMMA StepEffect ==
  ASSUME Types, [Next]_vars
  PROVE  LeavesComments \/ DeleteComment \/ \E j \in Jobs : Applies(j)
PROOF
<1>1. ASSUME UNCHANGED commentVars PROVE LeavesComments
  BY <1>1 DEF commentVars, LeavesComments
<1>2. ASSUME NEW j \in Jobs, DriverStep(j) PROVE LeavesComments
  BY <1>1, <1>2, UpsertLeaves
     DEF DriverStep, Bootstrap, ApiError, ValidateMetadata, BaseMoved, HeadRepositoryGone,
         Authorized, NotAuthorized, GetDiff, DiffTooLarge, ForkDiffFails, ProgressDone,
         Reviewed, Raises, UpsertRaises, Recheck, Published, NoticeDone, ReportDone, Notice,
         Report
<1>3. ASSUME NEW j \in Jobs, EndedOutside(j) PROVE LeavesComments
  BY <1>3 DEF EndedOutside, Types, Idle, LeavesComments
<1>4. ASSUME NEW c \in Commits, CiSucceeds(c) PROVE LeavesComments
  BY <1>4 DEF CiSucceeds, Types, Idle, LeavesComments
<1>5. ASSUME NEW c \in Commits, CiFails(c) PROVE LeavesComments
  BY <1>1, <1>5 DEF CiFails
<1>6. ASSUME Push \/ Return \/ Close PROVE LeavesComments
  BY <1>1, <1>6 DEF Push, Return, Close
<1>7. ASSUME UNCHANGED vars PROVE LeavesComments
  BY <1>1, <1>7 DEF vars
<1> QED
  BY <1>2, <1>3, <1>4, <1>5, <1>6, <1>7, ClientEffect DEF Next, JobStep

----------------------------------------------------------------------------
\* The number of comments.

LEMMA ActiveAlone ==
  ASSUME Control, NEW j \in Jobs, client[j].step # "idle"
  PROVE  \A i \in Jobs \ {j} : client[i].step = "idle"
BY DEF Control, OneAtATime, ClientWaits, Active, Writing

\* A creation adds a comment, an update replaces one.
LEMMA WriteCounts ==
  ASSUME Types, CommentsFit, NEW j \in Jobs, Applied(j), client[j].target \in Ids \cup {0}
  PROVE  /\ IsFiniteSet(comments')
         /\ \A c, d \in comments' : c.id = d.id => c = d
         /\ Cardinality(comments') = IF client[j].target = 0 THEN Cardinality(comments) + 1
                                     ELSE Cardinality(comments)
PROOF
<1>1. \A c \in comments : c.id \in 1 .. lastId
  BY DEF Types
<1>2. lastId \in Nat /\ IsFiniteSet(comments)
  BY DEF Types, CommentsFit
<1>3. Cardinality(comments) \in Nat
  BY <1>2, FS_CardinalityType
<1>4. CASE client[j].target = 0
  <2> DEFINE new == [id |-> lastId + 1, body |-> client[j].body]
  <2>1. {c \in comments : c.id # lastId + 1} = comments
    BY <1>1, <1>2
  <2>2. comments' = comments \cup {new}
    BY <1>4, <2>1 DEF Applied, Written
  <2>3. new.id = lastId + 1
    OBVIOUS
  <2>4. new \notin comments
    BY <1>1, <1>2, <2>3
  <2> HIDE DEF new
  <2>5. IsFiniteSet(comments') /\ Cardinality(comments') = Cardinality(comments) + 1
    BY <1>2, <2>2, <2>4, FS_AddElement
  <2>6. \A c, d \in comments' : c.id = d.id => c = d
    BY <1>1, <1>2, <2>2, <2>3 DEF CommentsFit
  <2> QED
    BY <1>4, <2>5, <2>6
<1>5. CASE client[j].target # 0
  <2> DEFINE new == [id |-> client[j].target, body |-> client[j].body]
  <2>1. PICK old \in comments : old.id = client[j].target
    BY <1>5 DEF Ids
  <2>2. {c \in comments : c.id # client[j].target} = comments \ {old}
    BY <2>1 DEF CommentsFit
  <2>3. comments' = (comments \ {old}) \cup {new}
    BY <1>5, <2>2 DEF Applied, Written
  <2>4. new.id = client[j].target
    OBVIOUS
  <2>5. new \notin comments \ {old}
    BY <2>1, <2>4 DEF CommentsFit
  <2> HIDE DEF new
  <2>6. IsFiniteSet(comments \ {old}) /\ Cardinality(comments \ {old}) = Cardinality(comments) - 1
    BY <1>2, <2>1, FS_RemoveElement
  <2>7. /\ IsFiniteSet(comments')
        /\ Cardinality(comments') = (Cardinality(comments) - 1) + 1
    BY <2>3, <2>5, <2>6, FS_AddElement
  <2>8. \A c, d \in comments' : c.id = d.id => c = d
    BY <2>1, <2>3, <2>4 DEF CommentsFit
  <2> QED
    BY <1>3, <1>5, <2>7, <2>8
<1> QED
  BY <1>4, <1>5

LEMMA CommentsFitInit == Init => CommentsFit
PROOF
<1>1. IsFiniteSet({}) /\ Cardinality({}) = 0
  BY FS_EmptySet
<1> QED
  BY <1>1 DEF Init, CommentsInit, CommentsFit, Idle

LEMMA CommentsFitStep ==
  ASSUME Control, CommentsFit, [Next]_vars
  PROVE  CommentsFit'
PROOF
<1>1. Types /\ lostCreates \in Nat
  BY DEF Control, Types
<1>2. Cardinality(comments) \in Nat
  BY FS_CardinalityType DEF CommentsFit
<1>3. CASE LeavesComments
  <2>1. UNCHANGED <<comments, lostCreates>>
    BY <1>3 DEF LeavesComments
  <2>2. Target = 0 => Cardinality(comments) = 0
    BY <1>1, TargetIsLeast, FS_EmptySet
  <2>3. ASSUME NEW i \in Jobs, client'[i].step \in {"head", "write"}, client'[i].target = 0
        PROVE  Cardinality(comments) <= lostCreates
    BY <1>1, <1>3, <2>2, <2>3 DEF LeavesComments, CommentsFit
  <2> QED
    BY <2>1, <2>3 DEF CommentsFit
<1>4. CASE DeleteComment
  <2>1. PICK c \in comments : comments' = comments \ {c}
    BY <1>4 DEF DeleteComment, Delete
  <2>2. UNCHANGED <<client, lostCreates>>
    BY <1>4 DEF DeleteComment, Delete
  <2>3. IsFiniteSet(comments')
    BY <2>1, FS_RemoveElement DEF CommentsFit
  <2>4. Cardinality(comments') = Cardinality(comments) - 1
    BY <2>1, FS_RemoveElement DEF CommentsFit
  <2> QED
    <3>1. \A a, b \in comments' : a.id = b.id => a = b
      BY <2>1 DEF CommentsFit
    <3>2. Cardinality(comments') <= 1 + lostCreates'
      BY <1>1, <1>2, <2>2, <2>4 DEF CommentsFit
    <3>3. ASSUME NEW j \in Jobs, client'[j].step \in {"head", "write"}, client'[j].target = 0
          PROVE  Cardinality(comments') <= lostCreates'
      BY <1>1, <1>2, <2>2, <2>4, <3>3 DEF CommentsFit
    <3> QED
      BY <2>3, <3>1, <3>2, <3>3 DEF CommentsFit
<1>5. ASSUME NEW j \in Jobs, Applies(j) PROVE CommentsFit'
  <2>1. client[j].step = "write" /\ client[j].target \in Ids \cup {0} /\ Applied(j)
    BY <1>5 DEF Applies
  <2>2. /\ IsFiniteSet(comments')
        /\ \A c, d \in comments' : c.id = d.id => c = d
        /\ Cardinality(comments') = IF client[j].target = 0 THEN Cardinality(comments) + 1
                                    ELSE Cardinality(comments)
    BY <1>1, <2>1, WriteCounts
  <2>3. Cardinality(comments') <= 1 + lostCreates'
    BY <1>1, <1>2, <1>5, <2>1, <2>2 DEF Applies, CommentsFit
  <2>4. \A i \in Jobs \ {j} : client'[i].step = "idle"
    BY <1>5, <2>1, ActiveAlone DEF Applies
  <2>5. client'[j].step \in {"head", "write"} /\ client'[j].target = 0 =>
          Cardinality(comments') <= lostCreates'
    <3> SUFFICES ASSUME client'[j].step \in {"head", "write"}, client'[j].target = 0
                 PROVE  Cardinality(comments') <= lostCreates'
      OBVIOUS
    <3>1. client[j].target = 0 /\ lostCreates' = lostCreates + 1
      BY <1>5 DEF Applies
    <3>2. Cardinality(comments) <= lostCreates
      BY <2>1, <3>1 DEF CommentsFit
    <3> QED
      BY <1>1, <1>2, <2>2, <3>1, <3>2
  <2> QED
    BY <2>2, <2>3, <2>4, <2>5 DEF CommentsFit
<1> QED
  BY <1>1, <1>3, <1>4, <1>5, StepEffect

LEMMA CommentsFitHolds == Spec => []CommentsFit
BY CommentsFitInit, CommentsFitStep, ControlHolds, PTL DEF Spec

\* upsert_marker_comment makes a second comment only where the reply to a creation was
\* lost: for any pushes, ends of jobs, retries, 404 answers and deletions.
THEOREM DuplicatesBounded == Spec => []DuplicatesOnlyFromLostReplies
PROOF
<1>1. CommentsFit => DuplicatesOnlyFromLostReplies
  BY DEF CommentsFit, DuplicatesOnlyFromLostReplies
<1> QED
  BY <1>1, CommentsFitHolds, PTL

----------------------------------------------------------------------------
\* The order of the commits.

LEMMA ToSetAppend ==
  ASSUME NEW S, NEW s \in Seq(S), NEW e \in S
  PROVE  ToSet(Append(s, e)) = ToSet(s) \cup {e}
PROOF
<1> DEFINE t == Append(s, e)
<1>1. /\ Len(s) \in Nat /\ DOMAIN s = 1 .. Len(s) /\ DOMAIN t = 1 .. Len(s) + 1
      /\ t[Len(s) + 1] = e /\ \A i \in 1 .. Len(s) : t[i] = s[i]
  OBVIOUS
<1> HIDE DEF t
<1>2. ToSet(t) \subseteq ToSet(s) \cup {e}
  BY <1>1 DEF ToSet
<1>3. \A x \in ToSet(s) : x \in ToSet(t)
  BY <1>1 DEF ToSet
<1>4. e \in ToSet(t)
  BY <1>1 DEF ToSet
<1>5. ToSet(t) = ToSet(s) \cup {e}
  BY <1>2, <1>3, <1>4
<1> QED
  BY <1>5 DEF t

\* What a step does to the head, to the commits that were pushed and to the returns.
LEMMA HeadEffect ==
  ASSUME Control, [Next]_vars
  PROVE  \/ UNCHANGED <<head, returned>> /\ \A c \in Commits : Pushed(c)' <=> Pushed(c)
         \/ Push /\ UNCHANGED <<returned, job, comments>>
         \/ Return /\ UNCHANGED <<job, comments>>
PROOF
<1>1. ci \in [Commits -> {"none", "running", "success", "failure"}]
  BY DEF Control, Types
<1>2. ASSUME UNCHANGED <<head, returned, ci>>
      PROVE  UNCHANGED <<head, returned>> /\ \A c \in Commits : Pushed(c)' <=> Pushed(c)
  BY <1>2 DEF Pushed
<1>3. ASSUME NEW j \in Jobs, JobStep(j) PROVE UNCHANGED <<head, returned, ci>>
  BY <1>3
     DEF JobStep, ClientMoves, DriverStep, Bootstrap, ApiError, ValidateMetadata, BaseMoved,
         HeadRepositoryGone, Authorized, NotAuthorized, GetDiff, DiffTooLarge, ForkDiffFails,
         ProgressDone, Reviewed, Raises, UpsertRaises, Recheck, Published, NoticeDone,
         ReportDone, Notice, Report, Unchanged
<1>4. ASSUME NEW j \in Jobs, EndedOutside(j) PROVE UNCHANGED <<head, returned, ci>>
  BY <1>4 DEF EndedOutside
<1>5. ASSUME NEW c \in Commits, CiSucceeds(c) \/ CiFails(c)
      PROVE  UNCHANGED <<head, returned>> /\ \A d \in Commits : Pushed(d)' <=> Pushed(d)
  BY <1>1, <1>5 DEF CiSucceeds, CiFails, Pushed
<1>6. ASSUME Close \/ DeleteComment \/ UNCHANGED vars PROVE UNCHANGED <<head, returned, ci>>
  BY <1>6 DEF Close, DeleteComment, vars
<1>7. ASSUME Push PROVE UNCHANGED <<returned, job, comments>>
  BY <1>7 DEF Push, commentVars
<1>8. ASSUME Return PROVE UNCHANGED <<job, comments>>
  BY <1>8 DEF Return, commentVars
<1> QED
  BY <1>2, <1>3, <1>4, <1>5, <1>6, <1>7, <1>8 DEF Next

\* What a step of a job does to where it is, and to the job of no other commit.
Progresses(j) ==
  /\ job'[j].pc # "none" => job[j].pc # "none" \/ Pushed(j)
  /\ Compared(j)' => Compared(j) \/ (job[j].pc = "metadata" /\ HeadIs(j)) \/ ~Fresh(j)
  /\ Fresh(j) => Fresh(j)'
  /\ job'[j].pc = "done" => job[j].pc = "done" \/ Active(j)

LEMMA OutcomeMeans ==
  ASSUME Types, NEW j \in Jobs, NEW status, NEW comment, Outcome(j, status, comment)
  PROVE  /\ job'[j].pc = "done" /\ job'[j].status = status /\ job'[j].comment = comment
         /\ job'[j].progress = job[j].progress /\ job'[j].diff = job[j].diff
         /\ \A i \in Jobs \ {j} : job'[i] = job[i]
BY DEF Types, Outcome, JobRecords

LEMMA GoesMeans ==
  ASSUME Types, NEW j \in Jobs, NEW pc, Goes(j, pc)
  PROVE  /\ job'[j].pc = pc /\ job'[j].status = job[j].status
         /\ job'[j].progress = job[j].progress /\ job'[j].diff = job[j].diff
         /\ \A i \in Jobs \ {j} : job'[i] = job[i]
BY DEF Types, Goes, JobRecords

LEMMA NoticeMeans ==
  ASSUME Types, NEW j \in Jobs, NEW status, Notice(j, status)
  PROVE  /\ job'[j].pc = "notice" /\ job'[j].status = status
         /\ job'[j].progress = job[j].progress /\ job'[j].diff = job[j].diff
         /\ \A i \in Jobs \ {j} : job'[i] = job[i]
BY DEF Types, Notice, JobRecords

LEMMA ReportMeans ==
  ASSUME Types, NEW j \in Jobs, Report(j)
  PROVE  /\ job'[j].pc = "report" /\ job'[j].status = "failed_safely"
         /\ job'[j].progress = job[j].progress /\ job'[j].diff = job[j].diff
         /\ \A i \in Jobs \ {j} : job'[i] = job[i]
BY DEF Types, Report, JobRecords

LEMMA DriverProgresses ==
  ASSUME Types, NEW j \in Jobs, DriverStep(j)
  PROVE  Progresses(j) /\ \A i \in Jobs \ {j} : job'[i] = job[i]
PROOF
<1> USE DEF Progresses, Compared, Fresh, PastMetadata, Active
<1>1. ASSUME Bootstrap(j) PROVE Progresses(j) /\ \A i \in Jobs \ {j} : job'[i] = job[i]
  BY <1>1, OutcomeMeans, GoesMeans DEF Bootstrap
<1>2. ASSUME ApiError(j) PROVE Progresses(j) /\ \A i \in Jobs \ {j} : job'[i] = job[i]
  BY <1>2, OutcomeMeans DEF ApiError
<1>3. ASSUME ValidateMetadata(j) \/ BaseMoved(j) \/ HeadRepositoryGone(j)
      PROVE  Progresses(j) /\ \A i \in Jobs \ {j} : job'[i] = job[i]
  BY <1>3, OutcomeMeans, GoesMeans, ReportMeans
     DEF ValidateMetadata, BaseMoved, HeadRepositoryGone
<1>4. ASSUME Authorized(j) \/ NotAuthorized(j)
      PROVE  Progresses(j) /\ \A i \in Jobs \ {j} : job'[i] = job[i]
  BY <1>4, OutcomeMeans, GoesMeans, NoticeMeans DEF Authorized, NotAuthorized
<1>5. ASSUME DiffTooLarge(j) \/ ForkDiffFails(j) \/ Raises(j) \/ UpsertRaises(j)
      PROVE  Progresses(j) /\ \A i \in Jobs \ {j} : job'[i] = job[i]
  BY <1>5, OutcomeMeans, NoticeMeans, ReportMeans
     DEF DiffTooLarge, ForkDiffFails, Raises, UpsertRaises
<1>6. ASSUME GetDiff(j) \/ ProgressDone(j) \/ Reviewed(j)
      PROVE  Progresses(j) /\ \A i \in Jobs \ {j} : job'[i] = job[i]
  <2>1. job[j].pc \in {"diff", "progress", "review"}
    BY <1>6 DEF GetDiff, ProgressDone, Returned, Reviewed
  <2>2. job'[j].pc \in {"progress", "review", "recheck"}
    BY <1>6 DEF GetDiff, ProgressDone, Reviewed, Types, JobRecords
  <2>3. \A i \in Jobs \ {j} : job'[i] = job[i]
    BY <1>6 DEF GetDiff, ProgressDone, Reviewed, Types
  <2> QED
    BY <2>1, <2>2, <2>3
<1>7. ASSUME Recheck(j) PROVE Progresses(j) /\ \A i \in Jobs \ {j} : job'[i] = job[i]
  BY <1>7, OutcomeMeans, GoesMeans DEF Recheck
<1>8. ASSUME Published(j) \/ NoticeDone(j) \/ ReportDone(j)
      PROVE  Progresses(j) /\ \A i \in Jobs \ {j} : job'[i] = job[i]
  <2>1. PICK status, comment : Outcome(j, status, comment)
    BY <1>8 DEF Published, NoticeDone, ReportDone
  <2> QED
    BY <1>8, <2>1, OutcomeMeans DEF Published, NoticeDone, ReportDone, Returned
<1> QED
  BY <1>1, <1>2, <1>3, <1>4, <1>5, <1>6, <1>7, <1>8 DEF DriverStep

\* Every step, seen from any job.
LEMMA JobsProgress ==
  ASSUME Control, [Next]_vars, NEW j \in Jobs
  PROVE  Progresses(j)
PROOF
<1>1. job \in [Jobs -> JobRecords]
  BY DEF Control, Types
<1>2. ASSUME job'[j] = job[j] PROVE Progresses(j)
  BY <1>2 DEF Progresses, Compared, Fresh
<1>3. ASSUME NEW i \in Jobs, JobStep(i) PROVE Progresses(j)
  BY <1>2, <1>3, DriverProgresses DEF JobStep, ClientMoves, Control
<1>4. ASSUME NEW i \in Jobs, EndedOutside(i) PROVE Progresses(j)
  <2>1. CASE i = j
    BY <1>1, <1>4, <2>1 DEF EndedOutside, Progresses, Compared, Fresh, Active, PastMetadata,
                            JobRecords
  <2>2. CASE i # j
    BY <1>1, <1>2, <1>4, <2>2 DEF EndedOutside
  <2> QED
    BY <2>1, <2>2
<1>5. ASSUME NEW c \in Commits, CiSucceeds(c) PROVE Progresses(j)
  <2>1. CASE ~open
    BY <1>2, <1>5, <2>1 DEF CiSucceeds
  <2>2. CASE open /\ j = c
    <3>1. job'[j] = [NotStarted EXCEPT !.pc = "bootstrap"]
      BY <1>5, <2>2 DEF CiSucceeds
    <3>2. job'[j].pc = "bootstrap" /\ job'[j].diff = NoHead
      BY <3>1 DEF NotStarted
    <3>3. Pushed(j)
      BY <1>5, <2>2 DEF CiSucceeds, Pushed
    <3> QED
      BY <3>2, <3>3 DEF Progresses, Compared, Fresh, PastMetadata
  <2>3. CASE open /\ j # c /\ Active(j)
    <3>1. job'[j].pc = "cancelled"
      BY <1>1, <1>5, <2>3 DEF CiSucceeds, JobRecords
    <3> QED
      BY <2>3, <3>1 DEF Progresses, Compared, Fresh, PastMetadata, Active
  <2>4. CASE open /\ j # c /\ ~Active(j)
    BY <1>2, <1>5, <2>4 DEF CiSucceeds
  <2> QED
    BY <2>1, <2>2, <2>3, <2>4
<1>6. ASSUME Push \/ Return \/ Close \/ DeleteComment \/ UNCHANGED vars
             \/ \E c \in Commits : CiFails(c)
      PROVE  Progresses(j)
  BY <1>2, <1>6 DEF Push, Return, Close, DeleteComment, vars, CiFails
<1> QED
  BY <1>3, <1>4, <1>5, <1>6 DEF Next

\* A comment of the next state is there already, or is the one that is written.
LEMMA CommentOrigin ==
  ASSUME Control, [Next]_vars, NEW d \in comments', d \notin comments
  PROVE  \E j \in Jobs : /\ Applies(j) /\ d.body = client[j].body
                         /\ client[j].target # 0 => d.id = client[j].target
                         /\ client[j].target = 0 => d.id = lastId + 1
                         /\ client[j].body.sha = j /\ client[j].body.kind = KindAt(job[j].pc)
                         /\ job[j].pc \in Writing /\ UNCHANGED job
                         /\ job[j].pc = "report" => d.body.diff = job[j].diff
PROOF
<1>1. PICK j \in Jobs : Applies(j)
  <2>1. ~LeavesComments /\ ~DeleteComment
    BY DEF LeavesComments, DeleteComment, Delete
  <2> QED
    BY <2>1, StepEffect DEF Control
<1>2. /\ d.body = client[j].body
      /\ client[j].target # 0 => d.id = client[j].target
      /\ client[j].target = 0 => d.id = lastId + 1
  BY <1>1 DEF Applies, Applied, Written
<1>3. client[j].step # "idle" /\ UNCHANGED job
  BY <1>1 DEF Applies
<1> QED
  BY <1>1, <1>2, <1>3 DEF Control, ClientWaits

LEMMA HistoryInit == Init => History
PROOF
<1>1. ASSUME Init PROVE \A c \in Commits : Pushed(c) <=> c = 1
  BY <1>1 DEF Init, Pushed
<1>2. Jobs = Commits /\ Jobs \subseteq Nat \ {0} /\ 1 \in Jobs
  BY PipelineAssumption DEF Commits
<1>3. ASSUME Init PROVE comments = {} /\ head = 1 /\ \A j \in Jobs : job[j].pc = "none"
  BY <1>3 DEF Init, CommentsInit, NotStarted
<1> QED
  BY <1>1, <1>2, <1>3 DEF History, Compared, Fresh, PastMetadata

\* The commits, when the head moves and when it does not.
LEMMA HeadKeepsOrder ==
  ASSUME Control, History, [Next]_vars
  PROVE  /\ \A c \in Commits : Pushed(c) => Pushed(c)'
         /\ ReturnedTo \subseteq ReturnedTo'
         /\ \A c, d \in Commits : Pushed(d)' /\ c < d => Pushed(c)'
         /\ Pushed(head)'
         /\ head' \in ReturnedTo' \/ \A c \in Commits : Pushed(c)' => c <= head'
PROOF
<1>1. /\ head \in Commits /\ ci \in [Commits -> {"none", "running", "success", "failure"}]
      /\ returned \in Seq([to : Commits, reviewing : BOOLEAN])
      /\ Commits \subseteq Nat
  BY PipelineAssumption DEF Control, Types, Commits
<1>2. CASE UNCHANGED <<head, returned>> /\ \A c \in Commits : Pushed(c)' <=> Pushed(c)
  <2>1. ReturnedTo' = ReturnedTo
    BY <1>2 DEF ReturnedTo
  <2>2. Pushed(head)'
    BY <1>1, <1>2 DEF Pushed, History
  <2> QED
    BY <1>1, <1>2, <2>1, <2>2 DEF History
<1>3. CASE Push /\ UNCHANGED <<returned, job, comments>>
  <2>1. PICK c \in Commits : /\ ~Pushed(c) /\ \A d \in Commits : d < c => Pushed(d)
                             /\ head' = c /\ ci' = [ci EXCEPT ![c] = "running"]
    BY <1>3 DEF Push, Pushed
  <2>2. \A d \in Commits : Pushed(d)' <=> Pushed(d) \/ d = c
    BY <1>1, <2>1 DEF Pushed
  <2>3. \A d \in Commits : Pushed(d) => d < c
    BY <1>1, <2>1 DEF History
  <2>4. ReturnedTo' = ReturnedTo
    BY <1>3 DEF ReturnedTo
  <2>5. Pushed(head)'
    BY <1>1, <2>1 DEF Pushed
  <2> QED
    BY <1>1, <2>1, <2>2, <2>3, <2>4, <2>5 DEF History
<1>4. CASE Return /\ UNCHANGED <<job, comments>>
  <2>1. PICK c \in Commits : /\ Pushed(c) /\ head' = c /\ ci' = [ci EXCEPT ![c] = "running"]
                             /\ returned' = Append(returned, [to |-> c, reviewing |-> Active(c)])
    BY <1>4 DEF Return, Pushed
  <2>2. \A d \in Commits : Pushed(d)' <=> Pushed(d)
    BY <1>1, <2>1 DEF Pushed
  <2>3. Pushed(head)'
    BY <1>1, <2>1 DEF Pushed
  <2> DEFINE b == Active(c)
             r == [to |-> c, reviewing |-> b]
  <2>4. r \in [to : Commits, reviewing : BOOLEAN] /\ r.to = c
    <3>1. b \in BOOLEAN
      BY DEF Active
    <3> HIDE DEF b
    <3> QED
      BY <3>1
  <2>5. returned' = Append(returned, r)
    BY <2>1
  <2> HIDE DEF r
  <2>6. ToSet(returned') = ToSet(returned) \cup {r}
    <3> DEFINE S == [to : Commits, reviewing : BOOLEAN]
    <3>1. returned \in Seq(S) /\ r \in S
      BY <1>1, <2>4
    <3> HIDE DEF S
    <3>2. ToSet(Append(returned, r)) = ToSet(returned) \cup {r}
      BY <3>1, ToSetAppend
    <3> QED
      BY <2>5, <3>2
  <2>7. ReturnedTo' = ReturnedTo \cup {c}
    BY <2>4, <2>6 DEF ReturnedTo
  <2> QED
    BY <1>1, <2>1, <2>2, <2>3, <2>7 DEF History
<1> QED
  BY <1>2, <1>3, <1>4, HeadEffect

LEMMA HistoryStep ==
  ASSUME Control, History, [Next]_vars
  PROVE  History'
PROOF
<1>1. Jobs = Commits /\ Commits \subseteq Nat \ {0}
  BY PipelineAssumption DEF Commits
<1>2. ASSUME NEW j \in Jobs PROVE Fresh(j)' /\ (job'[j].pc # "none" => Pushed(j)')
  BY <1>1, <1>2, JobsProgress, HeadKeepsOrder DEF Progresses, History
<1>3. ASSUME NEW c \in comments' PROVE c.body.sha \in Commits /\ Pushed(c.body.sha)'
  <2>1. CASE c \in comments
    BY <2>1, HeadKeepsOrder DEF History
  <2>2. CASE c \notin comments
    <3>1. PICK j \in Jobs : c.body.sha = j /\ job[j].pc \in Writing
      BY <2>2, CommentOrigin
    <3>2. Pushed(j)
      BY <3>1 DEF History, Writing
    <3> QED
      BY <1>1, <3>1, <3>2, HeadKeepsOrder
  <2> QED
    BY <2>1, <2>2
<1>4. ASSUME NEW j \in Jobs, Compared(j)', j \notin ReturnedTo'
      PROVE  /\ \A c \in comments' : c.body.sha <= j
             /\ \A i \in Jobs : job'[i].pc = "done" => i <= j
  <2>1. Active(j)
    BY <1>4, JobsProgress DEF Progresses, Compared, History, PastMetadata, Active
  <2>2. /\ \A c \in comments : c.body.sha <= j
        /\ \A i \in Jobs : job[i].pc = "done" => i <= j
    <3>1. CASE Compared(j)
      BY <1>4, <3>1, HeadKeepsOrder DEF History
    <3>2. CASE job[j].pc = "metadata" /\ HeadIs(j)
      <4>1. \A c \in Commits : Pushed(c) => c <= j
        BY <1>4, <3>2, HeadKeepsOrder DEF History, HeadIs
      <4> QED
        BY <1>1, <4>1 DEF History
    <3> QED
      BY <1>4, <3>1, <3>2, JobsProgress DEF Progresses, History
  <2>3. ASSUME NEW i \in Jobs, Active(i) PROVE i <= j
    BY <1>1, <2>1, <2>3 DEF Control, OneAtATime
  <2>4. ASSUME NEW c \in comments', c \notin comments PROVE c.body.sha <= j
    <3>1. PICK i \in Jobs : c.body.sha = i /\ job[i].pc \in Writing
      BY <2>4, CommentOrigin
    <3> QED
      BY <2>3, <3>1 DEF Active, Writing
  <2>5. ASSUME NEW i \in Jobs, job'[i].pc = "done" PROVE i <= j
    BY <2>2, <2>3, <2>5, JobsProgress DEF Progresses
  <2> QED
    BY <2>2, <2>4, <2>5
<1> QED
  BY <1>2, <1>3, <1>4, HeadKeepsOrder DEF History

LEMMA HistoryHolds == Spec => []History
BY HistoryInit, HistoryStep, ControlHolds, PTL DEF Spec

\* The comment goes back to an older commit only if the head went back to that commit, or
\* its job met an unexpected exception at its start: whichever CI ends first, whatever is
\* retried or lost.
THEOREM CommentsGoForward == Spec => NoRegression
PROOF
<1> DEFINE Forward == \A c \in comments, d \in comments' :
                        c.id = d.id /\ c.body.sha > d.body.sha =>
                          d.body.sha \in ReturnedTo \/ Unchecked(d.body)
<1>1. ASSUME Control, CommentsFit, History, [Next]_vars PROVE Forward
  <2>1. SUFFICES ASSUME NEW c \in comments, NEW d \in comments', c.id = d.id,
                        c.body.sha > d.body.sha
                 PROVE  d.body.sha \in ReturnedTo \/ Unchecked(d.body)
    OBVIOUS
  <2>2. c.body.sha \in Nat
    BY <1>1, PipelineAssumption DEF History, Commits
  <2>3. d \notin comments
    BY <1>1, <2>1, <2>2 DEF CommentsFit
  <2>4. PICK j \in Jobs : /\ d.body.sha = j /\ job[j].pc \in Writing
                          /\ d.body.kind = KindAt(job[j].pc)
                          /\ job[j].pc = "report" => d.body.diff = job[j].diff
    BY <1>1, <2>3, CommentOrigin
  <2>5. Compared(j) \/ Unchecked(d.body)
    BY <2>4 DEF Compared, PastMetadata, Writing, Unchecked, KindAt
  <2>6. Compared(j) => j \in ReturnedTo \/ c.body.sha <= j
    BY <1>1 DEF History
  <2> QED
    BY <2>1, <2>2, <2>4, <2>5, <2>6, PipelineAssumption
<1>2. Control /\ CommentsFit /\ History /\ [Next]_vars => [Forward]_vars
  BY <1>1
<1> QED
  BY <1>2, ControlHolds, CommentsFitHolds, HistoryHolds, PTL DEF Spec, NoRegression

----------------------------------------------------------------------------
\* The transitions of a job.

Keeps(j) == /\ job'[j].status = job[j].status /\ job'[j].progress = job[j].progress
            /\ job'[j].diff = job[j].diff

\* It ends: without a comment, with the comment that the review is in progress, or with
\* the comment it just wrote.
TurnsSilent(j) == job'[j].pc = "done" /\ job'[j].comment \notin Succeeded
TurnsStale(j) ==
  /\ job[j].pc = "recheck" /\ job'[j].pc = "done"
  /\ job'[j].status \in {"stale", "skipped"}
  /\ job'[j].comment = job[j].progress /\ job'[j].progress = job[j].progress
TurnsWritten(j) ==
  /\ job[j].pc \in {"publish", "notice", "report"} /\ job'[j].pc = "done"
  /\ job'[j].comment = client[j].outcome /\ Keeps(j)

\* It goes on.
TurnsNext(j) ==
  /\ <<job[j].pc, job'[j].pc>> \in {<<"bootstrap", "metadata">>, <<"metadata", "authorize">>,
                                    <<"authorize", "diff">>}
  /\ Keeps(j)
TurnsReview(j) ==
  /\ job[j].pc = "progress" /\ job'[j].pc = "review"
  /\ job'[j].progress = client[j].outcome /\ job'[j].diff = job[j].diff
TurnsReviewed(j) ==
  /\ job[j].pc = "review" /\ job'[j].pc = "recheck" /\ job'[j].status = "reviewed"
  /\ job'[j].progress = job[j].progress /\ job'[j].diff = job[j].diff

\* It starts to write.
TurnsProgress(j) ==
  /\ job[j].pc = "diff" /\ job'[j].pc = "progress"
  /\ job'[j].progress = job[j].progress /\ job'[j].diff = head
  /\ Upsert(j, [kind |-> "in_progress", sha |-> j, diff |-> head], NoHead)
TurnsNotice(j) ==
  /\ job[j].pc \in {"authorize", "diff"} /\ job'[j].pc = "notice"
  /\ job'[j].status \in {"fork_review_skipped", "skipped"}
  /\ job'[j].status = "skipped" => job[j].pc = "diff"
  /\ job'[j].progress = job[j].progress
  /\ Upsert(j, Body("notice", j), NoHead)
TurnsReport(j) ==
  /\ job'[j].pc = "report" /\ job'[j].status = "failed_safely"
  /\ Upsert(j, Body("error", j), NoHead)
TurnsPublish(j) ==
  /\ job[j].pc = "recheck" /\ HeadIs(j) /\ job'[j].pc = "publish" /\ Keeps(j)
  /\ Upsert(j, Body("result", j), j)

Turns(j) ==
  /\ \/ /\ \/ TurnsSilent(j) \/ TurnsStale(j) \/ TurnsWritten(j)
           \/ TurnsNext(j) \/ TurnsReview(j) \/ TurnsReviewed(j)
        /\ UNCHANGED client
     \/ TurnsProgress(j) \/ TurnsNotice(j) \/ TurnsReport(j) \/ TurnsPublish(j)
  /\ \A i \in Jobs \ {j} : job'[i] = job[i]
  /\ Unchanged /\ UNCHANGED <<comments, lastId, lostCreates, deletions>>

LEMMA DriverTurns ==
  ASSUME Control, NEW j \in Jobs, DriverStep(j)
  PROVE  Turns(j)
PROOF
<1> USE DEF Turns
<1>1. Types /\ job[j] \in JobRecords /\ client[j] \in ClientRecords
  BY DEF Control, Types
<1>2. ASSUME NEW status, NEW comment \in {"not_attempted", "comment_failure"},
             Outcome(j, status, comment), Unchanged, UNCHANGED commentVars
      PROVE  Turns(j)
  BY <1>1, <1>2, OutcomeMeans DEF TurnsSilent, Succeeded, commentVars
<1>3. ASSUME NEW pc, Goes(j, pc), Unchanged, UNCHANGED commentVars,
             <<job[j].pc, pc>> \in {<<"bootstrap", "metadata">>, <<"metadata", "authorize">>,
                                    <<"authorize", "diff">>}
      PROVE  Turns(j)
  BY <1>1, <1>3, GoesMeans DEF TurnsNext, Keeps, commentVars
<1>4. ASSUME NEW status \in {"fork_review_skipped", "skipped"}, Notice(j, status),
             job[j].pc \in {"authorize", "diff"},
             status = "skipped" => job[j].pc = "diff"
      PROVE  Turns(j)
  BY <1>1, <1>4, NoticeMeans DEF TurnsNotice, Notice, Upsert
<1>5. CASE Bootstrap(j)
  BY <1>2, <1>3, <1>5 DEF Bootstrap
<1>6. CASE ApiError(j) \/ BaseMoved(j)
  BY <1>2, <1>6 DEF ApiError, BaseMoved
<1>7. CASE ValidateMetadata(j)
  BY <1>2, <1>3, <1>7 DEF ValidateMetadata
<1>8. ASSUME Report(j) PROVE Turns(j)
  BY <1>1, <1>8, ReportMeans DEF TurnsReport, Report, Upsert
<1>9. CASE Authorized(j)
  BY <1>3, <1>9 DEF Authorized
<1>10. CASE NotAuthorized(j)
  BY <1>2, <1>4, <1>10 DEF NotAuthorized
<1>11. CASE GetDiff(j)
  <2>1. /\ job'[j].pc = "progress" /\ job'[j].progress = job[j].progress
        /\ job'[j].diff = head
        /\ \A i \in Jobs \ {j} : job'[i] = job[i]
    BY <1>1, <1>11 DEF GetDiff, Types, JobRecords
  <2> QED
    BY <1>11, <2>1 DEF GetDiff, TurnsProgress, Upsert
<1>12. CASE DiffTooLarge(j)
  BY <1>4, <1>12 DEF DiffTooLarge
<1>13. CASE ForkDiffFails(j)
  BY <1>4, <1>13 DEF ForkDiffFails
<1>14. CASE ProgressDone(j)
  <2>1. /\ job'[j].pc = "review" /\ job'[j].progress = client[j].outcome
        /\ job'[j].diff = job[j].diff
        /\ \A i \in Jobs \ {j} : job'[i] = job[i]
    BY <1>1, <1>14 DEF ProgressDone, Types, JobRecords
  <2> QED
    BY <1>14, <2>1 DEF ProgressDone, Returned, TurnsReview, commentVars
<1>15. CASE Reviewed(j)
  <2>1. /\ job'[j].pc = "recheck" /\ job'[j].status = "reviewed"
        /\ job'[j].progress = job[j].progress /\ job'[j].diff = job[j].diff
        /\ \A i \in Jobs \ {j} : job'[i] = job[i]
    BY <1>1, <1>15 DEF Reviewed, Types, JobRecords
  <2> QED
    BY <1>15, <2>1 DEF Reviewed, TurnsReviewed, commentVars
<1>16. CASE Raises(j) \/ UpsertRaises(j) \/ HeadRepositoryGone(j)
  BY <1>2, <1>8, <1>16 DEF Raises, UpsertRaises, HeadRepositoryGone
<1>17. CASE Recheck(j)
  <2>1. CASE open /\ HeadIs(j)
    <3>1. Goes(j, "publish") /\ Upsert(j, Body("result", j), j) /\ Unchanged
      BY <1>17, <2>1 DEF Recheck
    <3> QED
      BY <1>1, <1>17, <2>1, <3>1, GoesMeans DEF Recheck, TurnsPublish, Keeps, Upsert
  <2>2. CASE ~(open /\ HeadIs(j))
    <3>1. PICK status \in {"stale", "skipped"} : Outcome(j, status, job[j].progress)
      BY <1>17, <2>2 DEF Recheck
    <3> QED
      BY <1>1, <1>17, <2>2, <3>1, OutcomeMeans DEF Recheck, TurnsStale, commentVars
  <2> QED
    BY <2>1, <2>2
<1>18. CASE Published(j)
  <2>1. CASE client[j].outcome = "stale"
    BY <1>2, <1>18, <2>1 DEF Published
  <2>2. CASE client[j].outcome = "failed"
    BY <1>2, <1>18, <2>2 DEF Published
  <2>3. CASE client[j].outcome \notin {"stale", "failed"}
    <3>1. Outcome(j, job[j].status, client[j].outcome)
      BY <1>18, <2>3 DEF Published
    <3> QED
      BY <1>1, <1>18, <3>1, OutcomeMeans DEF Published, Returned, TurnsWritten, Keeps, commentVars
  <2> QED
    BY <2>1, <2>2, <2>3
<1>19. CASE NoticeDone(j)
  BY <1>1, <1>19, OutcomeMeans DEF NoticeDone, Returned, TurnsWritten, Keeps, commentVars
<1>20. CASE ReportDone(j)
  <2>1. CASE client[j].outcome \in Escapes
    <3>1. Outcome(j, job[j].status, "failed") /\ Unchanged /\ UNCHANGED commentVars
      BY <1>20, <2>1 DEF ReportDone
    <3> QED
      BY <1>1, <3>1, OutcomeMeans DEF TurnsSilent, Succeeded, commentVars
  <2>2. CASE client[j].outcome \notin Escapes
    <3>1. Outcome(j, job[j].status, client[j].outcome) /\ Unchanged /\ UNCHANGED commentVars
      BY <1>20, <2>2 DEF ReportDone
    <3> QED
      BY <1>1, <1>20, <3>1, OutcomeMeans DEF ReportDone, TurnsWritten, Keeps, commentVars
  <2> QED
    BY <2>1, <2>2
<1> QED
  BY <1>5, <1>6, <1>7, <1>9, <1>10, <1>11, <1>12, <1>13, <1>14, <1>15, <1>16, <1>17,
     <1>18, <1>19, <1>20 DEF DriverStep

----------------------------------------------------------------------------
\* The diff that findings are of.

LEMMA ReturnsStay ==
  ASSUME Control, [Next]_vars, NEW c, LeftAndBack(c)
  PROVE  LeftAndBack(c)'
PROOF
<1>1. CASE UNCHANGED returned
  BY <1>1 DEF LeftAndBack
<1>2. CASE Return
  <2>1. PICK r : returned' = Append(returned, r) /\ r \in [to : Commits, reviewing : BOOLEAN]
    <3>1. PICK d \in Commits : returned' = Append(returned, [to |-> d, reviewing |-> Active(d)])
      BY <1>2 DEF Return
    <3> DEFINE b == Active(d)
    <3>2. b \in BOOLEAN
      BY DEF Active
    <3>3. returned' = Append(returned, [to |-> d, reviewing |-> b])
      BY <3>1
    <3> HIDE DEF b
    <3>4. [to |-> d, reviewing |-> b] \in [to : Commits, reviewing : BOOLEAN]
      BY <3>2
    <3> QED
      BY <3>3, <3>4
  <2> DEFINE S == [to : Commits, reviewing : BOOLEAN]
  <2>2. returned \in Seq(S) /\ r \in S
    BY <2>1 DEF Control, Types
  <2> HIDE DEF S
  <2>3. ToSet(Append(returned, r)) = ToSet(returned) \cup {r}
    BY <2>2, ToSetAppend
  <2> QED
    BY <2>1, <2>3 DEF LeftAndBack
<1> QED
  BY <1>1, <1>2, HeadEffect

\* The head comes to the commit under review only by a return that is recorded so.
LEMMA ReturnRecorded ==
  ASSUME Control, History, [Next]_vars, NEW j \in Jobs, Active(j), head # j, head' = j
  PROVE  LeftAndBack(j)'
PROOF
<1>1. ~Push
  <2>1. Pushed(j)
    BY DEF History, Active
  <2> QED
    BY <2>1 DEF Push, Pushed
<1>2. Return
  BY <1>1, HeadEffect
<1>3. PICK d \in Commits : head' = d /\ returned' = Append(returned, [to |-> d, reviewing |-> Active(d)])
  BY <1>2 DEF Return
<1> DEFINE r == [to |-> j, reviewing |-> TRUE]
           S == [to : Commits, reviewing : BOOLEAN]
<1>4. d = j /\ Active(d) = TRUE
  BY <1>3 DEF Active
<1>5. returned' = Append(returned, r)
  BY <1>3, <1>4
<1>6. returned \in Seq(S) /\ r \in S
  BY DEF Control, Types, Commits
<1> HIDE DEF r, S
<1>7. ToSet(Append(returned, r)) = ToSet(returned) \cup {r}
  BY <1>6, ToSetAppend
<1> QED
  BY <1>5, <1>7 DEF LeftAndBack, r

\* A busy client has the body it had, or the job just gave it one.
LEMMA MoveKeepsBody ==
  ASSUME Types, NEW j \in Jobs, ClientMoves(j)
  PROVE  /\ client[j].step # "idle"
         /\ client'[j].step # "idle" => client'[j].body = client[j].body
         /\ \A i \in Jobs \ {j} : client'[i] = client[i]
PROOF
<1>1. client \in [Jobs -> ClientRecords]
  BY DEF Types
<1>2. CASE List(j)
  BY <1>1, <1>2 DEF List, ClientRecords
<1>3. CASE RequireHead(j)
  BY <1>1, <1>3, EndsMeans DEF RequireHead, ClientRecords
<1>4. CASE Write(j)
  <2>1. PICK outcome : Ends(j, outcome)
    BY <1>4 DEF Write
  <2> QED
    BY <1>4, <2>1, EndsMeans DEF Write, Applicable
<1>5. CASE WriteLost(j) \/ ReplyLost(j)
  BY <1>5, TriesMeans DEF WriteLost, ReplyLost, Applicable
<1>6. CASE NotFound(j)
  <2>1. CASE client[j].relisted
    BY <1>6, <2>1, EndsMeans DEF NotFound
  <2>2. CASE ~client[j].relisted
    BY <1>1, <1>6, <2>2 DEF NotFound, ClientRecords
  <2> QED
    BY <2>1, <2>2
<1>7. CASE Refused(j) \/ ReplyUnusable(j)
  BY <1>7, EndsMeans DEF Refused, ReplyUnusable, Applicable
<1>8. CASE CallRaises(j)
  <2>1. PICK outcome : Ends(j, outcome)
    BY <1>8 DEF CallRaises
  <2> QED
    BY <1>8, <2>1, EndsMeans DEF CallRaises
<1> QED
  BY <1>2, <1>3, <1>4, <1>5, <1>6, <1>7, <1>8 DEF ClientMoves, ClientStep

LEMMA UpsertMeans ==
  ASSUME Types, NEW j \in Jobs, NEW body, NEW expected, Upsert(j, body, expected)
  PROVE  /\ client'[j].step = "list" /\ client'[j].body = body /\ client'[j].outcome = "none"
         /\ client[j].step = "idle"
         /\ \A i \in Jobs \ {j} : client'[i] = client[i]
BY DEF Types, Upsert, Idle

\* The steps that are not of a job or its client.
LEMMA OutsideEffect ==
  ASSUME Control, [Next]_vars, ~\E j \in Jobs : JobStep(j), NEW j \in Jobs
  PROVE  /\ client'[j] = client[j] \/ client'[j] = Idle
         /\ job'[j] = job[j] \/ job'[j].pc \in {"bootstrap", "cancelled"}
         /\ job'[j].pc = "bootstrap" /\ job'[j] # job[j] => job'[j].progress = "none"
PROOF
<1>1. job \in [Jobs -> JobRecords] /\ client \in [Jobs -> ClientRecords]
  BY DEF Control, Types
<1>2. CASE UNCHANGED <<job, client>>
  BY <1>2
<1>3. ASSUME NEW i \in Jobs, EndedOutside(i)
      PROVE  /\ client'[j] = client[j] \/ client'[j] = Idle
             /\ job'[j] = job[j] \/ job'[j].pc = "cancelled"
  BY <1>1, <1>3 DEF EndedOutside, JobRecords
<1>4. ASSUME NEW c \in Commits, CiSucceeds(c), open
      PROVE  /\ client'[j] = client[j] \/ client'[j] = Idle
             /\ \/ job'[j] = job[j] \/ job'[j].pc = "cancelled"
                \/ job'[j].pc = "bootstrap" /\ job'[j].progress = "none"
  <2>1. client'[j] = IF Active(j) THEN Idle ELSE client[j]
    BY <1>4 DEF CiSucceeds
  <2>2. job'[j] = IF j = c THEN [NotStarted EXCEPT !.pc = "bootstrap"]
                  ELSE IF Active(j) THEN [job[j] EXCEPT !.pc = "cancelled"]
                  ELSE job[j]
    BY <1>4 DEF CiSucceeds
  <2>3. [NotStarted EXCEPT !.pc = "bootstrap"].pc = "bootstrap"
        /\ [NotStarted EXCEPT !.pc = "bootstrap"].progress = "none"
    BY DEF NotStarted
  <2>4. [job[j] EXCEPT !.pc = "cancelled"].pc = "cancelled"
    BY <1>1 DEF JobRecords
  <2> QED
    BY <2>1, <2>2, <2>3, <2>4
<1>5. CASE Push \/ Return \/ Close \/ DeleteComment \/ UNCHANGED vars
           \/ \E c \in Commits : CiFails(c) \/ (CiSucceeds(c) /\ ~open)
  BY <1>2, <1>5 DEF Push, Return, Close, DeleteComment, Delete, CiFails, CiSucceeds, vars,
                    commentVars
<1>6. "bootstrap" # "cancelled"
  OBVIOUS
<1> QED
  BY <1>3, <1>4, <1>5, <1>6 DEF Next

LEMMA BodyOrigin ==
  ASSUME Control, [Next]_vars, NEW j \in Jobs, client'[j].step # "idle"
  PROVE  \/ client[j].step # "idle" /\ client'[j].body = client[j].body
         \/ client'[j].body.kind # "result"
         \/ TurnsPublish(j) /\ client'[j].body = Body("result", j)
PROOF
<1>1. Types
  BY DEF Control
<1>2. ASSUME NEW i \in Jobs, DriverStep(i), client'[j] # client[j]
      PROVE  client'[j].body.kind # "result" \/ (TurnsPublish(j) /\ client'[j].body = Body("result", j))
  <2>1. Turns(i)
    BY <1>2, DriverTurns
  <2>2. TurnsProgress(i) \/ TurnsNotice(i) \/ TurnsReport(i) \/ TurnsPublish(i)
    BY <1>2, <2>1 DEF Turns
  <2>3. i = j
    BY <1>1, <1>2, <2>2, UpsertMeans
       DEF TurnsProgress, TurnsNotice, TurnsReport, TurnsPublish
  <2>4. CASE TurnsProgress(j)
    <3>1. client'[j].body = [kind |-> "in_progress", sha |-> j, diff |-> head]
      BY <1>1, <2>4, UpsertMeans DEF TurnsProgress
    <3> QED
      BY <3>1
  <2>5. CASE TurnsNotice(j)
    <3>1. client'[j].body = Body("notice", j)
      BY <1>1, <2>5, UpsertMeans DEF TurnsNotice
    <3> QED
      BY <3>1 DEF Body
  <2>6. CASE TurnsPublish(j)
    BY <1>1, <2>6, UpsertMeans DEF TurnsPublish
  <2>7. CASE TurnsReport(j)
    <3>1. client'[j].body = Body("error", j)
      BY <1>1, <2>7, UpsertMeans DEF TurnsReport
    <3> QED
      BY <3>1 DEF Body
  <2> QED
    BY <2>2, <2>3, <2>4, <2>5, <2>6, <2>7
<1>3. ASSUME NEW i \in Jobs, ClientMoves(i)
      PROVE  client[j].step # "idle" /\ client'[j].body = client[j].body
  BY <1>1, <1>3, MoveKeepsBody
<1>4. CASE ~\E i \in Jobs : JobStep(i)
  BY <1>4, OutsideEffect DEF Idle
<1> QED
  BY <1>2, <1>3, <1>4 DEF JobStep

LEMMA DiffOrigin ==
  ASSUME Control, [Next]_vars, NEW j \in Jobs, job'[j].pc \in {"progress", "review", "recheck"}
  PROVE  \/ job[j].pc \in {"progress", "review", "recheck"} /\ job'[j].diff = job[j].diff
         \/ job'[j].diff = head /\ head' = head
PROOF
<1>1. ASSUME NEW i \in Jobs, DriverStep(i), job'[j] # job[j]
      PROVE  \/ job[j].pc \in {"progress", "review", "recheck"} /\ job'[j].diff = job[j].diff
             \/ job'[j].diff = head /\ head' = head
  <2>1. Turns(i)
    BY <1>1, DriverTurns
  <2>2. i = j
    BY <1>1, <2>1 DEF Turns
  <2> QED
    BY <2>1, <2>2 DEF Turns, TurnsSilent, TurnsStale, TurnsWritten, TurnsNext, TurnsReview,
                      TurnsReviewed, TurnsProgress, TurnsNotice, TurnsReport, TurnsPublish,
                      Unchanged
<1>2. ASSUME NEW i \in Jobs, ClientMoves(i) PROVE job' = job
  BY <1>2 DEF ClientMoves
<1>3. CASE ~\E i \in Jobs : JobStep(i)
  BY <1>3, OutsideEffect
<1> QED
  BY <1>1, <1>2, <1>3 DEF JobStep

LEMMA DiffsInit == Init => Diffs
BY DEF Init, CommentsInit, Diffs, ResultMatchesDiff, Idle, NotStarted

LEMMA DiffsStep ==
  ASSUME Control, History, Diffs, [Next]_vars
  PROVE  Diffs'
PROOF
<1>1. ASSUME NEW c \in comments', c.body.kind = "result", c.body.diff # c.body.sha
      PROVE  LeftAndBack(c.body.sha)'
  <2>1. CASE c \in comments
    BY <1>1, <2>1, ReturnsStay DEF Diffs, ResultMatchesDiff, LeftAndBack
  <2>2. CASE c \notin comments
    <3>1. PICK j \in Jobs : c.body = client[j].body /\ c.body.sha = j /\ client[j].step # "idle"
      BY <2>2, CommentOrigin DEF Applies
    <3>2. LeftAndBack(j)
      BY <1>1, <3>1 DEF Diffs
    <3> QED
      BY <3>1, <3>2, ReturnsStay
  <2> QED
    BY <2>1, <2>2
<1>2. ASSUME NEW j \in Jobs, client'[j].step # "idle", client'[j].body.kind = "result",
             client'[j].body.diff # j
      PROVE  LeftAndBack(j)'
  <2>1. CASE client[j].step # "idle" /\ client'[j].body = client[j].body
    BY <1>2, <2>1, ReturnsStay DEF Diffs
  <2>2. CASE TurnsPublish(j) /\ client'[j].body = Body("result", j)
    <3>1. job[j].pc = "recheck" /\ head = j /\ job[j].diff # j
      BY <1>2, <2>2 DEF TurnsPublish, HeadIs, Body
    <3>2. LeftAndBack(j)
      BY <3>1 DEF Diffs
    <3> QED
      BY <3>2, ReturnsStay
  <2> QED
    BY <1>2, <2>1, <2>2, BodyOrigin
<1>3. ASSUME NEW j \in Jobs, job'[j].pc \in {"progress", "review", "recheck"}, job'[j].diff # j
      PROVE  head' # j \/ LeftAndBack(j)'
  <2>1. CASE job'[j].diff = head /\ head' = head
    BY <1>3, <2>1
  <2>2. CASE job[j].pc \in {"progress", "review", "recheck"} /\ job'[j].diff = job[j].diff
    <3>1. head # j \/ LeftAndBack(j)
      BY <1>3, <2>2 DEF Diffs
    <3>2. Active(j)
      BY <2>2 DEF Active
    <3> QED
      BY <3>1, <3>2, ReturnsStay, ReturnRecorded
  <2> QED
    BY <1>3, <2>1, <2>2, DiffOrigin
<1> QED
  BY <1>1, <1>2, <1>3 DEF Diffs, ResultMatchesDiff, LeftAndBack

LEMMA DiffsHold == Spec => []Diffs
BY DiffsInit, DiffsStep, ControlHolds, HistoryHolds, PTL DEF Spec

\* Findings that a comment shows are of the diff of the commit it names, unless the head
\* left that commit and came back during the review: for any number of commits and returns.
THEOREM FindingsFit == Spec => []ResultMatchesDiff
PROOF
<1>1. Diffs => ResultMatchesDiff
  BY DEF Diffs
<1> QED
  BY <1>1, DiffsHold, PTL

----------------------------------------------------------------------------
\* The comment that readers see.

\* The comment of lowest identifier.
First(S) == CHOOSE c \in S : c.id = Min({d.id : d \in S})

LEMMA FirstIsLeast ==
  ASSUME NEW S, S # {}, \A c \in S : c.id \in Nat
  PROVE  First(S) \in S /\ \A d \in S : First(S).id <= d.id
PROOF
<1> DEFINE I == {d.id : d \in S}
<1>1. I \in SUBSET Nat /\ I # {}
  OBVIOUS
<1>2. Min(I) \in I /\ \A i \in I : Min(I) <= i
  <2> HIDE DEF I
  <2> QED
    BY <1>1, MinOfNaturals
<1>3. PICK c \in S : c.id = Min(I)
  BY <1>2
<1>4. First(S) \in S /\ First(S).id = Min(I)
  BY <1>3 DEF First
<1> QED
  BY <1>2, <1>4

LEMMA CanonicalIsFirst ==
  /\ Canonical = First(comments)
  /\ Canonical' = First(comments')
BY DEF Canonical, First, Ids

\* Where clients list the comments they find the canonical one.
LEMMA TargetIsCanonical ==
  ASSUME Types, comments # {}
  PROVE  Target = Canonical.id
PROOF
<1>1. \A c \in comments : c.id \in Nat
  BY DEF Types
<1>2. PICK c \in comments : c.id = Min(Ids)
  BY TargetIsLeast DEF Target, Ids
<1>3. Canonical.id = Min(Ids)
  BY <1>2 DEF Canonical
<1> QED
  BY <1>3 DEF Target

\* A write that is applied is what the canonical comment says then.
LEMMA WriteIsShown ==
  ASSUME Control, CommentsFit, NEW j \in Jobs, Applies(j), TargetsCanonical(j)
  PROVE  /\ comments' # {} /\ Canonical'.body = client[j].body
         /\ client[j].target # 0 => Canonical'.id = client[j].target
PROOF
<1>1. \A c \in comments : c.id \in 1 .. lastId
  BY DEF Control, Types
<1>2. lastId \in Nat /\ lastId' \in Nat /\ client[j].target \in Ids \cup {0}
      /\ client[j].step = "write"
  <2>1. lastId \in Nat
    BY DEF Control, Types
  <2> QED
    BY <2>1 DEF Applies, Applied
<1>3. comments # {} => /\ Canonical \in comments
                       /\ \A c \in comments : Canonical.id <= c.id
  BY <1>1, <1>2, FirstIsLeast, CanonicalIsFirst
<1>4. CASE client[j].target = 0
  <2> DEFINE new == [id |-> lastId + 1, body |-> client[j].body]
  <2>1. comments' = {c \in comments : c.id # lastId + 1} \cup {new}
    BY <1>4 DEF Applies, Applied, Written
  <2>2. comments' = comments \cup {new}
    BY <1>1, <1>2, <2>1
  <2>3. new.id = lastId + 1 /\ new.body = client[j].body
    OBVIOUS
  <2> HIDE DEF new
  <2>4. \A c \in comments' : c.id \in Nat
    BY <1>1, <1>2, <2>2, <2>3
  <2>5. Canonical' \in comments' /\ \A c \in comments' : Canonical'.id <= c.id
    BY <2>2, <2>4, FirstIsLeast, CanonicalIsFirst
  <2>6. CASE comments = {}
    BY <1>4, <2>2, <2>3, <2>5, <2>6
  <2>7. CASE comments # {}
    <3>1. Canonical \in comments /\ Canonical.body = client[j].body
      BY <1>2, <1>3, <1>4, <2>7 DEF TargetsCanonical
    <3>2. Canonical' \in comments
      <4>1. Canonical'.id <= Canonical.id /\ Canonical.id \in 1 .. lastId
        BY <1>1, <2>2, <2>5, <3>1
      <4> QED
        BY <1>2, <2>2, <2>3, <2>4, <2>5, <4>1
    <3>3. Canonical'.id <= Canonical.id /\ Canonical.id <= Canonical'.id
      BY <1>3, <2>2, <2>5, <2>7, <3>1, <3>2
    <3>4. Canonical' = Canonical
      BY <1>1, <3>1, <3>2, <3>3 DEF CommentsFit
    <3> QED
      BY <1>4, <2>2, <3>1, <3>4
  <2> QED
    BY <2>6, <2>7
<1>5. CASE client[j].target # 0
  <2> DEFINE new == [id |-> client[j].target, body |-> client[j].body]
  <2>1. comments # {} /\ client[j].target = Canonical.id
    BY <1>2, <1>5 DEF TargetsCanonical
  <2>2. comments' = {c \in comments : c.id # client[j].target} \cup {new}
    BY <1>5 DEF Applies, Applied, Written
  <2>3. new.id = client[j].target /\ new.body = client[j].body
    OBVIOUS
  <2> HIDE DEF new
  <2>4. Canonical.id \in Nat
    BY <1>1, <1>3, <2>1
  <2>5. \A c \in comments' : c.id \in Nat /\ (c = new \/ c.id > client[j].target)
    BY <1>1, <1>3, <2>1, <2>2, <2>3, <2>4
  <2>6. new \in comments'
    BY <2>2
  <2>7. Canonical' \in comments' /\ \A c \in comments' : Canonical'.id <= c.id
    BY <2>5, <2>6, FirstIsLeast, CanonicalIsFirst
  <2>8. Canonical' = new
    BY <2>1, <2>3, <2>4, <2>5, <2>6, <2>7
  <2> QED
    BY <2>3, <2>6, <2>8
<1> QED
  BY <1>4, <1>5

\* What any step does to the job of a commit.
LEMMA JobOrigin ==
  ASSUME Control, [Next]_vars, NEW j \in Jobs
  PROVE  \/ job'[j] = job[j]
         \/ Turns(j)
         \/ job'[j].pc \in {"bootstrap", "cancelled"}
            /\ (job'[j].pc = "bootstrap" => job'[j].progress = "none")
PROOF
<1>1. ASSUME NEW i \in Jobs, DriverStep(i) PROVE job'[j] = job[j] \/ Turns(j)
  <2>1. Turns(i)
    BY <1>1, DriverTurns
  <2> QED
    BY <2>1 DEF Turns
<1>2. ASSUME NEW i \in Jobs, ClientMoves(i) PROVE job'[j] = job[j]
  BY <1>2 DEF ClientMoves
<1>3. CASE ~\E i \in Jobs : JobStep(i)
  BY <1>3, OutsideEffect
<1> QED
  BY <1>1, <1>2, <1>3 DEF JobStep

LEMMA StatusedStep ==
  ASSUME Control, Statused, [Next]_vars
  PROVE  Statused'
PROOF
<1>1. SUFFICES ASSUME NEW j \in Jobs
      PROVE  /\ job'[j].pc \in {"bootstrap", "metadata", "authorize", "diff", "progress"} =>
                  job'[j].progress = "none"
             /\ job'[j].pc \in {"recheck", "publish"} => job'[j].status = "reviewed"
             /\ job'[j].pc = "notice" =>
                  /\ job'[j].status \in {"skipped", "fork_review_skipped"}
                  /\ job'[j].status = "skipped" => job'[j].progress = "none"
             /\ job'[j].pc = "report" => job'[j].status = "failed_safely"
  BY DEF Statused
<1>2. CASE job'[j] = job[j]
  BY <1>2 DEF Statused
<1>3. CASE Turns(j)
  BY <1>3 DEF Statused, Turns, TurnsSilent, TurnsStale, TurnsWritten, TurnsNext, TurnsReview,
              TurnsReviewed, TurnsProgress, TurnsNotice, TurnsReport, TurnsPublish, Keeps
<1>4. CASE job'[j].pc \in {"bootstrap", "cancelled"}
           /\ (job'[j].pc = "bootstrap" => job'[j].progress = "none")
  BY <1>4
<1> QED
  BY <1>2, <1>3, <1>4, JobOrigin

\* A step that leaves the comments.
LEMMA LeavesVisible ==
  ASSUME Control, History, Statused, Visible, [Next]_vars, LeavesComments
  PROVE  Visible'
PROOF
<1>1. UNCHANGED <<comments, deletions>> /\ Canonical' = Canonical
  BY DEF LeavesComments, Canonical, Ids
<1>2. SUFFICES ASSUME deletions = 0, NEW j \in Jobs
               PROVE  TargetsCanonical(j)' /\ ShownWhileRunning(j)' /\ ShownWhenDone(j)'
  BY <1>1 DEF Visible
<1>3. TargetsCanonical(j) /\ ShownWhileRunning(j) /\ ShownWhenDone(j)
  BY <1>2 DEF Visible
<1>4. TargetsCanonical(j)'
  <2>1. Target = IF comments = {} THEN 0 ELSE Canonical.id
    BY TargetIsCanonical, TargetIsLeast DEF Control
  <2>2. comments # {} => Target # 0
    BY TargetIsLeast DEF Control
  <2> QED
    BY <1>1, <1>3, <2>1, <2>2 DEF LeavesComments, TargetsCanonical
<1>5. ASSUME NEW kind, Shows(j, kind) PROVE Shows(j, kind)'
  BY <1>1, <1>5 DEF Shows
<1>6. client'[j].outcome \in Succeeded => client'[j].outcome = client[j].outcome
  BY DEF LeavesComments, Succeeded, Escapes
<1>7. CASE job'[j] = job[j]
  <2>1. ShownWhileRunning(j)'
    BY <1>3, <1>5, <1>6, <1>7 DEF ShownWhileRunning
  <2>2. ShownWhenDone(j)'
    BY <1>1, <1>3, <1>7, HeadKeepsOrder DEF ShownWhenDone, Reports, Wrote
  <2> QED
    BY <1>4, <2>1, <2>2
<1>8. CASE Turns(j)
  <2>1. CASE TurnsSilent(j)
    BY <1>4, <2>1 DEF TurnsSilent, ShownWhileRunning, ShownWhenDone, Reports, Writing, Succeeded
  <2>2. CASE TurnsStale(j)
    <3>1. job'[j].comment \in Succeeded => Shows(j, "in_progress")
      BY <1>3, <2>2 DEF TurnsStale, ShownWhileRunning
    <3>2. job'[j].comment \in Succeeded => Wrote(j)' = "in_progress"
      BY <2>2 DEF TurnsStale, Wrote, Succeeded
    <3> QED
      BY <1>1, <1>4, <2>2, <3>1, <3>2
         DEF TurnsStale, ShownWhileRunning, ShownWhenDone, Reports, Writing, Succeeded, Shows
  <2>3. CASE TurnsWritten(j)
    <3>1. job'[j].comment \in Succeeded => Shows(j, KindAt(job[j].pc))
      BY <1>3, <2>3 DEF TurnsWritten, ShownWhileRunning, Writing
    <3>2. Wrote(j)' = KindAt(job[j].pc)
      BY <2>3 DEF TurnsWritten, Wrote, KindAt, Keeps, Statused
    <3> QED
      BY <1>1, <1>4, <2>3, <3>1, <3>2
         DEF TurnsWritten, ShownWhileRunning, ShownWhenDone, Reports, Writing, Succeeded, Shows
  <2>4. CASE TurnsNext(j)
    BY <1>4, <2>4 DEF TurnsNext, ShownWhileRunning, ShownWhenDone, Reports, Writing
  <2>5. CASE TurnsReview(j)
    <3>1. client[j].outcome \in Succeeded => Shows(j, "in_progress")
      BY <1>3, <2>5 DEF TurnsReview, ShownWhileRunning, Writing, KindAt
    <3> QED
      BY <1>4, <1>5, <2>5, <3>1 DEF TurnsReview, ShownWhileRunning, ShownWhenDone, Reports, Writing
  <2>6. CASE TurnsReviewed(j)
    BY <1>3, <1>4, <1>5, <2>6
       DEF TurnsReviewed, ShownWhileRunning, ShownWhenDone, Reports, Writing
  <2>7. CASE TurnsProgress(j) \/ TurnsNotice(j) \/ TurnsReport(j) \/ TurnsPublish(j)
    <3>1. client'[j].outcome = "none" /\ job'[j].pc \in Writing
      BY <2>7, UpsertMeans
         DEF TurnsProgress, TurnsNotice, TurnsReport, TurnsPublish, Writing, Control
    <3> QED
      BY <1>4, <3>1 DEF ShownWhileRunning, ShownWhenDone, Reports, Writing, Succeeded
  <2> QED
    BY <1>8, <2>1, <2>2, <2>3, <2>4, <2>5, <2>6, <2>7 DEF Turns
<1>9. CASE job'[j].pc \in {"bootstrap", "cancelled"}
  BY <1>4, <1>9 DEF ShownWhileRunning, ShownWhenDone, Reports, Writing
<1> QED
  BY <1>7, <1>8, <1>9, JobOrigin

\* A write that GitHub applies.
LEMMA AppliesVisible ==
  ASSUME Control, CommentsFit, History, Statused, Visible, [Next]_vars,
         NEW j \in Jobs, Applies(j)
  PROVE  Visible'
PROOF
<1>1. UNCHANGED <<deletions, job, returned>> /\ client[j].step = "write"
      /\ \A i \in Jobs \ {j} : client'[i] = client[i]
  BY DEF Applies
<1>2. SUFFICES ASSUME deletions = 0, NEW i \in Jobs
               PROVE  TargetsCanonical(i)' /\ ShownWhileRunning(i)' /\ ShownWhenDone(i)'
  BY <1>1 DEF Visible
<1>3. /\ comments' # {} /\ Canonical'.body = client[j].body
      /\ client[j].target # 0 => Canonical'.id = client[j].target
  BY <1>2, WriteIsShown DEF Visible
<1>4. /\ job[j].pc \in Writing /\ client[j].body.sha = j
      /\ client[j].body.kind = KindAt(job[j].pc)
  BY <1>1 DEF Control, ClientWaits
<1>5. Shows(j, KindAt(job[j].pc))'
  BY <1>1, <1>3, <1>4 DEF Shows
<1>6. CASE i = j
  <2>1. TargetsCanonical(j)'
    BY <1>3 DEF Applies, TargetsCanonical
  <2>2. ShownWhileRunning(j)'
    BY <1>1, <1>4, <1>5 DEF ShownWhileRunning, Writing
  <2>3. ShownWhenDone(j)'
    BY <1>1, <1>4 DEF ShownWhenDone, Reports, Writing
  <2> QED
    BY <1>6, <2>1, <2>2, <2>3
<1>7. CASE i # j
  <2>1. client'[i] = client[i] /\ client[i].step = "idle" /\ ~Active(i)
    BY <1>1, <1>4, <1>7, ActiveAlone DEF Control, OneAtATime, Active, Writing
  <2>2. TargetsCanonical(i)' /\ ShownWhileRunning(i)'
    BY <1>1, <2>1 DEF TargetsCanonical, ShownWhileRunning, Active, Writing
  <2>3. ShownWhenDone(i)'
    <3> SUFFICES ASSUME job[i].pc = "done"
                 PROVE  /\ comments' # {}
                        /\ \/ Canonical'.body.sha > i
                           \/ Canonical'.body.sha \in ReturnedTo'
                           \/ Unchecked(Canonical'.body)
      BY <1>1 DEF ShownWhenDone, Reports
    <3>1. j \in ReturnedTo \/ i <= j \/ Unchecked(client[j].body)
      BY <1>1, <1>4 DEF History, Control, ClientWaits, Compared, PastMetadata, Writing,
                        Unchecked, KindAt
    <3>2. ReturnedTo' = ReturnedTo
      BY <1>1 DEF ReturnedTo
    <3>3. Canonical'.body.sha = j
      BY <1>3, <1>4
    <3>4. i \in Nat /\ j \in Nat
      BY PipelineAssumption
    <3> QED
      BY <1>3, <1>7, <3>1, <3>2, <3>3, <3>4
  <2> QED
    BY <2>2, <2>3
<1> QED
  BY <1>6, <1>7

LEMMA VisibleInit == Init => Statused /\ Visible
BY DEF Init, CommentsInit, Statused, Visible, TargetsCanonical, ShownWhileRunning,
       ShownWhenDone, Reports, Idle, NotStarted, Writing

LEMMA VisibleStep ==
  ASSUME Control, CommentsFit, History, Statused, Visible, [Next]_vars
  PROVE  Visible'
PROOF
<1>1. CASE DeleteComment
  <2>1. deletions' = deletions + 1 /\ deletions \in Nat
    BY <1>1 DEF DeleteComment, Delete, Control, Types
  <2> QED
    BY <2>1 DEF Visible
<1> QED
  BY <1>1, LeavesVisible, AppliesVisible, StepEffect DEF Control

LEMMA VisibleHolds == Spec => [](Statused /\ Visible)
BY VisibleInit, StatusedStep, VisibleStep, ControlHolds, CommentsFitHolds, HistoryHolds, PTL DEF Spec

\* What a job reports it wrote is what readers see, until a later commit is reviewed, or
\* one the head came back to, or a job fails at its start, or somebody deletes a comment:
\* for any retries, lost replies, exceptions and ends of jobs.
THEOREM ReportsAreShown == Spec => []ReportedIsShown
PROOF
<1>1. Visible => ReportedIsShown
  BY DEF Visible, ShownWhenDone, ReportedIsShown
<1> QED
  BY <1>1, VisibleHolds, PTL
===============================================================================
