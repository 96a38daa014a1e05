---------------------------- MODULE GitHubComments ----------------------------
(***************************************************************************)
(* The persistent review comment: review_runner/github_client.py, whose    *)
(* upsert_marker_comment looks for the comments that bear the marker and   *)
(* updates the one of lowest id or creates one, against a GitHub that may  *)
(* fail, or may apply a write and lose the reply.                          *)
(*                                                                         *)
(* A request that only reads and is retried reads later: its step is taken *)
(* when the last attempt is answered.  A write is one step per attempt.    *)
(***************************************************************************)
EXTENDS Integers, FiniteSets, FiniteSetsExt

CONSTANTS
  Jobs,           \* the review jobs, each with a client of its own
  MaxApiRetries,  \* GitHubClient._max_retries
  MaxDeletions,   \* bound: how many marker comments people delete
  MayFail         \* whether requests to GitHub may fail

ASSUME CommentsAssumption ==
  /\ MaxApiRetries \in Nat
  /\ MaxDeletions \in Nat
  /\ MayFail \in BOOLEAN

VARIABLES
  head,         \* the head commit of the pull request, as GitHub shows it
  comments,     \* the comments that bear the marker: [id, body]
  lastId,       \* the id GitHub gave last
  client,       \* where the upsert of each job is
  lostCreates,  \* creations whose reply was lost
  deletions

commentVars == <<comments, lastId, client, lostCreates, deletions>>

NoHead == 0

NoBody == [kind |-> "none", sha |-> NoHead, diff |-> NoHead]

Idle == [step |-> "idle", body |-> NoBody, expected |-> NoHead, target |-> 0,
         relisted |-> FALSE, attempt |-> 0, outcome |-> "none"]

CommentsInit ==
  /\ comments = {}
  /\ lastId = 0
  /\ client = [j \in Jobs |-> Idle]
  /\ lostCreates = 0
  /\ deletions = 0

Ids == {c.id : c \in comments}

\* The comment readers and writers take for the review: the one of lowest id.
Canonical == CHOOSE c \in comments : c.id = Min(Ids)

----------------------------------------------------------------------------
\* upsert_marker_comment

Upsert(j, body, expected) ==
  /\ client[j].step = "idle"
  /\ client' = [client EXCEPT ![j] = [Idle EXCEPT !.step = "list", !.body = body,
                                                  !.expected = expected]]
  /\ UNCHANGED <<comments, lastId, lostCreates, deletions>>

\* The call returns to the job, or raises: a GitHubApiError, which _safe_comment turns
\* into "failed" or "stale", or an exception it lets pass, which is "expected" if it is of
\* the kinds _async_main expects (ValueError, OSError) and "unexpected" if it is not.
Ends(j, outcome) == client' = [client EXCEPT ![j] = [Idle EXCEPT !.outcome = outcome]]

\* Mutant: the comment of highest id is taken for canonical.
TargetLast == IF comments = {} THEN 0 ELSE Max(Ids)

Target == IF comments = {} THEN 0 ELSE Min(Ids)

List(j) ==
  /\ client[j].step = "list"
  /\ client' = [client EXCEPT ![j].step = IF client[j].expected = NoHead
                                          THEN "write" ELSE "head",
                              ![j].target = Target]
  /\ UNCHANGED <<comments, lastId, lostCreates, deletions>>

\* Mutant: a head that has moved on is taken for the same.
HeadIsOrFollows(sha) == head >= sha

\* The comparison of the head of the pull request, just read, with a commit.
HeadIs(sha) == head = sha

RequireHead(j) ==
  /\ client[j].step = "head"
  /\ IF HeadIs(client[j].expected)
     THEN client' = [client EXCEPT ![j].step = "write"]
     ELSE Ends(j, "stale")
  /\ UNCHANGED <<comments, lastId, lostCreates, deletions>>

Written(id, body) == {c \in comments : c.id # id} \cup {[id |-> id, body |-> body]}

\* What the server does with a write: PATCH an existing comment or POST one.
Applied(j) ==
  IF client[j].target = 0
  THEN comments' = Written(lastId + 1, client[j].body) /\ lastId' = lastId + 1
  ELSE comments' = Written(client[j].target, client[j].body) /\ UNCHANGED lastId

Applicable(j) == client[j].step = "write" /\ client[j].target \in Ids \cup {0}

Write(j) ==
  /\ Applicable(j)
  /\ Applied(j)
  /\ Ends(j, IF client[j].target = 0 THEN "created" ELSE "updated")
  /\ UNCHANGED <<lostCreates, deletions>>

\* A transient failure of a write: it is tried again, or the call fails.
TriedAgain(j) ==
  IF client[j].attempt < MaxApiRetries
  THEN client' = [client EXCEPT ![j].attempt = @ + 1]
  ELSE Ends(j, "failed")

WriteLost(j) ==
  /\ MayFail
  /\ client[j].step = "write"
  /\ TriedAgain(j)
  /\ UNCHANGED <<comments, lastId, lostCreates, deletions>>

ReplyLost(j) ==
  /\ MayFail
  /\ Applicable(j)
  /\ Applied(j)
  /\ TriedAgain(j)
  /\ lostCreates' = IF client[j].target = 0 THEN lostCreates + 1 ELSE lostCreates
  /\ UNCHANGED deletions

\* Mutant: every 404 lists the comments again.
NotFoundEveryTime(j) ==
  /\ \/ client[j].step = "write" /\ client[j].target \notin Ids \cup {0}
     \/ client[j].step = "head" /\ client[j].target # 0 /\ MayFail
  /\ client' = [client EXCEPT ![j].step = "list", ![j].attempt = 0]
  /\ UNCHANGED <<comments, lastId, lostCreates, deletions>>

\* 404: the comment was deleted after it was listed.  The comments are listed once
\* more.  (A 404 from the check of the head is taken for the same.)
NotFound(j) ==
  /\ \/ client[j].step = "write" /\ client[j].target \notin Ids \cup {0}
     \/ client[j].step = "head" /\ client[j].target # 0 /\ MayFail
  /\ IF client[j].relisted
     THEN Ends(j, "failed")
     ELSE client' = [client EXCEPT ![j].step = "list", ![j].relisted = TRUE, ![j].attempt = 0]
  /\ UNCHANGED <<comments, lastId, lostCreates, deletions>>

\* An error that is not retried, or a read that failed too often.
Refused(j) ==
  /\ MayFail
  /\ client[j].step # "idle"
  /\ Ends(j, "failed")
  /\ UNCHANGED <<comments, lastId, lostCreates, deletions>>

\* The comment is created, but the reply bears no id (_comment_id).
ReplyUnusable(j) ==
  /\ MayFail
  /\ Applicable(j) /\ client[j].target = 0
  /\ Applied(j)
  /\ Ends(j, "failed")
  /\ UNCHANGED <<lostCreates, deletions>>

Escapes == {"expected", "unexpected"}

\* Any other exception in a request, as when response.json() meets a reply that is not
\* JSON.  A write may have been applied by then.
CallRaises(j) ==
  /\ MayFail
  /\ client[j].step # "idle"
  /\ \E outcome \in Escapes : Ends(j, outcome)
  /\ \/ UNCHANGED <<comments, lastId>>
     \/ Applicable(j) /\ Applied(j)
  /\ UNCHANGED <<lostCreates, deletions>>

ClientStep(j) ==
  \/ List(j) \/ RequireHead(j) \/ Write(j)
  \/ WriteLost(j) \/ ReplyLost(j) \/ ReplyUnusable(j)
  \/ NotFound(j) \/ Refused(j) \/ CallRaises(j)

\* Somebody deletes a marker comment.
Delete ==
  /\ deletions < MaxDeletions
  /\ \E c \in comments : comments' = comments \ {c}
  /\ deletions' = deletions + 1
  /\ UNCHANGED <<lastId, client, lostCreates>>

=============================================================================
