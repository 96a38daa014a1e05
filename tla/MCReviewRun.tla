----------------------------- MODULE MCReviewRun -----------------------------
(***************************************************************************)
(* Runs of up to four chunks of three files: some within the quotas, some  *)
(* beyond one of them, one with a chunk too large for the model, one with  *)
(* nothing to review.                                                      *)
(***************************************************************************)
EXTENDS ReviewRun

MCContexts == {[model |-> 5, reserved |-> 1], [model |-> 6, reserved |-> 1]}

Route == [up |-> TRUE, structured |-> TRUE, context |-> 5, maximum |-> 4, free |-> TRUE,
          listed |-> TRUE, zdr |-> TRUE, collects |-> FALSE]

MCPreflights ==
  {[kind |-> k, endpoints |-> {}, duration |-> 1] : k \in {"timeout", "raises", "missing"}}
    \cup {[kind |-> "offered", endpoints |-> {Route}, duration |-> 1]}

MCAnswers ==
  {[kind |-> k, out |-> 0, retryAfter |-> 0, duration |-> 1] :
     k \in {"timeout", "limited", "denied", "too_large", "garbled"}}
    \cup {[kind |-> k, out |-> n, retryAfter |-> 0, duration |-> 1] :
            k \in {"wrong_file", "valid"}, n \in {1, 2}}

Chunk(tokens, files) == [tokens |-> tokens, files |-> files]

Full == [p \in Files |-> "fully_reviewed"]

MCPlans ==
  { [chunks |-> <<>>, leftOut |-> {}, filtered |-> [p \in Files |-> "skipped"]],
    [chunks |-> <<>>, leftOut |-> Files, filtered |-> Full],
    [chunks |-> <<Chunk(2, {"a"}), Chunk(2, {"a", "b"}), Chunk(3, {"c"})>>, leftOut |-> {},
     filtered |-> [Full EXCEPT !["b"] = "partially_included"]],
    [chunks |-> <<Chunk(1, {"a"}), Chunk(4, {"b"}), Chunk(1, {"b"}), Chunk(1, {"b"})>>,
     leftOut |-> {"b", "c"}, filtered |-> Full],
    [chunks |-> <<Chunk(3, {"b"}), Chunk(3, {"b"})>>, leftOut |-> {},
     filtered |-> [p \in Files |-> IF p = "b" THEN "fully_reviewed" ELSE "skipped"]] }

=============================================================================
