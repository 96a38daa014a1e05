----------------------------- MODULE MCOpenRouter -----------------------------
(***************************************************************************)
(* A service that gives every kind of answer, fast or slow, with and       *)
(* without Retry-After, and every kind of preflight; a caller that sends   *)
(* chunks that fit and one that does not.                                  *)
(***************************************************************************)
EXTENDS OpenRouter

MCContexts == {[model |-> 5, reserved |-> 1], [model |-> 6, reserved |-> 1],
               [model |-> 5, reserved |-> 3]}

Route == [up |-> TRUE, structured |-> TRUE, context |-> 5, maximum |-> 4, free |-> TRUE,
          listed |-> TRUE, zdr |-> TRUE, collects |-> FALSE]

Flawed == {[Route EXCEPT !.up = FALSE], [Route EXCEPT !.structured = FALSE],
           [Route EXCEPT !.context = 4], [Route EXCEPT !.maximum = 1],
           [Route EXCEPT !.free = FALSE], [Route EXCEPT !.listed = FALSE]}

Offered(endpoints) == [kind |-> "offered", endpoints |-> endpoints, duration |-> 1]

MCPreflights ==
  {[kind |-> k, endpoints |-> {}, duration |-> 1] : k \in DOMAIN PreflightRefusals \cup {"raises"}}
    \cup {Offered({}), Offered(Flawed), Offered({Route}), Offered(Flawed \cup {Route}),
          Offered({[Route EXCEPT !.zdr = FALSE], [Route EXCEPT !.collects = TRUE]})}

MCAnswers ==
  {[kind |-> k, out |-> 0, retryAfter |-> 0, duration |-> 1] : k \in DOMAIN Refusals}
    \cup {[kind |-> "timeout", out |-> 0, retryAfter |-> 0, duration |-> 3],
          [kind |-> "limited", out |-> 0, retryAfter |-> 2, duration |-> 0],
          [kind |-> "unavailable", out |-> 0, retryAfter |-> 9, duration |-> 0]}
    \cup {[kind |-> k, out |-> n, retryAfter |-> 0, duration |-> 1] : k \in Reviews, n \in 0..2}

=============================================================================
