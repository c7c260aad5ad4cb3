--------------------------- MODULE HandlerHelpers ---------------------------
(* A helper that handlers share, as part of the handler that calls it.       *)
EXTENDS HandlerSteps

\* The steps of a helper called from a handler: where the helper fails the
\* caller goes on with the steps f.
RECURSIVE Sub(_, _)
Sub(s, f) ==
  [i \in DOMAIN s |->
     IF s[i].op = "choice" THEN [s[i] EXCEPT !.arms = {Sub(a, f) : a \in @}]
     ELSE IF s[i].op \in {"attempt", "pool_attempt"} THEN s[i]
     ELSE IF "fail" \in DOMAIN s[i] THEN [s[i] EXCEPT !.fail = @ \o f]
     ELSE s[i]]
=============================================================================
