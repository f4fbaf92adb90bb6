----------------------------- MODULE MCOutputs -----------------------------
(* A destination created and changed once, one delivery and one test delivery;
   Slack and ntfy differ from these types in what they validate only.          *)
EXTENDS Outputs

CONSTANTS r1, r2, delivery, test

MCTypes == {"discord", "teams", "webhook", "mqtt"}
MCRequests == {r1, r2}
MCOccurrences == {delivery, test}
MCTests == {test}

\* The delivery and the test delivery do not meet.
JobsApart == jobs[test].step = "new" \/ jobs[delivery].step = "new"

\* The attempts begin when no request is under way: what they use is read before,
\* and no request reads what they do.
AttemptsApart ==
    (\E o \in MCOccurrences : jobs[o].step \in {"attempt", "done"}) =>
        \A r \in MCRequests : requests[r].step \in {"new", "done"}

=============================================================================
