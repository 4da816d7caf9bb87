---------------------------- MODULE AttemptProtocol ----------------------------
(***************************************************************************)
(* The attempt state machine of schemas/execution/protocol.go and the      *)
(* compare-and-set rule every writer of an attempt goes through.           *)
(***************************************************************************)
EXTENDS Integers

Working == {"assigned", "starting", "running", "result_pending", "stopping"}

Terminal == {"succeeded", "failed", "cancelled", "expired"}

AttemptState == Working \cup Terminal \cup {"unknown"}

Edges ==
    ({"assigned"} \X {"starting", "stopping", "unknown"})
    \cup ({"starting"} \X {"running", "stopping", "unknown"})
    \cup ({"running"} \X {"result_pending", "stopping", "unknown"})
    \cup ({"result_pending"} \X {"succeeded", "failed", "stopping", "unknown"})
    \cup ({"stopping"} \X {"cancelled", "expired", "unknown"})
    \cup ({"unknown"} \X {"stopping", "cancelled", "expired", "result_pending"})

\* CheckTransition for a message that names the current attempt: its expectation must
\* be the stored revision, which must have a successor, and the edge must exist.
CheckTransition(from, to, expected, state, revision, limit) ==
    /\ expected = revision /\ revision < limit
    /\ from = state /\ <<state, to>> \in Edges
=============================================================================
