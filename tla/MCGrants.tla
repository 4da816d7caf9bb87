------------------------------- MODULE MCGrants -------------------------------
(***************************************************************************)
(* Small instances of Grants.  Four envelopes suffice to narrow, to drop a *)
(* route and offer it again with other content, and to reuse a decision    *)
(* number for another decision.                                            *)
(***************************************************************************)
EXTENDS Grants, TLC

CONSTANTS k1, k2,       \* route keys
          d1, d2, d3    \* digests

Rev(n, d) == [number |-> n, sha |-> d]

MCRoute(k, d) ==
    [key |-> k, revision |-> 1, policy |-> Rev(1, d1), evidence |-> Rev(1, d1),
     limits |-> "strict", content |-> d]

MCBudgets ==
    [attempts |-> 2, retries |-> 1, requests |-> 2, totalMS |-> 2, attemptMS |-> 1,
     tokens |-> 1, cost |-> NoCap]

MCEnvelope(n, d, routes, expires) ==
    [binding |-> CHOOSE b \in Bindings : TRUE, brief |-> Rev(1, d1), decision |-> Rev(n, d),
     scope |-> Scopes, runners |-> Runners, routes |-> routes, budgets |-> MCBudgets,
     notBefore |-> 1, expires |-> expires]

Wide    == MCEnvelope(1, d1, {MCRoute(k1, d1), MCRoute(k2, d1)}, 3)
Narrow  == MCEnvelope(1, d1, {MCRoute(k2, d1)}, 2)
Dropped == MCEnvelope(2, d2, {MCRoute(k2, d1)}, 3)
Rewrite == MCEnvelope(3, d3, {MCRoute(k1, d2)}, 3)
Reused  == MCEnvelope(2, d3, {MCRoute(k1, d1)}, 2)

MCEnvelopes == {Wide, Narrow, Dropped, Rewrite, Reused}

GrantSymmetry == Permutations(GrantIds) \cup Permutations(Actors)
=============================================================================
