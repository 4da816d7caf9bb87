------------------------------ MODULE MCDispatch ------------------------------
(***************************************************************************)
(* Small instances of Dispatch: one runner, and envelopes that one         *)
(* decision, taken on the first facts, makes dispatchable.                 *)
(***************************************************************************)
EXTENDS Dispatch, TLC

CONSTANTS r1, k1, d1, b1, s1, rb1

Rev(n, d) == [number |-> n, sha |-> d]

MCRoute ==
    [key |-> k1, revision |-> 1, policy |-> Rev(1, d1), evidence |-> Rev(1, d1),
     limits |-> "strict", content |-> d1]

MCBudgets(tries, requests, ms, cost) ==
    [attempts |-> tries, retries |-> tries - 1, requests |-> requests,
     totalMS |-> ms, attemptMS |-> 1, tokens |-> 3, cost |-> cost]

MCEnvelope(d, budgets, expires) ==
    [binding |-> b1, brief |-> Rev(1, d1), decision |-> Rev(1, d), scope |-> {s1},
     runners |-> {r1}, routes |-> {MCRoute}, budgets |-> budgets,
     notBefore |-> 1, expires |-> expires]

Generous(d) == MCEnvelope(d, MCBudgets(3, 3, 3, NoCap), 4)
Tight(d)    == MCEnvelope(d, MCBudgets(2, 2, 2, 2), 2)

OnlyGenerous == {Generous(d) : d \in Digests}

MCEnvelopes == OnlyGenerous \cup {Tight(d) : d \in Digests}

MCAllowance(requests, cost) ==
    [attempts |-> 1, retries |-> 0, requests |-> requests, totalMS |-> 1, attemptMS |-> 1,
     tokens |-> 1, cost |-> cost]

OneAllowance == {MCAllowance(1, 1)}
TwoAllowances == {MCAllowance(1, 1), MCAllowance(2, NoCap)}

MCFacts(n, p) ==
    [revision |-> n, runnerBoot |-> rb1, eligible |-> TRUE, local |-> Generous(d1),
     validUntil |-> 4, profile |-> p]

MCFactSet == {MCFacts(1, 1), MCFacts(2, 2)}

\* Each digest is of a decision for one task, and each task has one.
TaskOf == CHOOSE f \in [Digests -> Tasks] : \A t \in Tasks : \E d \in Digests : f[d] = t

MCDecisions ==
    [d \in Digests |->
        [task |-> TaskOf[d], number |-> 1, brief |-> Rev(1, d1), route |-> MCRoute,
         runner |-> r1, facts |-> MCFacts(1, 1)]]

DispatchSymmetry == Permutations(Intents) \cup Permutations(GrantIds)
=============================================================================
