------------------------------ MODULE Authority ------------------------------
(***************************************************************************)
(* The pure checks of internal/authority/grant.go: which envelope may      *)
(* replace a retained one, and which envelope lies within an approved one. *)
(*                                                                         *)
(* An envelope keeps the fields the checks treat differently.  `binding'   *)
(* stands for the fields compared for equality (repository, base commit,   *)
(* selection), `brief' for the brief and the plan revision, `scope' for    *)
(* the sets that may only shrink (criteria, kinds, paths, operations,      *)
(* systems), and the budget `requests' for the ceilings that are summed    *)
(* over attempts like it (subattempts) or only compared (bytes, idle).     *)
(***************************************************************************)
EXTENDS Integers, FiniteSets

CONSTANTS Bindings,   \* repository, base commit and selection, taken together
          Digests,    \* SHA-256 values, one per distinct record
          Scopes,     \* members of the sets that bound a task
          Runners,    \* runner principals
          RouteKeys,  \* (route_ref, profile_ref) pairs
          MaxInteger  \* protocol.go MaxInteger, scaled down

ASSUME MaxIntegerAssumption == MaxInteger \in Nat \ {0}

Positive == 1 .. MaxInteger

NonNegative == 0 .. MaxInteger

\* A nil monetary pointer: no cap, which is not the same as a cap of zero.
NoCap == -1

Revision == [number : Positive, sha : Digests]

Route == [key : RouteKeys, revision : Positive, policy : Revision, evidence : Revision,
          limits : {"strict", "native"}, content : Digests]

Budgets == [attempts : Positive, retries : NonNegative, requests : Positive,
            totalMS : Positive, attemptMS : Positive, tokens : NonNegative,
            cost : NonNegative \cup {NoCap}]

Envelope == [binding : Bindings, brief : Revision, decision : Revision, scope : SUBSET Scopes,
             runners : SUBSET Runners, routes : SUBSET Route, budgets : Budgets,
             notBefore : Positive, expires : Positive]

\* A native route has no provider bounds to enforce, a strict one needs an output cap.
RouteFits(r, b) ==
    IF r.limits = "native" THEN b.tokens = 0 /\ b.cost = NoCap ELSE b.tokens > 0

\* Routes are ordered by key without repetition, so a key names at most one of them.
Valid(e) ==
    /\ e.routes # {} /\ e.runners # {} /\ e.scope # {}
    /\ e.notBefore < e.expires
    /\ e.budgets.attemptMS <= e.budgets.totalMS
    /\ \A r \in e.routes : RouteFits(r, e.budgets)
    /\ \A r, o \in e.routes : r.key = o.key => r = o

CheckRevision(next, old) ==
    /\ next.number >= old.number
    /\ next.number = old.number => next.sha = old.sha

\* A strictly later revision that also has new content.
Advances(next, old) == next.number > old.number /\ next.sha # old.sha

RouteReplacement(n, o) ==
    /\ n.revision >= o.revision
    /\ n.revision = o.revision => n = o
    /\ CheckRevision(n.policy, o.policy)
    /\ CheckRevision(n.evidence, o.evidence)
    /\ n.limits # o.limits => Advances(n.policy, o.policy)

Replacement(next, old) ==
    /\ CheckRevision(next.brief, old.brief)
    /\ CheckRevision(next.decision, old.decision)
    /\ \A n \in next.routes :
          /\ n \in old.routes \/ Advances(next.decision, old.decision)
          /\ \A o \in old.routes : n.key = o.key => RouteReplacement(n, o)

BudgetsWithin(n, a) ==
    /\ n.attempts <= a.attempts /\ n.retries <= a.retries /\ n.requests <= a.requests
    /\ n.totalMS <= a.totalMS /\ n.attemptMS <= a.attemptMS /\ n.tokens <= a.tokens
    /\ a.cost # NoCap => n.cost # NoCap /\ n.cost <= a.cost

Within(next, approved) ==
    /\ Valid(next) /\ Valid(approved)
    /\ next.binding = approved.binding
    /\ next.brief = approved.brief /\ next.decision = approved.decision
    /\ next.scope \subseteq approved.scope
    /\ next.runners \subseteq approved.runners
    /\ next.routes \subseteq approved.routes
    /\ next.notBefore >= approved.notBefore /\ next.expires <= approved.expires
    /\ BudgetsWithin(next.budgets, approved.budgets)

\* One request selects one route and one runner of a grant that is valid at time t.
Check(granted, requested, t) ==
    /\ granted.notBefore <= t /\ t < granted.expires
    /\ Within(requested, granted)
    /\ requested.notBefore <= t /\ t < requested.expires
    /\ Cardinality(requested.routes) = 1 /\ Cardinality(requested.runners) = 1
=============================================================================
