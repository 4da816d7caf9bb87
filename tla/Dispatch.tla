------------------------------- MODULE Dispatch -------------------------------
(***************************************************************************)
(* The admission store of internal/store/dispatch.go with the recovery of  *)
(* recovery.go: admission charges a task, reserves the only execution slot *)
(* and commits an assignment; delivery and acknowledgement re-check it;    *)
(* stop, restart and reconciliation end it.  One action is one committed   *)
(* transaction, on the grants of module Grants.                            *)
(*                                                                         *)
(* Identifiers of attempt, assignment and message are hashes of the intent *)
(* key, so rows are indexed by the intent.  A digest stands for the record *)
(* it is taken of: the decision an envelope names fixes its task, route    *)
(* and runner, and the exact eligibility facts it was taken on.            *)
(***************************************************************************)
EXTENDS Grants, AttemptProtocol, FiniteSetsExt, Sequences

CONSTANTS Intents,      \* caller-retained keys of dispatch requests
          Allowances,   \* single-attempt reservations callers ask for
          Decisions,    \* the decision each digest denotes
          FactSet,      \* eligibility records owners publish
          RunnerBoots,  \* incarnations of the runner supervisor
          AckIds,       \* message identifiers of acknowledgements
          MaxBoot,      \* bound on daemon starts
          MaxProfile    \* bound on repository profile revisions

\* `eligible' is the verdict of the checks that only read the facts and the decision:
\* enablement, isolation, capabilities, path evidence, availability, resources.
Facts == [revision : Positive, runnerBoot : RunnerBoots, eligible : BOOLEAN,
          local : Envelope, validUntil : Positive, profile : Positive]

\* A decision of the operator for one task, taken on one record of facts.
Decision == [task : Tasks, number : Positive, brief : Revision, route : Route,
             runner : Runners, facts : FactSet]

ASSUME IntentsAssumption == None \notin Intents
ASSUME AllowancesAssumption == Allowances \subseteq Budgets
ASSUME FactSetAssumption == FactSet \subseteq Facts /\ None \notin FactSet
ASSUME DecisionsAssumption == Decisions \in [Digests -> Decision]
ASSUME BoundsAssumption == MaxBoot \in Nat \ {0} /\ MaxProfile \in Nat \ {0}

Row == [task : Tasks, grant : GrantIds, envelope : Envelopes, allowance : Allowances,
        epoch : Positive, created : 1 .. MaxTime]

Ack == [id : AckIds, runnerBoot : RunnerBoots, daemonBoot : 1 .. MaxBoot]

ASSUME NoRowAssumption == None \notin Row /\ None \notin Ack

VARIABLES runners,     \* principals: disabled, enabled or revoked
          profile,     \* current revision of the repository profile
          facts,       \* dispatch_eligibility: the newest record of each runner
          dispatches,  \* dispatches: the immutable reservation and outbox rows
          attempts,    \* attempts: state and compare-and-set revision
          events,      \* events: the state each revision of an attempt recorded
          acks,        \* dispatch_acks: the immutable receipts
          released,    \* dispatch_releases: reconciled dispatches
          stops,       \* dispatch_stops: tasks an owner stopped
          taskState,   \* tasks.state
          boot,        \* daemon starts so far
          born,        \* history: the daemon start that admitted each intent
          work         \* external: what a runner does with each assignment

placementVars == <<runners, profile, facts>>
attemptVars == <<attempts, events, taskState>>
dispatchVars == <<placementVars, dispatches, attemptVars, acks, released, stops, boot, born, work>>
vars == <<grantVars, dispatchVars>>

Of(t) == {i \in Intents : dispatches[i] # None /\ dispatches[i].task = t}

Active(i) == attempts[i].state \notin Terminal \cup {"none"}

DecisionOf(e) == Decisions[e.decision.sha]

\* Slip: the sticky stop is consulted by StopDispatch only.
DispatchAllowedStopped(t, g, e) == CheckExecution(g, t, e)

\* dispatchAllowed: no sticky stop, and execution is granted now.
DispatchAllowed(t, g, e) == t \notin stops /\ CheckExecution(g, t, e)

\* The runner's local policy, read with the task's own brief and decision.
LocalFor(f, e) == [f.local EXCEPT !.brief = e.brief, !.decision = e.decision]

\* The envelope names this decision, which is for this task and brief, on the one route of
\* the request and of the facts.
DecisionFits(t, e) ==
    LET d == DecisionOf(e) IN
    /\ d.number = e.decision.number
    /\ d.task = t /\ d.brief = e.brief
    /\ e.routes = {d.route} /\ d.facts.local.routes = {d.route}

\* Slip: the facts retained with the dispatch are checked instead of the current ones.
CheckDispatchRetained(t, e) ==
    LET f == DecisionOf(e).facts IN
    /\ DecisionFits(t, e)
    /\ f.eligible
    /\ now < f.validUntil
    /\ Within(e, LocalFor(f, e))
    /\ f.local.notBefore <= now /\ now < f.local.expires

\* CheckDispatch: the decision was taken on the current facts, which are valid and whose
\* local policy covers the request.
CheckDispatch(t, e) ==
    LET f == DecisionOf(e).facts IN
    /\ DecisionFits(t, e)
    /\ facts[DecisionOf(e).runner] = f
    /\ f.eligible
    /\ now < f.validUntil
    /\ Within(e, LocalFor(f, e))
    /\ f.local.notBefore <= now /\ now < f.local.expires

\* placement: the facts name the current repository profile and an enabled runner.
Placement(e) ==
    /\ DecisionOf(e).facts.profile = profile
    /\ runners[DecisionOf(e).runner] = "enabled"

CostOf(b) == IF b.cost = NoCap THEN 0 ELSE b.cost

Summed(w, S) == MapThenSumSet(LAMBDA i : w[i], S)

\* What a set of dispatches has been charged; nothing is ever refunded.
Charged(S) ==
    [requests |-> Summed([i \in S |-> dispatches[i].allowance.requests], S),
     ms       |-> Summed([i \in S |-> dispatches[i].allowance.attemptMS], S),
     tokens   |-> Summed([i \in S |-> dispatches[i].allowance.tokens], S),
     cost     |-> Summed([i \in S |-> CostOf(dispatches[i].allowance)], S)]

\* A prior consumption nobody measured cannot be counted under a cap on it.
PriorUseKnown(t, ceiling) ==
    \A i \in Of(t) :
        /\ ceiling.tokens > 0 =>
              \A r \in dispatches[i].envelope.routes : r.limits # "native"
        /\ ceiling.cost # NoCap => dispatches[i].allowance.cost # NoCap

WithinDuration(t, e, want) ==
    /\ Of(t) # {} =>
          LET first == Min({dispatches[i].created : i \in Of(t)}) IN
          /\ first <= now
          /\ now - first + want.attemptMS <= e.budgets.totalMS
    /\ now + want.attemptMS <= e.expires
    /\ now + want.attemptMS <= DecisionOf(e).facts.validUntil
    /\ now + want.attemptMS <= DecisionOf(e).facts.local.expires

\* Slip: what a released attempt was charged is given back.
BudgetLeftRefunded(t, ceiling, want) ==
    LET used == Charged(Of(t) \ released) IN
    /\ used.requests + want.requests <= ceiling.requests
    /\ used.ms + want.attemptMS <= ceiling.totalMS
    /\ used.tokens + want.tokens <= ceiling.tokens
    /\ used.cost + CostOf(want) <= (IF ceiling.cost = NoCap THEN MaxInteger ELSE ceiling.cost)

\* This allowance and everything charged before it fit the ceilings.
BudgetLeft(t, ceiling, want) ==
    LET used == Charged(Of(t)) IN
    /\ used.requests + want.requests <= ceiling.requests
    /\ used.ms + want.attemptMS <= ceiling.totalMS
    /\ used.tokens + want.tokens <= ceiling.tokens
    /\ used.cost + CostOf(want) <= (IF ceiling.cost = NoCap THEN MaxInteger ELSE ceiling.cost)

\* No attempt of any task is unresolved.
SlotFree == \A i \in Intents : ~ Active(i)

\* reserve: the global slot is free, prior dispatches of the task are reconciled, and
\* the ceilings of this request leave room for one more attempt.
Reserve(t, e, want) ==
    /\ SlotFree
    /\ Of(t) \subseteq released
    /\ PriorUseKnown(t, e.budgets)
    /\ Cardinality(Of(t)) < e.budgets.attempts /\ Cardinality(Of(t)) <= e.budgets.retries
    /\ WithinDuration(t, e, want)
    /\ BudgetLeft(t, e.budgets, want)

SingleAttempt(e, want) ==
    /\ want.attempts = 1 /\ want.retries = 0 /\ want.totalMS = want.attemptMS
    /\ Within([e EXCEPT !.budgets = want], e)

\* Slip: epochs are counted per grant.
NextEpochOfGrant(t, n) ==
    LET S == {i \in Of(t) : dispatches[i].grant = heads[t]} IN
    /\ \A i \in S : dispatches[i].epoch < n
    /\ n = 1 \/ \E i \in S : dispatches[i].epoch = n - 1

\* One more than the largest epoch the task has used.
NextEpoch(t, n) ==
    /\ \A i \in Of(t) : dispatches[i].epoch < n
    /\ n = 1 \/ \E i \in Of(t) : dispatches[i].epoch = n - 1

Admit(i, t, g, e, want) ==
    /\ dispatches[i] = None
    /\ SingleAttempt(e, want)
    /\ DispatchAllowed(t, g, e)
    /\ CheckDispatch(t, e)
    /\ Placement(e)
    /\ \A j \in Of(t) : ~ Active(j)
    /\ Reserve(t, e, want)
    /\ \E n \in Positive :
          /\ NextEpoch(t, n)
          /\ dispatches' = [dispatches EXCEPT ![i] =
                [task |-> t, grant |-> g, envelope |-> e, allowance |-> want,
                 epoch |-> n, created |-> now]]
    /\ attempts' = [attempts EXCEPT ![i] = [state |-> "assigned", revision |-> 1]]
    /\ events' = [events EXCEPT ![i] = <<"assigned">>]
    /\ taskState' = [taskState EXCEPT ![t] = "ready"]
    /\ signals' = ExpireGrants
    /\ born' = [born EXCEPT ![i] = boot]
    /\ UNCHANGED <<grantRows, now, placementVars, acks, released, stops, boot, work>>

\* Slip: the message is offered again whatever became of the attempt.
DeliverableAlways(i) ==
    LET d == dispatches[i] IN
    /\ d # None
    /\ DispatchAllowed(d.task, d.grant, d.envelope)
    /\ CheckDispatch(d.task, d.envelope)
    /\ Placement(d.envelope)

\* deliverable: everything admission checked about authority, facts and placement is
\* checked again, on an attempt that nothing has moved since.
Deliverable(i) ==
    LET d == dispatches[i] IN
    /\ d # None
    /\ i \notin released
    /\ attempts[i].state = "assigned"
    /\ DispatchAllowed(d.task, d.grant, d.envelope)
    /\ CheckDispatch(d.task, d.envelope)
    /\ Placement(d.envelope)

\* The message may be delivered any number of times; a lost one is no step here.
Delivery(i) ==
    /\ Deliverable(i)
    /\ signals' = ExpireGrants
    /\ work' = [work EXCEPT ![i] = IF work[i] = "idle" THEN "holding" ELSE work[i]]
    /\ UNCHANGED <<grantRows, now, placementVars, dispatches, attemptVars, acks, released,
                   stops, boot, born>>

\* A first receipt needs current admission and both current boots, and a fresh message
\* identifier.  An exact retained receipt is answered without a write.
AcknowledgeAssignment(i, m) ==
    /\ acks[i] = None
    /\ Deliverable(i)
    /\ m.runnerBoot = DecisionOf(dispatches[i].envelope).facts.runnerBoot
    /\ m.daemonBoot = boot
    /\ \A j \in Intents : acks[j] # None => acks[j].id # m.id
    /\ acks' = [acks EXCEPT ![i] = m]
    /\ signals' = ExpireGrants
    /\ UNCHANGED <<grantRows, now, placementVars, dispatches, attemptVars, released, stops,
                   boot, born, work>>

\* The update a writer of an attempt commits once CheckTransition accepts.
Moved(i, to) == [state |-> to, revision |-> attempts[i].revision + 1]

MovedAll(S, to) == [i \in Intents |-> IF i \in S THEN Moved(i, to) ELSE attempts[i]]

\* record: the event that goes with each update.
Record(S, to) == [i \in Intents |-> IF i \in S THEN Append(events[i], to) ELSE events[i]]

\* Slip: a task is taken to have one attempt, of epoch 1.
ReconcilingFirst(S) ==
    [t \in Tasks |-> IF \E i \in Of(t) \cap S : dispatches[i].epoch = 1
                     THEN "reconciling" ELSE taskState[t]]

Reconciling(S) ==
    [t \in Tasks |-> IF Of(t) \cap S # {} THEN "reconciling" ELSE taskState[t]]

\* StopDispatch: the sticky latch, and the task's assigned attempt if it has one.
StopDispatch(t) ==
    LET S == {i \in Of(t) : attempts[i].state = "assigned"} IN
    /\ \A i \in S : attempts[i].revision < MaxInteger
    /\ stops' = stops \cup {t}
    /\ attempts' = MovedAll(S, "stopping")
    /\ events' = Record(S, "stopping")
    /\ taskState' = Reconciling(S)
    /\ UNCHANGED <<grantVars, placementVars, dispatches, acks, released, boot, born, work>>

\* Slip: the end of the process is taken for the end of the launch capability.
NothingLive(i) == work[i] # "live"

\* What the owner has verified before submitting a proof: the launch is fenced.
LaunchFenced(i) == work[i] = "fenced"

\* ReconcileDispatch on an owner's proof, made for the revision `expected'.
ReconcileDispatch(i, to, expected) ==
    /\ dispatches[i] # None
    /\ to \in {"cancelled", "expired"}
    /\ LaunchFenced(i)
    /\ i \notin released
    /\ CheckTransition(attempts[i].state, to, expected, attempts[i].state,
                       attempts[i].revision, MaxInteger)
    /\ attempts' = MovedAll({i}, to)
    /\ events' = Record({i}, to)
    /\ released' = released \cup {i}
    /\ UNCHANGED <<grantVars, placementVars, dispatches, acks, stops, taskState, boot, born, work>>

\* Slip: reconciled attempts are recovered too.
UnderWayKnown == {i \in Intents : attempts[i].state \notin {"none", "unknown"}}

\* The attempts recoverAttempts selects.
UnderWay == {i \in Intents : attempts[i].state \in Working}

\* A start of the daemon: new boot, elapsed grants latched, every attempt that was under
\* way marked unknown, all in the transaction of migrate.
Restart ==
    /\ boot < MaxBoot
    /\ boot' = boot + 1
    /\ signals' = ExpireGrants
    /\ \A i \in UnderWay : attempts[i].revision < MaxInteger
    /\ attempts' = MovedAll(UnderWay, "unknown")
    /\ events' = Record(UnderWay, "unknown")
    /\ taskState' = Reconciling(UnderWay)
    /\ UNCHANGED <<grantRows, now, placementVars, dispatches, acks, released, stops, born, work>>

\* PublishEligibility: the next revision of a runner's facts, on the current profile.
PublishEligibility(r, f) ==
    /\ f.profile = profile
    /\ Valid(f.local) /\ f.local.runners = {r} /\ Cardinality(f.local.routes) = 1
    /\ f.revision = (IF facts[r] = None THEN 1 ELSE facts[r].revision + 1)
    /\ facts' = [facts EXCEPT ![r] = f]
    /\ UNCHANGED <<grantVars, runners, profile, dispatches, attemptVars, acks, released, stops,
                   boot, born, work>>

\* UpdateIdentity on a runner: revocation is final.
UpdateRunner(r, to) ==
    /\ runners[r] # "revoked"
    /\ to # runners[r]
    /\ runners' = [runners EXCEPT ![r] = to]
    /\ UNCHANGED <<grantVars, profile, facts, dispatches, attemptVars, acks, released, stops,
                   boot, born, work>>

\* RegisterRepository: a new profile revision invalidates facts taken on the old one.
RegisterRepository ==
    /\ profile < MaxProfile
    /\ profile' = profile + 1
    /\ UNCHANGED <<grantVars, runners, facts, dispatches, attemptVars, acks, released, stops,
                   boot, born, work>>

\* External: a runner that holds an assignment may launch it, and the process may end.
RunnerStep(i) ==
    /\ \/ work[i] = "holding" /\ work' = [work EXCEPT ![i] = "live"]
       \/ work[i] = "live" /\ work' = [work EXCEPT ![i] = "ended"]
    /\ UNCHANGED <<grantVars, placementVars, dispatches, attemptVars, acks, released, stops,
                   boot, born>>

\* External: the owner takes the launch capability away once nothing runs.
Fence(i) ==
    /\ dispatches[i] # None
    /\ work[i] \in {"idle", "holding", "ended"}
    /\ work' = [work EXCEPT ![i] = "fenced"]
    /\ UNCHANGED <<grantVars, placementVars, dispatches, attemptVars, acks, released, stops,
                   boot, born>>

DispatchInit ==
    /\ GrantInit
    /\ runners = [r \in Runners |-> "disabled"]
    /\ profile = 1
    /\ facts = [r \in Runners |-> None]
    /\ dispatches = [i \in Intents |-> None]
    /\ attempts = [i \in Intents |-> [state |-> "none", revision |-> 0]]
    /\ events = [i \in Intents |-> <<>>]
    /\ acks = [i \in Intents |-> None]
    /\ released = {}
    /\ stops = {}
    /\ taskState = [t \in Tasks |-> "none"]
    /\ boot = 1
    /\ born = [i \in Intents |-> 0]
    /\ work = [i \in Intents |-> "idle"]

DispatchNext ==
    \/ GrantNext /\ UNCHANGED dispatchVars
    \/ \E i \in Intents, t \in Tasks, g \in GrantIds, e \in Envelopes, want \in Allowances :
          Admit(i, t, g, e, want)
    \/ \E i \in Intents :
          \/ Delivery(i)
          \/ \E m \in Ack : AcknowledgeAssignment(i, m)
          \/ \E to \in Terminal, n \in Positive : ReconcileDispatch(i, to, n)
          \/ RunnerStep(i)
          \/ Fence(i)
    \/ \E t \in Tasks : StopDispatch(t)
    \/ \E r \in Runners, f \in FactSet : PublishEligibility(r, f)
    \/ \E r \in Runners, to \in {"enabled", "disabled", "revoked"} : UpdateRunner(r, to)
    \/ RegisterRepository
    \/ Restart

DispatchSpec == DispatchInit /\ [][DispatchNext]_vars

-----------------------------------------------------------------------------
DispatchTypeOK ==
    /\ GrantTypeOK
    /\ runners \in [Runners -> {"disabled", "enabled", "revoked"}]
    /\ profile \in 1 .. MaxProfile
    /\ facts \in [Runners -> FactSet \cup {None}]
    /\ dispatches \in [Intents -> Row \cup {None}]
    /\ attempts \in [Intents -> [state : AttemptState \cup {"none"}, revision : Nat]]
    /\ events \in [Intents -> Seq(AttemptState)]
    /\ acks \in [Intents -> Ack \cup {None}]
    /\ released \in SUBSET Intents
    /\ stops \in SUBSET Tasks
    /\ taskState \in [Tasks -> {"none", "ready", "reconciling"}]
    /\ boot \in 1 .. MaxBoot
    /\ born \in [Intents -> 0 .. MaxBoot]
    /\ work \in [Intents -> {"idle", "holding", "live", "ended", "fenced"}]

\* Admission is sequential over the whole store: at most one attempt, of any task, is
\* neither finished nor reconciled, across restarts and stops.
OneActiveAttempt ==
    \A i, j \in Intents : Active(i) /\ Active(j) => i = j

\* Outside the store too: no two runners hold or run an assignment at the same time,
\* because a slot is only given back on a verified fence.
NoOverlappingWork ==
    \A i, j \in Intents : i # j =>
        ~ (work[i] \in {"holding", "live"} /\ work[j] \in {"holding", "live"})

\* One slot, in the store and in the world: whatever a restart forgot, an owner stopped
\* or a runner never reported, a second attempt starts only after the first is fenced.
OneWorker == OneActiveAttempt /\ NoOverlappingWork

\* A terminal state and a release receipt are one fact: capacity is never given back by
\* anything else, and never kept by an attempt that is over.
TerminalIffReleased ==
    \A i \in Intents : attempts[i].state \in Terminal <=> i \in released

\* The event log of an attempt is its whole revision history: no revision is missing or
\* recorded twice, the last is the stored state, and each step is a protocol edge.
EventsAreHistory ==
    \A i \in Intents :
        LET n == Len(events[i]) IN
        /\ attempts[i].revision = n
        /\ attempts[i].state = IF n = 0 THEN "none" ELSE events[i][n]
        /\ \A k \in 1 .. n - 1 : <<events[i][k], events[i][k + 1]>> \in Edges

\* An attempt has at most four revisions, however often the daemon restarts, so the
\* startup transaction can never be refused for an exhausted revision.
RevisionsBounded == \A i \in Intents : attempts[i].revision <= 4

\* The epochs of a task are 1 .. n, and a later epoch never runs on an older grant.
EpochsFollowGrants ==
    \A t \in Tasks :
        /\ {dispatches[i].epoch : i \in Of(t)} = 1 .. Cardinality(Of(t))
        /\ \A i, j \in Of(t) : dispatches[i].epoch < dispatches[j].epoch =>
              grants[dispatches[i].grant].revision <= grants[dispatches[j].grant].revision

\* Everything a task was ever charged, released attempts included, fitted the ceilings
\* each of its dispatches was admitted under, whatever grants came and went.
CeilingsHold ==
    \A t \in Tasks : \A i \in Of(t) :
        LET upTo == {j \in Of(t) : dispatches[j].epoch <= dispatches[i].epoch}
            ceiling == dispatches[i].envelope.budgets
            used == Charged(upTo)
            end == dispatches[i].created + dispatches[i].allowance.attemptMS
        IN  /\ Cardinality(upTo) <= ceiling.attempts
            /\ Cardinality(upTo) - 1 <= ceiling.retries
            /\ used.requests <= ceiling.requests
            /\ used.ms <= ceiling.totalMS
            /\ used.tokens <= ceiling.tokens
            /\ ceiling.cost # NoCap =>
                  /\ used.cost <= ceiling.cost
                  /\ \A j \in upTo : dispatches[j].allowance.cost # NoCap
            /\ \A j \in upTo : end <= dispatches[j].created + ceiling.totalMS
            /\ end <= grants[dispatches[i].grant].envelope.expires

\* A receipt was given by the daemon start that admitted the attempt: a message that was
\* delayed over a restart never becomes a first receipt.
ReceiptsFromAdmittingBoot ==
    \A i \in Intents : acks[i] # None => acks[i].daemonBoot = born[i] /\ dispatches[i] # None

\* The rows of an attempt, written apart by admission, receipt, stop, recovery and
\* reconciliation, tell one story: state, release, events, revision and receipt agree.
RowsAgree ==
    TerminalIffReleased /\ EventsAreHistory /\ RevisionsBounded /\ ReceiptsFromAdmittingBoot

\* tasks.state and attempts, which no constraint ties together, agree: a ready task has
\* its last attempt assigned, a reconciling one has a last attempt that was stopped,
\* lost or reconciled.
TaskStateFollowsAttempt ==
    \A t \in Tasks :
        LET last == {i \in Of(t) : \A j \in Of(t) : dispatches[j].epoch <= dispatches[i].epoch} IN
        /\ taskState[t] = "none" <=> Of(t) = {}
        /\ \A i \in last : taskState[t] = "ready" <=> attempts[i].state = "assigned"

\* After a stop the task gets no new attempt, no runner gets its assignment and no first
\* receipt is accepted, through restarts and new grants.
StopIsSticky ==
    [][\A t \in stops : t \in stops' /\ Of(t)' = Of(t) /\ \A i \in Of(t) :
          /\ attempts[i].state # "assigned"
          /\ acks'[i] = acks[i]
          /\ work[i] = "idle" => work'[i] # "holding"
      ]_vars

\* No assignment reaches a runner and no first receipt is stored once the attempt's
\* grant has an invalidation, though the row and its message are retained.
InvalidatedGrantHandsNothing ==
    [][\A i \in Intents : dispatches[i] # None /\ signals[dispatches[i].grant] # "none" =>
          /\ acks'[i] = acks[i]
          /\ work[i] = "idle" => work'[i] # "holding"
      ]_vars

\* No assignment reaches a runner and no first receipt is stored when, since admission,
\* the runner's facts or the repository profile were revised or the runner was disabled.
NothingHandedOnStaleFacts ==
    [][\A i \in Intents : dispatches[i] # None =>
          LET made == DecisionOf(dispatches[i].envelope) IN
          \/ facts[made.runner] = made.facts /\ made.facts.profile = profile
             /\ runners[made.runner] = "enabled"
          \/ acks'[i] = acks[i] /\ (work[i] = "idle" => work'[i] # "holding")
      ]_vars

\* What changed between admission and delivery is seen at delivery: neither an ended
\* grant nor replaced facts hand an assignment out, though its row is retained.
NothingStaleHanded == InvalidatedGrantHandsNothing /\ NothingHandedOnStaleFacts

\* The intent that occupies the slot, None if it is free.
Occupant == IF \E i \in Intents : Active(i) THEN CHOOSE i \in Intents : Active(i) ELSE None

\* The store implements the slot it promises.
Slot == INSTANCE AdmissionSlot WITH
    slot <- Occupant,
    spent <- {<<i, dispatches[i].task>> : i \in {j \in Intents : dispatches[j] # None}},
    handed <- {i \in Intents : acks[i] # None},
    stopped <- stops

SlotSpec == Slot!Spec
=============================================================================
