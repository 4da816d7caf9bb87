------------------------------- MODULE Planner -------------------------------
(***************************************************************************)
(* One planner input revision, from both sides of the boundary: the session *)
(* that spends its allowance (planner-probe/planner.ts with the native      *)
(* transport and port) and the admission that derives the same phase again  *)
(* from the history of the request alone (overlay/native-planner.mjs, as    *)
(* PolicyGate.admit calls it).  The session may be lost and started anew,   *)
(* the model may answer anything a Responses stream can complete with, and  *)
(* a harness that holds the token may send any request instead.             *)
(*                                                                          *)
(* A request's history is its rounds: what the model put out and what was   *)
(* answered.  A text is "plain" (a valid plan), "citing" (valid only once   *)
(* the file was read) or "invalid"; reasoning items travel with the output. *)
(***************************************************************************)
EXTENDS Naturals, SequencesExt

CONSTANTS Budgets,       \* of the trusted packet: assessments, repairs, requests,
                         \* files, and whether readBytes covers the file
          MaxSessions,   \* bound of the sessions started for the revision
          MaxAdmitted,   \* bound of what an intruding harness may try
          Nothing

VARIABLES budget,
          intruder,      \* the harness speaks for itself instead of the session
          stage,         \* the session: where PlannerSession.execute stands
          rounds,        \* its conversation: NativeConversation.input after the packet
          usage,         \* its usage: requests, files, repairs
          sessions,      \* sessions started for this revision
          reserved,      \* the admitted request that has no decision yet
          decided        \* the gate's decisions of this revision, in order

plannerVars == <<budget, intruder, stage, rounds, usage, sessions, reserved, decided>>

Texts == {"plain", "citing", "invalid"}
Outputs == Texts \cup {"call"}
Rounds == [output : Outputs, answer : {"result", "repair"}]
Histories == UNION {[1..n -> Rounds] : n \in 0..3}
Requests == [rounds : Histories, choice : {"auto", "none"}]

Decisions == [rounds : Histories, choice : {"auto", "none"}, output : Outputs \cup {Nothing},
              verdict : {"validated_success", "unknown"}]

\* Both sides refuse a budget above PLANNER_BUDGET.
ASSUME PlannerAssumption ==
    /\ Budgets \subseteq [assessments : 0..1, repairs : 0..1, requests : Nat, files : 0..1, fits : BOOLEAN]
    /\ Nothing \notin Outputs /\ Nothing \notin Requests /\ Nothing \notin Decisions

PlannerPlanValid(text, fileRead) == text = "plain" \/ (text = "citing" /\ fileRead)

CanRead == budget.files > 0 /\ budget.fits

---------------------------------------------------------------------------
(* native-planner.mjs *)

FileRead(h) == \E i \in DOMAIN h : h[i].output = "call"
Repairs(h) == Cardinality({i \in DOMAIN h : h[i].answer = "repair"})
Before(h, i) == SubSeq(h, 1, i - 1)

\* One round of plannerRequestState: a single discovery, then at most one repair, of a
\* text that really was no plan, and nothing after it.
ReadRound(h, i) ==
    /\ h[i].output = "call" /\ h[i].answer = "result"
    /\ ~FileRead(Before(h, i)) /\ Repairs(Before(h, i)) = 0 /\ CanRead
RepairRound(h, i) ==
    /\ h[i].output \in Texts /\ h[i].answer = "repair" /\ i = Len(h)
    /\ budget.repairs = 1
    /\ ~PlannerPlanValid(h[i].output, FileRead(Before(h, i)))

Discovery(h) == h = <<>> /\ CanRead
Allowed(h) == budget.assessments = 1 /\ Len(h) + 1 <= budget.requests

PlannerRequestState(r) ==
    /\ Len(r.rounds) <= 2
    /\ \A i \in DOMAIN r.rounds : ReadRound(r.rounds, i) \/ RepairRound(r.rounds, i)
    /\ Allowed(r.rounds)
    /\ r.choice = IF Discovery(r.rounds) THEN "auto" ELSE "none"

\* plannerContinuation: the output a request may be continued with.
PlannerContinuation(output, toolsAllowed) == output = "call" => toolsAllowed

ContinuesAnything(r, previous) == TRUE                                        \* slip
\* The first request carries no history; each later one is the previous request,
\* its decided output and one answer.
Continues(r, previous) ==
    IF previous = Nothing THEN r.rounds = <<>>
    ELSE /\ Len(r.rounds) = Len(previous.rounds) + 1
         /\ Front(r.rounds) = previous.rounds
         /\ Last(r.rounds).output = previous.output
ValidatePlannerRequest(r, previous) == PlannerRequestState(r) /\ Continues(r, previous)
ValidatePlannerOutput(output, r) == PlannerContinuation(output, Discovery(r.rounds))

---------------------------------------------------------------------------
(* The gate: what PolicyGate.admit and finish make of it for one revision *)

LastDecision == IF decided = <<>> THEN Nothing ELSE Last(decided)
Admits(r) ==
    /\ reserved = Nothing
    /\ LastDecision # Nothing => LastDecision.verdict = "validated_success"
    /\ ValidatePlannerRequest(r, LastDecision)

\* The original succeeded with an output the request allows, or the work failed, was
\* stopped, or nobody knows: only the first can be continued.
Decision(r, output) ==
    [rounds |-> r.rounds, choice |-> r.choice, output |-> output,
     verdict |-> IF output # Nothing THEN "validated_success" ELSE "unknown"]

---------------------------------------------------------------------------
(* PlannerSession, NativePlannerTransport and NativeBoundaryPort *)

Fresh == [requests |-> 0, files |-> 0, repairs |-> 0]

PlannerInit ==
    /\ budget \in Budgets /\ intruder \in BOOLEAN
    /\ stage = "ready" /\ rounds = <<>> /\ usage = Fresh /\ sessions = 1
    /\ reserved = Nothing /\ decided = <<>>

\* The request complete(tools) sends: discovery is offered to the assessment alone.
NextRequest ==
    [rounds |-> rounds, choice |-> IF rounds = <<>> /\ CanRead THEN "auto" ELSE "none"]

\* PlannerSession.complete: charged before it is sent; the port checks it against its
\* own retained request and output, which are the session's rounds, and so does the gate.
Send ==
    /\ ~intruder /\ stage = "ready"
    /\ IF budget.assessments = 0 \/ usage.requests >= budget.requests
       THEN stage' = "exhausted" /\ UNCHANGED <<usage, reserved>>
       ELSE /\ usage' = [usage EXCEPT !.requests = @ + 1]
            /\ IF Admits(NextRequest)
               THEN stage' = "waiting" /\ reserved' = NextRequest
               ELSE stage' = "refused" /\ UNCHANGED reserved
    /\ UNCHANGED <<budget, intruder, rounds, sessions, decided>>

\* What execute does with a completed output: read, end with the plan, or repair.
Receives(output) ==
    CASE output = "call" ->
            IF usage.files >= budget.files \/ ~budget.fits
            THEN stage' = "failed" /\ UNCHANGED <<rounds, usage>>
            ELSE /\ stage' = "ready"
                 /\ rounds' = Append(rounds, [output |-> "call", answer |-> "result"])
                 /\ usage' = [usage EXCEPT !.files = @ + 1]
      [] output # "call" /\ PlannerPlanValid(output, usage.files > 0) ->
            stage' = "plan_proposed" /\ UNCHANGED <<rounds, usage>>
      [] OTHER ->
            IF usage.repairs >= 1 \/ budget.repairs = 0
            THEN stage' = "invalid_plan" /\ UNCHANGED <<rounds, usage>>
            ELSE /\ stage' = "ready"
                 /\ rounds' = Append(rounds, [output |-> output, answer |-> "repair"])
                 /\ usage' = [usage EXCEPT !.repairs = @ + 1]

\* The gate records the decision and releases the bytes; a session that gave up, was
\* aborted or lost hears nothing, and the decision stands all the same.
Complete(output) ==
    /\ reserved # Nothing
    /\ ValidatePlannerOutput(output, reserved)
    /\ decided' = Append(decided, Decision(reserved, output))
    /\ reserved' = Nothing
    /\ IF stage = "waiting" THEN Receives(output) ELSE UNCHANGED <<stage, rounds, usage>>
    /\ UNCHANGED <<budget, intruder, sessions>>

Fail ==
    /\ reserved # Nothing
    /\ decided' = Append(decided, Decision(reserved, Nothing))
    /\ reserved' = Nothing
    /\ stage' = IF stage = "waiting" THEN "failed" ELSE stage
    /\ UNCHANGED <<budget, intruder, rounds, usage, sessions>>

\* awaitRelease: an abort or the session's own timer ends the wait, not the work.
Abort ==
    /\ stage \in {"ready", "waiting"} /\ stage' = "failed"
    /\ UNCHANGED <<budget, intruder, rounds, usage, sessions, reserved, decided>>

\* The same input revision is taken up by a new session, with nothing of the old one.
NewSession ==
    /\ ~intruder /\ sessions < MaxSessions
    /\ sessions' = sessions + 1
    /\ stage' = "ready" /\ rounds' = <<>> /\ usage' = Fresh
    /\ UNCHANGED <<budget, intruder, reserved, decided>>

Intrude(r) ==
    /\ intruder /\ Len(decided) < MaxAdmitted /\ Admits(r)
    /\ reserved' = r
    /\ UNCHANGED <<budget, intruder, stage, rounds, usage, sessions, decided>>

PlannerNext ==
    \/ Send \/ Fail \/ Abort \/ NewSession
    \/ \E output \in Outputs : Complete(output)
    \/ \E r \in Requests : Intrude(r)

---------------------------------------------------------------------------

AdmittedRequests == decided \o IF reserved = Nothing THEN <<>> ELSE <<reserved>>

(***************************************************************************)
(* One revision costs at most its allowance, whoever sends and however      *)
(* often a session starts over: as many requests as the packet's budget,    *)
(* one offer of discovery, one repair (validatePlannerRequest derives the   *)
(* phase from the closed history and trusts no counter or session id).      *)
(***************************************************************************)
AllowanceHolds ==
    /\ Len(AdmittedRequests) <= budget.requests
    /\ Cardinality({i \in DOMAIN AdmittedRequests : AdmittedRequests[i].choice = "auto"}) <= budget.files
    /\ Cardinality({i \in DOMAIN AdmittedRequests : Repairs(AdmittedRequests[i].rounds) > 0}) <= budget.repairs

(***************************************************************************)
(* The two sides agree: as long as the revision is taken up by one session  *)
(* alone, admission refuses nothing that session sends, so a refusal never  *)
(* costs it an answer it had the budget for (NativeConversation,            *)
(* PlannerSession.complete against plannerRequestState).                    *)
(***************************************************************************)
SessionIsNeverRefused == stage = "refused" => sessions > 1

\* A revision never costs more than its allowance, and one session may spend all of it.
AllowanceIsExact == AllowanceHolds /\ SessionIsNeverRefused
=============================================================================
