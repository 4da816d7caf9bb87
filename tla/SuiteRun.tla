------------------------------- MODULE SuiteRun --------------------------------
(***************************************************************************)
(* One run of the initial suite (router-continuity/suite-run.ts,            *)
(* suite-observation.ts; the plan of a phase, initial-suite.mjs) over a     *)
(* prepared deployment (native-evaluation/deployment.ts).  The coordinator  *)
(* starts one worker container after the other and reaches the deployment   *)
(* only through its command-line program, which holds a lock file while it  *)
(* runs, closes the deployment when it fails, and is killed after fifteen   *)
(* seconds wherever it then is.  Docker and the storage may refuse at any   *)
(* time, and a signal may come at any time.                                 *)
(***************************************************************************)
EXTENDS Naturals, Sequences, FiniteSetsExt

CONSTANTS SendLimit, \* the scope's allowance
          MaxSends,  \* bound of the operations of one phase
          MaxFaults, \* bound of the kinds of interference in one run
          NoReport

VARIABLES suiteAt,         \* where runSuite is
          suitePhase,      \* the position of its phase
          suiteStopped,    \* stopped, set by a signal
          fencing,         \* what a signal ordered is on its way
          retainResources, \* retainResources
          suiteReport,     \* in memory
          suiteOutput,     \* what the output names: the [result, cleanup] last saved
          deployment,      \* record.phase
          commandLock,     \* RECORD.command.lock exists
          suiteGateway,    \* it and its relay: "serving", "drained" or "killed"
          transientLeft,   \* a transient container of a command that went wrong runs, or will
          phaseWorker,     \* phase -> its container
          scopeSpent,      \* operations of the scope
          inFlight,        \* the last of them has no outcome
          endedUnknown,    \* one of them ended unknown
          refused          \* Docker has refused to inspect or stop something that ran

reportVars == <<retainResources, suiteReport, suiteOutput>>
deploymentVars == <<deployment, commandLock, suiteGateway, transientLeft>>
scopeVars == <<scopeSpent, inFlight, endedUnknown>>
suiteVars == <<suiteAt, suitePhase, suiteStopped, fencing, reportVars, deploymentVars, phaseWorker,
               scopeVars, refused>>

SuitePhases == <<"worker", "planner", "continuity_a", "continuity_b">>
Positions == DOMAIN SuitePhases
Consumers(p) == IF p > 2 THEN "continuity" ELSE SuitePhases[p]
Ended == suiteAt = "ended"
Alive == {"starting", "running"}
Faults == Cardinality({fault \in {<<"stopped", suiteStopped>>, <<"retain", retainResources>>,
                                  <<"lock", commandLock>>, <<"refused", refused>>} : fault[2]})

---------------------------------------------------------------------------
(* deployment.ts: one command *)

PhasesFor(command) ==
    CASE command = "start" -> {"prepared"}
      [] command = "select" -> {"prepared", "started"}
      [] command \in {"grant", "evidence", "candidate", "transition"} -> {"started"}
      [] OTHER -> {"prepared", "started", "stopped", "closed_failure"}
PhaseAfterCommand(command) ==
    CASE command = "start" -> "started" [] command = "stop" -> "stopped" [] OTHER -> deployment
GatewayKilled == IF suiteGateway = "serving" THEN "killed" ELSE suiteGateway
AllowedOnceStopped(command) == suiteStopped => command \in {"inspect", "evidence", "stop"}

Command(command) ==
    /\ AllowedOnceStopped(command) /\ ~commandLock
    /\ deployment \in PhasesFor(command) /\ suiteGateway = "serving"
    /\ deployment' = PhaseAfterCommand(command)
    /\ suiteGateway' = IF command = "stop" THEN "drained" ELSE suiteGateway
    /\ UNCHANGED <<commandLock, transientLeft, refused>>

\* The gateway and its relay are killed, or Docker refuses one of them or something else.
KilledOrRefused ==
    \/ suiteGateway' = GatewayKilled /\ UNCHANGED refused
    \/ suiteGateway' \in {suiteGateway, GatewayKilled} /\ refused' = TRUE
\* Slip: it kills what the record names when it is read again, and that may fail.
DeploymentFencedAsRecorded ==
    /\ KilledOrRefused \/ UNCHANGED <<suiteGateway, refused>>
    /\ transientLeft' \in {transientLeft, FALSE}
\* What the prepared record names is killed, and what it names by now if it can be read
\* again; a transient container that is only being started is missed.
DeploymentFenced == KilledOrRefused /\ transientLeft' \in {transientLeft, FALSE}
\* A command that may not be given, finds the lock or cannot read its record has touched
\* nothing.  Any other that fails fences the deployment, but for a container that its docker
\* client was killed over; its record may keep the phase it had.
CommandFails(command) ==
    \/ UNCHANGED <<deploymentVars, refused>>
    \/ /\ AllowedOnceStopped(command) /\ ~commandLock
       /\ KilledOrRefused /\ transientLeft' \in BOOLEAN
       /\ deployment' \in {deployment, "closed_failure"}
       /\ UNCHANGED commandLock
\* Killed after fifteen seconds: its lock stays, with what it had done by then, and a start
\* its docker client had asked for may land at any later time.
CommandKilled(command) ==
    /\ AllowedOnceStopped(command) /\ ~commandLock
    /\ commandLock' = TRUE /\ transientLeft' \in {transientLeft, TRUE}
    /\ \/ deployment' \in {deployment, "closed_failure"} /\ suiteGateway' = GatewayKilled
       \/ UNCHANGED <<deployment, suiteGateway>>
       \/ /\ deployment \in PhasesFor(command) /\ suiteGateway = "serving"
          /\ deployment' \in {deployment, PhaseAfterCommand(command)}
          /\ suiteGateway' = IF command = "stop" THEN "drained" ELSE suiteGateway
    /\ UNCHANGED refused
CommandThrows(command) == CommandFails(command) \/ CommandKilled(command)

---------------------------------------------------------------------------
(* save() *)

Kept(r) == [result |-> r.result, cleanup |-> r.cleanup]
Saved == suiteOutput' = Kept(suiteReport') /\ UNCHANGED retainResources
\* Also when only the directory could not be synced after the rename.
SaveFails == retainResources' = TRUE /\ suiteOutput' \in {suiteOutput, Kept(suiteReport')}
Moves(place) == suiteAt' = place
Elsewhere == UNCHANGED <<suiteStopped, fencing, scopeVars>>

\* To the catch of runSuite: the report is failed, and saved if the storage allows.
Throw ==
    /\ Moves("stop")
    /\ suiteReport' = [suiteReport EXCEPT !.result = "failed"]
    /\ Saved \/ SaveFails

\* A step that is one command; what it returns matters only where it is named.
Step(place, command, next) ==
    /\ suiteAt = place
    /\ \/ Command(command) /\ Moves(next) /\ UNCHANGED reportVars
       \/ CommandThrows(command) /\ Throw
    /\ UNCHANGED <<suitePhase, phaseWorker>> /\ Elsewhere

(* Up to the scope *)
Inspect ==
    /\ suiteAt = "inspect"
    /\ \/ Command("inspect") /\ deployment = "prepared" /\ Moves("start") /\ UNCHANGED suiteReport /\ Saved
       \/ (Command("inspect") \/ CommandThrows("inspect")) /\ Throw
    /\ UNCHANGED <<suitePhase, phaseWorker>> /\ Elsewhere
Start ==
    /\ suiteAt = "start"
    /\ \/ Command("start") /\ ((Moves("current") /\ UNCHANGED suiteReport /\ Saved) \/ Throw)
       \/ CommandThrows("start") /\ Throw
    /\ UNCHANGED <<suitePhase, phaseWorker>> /\ Elsewhere

---------------------------------------------------------------------------
(* One phase *)

\* current(): the scope is the one that was started, and nothing of it is open.
CurrentScope == ~suiteStopped /\ ~inFlight /\ Command("inspect")
CurrentThrows ==
    \/ CommandThrows("inspect")
    \/ (suiteStopped \/ inFlight) /\ UNCHANGED <<deploymentVars, refused>>
SendsOf(p) == IF p <= 2 THEN 2 ELSE 1
RequiredSends == MapThenSumSet(SendsOf, suitePhase..Len(SuitePhases))
\* phasePlan, which may also find too little time left.
PhasePlan == scopeSpent + RequiredSends <= SendLimit
BeginPhase ==
    /\ suiteAt = "current"
    /\ \/ CurrentScope /\ PhasePlan /\ Moves("select") /\ UNCHANGED reportVars
       \/ (CurrentScope \/ CurrentThrows) /\ Throw
    /\ UNCHANGED <<suitePhase, phaseWorker>> /\ Elsewhere

\* attached(): the container is made, and its start ordered, without another look at
\* stopped.  A refused create leaves a name that is swept later, with or without a container.
CreateWorker ==
    /\ suiteAt = "create"
    /\ \/ /\ phaseWorker' = [phaseWorker EXCEPT ![suitePhase] = "starting"]
          /\ Moves("watch") /\ UNCHANGED suiteReport /\ Saved
       \/ \E state \in {"named", "created"} :
             phaseWorker' = [phaseWorker EXCEPT ![suitePhase] = state] /\ Throw
    /\ UNCHANGED <<suitePhase, deploymentVars, refused>> /\ Elsewhere
\* The start lands, wherever the coordinator then is, or fails.
AttachWorker ==
    /\ phaseWorker[suitePhase] = "starting"
    /\ \E state \in {"running", "created"} : phaseWorker' = [phaseWorker EXCEPT ![suitePhase] = state]
    /\ UNCHANGED <<suiteAt, suitePhase, reportVars, deploymentVars, refused>> /\ Elsewhere

\* What the evidence shows of the phase: receipts are written when an operation has ended.
Receipts == scopeSpent - suiteReport.spent - (IF inFlight THEN 1 ELSE 0)
\* The first observation in the container's logs, in time and not after a stop; and then
\* the evidence, which is saved.
Observe ==
    /\ suiteAt = "watch" /\ phaseWorker[suitePhase] \in {"running", "exited"} /\ ~suiteStopped
    /\ Moves("judge")
    /\ UNCHANGED <<suitePhase, reportVars, deploymentVars, phaseWorker, refused>> /\ Elsewhere
Judge ==
    /\ suiteAt = "judge"
    /\ \/ /\ Command("evidence")
          /\ suiteReport' = [suiteReport EXCEPT !.receipts = @ + Receipts, !.unknown = endedUnknown]
          /\ (Moves("acknowledge") /\ Saved) \/ (Moves("thrown") /\ SaveFails)
       \/ CommandThrows("evidence") /\ Moves("thrown") /\ UNCHANGED reportVars
    /\ UNCHANGED <<suitePhase, phaseWorker>> /\ Elsewhere
\* Candidate, acknowledgement and qualification; a continuity phase has the last only.
AcknowledgePhase ==
    /\ suiteAt = "acknowledge"
    /\ \/ /\ IF Consumers(suitePhase) = "continuity" THEN UNCHANGED <<deploymentVars, refused>>
             ELSE Command("candidate")
          /\ suiteReport' = [suiteReport EXCEPT !.qualified = @ \cup {suitePhase}]
          /\ (Moves("settle") /\ Saved) \/ (Moves("thrown") /\ SaveFails)
       \/ /\ Consumers(suitePhase) # "continuity" /\ CommandThrows("candidate")
          /\ Moves("thrown") /\ UNCHANGED reportVars
    /\ UNCHANGED <<suitePhase, phaseWorker>> /\ Elsewhere
\* Anything else that throws: a stop, a deadline, an exit without an observation, an
\* original that ended unknown, Docker, evidence that could not be had or does not qualify.
PhaseThrows ==
    /\ suiteAt \in {"watch", "judge", "acknowledge"}
    /\ UNCHANGED <<deploymentVars, refused>> \/ CommandThrows("evidence")
    /\ Moves("thrown")
    /\ UNCHANGED <<suitePhase, reportVars, phaseWorker>> /\ Elsewhere

\* The finally of attached: the container is stopped and its docker client has ended before
\* anything else is believed, unless Docker refuses to say how it is.  A phase that threw
\* may lack its evidence, and asks for it once more.
SettlePhase ==
    /\ suiteAt \in {"settle", "thrown"}
    /\ \/ /\ phaseWorker[suitePhase] # "starting"
          /\ phaseWorker' = [phaseWorker EXCEPT ![suitePhase] = IF @ = "running" THEN "exited" ELSE @]
          /\ retainResources' \in {retainResources, TRUE}
          /\ \/ /\ suiteAt = "settle" /\ Moves("after") /\ suiteOutput' = Kept(suiteReport)
                /\ UNCHANGED <<deploymentVars, refused>>
             \/ /\ Moves("failed") /\ suiteOutput' \in {suiteOutput, Kept(suiteReport)}
                /\ \/ UNCHANGED <<deploymentVars, refused>>
                   \/ suiteAt = "thrown" /\ CommandThrows("evidence")
       \/ /\ phaseWorker[suitePhase] \in Alive /\ refused' = TRUE /\ Moves("failed")
          /\ UNCHANGED <<phaseWorker, retainResources, suiteOutput, deploymentVars>>
    /\ UNCHANGED <<suitePhase, suiteReport>> /\ Elsewhere
Failed == suiteAt = "failed" /\ Throw /\ UNCHANGED <<suitePhase, phaseWorker, deploymentVars, refused>> /\ Elsewhere

AfterPhase ==
    /\ suiteAt = "after"
    /\ \/ /\ CurrentScope
          /\ suiteReport' = [suiteReport EXCEPT !.spent = scopeSpent]
          /\ \/ SuitePhases[suitePhase] = "continuity_a" /\ Moves("transition") /\ UNCHANGED suitePhase
             \/ /\ SuitePhases[suitePhase] # "continuity_a" /\ suitePhase < Len(SuitePhases)
                /\ Moves("current") /\ suitePhase' = suitePhase + 1
             \/ suitePhase = Len(SuitePhases) /\ Moves("join") /\ UNCHANGED suitePhase
          /\ UNCHANGED <<retainResources, suiteOutput>>
       \/ CurrentThrows /\ Throw /\ UNCHANGED suitePhase
    /\ UNCHANGED phaseWorker /\ Elsewhere
TransitionSuite ==
    /\ suiteAt = "transition"
    /\ \/ /\ Command("transition")
          /\ \/ /\ suiteReport' = [suiteReport EXCEPT !.transition = TRUE] /\ Saved
                /\ Moves("current") /\ suitePhase' = suitePhase + 1
             \/ Throw /\ UNCHANGED suitePhase
       \/ CommandThrows("transition") /\ Throw /\ UNCHANGED suitePhase
    /\ UNCHANGED phaseWorker /\ Elsewhere

---------------------------------------------------------------------------
(* The end *)

\* joinedPhysical: the receipts of the phases, each counted once, are all that the scope was debited for.
JoinedPhysical ==
    /\ suiteReport.qualified = Positions /\ ~suiteReport.unknown
    /\ suiteReport.spent = suiteReport.receipts
Join ==
    /\ suiteAt = "join"
    /\ \/ /\ JoinedPhysical /\ suiteReport.transition
          /\ suiteReport' = [suiteReport EXCEPT !.result = "passed"]
          /\ Moves("stop") /\ Saved
       \/ Throw
    /\ UNCHANGED <<suitePhase, deploymentVars, phaseWorker, refused>> /\ Elsewhere

StopDeployment ==
    /\ suiteAt = "stop"
    /\ \/ Command("stop") /\ Moves("sweep") /\ UNCHANGED suiteReport
       \/ CommandThrows("stop") /\ Moves("fence") /\ suiteReport' = [suiteReport EXCEPT !.result = "failed"]
    /\ UNCHANGED <<suitePhase, retainResources, suiteOutput, phaseWorker>> /\ Elsewhere
FenceDeployment ==
    /\ suiteAt = "fence" /\ DeploymentFenced /\ Moves("sweep")
    /\ UNCHANGED <<suitePhase, reportVars, deployment, commandLock, phaseWorker>> /\ Elsewhere

\* Every worker that was named is stopped and, unless resources are retained, removed;
\* Docker refuses some, also one there is no container of.
SweepWorkers ==
    /\ suiteAt = "sweep"
    /\ \E kept \in SUBSET {p \in Positions : phaseWorker[p] # "none"} :
        LET left == {p \in Positions : phaseWorker[p] # "none" /\ (retainResources \/ p \in kept)}
            clean == left = {}
        IN /\ \A p \in Positions : phaseWorker[p] = "named" => p \in kept
           /\ phaseWorker' = [p \in Positions |->
                IF phaseWorker[p] = "none" \/ p \in kept THEN phaseWorker[p]
                ELSE IF ~retainResources THEN "removed"
                ELSE IF phaseWorker[p] = "running" THEN "exited" ELSE phaseWorker[p]]
           /\ refused' = (refused \/ \E p \in kept : phaseWorker[p] \in Alive)
           /\ suiteReport' = [suiteReport EXCEPT !.cleanup = clean, !.result = IF clean THEN @ ELSE "failed"]
    /\ Saved \/ SaveFails
    /\ Moves("ended")
    /\ UNCHANGED <<suitePhase, deploymentVars>> /\ Elsewhere

---------------------------------------------------------------------------
(* The others *)

SuiteSignal ==
    /\ ~Ended /\ ~suiteStopped
    /\ suiteStopped' = TRUE /\ fencing' = TRUE
    /\ UNCHANGED <<suiteAt, suitePhase, reportVars, deploymentVars, phaseWorker, scopeVars, refused>>
\* What onStop ordered: the workers of then are stopped, and the deployment is fenced.
SuiteSignalArrives ==
    /\ fencing /\ fencing' = FALSE /\ DeploymentFenced
    /\ \/ phaseWorker' = [p \in Positions |-> IF phaseWorker[p] = "running" THEN "exited" ELSE phaseWorker[p]]
       \/ UNCHANGED phaseWorker
    /\ UNCHANGED <<suiteAt, suitePhase, suiteStopped, reportVars, deployment, commandLock, scopeVars>>
WorkerSends ==
    /\ phaseWorker[suitePhase] = "running" /\ suiteGateway = "serving" /\ ~inFlight
    /\ scopeSpent < SendLimit /\ scopeSpent - suiteReport.spent < MaxSends
    /\ scopeSpent' = scopeSpent + 1 /\ inFlight' = TRUE
    /\ UNCHANGED <<suiteAt, suitePhase, suiteStopped, fencing, reportVars, deploymentVars,
                   phaseWorker, endedUnknown, refused>>
SendEnds ==
    /\ inFlight /\ inFlight' = FALSE
    /\ endedUnknown' \in {endedUnknown, TRUE}
    /\ UNCHANGED <<suiteAt, suitePhase, suiteStopped, fencing, reportVars, deploymentVars,
                   phaseWorker, scopeSpent, refused>>
\* By itself, or at its session's deadline.
WorkerExits ==
    /\ phaseWorker[suitePhase] = "running"
    /\ phaseWorker' = [phaseWorker EXCEPT ![suitePhase] = "exited"]
    /\ UNCHANGED <<suiteAt, suitePhase, suiteStopped, fencing, reportVars, deploymentVars, scopeVars, refused>>

SuiteInit ==
    /\ suiteAt = "inspect" /\ suitePhase = 1 /\ suiteStopped = FALSE /\ fencing = FALSE /\ retainResources = FALSE
    /\ suiteReport = [result |-> "failed", receipts |-> 0, unknown |-> FALSE,
                 qualified |-> {}, transition |-> FALSE, spent |-> 0, cleanup |-> FALSE]
    /\ suiteOutput = NoReport
    /\ deployment = "prepared" /\ commandLock = FALSE /\ suiteGateway = "serving" /\ transientLeft = FALSE
    /\ phaseWorker = [p \in Positions |-> "none"]
    /\ scopeSpent = 0 /\ inFlight = FALSE /\ endedUnknown = FALSE /\ refused = FALSE

SuiteNext ==
    /\ \/ Inspect \/ Start \/ BeginPhase
       \/ Step("select", "select", "grant") \/ Step("grant", "grant", "create")
       \/ CreateWorker \/ AttachWorker \/ Observe \/ Judge \/ AcknowledgePhase \/ PhaseThrows
       \/ SettlePhase \/ Failed \/ AfterPhase \/ TransitionSuite
       \/ Join \/ StopDeployment \/ FenceDeployment \/ SweepWorkers
       \/ SuiteSignal \/ SuiteSignalArrives \/ WorkerSends \/ SendEnds \/ WorkerExits
    /\ Faults' <= MaxFaults

---------------------------------------------------------------------------
(***************************************************************************)
(* Whatever signals, kills, refusals and failing writes come in between: an *)
(* output that says passed and cleaned up is of four qualified phases, one  *)
(* after the other, with the transition in their middle, whose evidence is  *)
(* all that the scope was ever debited for, with no operation of unknown    *)
(* end; the deployment was stopped in order and neither a worker nor a      *)
(* transient container is left.  A phase is not begun before those before   *)
(* it qualified and their workers are gone.  And when the run is over,      *)
(* however it ended, the gateway does not serve and no worker runs or is    *)
(* being started, unless Docker refused (runSuite's catch and finally,      *)
(* fence, run's catch in deployment).  Of a transient container a failed    *)
(* run promises no such thing: fence() may not read the record again, or    *)
(* come before a start that its command no longer waits for.                *)
(***************************************************************************)
SuiteTellsTheTruth ==
    /\ suiteOutput # NoReport /\ suiteOutput.result = "passed" /\ suiteOutput.cleanup =>
        /\ suiteReport.qualified = Positions /\ suiteReport.transition
        /\ suiteReport.receipts = scopeSpent /\ ~endedUnknown /\ ~inFlight
        /\ \A p \in Positions : phaseWorker[p] = "removed"
        /\ deployment = "stopped" /\ suiteGateway = "drained" /\ ~transientLeft
    /\ \A p, q \in Positions :
        phaseWorker[q] # "none" /\ p < q => p \in suiteReport.qualified /\ phaseWorker[p] \notin Alive
    /\ Ended /\ ~refused => suiteGateway # "serving" /\ \A p \in Positions : phaseWorker[p] \notin Alive
=============================================================================
