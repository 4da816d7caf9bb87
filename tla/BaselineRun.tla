------------------------------ MODULE BaselineRun ------------------------------
(***************************************************************************)
(* runCase of experiments/baseline/run-case.ts, with the reader of what it  *)
(* leaves, validateRetainedRun of retained.ts.  A stage is what runCase     *)
(* does between two points where a signal it has received stops it; inside  *)
(* a stage it awaits, so a signal, a failure, a container creation nobody   *)
(* answers for or the end of the process may fall there.  The records of a  *)
(* stage are retained as EvidenceRecords says; a journal is a copy of the   *)
(* report as saved, and is never changed afterwards.  Its checks are those  *)
(* of BaselineCheck, which keep their own state, as does a ProofRun.        *)
(***************************************************************************)
EXTENDS ProofRun, BaselineCheck

VARIABLES caseStage,         \* the stage under way, "catch", "finally", "saving", "saved",
                         \* "resaving", or "over"
          entered,       \* the stage's first await has begun
          signal,        \* SIGINT or SIGTERM came
          containers,    \* the names the finally block removes
          running,       \* the run's containers the daemon has
          unanswered,    \* creations that may still happen
          repository,    \* the repository volume: "none", "there" or "destroyed"
          report,        \* the report in memory
          journals,      \* the reports that were saved
          outcome,       \* what the caller of runCase hears: "none", "passed", "failed", "threw"
          storage        \* no save of the finally block failed

baselineVars == <<caseStage, entered, signal, containers, running, unanswered, repository,
                  report, journals, outcome, storage>>

Stages == <<"gateway", "scope", "base", "worker", "observe", "candidate", "evidence",
            "acknowledge", "stop", "export", "remove">>
After(s) == LET i == CHOOSE j \in DOMAIN Stages : Stages[j] = s
            IN  IF i = Len(Stages) THEN "finally" ELSE Stages[i + 1]

\* The records each stage retains and the report refers to.
Records(s) ==
    CASE s = "scope" -> {"registration", "packet"}
      [] s = "worker" -> {"invocation"}
      [] s = "observe" -> {"observation", "candidate"}
      [] s = "candidate" -> {"checks"}
      [] s = "evidence" -> {"routerEvidence", "verificationInput", "transcript"}
      [] s = "acknowledge" -> {"acknowledgement"}
      [] s = "export" -> {"dataset", "export"}
      [] OTHER -> {}
Required(validation) ==
    (UNION {Records(s) : s \in {"scope", "worker", "observe", "candidate", "evidence"}})
    \cup (IF validation = "before-ack" THEN {} ELSE Records("acknowledge"))
    \cup (IF validation = "replay" THEN Records("export") ELSE {})

\* The container a stage creates, if any; a control container is gone with its stage.
Creates(s) ==
    CASE s = "gateway" -> {"control", "gateway"} [] s = "worker" -> {"control", "worker"}
      [] s \in {"scope", "evidence", "stop"} -> {"control"} [] OTHER -> {}

---------------------------------------------------------------------------
(* validateRetainedRun *)

\* Replay refuses a passed journal that the run itself superseded.
Replays(j) ==
    /\ Required("replay") \subseteq j.refs
    /\ j.result = "passed" =>
        /\ j.cleanup /\ j.destroyed /\ ~j.error
        /\ \A t \in journals : t.terminal => t.result = "passed" /\ ~t.error

---------------------------------------------------------------------------

BaselineInit ==
    /\ caseStage = "gateway" /\ entered = FALSE /\ signal = FALSE
    /\ containers = {} /\ running = {} /\ unanswered = {} /\ repository = "none"
    /\ report = [result |-> "failed", error |-> FALSE, terminal |-> FALSE,
                 cleanup |-> FALSE, destroyed |-> FALSE, refs |-> {}]
    /\ journals = {} /\ outcome = "none" /\ storage = TRUE

InStage == caseStage \in {Stages[i] : i \in DOMAIN Stages}

\* active(): a stage is entered, and left, only when no signal has come.
Enter ==
    /\ InStage /\ ~entered /\ ~signal
    /\ entered' = TRUE
    /\ containers' = containers \cup Creates(caseStage)
    /\ UNCHANGED <<caseStage, signal, running, unanswered, repository, report, journals,
                   outcome, storage>>

\* What a stage ends with: its records, its containers, its requirements on what is
\* retained (validateRetainedRun before the acknowledgement and before the removal).
Retained == [report EXCEPT !.refs = @ \cup Records(caseStage)]
Saves == caseStage \in {"scope", "export"}
CompleteStage ==
    /\ InStage /\ entered /\ ~signal
    /\ caseStage = "acknowledge" => Required("before-ack") \subseteq report.refs
    /\ caseStage = "remove" => Required("replay") \subseteq report.refs
    /\ running' = IF caseStage = "stop" THEN {} ELSE running \cup (Creates(caseStage) \ {"control"})
    /\ containers' = IF caseStage = "stop" THEN {} ELSE containers \ {"control"}
    /\ repository' = CASE caseStage = "gateway" -> "there" [] caseStage = "remove" -> "destroyed"
                       [] OTHER -> repository
    /\ report' = IF caseStage = "remove"
                 THEN [Retained EXCEPT !.destroyed = TRUE, !.result = "passed"] ELSE Retained
    /\ journals' = journals \cup IF Saves THEN {report'} ELSE {}
    /\ entered' = FALSE /\ caseStage' = After(caseStage)
    /\ UNCHANGED <<signal, unanswered, outcome, storage>>

\* A refused command, an assertion, an I/O error, or a signal noticed: some of what the
\* stage does is done, and some of what it asked the daemon for may still come.
FailStage ==
    /\ InStage /\ (entered \/ signal)
    /\ caseStage' = "catch" /\ entered' = FALSE
    /\ LET asked == IF entered THEN Creates(caseStage) ELSE {}
           brief == IF caseStage = "stop" THEN {"control", "worker", "gateway"} ELSE {"control"}
       IN  \E made \in SUBSET asked, gone \in SUBSET brief :
            /\ gone \subseteq (IF entered THEN running \cup made ELSE {})
            /\ running' = (running \cup made) \ gone
            /\ containers' = containers \ gone
            /\ unanswered' \in SUBSET (asked \ made)
    /\ repository' \in IF entered /\ caseStage = "gateway" THEN {"none", "there"}
                       ELSE IF entered /\ caseStage = "remove" THEN {"there", "destroyed"}
                       ELSE {repository}
    /\ report' \in {report} \cup IF entered THEN {Retained} ELSE {}
    /\ journals' \in {journals} \cup IF entered /\ Saves THEN {journals \cup {report'}} ELSE {}
    /\ UNCHANGED <<signal, outcome, storage>>

\* The catch block keeps the report as it is, if it can.
Catch ==
    /\ caseStage = "catch" /\ caseStage' = "finally"
    /\ report' = [report EXCEPT !.error = TRUE]
    /\ journals' \in {journals, journals \cup {report'}}
    /\ UNCHANGED <<entered, signal, containers, running, unanswered, repository, outcome, storage>>

ResultOf(clean) ==
    IF report.result = "passed" /\ clean /\ ~signal THEN "passed" ELSE "failed"

\* Promise.allSettled over the tracked names: one that is not there cannot be removed as
\* owned.  Then the terminal report.
Settle(clean) ==
    /\ caseStage = "finally" /\ caseStage' = "saving"
    /\ clean => containers \subseteq running
    /\ running' \in IF clean THEN {running \ containers}
                    ELSE {running \ gone : gone \in SUBSET containers}
    /\ ~clean => containers # {}
    /\ containers' = IF clean THEN {} ELSE containers
    /\ report' = [report EXCEPT !.terminal = TRUE, !.cleanup = clean,
                                !.result = ResultOf(clean), !.error = @ \/ signal]
    /\ UNCHANGED <<entered, signal, unanswered, repository, journals, outcome, storage>>

\* save: the journal and then the file that points to it.
Save(kept, pointed) ==
    /\ caseStage \in {"saving", "resaving"}
    /\ pointed => kept
    /\ journals' = IF kept THEN journals \cup {report} ELSE journals
    /\ storage' = (storage /\ pointed)
    /\ caseStage' = IF pointed THEN IF caseStage = "saving" THEN "saved" ELSE "over" ELSE "over"
    /\ outcome' = IF ~pointed \/ caseStage = "resaving" THEN "threw" ELSE outcome
    /\ UNCHANGED <<entered, signal, containers, running, unanswered, repository, report>>

EndNow ==                                                                      \* slip
    /\ caseStage = "saved" /\ caseStage' = "over"
    /\ outcome' = IF signal \/ report.error THEN "threw" ELSE report.result
    /\ UNCHANGED <<entered, signal, containers, running, unanswered, repository, report,
                   journals, storage>>
\* A signal that came during the last save: the run says so in a journal of its own.
End ==
    /\ caseStage = "saved"
    /\ IF signal /\ report.result = "passed"
       THEN /\ caseStage' = "resaving" /\ UNCHANGED outcome
            /\ report' = [report EXCEPT !.result = "failed", !.error = TRUE]
       ELSE /\ caseStage' = "over" /\ UNCHANGED report
            /\ outcome' = IF signal \/ report.error THEN "threw" ELSE report.result
    /\ UNCHANGED <<entered, signal, containers, running, unanswered, repository, journals, storage>>

OnStop ==
    /\ caseStage # "over" /\ ~signal /\ signal' = TRUE
    /\ UNCHANGED <<caseStage, entered, containers, running, unanswered, repository, report,
                   journals, outcome, storage>>
KillRun ==
    /\ caseStage # "over" /\ caseStage' = "over"
    /\ UNCHANGED <<entered, signal, containers, running, unanswered, repository, report,
                   journals, outcome, storage>>
LandContainer(name) ==
    /\ name \in unanswered /\ unanswered' = unanswered \ {name}
    /\ running' \in {running, running \cup {name}}
    /\ UNCHANGED <<caseStage, entered, signal, containers, repository, report, journals,
                   outcome, storage>>

BaselineNext ==
    \/ Enter \/ CompleteStage \/ FailStage \/ Catch \/ End \/ OnStop \/ KillRun
    \/ \E clean \in BOOLEAN : Settle(clean)
    \/ \E kept, pointed \in BOOLEAN : Save(kept, pointed)
    \/ \E name \in {"gateway", "control", "worker"} : LandContainer(name)

Replayable == \E j \in journals : j.result = "passed" /\ Replays(j)

(***************************************************************************)
(* What a reader accepts is what happened.  A passed journal replays only   *)
(* of a run that left no container, had its acknowledgement and dataset     *)
(* retained and then destroyed its repository; a run that ends by itself    *)
(* and could save its end replays as passed exactly when it told its caller *)
(* so, even when a signal came during the last save; and the repository is  *)
(* never destroyed before everything that replaces it is retained and       *)
(* nothing can write to it any more.                                        *)
(***************************************************************************)
ReplayTellsWhatHappened ==
    /\ Replayable => running = {} /\ unanswered = {} /\ repository = "destroyed"
    /\ outcome # "none" /\ storage => (Replayable <=> outcome = "passed")
    /\ repository = "destroyed" =>
        Required("replay") \subseteq report.refs /\ "worker" \notin running

\* What the records of a run say of it was so: that everything it made is gone, that a
\* check passed, that a replay shows the run (isolation/run.ts, checks/, run-case.ts).
RunRecordsAreTrue == RecordedCleanupIsTrue /\ CheckTellsTheTruth /\ ReplayTellsWhatHappened
=============================================================================
