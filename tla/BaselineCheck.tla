----------------------------- MODULE BaselineCheck -----------------------------
(***************************************************************************)
(* One registered check of a snapshot: experiments/baseline/checks/index.ts *)
(* around the containers of checks/container.ts.  A check runs two, a probe *)
(* that measures the runtime and the check itself, each created, inspected, *)
(* started, asked for its state and removed by CLI processes that are       *)
(* killed at the deadline or when the caller aborts; the daemon may go on   *)
(* with what a killed one asked for.                                        *)
(***************************************************************************)
EXTENDS Naturals

CONSTANTS Unset         \* no exit code was read
ASSUME CheckAssumption == Unset \notin {"zero", "nonzero"}

VARIABLES checking,      \* where execute stands: "admitting", "probe", "measured",
                         \* "check", "leaving", "observing", "returned" or "threw"
          phase,         \* where runContainer stands, for the container it runs
          id,            \* it has the identifier create answered
          reason,        \* its result.reason is set
          exitCode,      \* its result.exitCode, or Unset
          daemon,        \* what the daemon has: "none", "late", "created", "running", "gone"
                         \* or the exit code, per container
          expired,       \* the deadline passed or the signal aborted
          status,        \* of the check, with its cleanup
          cleanup

checkVars == <<checking, phase, id, reason, exitCode, daemon, expired, status, cleanup>>

Containers == {"probe", "check"}
ExitCodes == {"zero", "nonzero"}
Statuses == {"not-run", "unknown", "passed", "failed"}

CheckInit ==
    /\ checking = "admitting" /\ phase = "idle"
    /\ id = FALSE /\ reason = FALSE /\ exitCode = Unset
    /\ daemon = [c \in Containers |-> "none"] /\ expired = FALSE
    /\ status = "not-run" /\ cleanup = TRUE

InContainer(p) == checking \in Containers /\ phase = p
Daemon(value) == daemon' = [daemon EXCEPT ![checking] = value]

\* A refused job, or one whose inputs do not match the registration, runs nothing; the
\* last look at the deadline and the signal is before the probe.
Refuse ==
    /\ checking = "admitting" /\ checking' = "observing"
    /\ UNCHANGED <<phase, id, reason, exitCode, daemon, expired, status, cleanup>>
Begin(c) ==
    /\ checking = (IF c = "probe" THEN "admitting" ELSE "measured")
    /\ checking' = c /\ id' = FALSE /\ exitCode' = Unset
    /\ reason' = expired /\ phase' = IF expired THEN "ended" ELSE "create"
    /\ cleanup' = TRUE
    /\ UNCHANGED <<daemon, expired, status>>

\* docker create: an identifier, a refusal, or a CLI killed with the daemon at work.
CreateContainer ==
    /\ InContainer("create")
    /\ \/ ~expired /\ id' = TRUE /\ Daemon("created") /\ phase' = "start" /\ UNCHANGED reason
       \/ reason' = TRUE /\ phase' = "remove" /\ UNCHANGED <<id, daemon>>
       \/ expired /\ reason' = TRUE /\ phase' = "remove" /\ Daemon("late") /\ UNCHANGED id
    /\ UNCHANGED <<checking, exitCode, expired, status, cleanup>>

\* The inspected settings differ, or start fails or is killed: by the deadline, the
\* signal or the output limit, with the container still running.
StartContainer ==
    /\ InContainer("start")
    /\ \/ reason' = TRUE /\ phase' = "remove" /\ UNCHANGED daemon
       \/ reason' = TRUE /\ phase' = "state" /\ Daemon("running")
       \/ \E code \in ExitCodes :
            /\ ~expired /\ Daemon(code) /\ phase' = "state" /\ UNCHANGED reason
    /\ UNCHANGED <<checking, id, exitCode, expired, status, cleanup>>

\* The state is read back: an exit code counts only from a container that exited.
ReadState ==
    /\ InContainer("state") /\ phase' = "remove"
    /\ \/ daemon[checking] \in ExitCodes /\ exitCode' = daemon[checking] /\ UNCHANGED reason
       \/ reason' = TRUE /\ UNCHANGED exitCode
    /\ UNCHANGED <<checking, id, daemon, expired, status, cleanup>>

AbsenceIsCleanup(removed) == removed                                           \* slip
\* Only an acknowledged identifier allows removal to establish cleanup: a create that was
\* interrupted may finish after the daemon was asked and knew of nothing.
CleanupEstablished(removed) == id /\ removed

RemoveContainer(removed) ==
    /\ InContainer("remove") /\ phase' = "ended"
    /\ \/ daemon[checking] \notin {"none", "late"} /\ Daemon("gone")
       \/ (removed => daemon[checking] \in {"none", "late"}) /\ UNCHANGED daemon
    /\ cleanup' = CleanupEstablished(removed)
    /\ reason' = (reason \/ ~cleanup')
    /\ UNCHANGED <<checking, id, exitCode, expired, status>>

\* measureRuntime: its evidence is retained before anybody is told, and a probe that
\* failed ends the check as not run, or unknown when its container may be left.
Measured(retained) ==
    /\ checking = "probe" /\ phase = "ended" /\ phase' = "idle"
    /\ IF ~retained THEN checking' = "threw" /\ UNCHANGED status
       ELSE \/ /\ ~reason /\ exitCode = "zero"
               /\ checking' = "measured" /\ UNCHANGED status
            \/ /\ checking' = "leaving"
               /\ status' = IF cleanup THEN "not-run" ELSE "unknown"
    /\ UNCHANGED <<id, reason, exitCode, daemon, expired, cleanup>>
\* The deadline or the signal after the measurement, or the staging of the inputs fails.
Unstaged ==
    /\ checking = "measured" /\ checking' = "leaving"
    /\ UNCHANGED <<phase, id, reason, exitCode, daemon, expired, status, cleanup>>

StatusOf ==
    IF reason \/ ~cleanup \/ exitCode = Unset THEN "unknown"
    ELSE IF exitCode = "zero" THEN "passed" ELSE "failed"
Checked ==
    /\ checking = "check" /\ phase = "ended" /\ phase' = "idle"
    /\ checking' = "leaving" /\ status' = StatusOf
    /\ UNCHANGED <<id, reason, exitCode, daemon, expired, cleanup>>

\* The staging directory is removed, or its removal is unconfirmed.
RemoveStaging(removed) ==
    /\ checking = "leaving" /\ checking' = "observing"
    /\ status' = IF removed THEN status ELSE "unknown"
    /\ cleanup' = (cleanup /\ removed)
    /\ UNCHANGED <<phase, id, reason, exitCode, daemon, expired>>
RetainObservation(retained) ==
    /\ checking = "observing" /\ checking' = IF retained THEN "returned" ELSE "threw"
    /\ UNCHANGED <<phase, id, reason, exitCode, daemon, expired, status, cleanup>>

Expire ==
    /\ ~expired /\ expired' = TRUE
    /\ UNCHANGED <<checking, phase, id, reason, exitCode, daemon, status, cleanup>>
\* The daemon goes on: a creation lands, or never; what runs ends by itself.
DaemonActs(c) ==
    /\ \/ daemon[c] = "late" /\ daemon' \in {[daemon EXCEPT ![c] = v] : v \in {"none", "created"}}
       \/ daemon[c] = "running" /\ daemon' \in {[daemon EXCEPT ![c] = v] : v \in ExitCodes}
    /\ UNCHANGED <<checking, phase, id, reason, exitCode, expired, status, cleanup>>

CheckNext ==
    \/ Refuse \/ CreateContainer \/ StartContainer \/ ReadState \/ Unstaged \/ Checked \/ Expire
    \/ \E c \in Containers : Begin(c) \/ DaemonActs(c)
    \/ \E ok \in BOOLEAN :
        RemoveContainer(ok) \/ Measured(ok) \/ RemoveStaging(ok) \/ RetainObservation(ok)

(***************************************************************************)
(* The observation a check returns is true and stays true.  With cleanup,   *)
(* no container of it is there or may still appear; passed and failed are   *)
(* what the check itself exited with; and a check that is not run left no   *)
(* trace of one (runContainer's finally block, execute's status).           *)
(***************************************************************************)
CheckTellsTheTruth ==
    checking = "returned" =>
        /\ cleanup => \A c \in Containers : daemon[c] \in {"none", "gone"}
        /\ status \in {"passed", "failed"} => cleanup /\ daemon["check"] = "gone"
        /\ status = "not-run" => daemon["check"] = "none"
=============================================================================
