--------------------------- MODULE EvaluationControl ---------------------------
(***************************************************************************)
(* The control socket of the evaluation gateway (experiments/               *)
(* native-evaluation/gateway.mjs with its deployment owner) and the one     *)
(* continuity transition it may make (experiments/router-continuity/        *)
(* control.mjs): between two attempts the connection that served the first  *)
(* is marked unavailable.  A step ends at the next await; a command may     *)
(* arrive, a request be admitted, the scope end or the gateway die there.   *)
(* What the gate and the router do with a request is RouterAuthority's and  *)
(* PolicyGate's; here it is admitted, reserved, and succeeds or not.        *)
(***************************************************************************)
EXTENDS Naturals, FiniteSets

CONSTANTS Attempts,      \* the attempts of the evaluation, the two of the pair among them
          First, Second,
          Primary        \* the first of the profiles, which a boot selects

VARIABLES gateway,       \* "down", "up" or "stopping"
          owned,         \* deployment-owner.lock is there
          accepting,     \* the boundary takes requests
          scope,         \* "none", "active" or "closed"
          selected,      \* the policy's profile: "continuity" or "other"
          selecting,     \* gateway.mjs: a selection, or "no"
          busy,          \* control.mjs
          failed,
          completed,
          transitionAt,  \* the await transition() stands at, or "idle"
          admitted,      \* per attempt: "none", "admitting", "reserved", "succeeded", "failed"
          intent,        \* the intent record is on disk
          resultRecord,  \* the result record is on disk
          marks          \* how often the connection was marked unavailable

controlVars == <<gateway, owned, accepting, scope, selected, selecting, busy, failed, completed,
                 transitionAt, admitted, intent, resultRecord, marks>>

ControlInit ==
    /\ gateway = "down" /\ owned = FALSE /\ accepting = FALSE /\ scope = "none"
    /\ selected = Primary /\ selecting = "no"
    /\ busy = FALSE /\ failed = FALSE /\ completed = FALSE /\ transitionAt = "idle"
    /\ admitted = [a \in Attempts |-> "none"]
    /\ intent = FALSE /\ resultRecord = FALSE /\ marks = 0

RequestsIn(state) == {a \in Attempts : admitted[a] = state}
\* The socket answers until the gateway ends; stop() does not refuse other commands.
Listening == gateway # "down" /\ selecting = "no"

AdmissionUnlessFailed == ~failed                                               \* slip
AdmissionAllowed == ~busy /\ ~failed

\* current(): the profile, the scope, nothing under way, and a first attempt that
\* succeeded with a second that has not begun.
Current ==
    /\ selected = "continuity" /\ scope = "active"
    /\ RequestsIn("admitting") = {} /\ RequestsIn("reserved") = {}
    /\ admitted[First] = "succeeded" /\ admitted[Second] = "none"

---------------------------------------------------------------------------
(* The process *)

\* The owner's lock is exclusive; a scope whose clock died is closed, requests are
\* settled by their receipts or kept, and a recorded intent fences the control.
Recovered == intent
BootGateway ==
    /\ gateway = "down" /\ ~owned
    /\ gateway' = "up" /\ owned' = TRUE /\ accepting' = TRUE
    /\ scope' = IF scope = "active" THEN "closed" ELSE scope
    /\ selected' = Primary /\ selecting' = "no"
    /\ busy' = FALSE /\ failed' = Recovered /\ completed' = FALSE /\ transitionAt' = "idle"
    /\ \E known \in [RequestsIn("admitting") \cup RequestsIn("reserved") -> {"none", "reserved", "succeeded", "failed"}] :
        /\ \A a \in DOMAIN known : IF admitted[a] = "admitting" THEN known[a] # "succeeded"
                                    ELSE known[a] # "none"
        /\ admitted' = [a \in Attempts |-> IF a \in DOMAIN known THEN known[a] ELSE admitted[a]]
    /\ UNCHANGED <<intent, resultRecord, marks>>

GoneDown ==
    /\ gateway' = "down" /\ accepting' = FALSE /\ transitionAt' = "idle"
    /\ UNCHANGED <<scope, selected, selecting, busy, failed, completed, admitted, intent,
                   resultRecord, marks>>
ControlDies == gateway # "down" /\ GoneDown /\ UNCHANGED owned

\* stop(): the boundary closes first, and waits for its handlers; the owner is released
\* only when nothing is left unknown.
StopGateway ==
    /\ gateway = "up" /\ gateway' = "stopping" /\ accepting' = FALSE
    /\ UNCHANGED <<owned, scope, selected, selecting, busy, failed, completed, transitionAt,
                   admitted, intent, resultRecord, marks>>
StopEnds ==
    /\ gateway = "stopping" /\ (accepting \/ RequestsIn("admitting") = {})
    /\ owned' = (RequestsIn("reserved") # {})
    /\ GoneDown
\* The operator, over the record of a dead process.
RemoveOwner ==
    /\ gateway = "down" /\ owned /\ owned' = FALSE
    /\ UNCHANGED <<gateway, accepting, scope, selected, selecting, busy, failed, completed, transitionAt,
                   admitted, intent, resultRecord, marks>>

---------------------------------------------------------------------------
(* Commands of the control socket *)

StartEvaluation ==
    /\ Listening /\ AdmissionAllowed
    /\ scope = "none" /\ RequestsIn("reserved") = {}
    /\ scope' = "active"
    /\ UNCHANGED <<gateway, owned, accepting, selected, selecting, busy, failed, completed, transitionAt,
                   admitted, intent, resultRecord, marks>>

\* select: quiescent, then the boundary closes, the profile changes if the router is still
\* quiet, and a new gate and boundary open; whatever fails on the way stops the gateway.
Select(profile) ==
    /\ Listening /\ AdmissionAllowed /\ RequestsIn("reserved") = {}
    /\ selecting' = profile /\ accepting' = FALSE
    /\ UNCHANGED <<gateway, owned, scope, selected, busy, failed, completed, transitionAt,
                   admitted, intent, resultRecord, marks>>
Selected ==
    /\ gateway # "down" /\ selecting # "no" /\ RequestsIn("admitting") = {} /\ RequestsIn("reserved") = {}
    /\ selected' = selecting /\ selecting' = "no" /\ accepting' = TRUE
    /\ UNCHANGED <<gateway, owned, scope, busy, failed, completed, transitionAt, admitted,
                   intent, resultRecord, marks>>
SelectFails ==
    /\ gateway # "down" /\ selecting # "no"
    /\ gateway' = "stopping"
    /\ UNCHANGED <<owned, accepting, scope, selected, selecting, busy, failed, completed, transitionAt,
                   admitted, intent, resultRecord, marks>>

\* A granted token's request comes to the wrapped admit.
Admit(a) ==
    /\ gateway # "down" /\ accepting /\ scope # "none" /\ admitted[a] = "none"
    /\ AdmissionAllowed
    /\ admitted' = [admitted EXCEPT ![a] = "admitting"]
    /\ UNCHANGED <<gateway, owned, accepting, scope, selected, selecting, busy, failed, completed,
                   transitionAt, intent, resultRecord, marks>>
Admitted(a, state) ==
    /\ gateway # "down" /\ admitted[a] = "admitting" /\ state \in {"none", "reserved"}
    /\ admitted' = [admitted EXCEPT ![a] = state]
    /\ UNCHANGED <<gateway, owned, accepting, scope, selected, selecting, busy, failed, completed,
                   transitionAt, intent, resultRecord, marks>>
Decided(a, state) ==
    /\ gateway # "down" /\ admitted[a] = "reserved" /\ state \in {"succeeded", "failed"}
    /\ admitted' = [admitted EXCEPT ![a] = state]
    /\ UNCHANGED <<gateway, owned, accepting, scope, selected, selecting, busy, failed, completed,
                   transitionAt, intent, resultRecord, marks>>
Deadline ==
    /\ scope = "active" /\ scope' = "closed"
    /\ UNCHANGED <<gateway, owned, accepting, selected, selecting, busy, failed, completed, transitionAt,
                   admitted, intent, resultRecord, marks>>

---------------------------------------------------------------------------
(* The transition *)

\* A completed one is answered again and does nothing.
Transition ==
    /\ Listening /\ AdmissionAllowed /\ ~completed /\ Current
    /\ busy' = TRUE /\ transitionAt' = "health"
    /\ UNCHANGED <<gateway, owned, accepting, scope, selected, selecting, failed, completed, admitted,
                   intent, resultRecord, marks>>

\* The connection is active and not yet locked; then the intent is recorded.
Intend ==
    /\ gateway # "down" /\ transitionAt = "health" /\ Current /\ marks = 0
    /\ intent' = TRUE /\ transitionAt' = "marking"
    /\ UNCHANGED <<gateway, owned, accepting, scope, selected, selecting, busy, failed, completed,
                   admitted, resultRecord, marks>>
MarkUnavailable ==
    /\ gateway # "down" /\ transitionAt = "marking"
    /\ marks' = marks + 1 /\ transitionAt' = "marked"
    /\ UNCHANGED <<gateway, owned, accepting, scope, selected, selecting, busy, failed, completed,
                   admitted, intent, resultRecord>>
\* The lock is read back, nothing else has changed, and the result is recorded.
ConcludeTransition ==
    /\ gateway # "down" /\ transitionAt = "marked" /\ Current
    /\ resultRecord' = TRUE /\ completed' = TRUE
    /\ busy' = FALSE /\ transitionAt' = "idle"
    /\ UNCHANGED <<gateway, owned, accepting, scope, selected, selecting, failed, admitted, intent, marks>>

\* A check, a record or a call fails, with whatever it may have done; once the intent was
\* begun the control stays fenced and the gateway stops.
FailTransition ==
    /\ gateway # "down" /\ transitionAt # "idle"
    /\ busy' = FALSE /\ transitionAt' = "idle"
    /\ \E begun \in BOOLEAN :
        /\ transitionAt # "health" => begun
        /\ failed' = (failed \/ begun)
        /\ gateway' = IF begun THEN "stopping" ELSE gateway
        /\ accepting' = (accepting /\ ~begun)
        /\ intent' \in {intent} \cup IF begun THEN {TRUE} ELSE {}
    /\ marks' \in {marks} \cup IF transitionAt = "marking" THEN {marks + 1} ELSE {}
    /\ resultRecord' \in {resultRecord} \cup IF transitionAt = "marked" THEN {TRUE} ELSE {}
    /\ UNCHANGED <<owned, scope, selected, selecting, completed, admitted>>

ControlNext ==
    \/ BootGateway \/ ControlDies \/ StopGateway \/ StopEnds \/ RemoveOwner
    \/ StartEvaluation \/ Selected \/ SelectFails \/ Deadline
    \/ \E profile \in {"continuity", "other"} : Select(profile)
    \/ \E a \in Attempts : Admit(a) \/ \E state \in {"none", "reserved", "succeeded", "failed"} :
        Admitted(a, state) \/ Decided(a, state)
    \/ Transition \/ Intend \/ MarkUnavailable \/ ConcludeTransition \/ FailTransition

(***************************************************************************)
(* The connection is taken away at most once, after the intent was          *)
(* recorded, and no request is admitted from then on until the transition   *)
(* is known to have completed, in this process or after any crash: an       *)
(* attempt that follows an intent follows a recorded result, under whatever *)
(* profile is then selected (transition, admissionAllowed, wrapGate,        *)
(* recovered).                                                              *)
(***************************************************************************)
TransitionIsKnown ==
    /\ marks <= 1
    /\ marks = 1 => intent
    /\ completed => marks = 1 /\ resultRecord
    /\ intent /\ ~completed /\ gateway # "down" => RequestsIn("admitting") = {}
=============================================================================
