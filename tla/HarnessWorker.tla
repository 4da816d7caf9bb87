----------------------------- MODULE HarnessWorker -----------------------------
(***************************************************************************)
(* One run of the coding harness and its supervisor inside the worker       *)
(* container: harness/adapter.ts (the "chat" adapter) and native/client.ts  *)
(* with native/run.ts (the "native" one, and "suite" for its requests of    *)
(* schema 2, which carry the session's deadline).  The child prints events, *)
(* may ignore SIGTERM, leave descendants that write to the repository, or   *)
(* end in any way; a caller may cancel at any time, also when it is done.   *)
(* An event is [type, of, session]; "alien" stands for every line, or       *)
(* amount of bytes, that the reader refuses.                                *)
(***************************************************************************)
EXTENDS Naturals, SequencesExt

CONSTANTS HarnessEvents, MaxPrinted

VARIABLES adapter,     \* "chat", "native" or "suite"
          printed,     \* what the child has written to its standard output
          halfLine,    \* and a line it has not ended
          taken,       \* how much of it was read
          values,      \* NativeEvents.values
          harness,     \* the child: "running", "ended", "closed"
          harnessExit, \* "ok", "error" or "signal"; "none" before
          invalid, cancelled,
          killing,     \* the SIGKILL timer is set
          overdue,     \* the wall limit or the session's deadline has passed
          tree,        \* the repository: "base", "wanted" or "other"
          workerOutcome, \* what done resolves to
          terminated     \* a signal was sent to the child while it ran

harnessVars == <<adapter, printed, halfLine, taken, values, harness, harnessExit, invalid,
                 cancelled, killing, overdue, tree, workerOutcome, terminated>>
processVars == <<printed, halfLine, harness, harnessExit, tree>>
readerVars == <<taken, values>>

---------------------------------------------------------------------------
(* What the child and its descendants do *)

PrintEvent(event) ==
    /\ harness = "running" /\ ~halfLine /\ Len(printed) < MaxPrinted
    /\ printed' = Append(printed, event)
    /\ UNCHANGED <<adapter, halfLine, harness, harnessExit, tree, readerVars, invalid, cancelled,
                   killing, overdue, workerOutcome, terminated>>
Write(content) ==
    /\ harness # "closed"
    /\ tree' = content
    /\ UNCHANGED <<adapter, printed, halfLine, harness, harnessExit, readerVars, invalid, cancelled,
                   killing, overdue, workerOutcome, terminated>>
\* Its own exit, perhaps in the middle of a line and perhaps because of a SIGTERM.
EndChild(code, half) ==
    /\ harness = "running"
    /\ harness' = "ended" /\ harnessExit' = code /\ halfLine' = half
    /\ UNCHANGED <<adapter, printed, tree, readerVars, invalid, cancelled, killing, overdue,
                   workerOutcome, terminated>>
\* child.once('error')
SpawnFails ==
    /\ harness = "running" /\ printed = <<>> /\ tree = "base"
    /\ harness' = "ended" /\ harnessExit' = "error" /\ invalid' = TRUE
    /\ UNCHANGED <<adapter, printed, halfLine, tree, readerVars, cancelled, killing, overdue,
                   workerOutcome, terminated>>

---------------------------------------------------------------------------
(* NativeEvents.push *)

Session == IF values = <<>> THEN {} ELSE {values[1].session}
CallsSeen == {values[n].of : n \in {m \in DOMAIN values : values[m].type = "completed"}}
ChatAccepts(event) == event.type # "alien" /\ Session \subseteq {event.session}
NativeAccepts(event) ==
    /\ event.type # "alien" /\ Session \subseteq {event.session}
    /\ event.type = "completed" => event.of \notin CallsSeen
Accepts(event) == IF adapter = "chat" THEN ChatAccepts(event) ELSE NativeAccepts(event)

\* terminate(): SIGTERM now and SIGKILL a second later.  The chat adapter asks no
\* questions, and a signal to a child that has ended goes nowhere.
Terminate ==
    /\ killing' = (killing \/ adapter = "chat" \/ harness = "running")
    /\ terminated' = (terminated \/ harness = "running")

\* A chunk of standard output, up to the event it is refused for.
Take ==
    /\ harness # "closed" /\ taken < Len(printed)
    /\ taken' = taken + 1
    /\ IF Accepts(printed[taken + 1])
       THEN values' = Append(values, printed[taken + 1]) /\ UNCHANGED <<invalid, killing, terminated>>
       ELSE invalid' = TRUE /\ Terminate /\ UNCHANGED values
    /\ UNCHANGED <<adapter, processVars, cancelled, overdue, workerOutcome>>
\* More standard error than is allowed.
StderrLimit ==
    /\ harness # "closed" /\ ~invalid
    /\ invalid' = TRUE /\ Terminate
    /\ UNCHANGED <<adapter, processVars, readerVars, cancelled, overdue, workerOutcome>>

---------------------------------------------------------------------------
(* Deadlines and the caller *)

TimePasses ==
    /\ ~overdue
    /\ overdue' = TRUE
    /\ UNCHANGED <<adapter, processVars, readerVars, invalid, cancelled, killing, workerOutcome, terminated>>
\* The timer fires late, if at all: close clears it.
DeadlineFires ==
    /\ overdue /\ harness # "closed"
    /\ cancelled' = TRUE /\ Terminate
    /\ UNCHANGED <<adapter, processVars, readerVars, invalid, overdue, workerOutcome>>
CancelRun ==
    /\ cancelled' = TRUE /\ Terminate
    /\ UNCHANGED <<adapter, processVars, readerVars, invalid, overdue, workerOutcome>>
KillTimer ==
    /\ killing /\ harness = "running"
    /\ harness' = "ended" /\ harnessExit' = "signal" /\ killing' = FALSE
    /\ UNCHANGED <<adapter, printed, halfLine, tree, readerVars, invalid, cancelled, overdue,
                   workerOutcome, terminated>>

---------------------------------------------------------------------------
Has(type) == \E n \in DOMAIN values : values[n].type = type
EndedInStop == values # <<>> /\ Last(values).type = "stop"

\* Slip: what was given up on is judged by what it left.
ClassifyResult(gaveUp, refused) ==
    IF refused THEN "invalid_events"
    ELSE IF Has("rejected") THEN "approval_blocked"
    ELSE IF Has("failed") THEN "tool_failed"
    ELSE IF harnessExit # "ok" \/ Has("error") THEN "harness_failed"
    ELSE IF tree # "wanted" \/ ~Has("completed") \/ ~EndedInStop THEN "artifact_mismatch"
    ELSE "completed_candidate"
Classify(gaveUp, refused) ==
    IF gaveUp THEN "cancelled_unknown" ELSE ClassifyResult(gaveUp, refused)

\* child.once('close'): the process has ended and its streams were read to their end.
Close ==
    /\ harness = "ended" /\ taken = Len(printed)
    /\ harness' = "closed"
    /\ cancelled' = (cancelled \/ (adapter = "suite" /\ overdue))
    /\ invalid' = (invalid \/ halfLine)
    /\ killing' = FALSE
    /\ workerOutcome' = Classify(cancelled', invalid')
    /\ UNCHANGED <<adapter, printed, halfLine, harnessExit, tree, readerVars, overdue, terminated>>

HarnessInit ==
    /\ adapter \in {"chat", "native", "suite"}
    /\ printed = <<>> /\ halfLine = FALSE /\ taken = 0 /\ values = <<>>
    /\ harness = "running" /\ harnessExit = "none" /\ tree = "base" /\ workerOutcome = "none"
    /\ invalid = FALSE /\ cancelled = FALSE /\ killing = FALSE /\ overdue = FALSE
    /\ terminated = FALSE

HarnessNext ==
    \/ \E event \in HarnessEvents : PrintEvent(event)
    \/ \E content \in {"wanted", "other"} : Write(content)
    \/ \E code \in {"ok", "error"}, half \in BOOLEAN : EndChild(code, half)
    \/ SpawnFails \/ Take \/ StderrLimit
    \/ TimePasses \/ DeadlineFires \/ CancelRun \/ KillTimer \/ Close

---------------------------------------------------------------------------
(***************************************************************************)
(* A candidate is reported only of a run nobody had given up on: when it    *)
(* closed no signal had been sent to it, nobody had cancelled it, a suite's *)
(* session was not over, and what was judged is everything it printed, in   *)
(* one session, with no tool that failed, was refused or, by the native     *)
(* adapter, ran twice under one call (start, classify, NativeEvents).       *)
(***************************************************************************)
LeftAlone ==
    /\ ~terminated /\ ~cancelled /\ (adapter = "suite" => ~overdue)
    /\ harnessExit = "ok" /\ values = printed /\ ~halfLine
    /\ \A m, n \in DOMAIN printed :
        /\ printed[m].session = printed[n].session
        /\ printed[n].type \notin {"failed", "rejected", "error", "alien"}
        /\ adapter # "chat" /\ m # n /\ printed[m].type = "completed" => printed[m] # printed[n]
CandidatesWereLeftAlone ==
    [][workerOutcome' # workerOutcome /\ workerOutcome' = "completed_candidate" => LeftAlone]_harnessVars
=============================================================================
