------------------------------ MODULE MCPrograms ------------------------------
(***************************************************************************)
(* The experiments' own programs.  None of them shares state with another,  *)
(* so a behaviour follows one, and the state spaces add up.                 *)
(***************************************************************************)
EXTENDS Planner, Export, BaselineRun, EvaluationControl, Dataset, Transport, Transcript, HarnessWorker, Artifacts, Custody, ChatSession, WebRead

VARIABLE program

MCBudgets == [assessments : 0..1, repairs : 0..1, requests : 0..3, files : 0..1, fits : BOOLEAN]

MCChatBudgets == [assessments : {1}, repairs : {1}, requests : {2, 3}, files : 0..1, fits : {TRUE}]

\* Cases of one or two cohorts, some with a cap on the operator's effort.
MCRegistration(number, origin, cap) ==
    [number |-> number, origin |-> origin, cap |-> cap, feasible |-> TRUE, frozenAt |-> 0,
     checks |-> {[id |-> "build", revisions |-> "candidate", required |-> TRUE]}]
MCRegistrationLists ==
    {<<MCRegistration(1, "operator", [units |-> 2, scale |-> 0]), MCRegistration(2, "operator", Null),
       MCRegistration(3, origin, Null)>> : origin \in {"operator", "synthetic"}}

MCInterval(registration, start, end) ==
    [operator |-> "someone", phase |-> "trial", start |-> start, end |-> end,
     duration |-> Seconds(end - start), confidence |-> "measured"]
MCAccepted(registration, start, end) ==
    [registration |-> registration, origin |-> registration.origin, status |-> "accepted",
     startedAt |-> start, endedAt |-> end, elapsed |-> end - start, waiting |-> 0,
     scope |-> [id |-> registration.number, startedAt |-> start, deadlineAt |-> start + MaxElapsed,
                physical |-> 1, complete |-> TRUE, quiescence |-> "confirmed"],
     attempts |-> <<[id |-> "first", startedAt |-> start, endedAt |-> end, status |-> "completed",
                     artifact |-> "made", operations |-> <<"success">>]>>,
     checks |-> {[id |-> "build", revision |-> "candidate", attempt |-> "first", artifact |-> "made"]},
     coverage |-> {"trial"},
     intervals |-> <<MCInterval(registration, 20 * registration.number, 20 * registration.number + 15)>>,
     acceptance |-> [decision |-> "accepted", labelledAt |-> end, breach |-> FALSE, met |-> TRUE,
                     artifact |-> "made"],
     followUp |-> Null]
MCUnlabelled(run, end) ==
    [run EXCEPT !.status = end, !.acceptance = [decision |-> Null, labelledAt |-> Null,
        breach |-> Null, met |-> TRUE, artifact |-> Null]]
MCEstimate(run, work) ==
    [run EXCEPT !.coverage = @ \cup {work},
        !.intervals = Append(@, [operator |-> "someone", phase |-> work, start |-> Null,
            end |-> Null, duration |-> [units |-> 55, scale |-> 2], confidence |-> "estimated"])]
\* Cases that went well, that ended unheard, that replaced what had, that were checked on
\* another candidate, that were never begun; with estimated, unknown and doubled effort.
MCRunsOf(registration) ==
    LET well == MCAccepted(registration, 2, 6)
        unheard == [MCUnlabelled(well, "unknown") EXCEPT
            !.scope.quiescence = "unknown", !.attempts[1].operations = <<"unknown">>]
    IN {well, MCAccepted(registration, 0, 9), MCAccepted(registration, 3, 4), MCAccepted(registration, 6, 8),
        unheard, [unheard EXCEPT !.scope.physical = 2, !.attempts[1].operations = <<"unknown", "success">>],
        [well EXCEPT !.checks = {[c EXCEPT !.artifact = "other"] : c \in @}],
        MCEstimate(well, "trial"),
        [MCEstimate(well, "follow-up") EXCEPT !.followUp = [startedAt |-> 9, dueAt |-> 16, completedAt |-> 16]],
        [well EXCEPT !.intervals = Append(@, MCInterval(registration, 30, 34))]}

MCPortOutputs == {<<"text">>, <<"reasoning", "call">>, <<"call", "text">>, <<"alien">>}

MCPrompt == <<[kind |-> "context", of |-> "agreed"], [kind |-> "prompt", of |-> "agreed"]>>
MCItem(name, kind, of) == [id |-> name, kind |-> kind, of |-> of]
MCCalls(k) == <<MCItem("i" \o k, "reasoning", k), MCItem("c" \o k, "call", k)>>
MCFinal == <<MCItem("m", "message", "done")>>
MCResult(output) == LET calls == CallIds(output) IN [n \in DOMAIN calls |-> [kind |-> "result", of |-> calls[n]]]
MCFailed(input) == [ordinal |-> 1, terminal |-> "provider_failed", body |-> input, output |-> <<>>]
MCMade(input, output, n) == [ordinal |-> n, terminal |-> "provider_completed", body |-> input, output |-> output]
MCEvent(type, time, name, message, of) ==
    [type |-> type, at |-> time, part |-> name, message |-> message, session |-> "one", of |-> of,
     start |-> time - 1, end |-> time, done |-> TRUE]
\* A run of as many requests as outputs; each takes two ticks, and its tool the next one.
\* The first is tried again after the provider failed it.
MCTranscript(outputs) ==
    LET count == Len(outputs)
        input[i \in 1..count] == IF i = 1 THEN MCPrompt
            ELSE input[i - 1] \o Normalized(outputs[i - 1]) \o MCResult(outputs[i - 1])
        start(i) == 3 * i - 2
        operations(i) == IF i = 1 /\ count = 2 THEN <<MCFailed(input[i]), MCMade(input[i], outputs[i], 2)>>
                         ELSE <<MCMade(input[i], outputs[i], 1)>>
        name(i) == <<"request", i>>
        spent == FlattenSeq([i \in 1..count |-> [n \in DOMAIN operations(i) |-> <<i, operations(i)[n]>>]])
    IN [requests |-> [i \in 1..count |-> [id |-> name(i), session |-> "one", input |-> input[i],
            startedAt |-> start(i), firstAt |-> start(i) + 1, endedAt |-> start(i) + 1]],
        decisions |-> [i \in 1..count |-> [id |-> name(i), success |-> TRUE, request |-> input[i],
            operations |-> operations(i), output |-> outputs[i]]],
        durable |-> [i \in 1..count |-> [id |-> name(i), at |-> start(i) + 1]],
        receipts |-> [i \in 1..count |-> [id |-> name(i), operations |-> operations(i)]],
        physical |-> [n \in DOMAIN spent |-> [id |-> name(spent[n][1]), ordinal |-> spent[n][2].ordinal, body |-> spent[n][2].body]],
        debits |-> [n \in DOMAIN spent |-> [id |-> name(spent[n][1]), ordinal |-> spent[n][2].ordinal,
            body |-> spent[n][2].body, output |-> spent[n][2].output]],
        events |-> FlattenSeq([i \in 1..count |->
            <<MCEvent("step_start", start(i) + 1, <<i, 1>>, i, ""),
              IF i = count THEN MCEvent("text", start(i) + 2, <<i, 2>>, i, "done")
              ELSE MCEvent("tool_use", start(i) + 2, <<i, 2>>, i, CallIds(outputs[i])[1]),
              MCEvent("step_finish", start(i) + 2, <<i, 3>>, i, IF i = count THEN "stop" ELSE "tool-calls")>>]),
        pending |-> 0, spent |-> Len(spent), exited |-> TRUE, artifact |-> TRUE, started |-> 1,
        deadline |-> 3 * count + 1]
MCTranscripts == {MCTranscript(<<MCCalls("a"), MCFinal>>), MCTranscript(<<MCCalls("a"), MCCalls("b"), MCFinal>>)}
MCMisrecorded(e) ==
    LET times == 1..9
        drop(s) == {RemoveAt(s, n) : n \in DOMAIN s} \cup {InsertAt(s, n, s[n]) : n \in DOMAIN s}
    IN UNION {{[e EXCEPT !.requests[i].startedAt = t], [e EXCEPT !.requests[i].firstAt = t],
               [e EXCEPT !.requests[i].endedAt = t], [e EXCEPT !.durable[i].at = t]} : i \in DOMAIN e.requests, t \in times}
       \cup UNION {{[e EXCEPT !.events[n].at = t], [e EXCEPT !.events[n].start = t], [e EXCEPT !.events[n].end = t]} :
            n \in {m \in DOMAIN e.events : e.events[m].type = "tool_use"}, t \in times}
       \cup {[e EXCEPT !.events = s] : s \in drop(e.events)}
       \cup {[e EXCEPT !.physical = s] : s \in drop(e.physical)}
       \cup {[e EXCEPT !.debits = s] : s \in drop(e.debits)}
       \cup {[e EXCEPT !.spent = n] : n \in 1..4}
       \cup {[e EXCEPT !.decisions = Reverse(@)], [e EXCEPT !.durable = Reverse(@)], [e EXCEPT !.receipts = Reverse(@)]}
       \cup {[e EXCEPT !.receipts[i].operations = <<>>] : i \in DOMAIN e.receipts}
       \cup {[e EXCEPT !.exited = FALSE], [e EXCEPT !.artifact = FALSE], [e EXCEPT !.pending = 1]}

MCFile(path, mode, content) == [path |-> path, mode |-> mode, content |-> content]
MCBaseTree == {MCFile(<<"a">>, "644", "old"), MCFile(<<"n", "b">>, "644", "old"), MCFile(<<"n", "c">>, "755", "old")}
MCWritePaths == {<<"a">>, <<"n", "b">>}
MCFolded == [part \in {"a", "A", "n", "N", "b", "c", ".git", ".GIT", "repo"} |->
    CASE part = "A" -> "a" [] part = "N" -> "n" [] part = ".GIT" -> ".git" [] OTHER -> part]
MCEntry(type, path, mode, content) == [type |-> type, path |-> path, mode |-> mode, content |-> content]
MCArchiveEntries ==
    {MCEntry("file", <<"repo">> \o f.path, f.mode, content) : f \in MCBaseTree, content \in {"old", "new"}}
    \cup {MCEntry("directory", <<"repo">>, "755", ""), MCEntry("directory", <<"repo", "A">>, "755", ""),
          MCEntry("file", <<"repo", "a">>, "755", "new"), MCEntry("file", <<"repo", "N", "b">>, "644", "new"),
          MCEntry("file", <<"repo", ".git", "a">>, "600", "new"), MCEntry("file", <<"repo", ".GIT", "a">>, "644", "new"),
          MCEntry("file", <<"repo", "a">>, "644", "binary"),
          MCEntry("link", <<"repo", "a">>, "644", ""), MCEntry("pax", <<>>, "644", ""),
          MCEntry("pax", <<"repo", "n", "c">>, "644", ""), MCEntry("long", <<"repo", "a">>, "644", "")}

\* A line that is refused does what too much standard error does, and is left out.
MCHarnessEvents ==
    {[type |-> "completed", of |-> "call", session |-> "one"]}
    \cup [type : {"failed", "stop"}, of : {""}, session : {"one"}]
    \cup [type : {"stop"}, of : {""}, session : {"two"}]

MCIdentities == <<[generation |-> "g", attempt |-> "a", epoch |-> 1], [generation |-> "g", attempt |-> "a", epoch |-> 2]>>
MCMessage(name, identity, kind, body) ==
    [version |-> "execution-provisional-v2", id |-> name, identity |-> identity, kind |-> kind, body |-> body]
MCAssign(name, identity, assignment, input) ==
    MCMessage(name, identity, "assign", [assignment |-> assignment, input |-> input])
MCTransition(name, identity, expected, from, to) ==
    MCMessage(name, identity, "transition", [expected |-> expected, from |-> from, to |-> to])
\* Assignments that are repeated, contradicted and of another session; the way to a
\* result and ways off it; two results, and acknowledgements of each receipt.
MCWireMessages ==
    UNION {{MCAssign("m1", c, "x", "one"), MCAssign("m2", c, "x", "one"), MCAssign("m3", c, "x", "two"),
            MCAssign("m1", c, "y", "one"), MCTransition("t1", c, 1, "assigned", "starting"),
            MCTransition("t2", c, 2, "starting", "running"), MCTransition("t3", c, 2, "starting", "stopping"),
            MCTransition("t4", c, 1, "assigned", "unknown"),
            MCMessage("r1", c, "result", [manifest |-> "m"]), MCMessage("r2", c, "result", [manifest |-> "n"]),
            MCMessage("k1", c, "result_ack", [manifest |-> "m", receipt |-> "r"])} :
        c \in {MCIdentities[n] : n \in DOMAIN MCIdentities}}
    \cup {[MCAssign("m4", MCIdentities[1], "z", "one") EXCEPT !.version = "execution-provisional-v1"],
          MCAssign("m5", [generation |-> "f", attempt |-> "a", epoch |-> 2], "z", "one")}

\* The programs that are not followed stand still where they start, in one way.
Fixed(p, condition) == program # p => condition
Init ==
    /\ program \in {"planner", "records", "export", "proof", "case", "check", "control",
                   "dataset", "transport", "transcript", "harness", "artifacts", "custody", "chat", "web"}
    /\ PlannerInit /\ RecordInit /\ ExportInit /\ ProofInit /\ BaselineInit /\ CheckInit /\ ControlInit
    /\ DatasetInit
    /\ TransportInit
    /\ TranscriptInit
    /\ HarnessInit
    /\ ArtifactInit
    /\ CustodyInit
    /\ SessionInit
    /\ WebInit
    /\ Fixed("planner", budget = CHOOSE b \in MCBudgets : TRUE) /\ Fixed("planner", ~intruder)
    /\ Fixed("records", strict)
    /\ Fixed("proof", perMode) /\ Fixed("proof", record.clean)
    /\ Fixed("harness", adapter = "chat")
    /\ Fixed("chat", chatSchema = 1) /\ Fixed("chat", stopped = "no")
    /\ Fixed("chat", chatBudget = CHOOSE b \in MCChatBudgets : TRUE)

\* Nothing but the program that is followed moves.
Still(p, variables) == IF p = program THEN TRUE ELSE UNCHANGED variables
Others ==
    /\ UNCHANGED program
    /\ Still("planner", plannerVars) /\ Still("records", recordVars) /\ Still("export", exportVars)
    /\ Still("proof", proofVars) /\ Still("case", baselineVars) /\ Still("check", checkVars)
    /\ Still("control", controlVars) /\ Still("dataset", datasetVars)
    /\ Still("transport", transportVars)
    /\ Still("transcript", transcriptVars)
    /\ Still("harness", harnessVars)
    /\ Still("artifacts", artifactVars)
    /\ Still("custody", custodyVars)
    /\ Still("chat", sessionVars)
    /\ Still("web", webVars)

Next ==
    \/ program = "planner" /\ PlannerNext /\ Others
    \/ program = "records" /\ RecordNext /\ Others
    \/ program = "export" /\ ExportNext /\ Others
    \/ program = "proof" /\ ProofNext /\ Others
    \/ program = "case" /\ BaselineNext /\ Others
    \/ program = "check" /\ CheckNext /\ Others
    \/ program = "control" /\ ControlNext /\ Others
    \/ program = "dataset" /\ DatasetNext /\ Others
    \/ program = "transport" /\ TransportNext /\ Others
    \/ program = "transcript" /\ TranscriptNext /\ Others
    \/ program = "harness" /\ HarnessNext /\ Others
    \/ program = "artifacts" /\ ArtifactNext /\ Others
    \/ program = "custody" /\ CustodyNext /\ Others
    \/ program = "chat" /\ SessionNext /\ Others
    \/ program = "web" /\ WebNext /\ Others
Spec == Init /\ [][Next]_<<program, plannerVars, recordVars, exportVars, proofVars,
                           baselineVars, checkVars, controlVars, datasetVars, transportVars, transcriptVars, harnessVars, artifactVars, custodyVars, sessionVars, webVars>>
=============================================================================
