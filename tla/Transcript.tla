------------------------------ MODULE Transcript ------------------------------
(***************************************************************************)
(* What the supervisor believes of a native worker's run                    *)
(* (baseline/native/transcript.ts, harness/native/evidence.ts): the relay's *)
(* requests, the gate's decisions, the router's receipts, what went to the  *)
(* provider and what the worker printed are written by five parties, each   *)
(* with its own clock readings, and any of them may be wrong.               *)
(* A request is named by its input; an input is the prompt followed by      *)
(* outputs and results, which are [kind, of] items.  A digest is what it is *)
(* the digest of.                                                           *)
(***************************************************************************)
EXTENDS Integers, FiniteSets, Sequences, SequencesExt

CONSTANTS Transcripts,     \* the evidence of runs as they went
          NoRun,           \* before one
          Misrecorded(_),  \* evidence with one field that someone got wrong
          MaxWrong,        \* bound of such fields
          Prompt,          \* the context and the prompt that were agreed on
          MaxSpent         \* maxInferenceAttempts

VARIABLES evidence, wrong, believed

transcriptVars == <<evidence, wrong, believed>>

---------------------------------------------------------------------------
IsArray(s) == s \in Seq(ToSet(s))
\* The items at some positions, in their order.
Chosen(items, positions) ==
    FlattenSeq([n \in DOMAIN items |-> IF n \in positions THEN <<items[n]>> ELSE <<>>])
Kind(items, kind) == Chosen(items, {n \in DOMAIN items : items[n].kind = kind})
Of(items) == [n \in DOMAIN items |-> items[n].of]
CallIds(output) == Of(Kind(output, "call"))

(* native-responses.mjs: what a request may carry *)
ContinuationOutput(output) ==
    /\ IsArray(output) /\ \A n \in DOMAIN output : output[n].kind \in {"reasoning", "call", "message"}
    /\ output # <<>> /\ IsInjective([n \in DOMAIN output |-> output[n].id])
    /\ IsInjective(CallIds(output))
Normalized(output) == [n \in DOMAIN output |-> [kind |-> output[n].kind, of |-> output[n].of]]
ValidFirstRequest(request) ==
    /\ IsArray(request.input) /\ Len(request.input) > 1
    /\ \A n \in DOMAIN request.input : request.input[n].kind = IF n = 1 THEN "context" ELSE "prompt"
ValidNativeRequest(request, previous, output) ==
    LET calls == CallIds(output)
    IN /\ request.session = previous.session
       /\ ContinuationOutput(output) /\ calls # <<>>
       /\ request.input = previous.input \o Normalized(output)
            \o [n \in DOMAIN calls |-> [kind |-> "result", of |-> calls[n]]]

(* client.ts: NativeEvents takes the whole of what was printed *)
OfType(events, type) == Chosen(events, {n \in DOMAIN events : events[n].type = type})
ToolEvents(events) == OfType(events, "tool_use")
NativeEventsFit(events) ==
    /\ IsArray(events)
    /\ \A m, n \in DOMAIN events : events[m].session = events[n].session
    /\ IsInjective(Of(ToolEvents(events)))

(* router-policy.ts: classifyReceipt, of a receipt of work that has ended *)
OriginalSuccess(receipt, request) ==
    LET operations == receipt.operations
    IN /\ receipt.id = request.id /\ IsArray(operations) /\ operations # <<>>
       /\ \A n \in DOMAIN operations :
            /\ operations[n].ordinal = n /\ operations[n].terminal # "unknown"
            /\ operations[n].terminal = "provider_completed" => operations[n].output # <<>>
       /\ Last(operations).terminal = "provider_completed"

(* What both verifiers ask of a request and of the records joined to it *)
JoinedFits(request, decision, receipt, durable) ==
    /\ decision.id = request.id /\ decision.success /\ decision.request = request.input
    /\ OriginalSuccess(receipt, request) /\ decision.operations = receipt.operations
    /\ ContinuationOutput(decision.output)
    /\ Last(receipt.operations).output = decision.output
    /\ {request.startedAt, request.firstAt, request.endedAt, durable.at} \subseteq Nat
    /\ durable.id = request.id /\ durable.at <= request.firstAt
    /\ request.startedAt <= request.firstAt /\ request.firstAt <= request.endedAt

---------------------------------------------------------------------------
(* verifyBaselineTranscript *)

CountsAgree(e) ==
    LET count == Len(e.requests)
    IN /\ \A list \in {e.requests, e.decisions, e.receipts, e.durable, e.physical, e.debits} : IsArray(list)
       /\ count >= 2 /\ e.pending = 0 /\ e.exited
       /\ Len(e.decisions) = count /\ Len(e.receipts) = count /\ Len(e.durable) = count
       /\ e.spent \in 1..MaxSpent /\ Len(e.physical) = e.spent /\ Len(e.debits) = e.spent

\* The step an event is printed in: the state machine over step_start and step_finish.
StepOf(events, n) == Cardinality({m \in 1..n : events[m].type = "step_start"})
InSteps(e) ==
    LET events == e.events
    IN /\ \A n \in DOMAIN events :
            /\ events[n].at >= IF n = 1 THEN e.started ELSE events[n - 1].at
            /\ events[n].at < e.deadline
            /\ events[n].session = e.requests[1].session
            /\ events[n].type = "step_start" <=> (n = 1 \/ events[n - 1].type = "step_finish")
       /\ events # <<>> /\ Last(events).type = "step_finish"
       /\ StepOf(events, Len(events)) = Len(e.requests)
       /\ IsInjective([n \in DOMAIN events |-> events[n].part])
       /\ \A m, n \in DOMAIN events :
            events[m].message = events[n].message <=> StepOf(events, m) = StepOf(events, n)
Printed(e, i, type) ==
    Chosen(e.events, {n \in DOMAIN e.events : StepOf(e.events, n) = i /\ e.events[n].type = type})

RequestsInOrder(e) ==
    /\ IsInjective([i \in DOMAIN e.requests |-> e.requests[i].id])
    /\ \A i \in DOMAIN e.requests :
        LET r == e.requests[i]
        IN /\ r.startedAt >= IF i = 1 THEN e.started ELSE e.requests[i - 1].endedAt
           /\ r.endedAt < e.deadline /\ e.durable[i].at >= r.startedAt

\* What went out, in the order of the requests and their ordinals.
PhysicalOperations(e) == FlattenSeq([i \in DOMAIN e.receipts |->
    [n \in DOMAIN e.receipts[i].operations |->
        [id |-> e.receipts[i].id, ordinal |-> e.receipts[i].operations[n].ordinal,
         input |-> e.requests[i].input, operation |-> e.receipts[i].operations[n],
         final |-> n = Len(e.receipts[i].operations)]]])
EachDebited(e) ==
    LET operations == PhysicalOperations(e)
    IN /\ Len(operations) = e.spent
       /\ \A n \in DOMAIN operations :
            LET o == operations[n]
            IN /\ e.physical[n] = [id |-> o.id, ordinal |-> o.ordinal, body |-> o.input]
               /\ o.operation.body = o.input
               /\ e.debits[n] = [id |-> o.id, ordinal |-> o.ordinal,
                                 body |-> o.input, output |-> o.operation.output]
               /\ IF o.final THEN o.operation.terminal = "provider_completed"
                  ELSE o.operation.terminal # "provider_completed" /\ o.operation.output = <<>>

\* Slip: a tool may run once its request was sent.
ToolAfterRequest(e, i, tool) == tool.start >= e.requests[i].startedAt /\ tool.end <= e.requests[i + 1].startedAt
ToolAfterDecision(e, i, tool) == tool.start >= e.durable[i].at /\ tool.end <= e.requests[i + 1].startedAt
StepFits(e, i) ==
    LET output == e.decisions[i].output
        tools == Printed(e, i, "tool_use")
        final == i = Len(e.requests)
    IN /\ \A n \in DOMAIN e.events : StepOf(e.events, n) = i => e.events[n].at >= e.durable[i].at
       /\ Of(Printed(e, i, "step_finish")) = <<IF final THEN "stop" ELSE "tool-calls">>
       /\ final => CallIds(output) = <<>> /\ Kind(output, "message") # <<>>
       /\ ~final => CallIds(output) # <<>>
       /\ Of(tools) = CallIds(output)
       /\ \A n \in DOMAIN tools :
            /\ {tools[n].start, tools[n].end} \subseteq Nat
            /\ tools[n].done /\ tools[n].end >= tools[n].start /\ tools[n].end <= tools[n].at
            /\ ToolAfterDecision(e, i, tools[n])
       /\ Of(Printed(e, i, "text")) = Of(Kind(output, "message"))

BaselineTranscriptFits(e) ==
    /\ CountsAgree(e) /\ NativeEventsFit(e.events) /\ InSteps(e) /\ RequestsInOrder(e)
    /\ e.requests[1].input = Prompt
    /\ \A i \in DOMAIN e.requests :
        /\ i = 1 => ValidFirstRequest(e.requests[1])
        /\ i > 1 => ValidNativeRequest(e.requests[i], e.requests[i - 1], e.decisions[i - 1].output)
        /\ JoinedFits(e.requests[i], e.decisions[i], e.receipts[i], e.durable[i])
        /\ StepFits(e, i)
    /\ EachDebited(e)
    /\ LET outputs == FlattenSeq([i \in DOMAIN e.decisions |-> e.decisions[i].output])
       IN IsInjective([n \in DOMAIN outputs |-> outputs[n].id]) /\ IsInjective(CallIds(outputs))

---------------------------------------------------------------------------
(* candidateArtifact: one patch and one final response, joined by their ids *)

\* The first record of a request.
Joined(records, request) == records[Min({n \in DOMAIN records : records[n].id = request.id})]
HasRecord(records, request) == \E n \in DOMAIN records : records[n].id = request.id

CandidateFits(e) ==
    /\ NativeEventsFit(e.events) /\ e.exited /\ e.artifact
    /\ e.events # <<>> /\ Last(e.events).type = "step_finish" /\ Last(e.events).of = "stop"
    /\ \A list \in {e.requests, e.decisions, e.receipts, e.durable} : IsArray(list) /\ Len(list) = 2
    /\ e.pending = 0 /\ e.requests[1].id # e.requests[2].id
    /\ \A i \in 1..2, seq \in {e.decisions, e.receipts, e.durable} : HasRecord(seq, e.requests[i])
    /\ \A i \in 1..2 :
        LET r == e.requests[i]
        IN JoinedFits(r, Joined(e.decisions, r), Joined(e.receipts, r), Joined(e.durable, r))
    /\ LET first == Joined(e.decisions, e.requests[1]).output
           final == Joined(e.decisions, e.requests[2]).output
           tools == ToolEvents(e.events)
       IN /\ ValidFirstRequest(e.requests[1]) /\ ValidNativeRequest(e.requests[2], e.requests[1], first)
          /\ Len(CallIds(first)) = 1 /\ Of(tools) = CallIds(first) /\ CallIds(final) = <<>>
          /\ tools[1].done /\ tools[1].start >= Joined(e.durable, e.requests[1]).at
          /\ Kind(final, "message") # <<>>
          /\ Of(OfType(e.events, "text")) = Of(Kind(final, "message"))

---------------------------------------------------------------------------
TranscriptInit == evidence = NoRun /\ wrong = 0 /\ believed = {}

RunEnds ==
    /\ evidence = NoRun
    /\ evidence' \in Transcripts
    /\ UNCHANGED <<wrong, believed>>

Misrecord ==
    /\ evidence # NoRun /\ wrong < MaxWrong /\ believed = {}
    /\ evidence' \in Misrecorded(evidence)
    /\ wrong' = wrong + 1
    /\ UNCHANGED believed

Verify ==
    /\ evidence # NoRun /\ believed = {}
    /\ believed' = {"read"} \cup (IF BaselineTranscriptFits(evidence) THEN {"transcript"} ELSE {})
                            \cup (IF CandidateFits(evidence) THEN {"candidate"} ELSE {})
    /\ UNCHANGED <<evidence, wrong>>

TranscriptNext == RunEnds \/ Misrecord \/ Verify

---------------------------------------------------------------------------
(***************************************************************************)
(* Five parties' records that are believed tell one run.  Whatever a        *)
(* request released was carried out, once, in the order it was released,    *)
(* after its decision was durable and over before any later request, its    *)
(* decision or its tools; every one of its results is in the last request.  *)
(* Every unit that was spent is one physical request for one of the         *)
(* requests, and as many of them gave an output as there are decisions:     *)
(* those outputs, in that order.  A candidate's patch ran after the         *)
(* decision that released it (verifyBaselineTranscript, candidateArtifact). *)
(***************************************************************************)
ReleasedCalls == FlattenSeq([i \in DOMAIN evidence.decisions |-> CallIds(evidence.decisions[i].output)])
RunsOfCalls(i) == {t \in ToSet(ToolEvents(evidence.events)) : t.of \in ToSet(CallIds(evidence.decisions[i].output))}
WorkIsInOrder ==
    \A i, j \in DOMAIN evidence.requests : i < j => \A run \in RunsOfCalls(i) :
        /\ run.start >= evidence.durable[i].at
        /\ run.end <= evidence.requests[j].startedAt /\ run.end <= evidence.durable[j].at
        /\ \A other \in RunsOfCalls(j) : run.end <= other.start
WorkIsDoneOnce ==
    /\ Of(ToolEvents(evidence.events)) = ReleasedCalls
    /\ Of(Kind(Last(evidence.requests).input, "result")) = ReleasedCalls
    /\ IsInjective(ReleasedCalls)
SpendingIsAccounted ==
    LET gave == Chosen(evidence.debits, {n \in DOMAIN evidence.debits : evidence.debits[n].output # <<>>})
    IN /\ \A n \in DOMAIN evidence.physical : \E i \in DOMAIN evidence.requests :
            evidence.physical[n].body = evidence.requests[i].input
       /\ IsInjective(evidence.physical) /\ Len(evidence.physical) = evidence.spent
       /\ [n \in DOMAIN gave |-> gave[n].output]
            = [i \in DOMAIN evidence.decisions |-> evidence.decisions[i].output]
ReleasedFirst ==
    LET first == evidence.requests[1]
    IN \A run \in ToSet(ToolEvents(evidence.events)) :
        /\ run.of \in ToSet(CallIds(Joined(evidence.decisions, first).output))
        /\ run.start >= Joined(evidence.durable, first).at
BelievedTranscriptsAreRuns ==
    /\ "transcript" \in believed => WorkIsInOrder /\ WorkIsDoneOnce /\ SpendingIsAccounted
    /\ "candidate" \in believed => WorkIsDoneOnce /\ ReleasedFirst
=============================================================================
