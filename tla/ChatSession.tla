------------------------------ MODULE ChatSession ------------------------------
(***************************************************************************)
(* One planner session over the chat transport: PlannerSession.execute      *)
(* (planner-probe/planner.ts) drives BoundaryTransport (transport.ts),      *)
(* whose requests pass validateRequest (inference-boundary/protocol.ts) and *)
(* whose answers are read from a response that may be refused, cut, damaged *)
(* or aborted at any point.                                                 *)
(*                                                                          *)
(* A message is its role, its text ("none", "blank" or "words") and the     *)
(* identities of its calls.  A frame is one event of the response; of the   *)
(* parser, which ChatTerminal models, only what it does to the caller is    *)
(* kept: text is released at once, calls at the end, and an error raised.   *)
(* A call comes in one part with its arguments, or as an opening part that  *)
(* has none and is heard as nothing, and its arguments later.               *)
(***************************************************************************)
EXTENDS Naturals, Sequences, FiniteSets, SequencesExt

CONSTANTS ChatBudgets,  \* [assessments, repairs, requests, files, fits]
          ReplyLimit    \* frames within the response budget

\* No budget is above DEFAULT_BUDGET's.
ASSUME ChatBudgetAssumption ==
    ChatBudgets \subseteq [assessments : 0 .. 1, repairs : 0 .. 1, requests : 0 .. 3, files : 0 .. 1, fits : BOOLEAN]

VARIABLES chatSchema,   \* of the policy: 1 or 2
          chatBudget,
          chatStage,    \* where execute stands, or its outcome
          messages,     \* the conversation
          chatUsage,    \* requests, files and repairs
          completions,  \* requests answered whole
          reply,        \* the frames taken of the current response, in order
          stopped       \* "no", "aborted" by the caller or "timedOut"

sessionVars == <<chatSchema, chatBudget, chatStage, messages, chatUsage, completions, reply, stopped>>

-----------------------------------------------------------------------------
(* validateRequest *)

\* The calls made and those answered by the first n messages.
Made(history, n) == UNION {ToSet(history[i].calls) : i \in 1 .. n}
Answered(history, n) == {history[i].of : i \in {j \in 1 .. n : history[j].role = "tool"}}
Pending(history, n) == Made(history, n) \ Answered(history, n)

\* Message n after those before it.
TakesMessage(s, history, n) ==
    LET message == history[n]
        pending == Pending(history, n - 1)
        speaks == message.text = "words" \/ s = 1
    IN  CASE message.role = "assistant" ->
               /\ ToSet(message.calls) \cap Made(history, n - 1) = {}
               /\ Cardinality(ToSet(message.calls)) = Len(message.calls)
               /\ s = 2 => pending = {}
               /\ speaks \/ (message.text = "none" /\ message.calls # <<>>)
          [] message.role = "tool" -> message.of \in pending
          [] OTHER -> pending = {} /\ speaks

MessagesFit(s, history) ==
    /\ Len(history) \in 1 .. 64
    /\ \A n \in DOMAIN history : TakesMessage(s, history, n)
    /\ Pending(history, Len(history)) = {}
    /\ s = 2 => \A i \in DOMAIN history : history[i].role = "system" => i = 1 /\ Len(history) > 1

\* A tool choice is for a request with tools, and schema 2 has none.
ValidateRequest(s, request) ==
    /\ MessagesFit(s, request.messages)
    /\ request.choice # "absent" => s = 1 /\ request.tools

-----------------------------------------------------------------------------
(* BoundaryTransport.conversation *)

Message(role, text) == [role |-> role, text |-> text, calls |-> <<>>, of |-> <<>>]

ChatRequest(tools) ==
    [messages |-> messages, tools |-> chatSchema = 1 \/ tools,
     choice |-> IF chatSchema = 2 THEN "absent" ELSE IF tools THEN "auto" ELSE "none"]

WithCalls(calls) ==
    messages \o <<[Message("assistant", "none") EXCEPT !.calls = calls]>>
             \o [i \in DOMAIN calls |-> [Message("tool", "words") EXCEPT !.of = calls[i]]]

\* Blank text is left out.
Repair(text) ==
    messages \o (IF text = "words" THEN <<Message("assistant", text)>> ELSE <<>>)
             \o <<Message("user", "words")>>

-----------------------------------------------------------------------------
(* What the parser makes of a response. *)

Frames == {"blank", "words", "part", "opening", "arguments", "stop", "calls", "done", "junk"}
Finishes == {"stop", "calls"}

\* Tools are offered to the first request only.
Tools == Len(messages) = 2 /\ (chatSchema = 1 \/ (chatBudget.files > 0 /\ chatBudget.fits))

CountOf(kinds, frames) == Cardinality({i \in DOMAIN frames : frames[i] \in kinds})
PartsIn(frames) == CountOf({"part", "opening"}, frames)
TextIn(frames) ==
    IF "words" \in ToSet(frames) THEN "words" ELSE IF "blank" \in ToSet(frames) THEN "blank" ELSE "none"

\* The frame f may follow those before it; at the end every call has its arguments.
Parses(frames, f) ==
    LET finish == Finishes \cap ToSet(frames)
        open == CountOf({"opening"}, frames) - CountOf({"arguments"}, frames)
    IN  /\ f # "junk" /\ "done" \notin ToSet(frames)
        /\ f = "done" => finish = (IF PartsIn(frames) > 0 THEN {"calls"} ELSE {"stop"}) /\ open = 0
        /\ f # "done" => finish = {}
        /\ f \in {"part", "opening"} => Tools
        /\ f = "arguments" => open > 0

\* Arguments are heard, the opening of a call is not.
Semantic(f) == f \in {"blank", "words", "part", "arguments"}
\* Slip: only what came with the failure counts.
HeardLately(frames) == FALSE
\* The model was heard, as text or as arguments of a call, at any time.
Heard(frames) == \E i \in DOMAIN frames : Semantic(frames[i])

-----------------------------------------------------------------------------
(* PlannerSession.execute *)

\* The catch of execute: the session's own timer names every failure.
Outcome(code) == chatStage' = IF stopped = "timedOut" THEN "time_budget_exhausted_unknown" ELSE code

\* complete(tools) up to its request: charged, validated and sent.
SendRequest ==
    /\ chatStage = "ready"
    /\ IF /\ stopped = "no" /\ chatBudget.assessments > 0
          /\ chatUsage.requests < chatBudget.requests
       THEN /\ chatUsage' = [chatUsage EXCEPT !.requests = @ + 1]
            /\ IF ValidateRequest(chatSchema, ChatRequest(Tools))
               THEN chatStage' = "asked" ELSE Outcome("boundary_denied")
       ELSE /\ Outcome(CASE chatBudget.assessments = 0 -> "assessment_budget_exhausted"
                         [] chatBudget.assessments > 0 /\ stopped # "no" -> "cancelled"
                         [] OTHER -> "request_budget_exhausted")
            /\ UNCHANGED chatUsage
    /\ reply' = <<>>
    /\ UNCHANGED <<chatSchema, chatBudget, messages, completions, stopped>>

\* No timer fires between an answer and what is made of it.
StopSession(how) ==
    /\ chatStage \in {"asked", "reading"} \/ (chatStage = "answered" /\ how = "aborted")
    /\ stopped = "no" /\ stopped' = how
    /\ UNCHANGED <<chatSchema, chatBudget, chatStage, messages, chatUsage, completions, reply>>

Settles ==
    UNCHANGED <<chatSchema, chatBudget, messages, chatUsage, completions, reply, stopped>>

\* The response begins, or the boundary refuses: its own limit, anything else, no identity.
ReplyBegins ==
    /\ chatStage = "asked" /\ stopped = "no"
    /\ \/ chatStage' = "reading"
       \/ \E code \in {"request_budget_exhausted", "route_unavailable", "invalid_request_identity"} :
             Outcome(code)
    /\ Settles

ReplyFrame(f) ==
    /\ chatStage = "reading" /\ stopped = "no"
    /\ CASE Len(reply) = ReplyLimit -> Outcome("response_budget_exhausted") /\ UNCHANGED reply
         [] Len(reply) < ReplyLimit /\ Parses(reply, f) ->
                reply' = Append(reply, f) /\ UNCHANGED chatStage
         [] OTHER -> /\ Outcome(IF Heard(reply) THEN "partial_failure" ELSE "invalid_stream")
                     /\ UNCHANGED reply
    /\ UNCHANGED <<chatSchema, chatBudget, messages, chatUsage, completions, stopped>>

\* The connection ends, in order or not; an abort ends it too.
ReplyEnds ==
    /\ chatStage = "reading"
    /\ CASE stopped # "no" -> Outcome("cancelled_unknown")
         [] stopped = "no" /\ "done" \in ToSet(reply) -> chatStage' = "answered"
         [] OTHER -> Outcome(IF Heard(reply) THEN "partial_failure" ELSE "invalid_stream")
    /\ Settles

\* An error of the response: the connection was closed before its end.
ResponseFails ==
    /\ chatStage = "reading"
    /\ Outcome(CASE stopped # "no" -> "cancelled_unknown"
                 [] stopped = "no" /\ Heard(reply) -> "partial_failure"
                 [] OTHER -> "route_unavailable")
    /\ Settles

\* An error of the request: a reset or a malformed message, also once the response has
\* begun; it does not ask what was heard.
RequestFails ==
    /\ chatStage \in {"asked", "reading"}
    /\ Outcome(IF stopped # "no" THEN "cancelled_unknown" ELSE "route_unavailable")
    /\ Settles

\* Whether words are a plan is for the model to say.
Continue(valid) ==
    LET parts == PartsIn(reply)
        calls == [i \in 1 .. parts |-> <<chatUsage.requests, i>>]
        text == TextIn(reply)
        left == chatBudget.files - chatUsage.files
    IN  /\ chatStage = "answered" /\ (valid => text = "words")
        /\ completions' = IF stopped = "no" THEN completions + 1 ELSE completions
        /\ CASE stopped # "no" -> Outcome("cancelled_unknown") /\ UNCHANGED <<messages, chatUsage>>
             [] stopped = "no" /\ parts > 0 /\ text # "none" ->
                  Outcome("invalid_plan") /\ UNCHANGED <<messages, chatUsage>>
             [] stopped = "no" /\ parts > 0 /\ text = "none" ->
                  IF parts > left \/ ~chatBudget.fits
                  THEN Outcome("discovery_budget_exhausted") /\ UNCHANGED <<messages, chatUsage>>
                  ELSE /\ chatStage' = "ready" /\ messages' = WithCalls(calls)
                       /\ chatUsage' = [chatUsage EXCEPT !.files = @ + parts]
             [] stopped = "no" /\ parts = 0 /\ valid ->
                  Outcome("plan_proposed") /\ UNCHANGED <<messages, chatUsage>>
             [] OTHER ->
                  IF chatUsage.repairs >= chatBudget.repairs
                  THEN Outcome("invalid_plan") /\ UNCHANGED <<messages, chatUsage>>
                  ELSE /\ chatStage' = "ready" /\ messages' = Repair(text)
                       /\ chatUsage' = [chatUsage EXCEPT !.repairs = @ + 1]
        /\ UNCHANGED <<chatSchema, chatBudget, reply, stopped>>

SessionInit ==
    /\ chatSchema \in {1, 2} /\ chatBudget \in ChatBudgets /\ chatStage = "ready"
    /\ messages = <<Message("system", "words"), Message("user", "words")>>
    /\ chatUsage = [requests |-> 0, files |-> 0, repairs |-> 0]
    /\ completions = 0 /\ reply = <<>> /\ stopped \in {"no", "aborted"}

SessionNext ==
    \/ SendRequest \/ ReplyBegins \/ ReplyEnds \/ ResponseFails \/ RequestFails
    \/ \E how \in {"aborted", "timedOut"} : StopSession(how)
    \/ \E f \in Frames : ReplyFrame(f)
    \/ \E valid \in BOOLEAN : Continue(valid)

-----------------------------------------------------------------------------

(***************************************************************************)
(* The session and its transport tell one story.  No conversation they      *)
(* build, over reads, repairs and blank answers, is one the boundary's      *)
(* validateRequest refuses.  An outcome that claims to know (a plan, no     *)
(* plan, a plain cancellation) comes with every request answered whole, so  *)
(* no original work is left behind it; any other leaves one at most.  And a *)
(* stream that broke is told by all that was heard of it: as invalid where  *)
(* that is nothing, as a partial failure where it is something.  A route    *)
(* that is told to be unavailable says neither: an error of the request     *)
(* (transport.ts:110) is told so whatever was heard.                        *)
(***************************************************************************)
OutcomesAreHonest ==
    LET heard == \E i \in DOMAIN reply : reply[i] \in {"blank", "words", "part", "arguments"}
    IN  /\ chatStage # "boundary_denied"
        /\ chatStage \in {"cancelled", "plan_proposed", "invalid_plan", "discovery_budget_exhausted"} =>
               completions = chatUsage.requests
        /\ chatUsage.requests <= completions + 1
        /\ chatStage = "invalid_stream" => ~heard
        /\ chatStage = "partial_failure" => heard
=============================================================================
