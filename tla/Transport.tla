------------------------------- MODULE Transport -------------------------------
(***************************************************************************)
(* The planner's native transport (planner-probe/native-transport.ts): one  *)
(* conversation, driven by whoever holds it through request, complete,      *)
(* calls, read and repair in any order, over a boundary port that may       *)
(* answer late, refuse, change its policy or release anything.              *)
(* An output is the kinds of its items in order: "reasoning", "call" (the   *)
(* one allowed read), "text", or "alien" for an item no shape allows.       *)
(***************************************************************************)
EXTENDS Naturals, Sequences, FiniteSets

CONSTANTS Calls,      \* the calls of complete, each with a signal of its own
          PortOutputs,    \* what the port may release
          RequestIds, \* the ids it may give
          Absent

\* The kinds of a request's items: a model's, and the answers the transport adds.
Kinds == {"reasoning", "call", "text", "alien", "result", "instruction"}
Releases == [id : RequestIds, output : PortOutputs, sound : BOOLEAN]
Completions == [of : Calls, output : PortOutputs]
Conversations ==
    [input : Seq(Kinds), phase : {"assessment", "final", "repair"}, ready : BOOLEAN,
     expected : Seq(Kinds) \cup {Absent}, tools : BOOLEAN,
     released : Completions \cup {Absent}, pendingRead : BOOLEAN]

ASSUME TransportAssumption ==
    /\ PortOutputs \subseteq Seq(Kinds)
    /\ Absent \notin Seq(Kinds) \cup Releases \cup Completions \cup Conversations

VARIABLES conversation, \* NativeConversation, Absent until it is started
          sending, terminalFailure, requestIds,
          call,         \* call[c]: where a call of complete stands
          sent,         \* what the port was asked, in order
          drifted       \* port.policy or port.binding is not what was approved

transportVars == <<conversation, sending, terminalFailure, requestIds, call, sent, drifted>>

---------------------------------------------------------------------------
(* projectOutput *)

Count(output, kind) == Cardinality({i \in DOMAIN output : output[i] = kind})
Projected(output, tools) ==
    /\ Count(output, "alien") = 0
    /\ Count(output, "call") <= IF tools THEN 1 ELSE 0
    /\ Count(output, "call") = 0 \/ Count(output, "text") = 0

(* NativeConversation *)

\* conversation(messages, budget); deny(!this.active)
Converse ==
    /\ conversation = Absent
    /\ conversation' = [input |-> <<>>, phase |-> "assessment", ready |-> TRUE,
                        expected |-> Absent, tools |-> FALSE, released |-> Absent,
                        pendingRead |-> FALSE]
    /\ UNCHANGED <<sending, terminalFailure, requestIds, call, sent, drifted>>

Converses(next) ==
    /\ conversation' = next
    /\ UNCHANGED <<sending, terminalFailure, requestIds, call, sent, drifted>>

Request(tools) ==
    /\ conversation # Absent /\ conversation.ready /\ conversation.expected = Absent
    /\ conversation.phase = "assessment" \/ ~tools
    /\ Converses([conversation EXCEPT !.ready = FALSE, !.tools = tools, !.expected = conversation.input])

\* A completion is one object: the one the call c returned.
Holds(c) == conversation # Absent /\ conversation.released # Absent /\ conversation.released.of = c
CallsOf(c) ==
    /\ Holds(c) /\ conversation.phase = "assessment" /\ conversation.tools
    /\ Count(conversation.released.output, "call") = 1
    /\ Converses([conversation EXCEPT !.input = @ \o conversation.released.output,
                                      !.released = Absent, !.pendingRead = TRUE])
ReadOf(c) ==
    /\ conversation # Absent /\ conversation.pendingRead
    /\ Converses([conversation EXCEPT !.input = Append(@, "result"), !.pendingRead = FALSE,
                                      !.phase = "final", !.ready = TRUE])
RepairOf(c) ==
    /\ Holds(c) /\ conversation.phase # "repair"
    /\ Count(conversation.released.output, "call") = 0
    /\ Converses([conversation EXCEPT
            !.input = @ \o conversation.released.output \o <<"instruction">>,
            !.released = Absent, !.phase = "repair", !.ready = TRUE])

---------------------------------------------------------------------------
(* complete.  The steps of one call end where it awaits. *)

Ends(c, end) == call' = [call EXCEPT ![c].stage = end]
\* Slip: a call that failed may be tried again.
FailsOpen(c) == Ends(c, "failed") /\ sending' = FALSE /\ UNCHANGED terminalFailure
\* The catch and finally of complete: whatever ended the call, sending is over.
Fails(c) == Ends(c, "failed") /\ sending' = FALSE /\ terminalFailure' = TRUE

\* fits: the byte limits hold and the value is the one request() returned.
CompleteCall(c, tools, fits) ==
    /\ call[c].stage = "idle"
    /\ IF /\ ~sending /\ ~terminalFailure /\ conversation # Absent
          /\ conversation.expected # Absent /\ conversation.tools = tools /\ fits
          /\ ~drifted /\ ~call[c].aborted
       THEN /\ call' = [call EXCEPT ![c].stage = "starting", ![c].tools = tools,
                                    ![c].input = conversation.expected]
            /\ sending' = TRUE /\ UNCHANGED terminalFailure
       ELSE Fails(c)
    /\ UNCHANGED <<conversation, requestIds, sent, drifted>>

\* The deferred half of awaitRelease: an abort in between has ended the wait.
Ask(c) ==
    /\ call[c].stage = "starting"
    /\ Ends(c, "sent")
    /\ sent' = Append(sent, [by |-> c, input |-> call[c].input, tools |-> call[c].tools])
    /\ UNCHANGED <<conversation, sending, terminalFailure, requestIds, drifted>>

\* An abort ends a wait that runs; a call that was released sees it afterwards.
GiveUp(c) ==
    /\ ~call[c].aborted /\ call[c].stage \notin {"failed", "completed"}
    /\ IF call[c].stage \in {"starting", "sent"} THEN Fails(c)
       ELSE call' = [call EXCEPT ![c].aborted = TRUE] /\ UNCHANGED <<sending, terminalFailure>>
    /\ UNCHANGED <<conversation, requestIds, sent, drifted>>

\* The port resolves, or it rejects.  sound: dates, status, model and size fit.
Release(c, id, output, sound) ==
    /\ call[c].stage = "sent"
    /\ call' = [call EXCEPT ![c].stage = "released",
                            ![c].release = [id |-> id, output |-> output, sound |-> sound]]
    /\ UNCHANGED <<conversation, sending, terminalFailure, requestIds, sent, drifted>>
Reject(c) ==
    /\ call[c].stage = "sent" /\ Fails(c)
    /\ UNCHANGED <<conversation, requestIds, sent, drifted>>

Releasable(c) ==
    LET r == call[c].release
    IN /\ ~call[c].aborted /\ ~drifted /\ r.id \notin requestIds /\ r.sound
       /\ Projected(r.output, call[c].tools)
Accept(c) ==
    /\ call[c].stage = "released"
    /\ IF Releasable(c)
       THEN /\ Ends(c, "completed") /\ sending' = FALSE /\ UNCHANGED terminalFailure
            /\ requestIds' = requestIds \cup {call[c].release.id}
            /\ conversation' = [conversation EXCEPT !.expected = Absent,
                    !.released = [of |-> c, output |-> call[c].release.output]]
       ELSE Fails(c) /\ UNCHANGED <<conversation, requestIds>>
    /\ UNCHANGED <<sent, drifted>>

Drift ==
    /\ drifted' = ~drifted
    /\ UNCHANGED <<conversation, sending, terminalFailure, requestIds, call, sent>>

---------------------------------------------------------------------------
TransportInit ==
    /\ conversation = Absent /\ sending = FALSE /\ terminalFailure = FALSE /\ requestIds = {}
    /\ call = [c \in Calls |-> [stage |-> "idle", aborted |-> FALSE, tools |-> FALSE,
                                input |-> <<>>, release |-> Absent]]
    /\ sent = <<>> /\ drifted = FALSE

TransportNext ==
    \/ Converse \/ Drift
    \/ \E tools \in BOOLEAN : Request(tools)
    \/ \E c \in Calls : CallsOf(c) \/ ReadOf(c) \/ RepairOf(c)
    \/ \E c \in Calls, tools, fits \in BOOLEAN : CompleteCall(c, tools, fits)
    \/ \E c \in Calls : Ask(c) \/ GiveUp(c) \/ Reject(c) \/ Accept(c)
    \/ \E c \in Calls, id \in RequestIds, output \in PortOutputs, sound \in BOOLEAN :
        Release(c, id, output, sound)

---------------------------------------------------------------------------
(***************************************************************************)
(* What reaches the port is one story.  Every request after the first       *)
(* carries the one before it, the exact output of the completion that was   *)
(* released for that, under an id of its own and with nobody having left,   *)
(* and one answer to it: a result for a read that was allowed, else the     *)
(* repair, after which nothing follows.  So a wait that was given up, a     *)
(* failure or a second caller ends the conversation, and what the port      *)
(* answers after that enters nothing (NativePlannerTransport.complete,      *)
(* NativeConversation).                                                     *)
(***************************************************************************)
Answer(n) == IF Count(call[sent[n].by].release.output, "call") = 1 THEN "result" ELSE "instruction"
TransportTellsOneStory ==
    \A n \in 1..(Len(sent) - 1) :
        LET before == call[sent[n].by]
            next == sent[n + 1]
        IN /\ before.stage = "completed" /\ ~next.tools
           /\ \A o \in 1..(n - 1) : call[sent[o].by].release.id # before.release.id
           /\ next.input = sent[n].input \o before.release.output \o <<Answer(n)>>
           /\ Answer(n) = "result" => sent[n].tools /\ n = 1
           /\ Answer(n) = "instruction" => Len(sent) = n + 1
=============================================================================
