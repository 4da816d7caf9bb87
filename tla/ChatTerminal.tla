----------------------------- MODULE ChatTerminal -----------------------------
(***************************************************************************)
(* Two readers of one Chat Completions stream: the router's observer of the *)
(* original bytes (overlay/chat-terminal.mjs), whose verdict goes into a    *)
(* receipt, and the boundary's ChatStream (inference-boundary/protocol.ts), *)
(* whose output goes to the harness.                                        *)
(*                                                                          *)
(* A frame is one dispatched server-sent event: "done", a "usage" chunk,    *)
(* which has no choices, a "chunk" with one choice, or "bad", any frame     *)
(* both refuse for its form, its size or its error.  Indexes start at 1.    *)
(***************************************************************************)
EXTENDS FiniteSets, Functions, Integers, Sequences, SequencesExt

CONSTANTS ChatFrames,   \* what a provider may send
          ChatModes,    \* [tools, usage : BOOLEAN, terminal : name] of a request
          CallIds,      \* identities the boundary takes
          Objects,      \* arguments that are one JSON object
          Allowed,      \* arguments within the boundary's tool profile
          MaxFrames,    \* bound on frames
          None

ASSUME ChatAssumption ==
    /\ Allowed \subseteq Objects /\ MaxFrames \in Nat /\ None \notin CallIds \cup {"eof", "cut"}
    /\ \A f \in ChatFrames : f.kind = "chunk" => f.tools \in Seq(Range(f.tools))

VARIABLES mode,      \* what the request asked for
          frames,    \* what the provider sent so far
          observer,  \* the router's reading of it
          chat,      \* the boundary's reading of it
          chatEnd    \* how the response ended

chatVars == <<mode, frames, observer, chat, chatEnd>>

-----------------------------------------------------------------------------
(* The router's observer. *)

ObserverInit == [response |-> None, tools |-> <<>>, finish |-> None, done |-> FALSE,
                 invalid |-> FALSE]

\* An index is declared once, in order and with an identity of its own, then only extended.
Declares(o, part) ==
    /\ part.index = Len(o.tools) + 1 /\ part.id # None
    /\ \A i \in DOMAIN o.tools : o.tools[i].id # part.id

ToolFragment(o, part) ==
    IF Declares(o, part)
    THEN [o EXCEPT !.tools = Append(@, [id |-> part.id, arguments |-> part.arguments])]
    ELSE IF part.index \in DOMAIN o.tools /\ part.id = None
    THEN [o EXCEPT !.tools[part.index].arguments = @ \o part.arguments]
    ELSE [o EXCEPT !.invalid = TRUE]

ValidateTools(o) ==
    IF o.finish = "tool_calls"
    THEN o.tools # <<>> /\ \A i \in DOMAIN o.tools : o.tools[i].arguments \in Objects
    ELSE o.tools = <<>>

Payload(o, f) ==
    LET one == [o EXCEPT !.response = f.response,
                         !.invalid = \/ o.response \notin {None, f.response}
                                     \/ ~IsInjective([i \in DOMAIN f.tools |-> f.tools[i].index])]
        read == [FoldLeft(ToolFragment, one, f.tools) EXCEPT !.finish = f.finish]
    IN  [read EXCEPT !.invalid = @ \/ (f.finish # None /\ ~ValidateTools(read))]

ObserverDispatch(o, f) ==
    IF o.invalid THEN o
    ELSE IF f.kind = "done" /\ o.finish # None /\ ~o.done THEN [o EXCEPT !.done = TRUE]
    ELSE IF f.kind = "chunk" /\ o.finish = None THEN Payload(o, f)
    ELSE [o EXCEPT !.invalid = TRUE]

\* The observer vouches for a whole response only.
ProviderTerminal == chatEnd = "eof" /\ observer.done /\ ~observer.invalid

-----------------------------------------------------------------------------
(* The boundary's reader. *)

\* What is completed is one completion or none.
ChatStreamInit == [finish |-> None, tools |-> <<>>, usage |-> FALSE, texts |-> 0,
                   completion |-> {}, duplicateDone |-> FALSE, invalid |-> FALSE]

Refused(c) == [c EXCEPT !.invalid = TRUE]

ReadPart(c, part) ==
    IF part.index \notin DOMAIN c.tools /\ part.id \in CallIds
    THEN [c EXCEPT !.tools = [i \in DOMAIN @ \cup {part.index} |->
            IF i = part.index THEN [id |-> part.id, arguments |-> part.arguments] ELSE @[i]]]
    ELSE IF part.index \in DOMAIN c.tools /\ part.id = None
    THEN [c EXCEPT !.tools[part.index].arguments = @ \o part.arguments]
    ELSE Refused(c)

\* Slip: a choice after the finish is read as well.
TakesChunkLate(c, f) == f.tools = <<>> \/ mode.tools

TakesChunk(c, f) == c.finish = None /\ (f.tools = <<>> \/ mode.tools)

ReadChunk(c, f) ==
    LET read == FoldLeft(ReadPart, c, f.tools)
    IN  [read EXCEPT !.texts = IF f.text THEN @ + 1 ELSE @,
                     !.finish = IF f.finish = None THEN @ ELSE f.finish]

\* The calls are released together, in order, once the stream is done.
CallsComplete(c) ==
    IF c.finish = "tool_calls"
    THEN /\ DOMAIN c.tools = 1 .. Cardinality(DOMAIN c.tools) /\ c.tools # <<>>
         /\ IsInjective([i \in DOMAIN c.tools |-> c.tools[i].id])
         /\ \A i \in DOMAIN c.tools : c.tools[i].arguments \in Allowed
    ELSE c.tools = <<>>

Completed(c) ==
    [c EXCEPT !.completion = {[finish |-> c.finish,
                               calls |-> [i \in DOMAIN c.tools |-> c.tools[i].arguments]]}]

\* The router may add an end marker of its own, once.
Repeats(c, f) == f.kind = "done" /\ mode.terminal = "router-done" /\ ~c.duplicateDone

Consume(c, f) ==
    IF c.invalid THEN c
    ELSE IF c.completion # {} THEN IF Repeats(c, f) THEN [c EXCEPT !.duplicateDone = TRUE] ELSE Refused(c)
    ELSE IF f.kind = "done" /\ c.finish # None /\ CallsComplete(c) THEN Completed(c)
    ELSE IF f.kind = "usage" /\ c.finish # None /\ mode.usage /\ ~c.usage THEN [c EXCEPT !.usage = TRUE]
    ELSE IF f.kind = "chunk" /\ TakesChunk(c, f) THEN ReadChunk(c, f)
    ELSE Refused(c)

\* A translated response has no end marker: its end is one, and a receipt has to confirm it.
AtEnd(c) ==
    IF mode.terminal = "receipt-gated-eof" /\ c.completion = {} /\ c.finish # None
    THEN Consume(c, [kind |-> "done"]) ELSE c

Released == chatEnd = "eof" /\ chat.completion # {} /\ ~chat.invalid

-----------------------------------------------------------------------------

ProviderSends(f) ==
    /\ chatEnd = None /\ Len(frames) < MaxFrames /\ ~(observer.invalid /\ chat.invalid)
    /\ frames' = Append(frames, f)
    /\ observer' = ObserverDispatch(observer, f) /\ chat' = Consume(chat, f)
    /\ UNCHANGED <<mode, chatEnd>>

RouterRepeatsDone ==
    /\ chatEnd = None /\ mode.terminal = "router-done"
    /\ observer.done /\ chat.completion # {} /\ ~chat.duplicateDone
    /\ chat' = Consume(chat, [kind |-> "done"])
    /\ UNCHANGED <<mode, frames, observer, chatEnd>>

\* Cancelled, failed or cut within a frame, the response tells neither reader anything.
ChatEnds(how) ==
    /\ chatEnd = None
    /\ chatEnd' = how
    /\ chat' = IF how = "eof" THEN AtEnd(chat) ELSE chat
    /\ UNCHANGED <<mode, frames, observer>>

ChatInit ==
    /\ mode \in ChatModes /\ frames = <<>> /\ chatEnd = None
    /\ observer = ObserverInit /\ chat = ChatStreamInit

ChatNext ==
    \/ \E f \in ChatFrames : ProviderSends(f)
    \/ RouterRepeatsDone
    \/ \E how \in {"eof", "cut"} : ChatEnds(how)

-----------------------------------------------------------------------------
(* Properties. *)

\* The arguments of each call are all that was sent for its index, in that order.
AddPart(sent, part) ==
    [i \in DOMAIN sent \cup {part.index} |->
        IF i # part.index THEN sent[i]
        ELSE IF i \in DOMAIN sent THEN sent[i] \o part.arguments ELSE part.arguments]
AddFrame(sent, f) == IF f.kind = "chunk" THEN FoldLeft(AddPart, sent, f.tools) ELSE sent
CallsSent == FoldLeft(AddFrame, <<>>, frames)
Chunks == {n \in DOMAIN frames : frames[n].kind = "chunk"}
LastChunk(n) == n \in Chunks /\ \A m \in Chunks : m <= n

\* What the boundary releases is the whole stream: every text, every fragment of every call
\* in its order, and the one finish, after which no choice came; protocol.ts releases it at
\* the end of a response only.
CompletionIsTheStream ==
    Released =>
        /\ \A n \in Chunks : frames[n].finish # None <=> LastChunk(n)
        /\ \E n \in Chunks : LastChunk(n) /\ chat.completion = {[finish |-> frames[n].finish, calls |-> CallsSent]}
        /\ chat.texts = Cardinality({n \in Chunks : frames[n].text})

\* A response the router's receipt will call complete is one the boundary releases, with
\* the calls the observer saw, unless the calls leave the boundary's own profile: neither
\* reader is stricter about order, repetition or end than the other.
OriginalSuccessIsReleased ==
    LET calls == [i \in DOMAIN observer.tools |-> observer.tools[i].arguments]
        fits == calls # <<>> => /\ mode.tools
                                /\ \A i \in DOMAIN calls : /\ calls[i] \in Allowed
                                                           /\ observer.tools[i].id \in CallIds
    IN  ProviderTerminal /\ fits =>
            Released /\ chat.completion = {[finish |-> observer.finish, calls |-> calls]}

\* The two readers of a stream call the same streams complete, and hand on the whole.
ReadersAgree == CompletionIsTheStream /\ OriginalSuccessIsReleased
=============================================================================
