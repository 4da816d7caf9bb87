-------------------------- MODULE ResponsesTerminal --------------------------
(***************************************************************************)
(* The router's observer of an original Responses stream                    *)
(* (overlay/responses-terminal.mjs) and the native reader built on it       *)
(* (overlay/native-responses.mjs): items are announced, streamed and        *)
(* repeated in full on several levels, and a terminal event repeats them    *)
(* all once more.                                                           *)
(*                                                                          *)
(* A text is a sequence of pieces, an item's contents a sequence of texts,  *)
(* a channel the position of one.  "bad" stands for every event refused for *)
(* its own form, its identities, part types or limits.                      *)
(***************************************************************************)
EXTENDS FiniteSets, Integers, Sequences, SequencesExt

CONSTANTS Events,     \* what a provider may send, without sequence numbers
          Pieces,     \* of which texts are made
          MaxEvents,  \* bound on events
          Null

TextsOf(texts) == \A k \in DOMAIN texts : texts[k] \in Seq(Pieces)

ASSUME ResponsesAssumption ==
    /\ MaxEvents \in Nat
    /\ \A e \in Events :
        /\ e.kind \in {"part", "text"} => e.text \in Seq(Pieces)
        /\ e.kind \in {"item", "part", "text"} => e.done \in BOOLEAN
        /\ e.kind = "item" => TextsOf(e.texts)
        /\ e.kind = "terminal" => e.status # Null
        /\ e.kind = "terminal" /\ e.status = "completed" => \A i \in DOMAIN e.output : TextsOf(e.output[i].texts)

VARIABLES events,    \* what the provider sent so far
          response,  \* the observer's reading of it
          native,    \* the native reader's own state
          responseEnd

responsesVars == <<events, response, native, responseEnd>>

-----------------------------------------------------------------------------
(* Channels and items. *)

\* Slip: a full text that repeats a streamed one is believed as it is.
ContinuesAny(channel, text) == TRUE

\* A full text repeats what was streamed; before that it may extend an initial prefix.
Continues(channel, text) ==
    IF channel.streamed \/ channel.complete THEN text = channel.text
    ELSE IsPrefix(channel.text, text)

Put(channels, k, channel) == [c \in DOMAIN channels \cup {k} |-> IF c = k THEN channel ELSE channels[c]]

TakesFull(channels, k, text) == k \in DOMAIN channels => Continues(channels[k], text)

\* The channel that is told a full text.
Told(channels, k, text, complete) ==
    IF k \in DOMAIN channels THEN [channels[k] EXCEPT !.text = text, !.complete = @ \/ complete]
    ELSE [text |-> text, streamed |-> FALSE, complete |-> complete]

Snapshot(channels, k, text, complete) == Put(channels, k, Told(channels, k, text, complete))

TakesDelta(channels, k) == k \in DOMAIN channels => ~channels[k].complete

AppendDelta(channels, k, text) ==
    Put(channels, k, IF k \in DOMAIN channels THEN [channels[k] EXCEPT !.text = @ \o text, !.streamed = TRUE]
                     ELSE [text |-> text, streamed |-> TRUE, complete |-> FALSE])

\* A complete item has every channel that was streamed.
TakesContent(channels, texts, complete) ==
    /\ complete => DOMAIN channels \subseteq DOMAIN texts
    /\ \A k \in DOMAIN texts : TakesFull(channels, k, texts[k])

ItemContent(channels, texts, complete) ==
    [k \in DOMAIN channels \cup DOMAIN texts |->
        IF k \in DOMAIN texts THEN Told(channels, k, texts[k], complete) ELSE channels[k]]

\* An item is done once, with these texts.
RecordFor(items, id, index) ==
    IF id \in DOMAIN items THEN items[id]
    ELSE [index |-> index, channels |-> <<>>, closed |-> {}, added |-> {}, parts |-> {}, done |-> {}]

Refuse(s) == [s EXCEPT !.invalid = TRUE]

With(s, id, record) == [s EXCEPT !.items = [i \in DOMAIN @ \cup {id} |-> IF i = id THEN record ELSE @[i]]]

-----------------------------------------------------------------------------
(* Events. *)

TakesItem(s, e) ==
    LET record == RecordFor(s.items, e.item, e.index) IN
    /\ record.index = e.index
    /\ \A i \in DOMAIN s.items : s.items[i].index = e.index => i = e.item
    /\ IF e.done THEN record.done = {} ELSE e.item \notin DOMAIN s.items
    /\ TakesContent(record.channels, e.texts, e.done)

ItemEvent(s, e) ==
    With(s, e.item, [RecordFor(s.items, e.item, e.index) EXCEPT
                        !.channels = ItemContent(@, e.texts, e.done),
                        !.done = IF e.done THEN {e.texts} ELSE @])

\* A part is added once.
TakesPart(record, e) == (e.done \/ e.at \notin record.added) /\ TakesFull(record.channels, e.at, e.text)

PartEvent(record, e) ==
    [record EXCEPT !.channels = Snapshot(@, e.at, e.text, e.done),
                   !.added = IF e.done THEN @ ELSE @ \cup {e.at},
                   !.parts = IF e.done THEN @ \cup {e.at} ELSE @]

TakesText(record, e) ==
    /\ e.at \notin record.closed
    /\ IF e.done THEN TakesFull(record.channels, e.at, e.text) ELSE TakesDelta(record.channels, e.at)

TextEvent(record, e) ==
    [record EXCEPT !.channels = IF e.done THEN Snapshot(@, e.at, e.text, TRUE) ELSE AppendDelta(@, e.at, e.text),
                   !.closed = IF e.done THEN @ \cup {e.at} ELSE @]

\* Nothing follows an item or a part that is done.
TakesOutput(s, e) ==
    /\ e.item \in DOMAIN s.items /\ s.items[e.item].done = {} /\ e.at \notin s.items[e.item].parts
    /\ IF e.kind = "part" THEN TakesPart(s.items[e.item], e) ELSE TakesText(s.items[e.item], e)

OutputEvent(s, e) ==
    With(s, e.item, IF e.kind = "part" THEN PartEvent(s.items[e.item], e) ELSE TextEvent(s.items[e.item], e))

TakesFinal(s, item, index) ==
    LET record == RecordFor(s.items, item.id, index) IN
    /\ record.index = index /\ record.done \subseteq {item.texts}
    \* reasoning may come without a status
    /\ item.status \/ record.done # {}
    /\ TakesContent(record.channels, item.texts, TRUE)

TerminalItem(s, item, index) ==
    LET record == RecordFor(s.items, item.id, index)
    IN  [record EXCEPT !.channels = ItemContent(@, item.texts, TRUE)]

\* The output has every item, each once and as it was told.
TakesOutputs(s, output) ==
    /\ IsInjective([i \in DOMAIN output |-> output[i].id])
    /\ DOMAIN s.items \subseteq {output[i].id : i \in DOMAIN output}
    /\ \A i \in DOMAIN output : TakesFinal(s, output[i], i)

Terminal(s, e) ==
    IF e.status # "completed" THEN [s EXCEPT !.terminal = e.status]
    ELSE [s EXCEPT !.terminal = "completed",
                   !.items = [id \in {e.output[i].id : i \in DOMAIN e.output} |->
                       LET i == CHOOSE i \in DOMAIN e.output : e.output[i].id = id
                       IN  TerminalItem(s, e.output[i], i)]]

\* Numbers are on all events or on none, and increase.
InSequence(s, n) ==
    IF n = Null THEN s.numbered # TRUE ELSE s.numbered # FALSE /\ n > s.lastSequence

TakesEvent(s, e) ==
    IF e.kind = "created" THEN ~s.created
    ELSE /\ s.created /\ e.kind \in {"item", "part", "text", "terminal"}
         /\ e.kind = "item" => TakesItem(s, e)
         /\ e.kind \in {"part", "text"} => TakesOutput(s, e)
         /\ e.kind = "terminal" /\ e.status = "completed" => TakesOutputs(s, e.output)

ReadEvent(s, e) ==
    IF e.kind = "created" THEN [s EXCEPT !.created = TRUE]
    ELSE IF e.kind = "item" THEN ItemEvent(s, e)
    ELSE IF e.kind = "terminal" THEN Terminal(s, e)
    ELSE OutputEvent(s, e)

ValidateEvent(s, e, n) ==
    IF s.invalid \/ s.terminal # Null \/ ~InSequence(s, n) \/ ~TakesEvent(s, e) THEN Refuse(s)
    ELSE ReadEvent([s EXCEPT !.numbered = n # Null, !.lastSequence = IF n = Null THEN @ ELSE n], e)

\* An end marker is no evidence to the observer, and what the native reader refuses twice or
\* before a completion.
Observe(s, e, n) == IF e.kind = "sentinel" THEN s ELSE ValidateEvent(s, e, n)

NativePush(r, e) ==
    IF e.kind = "sentinel" THEN [r EXCEPT !.sentinel = TRUE, !.invalid = @ \/ r.sentinel \/ ~r.completed]
    ELSE IF e.kind = "terminal" /\ e.status = "completed" THEN [r EXCEPT !.completed = TRUE]
    ELSE r

-----------------------------------------------------------------------------

Verdict == IF responseEnd \in {Null, "torn"} \/ response.invalid THEN "unknown"
           ELSE IF response.terminal = Null THEN "unknown" ELSE response.terminal

\* The native reader gives out the whole response or nothing.
NativeReleased == responseEnd = "eof" /\ Verdict = "completed" /\ ~native.invalid

EventArrives(e, n) ==
    /\ responseEnd = Null /\ Len(events) < MaxEvents /\ ~response.invalid /\ ~native.invalid
    /\ events' = Append(events, e)
    /\ response' = Observe(response, e, n)
    /\ native' = IF response'.invalid THEN native ELSE NativePush(native, e)
    /\ UNCHANGED responseEnd

\* "torn" ends within an event; a verdict stands whatever ended the response otherwise.
ResponseEnds(how) ==
    /\ responseEnd = Null
    /\ responseEnd' = how
    /\ UNCHANGED <<events, response, native>>

ResponsesInit ==
    /\ events = <<>> /\ responseEnd = Null
    /\ response = [created |-> FALSE, items |-> <<>>, terminal |-> Null, numbered |-> Null,
                   lastSequence |-> 0, invalid |-> FALSE]
    /\ native = [completed |-> FALSE, sentinel |-> FALSE, invalid |-> FALSE]

ResponsesNext ==
    \/ \E e \in Events, n \in {Null, response.lastSequence, response.lastSequence + 1} :
          EventArrives(e, n)
    \/ \E how \in {"eof", "torn", "cancel"} : ResponseEnds(how)

-----------------------------------------------------------------------------
(* Properties. *)

Completion == CHOOSE i \in DOMAIN events : events[i].kind = "terminal"

\* Pieces streamed for a channel; texts announced for it; texts told for it in full.
AddDelta(sent, e) ==
    IF e.kind = "text" /\ ~e.done
    THEN LET at == <<e.item, e.at>> IN
         [p \in DOMAIN sent \cup {at} |->
            IF p # at THEN sent[p] ELSE IF p \in DOMAIN sent THEN sent[p] \o e.text ELSE e.text]
    ELSE sent
Streamed(es) == FoldLeft(AddDelta, <<>>, es)
DeltasOf(es, id, k) == IF <<id, k>> \in DOMAIN Streamed(es) THEN Streamed(es)[<<id, k>>] ELSE <<>>
AnnouncedText(e, id, k) ==
    IF e.kind = "item" /\ ~e.done /\ e.item = id /\ k \in DOMAIN e.texts THEN {e.texts[k]}
    ELSE IF e.kind = "part" /\ ~e.done /\ e.item = id /\ e.at = k THEN {e.text}
    ELSE {}
FullText(e, id, k) ==
    IF e.kind = "item" /\ e.done /\ e.item = id THEN {IF k \in DOMAIN e.texts THEN e.texts[k] ELSE Null}
    ELSE IF e.kind \in {"part", "text"} /\ e.done /\ e.item = id /\ e.at = k THEN {e.text}
    ELSE {}

\* The output's text of a channel is what the events es told of it.
ReadsAs(es, id, k, text) ==
    /\ \A j \in DOMAIN es : /\ FullText(es[j], id, k) \subseteq {text}
                            /\ \A t \in AnnouncedText(es[j], id, k) : IsPrefix(t, text)
    /\ IsSuffix(DeltasOf(es, id, k), text)
    /\ DeltasOf(es, id, k) # <<>> /\ (\A j \in DOMAIN es : AnnouncedText(es[j], id, k) = {})
          => text = DeltasOf(es, id, k)

OneReading(es, last) ==
    LET output == es[last].output IN
    /\ \A i \in DOMAIN es : i > last => es[i].kind = "sentinel"
    /\ \A i \in DOMAIN es : es[i].kind = "item" =>
          es[i].index \in DOMAIN output /\ output[es[i].index].id = es[i].item
    /\ \A i \in DOMAIN output : \A k \in DOMAIN output[i].texts :
          ReadsAs(es, output[i].id, k, output[i].texts[k])

\* A response that counts as completed has one reading: each text of its output is what was
\* announced and streamed for it, piece by piece, and what every full repetition of it said;
\* every item that was announced is there, in its place, and nothing followed.
CompletedHasOneReading == Verdict = "completed" => OneReading(events, Completion)
=============================================================================
