------------------------------ MODULE MCStreams ------------------------------
(***************************************************************************)
(* A connection's provider speaks Chat Completions or Responses; the router *)
(* creates the reader of that wire and leaves the other alone.              *)
(***************************************************************************)
EXTENDS ChatTerminal, ResponsesTerminal

VARIABLE wire

Chunk(text, tools, finish) ==
    [kind |-> "chunk", response |-> 1, text |-> text, tools |-> tools, finish |-> finish]
Part(index, id, arguments) == [index |-> index, id |-> id, arguments |-> arguments]

MCChatFrames ==
    {[kind |-> "done"], [kind |-> "usage"], [kind |-> "bad"],
     Chunk(TRUE, <<>>, None), Chunk(FALSE, <<>>, "stop"), Chunk(FALSE, <<>>, "tool_calls"),
     [Chunk(TRUE, <<>>, None) EXCEPT !.response = 2],
     Chunk(FALSE, <<Part(1, "call_a", <<"{">>)>>, None),
     Chunk(FALSE, <<Part(1, None, <<"}">>)>>, None),
     Chunk(FALSE, <<Part(1, "call_a", <<"{", "}">>)>>, "tool_calls"),
     Chunk(FALSE, <<Part(2, "call_b", <<"{", "}">>)>>, None),
     Chunk(FALSE, <<Part(2, "call_a", <<"{", "}">>), Part(1, None, <<>>)>>, None),
     Chunk(FALSE, <<Part(1, "other", <<"{", "}">>)>>, None)}
MCChatModes ==
    [tools : BOOLEAN, usage : {FALSE}, terminal : {"done", "router-done", "receipt-gated-eof"}]
    \cup {[tools |-> TRUE, usage |-> TRUE, terminal |-> "done"]}
MCObjects == {<<"{", "}">>}

Item(done, item, index, texts) ==
    [kind |-> "item", done |-> done, item |-> item, index |-> index, texts |-> texts]
Text(done, item, text) == [kind |-> "text", done |-> done, item |-> item, at |-> 1, text |-> text]
TextPart(done, item, text) == [kind |-> "part", done |-> done, item |-> item, at |-> 1, text |-> text]
Final(id, texts, status) == [id |-> id, texts |-> texts, status |-> status]
Completed2(output) == [kind |-> "terminal", status |-> "completed", output |-> output]

A == <<"a">>
B == <<"b">>
AB == <<"a", "b">>
MCEvents ==
    {[kind |-> "created"], [kind |-> "sentinel"], [kind |-> "bad"],
     [kind |-> "terminal", status |-> "failed"],
     Item(FALSE, "m", 1, <<>>), Item(FALSE, "m", 1, <<A>>), Item(FALSE, "r", 2, <<>>),
     Item(FALSE, "r", 1, <<>>),
     Item(TRUE, "m", 1, <<A>>), Item(TRUE, "m", 1, <<AB>>), Item(TRUE, "r", 2, <<>>),
     Text(FALSE, "m", A), Text(FALSE, "m", B), Text(TRUE, "m", A), Text(TRUE, "m", AB),
     TextPart(FALSE, "m", <<>>), TextPart(FALSE, "m", A), TextPart(TRUE, "m", AB),
     Completed2(<<>>), Completed2(<<Final("m", <<>>, TRUE)>>),
     Completed2(<<Final("m", <<A>>, TRUE)>>), Completed2(<<Final("m", <<AB>>, TRUE)>>),
     Completed2(<<Final("m", <<AB>>, TRUE), Final("r", <<>>, FALSE)>>),
     Completed2(<<Final("m", <<B>>, TRUE), Final("r", <<>>, TRUE)>>)}

Init == ChatInit /\ ResponsesInit /\ wire \in {"chat", "responses"}
         /\ (wire = "responses" => mode = CHOOSE m \in MCChatModes : TRUE)
Next ==
    \/ wire = "chat" /\ ChatNext /\ UNCHANGED <<responsesVars, wire>>
    \/ wire = "responses" /\ ResponsesNext /\ UNCHANGED <<chatVars, wire>>
Spec == Init /\ [][Next]_<<chatVars, responsesVars, wire>>
=============================================================================
