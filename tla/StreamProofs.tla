----------------------------- MODULE StreamProofs -----------------------------
(***************************************************************************)
(* What TLAPS proves of the readers of a router's stream, for every value   *)
(* of the constants.                                                        *)
(*                                                                          *)
(* Chat Completions: the observer of the original bytes and the boundary's  *)
(* reader call the same streams complete.  Each reads a frame by a fold     *)
(* over its parts, and the frames one after the other; FoldFacts,           *)
(* instantiated with the step of each fold, says what those come to.        *)
(*                                                                          *)
(* Responses: a completed response has one reading.  Each channel of an     *)
(* item holds what was told of it so far, by announcements, pieces and full *)
(* repetitions; the terminal event repeats what the channels hold.          *)
(***************************************************************************)
EXTENDS ChatTerminal, ResponsesTerminal, FiniteSetTheorems, SequenceTheorems, TLAPS

-----------------------------------------------------------------------------
(* Chat Completions *)

Observing == INSTANCE FoldFacts WITH Op <- ToolFragment
Reading == INSTANCE FoldFacts WITH Op <- ReadPart
Adding == INSTANCE FoldFacts WITH Op <- AddPart
Sending == INSTANCE FoldFacts WITH Op <- AddFrame

IsChat(c) ==
    /\ c = [finish |-> c.finish, tools |-> c.tools, usage |-> c.usage, texts |-> c.texts,
            completion |-> c.completion, duplicateDone |-> c.duplicateDone, invalid |-> c.invalid]
    /\ c.invalid \in BOOLEAN

\* The reader has of each call what was sent for it.
KeepsCalls(c, sent) ==
    /\ DOMAIN c.tools = DOMAIN sent
    /\ \A i \in DOMAIN sent : c.tools[i] = [id |-> c.tools[i].id, arguments |-> sent[i]]

\* But for its calls and a refusal, d is c.
SameButCalls(d, c) ==
    /\ d.finish = c.finish /\ d.usage = c.usage /\ d.texts = c.texts
    /\ d.completion = c.completion /\ d.duplicateDone = c.duplicateDone

\* c is what the reader makes of the frames fs, if it refuses nothing.
ChunksIn(fs) == {n \in DOMAIN fs : fs[n].kind = "chunk"}
LastIn(fs, n) == n \in ChunksIn(fs) /\ \A m \in ChunksIn(fs) : m <= n
SentIn(fs) == FoldLeft(AddFrame, <<>>, fs)
TellsFrames(c, fs) ==
    ~c.invalid =>
        /\ KeepsCalls(c, SentIn(fs))
        /\ c.texts = Cardinality({n \in ChunksIn(fs) : fs[n].text})
        /\ \A n \in ChunksIn(fs) : fs[n].finish # None => LastIn(fs, n) /\ c.finish = fs[n].finish
        /\ c.finish # None => \E n \in ChunksIn(fs) : LastIn(fs, n) /\ c.finish = fs[n].finish
        /\ c.completion # {} => /\ c.finish # None
                                /\ c.completion = {[finish |-> c.finish, calls |-> SentIn(fs)]}

ReaderInv ==
    /\ frames \in Seq(ChatFrames) /\ IsChat(chat)
    /\ SentIn(frames) = [i \in DOMAIN SentIn(frames) |-> SentIn(frames)[i]]
    /\ TellsFrames(chat, frames)

-----------------------------------------------------------------------------
\* The folds of the readers, as the facts about folds know them.
LEMMA ChatFolds ==
    /\ \A o, s : Observing!Folded(o, s) = FoldLeft(ToolFragment, o, s)
    /\ \A c, s : Reading!Folded(c, s) = FoldLeft(ReadPart, c, s)
    /\ \A sent, s : Adding!Folded(sent, s) = FoldLeft(AddPart, sent, s)
    /\ \A sent, s : Sending!Folded(sent, s) = FoldLeft(AddFrame, sent, s)
<1>1. \A o, s : Observing!Folded(o, s) = FoldLeft(ToolFragment, o, s)
  BY DEF Observing!Folded, Observing!FoldLeft, FoldLeft, Observing!MapThenFoldSet, MapThenFoldSet, Observing!Max, Max
<1>2. \A c, s : Reading!Folded(c, s) = FoldLeft(ReadPart, c, s)
  BY DEF Reading!Folded, Reading!FoldLeft, FoldLeft, Reading!MapThenFoldSet, MapThenFoldSet, Reading!Max, Max
<1>3. \A sent, s : Adding!Folded(sent, s) = FoldLeft(AddPart, sent, s)
  BY DEF Adding!Folded, Adding!FoldLeft, FoldLeft, Adding!MapThenFoldSet, MapThenFoldSet, Adding!Max, Max
<1>4. \A sent, s : Sending!Folded(sent, s) = FoldLeft(AddFrame, sent, s)
  BY DEF Sending!Folded, Sending!FoldLeft, FoldLeft, Sending!MapThenFoldSet, MapThenFoldSet, Sending!Max, Max
<1>5. QED
  BY <1>1, <1>2, <1>3, <1>4

\* A part changes the calls alone, and what refused one refuses the rest.
LEMMA PartIsRead ==
    ASSUME NEW c, NEW part, IsChat(c)
    PROVE  /\ IsChat(ReadPart(c, part))
           /\ ReadPart(c, part) = [c EXCEPT !.tools = ReadPart(c, part).tools, !.invalid = ReadPart(c, part).invalid]
           /\ c.invalid => ReadPart(c, part).invalid
           /\ ~ReadPart(c, part).invalid =>
                \/ /\ part.index \notin DOMAIN c.tools /\ part.id \in CallIds
                   /\ ReadPart(c, part).tools = [i \in DOMAIN c.tools \cup {part.index} |->
                        IF i = part.index THEN [id |-> part.id, arguments |-> part.arguments] ELSE c.tools[i]]
                \/ /\ part.index \in DOMAIN c.tools /\ part.id = None
                   /\ ReadPart(c, part).tools = [c.tools EXCEPT ![part.index].arguments = @ \o part.arguments]
<1> DEFINE d == ReadPart(c, part)
<1>1. CASE part.index \notin DOMAIN c.tools /\ part.id \in CallIds
  <2> DEFINE tools == [i \in DOMAIN c.tools \cup {part.index} |->
                        IF i = part.index THEN [id |-> part.id, arguments |-> part.arguments] ELSE c.tools[i]]
  <2>1. d = [c EXCEPT !.tools = tools]
    BY <1>1 DEF ReadPart
  <2> HIDE DEF tools, d
  <2>2. d.tools = tools /\ d.invalid = c.invalid /\ IsChat(d) /\ d = [c EXCEPT !.tools = d.tools, !.invalid = d.invalid]
    BY <2>1 DEF IsChat
  <2>3. QED
    BY <1>1, <2>2 DEF tools, d
<1>2. CASE ~(part.index \notin DOMAIN c.tools /\ part.id \in CallIds) /\ part.index \in DOMAIN c.tools /\ part.id = None
  <2> DEFINE tools == [c.tools EXCEPT ![part.index].arguments = @ \o part.arguments]
  <2>1. d = [c EXCEPT !.tools = tools]
    BY <1>2 DEF ReadPart, IsChat
  <2> HIDE DEF tools, d
  <2>2. d.tools = tools /\ d.invalid = c.invalid /\ IsChat(d) /\ d = [c EXCEPT !.tools = d.tools, !.invalid = d.invalid]
    BY <2>1 DEF IsChat
  <2>3. QED
    BY <1>2, <2>2 DEF tools, d
<1>3. CASE ~(part.index \notin DOMAIN c.tools /\ part.id \in CallIds) /\ ~(part.index \in DOMAIN c.tools /\ part.id = None)
  <2>1. d = [c EXCEPT !.invalid = TRUE]
    BY <1>3 DEF ReadPart, Refused
  <2> HIDE DEF d
  <2>2. d.tools = c.tools /\ d.invalid = TRUE /\ IsChat(d) /\ d = [c EXCEPT !.tools = d.tools, !.invalid = d.invalid]
    BY <2>1 DEF IsChat
  <2>3. QED
    BY <2>2 DEF d
<1>4. QED
  BY <1>1, <1>2, <1>3

\* And keeps to what was sent.
LEMMA PartIsKept ==
    ASSUME NEW c, NEW part, NEW sent, IsChat(c), KeepsCalls(c, sent), ~ReadPart(c, part).invalid
    PROVE  KeepsCalls(ReadPart(c, part), AddPart(sent, part))
<1> DEFINE d == ReadPart(c, part)
           next == AddPart(sent, part)
<1>1. /\ DOMAIN c.tools = DOMAIN sent
      /\ \A i \in DOMAIN sent : c.tools[i] = [id |-> c.tools[i].id, arguments |-> sent[i]]
  BY DEF KeepsCalls
<1>2. /\ DOMAIN next = DOMAIN sent \cup {part.index}
      /\ \A i \in DOMAIN sent : i # part.index => next[i] = sent[i]
      /\ next[part.index] = IF part.index \in DOMAIN sent THEN sent[part.index] \o part.arguments ELSE part.arguments
  BY DEF AddPart
<1>3. \/ /\ part.index \notin DOMAIN c.tools
         /\ d.tools = [i \in DOMAIN c.tools \cup {part.index} |->
                IF i = part.index THEN [id |-> part.id, arguments |-> part.arguments] ELSE c.tools[i]]
      \/ /\ part.index \in DOMAIN c.tools
         /\ d.tools = [c.tools EXCEPT ![part.index].arguments = @ \o part.arguments]
  BY PartIsRead
<1> HIDE DEF d, next
<1>4. CASE /\ part.index \notin DOMAIN c.tools
           /\ d.tools = [i \in DOMAIN c.tools \cup {part.index} |->
                IF i = part.index THEN [id |-> part.id, arguments |-> part.arguments] ELSE c.tools[i]]
  <2>1. DOMAIN d.tools = DOMAIN next
    BY <1>1, <1>2, <1>4
  <2>2. d.tools[part.index] = [id |-> part.id, arguments |-> next[part.index]]
    BY <1>1, <1>2, <1>4
  <2>3. \A i \in DOMAIN sent : i # part.index => d.tools[i] = c.tools[i]
    BY <1>1, <1>4
  <2>4. part.index \notin DOMAIN sent
    BY <1>1, <1>4
  <2>5. ASSUME NEW i \in DOMAIN next PROVE d.tools[i] = [id |-> d.tools[i].id, arguments |-> next[i]]
    <3>1. CASE i = part.index
      BY <2>2, <3>1
    <3>2. CASE i # part.index
      <4>1. i \in DOMAIN sent
        BY <1>2, <2>5, <3>2
      <4>2. d.tools[i] = c.tools[i] /\ next[i] = sent[i]
        BY <1>2, <2>3, <3>2, <4>1
      <4>3. QED
        BY <1>1, <4>1, <4>2
    <3>3. QED
      BY <3>1, <3>2
  <2>6. KeepsCalls(d, next)
    BY <2>1, <2>5 DEF KeepsCalls
  <2>7. QED
    BY <2>6 DEF d, next
<1>5. CASE /\ part.index \in DOMAIN c.tools
           /\ d.tools = [c.tools EXCEPT ![part.index].arguments = @ \o part.arguments]
  <2>1. DOMAIN d.tools = DOMAIN next
    BY <1>1, <1>2, <1>5
  <2>2. c.tools[part.index] = [id |-> c.tools[part.index].id, arguments |-> sent[part.index]]
    BY <1>1, <1>5
  <2>3. d.tools[part.index] = [c.tools[part.index] EXCEPT !.arguments = @ \o part.arguments]
    BY <1>5
  <2>4. d.tools[part.index] = [id |-> c.tools[part.index].id, arguments |-> sent[part.index] \o part.arguments]
    <3>1. PICK old : old = c.tools[part.index]
      OBVIOUS
    <3>2. PICK new : new = d.tools[part.index]
      OBVIOUS
    <3>3. PICK tail : tail = part.arguments
      OBVIOUS
    <3>4. PICK kept : kept = sent[part.index]
      OBVIOUS
    <3>5. old = [id |-> old.id, arguments |-> kept] /\ new = [old EXCEPT !.arguments = @ \o tail]
      BY <2>2, <2>3, <3>1, <3>2, <3>3, <3>4
    <3>6. old.arguments = kept
      BY <3>5
    <3>7. PICK all : all = old.arguments \o tail
      OBVIOUS
    <3>8. new = [old EXCEPT !.arguments = all]
      BY <3>5, <3>7
    <3>9. PICK same : same = old.id
      OBVIOUS
    <3>10. old = [id |-> same, arguments |-> kept]
      BY <3>5, <3>9
    <3>11. new = [id |-> same, arguments |-> all]
      BY <3>8, <3>10
    <3>12. all = kept \o tail
      BY <3>6, <3>7
    <3>13. QED
      BY <3>1, <3>2, <3>3, <3>4, <3>9, <3>11, <3>12
  <2>5. d.tools[part.index] = [id |-> d.tools[part.index].id, arguments |-> next[part.index]]
    BY <1>1, <1>2, <1>5, <2>4
  <2>6. \A i \in DOMAIN sent : i # part.index => d.tools[i] = c.tools[i]
    BY <1>1, <1>5
  <2>7. ASSUME NEW i \in DOMAIN next PROVE d.tools[i] = [id |-> d.tools[i].id, arguments |-> next[i]]
    <3>1. CASE i = part.index
      BY <2>5, <3>1
    <3>2. CASE i # part.index
      <4>1. i \in DOMAIN sent
        BY <1>2, <2>7, <3>2
      <4>2. d.tools[i] = c.tools[i] /\ next[i] = sent[i]
        BY <1>2, <2>6, <3>2, <4>1
      <4>3. QED
        BY <1>1, <4>1, <4>2
    <3>3. QED
      BY <3>1, <3>2
  <2>8. KeepsCalls(d, next)
    BY <2>1, <2>7 DEF KeepsCalls
  <2>9. QED
    BY <2>8 DEF d, next
<1>6. QED
  BY <1>3, <1>4, <1>5

\* So do all the parts of a choice, in their order.
LEMMA PartsAreRead ==
    ASSUME NEW c, NEW sent, NEW S, NEW s \in Seq(S), IsChat(c)
    PROVE  /\ IsChat(FoldLeft(ReadPart, c, s)) /\ SameButCalls(FoldLeft(ReadPart, c, s), c)
           /\ c.invalid => FoldLeft(ReadPart, c, s).invalid
           /\ KeepsCalls(c, sent) /\ ~FoldLeft(ReadPart, c, s).invalid =>
                KeepsCalls(FoldLeft(ReadPart, c, s), FoldLeft(AddPart, sent, s))
<1>1. PICK g : /\ g[0] = c /\ g[Len(s)] = Reading!Folded(c, s)
               /\ \A n \in 1 .. Len(s) : g[n] = ReadPart(g[n - 1], s[n])
  BY Reading!FoldTrace
<1>2. PICK h : /\ h[0] = sent /\ h[Len(s)] = Adding!Folded(sent, s)
               /\ \A n \in 1 .. Len(s) : h[n] = AddPart(h[n - 1], s[n])
  BY Adding!FoldTrace
<1>3. Len(s) \in Nat
  OBVIOUS
<1> DEFINE Good(n) == /\ IsChat(g[n]) /\ SameButCalls(g[n], c) /\ (c.invalid => g[n].invalid)
                      /\ KeepsCalls(c, sent) /\ ~g[n].invalid => KeepsCalls(g[n], h[n])
           Bad == {n \in 0 .. Len(s) : ~Good(n)}
<1>4. ASSUME Bad # {} PROVE FALSE
  <2>1. PICK m \in Bad : \A k \in Bad : m <= k
    <3> HIDE DEF Bad
    <3>1. Bad \in SUBSET Nat
      BY <1>3 DEF Bad
    <3>2. QED
      BY <1>4, <3>1, Reading!Least
  <2>2. Good(0)
    BY <1>1, <1>2 DEF SameButCalls
  <2>3. m \in 1 .. Len(s) /\ m - 1 \in 0 .. Len(s) /\ m - 1 \notin Bad
    BY <1>3, <2>1, <2>2
  <2>4. Good(m - 1)
    BY <2>3
  <2> HIDE DEF Bad
  <2>5. g[m] = ReadPart(g[m - 1], s[m]) /\ h[m] = AddPart(h[m - 1], s[m])
    BY <1>1, <1>2, <2>3
  <2>6. /\ IsChat(g[m])
        /\ g[m] = [g[m - 1] EXCEPT !.tools = g[m].tools, !.invalid = g[m].invalid]
        /\ g[m - 1].invalid => g[m].invalid
    <3>1. PICK old : old = g[m - 1]
      OBVIOUS
    <3>2. PICK part : part = s[m]
      OBVIOUS
    <3>3. PICK new : new = ReadPart(old, part)
      OBVIOUS
    <3>4. IsChat(old)
      BY <2>4, <3>1
    <3>5. /\ IsChat(new)
          /\ new = [old EXCEPT !.tools = new.tools, !.invalid = new.invalid]
          /\ old.invalid => new.invalid
      BY <3>3, <3>4, PartIsRead
    <3>6. new = g[m]
      BY <2>5, <3>1, <3>2, <3>3
    <3>7. QED
      BY <3>1, <3>5, <3>6
  <2>7. SameButCalls(g[m], c)
    <3>1. PICK new : new = g[m]
      OBVIOUS
    <3>2. PICK old : old = g[m - 1]
      OBVIOUS
    <3>3. new = [old EXCEPT !.tools = new.tools, !.invalid = new.invalid] /\ IsChat(old) /\ SameButCalls(old, c)
      BY <2>4, <2>6, <3>1, <3>2
    <3>4. SameButCalls(new, c)
      BY <3>3 DEF SameButCalls, IsChat
    <3>5. QED
      BY <3>1, <3>4
  <2>8. KeepsCalls(c, sent) /\ ~g[m].invalid => KeepsCalls(g[m], h[m])
    BY <2>4, <2>5, <2>6, PartIsKept
  <2>9. Good(m)
    BY <2>4, <2>6, <2>7, <2>8
  <2>10. QED
    BY <2>1, <2>9 DEF Bad
<1>5. Len(s) \in 0 .. Len(s) /\ Len(s) \notin Bad
  BY <1>3, <1>4
<1>6. Good(Len(s))
  BY <1>5
<1>7. g[Len(s)] = FoldLeft(ReadPart, c, s) /\ h[Len(s)] = FoldLeft(AddPart, sent, s)
  BY <1>1, <1>2, ChatFolds
<1> HIDE DEF Bad
<1>8. QED
  BY <1>6, <1>7

\* What was sent is a function from the indexes.
LEMMA SentIsFunction ==
    ASSUME NEW sent, NEW S, NEW s \in Seq(S), sent = [i \in DOMAIN sent |-> sent[i]]
    PROVE  FoldLeft(AddPart, sent, s) = [i \in DOMAIN FoldLeft(AddPart, sent, s) |-> FoldLeft(AddPart, sent, s)[i]]
<1>1. PICK h : /\ h[0] = sent /\ h[Len(s)] = Adding!Folded(sent, s)
               /\ \A n \in 1 .. Len(s) : h[n] = AddPart(h[n - 1], s[n])
  BY Adding!FoldTrace
<1>2. h[Len(s)] = FoldLeft(AddPart, sent, s)
  BY <1>1, ChatFolds
<1>3. \A old, part : AddPart(old, part) = [i \in DOMAIN AddPart(old, part) |-> AddPart(old, part)[i]]
  BY DEF AddPart
<1>4. Len(s) = 0 \/ Len(s) \in 1 .. Len(s)
  OBVIOUS
<1>5. h[Len(s)] = [i \in DOMAIN h[Len(s)] |-> h[Len(s)][i]]
  BY <1>1, <1>3, <1>4
<1>6. QED
  BY <1>2, <1>5

\* A frame without a choice adds nothing, a choice adds its parts.
LEMMA FrameIsSent ==
    ASSUME NEW fs \in Seq(ChatFrames), NEW f \in ChatFrames
    PROVE  SentIn(Append(fs, f)) = AddFrame(SentIn(fs), f)
<1>1. Sending!Folded(<<>>, Append(fs, f)) = AddFrame(Sending!Folded(<<>>, fs), f)
  BY Sending!FoldAppend
<1>2. SentIn(fs) = Sending!Folded(<<>>, fs) /\ SentIn(Append(fs, f)) = Sending!Folded(<<>>, Append(fs, f))
  BY ChatFolds DEF SentIn
<1>3. QED
  BY <1>1, <1>2

\* The chunks of one frame more.
LEMMA ChunkIsCounted ==
    ASSUME NEW fs \in Seq(ChatFrames), NEW f \in ChatFrames
    PROVE  /\ \A n \in ChunksIn(fs) : n \in 1 .. Len(fs) /\ Append(fs, f)[n] = fs[n]
           /\ Append(fs, f)[Len(fs) + 1] = f
           /\ f.kind # "chunk" => ChunksIn(Append(fs, f)) = ChunksIn(fs)
           /\ f.kind = "chunk" => ChunksIn(Append(fs, f)) = ChunksIn(fs) \cup {Len(fs) + 1}
<1> DEFINE k == Len(fs)
           gs == Append(fs, f)
<1>1. /\ k \in Nat /\ DOMAIN fs = 1 .. k /\ DOMAIN gs = 1 .. k + 1 /\ gs[k + 1] = f
      /\ \A n \in 1 .. k : gs[n] = fs[n]
  OBVIOUS
<1> HIDE DEF k, gs
<1>2. \A n \in 1 .. k + 1 : n \in 1 .. k \/ n = k + 1
  BY <1>1
<1>3. \A n \in 1 .. k : n \in 1 .. k + 1 /\ n # k + 1
  BY <1>1
<1>4. k + 1 \in 1 .. k + 1
  BY <1>1
<1>5. \A n \in ChunksIn(fs) : n \in 1 .. k /\ gs[n] = fs[n]
  BY <1>1 DEF ChunksIn
<1>6. \A n : n \in ChunksIn(gs) <=> n \in ChunksIn(fs) \/ (n = k + 1 /\ f.kind = "chunk")
  BY <1>1, <1>2, <1>3, <1>4 DEF ChunksIn
<1>7. f.kind # "chunk" => ChunksIn(gs) = ChunksIn(fs)
  BY <1>6
<1>8. f.kind = "chunk" => ChunksIn(gs) = ChunksIn(fs) \cup {k + 1}
  BY <1>6
<1>9. QED
  BY <1>1, <1>5, <1>7, <1>8 DEF k, gs

\* A frame that says nothing leaves what is told.
LEMMA QuietFrameIsSent ==
    ASSUME NEW fs \in Seq(ChatFrames), NEW f \in ChatFrames, NEW c, TellsFrames(c, fs), f.kind # "chunk"
    PROVE  TellsFrames(c, Append(fs, f))
<1> DEFINE gs == Append(fs, f)
<1>1. /\ \A n \in ChunksIn(fs) : gs[n] = fs[n]
      /\ ChunksIn(gs) = ChunksIn(fs)
  BY ChunkIsCounted
<1>2. SentIn(gs) = SentIn(fs)
  BY FrameIsSent DEF AddFrame
<1> HIDE DEF gs
<1>3. {n \in ChunksIn(gs) : gs[n].text} = {n \in ChunksIn(fs) : fs[n].text}
  BY <1>1
<1>4. \A n : LastIn(gs, n) <=> LastIn(fs, n)
  BY <1>1 DEF LastIn
<1>5. TellsFrames(c, gs)
  BY <1>1, <1>2, <1>3, <1>4 DEF TellsFrames, LastIn
<1>6. QED
  BY <1>5 DEF gs

\* What the reader does on a frame that is no choice.
LEMMA QuietFrameIsRead ==
    ASSUME NEW fs \in Seq(ChatFrames), NEW c, NEW f, IsChat(c), TellsFrames(c, fs), f.kind # "chunk",
           SentIn(fs) = [i \in DOMAIN SentIn(fs) |-> SentIn(fs)[i]]
    PROVE  IsChat(Consume(c, f)) /\ TellsFrames(Consume(c, f), fs)
<1> DEFINE d == Consume(c, f)
<1>1. CASE d = Refused(c)
  <2>1. d.invalid /\ IsChat(d)
    BY <1>1 DEF Refused, IsChat
  <2>2. QED
    BY <2>1 DEF TellsFrames
<1>2. CASE d = c
  BY <1>2
<1>3. CASE d = [c EXCEPT !.duplicateDone = TRUE] \/ d = [c EXCEPT !.usage = TRUE]
  <2> HIDE DEF d
  <2>1. /\ IsChat(d) /\ d.invalid = c.invalid /\ d.tools = c.tools /\ d.texts = c.texts
        /\ d.finish = c.finish /\ d.completion = c.completion
    BY <1>3 DEF IsChat
  <2>2. TellsFrames(d, fs)
    BY <2>1 DEF TellsFrames, KeepsCalls
  <2>3. QED
    BY <2>1, <2>2 DEF d
<1>4. CASE d = Completed(c) /\ c.finish # None
  <2> DEFINE calls == [i \in DOMAIN c.tools |-> c.tools[i].arguments]
  <2>1. d = [c EXCEPT !.completion = {[finish |-> c.finish, calls |-> calls]}]
    BY <1>4 DEF Completed
  <2> HIDE DEF d, calls
  <2>2. /\ IsChat(d) /\ d.invalid = c.invalid /\ d.tools = c.tools /\ d.texts = c.texts
        /\ d.finish = c.finish /\ d.completion = {[finish |-> c.finish, calls |-> calls]}
    BY <2>1 DEF IsChat
  <2>3. ASSUME ~c.invalid PROVE calls = SentIn(fs)
    <3>1. DOMAIN c.tools = DOMAIN SentIn(fs)
      BY <2>3 DEF TellsFrames, KeepsCalls
    <3>2. \A i \in DOMAIN SentIn(fs) : c.tools[i] = [id |-> c.tools[i].id, arguments |-> SentIn(fs)[i]]
      BY <2>3 DEF TellsFrames, KeepsCalls
    <3>3. ASSUME NEW i \in DOMAIN SentIn(fs) PROVE c.tools[i].arguments = SentIn(fs)[i]
      <4>1. PICK call : call = c.tools[i]
        OBVIOUS
      <4>2. PICK kept : kept = SentIn(fs)[i]
        OBVIOUS
      <4>3. call = [id |-> call.id, arguments |-> kept]
        BY <3>2, <4>1, <4>2
      <4>4. call.arguments = kept
        BY <4>3
      <4>5. QED
        BY <4>1, <4>2, <4>4
    <3>4. PICK sent : sent = SentIn(fs)
      OBVIOUS
    <3>5. calls = [i \in DOMAIN sent |-> sent[i]]
      BY <3>1, <3>3, <3>4 DEF calls
    <3>6. QED
      BY <3>4, <3>5
  <2>4. TellsFrames(d, fs)
    BY <1>4, <2>2, <2>3 DEF TellsFrames, KeepsCalls
  <2>5. QED
    BY <2>2, <2>4 DEF d
<1>5. d = Refused(c) \/ d = c \/ d = [c EXCEPT !.duplicateDone = TRUE] \/ d = [c EXCEPT !.usage = TRUE]
        \/ (d = Completed(c) /\ c.finish # None)
  BY DEF Consume
<1>6. QED
  BY <1>1, <1>2, <1>3, <1>4, <1>5

\* And on a choice.
LEMMA ChoiceIsRead ==
    ASSUME ChatAssumption, NEW fs \in Seq(ChatFrames), NEW c, NEW f \in ChatFrames, IsChat(c), TellsFrames(c, fs),
           f.kind = "chunk"
    PROVE  IsChat(Consume(c, f)) /\ TellsFrames(Consume(c, f), Append(fs, f))
<1> DEFINE d == Consume(c, f)
           gs == Append(fs, f)
           read == FoldLeft(ReadPart, c, f.tools)
<1>1. CASE d = Refused(c) \/ c.invalid
  <2>1. d = Refused(c) \/ d = c
    BY <1>1 DEF Consume
  <2>2. d.invalid /\ IsChat(d)
    BY <1>1, <2>1 DEF Refused, IsChat
  <2>3. QED
    BY <2>2 DEF TellsFrames
<1>2. CASE ~c.invalid /\ c.completion = {} /\ c.finish = None /\ d = ReadChunk(c, f)
  <2>1. f.tools \in Seq(Range(f.tools))
    BY DEF ChatAssumption
  <2>2. /\ IsChat(read) /\ SameButCalls(read, c)
        /\ ~read.invalid => KeepsCalls(read, FoldLeft(AddPart, SentIn(fs), f.tools))
    <3>1. KeepsCalls(c, SentIn(fs))
      BY <1>2 DEF TellsFrames
    <3>2. QED
      BY <2>1, <3>1, PartsAreRead
  <2>3. SentIn(gs) = FoldLeft(AddPart, SentIn(fs), f.tools)
    BY FrameIsSent DEF AddFrame
  <2>4. d = [read EXCEPT !.texts = IF f.text THEN @ + 1 ELSE @, !.finish = IF f.finish = None THEN @ ELSE f.finish]
    BY <1>2 DEF ReadChunk
  <2> HIDE DEF d, read
  <2>5. /\ IsChat(d) /\ d.tools = read.tools /\ d.invalid = read.invalid /\ d.completion = {}
        /\ d.finish = f.finish /\ d.texts = IF f.text THEN c.texts + 1 ELSE c.texts
    <3> DEFINE texts == IF f.text THEN read.texts + 1 ELSE read.texts
               finish == IF f.finish = None THEN read.finish ELSE f.finish
    <3>1. d = [read EXCEPT !.texts = texts, !.finish = finish]
      BY <2>4
    <3> HIDE DEF texts, finish
    <3>2. IsChat(d) /\ d.tools = read.tools /\ d.invalid = read.invalid /\ d.completion = read.completion
            /\ d.finish = finish /\ d.texts = texts
      BY <2>2, <3>1 DEF IsChat
    <3>3. finish = f.finish
      BY <1>2, <2>2 DEF SameButCalls, finish
    <3>4. texts = IF f.text THEN c.texts + 1 ELSE c.texts
      BY <2>2 DEF SameButCalls, texts
    <3>5. QED
      BY <1>2, <2>2, <3>2, <3>3, <3>4 DEF SameButCalls
  <2> DEFINE k == Len(fs) + 1
  <2>6. /\ \A n \in ChunksIn(fs) : n < k /\ gs[n] = fs[n]
        /\ gs[k] = f /\ ChunksIn(gs) = ChunksIn(fs) \cup {k} /\ k \in Nat
    <3>1. /\ \A n \in ChunksIn(fs) : n \in 1 .. Len(fs) /\ gs[n] = fs[n]
          /\ gs[k] = f /\ ChunksIn(gs) = ChunksIn(fs) \cup {k}
      BY ChunkIsCounted
    <3>2. Len(fs) \in Nat
      OBVIOUS
    <3>3. \A n \in 1 .. Len(fs) : n < k
      BY <3>2
    <3>4. k \in Nat
      BY <3>2
    <3>5. QED
      BY <3>1, <3>3, <3>4
  <2> DEFINE said == {n \in ChunksIn(fs) : fs[n].text}
  <2>7. c.texts = Cardinality(said) /\ \A n \in ChunksIn(fs) : fs[n].finish = None
    BY <1>2 DEF TellsFrames
  <2>8. IsFiniteSet(said) /\ k \notin said
    <3>1. Len(fs) \in Nat /\ said \subseteq 1 .. Len(fs)
      BY DEF ChunksIn
    <3>2. IsFiniteSet(1 .. Len(fs))
      BY <3>1, FS_Interval
    <3>3. k \notin 1 .. Len(fs)
      BY <3>1
    <3>4. QED
      BY <3>1, <3>2, <3>3, FS_Subset
  <2> HIDE DEF gs, k
  <2>9. {n \in ChunksIn(gs) : gs[n].text} = IF f.text THEN said \cup {k} ELSE said
    BY <2>6
  <2> HIDE DEF said
  <2>10. d.texts = Cardinality({n \in ChunksIn(gs) : gs[n].text})
    <3>1. Cardinality(said \cup {k}) = Cardinality(said) + 1
      BY <2>8, FS_AddElement
    <3>2. QED
      BY <2>5, <2>7, <2>9, <3>1
  <2>11. LastIn(gs, k)
    <3>1. \A m \in ChunksIn(gs) : m <= k
      <4>1. \A m \in ChunksIn(fs) : m \in Nat
        BY DEF ChunksIn
      <4>2. QED
        BY <2>6, <4>1
    <3>2. QED
      BY <2>6, <3>1 DEF LastIn
  <2>12. \A n \in ChunksIn(gs) : gs[n].finish # None => LastIn(gs, n) /\ d.finish = gs[n].finish
    BY <2>5, <2>6, <2>7, <2>11
  <2>13. d.finish # None => \E n \in ChunksIn(gs) : LastIn(gs, n) /\ d.finish = gs[n].finish
    BY <2>5, <2>6, <2>11
  <2>14. ~d.invalid => KeepsCalls(d, SentIn(gs))
    BY <2>2, <2>3, <2>5 DEF KeepsCalls
  <2>15. TellsFrames(d, gs)
    BY <2>5, <2>10, <2>12, <2>13, <2>14 DEF TellsFrames
  <2>16. QED
    BY <2>5, <2>15 DEF d, gs
<1>3. \/ d = Refused(c) \/ c.invalid
      \/ ~c.invalid /\ c.completion = {} /\ c.finish = None /\ d = ReadChunk(c, f)
  BY DEF Consume, Repeats, TakesChunk
<1>4. QED
  BY <1>1, <1>2, <1>3

\* The boundary's reader always has what the frames say.
LEMMA ReaderInvHolds ==
    ASSUME ChatAssumption
    PROVE  /\ ChatInit => ReaderInv
           /\ ReaderInv /\ [ChatNext]_chatVars => ReaderInv'
<1>1. ASSUME ChatInit PROVE ReaderInv
  <2>1. frames = <<>> /\ <<>> \in Seq(ChatFrames) /\ Len(<<>>) = 0
    BY <1>1 DEF ChatInit
  <2>2. SentIn(frames) = <<>>
    <3>1. Sending!Folded(<<>>, frames) = <<>>
      BY <2>1, Sending!FoldNothing
    <3>2. QED
      BY <3>1, ChatFolds DEF SentIn
  <2>3. ChunksIn(frames) = {}
    BY <2>1 DEF ChunksIn
  <2>4. IsChat(chat)
    BY <1>1 DEF ChatInit, ChatStreamInit, IsChat
  <2>5. chat.tools = <<>> /\ chat.texts = 0 /\ chat.finish = None /\ chat.completion = {}
    BY <1>1 DEF ChatInit, ChatStreamInit
  <2>6. DOMAIN <<>> = {} /\ <<>> = [i \in DOMAIN <<>> |-> <<>>[i]]
    OBVIOUS
  <2>7. TellsFrames(chat, frames)
    <3>1. {n \in ChunksIn(frames) : frames[n].text} = {}
      BY <2>3
    <3>2. Cardinality({n \in ChunksIn(frames) : frames[n].text}) = 0
      BY <3>1, FS_EmptySet
    <3>3. KeepsCalls(chat, SentIn(frames))
      BY <2>2, <2>5, <2>6 DEF KeepsCalls
    <3>4. QED
      BY <2>3, <2>5, <3>2, <3>3 DEF TellsFrames
  <2>8. QED
    BY <2>1, <2>2, <2>4, <2>6, <2>7 DEF ReaderInv
<1>2. ASSUME ReaderInv, [ChatNext]_chatVars PROVE ReaderInv'
  <2> DEFINE Marked == [kind |-> "done"]
  <2>1. CASE UNCHANGED chatVars
    BY <1>2, <2>1 DEF ReaderInv, chatVars, IsChat, TellsFrames, SentIn
  <2>2. ASSUME NEW f \in ChatFrames, ProviderSends(f) PROVE ReaderInv'
    <3>1. frames' = Append(frames, f) /\ chat' = Consume(chat, f) /\ frames' \in Seq(ChatFrames)
      BY <1>2, <2>2 DEF ProviderSends, ReaderInv
    <3>2. /\ frames \in Seq(ChatFrames) /\ IsChat(chat) /\ TellsFrames(chat, frames)
          /\ SentIn(frames) = [i \in DOMAIN SentIn(frames) |-> SentIn(frames)[i]]
      BY <1>2 DEF ReaderInv
    <3>3. SentIn(frames') = [i \in DOMAIN SentIn(frames') |-> SentIn(frames')[i]]
      <4>1. SentIn(frames') = AddFrame(SentIn(frames), f)
        BY <3>1, <3>2, FrameIsSent
      <4>2. CASE f.kind = "chunk"
        <5>1. f.tools \in Seq(Range(f.tools))
          BY <4>2 DEF ChatAssumption
        <5>2. SentIn(frames') = FoldLeft(AddPart, SentIn(frames), f.tools)
          BY <4>1, <4>2 DEF AddFrame
        <5>3. QED
          BY <3>2, <5>1, <5>2, SentIsFunction
      <4>3. CASE f.kind # "chunk"
        BY <3>2, <4>1, <4>3 DEF AddFrame
      <4>4. QED
        BY <4>2, <4>3
    <3>4. IsChat(Consume(chat, f)) /\ TellsFrames(Consume(chat, f), Append(frames, f))
      <4>1. CASE f.kind = "chunk"
        BY <3>2, <4>1, ChoiceIsRead
      <4>2. CASE f.kind # "chunk"
        <5>1. IsChat(Consume(chat, f)) /\ TellsFrames(Consume(chat, f), frames)
          BY <3>2, <4>2, QuietFrameIsRead
        <5>2. QED
          BY <3>2, <4>2, <5>1, QuietFrameIsSent
      <4>3. QED
        BY <4>1, <4>2
    <3>5. QED
      BY <3>1, <3>3, <3>4 DEF ReaderInv, IsChat, TellsFrames, SentIn
  <2>3. IsChat(Consume(chat, Marked)) /\ TellsFrames(Consume(chat, Marked), frames)
    <3>1. Marked.kind # "chunk"
      OBVIOUS
    <3>2. QED
      BY <1>2, <3>1, QuietFrameIsRead DEF ReaderInv
  <2>4. ASSUME chat' = chat \/ chat' = Consume(chat, Marked), frames' = frames PROVE ReaderInv'
    <3>1. IsChat(chat') /\ TellsFrames(chat', frames')
      BY <1>2, <2>3, <2>4 DEF ReaderInv
    <3>2. QED
      BY <1>2, <2>4, <3>1 DEF ReaderInv, IsChat, TellsFrames, SentIn
  <2>5. CASE RouterRepeatsDone
    BY <2>4, <2>5 DEF RouterRepeatsDone
  <2>6. ASSUME NEW how \in {"eof", "cut"}, ChatEnds(how) PROVE ReaderInv'
    BY <2>4, <2>6 DEF ChatEnds, AtEnd
  <2>7. QED
    BY <1>2, <2>1, <2>2, <2>5, <2>6 DEF ChatNext
<1>3. QED
  BY <1>1, <1>2

\* What that says of what is released.
LEMMA ReaderTellsTheStream == ReaderInv => CompletionIsTheStream
<1> SUFFICES ASSUME ReaderInv, Released PROVE
        /\ \A n \in Chunks : frames[n].finish # None <=> LastChunk(n)
        /\ \E n \in Chunks : LastChunk(n) /\ chat.completion = {[finish |-> frames[n].finish, calls |-> CallsSent]}
        /\ chat.texts = Cardinality({n \in Chunks : frames[n].text})
  BY DEF CompletionIsTheStream
<1>1. /\ chat.texts = Cardinality({n \in ChunksIn(frames) : frames[n].text})
      /\ \A n \in ChunksIn(frames) : frames[n].finish # None => LastIn(frames, n) /\ chat.finish = frames[n].finish
      /\ \E n \in ChunksIn(frames) : LastIn(frames, n) /\ chat.finish = frames[n].finish
      /\ chat.finish # None /\ chat.completion = {[finish |-> chat.finish, calls |-> SentIn(frames)]}
  BY DEF ReaderInv, TellsFrames, Released
<1>2. Chunks = ChunksIn(frames) /\ CallsSent = SentIn(frames)
  BY DEF Chunks, ChunksIn, CallsSent, SentIn
<1>3. \A n : LastChunk(n) <=> LastIn(frames, n)
  BY <1>2 DEF LastChunk, LastIn
<1>4. PICK last \in Chunks : LastChunk(last) /\ chat.finish = frames[last].finish
  BY <1>1, <1>2, <1>3
<1>5. \A n \in Chunks : LastChunk(n) => n = last
  <2>1. \A n \in Chunks : n \in Nat
    BY <1>2 DEF ReaderInv, ChunksIn
  <2>2. QED
    BY <1>4, <2>1 DEF LastChunk
<1>6. \A n \in Chunks : frames[n].finish # None <=> LastChunk(n)
  BY <1>1, <1>2, <1>3, <1>4, <1>5
<1>7. QED
  BY <1>1, <1>2, <1>4, <1>6

IsObserver(o) ==
    /\ o = [response |-> o.response, tools |-> o.tools, finish |-> o.finish, done |-> o.done, invalid |-> o.invalid]
    /\ o.invalid \in BOOLEAN /\ \E S : o.tools \in Seq(S)
    /\ \A i \in DOMAIN o.tools : o.tools[i] = [id |-> o.tools[i].id, arguments |-> o.tools[i].arguments]

\* The calls stay what they are, others may follow.
KeepsIds(d, o) == \A i \in DOMAIN o.tools : i \in DOMAIN d.tools /\ d.tools[i].id = o.tools[i].id

\* The observer's calls have identities the boundary takes, each its own.
Known(o) == \A i \in DOMAIN o.tools : o.tools[i].id \in CallIds
OwnIds(o) == \A i, j \in DOMAIN o.tools : o.tools[i].id = o.tools[j].id => i = j
SameCalls(c, o) == c.tools = [i \in DOMAIN o.tools |-> o.tools[i]]

-----------------------------------------------------------------------------
\* What the observer makes of a part.
LEMMA PartIsObserved ==
    ASSUME NEW o, NEW part, IsObserver(o)
    PROVE  /\ IsObserver(ToolFragment(o, part)) /\ KeepsIds(ToolFragment(o, part), o)
           /\ ToolFragment(o, part).finish = o.finish /\ ToolFragment(o, part).done = o.done
           /\ ToolFragment(o, part).response = o.response
           /\ o.invalid => ToolFragment(o, part).invalid
           /\ ~ToolFragment(o, part).invalid =>
                \/ /\ Declares(o, part) /\ DOMAIN ToolFragment(o, part).tools = DOMAIN o.tools \cup {part.index}
                   /\ ToolFragment(o, part).tools[part.index] = [id |-> part.id, arguments |-> part.arguments]
                   /\ \A i \in DOMAIN o.tools : i # part.index /\ ToolFragment(o, part).tools[i] = o.tools[i]
                \/ /\ part.index \in DOMAIN o.tools /\ part.id = None
                   /\ DOMAIN ToolFragment(o, part).tools = DOMAIN o.tools
                   /\ ToolFragment(o, part).tools[part.index] = [o.tools[part.index] EXCEPT !.arguments = @ \o part.arguments]
                   /\ \A i \in DOMAIN o.tools : i # part.index => ToolFragment(o, part).tools[i] = o.tools[i]
<1> DEFINE d == ToolFragment(o, part)
<1>1. PICK S : o.tools \in Seq(S)
  BY DEF IsObserver
<1>2. PICK calls : calls = o.tools
  OBVIOUS
<1>3. /\ calls \in Seq(S) /\ Len(calls) \in Nat /\ DOMAIN calls = 1 .. Len(calls)
      /\ \A i \in DOMAIN calls : calls[i] = [id |-> calls[i].id, arguments |-> calls[i].arguments]
  BY <1>1, <1>2 DEF IsObserver
<1>4. CASE Declares(o, part)
  <2>1. PICK e : e = [id |-> part.id, arguments |-> part.arguments]
    OBVIOUS
  <2>2. PICK next : next = Append(calls, e)
    OBVIOUS
  <2>3. d = [o EXCEPT !.tools = next]
    BY <1>2, <1>4, <2>1, <2>2 DEF ToolFragment
  <2> HIDE DEF d
  <2>4. d.tools = next /\ d.invalid = o.invalid /\ d.finish = o.finish /\ d.done = o.done /\ d.response = o.response
          /\ d = [response |-> d.response, tools |-> d.tools, finish |-> d.finish, done |-> d.done, invalid |-> d.invalid]
    BY <2>3 DEF IsObserver
  <2>5. part.index = Len(calls) + 1
    BY <1>2, <1>4 DEF Declares
  <2>6. /\ next \in Seq(S \cup {e}) /\ DOMAIN next = 1 .. Len(calls) + 1 /\ next[Len(calls) + 1] = e
        /\ \A i \in 1 .. Len(calls) : next[i] = calls[i]
    <3>1. calls \in Seq(S \cup {e}) /\ e \in S \cup {e}
      BY <1>3
    <3>2. QED
      BY <2>2, <3>1
  <2>7. DOMAIN next = DOMAIN calls \cup {part.index} /\ \A i \in DOMAIN calls : i # part.index /\ i \in DOMAIN next
    BY <1>3, <2>5, <2>6
  <2>8. e = [id |-> e.id, arguments |-> e.arguments]
    BY <2>1
  <2>9. \A i \in DOMAIN next : next[i] = [id |-> next[i].id, arguments |-> next[i].arguments]
    <3> SUFFICES ASSUME NEW i \in DOMAIN next PROVE next[i] = [id |-> next[i].id, arguments |-> next[i].arguments]
      OBVIOUS
    <3>1. next[i] = e \/ (i \in DOMAIN calls /\ next[i] = calls[i])
      BY <1>3, <2>5, <2>6, <2>7
    <3>2. QED
      BY <1>3, <2>8, <3>1
  <2>10. IsObserver(d)
    BY <2>4, <2>6, <2>9 DEF IsObserver
  <2>11. KeepsIds(d, o)
    BY <1>2, <1>3, <2>4, <2>6, <2>7 DEF KeepsIds
  <2>12. /\ DOMAIN d.tools = DOMAIN o.tools \cup {part.index}
         /\ d.tools[part.index] = [id |-> part.id, arguments |-> part.arguments]
         /\ \A i \in DOMAIN o.tools : i # part.index /\ d.tools[i] = o.tools[i]
    BY <1>2, <1>3, <2>1, <2>4, <2>5, <2>6, <2>7
  <2>13. QED
    BY <1>4, <2>4, <2>10, <2>11, <2>12 DEF d
<1>5. CASE ~Declares(o, part) /\ part.index \in DOMAIN o.tools /\ part.id = None
  <2>1. PICK old : old = calls[part.index]
    OBVIOUS
  <2>2. PICK arguments : arguments = old.arguments \o part.arguments
    OBVIOUS
  <2>3. PICK e : e = [old EXCEPT !.arguments = arguments]
    OBVIOUS
  <2>4. PICK next : next = [calls EXCEPT ![part.index] = e]
    OBVIOUS
  <2>5. d = [o EXCEPT !.tools = next]
    <3>1. d = [o EXCEPT !.tools[part.index].arguments = @ \o part.arguments]
      BY <1>5 DEF ToolFragment
    <3>2. QED
      BY <1>2, <2>1, <2>2, <2>3, <2>4, <3>1
  <2> HIDE DEF d
  <2>6. d.tools = next /\ d.invalid = o.invalid /\ d.finish = o.finish /\ d.done = o.done /\ d.response = o.response
          /\ d = [response |-> d.response, tools |-> d.tools, finish |-> d.finish, done |-> d.done, invalid |-> d.invalid]
    BY <2>5 DEF IsObserver
  <2>7. part.index \in 1 .. Len(calls)
    BY <1>2, <1>3, <1>5
  <2>8. /\ next \in Seq(S \cup {e}) /\ DOMAIN next = DOMAIN calls /\ next[part.index] = e
        /\ \A i \in DOMAIN calls : i # part.index => next[i] = calls[i]
    BY <1>3, <2>4, <2>7
  <2>9. old = [id |-> old.id, arguments |-> old.arguments]
    BY <1>3, <2>1, <2>7
  <2>10. e = [id |-> old.id, arguments |-> arguments]
    BY <2>3, <2>9
  <2>11. e.id = old.id /\ e = [id |-> e.id, arguments |-> e.arguments]
    BY <2>10
  <2>12. \A i \in DOMAIN next : next[i] = [id |-> next[i].id, arguments |-> next[i].arguments]
    <3> SUFFICES ASSUME NEW i \in DOMAIN next PROVE next[i] = [id |-> next[i].id, arguments |-> next[i].arguments]
      OBVIOUS
    <3>1. next[i] = e \/ (i \in DOMAIN calls /\ next[i] = calls[i])
      BY <2>8
    <3>2. QED
      BY <1>3, <2>11, <3>1
  <2>13. IsObserver(d)
    BY <2>6, <2>8, <2>12 DEF IsObserver
  <2>14. KeepsIds(d, o)
    <3> SUFFICES ASSUME NEW i \in DOMAIN calls PROVE next[i].id = calls[i].id
      BY <1>2, <2>6, <2>8 DEF KeepsIds
    <3>1. CASE i = part.index
      BY <2>1, <2>8, <2>11, <3>1
    <3>2. CASE i # part.index
      BY <2>8, <3>2
    <3>3. QED
      BY <3>1, <3>2
  <2>15. /\ DOMAIN d.tools = DOMAIN o.tools
         /\ d.tools[part.index] = [o.tools[part.index] EXCEPT !.arguments = @ \o part.arguments]
         /\ \A i \in DOMAIN o.tools : i # part.index => d.tools[i] = o.tools[i]
    BY <1>2, <2>1, <2>2, <2>3, <2>6, <2>8
  <2>16. QED
    BY <1>5, <2>6, <2>13, <2>14, <2>15 DEF d
<1>6. CASE ~Declares(o, part) /\ ~(part.index \in DOMAIN o.tools /\ part.id = None)
  <2>1. d = [o EXCEPT !.invalid = TRUE]
    BY <1>6 DEF ToolFragment
  <2> HIDE DEF d
  <2>2. d.tools = o.tools /\ d.invalid = TRUE /\ d.finish = o.finish /\ d.done = o.done /\ d.response = o.response
          /\ d = [response |-> d.response, tools |-> d.tools, finish |-> d.finish, done |-> d.done, invalid |-> d.invalid]
    BY <2>1 DEF IsObserver
  <2>3. IsObserver(d) /\ KeepsIds(d, o)
    BY <2>2 DEF IsObserver, KeepsIds
  <2>4. QED
    BY <2>2, <2>3 DEF d
<1>7. QED
  BY <1>4, <1>5, <1>6

\* A part the observer takes the boundary takes as well.
LEMMA PartIsReadAlike ==
    ASSUME ChatAssumption, NEW o, NEW c, NEW part, IsObserver(o), IsChat(c), SameCalls(c, o), OwnIds(o), ~c.invalid,
           ~ToolFragment(o, part).invalid, Known(ToolFragment(o, part))
    PROVE  /\ ~ReadPart(c, part).invalid /\ SameCalls(ReadPart(c, part), ToolFragment(o, part))
           /\ OwnIds(ToolFragment(o, part)) /\ ToolFragment(o, part).tools # <<>>
<1>1. PICK a : a = ToolFragment(o, part)
  OBVIOUS
<1>2. PICK d : d = ReadPart(c, part)
  OBVIOUS
<1>3. PICK k : k = part.index
  OBVIOUS
<1>4. /\ IsObserver(a) /\ KeepsIds(a, o)
      /\ \/ /\ Declares(o, part) /\ DOMAIN a.tools = DOMAIN o.tools \cup {k}
            /\ a.tools[k] = [id |-> part.id, arguments |-> part.arguments]
            /\ \A i \in DOMAIN o.tools : i # k /\ a.tools[i] = o.tools[i]
         \/ /\ k \in DOMAIN o.tools /\ part.id = None
            /\ DOMAIN a.tools = DOMAIN o.tools
            /\ a.tools[k] = [o.tools[k] EXCEPT !.arguments = @ \o part.arguments]
            /\ \A i \in DOMAIN o.tools : i # k => a.tools[i] = o.tools[i]
  BY <1>1, <1>3, PartIsObserved
<1>5. DOMAIN c.tools = DOMAIN o.tools /\ \A i \in DOMAIN o.tools : c.tools[i] = o.tools[i]
  BY DEF SameCalls
<1>6. CASE /\ Declares(o, part) /\ DOMAIN a.tools = DOMAIN o.tools \cup {k}
           /\ a.tools[k] = [id |-> part.id, arguments |-> part.arguments]
           /\ \A i \in DOMAIN o.tools : i # k /\ a.tools[i] = o.tools[i]
  <2>1. PICK e : e = a.tools[k]
    OBVIOUS
  <2>2. e = [id |-> part.id, arguments |-> part.arguments] /\ e.id = part.id
    BY <1>6, <2>1
  <2>3. part.id \in CallIds
    BY <1>1, <1>6, <2>1, <2>2 DEF Known
  <2>4. k \notin DOMAIN c.tools
    BY <1>5, <1>6
  <2>5. d = [c EXCEPT !.tools = [i \in DOMAIN c.tools \cup {k} |-> IF i = k THEN e ELSE c.tools[i]]]
    BY <1>2, <1>3, <2>2, <2>3, <2>4 DEF ReadPart
  <2>6. d.tools = [i \in DOMAIN c.tools \cup {k} |-> IF i = k THEN e ELSE c.tools[i]] /\ d.invalid = c.invalid
    BY <2>5 DEF IsChat
  <2>7. d.tools = [i \in DOMAIN a.tools |-> a.tools[i]]
    BY <1>5, <1>6, <2>1, <2>6
  <2>8. OwnIds(a)
    <3>1. \A i \in DOMAIN o.tools : o.tools[i].id # part.id
      BY <1>6 DEF Declares
    <3>2. ASSUME NEW i \in DOMAIN a.tools, NEW j \in DOMAIN a.tools, a.tools[i].id = a.tools[j].id PROVE i = j
      <4>1. i = k \/ (i \in DOMAIN o.tools /\ a.tools[i] = o.tools[i])
        BY <1>6
      <4>2. j = k \/ (j \in DOMAIN o.tools /\ a.tools[j] = o.tools[j])
        BY <1>6
      <4>3. a.tools[k].id = part.id
        BY <2>1, <2>2
      <4>4. QED
        BY <3>1, <3>2, <4>1, <4>2, <4>3 DEF OwnIds
    <3>3. QED
      BY <3>2 DEF OwnIds
  <2>9. a.tools # <<>>
    BY <1>6
  <2>10. QED
    BY <1>1, <1>2, <2>6, <2>7, <2>8, <2>9 DEF SameCalls
<1>7. CASE /\ k \in DOMAIN o.tools /\ part.id = None
           /\ DOMAIN a.tools = DOMAIN o.tools
           /\ a.tools[k] = [o.tools[k] EXCEPT !.arguments = @ \o part.arguments]
           /\ \A i \in DOMAIN o.tools : i # k => a.tools[i] = o.tools[i]
  <2>1. PICK e : e = a.tools[k]
    OBVIOUS
  <2>2. part.id \notin CallIds
    BY <1>7 DEF ChatAssumption
  <2>3. d = [c EXCEPT !.tools[k].arguments = @ \o part.arguments]
    BY <1>2, <1>3, <1>5, <1>7, <2>2 DEF ReadPart
  <2>4. e = [c.tools[k] EXCEPT !.arguments = @ \o part.arguments]
    BY <1>5, <1>7, <2>1
  <2>5. d = [c EXCEPT !.tools = [c.tools EXCEPT ![k] = e]]
    BY <2>3, <2>4
  <2>6. d.tools = [c.tools EXCEPT ![k] = e] /\ d.invalid = c.invalid
    BY <2>5 DEF IsChat
  <2>7. d.tools = [i \in DOMAIN a.tools |-> a.tools[i]]
    BY <1>5, <1>7, <2>1, <2>6
  <2>8. OwnIds(a)
    <3>1. \A i \in DOMAIN a.tools : i \in DOMAIN o.tools /\ a.tools[i].id = o.tools[i].id
      BY <1>4, <1>7 DEF KeepsIds
    <3>2. QED
      BY <3>1 DEF OwnIds
  <2>9. a.tools # <<>>
    BY <1>7
  <2>10. QED
    BY <1>1, <1>2, <2>6, <2>7, <2>8, <2>9 DEF SameCalls
<1>8. QED
  BY <1>4, <1>6, <1>7

\* So with all the parts of a choice.
LEMMA PartsAreReadAlike ==
    ASSUME ChatAssumption, NEW o, NEW c, NEW S, NEW s \in Seq(S), IsObserver(o), IsChat(c)
    PROVE  /\ IsObserver(FoldLeft(ToolFragment, o, s)) /\ KeepsIds(FoldLeft(ToolFragment, o, s), o)
           /\ FoldLeft(ToolFragment, o, s).finish = o.finish /\ FoldLeft(ToolFragment, o, s).done = o.done
           /\ o.invalid => FoldLeft(ToolFragment, o, s).invalid
           /\ /\ ~FoldLeft(ToolFragment, o, s).invalid /\ Known(FoldLeft(ToolFragment, o, s))
              /\ SameCalls(c, o) /\ OwnIds(o) /\ ~c.invalid
              => /\ ~FoldLeft(ReadPart, c, s).invalid
                 /\ SameCalls(FoldLeft(ReadPart, c, s), FoldLeft(ToolFragment, o, s))
                 /\ OwnIds(FoldLeft(ToolFragment, o, s))
                 /\ s # <<>> => FoldLeft(ToolFragment, o, s).tools # <<>>
<1>1. PICK g : /\ g[0] = o /\ g[Len(s)] = Observing!Folded(o, s)
               /\ \A n \in 1 .. Len(s) : g[n] = ToolFragment(g[n - 1], s[n])
  BY Observing!FoldTrace
<1>2. PICK h : /\ h[0] = c /\ h[Len(s)] = Reading!Folded(c, s)
               /\ \A n \in 1 .. Len(s) : h[n] = ReadPart(h[n - 1], s[n])
  BY Reading!FoldTrace
<1>3. Len(s) \in Nat
  OBVIOUS
<1> DEFINE Alike(n) == ~g[n].invalid /\ Known(g[n]) /\ SameCalls(c, o) /\ OwnIds(o) /\ ~c.invalid =>
                        /\ ~h[n].invalid /\ SameCalls(h[n], g[n]) /\ OwnIds(g[n])
                        /\ n # 0 => g[n].tools # <<>>
           Good(n) == /\ IsObserver(g[n]) /\ KeepsIds(g[n], o) /\ g[n].finish = o.finish /\ g[n].done = o.done
                      /\ o.invalid => g[n].invalid
                      /\ IsChat(h[n]) /\ Alike(n)
           Bad == {n \in 0 .. Len(s) : ~Good(n)}
<1>4. ASSUME Bad # {} PROVE FALSE
  <2>1. PICK m \in Bad : \A k \in Bad : m <= k
    <3> HIDE DEF Bad
    <3>1. Bad \in SUBSET Nat
      BY <1>3 DEF Bad
    <3>2. QED
      BY <1>4, <3>1, Observing!Least
  <2>2. Good(0)
    BY <1>1, <1>2 DEF KeepsIds
  <2>3. m \in 1 .. Len(s) /\ m - 1 \in 0 .. Len(s) /\ m - 1 \notin Bad
    BY <1>3, <2>1, <2>2
  <2>4. Good(m - 1)
    BY <2>3
  <2> HIDE DEF Bad
  <2>5. PICK old : old = g[m - 1]
    OBVIOUS
  <2>6. PICK read : read = h[m - 1]
    OBVIOUS
  <2>7. PICK part : part = s[m]
    OBVIOUS
  <2>8. PICK a : a = ToolFragment(old, part)
    OBVIOUS
  <2>9. PICK d : d = ReadPart(read, part)
    OBVIOUS
  <2>10. g[m] = a /\ h[m] = d
    BY <1>1, <1>2, <2>3, <2>5, <2>6, <2>7, <2>8, <2>9
  <2>11. IsObserver(old) /\ KeepsIds(old, o) /\ old.finish = o.finish /\ old.done = o.done
          /\ (o.invalid => old.invalid) /\ IsChat(read)
    BY <2>4, <2>5, <2>6
  <2>12. IsObserver(a) /\ KeepsIds(a, old) /\ a.finish = old.finish /\ a.done = old.done /\ (old.invalid => a.invalid)
    BY <2>8, <2>11, PartIsObserved
  <2>13. IsChat(d)
    BY <2>9, <2>11, PartIsRead
  <2>14. KeepsIds(a, o)
    BY <2>11, <2>12 DEF KeepsIds
  <2>15. ASSUME ~a.invalid, Known(a), SameCalls(c, o), OwnIds(o), ~c.invalid
         PROVE  ~d.invalid /\ SameCalls(d, a) /\ OwnIds(a) /\ a.tools # <<>>
    <3>1. Known(old)
      BY <2>12, <2>15 DEF Known, KeepsIds
    <3>2. ~old.invalid
      BY <2>12, <2>15
    <3>3. ~read.invalid /\ SameCalls(read, old) /\ OwnIds(old)
      BY <2>4, <2>5, <2>6, <2>15, <3>1, <3>2
    <3>4. QED
      BY <2>8, <2>9, <2>11, <2>15, <3>3, PartIsReadAlike
  <2>16. Alike(m)
    BY <2>10, <2>15
  <2>17. Good(m)
    BY <2>10, <2>11, <2>12, <2>13, <2>14, <2>16
  <2>18. QED
    BY <2>1, <2>17 DEF Bad
<1>5. Len(s) \in 0 .. Len(s) /\ Len(s) \notin Bad
  BY <1>3, <1>4
<1>6. Good(Len(s))
  BY <1>5
<1>7. g[Len(s)] = FoldLeft(ToolFragment, o, s) /\ h[Len(s)] = FoldLeft(ReadPart, c, s)
  BY <1>1, <1>2, ChatFolds
<1>8. s # <<>> => Len(s) # 0
  BY EmptySeq
<1> HIDE DEF Bad
<1>9. QED
  BY <1>6, <1>7, <1>8

\* The observer's calls are the boundary's business.
Fits(o) == Known(o) /\ (o.tools # <<>> => mode.tools)
CallsOf(o) == [i \in DOMAIN o.tools |-> o.tools[i].arguments]
AllAllowed(o) == \A i \in DOMAIN o.tools : o.tools[i].arguments \in Allowed

\* While the observer takes what comes, and its calls fit, the boundary takes the same.
Agree(o, c, ended) ==
    /\ o.done => o.finish # None
    /\ ~o.invalid /\ Fits(o) =>
        /\ SameCalls(c, o) /\ OwnIds(o) /\ c.finish = o.finish
        /\ o.finish # None => (o.finish = "tool_calls" <=> o.tools # <<>>)
        /\ ~o.done /\ ~ended => ~c.invalid /\ c.completion = {}
        /\ o.done /\ AllAllowed(o) => /\ ~c.invalid
                                      /\ c.completion = {[finish |-> o.finish, calls |-> CallsOf(o)]}

AgreeInv == ReaderInv /\ IsObserver(observer) /\ Agree(observer, chat, chatEnd # None)

-----------------------------------------------------------------------------
\* Judging an observer leaves its calls.
LEMMA ObserverJudges ==
    ASSUME NEW o, IsObserver(o), NEW b \in BOOLEAN, NEW d, d = [o EXCEPT !.invalid = b]
    PROVE  /\ IsObserver(d) /\ d.tools = o.tools /\ d.done = o.done
           /\ d.finish = o.finish /\ d.invalid = b
<1>1. o = [response |-> o.response, tools |-> o.tools, finish |-> o.finish, done |-> o.done, invalid |-> o.invalid]
  BY DEF IsObserver
<1>2. d = [response |-> o.response, tools |-> o.tools, finish |-> o.finish, done |-> o.done, invalid |-> b]
  BY <1>1
<1>3. d.tools = o.tools /\ d.done = o.done /\ d.response = o.response /\ d.finish = o.finish /\ d.invalid = b
  BY <1>2
<1>4. d = [response |-> d.response, tools |-> d.tools, finish |-> d.finish, done |-> d.done, invalid |-> d.invalid]
  BY <1>2, <1>3
<1>5. IsObserver(d)
  BY <1>3, <1>4 DEF IsObserver
<1>6. QED
  BY <1>3, <1>5

-----------------------------------------------------------------------------
\* The end marker is taken by both or, for its calls, refused by the boundary.
LEMMA EndIsReadAlike ==
    ASSUME NEW o, NEW c, NEW f, IsObserver(o), IsChat(c), Agree(o, c, FALSE),
           f.kind = "done", ~o.invalid, o.finish # None, ~o.done
    PROVE  IsObserver(ObserverDispatch(o, f)) /\ Agree(ObserverDispatch(o, f), Consume(c, f), FALSE)
<1> DEFINE a == ObserverDispatch(o, f)
           d == Consume(c, f)
<1>1. a = [o EXCEPT !.done = TRUE]
  BY DEF ObserverDispatch
<1> HIDE DEF a
<1>2. IsObserver(a) /\ a.done = TRUE /\ a.tools = o.tools /\ a.finish = o.finish /\ a.invalid = o.invalid
  BY <1>1 DEF IsObserver
<1>3. ASSUME Fits(o) PROVE /\ SameCalls(d, o) /\ OwnIds(o) /\ d.finish = o.finish
                           /\ o.finish = "tool_calls" <=> o.tools # <<>>
                           /\ AllAllowed(o) => /\ ~d.invalid
                                               /\ d.completion = {[finish |-> o.finish, calls |-> CallsOf(o)]}
  <2>1. /\ SameCalls(c, o) /\ OwnIds(o) /\ c.finish = o.finish /\ ~c.invalid /\ c.completion = {}
        /\ o.finish = "tool_calls" <=> o.tools # <<>>
    BY <1>3 DEF Agree
  <2>2. d = IF CallsComplete(c) THEN Completed(c) ELSE Refused(c)
    BY <2>1 DEF Consume
  <2>3. d.tools = c.tools /\ d.finish = c.finish
    BY <2>2 DEF Completed, Refused, IsChat
  <2>4. ASSUME AllAllowed(o) PROVE CallsComplete(c)
    <3>1. PICK S : o.tools \in Seq(S)
      BY DEF IsObserver
    <3>2. PICK calls : calls = o.tools
      OBVIOUS
    <3>3. c.tools = [i \in DOMAIN calls |-> calls[i]] /\ DOMAIN calls = 1 .. Len(calls) /\ Len(calls) \in Nat
      BY <2>1, <3>1, <3>2 DEF SameCalls
    <3>4. CASE o.finish = "tool_calls"
      <4>1. Cardinality(1 .. Len(calls)) = Len(calls)
        <5>1. PICK n \in Nat : n = Len(calls)
          BY <3>3
        <5>2. 1 \in Int /\ n \in Int
          BY <5>1
        <5>3. Cardinality(1 .. n) = IF 1 > n THEN 0 ELSE n - 1 + 1
          BY <5>2, FS_Interval
        <5>4. QED
          BY <5>1, <5>3
      <4>2. DOMAIN c.tools = 1 .. Cardinality(DOMAIN c.tools)
        BY <3>3, <4>1
      <4>3. c.tools # <<>>
        <5>1. calls # <<>> /\ calls \in Seq(S)
          BY <2>1, <3>1, <3>2, <3>4
        <5>2. Len(calls) # 0
          BY <5>1, EmptySeq
        <5>3. 1 \in DOMAIN c.tools
          BY <3>3, <5>2
        <5>4. QED
          BY <5>3
      <4>4. IsInjective([i \in DOMAIN c.tools |-> c.tools[i].id])
        <5>1. \A i, j \in DOMAIN c.tools : c.tools[i].id = c.tools[j].id => i = j
          BY <2>1, <3>2, <3>3 DEF OwnIds
        <5>2. QED
          BY <5>1 DEF IsInjective
      <4>5. \A i \in DOMAIN c.tools : c.tools[i].arguments \in Allowed
        BY <2>4, <3>2, <3>3 DEF AllAllowed
      <4>6. QED
        BY <2>1, <3>4, <4>2, <4>3, <4>4, <4>5 DEF CallsComplete
    <3>5. CASE o.finish # "tool_calls"
      <4>1. calls = <<>>
        BY <2>1, <3>2, <3>5
      <4>2. c.tools = <<>>
        BY <3>3, <4>1
      <4>3. QED
        BY <2>1, <3>5, <4>2 DEF CallsComplete
    <3>6. QED
      BY <3>4, <3>5
  <2>5. ASSUME AllAllowed(o) PROVE ~d.invalid /\ d.completion = {[finish |-> o.finish, calls |-> CallsOf(o)]}
    <3>1. d = [c EXCEPT !.completion = {[finish |-> c.finish, calls |-> [i \in DOMAIN c.tools |-> c.tools[i].arguments]]}]
      BY <2>2, <2>4, <2>5 DEF Completed
    <3>2. [i \in DOMAIN c.tools |-> c.tools[i].arguments] = CallsOf(o)
      BY <2>1 DEF SameCalls, CallsOf
    <3>3. PICK one : one = {[finish |-> o.finish, calls |-> CallsOf(o)]}
      OBVIOUS
    <3>4. d = [c EXCEPT !.completion = one]
      BY <2>1, <3>1, <3>2, <3>3
    <3>5. d.invalid = c.invalid /\ d.completion = one
      BY <3>4 DEF IsChat
    <3>6. QED
      BY <2>1, <3>3, <3>5
  <2>6. SameCalls(d, o)
    BY <2>1, <2>3 DEF SameCalls
  <2>7. QED
    BY <2>1, <2>3, <2>5, <2>6
<1> HIDE DEF d
<1>4. Fits(a) <=> Fits(o)
  BY <1>2 DEF Fits, Known
<1>5. SameCalls(d, a) <=> SameCalls(d, o)
  BY <1>2 DEF SameCalls
<1>6. OwnIds(a) <=> OwnIds(o)
  BY <1>2 DEF OwnIds
<1>7. (AllAllowed(a) <=> AllAllowed(o)) /\ CallsOf(a) = CallsOf(o)
  BY <1>2 DEF AllAllowed, CallsOf
<1>8. Agree(a, d, FALSE)
  BY <1>2, <1>3, <1>4, <1>5, <1>6, <1>7 DEF Agree
<1>9. QED
  BY <1>2, <1>8 DEF a, d

\* A choice is taken by both.
LEMMA ChoiceIsReadAlike ==
    ASSUME ChatAssumption, NEW o, NEW c, NEW f \in ChatFrames, IsObserver(o), IsChat(c), Agree(o, c, FALSE),
           f.kind = "chunk", ~o.invalid, o.finish = None
    PROVE  IsObserver(ObserverDispatch(o, f)) /\ Agree(ObserverDispatch(o, f), Consume(c, f), FALSE)
<1> DEFINE bad == \/ o.response \notin {None, f.response}
                  \/ ~IsInjective([i \in DOMAIN f.tools |-> f.tools[i].index])
           one == [o EXCEPT !.response = f.response, !.invalid = bad]
           folded == FoldLeft(ToolFragment, one, f.tools)
           seen == [folded EXCEPT !.finish = f.finish]
           refused == folded.invalid \/ (f.finish # None /\ ~ValidateTools(seen))
           a == [seen EXCEPT !.invalid = refused]
           read == FoldLeft(ReadPart, c, f.tools)
           d == Consume(c, f)
<1>1. bad \in BOOLEAN /\ refused \in BOOLEAN
  OBVIOUS
<1> HIDE DEF bad
<1>2. ObserverDispatch(o, f) = [seen EXCEPT !.invalid = @ \/ (f.finish # None /\ ~ValidateTools(seen))]
  BY DEF ObserverDispatch, Payload, bad
<1>3. /\ IsObserver(one) /\ one.tools = o.tools /\ one.invalid = bad /\ one.finish = o.finish /\ one.done = o.done
  <2> HIDE DEF one
  <2>1. one = [o EXCEPT !.response = f.response, !.invalid = bad]
    BY DEF one
  <2>2. PICK answered : answered = f.response
    OBVIOUS
  <2>3. PICK old : old = o
    OBVIOUS
  <2>4. PICK new : new = one
    OBVIOUS
  <2>5. IsObserver(old) /\ new = [old EXCEPT !.response = answered, !.invalid = bad]
    BY <2>1, <2>2, <2>3, <2>4
  <2>6. /\ new.tools = old.tools /\ new.done = old.done /\ new.response = answered /\ new.finish = old.finish /\ new.invalid = bad
        /\ new = [response |-> new.response, tools |-> new.tools, finish |-> new.finish, done |-> new.done,
                  invalid |-> new.invalid]
    BY <2>5 DEF IsObserver
  <2>7. IsObserver(new)
    BY <1>1, <2>5, <2>6 DEF IsObserver
  <2>8. QED
    BY <2>3, <2>4, <2>6, <2>7
<1>4. f.tools \in Seq(Range(f.tools))
  BY DEF ChatAssumption
<1> HIDE DEF one
<1>5. /\ IsObserver(folded) /\ KeepsIds(folded, one)
      /\ folded.finish = one.finish /\ folded.done = one.done
      /\ one.invalid => folded.invalid
      /\ /\ ~folded.invalid /\ Known(folded)
         /\ SameCalls(c, one) /\ OwnIds(one) /\ ~c.invalid
         => /\ ~read.invalid
            /\ SameCalls(read, folded)
            /\ OwnIds(folded)
            /\ f.tools # <<>> => folded.tools # <<>>
  <2>1. PICK parts : parts = f.tools
    OBVIOUS
  <2>2. parts \in Seq(Range(parts))
    BY <1>4, <2>1
  <2>3. folded = FoldLeft(ToolFragment, one, parts) /\ read = FoldLeft(ReadPart, c, parts)
    BY <2>1
  <2> HIDE DEF folded, read
  <2>4. /\ IsObserver(FoldLeft(ToolFragment, one, parts)) /\ KeepsIds(FoldLeft(ToolFragment, one, parts), one)
        /\ FoldLeft(ToolFragment, one, parts).finish = one.finish /\ FoldLeft(ToolFragment, one, parts).done = one.done
        /\ one.invalid => FoldLeft(ToolFragment, one, parts).invalid
        /\ /\ ~FoldLeft(ToolFragment, one, parts).invalid /\ Known(FoldLeft(ToolFragment, one, parts))
           /\ SameCalls(c, one) /\ OwnIds(one) /\ ~c.invalid
           => /\ ~FoldLeft(ReadPart, c, parts).invalid
              /\ SameCalls(FoldLeft(ReadPart, c, parts), FoldLeft(ToolFragment, one, parts))
              /\ OwnIds(FoldLeft(ToolFragment, one, parts))
              /\ parts # <<>> => FoldLeft(ToolFragment, one, parts).tools # <<>>
    BY <1>3, <2>2, PartsAreReadAlike
  <2>5. QED
    BY <2>1, <2>3, <2>4
<1>6. IsChat(read) /\ SameButCalls(read, c)
  BY <1>4, PartsAreRead
<1> HIDE DEF folded, read
<1>7. IsObserver(seen) /\ seen.tools = folded.tools /\ seen.finish = f.finish /\ seen.done = folded.done
        /\ seen.invalid = folded.invalid
  <2> HIDE DEF seen
  <2>1. seen = [folded EXCEPT !.finish = f.finish] /\ folded.invalid \in BOOLEAN
    BY <1>5 DEF seen, IsObserver
  <2>2. PICK finish : finish = f.finish
    OBVIOUS
  <2>3. PICK old : old = folded
    OBVIOUS
  <2>4. PICK new : new = seen
    OBVIOUS
  <2>5. IsObserver(old) /\ new = [old EXCEPT !.finish = finish]
    BY <1>5, <2>1, <2>2, <2>3, <2>4
  <2>6. /\ new.tools = old.tools /\ new.done = old.done /\ new.response = old.response /\ new.finish = finish /\ new.invalid = old.invalid
        /\ new = [response |-> new.response, tools |-> new.tools, finish |-> new.finish, done |-> new.done,
                  invalid |-> new.invalid]
    BY <2>5 DEF IsObserver
  <2>7. IsObserver(new)
    BY <1>1, <2>5, <2>6 DEF IsObserver
  <2>8. QED
    BY <2>2, <2>3, <2>4, <2>6, <2>7
<1> HIDE DEF seen, refused
<1>8. IsObserver(a) /\ a.tools = folded.tools /\ a.finish = f.finish /\ a.done = folded.done /\ a.invalid = refused
  <2> HIDE DEF a
  <2>1. a = [seen EXCEPT !.invalid = refused]
    BY DEF a
  <2>2. QED
    BY <1>1, <1>7, <2>1, ObserverJudges
<1> HIDE DEF a
<1>9. ~o.done
  BY DEF Agree
<1>10. ~a.done
  BY <1>3, <1>5, <1>8, <1>9
<1>11. ASSUME ~a.invalid, Fits(a)
       PROVE  /\ SameCalls(d, a) /\ OwnIds(a) /\ d.finish = a.finish
              /\ a.finish # None => (a.finish = "tool_calls" <=> a.tools # <<>>)
              /\ ~d.invalid /\ d.completion = {}
  <2>1. ~folded.invalid /\ (f.finish # None => ValidateTools(seen))
    BY <1>8, <1>11 DEF refused
  <2>2. Known(folded) /\ (folded.tools # <<>> => mode.tools)
    BY <1>8, <1>11 DEF Fits, Known
  <2>3. Fits(o)
    <3>1. \A i \in DOMAIN o.tools : i \in DOMAIN folded.tools /\ folded.tools[i].id = o.tools[i].id
      BY <1>3, <1>5 DEF KeepsIds
    <3>2. Known(o)
      BY <2>2, <3>1 DEF Known
    <3>3. ASSUME o.tools # <<>> PROVE folded.tools # <<>>
      <4>1. PICK S : o.tools \in Seq(S)
        BY DEF IsObserver
      <4>2. Len(o.tools) # 0 /\ Len(o.tools) \in Nat
        BY <3>3, <4>1, EmptySeq
      <4>3. 1 \in DOMAIN o.tools
        BY <4>1, <4>2
      <4>4. QED
        BY <3>1, <4>3
    <3>4. QED
      BY <2>2, <3>2, <3>3 DEF Fits
  <2>4. SameCalls(c, o) /\ OwnIds(o) /\ c.finish = None /\ ~c.invalid /\ c.completion = {}
    BY <1>9, <2>3 DEF Agree
  <2>5. SameCalls(c, one) /\ OwnIds(one)
    BY <1>3, <2>4 DEF SameCalls, OwnIds
  <2>6. ~read.invalid /\ SameCalls(read, folded) /\ OwnIds(folded) /\ (f.tools # <<>> => folded.tools # <<>>)
    BY <1>5, <2>1, <2>2, <2>4, <2>5
  <2>7. TakesChunk(c, f)
    BY <2>2, <2>4, <2>6 DEF TakesChunk
  <2>8. d = ReadChunk(c, f)
    BY <2>4, <2>7 DEF Consume
  <2> DEFINE texts == IF f.text THEN read.texts + 1 ELSE read.texts
             finish == IF f.finish = None THEN read.finish ELSE f.finish
  <2>9. d = [read EXCEPT !.texts = texts, !.finish = finish]
    BY <2>8 DEF ReadChunk, read
  <2> HIDE DEF d, texts
  <2>10. d.tools = read.tools /\ d.invalid = read.invalid /\ d.completion = read.completion /\ d.finish = finish
    BY <1>6, <2>9 DEF IsChat
  <2>11. finish = f.finish /\ read.completion = {}
    BY <1>6, <2>4 DEF SameButCalls
  <2>12. SameCalls(d, a) /\ OwnIds(a)
    BY <1>8, <2>6, <2>10 DEF SameCalls, OwnIds
  <2>13. f.finish # None => (f.finish = "tool_calls" <=> folded.tools # <<>>)
    BY <1>7, <2>1 DEF ValidateTools
  <2>14. QED
    BY <1>8, <2>6, <2>10, <2>11, <2>12, <2>13
<1>12. Agree(a, d, FALSE)
  BY <1>10, <1>11 DEF Agree
<1>13. ObserverDispatch(o, f) = a
  BY <1>2, <1>7 DEF a, refused
<1>14. QED
  BY <1>8, <1>12, <1>13

\* What comes, the readers take or refuse together.
LEMMA FrameIsReadAlike ==
    ASSUME ChatAssumption, NEW o, NEW c, NEW f \in ChatFrames, IsObserver(o), IsChat(c), Agree(o, c, FALSE)
    PROVE  IsObserver(ObserverDispatch(o, f)) /\ Agree(ObserverDispatch(o, f), Consume(c, f), FALSE)
<1>1. CASE o.invalid
  <2>1. ObserverDispatch(o, f) = o
    BY <1>1 DEF ObserverDispatch
  <2>2. Agree(o, Consume(c, f), FALSE)
    BY <1>1 DEF Agree
  <2>3. QED
    BY <2>1, <2>2
<1>2. CASE ~o.invalid /\ f.kind = "done" /\ o.finish # None /\ ~o.done
  BY <1>2, EndIsReadAlike
<1>3. CASE ~o.invalid /\ f.kind = "chunk" /\ o.finish = None
  BY <1>3, ChoiceIsReadAlike
<1>4. CASE /\ ~o.invalid /\ ~(f.kind = "done" /\ o.finish # None /\ ~o.done)
           /\ ~(f.kind = "chunk" /\ o.finish = None)
  <2>1. PICK a : a = ObserverDispatch(o, f)
    OBVIOUS
  <2>2. a = [o EXCEPT !.invalid = TRUE]
    BY <1>4, <2>1 DEF ObserverDispatch
  <2>3. IsObserver(a) /\ a.done = o.done /\ a.finish = o.finish /\ a.invalid = TRUE
    BY <2>2, ObserverJudges
  <2>4. Agree(a, Consume(c, f), FALSE)
    BY <2>3 DEF Agree
  <2>5. QED
    BY <2>1, <2>3, <2>4
<1>5. QED
  BY <1>1, <1>2, <1>3, <1>4

\* An end marker of the router's own changes nothing that was completed, and the end of
\* a response, read as one, nothing else.
LEMMA MarkerIsRead ==
    ASSUME NEW c, IsChat(c)
    PROVE  LET d == Consume(c, [kind |-> "done"]) IN
           /\ d.tools = c.tools /\ d.finish = c.finish
           /\ c.completion # {} /\ mode.terminal = "router-done" /\ ~c.duplicateDone =>
                d.invalid = c.invalid /\ d.completion = c.completion
<1> DEFINE Marked == [kind |-> "done"]
           d == Consume(c, Marked)
<1>1. Marked.kind = "done"
  OBVIOUS
<1> HIDE DEF Marked
<1>2. \/ d = c \/ d = Refused(c) \/ d = Completed(c) \/ d = [c EXCEPT !.duplicateDone = TRUE]
  BY <1>1 DEF Consume
<1>3. d.tools = c.tools /\ d.finish = c.finish
  BY <1>2 DEF Refused, Completed, IsChat
<1>4. ASSUME c.completion # {}, mode.terminal = "router-done", ~c.duplicateDone
      PROVE  d.invalid = c.invalid /\ d.completion = c.completion
  <2>1. d = c \/ d = [c EXCEPT !.duplicateDone = TRUE]
    BY <1>1, <1>4 DEF Consume, Repeats
  <2>2. QED
    BY <2>1 DEF IsChat
<1>5. QED
  BY <1>3, <1>4 DEF Marked

\* So the readers stay agreed.
LEMMA AgreeInvHolds ==
    ASSUME ChatAssumption
    PROVE  /\ ChatInit => AgreeInv
           /\ AgreeInv /\ [ChatNext]_chatVars => AgreeInv'
<1> DEFINE Marked == [kind |-> "done"]
<1>1. ASSUME ChatInit PROVE AgreeInv
  <2>1. ReaderInv
    BY <1>1, ReaderInvHolds
  <2>2. /\ observer = [response |-> None, tools |-> <<>>, finish |-> None, done |-> FALSE, invalid |-> FALSE]
        /\ chat.tools = <<>> /\ chat.finish = None /\ chat.completion = {} /\ chat.invalid = FALSE /\ chatEnd = None
    BY <1>1 DEF ChatInit, ObserverInit, ChatStreamInit
  <2>3. DOMAIN <<>> = {} /\ <<>> \in Seq({})
    OBVIOUS
  <2>4. /\ observer.tools = <<>> /\ observer.finish = None /\ observer.done = FALSE /\ observer.invalid = FALSE
        /\ observer.response = None
    BY <2>2
  <2>5. IsObserver(observer)
    BY <2>2, <2>3, <2>4 DEF IsObserver
  <2>6. SameCalls(chat, observer) /\ OwnIds(observer)
    BY <2>2, <2>3, <2>4 DEF SameCalls, OwnIds
  <2>7. Agree(observer, chat, chatEnd # None)
    BY <2>2, <2>4, <2>6 DEF Agree
  <2>8. QED
    BY <2>1, <2>5, <2>7 DEF AgreeInv
<1>2. ASSUME AgreeInv, [ChatNext]_chatVars PROVE AgreeInv'
  <2>1. ReaderInv' /\ IsChat(chat) /\ IsObserver(observer)
    BY <1>2, ReaderInvHolds DEF AgreeInv, ReaderInv
  <2>2. CASE UNCHANGED chatVars
    <3>1. observer' = observer /\ chat' = chat /\ chatEnd' = chatEnd /\ mode' = mode
      BY <2>2 DEF chatVars
    <3>2. QED
      BY <1>2, <2>1, <3>1 DEF AgreeInv, IsObserver, Agree, Fits, Known, SameCalls, OwnIds, AllAllowed, CallsOf
  <2>3. ASSUME NEW f \in ChatFrames, ProviderSends(f) PROVE AgreeInv'
    <3>1. /\ observer' = ObserverDispatch(observer, f) /\ chat' = Consume(chat, f) /\ chatEnd = None /\ chatEnd' = None
          /\ mode' = mode
      BY <2>3 DEF ProviderSends
    <3>2. IsObserver(ObserverDispatch(observer, f)) /\ Agree(ObserverDispatch(observer, f), Consume(chat, f), FALSE)
      <4>1. Agree(observer, chat, FALSE)
        BY <1>2, <3>1 DEF AgreeInv
      <4>2. QED
        BY <2>1, <4>1, FrameIsReadAlike
    <3>3. QED
      BY <2>1, <3>1, <3>2
        DEF AgreeInv, IsObserver, Agree, Fits, Known, SameCalls, OwnIds, AllAllowed, CallsOf
  <2>4. CASE RouterRepeatsDone
    <3>1. /\ observer' = observer /\ chat' = Consume(chat, Marked) /\ chatEnd' = chatEnd /\ mode' = mode
          /\ chat.completion # {} /\ mode.terminal = "router-done" /\ ~chat.duplicateDone /\ observer.done
      BY <2>4 DEF RouterRepeatsDone
    <3>2. chat'.tools = chat.tools /\ chat'.finish = chat.finish
            /\ chat'.invalid = chat.invalid /\ chat'.completion = chat.completion
      BY <2>1, <3>1, MarkerIsRead
    <3>3. QED
      BY <1>2, <2>1, <3>1, <3>2
        DEF AgreeInv, IsObserver, Agree, Fits, Known, SameCalls, OwnIds, AllAllowed, CallsOf
  <2>5. ASSUME NEW how \in {"eof", "cut"}, ChatEnds(how) PROVE AgreeInv'
    <3>1. observer' = observer /\ chatEnd' = how /\ chatEnd' # None /\ chatEnd = None /\ mode' = mode
      BY <2>5 DEF ChatEnds, ChatAssumption
    <3>2. CASE chat' = chat
      BY <1>2, <2>1, <3>1, <3>2
        DEF AgreeInv, IsObserver, Agree, Fits, Known, SameCalls, OwnIds, AllAllowed, CallsOf
    <3>3. CASE chat' = Consume(chat, Marked) /\ chat.completion = {}
      <4>1. chat'.tools = chat.tools /\ chat'.finish = chat.finish
        BY <2>1, <3>3, MarkerIsRead
      <4>2. ASSUME ~observer.invalid, Fits(observer), observer.done PROVE ~AllAllowed(observer)
        BY <1>2, <3>3, <4>2 DEF AgreeInv, Agree
      <4>3. QED
        BY <1>2, <2>1, <3>1, <4>1, <4>2
          DEF AgreeInv, IsObserver, Agree, Fits, Known, SameCalls, OwnIds, AllAllowed, CallsOf
    <3>4. chat' = chat \/ (chat' = Consume(chat, Marked) /\ chat.completion = {})
      BY <2>5 DEF ChatEnds, AtEnd
    <3>5. QED
      BY <3>2, <3>3, <3>4
  <2>6. QED
    BY <1>2, <2>2, <2>3, <2>4, <2>5 DEF ChatNext
<1>3. QED
  BY <1>1, <1>2

\* The two readers of a Chat stream, the router's whose verdict is receipted and the
\* boundary's whose output the harness gets, call the same streams complete: what is
\* released is the whole stream, and what the receipt will call complete is released.
THEOREM ReadersStayAgreed ==
    ASSUME ChatAssumption
    PROVE  ChatInit /\ [][ChatNext]_chatVars => []ReadersAgree
<1>1. ChatInit => AgreeInv
  BY AgreeInvHolds
<1>2. AgreeInv /\ [ChatNext]_chatVars => AgreeInv'
  BY AgreeInvHolds
<1>3. AgreeInv => ReadersAgree
  <2> SUFFICES ASSUME AgreeInv PROVE ReadersAgree
    OBVIOUS
  <2>1. CompletionIsTheStream
    BY ReaderTellsTheStream DEF AgreeInv
  <2> DEFINE calls == [i \in DOMAIN observer.tools |-> observer.tools[i].arguments]
             fits == calls # <<>> => /\ mode.tools
                                     /\ \A i \in DOMAIN calls : /\ calls[i] \in Allowed
                                                                /\ observer.tools[i].id \in CallIds
  <2>2. ASSUME ProviderTerminal, fits
        PROVE  Released /\ chat.completion = {[finish |-> observer.finish, calls |-> calls]}
    <3>1. observer.done /\ ~observer.invalid /\ chatEnd = "eof"
      BY <2>2 DEF ProviderTerminal
    <3>2. observer.tools # <<>> => calls # <<>>
      <4>1. PICK S : observer.tools \in Seq(S)
        BY DEF AgreeInv, IsObserver
      <4>2. ASSUME observer.tools # <<>> PROVE calls # <<>>
        <5>1. Len(observer.tools) # 0 /\ Len(observer.tools) \in Nat
          BY <4>1, <4>2, EmptySeq
        <5>2. 1 \in DOMAIN observer.tools
          BY <4>1, <5>1
        <5>3. 1 \in DOMAIN calls
          BY <5>2
        <5>4. QED
          BY <5>3
      <4>3. QED
        BY <4>2
    <3>3. \A i \in DOMAIN observer.tools : observer.tools # <<>>
      OBVIOUS
    <3>4. Known(observer) /\ (observer.tools # <<>> => mode.tools) /\ AllAllowed(observer)
      BY <2>2, <3>2, <3>3 DEF Known, AllAllowed
    <3>5. ~chat.invalid /\ chat.completion = {[finish |-> observer.finish, calls |-> CallsOf(observer)]}
      BY <3>1, <3>4 DEF AgreeInv, Agree, Fits
    <3>6. CallsOf(observer) = calls
      BY DEF CallsOf
    <3> HIDE DEF calls, fits
    <3>7. QED
      BY <3>1, <3>5, <3>6 DEF Released
  <2>3. OriginalSuccessIsReleased
    BY <2>2 DEF OriginalSuccessIsReleased
  <2>4. QED
    BY <2>1, <2>3 DEF ReadersAgree
<1>4. QED
  BY <1>1, <1>2, <1>3, PTL

-----------------------------------------------------------------------------
(* Responses *)

(* Texts. *)

\* A prefix and a suffix, piece by piece.
LEMMA PrefixByPiece ==
    ASSUME NEW S, NEW s \in Seq(S), NEW t \in Seq(S)
    PROVE  IsPrefix(s, t) <=> Len(s) <= Len(t) /\ \A i \in 1 .. Len(s) : s[i] = t[i]
<1>1. Len(s) \in Nat /\ Len(t) \in Nat
  OBVIOUS
<1>2. ASSUME Len(s) <= Len(t)
      PROVE  SubSeq(s, 1, Len(s)) = SubSeq(t, 1, Len(s)) <=> \A i \in 1 .. Len(s) : s[i] = t[i]
  <2> DEFINE a == SubSeq(s, 1, Len(s))
             b == SubSeq(t, 1, Len(s))
  <2>1. a = s
    BY SubSeqFull
  <2>2. /\ b \in Seq(S) /\ Len(b) = Len(s) /\ \A i \in 1 .. Len(s) : b[i] = t[i]
    <3>1. \A i \in 1 .. Len(s) : t[i] \in S
      BY <1>1, <1>2
    <3>2. b \in Seq(S) /\ Len(b) = (IF 1 <= Len(s) THEN Len(s) - 1 + 1 ELSE 0)
            /\ \A i \in 1 .. Len(s) - 1 + 1 : b[i] = t[1 + i - 1]
      BY <1>1, <3>1, SubSeqProperties
    <3> HIDE DEF a, b
    <3>3. PICK k \in Nat : k = Len(s)
      BY <1>1
    <3>4. Len(b) = k
      BY <3>2, <3>3
    <3>5. \A i \in 1 .. k : b[i] = t[i]
      BY <3>2, <3>3
    <3>6. QED
      BY <3>2, <3>3, <3>4, <3>5
  <2> HIDE DEF a, b
  <2>3. (\A i \in 1 .. Len(s) : s[i] = t[i]) => s = b
    <3>1. ASSUME \A i \in 1 .. Len(s) : s[i] = t[i] PROVE s = b
      <4>1. \A i \in 1 .. Len(s) : s[i] = b[i]
        BY <2>2, <3>1
      <4>2. QED
        BY <2>2, <4>1, SeqEqual
    <3>2. QED
      BY <3>1
  <2>4. QED
    BY <2>1, <2>2, <2>3 DEF a, b
<1>3. QED
  BY <1>2 DEF IsPrefix

\* Read from its end, a text is as long.
LEMMA ReverseByPiece ==
    ASSUME NEW S, NEW s \in Seq(S)
    PROVE  /\ Reverse(s) \in Seq(S) /\ Len(Reverse(s)) = Len(s)
           /\ \A i \in 1 .. Len(s) : Reverse(s)[i] = s[Len(s) - i + 1]
<1> DEFINE r == [i \in 1 .. Len(s) |-> s[(Len(s) - i) + 1]]
<1>1. Len(s) \in Nat /\ \A i \in 1 .. Len(s) : (Len(s) - i) + 1 \in 1 .. Len(s)
  OBVIOUS
<1>2. r \in Seq(S) /\ Len(r) = Len(s)
  BY <1>1
<1>3. \A i \in 1 .. Len(s) : r[i] = s[Len(s) - i + 1]
  OBVIOUS
<1>4. Reverse(s) = r
  BY DEF Reverse
<1> HIDE DEF r
<1>5. QED
  BY <1>2, <1>3, <1>4

\* A suffix is a prefix of what is read from the end.
LEMMA SuffixByPiece ==
    ASSUME NEW S, NEW s \in Seq(S), NEW t \in Seq(S)
    PROVE  IsSuffix(s, t) <=>
             Len(s) <= Len(t) /\ \A i \in 1 .. Len(s) : s[i] = t[(Len(t) - Len(s)) + i]
<1>a. PICK a : a = Reverse(s)
  OBVIOUS
<1>b. PICK b : b = Reverse(t)
  OBVIOUS
<1>1. PICK m \in Nat : m = Len(s)
  OBVIOUS
<1>2. PICK n \in Nat : n = Len(t)
  OBVIOUS
<1>3. /\ a \in Seq(S) /\ Len(a) = m /\ \A i \in 1 .. m : a[i] = s[m - i + 1]
      /\ b \in Seq(S) /\ Len(b) = n /\ \A i \in 1 .. n : b[i] = t[n - i + 1]
  BY <1>a, <1>b, <1>1, <1>2, ReverseByPiece
<1>4. IsSuffix(s, t) <=> IsPrefix(a, b)
  BY <1>a, <1>b DEF IsSuffix
<1>5. IsPrefix(a, b) <=> m <= n /\ \A i \in 1 .. m : a[i] = b[i]
  <2>1. Len(a) = m /\ Len(b) = n /\ a \in Seq(S) /\ b \in Seq(S)
    BY <1>3
  <2>2. \A x, y \in Seq(S) : IsPrefix(x, y) <=> Len(x) <= Len(y) /\ \A i \in 1 .. Len(x) : x[i] = y[i]
    BY PrefixByPiece
  <2>3. IsPrefix(a, b) <=> Len(a) <= Len(b) /\ \A i \in 1 .. Len(a) : a[i] = b[i]
    BY <2>1, <2>2, Zenon
  <2>4. QED
    BY <2>1, <2>3
<1>6. ASSUME m <= n PROVE (\A i \in 1 .. m : a[i] = b[i]) <=> \A i \in 1 .. m : s[i] = t[(n - m) + i]
  <2>1. ASSUME \A i \in 1 .. m : a[i] = b[i], NEW i \in 1 .. m PROVE s[i] = t[(n - m) + i]
    <3>1. m - i + 1 \in 1 .. m /\ m - i + 1 \in 1 .. n /\ m - (m - i + 1) + 1 = i
            /\ n - (m - i + 1) + 1 = (n - m) + i
      BY <1>6
    <3>2. a[m - i + 1] = s[m - (m - i + 1) + 1] /\ b[m - i + 1] = t[n - (m - i + 1) + 1]
      BY <1>3, <3>1
    <3>3. QED
      BY <2>1, <3>1, <3>2
  <2>2. ASSUME \A i \in 1 .. m : s[i] = t[(n - m) + i], NEW i \in 1 .. m PROVE a[i] = b[i]
    <3>1. m - i + 1 \in 1 .. m /\ i \in 1 .. n /\ (n - m) + (m - i + 1) = n - i + 1
      BY <1>6
    <3>2. s[m - i + 1] = t[(n - m) + (m - i + 1)]
      BY <2>2, <3>1
    <3>3. QED
      BY <1>3, <3>1, <3>2
  <2>3. QED
    BY <2>1, <2>2
<1>7. QED
  BY <1>1, <1>2, <1>4, <1>5, <1>6

\* A text begins with itself and with what its beginnings begin with.
LEMMA PrefixFacts ==
    ASSUME NEW S, NEW s \in Seq(S), NEW t \in Seq(S), NEW u \in Seq(S)
    PROVE  /\ IsPrefix(t, t)
           /\ IsPrefix(s, t) /\ IsPrefix(t, u) => IsPrefix(s, u)
           /\ IsPrefix(s, t) => IsPrefix(s, t \o u)
<1>1. IsPrefix(t, t)
  BY PrefixByPiece
<1>2. ASSUME IsPrefix(s, t), IsPrefix(t, u) PROVE IsPrefix(s, u)
  <2>1. Len(s) <= Len(t) /\ \A i \in 1 .. Len(s) : s[i] = t[i]
    BY <1>2, PrefixByPiece
  <2>2. Len(t) <= Len(u) /\ \A i \in 1 .. Len(t) : t[i] = u[i]
    BY <1>2, PrefixByPiece
  <2>3. Len(s) \in Nat /\ Len(t) \in Nat /\ Len(u) \in Nat
    OBVIOUS
  <2>4. Len(s) <= Len(u) /\ \A i \in 1 .. Len(s) : s[i] = u[i]
    BY <2>1, <2>2, <2>3
  <2>5. QED
    BY <2>4, PrefixByPiece
<1>3. ASSUME IsPrefix(s, t) PROVE IsPrefix(s, t \o u)
  <2>1. Len(s) <= Len(t) /\ \A i \in 1 .. Len(s) : s[i] = t[i]
    BY <1>3, PrefixByPiece
  <2>2. t \o u \in Seq(S) /\ Len(t \o u) = Len(t) + Len(u) /\ \A i \in 1 .. Len(t) : (t \o u)[i] = t[i]
    BY ConcatProperties
  <2>3. Len(s) \in Nat /\ Len(t) \in Nat /\ Len(u) \in Nat
    OBVIOUS
  <2>4. Len(s) <= Len(t \o u) /\ \A i \in 1 .. Len(s) : s[i] = (t \o u)[i]
    BY <2>1, <2>2, <2>3
  <2>5. QED
    BY <2>2, <2>4, PrefixByPiece
<1>4. QED
  BY <1>1, <1>2, <1>3

\* And ends with nothing, and, when both go on alike, with what it ended with before.
LEMMA SuffixFacts ==
    ASSUME NEW S, NEW s \in Seq(S), NEW t \in Seq(S), NEW u \in Seq(S)
    PROVE  /\ IsSuffix(<<>>, t)
           /\ IsSuffix(s, t) => IsSuffix(s \o u, t \o u)
<1>1. IsSuffix(<<>>, t)
  <2>1. <<>> \in Seq(S) /\ Len(<<>>) = 0 /\ Len(t) \in Nat
    OBVIOUS
  <2>2. Len(<<>>) <= Len(t) /\ \A i \in 1 .. Len(<<>>) : <<>>[i] = t[(Len(t) - Len(<<>>)) + i]
    BY <2>1
  <2>3. QED
    BY <2>1, <2>2, SuffixByPiece
<1>2. ASSUME IsSuffix(s, t) PROVE IsSuffix(s \o u, t \o u)
  <2>1. PICK m \in Nat : m = Len(s)
    OBVIOUS
  <2>2. PICK n \in Nat : n = Len(t)
    OBVIOUS
  <2>3. PICK k \in Nat : k = Len(u)
    OBVIOUS
  <2>4. PICK a : a = s \o u
    OBVIOUS
  <2>5. PICK b : b = t \o u
    OBVIOUS
  <2>6. /\ a \in Seq(S) /\ Len(a) = m + k
        /\ \A i \in 1 .. m + k : a[i] = IF i <= m THEN s[i] ELSE u[i - m]
    BY <2>1, <2>3, <2>4, ConcatProperties
  <2>7. /\ b \in Seq(S) /\ Len(b) = n + k
        /\ \A i \in 1 .. n + k : b[i] = IF i <= n THEN t[i] ELSE u[i - n]
    BY <2>2, <2>3, <2>5, ConcatProperties
  <2>8. m <= n /\ \A i \in 1 .. m : s[i] = t[(n - m) + i]
    BY <1>2, <2>1, <2>2, SuffixByPiece
  <2>9. ASSUME NEW i \in 1 .. m + k PROVE a[i] = b[((n + k) - (m + k)) + i]
    <3>1. ((n + k) - (m + k)) + i = (n - m) + i /\ (n - m) + i \in 1 .. n + k
      BY <2>8
    <3>2. CASE i <= m
      <4>1. (n - m) + i <= n /\ i \in 1 .. m
        BY <2>8, <3>2
      <4>2. a[i] = s[i] /\ b[(n - m) + i] = t[(n - m) + i]
        BY <2>6, <2>7, <3>1, <3>2, <4>1
      <4>3. QED
        BY <2>8, <3>1, <4>1, <4>2
    <3>3. CASE ~(i <= m)
      <4>1. ~((n - m) + i <= n) /\ (n - m) + i - n = i - m
        BY <2>8, <3>3
      <4>2. a[i] = u[i - m] /\ b[(n - m) + i] = u[i - m]
        BY <2>6, <2>7, <3>1, <3>3, <4>1
      <4>3. QED
        BY <3>1, <4>2
    <3>4. QED
      BY <3>2, <3>3
  <2>10. Len(a) <= Len(b) /\ \A i \in 1 .. Len(a) : a[i] = b[(Len(b) - Len(a)) + i]
    BY <2>6, <2>7, <2>8, <2>9
  <2>11. IsSuffix(a, b)
    BY <2>6, <2>7, <2>10, SuffixByPiece
  <2>12. QED
    BY <2>4, <2>5, <2>11
<1>3. QED
  BY <1>1, <1>2

Streaming == INSTANCE FoldFacts WITH Op <- AddDelta

\* A piece streamed for a channel, and the end of one.
IsDelta(e, id, k) == e.kind = "text" /\ ~e.done /\ e.item = id /\ e.at = k
Closes(e, id, k) == e.kind \in {"part", "text"} /\ e.done /\ e.item = id /\ e.at = k
Announced(es, id, k) == \E j \in DOMAIN es : AnnouncedText(es[j], id, k) # {}

\* Nothing was told of a channel.
Silent(es, id, k) ==
    /\ DeltasOf(es, id, k) = <<>>
    /\ \A j \in DOMAIN es : AnnouncedText(es[j], id, k) = {} /\ ~Closes(es[j], id, k)

IsChannel(c) == c \in [text : Seq(Pieces), streamed : BOOLEAN, complete : BOOLEAN]

\* What was told of a channel is what it holds.
Tells(es, id, k, c) ==
    /\ DeltasOf(es, id, k) \in Seq(Pieces)
    /\ \A j \in DOMAIN es :
          /\ \A t \in AnnouncedText(es[j], id, k) : t \in Seq(Pieces) /\ IsPrefix(t, c.text)
          /\ Closes(es[j], id, k) => c.complete /\ es[j].text = c.text
    /\ IF c.streamed
       THEN IsSuffix(DeltasOf(es, id, k), c.text) /\ (~Announced(es, id, k) => c.text = DeltasOf(es, id, k))
       ELSE DeltasOf(es, id, k) = <<>> /\ (c.complete \/ Announced(es, id, k))

-----------------------------------------------------------------------------
(* Streamed pieces. *)

\* The fold of FoldFacts is the model's.
LEMMA StreamedFold == \A sent, s : Streaming!Folded(sent, s) = FoldLeft(AddDelta, sent, s)
  BY DEF Streaming!Folded, Streaming!FoldLeft, FoldLeft, Streaming!MapThenFoldSet, MapThenFoldSet, Streaming!Max, Max

\* An event adds its piece to its channel's and to no other's.
LEMMA StreamedStep ==
    ASSUME NEW es \in Seq(Events), NEW e \in Events, NEW id, NEW k
    PROVE  DeltasOf(Append(es, e), id, k) =
             IF IsDelta(e, id, k) THEN DeltasOf(es, id, k) \o e.text ELSE DeltasOf(es, id, k)
<1>1. Streaming!Folded(<<>>, Append(es, e)) = AddDelta(Streaming!Folded(<<>>, es), e)
  BY Streaming!FoldAppend
<1>2. Streamed(Append(es, e)) = AddDelta(Streamed(es), e)
  BY <1>1, StreamedFold DEF Streamed
<1> DEFINE old == Streamed(es)
           new == Streamed(Append(es, e))
<1>3. new = AddDelta(old, e)
  BY <1>2
<1>4. e.kind = "text" => e.text \in Seq(Pieces)
  BY ResponsesAssumption
<1>5. DeltasOf(es, id, k) = IF <<id, k>> \in DOMAIN old THEN old[<<id, k>>] ELSE <<>>
  BY DEF DeltasOf
<1>6. DeltasOf(Append(es, e), id, k) = IF <<id, k>> \in DOMAIN new THEN new[<<id, k>>] ELSE <<>>
  BY DEF DeltasOf
<1> HIDE DEF old, new
<1>7. CASE ~(e.kind = "text" /\ ~e.done)
  BY <1>3, <1>5, <1>6, <1>7 DEF AddDelta, IsDelta
<1>8. CASE e.kind = "text" /\ ~e.done
  <2>1. PICK p : p = <<id, k>>
    OBVIOUS
  <2>2. PICK at : at = <<e.item, e.at>>
    OBVIOUS
  <2>3. IsDelta(e, id, k) <=> p = at
    BY <1>8, <2>1, <2>2 DEF IsDelta
  <2>4. new = [q \in DOMAIN old \cup {at} |->
                 IF q # at THEN old[q] ELSE IF q \in DOMAIN old THEN old[q] \o e.text ELSE e.text]
    BY <1>3, <1>8, <2>2 DEF AddDelta
  <2>5. /\ DOMAIN new = DOMAIN old \cup {at}
        /\ p \in DOMAIN new => new[p] = IF p # at THEN old[p]
                                        ELSE IF p \in DOMAIN old THEN old[p] \o e.text ELSE e.text
    BY <2>4
  <2>6. DeltasOf(es, id, k) = IF p \in DOMAIN old THEN old[p] ELSE <<>>
    BY <1>5, <2>1
  <2>7. DeltasOf(Append(es, e), id, k) = IF p \in DOMAIN new THEN new[p] ELSE <<>>
    BY <1>6, <2>1
  <2>8. <<>> \o e.text = e.text
    BY <1>4, <1>8
  <2>9. CASE p = at
    <3>1. CASE p \in DOMAIN old
      BY <2>3, <2>5, <2>6, <2>7, <2>9, <3>1
    <3>2. CASE p \notin DOMAIN old
      BY <2>3, <2>5, <2>6, <2>7, <2>8, <2>9, <3>2
    <3>3. QED
      BY <3>1, <3>2
  <2>10. CASE p # at
    BY <2>3, <2>5, <2>6, <2>7, <2>10
  <2>11. QED
    BY <2>9, <2>10
<1>9. QED
  BY <1>7, <1>8

\* Before the first event nothing was streamed.
LEMMA NothingStreamed == ASSUME NEW id, NEW k PROVE DeltasOf(<<>>, id, k) = <<>>
<1>1. Streaming!Folded(<<>>, <<>>) = <<>>
  <2>1. <<>> \in Seq(Events) /\ Len(<<>>) = 0
    OBVIOUS
  <2>2. QED
    BY <2>1, Streaming!FoldNothing
<1>2. Streamed(<<>>) = <<>>
  BY <1>1, StreamedFold DEF Streamed
<1>3. <<id, k>> \notin DOMAIN <<>>
  OBVIOUS
<1>4. QED
  BY <1>2, <1>3 DEF DeltasOf

\* The events so far, and the last.
LEMMA AppendedEvent ==
    ASSUME NEW es \in Seq(Events), NEW e \in Events
    PROVE  /\ Append(es, e) \in Seq(Events)
           /\ DOMAIN es = 1 .. Len(es) /\ Len(es) \in Nat
           /\ DOMAIN Append(es, e) = DOMAIN es \cup {Len(es) + 1} /\ Len(es) + 1 \notin DOMAIN es
           /\ Append(es, e)[Len(es) + 1] = e
           /\ \A j \in DOMAIN es : Append(es, e)[j] = es[j]
  OBVIOUS

-----------------------------------------------------------------------------
(* A channel and what was told of it. *)

\* What an event that announces or closes gives is a text.
LEMMA EventTexts ==
    ASSUME NEW e \in Events, NEW id, NEW k
    PROVE  /\ \A t \in AnnouncedText(e, id, k) : t \in Seq(Pieces)
           /\ IsDelta(e, id, k) => e.text \in Seq(Pieces) /\ AnnouncedText(e, id, k) = {} /\ ~Closes(e, id, k)
           /\ Closes(e, id, k) => e.text \in Seq(Pieces) /\ AnnouncedText(e, id, k) = {}
<1>1. \A t \in AnnouncedText(e, id, k) : t \in Seq(Pieces)
  BY ResponsesAssumption DEF AnnouncedText, TextsOf
<1>2. IsDelta(e, id, k) => e.text \in Seq(Pieces) /\ AnnouncedText(e, id, k) = {} /\ ~Closes(e, id, k)
  BY ResponsesAssumption DEF AnnouncedText, IsDelta, Closes
<1>3. Closes(e, id, k) => e.text \in Seq(Pieces) /\ AnnouncedText(e, id, k) = {}
  BY ResponsesAssumption DEF AnnouncedText, Closes
<1>4. QED
  BY <1>1, <1>2, <1>3

\* What was announced of a channel, after one event more.
LEMMA AnnouncedStep ==
    ASSUME NEW es \in Seq(Events), NEW e \in Events, NEW id, NEW k
    PROVE  Announced(Append(es, e), id, k) <=> Announced(es, id, k) \/ AnnouncedText(e, id, k) # {}
<1>1. PICK new : new = Append(es, e)
  OBVIOUS
<1>2. /\ DOMAIN new = DOMAIN es \cup {Len(es) + 1} /\ new[Len(es) + 1] = e
      /\ \A j \in DOMAIN es : new[j] = es[j]
  BY <1>1, AppendedEvent
<1>3. Announced(new, id, k) <=> Announced(es, id, k) \/ AnnouncedText(e, id, k) # {}
  BY <1>2 DEF Announced
<1>4. QED
  BY <1>1, <1>3

\* An event that tells nothing of a channel leaves it silent.
LEMMA StaysSilent ==
    ASSUME NEW es \in Seq(Events), NEW e \in Events, NEW id, NEW k, Silent(es, id, k),
           ~IsDelta(e, id, k), ~Closes(e, id, k), AnnouncedText(e, id, k) = {}
    PROVE  Silent(Append(es, e), id, k)
<1>1. PICK new : new = Append(es, e)
  OBVIOUS
<1>2. /\ DOMAIN new = DOMAIN es \cup {Len(es) + 1} /\ new[Len(es) + 1] = e
      /\ \A j \in DOMAIN es : new[j] = es[j]
  BY <1>1, AppendedEvent
<1>3. DeltasOf(new, id, k) = DeltasOf(es, id, k)
  BY <1>1, StreamedStep
<1>4. \A j \in DOMAIN new : AnnouncedText(new[j], id, k) = {} /\ ~Closes(new[j], id, k)
  BY <1>2 DEF Silent
<1>5. Silent(new, id, k)
  BY <1>3, <1>4 DEF Silent
<1>6. QED
  BY <1>1, <1>5

\* And what was told of it as it was.
LEMMA StaysTold ==
    ASSUME NEW es \in Seq(Events), NEW e \in Events, NEW id, NEW k, NEW c, Tells(es, id, k, c),
           ~IsDelta(e, id, k), ~Closes(e, id, k), AnnouncedText(e, id, k) = {}
    PROVE  Tells(Append(es, e), id, k, c)
<1>1. PICK new : new = Append(es, e)
  OBVIOUS
<1>2. /\ DOMAIN new = DOMAIN es \cup {Len(es) + 1} /\ new[Len(es) + 1] = e
      /\ \A j \in DOMAIN es : new[j] = es[j]
  BY <1>1, AppendedEvent
<1>3. DeltasOf(new, id, k) = DeltasOf(es, id, k)
  BY <1>1, StreamedStep
<1>4. Announced(new, id, k) <=> Announced(es, id, k)
  BY <1>1, AnnouncedStep
<1>5. \A j \in DOMAIN new :
          /\ \A t \in AnnouncedText(new[j], id, k) : t \in Seq(Pieces) /\ IsPrefix(t, c.text)
          /\ Closes(new[j], id, k) => c.complete /\ new[j].text = c.text
  BY <1>2 DEF Tells
<1>6. Tells(new, id, k, c)
  BY <1>3, <1>4, <1>5 DEF Tells
<1>7. QED
  BY <1>1, <1>6

\* A channel that accepts a full text holds it, and what it held before was its beginning.
LEMMA FullIsTold ==
    ASSUME NEW es \in Seq(Events), NEW e \in Events, NEW id, NEW k, NEW channels,
           NEW t \in Seq(Pieces), NEW b \in BOOLEAN,
           k \in DOMAIN channels => IsChannel(channels[k]) /\ Tells(es, id, k, channels[k]),
           k \notin DOMAIN channels => Silent(es, id, k),
           TakesFull(channels, k, t), ~IsDelta(e, id, k),
           AnnouncedText(e, id, k) \subseteq {t}, Closes(e, id, k) => b /\ e.text = t,
           b \/ AnnouncedText(e, id, k) # {}
    PROVE  /\ IsChannel(Told(channels, k, t, b))
           /\ Tells(Append(es, e), id, k, Told(channels, k, t, b))
<1>1. PICK new : new = Append(es, e)
  OBVIOUS
<1>2. /\ DOMAIN new = DOMAIN es \cup {Len(es) + 1} /\ new[Len(es) + 1] = e
      /\ \A j \in DOMAIN es : new[j] = es[j]
  BY <1>1, AppendedEvent
<1>3. DeltasOf(new, id, k) = DeltasOf(es, id, k)
  BY <1>1, StreamedStep
<1>4. Announced(new, id, k) <=> Announced(es, id, k) \/ AnnouncedText(e, id, k) # {}
  BY <1>1, AnnouncedStep
<1>5. PICK d : d = Told(channels, k, t, b)
  OBVIOUS
<1>6. IsPrefix(t, t)
  BY PrefixFacts
<1>7. CASE k \in DOMAIN channels
  <2>1. PICK c : c = channels[k]
    OBVIOUS
  <2>2. d = [c EXCEPT !.text = t, !.complete = @ \/ b]
    BY <1>5, <1>7, <2>1 DEF Told
  <2>3. IsChannel(c) /\ Tells(es, id, k, c)
    BY <1>7, <2>1
  <2>4. c.text \in Seq(Pieces) /\ c.streamed \in BOOLEAN /\ c.complete \in BOOLEAN
    BY <2>3 DEF IsChannel
  <2>5. IsChannel(d) /\ d.text = t /\ d.streamed = c.streamed /\ (d.complete <=> c.complete \/ b)
    BY <2>2, <2>3 DEF IsChannel
  <2>6. IF c.streamed \/ c.complete THEN t = c.text ELSE IsPrefix(c.text, t)
    BY <1>7, <2>1 DEF TakesFull, Continues
  <2>7. IsPrefix(c.text, t)
    BY <1>6, <2>6
  <2>8. ASSUME NEW j \in DOMAIN new
        PROVE  /\ \A a \in AnnouncedText(new[j], id, k) : a \in Seq(Pieces) /\ IsPrefix(a, d.text)
               /\ Closes(new[j], id, k) => d.complete /\ new[j].text = d.text
    <3>1. CASE j \in DOMAIN es
      <4>1. ASSUME NEW a \in AnnouncedText(new[j], id, k) PROVE a \in Seq(Pieces) /\ IsPrefix(a, t)
        <5>1. a \in Seq(Pieces) /\ IsPrefix(a, c.text)
          BY <1>2, <2>3, <3>1, <4>1 DEF Tells
        <5>2. QED
          BY <2>4, <2>7, <5>1, PrefixFacts
      <4>2. ASSUME Closes(new[j], id, k) PROVE d.complete /\ new[j].text = t
        <5>1. c.complete /\ new[j].text = c.text
          BY <1>2, <2>3, <3>1, <4>2 DEF Tells
        <5>2. QED
          BY <2>5, <2>6, <5>1
      <4>3. QED
        BY <2>5, <4>1, <4>2
    <3>2. CASE j = Len(es) + 1
      <4>1. new[j] = e
        BY <1>2, <3>2
      <4>2. QED
        BY <1>6, <2>5, <4>1
    <3>3. QED
      BY <1>2, <3>1, <3>2
  <2>9. DeltasOf(es, id, k) \in Seq(Pieces)
    BY <2>3 DEF Tells
  <2>10. IF d.streamed
         THEN IsSuffix(DeltasOf(es, id, k), t) /\ (~Announced(new, id, k) => t = DeltasOf(es, id, k))
         ELSE DeltasOf(es, id, k) = <<>> /\ (d.complete \/ Announced(new, id, k))
    BY <1>4, <2>3, <2>5, <2>6 DEF Tells
  <2>11. Tells(new, id, k, d)
    BY <1>3, <2>5, <2>8, <2>9, <2>10 DEF Tells
  <2>12. QED
    BY <1>1, <1>5, <2>5, <2>11
<1>8. CASE k \notin DOMAIN channels
  <2>1. d = [text |-> t, streamed |-> FALSE, complete |-> b]
    BY <1>5, <1>8 DEF Told
  <2>2. IsChannel(d) /\ d.text = t /\ d.streamed = FALSE /\ d.complete = b
    BY <2>1 DEF IsChannel
  <2>3. Silent(es, id, k)
    BY <1>8
  <2>4. ASSUME NEW j \in DOMAIN new
        PROVE  /\ \A a \in AnnouncedText(new[j], id, k) : a \in Seq(Pieces) /\ IsPrefix(a, d.text)
               /\ Closes(new[j], id, k) => d.complete /\ new[j].text = d.text
    <3>1. CASE j \in DOMAIN es
      BY <1>2, <2>3, <3>1 DEF Silent
    <3>2. CASE j = Len(es) + 1
      <4>1. new[j] = e
        BY <1>2, <3>2
      <4>2. QED
        BY <1>6, <2>2, <4>1
    <3>3. QED
      BY <1>2, <3>1, <3>2
  <2>5. DeltasOf(new, id, k) = <<>> /\ <<>> \in Seq(Pieces)
    BY <1>3, <2>3 DEF Silent
  <2>6. d.complete \/ Announced(new, id, k)
    BY <1>4, <2>2
  <2>7. Tells(new, id, k, d)
    BY <2>2, <2>4, <2>5, <2>6 DEF Tells
  <2>8. QED
    BY <1>1, <1>5, <2>2, <2>7
<1>9. QED
  BY <1>7, <1>8

\* The channel that takes a piece.
TakesPiece(channels, k, t) ==
    IF k \in DOMAIN channels THEN [channels[k] EXCEPT !.text = @ \o t, !.streamed = TRUE]
    ELSE [text |-> t, streamed |-> TRUE, complete |-> FALSE]

\* It holds the piece after what it held.
LEMMA DeltaIsTold ==
    ASSUME NEW es \in Seq(Events), NEW e \in Events, NEW id, NEW k, NEW channels,
           k \in DOMAIN channels => IsChannel(channels[k]) /\ Tells(es, id, k, channels[k]),
           k \notin DOMAIN channels => Silent(es, id, k),
           TakesDelta(channels, k), IsDelta(e, id, k)
    PROVE  /\ IsChannel(TakesPiece(channels, k, e.text))
           /\ Tells(Append(es, e), id, k, TakesPiece(channels, k, e.text))
<1>1. PICK new : new = Append(es, e)
  OBVIOUS
<1>2. /\ DOMAIN new = DOMAIN es \cup {Len(es) + 1} /\ new[Len(es) + 1] = e
      /\ \A j \in DOMAIN es : new[j] = es[j]
  BY <1>1, AppendedEvent
<1>3. DeltasOf(new, id, k) = DeltasOf(es, id, k) \o e.text
  BY <1>1, StreamedStep
<1>4. e.text \in Seq(Pieces) /\ AnnouncedText(e, id, k) = {} /\ ~Closes(e, id, k)
  BY EventTexts
<1>5. Announced(new, id, k) <=> Announced(es, id, k)
  BY <1>1, <1>4, AnnouncedStep
<1>6. PICK d : d = TakesPiece(channels, k, e.text)
  OBVIOUS
<1>7. PICK x \in Seq(Pieces) : x = e.text
  BY <1>4
<1>8. CASE k \in DOMAIN channels
  <2>1. PICK c : c = channels[k]
    OBVIOUS
  <2>2. d = [c EXCEPT !.text = @ \o x, !.streamed = TRUE]
    BY <1>6, <1>7, <1>8, <2>1 DEF TakesPiece
  <2>3. IsChannel(c) /\ Tells(es, id, k, c)
    BY <1>8, <2>1
  <2>4. c.text \in Seq(Pieces) /\ c.streamed \in BOOLEAN /\ c.complete \in BOOLEAN /\ c.text \o x \in Seq(Pieces)
    BY <2>3 DEF IsChannel
  <2>5. IsChannel(d) /\ d.text = c.text \o x /\ d.streamed = TRUE /\ d.complete = c.complete
    BY <2>2, <2>3, <2>4 DEF IsChannel
  <2>6. ~c.complete
    BY <1>8, <2>1 DEF TakesDelta
  <2>7. ASSUME NEW j \in DOMAIN new
        PROVE  /\ \A a \in AnnouncedText(new[j], id, k) : a \in Seq(Pieces) /\ IsPrefix(a, d.text)
               /\ Closes(new[j], id, k) => d.complete /\ new[j].text = d.text
    <3>1. CASE j \in DOMAIN es
      <4>1. ASSUME NEW a \in AnnouncedText(new[j], id, k) PROVE a \in Seq(Pieces) /\ IsPrefix(a, d.text)
        <5>1. a \in Seq(Pieces) /\ IsPrefix(a, c.text)
          BY <1>2, <2>3, <3>1, <4>1 DEF Tells
        <5>2. IsPrefix(a, c.text \o x)
          BY <2>4, <5>1, PrefixFacts
        <5>3. QED
          BY <2>5, <5>1, <5>2
      <4>2. ~Closes(new[j], id, k)
        BY <1>2, <2>3, <2>6, <3>1 DEF Tells
      <4>3. QED
        BY <4>1, <4>2
    <3>2. CASE j = Len(es) + 1
      BY <1>2, <1>4, <3>2
    <3>3. QED
      BY <1>2, <3>1, <3>2
  <2>8. PICK old \in Seq(Pieces) : old = DeltasOf(es, id, k)
    BY <2>3 DEF Tells
  <2>9. DeltasOf(new, id, k) = old \o x
    BY <1>3, <1>7, <2>8
  <2>10. CASE c.streamed
    <3>1. IsSuffix(old, c.text) /\ (~Announced(es, id, k) => c.text = old)
      BY <2>3, <2>8, <2>10 DEF Tells
    <3>2. IsSuffix(old \o x, c.text \o x)
      BY <2>4, <3>1, SuffixFacts
    <3>3. old \o x \in Seq(Pieces)
      OBVIOUS
    <3>4. Tells(new, id, k, d)
      BY <1>5, <2>5, <2>7, <2>9, <3>1, <3>2, <3>3 DEF Tells
    <3>5. QED
      BY <1>1, <1>6, <2>5, <3>4
  <2>11. CASE ~c.streamed
    <3>1. old = <<>> /\ Announced(es, id, k)
      BY <2>3, <2>6, <2>8, <2>11 DEF Tells
    <3>2. old \o x = x /\ <<>> \o x = x /\ x \in Seq(Pieces)
      BY <3>1
    <3>3. IsSuffix(<<>>, c.text)
      BY <2>4, SuffixFacts
    <3>4. IsSuffix(<<>> \o x, c.text \o x)
      <4>1. \A s, t, u \in Seq(Pieces) : IsSuffix(s, t) => IsSuffix(s \o u, t \o u)
        BY SuffixFacts
      <4>2. <<>> \in Seq(Pieces)
        OBVIOUS
      <4>3. QED
        BY <2>4, <3>3, <4>1, <4>2
    <3>5. IsSuffix(x, c.text \o x)
      BY <3>2, <3>4
    <3>6. Tells(new, id, k, d)
      BY <1>5, <2>5, <2>7, <2>9, <3>1, <3>2, <3>5 DEF Tells
    <3>7. QED
      BY <1>1, <1>6, <2>5, <3>6
  <2>12. QED
    BY <2>10, <2>11
<1>9. CASE k \notin DOMAIN channels
  <2>1. d = [text |-> x, streamed |-> TRUE, complete |-> FALSE]
    BY <1>6, <1>7, <1>9 DEF TakesPiece
  <2>2. IsChannel(d) /\ d.text = x /\ d.streamed = TRUE /\ d.complete = FALSE
    BY <2>1 DEF IsChannel
  <2>3. Silent(es, id, k)
    BY <1>9
  <2>4. \A j \in DOMAIN new : AnnouncedText(new[j], id, k) = {} /\ ~Closes(new[j], id, k)
    BY <1>2, <1>4, <2>3 DEF Silent
  <2>5. DeltasOf(new, id, k) = x
    <3>1. DeltasOf(es, id, k) = <<>> /\ <<>> \o x = x
      BY <2>3 DEF Silent
    <3>2. QED
      BY <1>3, <1>7, <3>1
  <2>6. IsSuffix(x, x)
    <3>1. \A i \in 1 .. Len(x) : (Len(x) - Len(x)) + i = i
      OBVIOUS
    <3>2. Len(x) <= Len(x) /\ \A i \in 1 .. Len(x) : x[i] = x[(Len(x) - Len(x)) + i]
      BY <3>1
    <3>3. QED
      BY <3>2, SuffixByPiece
  <2>7. Tells(new, id, k, d)
    BY <2>2, <2>4, <2>5, <2>6 DEF Tells
  <2>8. QED
    BY <1>1, <1>6, <2>2, <2>7
<1>10. QED
  BY <1>8, <1>9

-----------------------------------------------------------------------------
(* An item and what was told of it. *)

IsRecord(r) ==
    r = [index |-> r.index, channels |-> r.channels, closed |-> r.closed, added |-> r.added,
         parts |-> r.parts, done |-> r.done]

\* Every channel holds what was told of it.
ChannelsRead(es, id, channels) ==
    \A k : IF k \in DOMAIN channels THEN IsChannel(channels[k]) /\ Tells(es, id, k, channels[k])
           ELSE Silent(es, id, k)

\* Every announcement of the item has its index, and the one that it is done its texts.
RecordReads(es, id, r) ==
    /\ IsRecord(r)
    /\ ChannelsRead(es, id, r.channels)
    /\ \A j \in DOMAIN es : es[j].kind = "item" /\ es[j].item = id =>
          es[j].index = r.index /\ (es[j].done => r.done = {es[j].texts})

Untold(es, id) ==
    /\ \A k : Silent(es, id, k)
    /\ \A j \in DOMAIN es : ~(es[j].kind = "item" /\ es[j].item = id)

ItemsRead(es, items) == \A id : IF id \in DOMAIN items THEN RecordReads(es, id, items[id]) ELSE Untold(es, id)

\* An event tells of no item but its own.
TellsNothing(e, id) ==
    /\ ~(e.kind = "item" /\ e.item = id)
    /\ \A k : ~IsDelta(e, id, k) /\ ~Closes(e, id, k) /\ AnnouncedText(e, id, k) = {}
TellsOnly(e, id) == \A i : i # id => TellsNothing(e, i)

\* A new item starts with nothing, as nothing was told of it.
LEMMA RecordStarts ==
    ASSUME NEW es, NEW items, NEW id, NEW index, ItemsRead(es, items)
    PROVE  /\ RecordReads(es, id, RecordFor(items, id, index))
           /\ id \notin DOMAIN items => RecordFor(items, id, index).done = {}
<1>1. PICK r : r = RecordFor(items, id, index)
  OBVIOUS
<1>2. CASE id \in DOMAIN items
  <2>1. r = items[id]
    BY <1>1, <1>2 DEF RecordFor
  <2>2. RecordReads(es, id, items[id])
    BY <1>2 DEF ItemsRead
  <2>3. QED
    BY <1>1, <1>2, <2>1, <2>2
<1>3. CASE id \notin DOMAIN items
  <2>1. r = [index |-> index, channels |-> <<>>, closed |-> {}, added |-> {}, parts |-> {}, done |-> {}]
    BY <1>1, <1>3 DEF RecordFor
  <2>2. IsRecord(r)
    BY <2>1 DEF IsRecord
  <2>3. r.channels = <<>> /\ r.done = {}
    BY <2>1
  <2>4. Untold(es, id)
    BY <1>3 DEF ItemsRead
  <2>5. \A k : k \notin DOMAIN r.channels
    BY <2>3
  <2>6. ChannelsRead(es, id, r.channels)
    BY <2>4, <2>5 DEF ChannelsRead, Untold
  <2>7. RecordReads(es, id, r)
    BY <2>2, <2>4, <2>6 DEF RecordReads, Untold
  <2>8. QED
    BY <1>1, <2>3, <2>7
<1>4. QED
  BY <1>2, <1>3

\* Channels of which an event tells nothing stay as they are.
LEMMA ChannelsStay ==
    ASSUME NEW es \in Seq(Events), NEW e \in Events, NEW id, NEW channels, ChannelsRead(es, id, channels),
           \A k : ~IsDelta(e, id, k) /\ ~Closes(e, id, k) /\ AnnouncedText(e, id, k) = {}
    PROVE  ChannelsRead(Append(es, e), id, channels)
<1>1. ASSUME NEW k PROVE IF k \in DOMAIN channels
                         THEN IsChannel(channels[k]) /\ Tells(Append(es, e), id, k, channels[k])
                         ELSE Silent(Append(es, e), id, k)
  <2>1. CASE k \in DOMAIN channels
    <3>1. IsChannel(channels[k]) /\ Tells(es, id, k, channels[k])
      BY <2>1 DEF ChannelsRead
    <3>2. Tells(Append(es, e), id, k, channels[k])
      BY <3>1, StaysTold
    <3>3. QED
      BY <2>1, <3>1, <3>2
  <2>2. CASE k \notin DOMAIN channels
    <3>1. Silent(es, id, k)
      BY <2>2 DEF ChannelsRead
    <3>2. Silent(Append(es, e), id, k)
      BY <3>1, StaysSilent
    <3>3. QED
      BY <2>2, <3>2
  <2>3. QED
    BY <2>1, <2>2
<1>2. QED
  BY <1>1 DEF ChannelsRead

\* An item of which an event tells nothing stays as it is.
LEMMA ItemStays ==
    ASSUME NEW es \in Seq(Events), NEW e \in Events, NEW items, NEW i, ItemsRead(es, items), TellsNothing(e, i)
    PROVE  IF i \in DOMAIN items THEN RecordReads(Append(es, e), i, items[i]) ELSE Untold(Append(es, e), i)
<1>1. PICK new : new = Append(es, e)
  OBVIOUS
<1>2. /\ DOMAIN new = DOMAIN es \cup {Len(es) + 1} /\ new[Len(es) + 1] = e
      /\ \A j \in DOMAIN es : new[j] = es[j]
  BY <1>1, AppendedEvent
<1>3. CASE i \in DOMAIN items
  <2>1. PICK r : r = items[i]
    OBVIOUS
  <2>2. RecordReads(es, i, r)
    BY <1>3, <2>1 DEF ItemsRead
  <2>3. ~(e.kind = "item" /\ e.item = i)
          /\ \A k : ~IsDelta(e, i, k) /\ ~Closes(e, i, k) /\ AnnouncedText(e, i, k) = {}
    BY DEF TellsNothing
  <2>4. ChannelsRead(es, i, r.channels)
    BY <2>2 DEF RecordReads
  <2>5. ChannelsRead(new, i, r.channels)
    BY <1>1, <2>3, <2>4, ChannelsStay
  <2>6. \A j \in DOMAIN new : new[j].kind = "item" /\ new[j].item = i =>
          new[j].index = r.index /\ (new[j].done => r.done = {new[j].texts})
    BY <1>2, <2>2, <2>3 DEF RecordReads
  <2>7. RecordReads(new, i, r)
    BY <2>2, <2>5, <2>6 DEF RecordReads
  <2>8. QED
    BY <1>1, <1>3, <2>1, <2>7
<1>4. CASE i \notin DOMAIN items
  <2>1. Untold(es, i)
    BY <1>4 DEF ItemsRead
  <2>2. ~(e.kind = "item" /\ e.item = i)
          /\ \A k : ~IsDelta(e, i, k) /\ ~Closes(e, i, k) /\ AnnouncedText(e, i, k) = {}
    BY DEF TellsNothing
  <2>3. ASSUME NEW k PROVE Silent(new, i, k)
    <3>1. Silent(es, i, k)
      BY <2>1 DEF Untold
    <3>2. QED
      BY <1>1, <2>2, <3>1, StaysSilent
  <2>4. \A j \in DOMAIN new : ~(new[j].kind = "item" /\ new[j].item = i)
    BY <1>2, <2>1, <2>2 DEF Untold
  <2>5. Untold(new, i)
    BY <2>3, <2>4 DEF Untold
  <2>6. QED
    BY <1>1, <1>4, <2>5
<1>5. QED
  BY <1>3, <1>4

\* An item that was read after an event is put beside the others.
LEMMA ItemIsPut ==
    ASSUME NEW es \in Seq(Events), NEW e \in Events, NEW items, NEW id, NEW r, ItemsRead(es, items),
           TellsOnly(e, id), RecordReads(Append(es, e), id, r)
    PROVE  ItemsRead(Append(es, e), Put(items, id, r))
<1>1. PICK all : all = Put(items, id, r)
  OBVIOUS
<1>2. DOMAIN all = DOMAIN items \cup {id} /\ \A i \in DOMAIN all : all[i] = IF i = id THEN r ELSE items[i]
  BY <1>1 DEF Put
<1>3. ASSUME NEW i PROVE IF i \in DOMAIN all THEN RecordReads(Append(es, e), i, all[i])
                         ELSE Untold(Append(es, e), i)
  <2>1. CASE i = id
    BY <1>2, <2>1
  <2>2. CASE i # id
    <3>1. IF i \in DOMAIN items THEN RecordReads(Append(es, e), i, items[i]) ELSE Untold(Append(es, e), i)
      BY <2>2, ItemStays DEF TellsOnly
    <3>2. i \in DOMAIN all <=> i \in DOMAIN items
      BY <1>2, <2>2
    <3>3. i \in DOMAIN all => all[i] = items[i]
      BY <1>2, <2>2
    <3>4. QED
      BY <3>1, <3>2, <3>3
  <2>3. QED
    BY <2>1, <2>2
<1>4. ItemsRead(Append(es, e), all)
  BY <1>3 DEF ItemsRead
<1>5. QED
  BY <1>1, <1>4

-----------------------------------------------------------------------------
(* Events that are taken. *)

\* An item that is announced or done holds its texts.
LEMMA ItemIsRead ==
    ASSUME NEW es \in Seq(Events), NEW e \in Events, NEW r, RecordReads(es, e.item, r), e.kind = "item",
           r.index = e.index, TakesContent(r.channels, e.texts, e.done), e.done => r.done = {},
           \A j \in DOMAIN es : ~e.done => ~(es[j].kind = "item" /\ es[j].item = e.item)
    PROVE  RecordReads(Append(es, e), e.item,
                       [r EXCEPT !.channels = ItemContent(@, e.texts, e.done),
                                 !.done = IF e.done THEN {e.texts} ELSE @])
<1>1. PICK new : new = Append(es, e)
  OBVIOUS
<1>2. /\ DOMAIN new = DOMAIN es \cup {Len(es) + 1} /\ new[Len(es) + 1] = e
      /\ \A j \in DOMAIN es : new[j] = es[j]
  BY <1>1, AppendedEvent
<1>3. PICK id : id = e.item
  OBVIOUS
<1>4. PICK channels : channels = r.channels
  OBVIOUS
<1>5. PICK content : content = ItemContent(channels, e.texts, e.done)
  OBVIOUS
<1>6. PICK after : after = [r EXCEPT !.channels = content, !.done = IF e.done THEN {e.texts} ELSE @]
  OBVIOUS
<1>7. IsRecord(r) /\ ChannelsRead(es, id, channels)
  BY <1>3, <1>4 DEF RecordReads
<1>8. /\ IsRecord(after) /\ after.channels = content /\ after.index = r.index
      /\ after.done = IF e.done THEN {e.texts} ELSE r.done
  <2>1. after = [index |-> r.index, channels |-> content, closed |-> r.closed, added |-> r.added,
                 parts |-> r.parts, done |-> IF e.done THEN {e.texts} ELSE r.done]
    BY <1>6, <1>7 DEF IsRecord
  <2>2. QED
    BY <2>1 DEF IsRecord
<1>9. e.done \in BOOLEAN /\ TextsOf(e.texts)
  BY ResponsesAssumption
<1>10. \A k : ~IsDelta(e, id, k) /\ ~Closes(e, id, k)
  BY DEF IsDelta, Closes
<1>11. \A k : AnnouncedText(e, id, k) = IF ~e.done /\ k \in DOMAIN e.texts THEN {e.texts[k]} ELSE {}
  BY <1>3 DEF AnnouncedText
<1>12. /\ e.done => DOMAIN channels \subseteq DOMAIN e.texts
       /\ \A k \in DOMAIN e.texts : TakesFull(channels, k, e.texts[k])
  BY <1>4 DEF TakesContent
<1>13. /\ DOMAIN content = DOMAIN channels \cup DOMAIN e.texts
       /\ \A k \in DOMAIN content : content[k] = IF k \in DOMAIN e.texts
                                                 THEN Told(channels, k, e.texts[k], e.done) ELSE channels[k]
  BY <1>5 DEF ItemContent
<1>14. ASSUME NEW k PROVE IF k \in DOMAIN content THEN IsChannel(content[k]) /\ Tells(new, id, k, content[k])
                          ELSE Silent(new, id, k)
  <2>1. IF k \in DOMAIN channels THEN IsChannel(channels[k]) /\ Tells(es, id, k, channels[k])
        ELSE Silent(es, id, k)
    BY <1>7 DEF ChannelsRead
  <2>2. CASE k \in DOMAIN e.texts
    <3>1. PICK t \in Seq(Pieces) : t = e.texts[k]
      BY <1>9, <2>2 DEF TextsOf
    <3>2. PICK b \in BOOLEAN : b = e.done
      BY <1>9
    <3>3. TakesFull(channels, k, t)
      BY <1>12, <2>2, <3>1
    <3>4. AnnouncedText(e, id, k) = IF ~b THEN {t} ELSE {}
      BY <1>11, <2>2, <3>1, <3>2
    <3>5. AnnouncedText(e, id, k) \subseteq {t} /\ (b \/ AnnouncedText(e, id, k) # {})
      BY <3>4
    <3>6. IsChannel(Told(channels, k, t, b)) /\ Tells(Append(es, e), id, k, Told(channels, k, t, b))
      BY <1>10, <2>1, <3>3, <3>5, FullIsTold
    <3>7. k \in DOMAIN content /\ content[k] = Told(channels, k, t, b)
      BY <1>13, <2>2, <3>1, <3>2
    <3>8. QED
      BY <1>1, <3>6, <3>7
  <2>3. CASE k \notin DOMAIN e.texts
    <3>1. AnnouncedText(e, id, k) = {}
      BY <1>11, <2>3
    <3>2. CASE k \in DOMAIN channels
      <4>1. Tells(new, id, k, channels[k])
        BY <1>1, <1>10, <2>1, <3>1, <3>2, StaysTold
      <4>2. k \in DOMAIN content /\ content[k] = channels[k]
        BY <1>13, <2>3, <3>2
      <4>3. QED
        BY <2>1, <3>2, <4>1, <4>2
    <3>3. CASE k \notin DOMAIN channels
      <4>1. Silent(new, id, k)
        BY <1>1, <1>10, <2>1, <3>1, <3>3, StaysSilent
      <4>2. k \notin DOMAIN content
        BY <1>13, <2>3, <3>3
      <4>3. QED
        BY <4>1, <4>2
    <3>4. QED
      BY <3>2, <3>3
  <2>4. QED
    BY <2>2, <2>3
<1>15. ChannelsRead(new, id, content)
  BY <1>14 DEF ChannelsRead
<1>16. ASSUME NEW j \in DOMAIN new, new[j].kind = "item", new[j].item = id
       PROVE  new[j].index = after.index /\ (new[j].done => after.done = {new[j].texts})
  <2>1. CASE j \in DOMAIN es
    <3>1. es[j].kind = "item" /\ es[j].item = e.item /\ es[j] = new[j]
      BY <1>2, <1>3, <1>16, <2>1
    <3>2. es[j].index = r.index /\ (es[j].done => r.done = {es[j].texts})
      BY <2>1, <3>1 DEF RecordReads
    <3>3. e.done
      BY <1>9, <2>1, <3>1
    <3>4. ~es[j].done
      BY <3>2, <3>3
    <3>5. QED
      BY <1>8, <3>1, <3>2, <3>4
  <2>2. CASE j = Len(es) + 1
    BY <1>2, <1>8, <2>2
  <2>3. QED
    BY <1>2, <2>1, <2>2
<1>17. RecordReads(new, id, after)
  BY <1>8, <1>15, <1>16 DEF RecordReads
<1>18. QED
  BY <1>1, <1>3, <1>4, <1>5, <1>6, <1>17

\* So does one of which a part or a text is told, at its channel.
LEMMA OutputIsRead ==
    ASSUME NEW es \in Seq(Events), NEW e \in Events, NEW r, NEW after, NEW c, RecordReads(es, e.item, r),
           e.kind \in {"part", "text"}, IsRecord(after), after.channels = Put(r.channels, e.at, c),
           after.index = r.index, after.done = r.done,
           IsChannel(c), Tells(Append(es, e), e.item, e.at, c)
    PROVE  RecordReads(Append(es, e), e.item, after)
<1>1. PICK new : new = Append(es, e)
  OBVIOUS
<1>2. /\ DOMAIN new = DOMAIN es \cup {Len(es) + 1} /\ new[Len(es) + 1] = e
      /\ \A j \in DOMAIN es : new[j] = es[j]
  BY <1>1, AppendedEvent
<1>3. PICK id : id = e.item
  OBVIOUS
<1>4. PICK channels : channels = r.channels
  OBVIOUS
<1>5. PICK at : at = e.at
  OBVIOUS
<1>6. PICK content : content = Put(channels, at, c)
  OBVIOUS
<1>7. ChannelsRead(es, id, channels)
  BY <1>3, <1>4 DEF RecordReads
<1>8. \A k : k # at => ~IsDelta(e, id, k) /\ ~Closes(e, id, k) /\ AnnouncedText(e, id, k) = {}
  BY <1>5 DEF IsDelta, Closes, AnnouncedText
<1>9. /\ DOMAIN content = DOMAIN channels \cup {at}
      /\ \A k \in DOMAIN content : content[k] = IF k = at THEN c ELSE channels[k]
  BY <1>6 DEF Put
<1>10. ASSUME NEW k PROVE IF k \in DOMAIN content THEN IsChannel(content[k]) /\ Tells(new, id, k, content[k])
                          ELSE Silent(new, id, k)
  <2>1. IF k \in DOMAIN channels THEN IsChannel(channels[k]) /\ Tells(es, id, k, channels[k])
        ELSE Silent(es, id, k)
    BY <1>7 DEF ChannelsRead
  <2>2. CASE k = at
    <3>1. k \in DOMAIN content /\ content[k] = c
      BY <1>9, <2>2
    <3>2. QED
      BY <1>1, <1>3, <1>5, <2>2, <3>1
  <2>3. CASE k # at
    <3>1. ~IsDelta(e, id, k) /\ ~Closes(e, id, k) /\ AnnouncedText(e, id, k) = {}
      BY <1>8, <2>3
    <3>2. CASE k \in DOMAIN channels
      <4>1. Tells(new, id, k, channels[k])
        BY <1>1, <2>1, <3>1, <3>2, StaysTold
      <4>2. k \in DOMAIN content /\ content[k] = channels[k]
        BY <1>9, <2>3, <3>2
      <4>3. QED
        BY <2>1, <3>2, <4>1, <4>2
    <3>3. CASE k \notin DOMAIN channels
      <4>1. Silent(new, id, k)
        BY <1>1, <2>1, <3>1, <3>3, StaysSilent
      <4>2. k \notin DOMAIN content
        BY <1>9, <2>3, <3>3
      <4>3. QED
        BY <4>1, <4>2
    <3>4. QED
      BY <3>2, <3>3
  <2>4. QED
    BY <2>2, <2>3
<1>11. ChannelsRead(new, id, content)
  BY <1>10 DEF ChannelsRead
<1>12. after.channels = content
  BY <1>4, <1>5, <1>6
<1>13. \A j \in DOMAIN new : new[j].kind = "item" /\ new[j].item = id =>
          new[j].index = after.index /\ (new[j].done => after.done = {new[j].texts})
  BY <1>2, <1>3 DEF RecordReads
<1>14. RecordReads(new, id, after)
  BY <1>11, <1>12, <1>13 DEF RecordReads
<1>15. QED
  BY <1>1, <1>3, <1>14

\* The observer's state.
IsResponse(s) ==
    s = [created |-> s.created, items |-> s.items, terminal |-> s.terminal, numbered |-> s.numbered,
         lastSequence |-> s.lastSequence, invalid |-> s.invalid]

\* What With puts.
LEMMA WithItem ==
    ASSUME NEW s, IsResponse(s), NEW id, NEW r
    PROVE  /\ IsResponse(With(s, id, r))
           /\ With(s, id, r).items = Put(s.items, id, r)
           /\ With(s, id, r).terminal = s.terminal /\ With(s, id, r).invalid = s.invalid
<1>1. PICK items : items = s.items
  OBVIOUS
<1>2. PICK all : all = Put(items, id, r)
  OBVIOUS
<1>3. PICK after : after = [s EXCEPT !.items = all]
  OBVIOUS
<1>4. With(s, id, r) = after
  BY <1>1, <1>2, <1>3 DEF With, Put
<1>5. after = [created |-> s.created, items |-> all, terminal |-> s.terminal, numbered |-> s.numbered,
               lastSequence |-> s.lastSequence, invalid |-> s.invalid]
  BY <1>3 DEF IsResponse
<1>6. IsResponse(after) /\ after.items = all /\ after.terminal = s.terminal /\ after.invalid = s.invalid
  BY <1>5 DEF IsResponse
<1>7. QED
  BY <1>1, <1>2, <1>4, <1>6

\* An item that is taken is read.
LEMMA ItemEventIsRead ==
    ASSUME NEW es \in Seq(Events), NEW e \in Events, NEW s, IsResponse(s), ItemsRead(es, s.items),
           e.kind = "item", TakesItem(s, e)
    PROVE  ItemsRead(Append(es, e), ItemEvent(s, e).items)
<1>1. PICK items : items = s.items
  OBVIOUS
<1>2. PICK r : r = RecordFor(items, e.item, e.index)
  OBVIOUS
<1>3. RecordReads(es, e.item, r) /\ (e.item \notin DOMAIN items => r.done = {})
  BY <1>1, <1>2, RecordStarts
<1>4. /\ r.index = e.index /\ (IF e.done THEN r.done = {} ELSE e.item \notin DOMAIN items)
      /\ TakesContent(r.channels, e.texts, e.done)
  BY <1>1, <1>2 DEF TakesItem
<1>5. ~e.done => Untold(es, e.item)
  BY <1>1, <1>4 DEF ItemsRead
<1>6. \A j \in DOMAIN es : ~e.done => ~(es[j].kind = "item" /\ es[j].item = e.item)
  BY <1>5 DEF Untold
<1>7. PICK after : after = [r EXCEPT !.channels = ItemContent(@, e.texts, e.done),
                                     !.done = IF e.done THEN {e.texts} ELSE @]
  OBVIOUS
<1>8. RecordReads(Append(es, e), e.item, after)
  BY <1>3, <1>4, <1>6, <1>7, ItemIsRead
<1>9. TellsOnly(e, e.item)
  BY DEF TellsOnly, TellsNothing, IsDelta, Closes, AnnouncedText
<1>10. ItemsRead(Append(es, e), Put(items, e.item, after))
  BY <1>1, <1>8, <1>9, ItemIsPut
<1>11. ItemEvent(s, e) = With(s, e.item, after)
  BY <1>1, <1>2, <1>7 DEF ItemEvent
<1>12. With(s, e.item, after).items = Put(items, e.item, after)
  BY <1>1, WithItem
<1>13. QED
  BY <1>10, <1>11, <1>12

\* So is a part and a text.
LEMMA OutputEventIsRead ==
    ASSUME NEW es \in Seq(Events), NEW e \in Events, NEW s, IsResponse(s), ItemsRead(es, s.items),
           e.kind \in {"part", "text"}, TakesOutput(s, e)
    PROVE  ItemsRead(Append(es, e), OutputEvent(s, e).items)
<1>1. PICK items : items = s.items
  OBVIOUS
<1>2. e.item \in DOMAIN items
  BY <1>1 DEF TakesOutput
<1>3. PICK r : r = items[e.item]
  OBVIOUS
<1>4. RecordReads(es, e.item, r)
  BY <1>1, <1>2, <1>3 DEF ItemsRead
<1>5. IF e.kind = "part" THEN TakesPart(r, e) ELSE TakesText(r, e)
  BY <1>1, <1>3 DEF TakesOutput
<1>6. PICK channels : channels = r.channels
  OBVIOUS
<1>7. IsRecord(r) /\ ChannelsRead(es, e.item, channels)
  BY <1>4, <1>6 DEF RecordReads
<1>8. IF e.at \in DOMAIN channels THEN IsChannel(channels[e.at]) /\ Tells(es, e.item, e.at, channels[e.at])
      ELSE Silent(es, e.item, e.at)
  BY <1>7 DEF ChannelsRead
<1>9. PICK t \in Seq(Pieces) : t = e.text
  BY ResponsesAssumption
<1>10. e.done \in BOOLEAN
  BY ResponsesAssumption
<1>11. PICK c : c = IF e.kind = "part" THEN Told(channels, e.at, t, e.done)
                    ELSE IF e.done THEN Told(channels, e.at, t, TRUE) ELSE TakesPiece(channels, e.at, t)
  OBVIOUS
<1>12. IsChannel(c) /\ Tells(Append(es, e), e.item, e.at, c)
  <2>1. CASE e.kind = "part"
    <3>1. PICK b \in BOOLEAN : b = e.done
      BY <1>10
    <3>2. TakesFull(channels, e.at, t)
      BY <1>5, <1>6, <1>9, <2>1 DEF TakesPart
    <3>3. ~IsDelta(e, e.item, e.at) /\ AnnouncedText(e, e.item, e.at) = (IF b THEN {} ELSE {t})
            /\ (Closes(e, e.item, e.at) => b)
      BY <1>9, <2>1, <3>1 DEF IsDelta, AnnouncedText, Closes
    <3>4. AnnouncedText(e, e.item, e.at) \subseteq {t} /\ (b \/ AnnouncedText(e, e.item, e.at) # {})
      BY <3>3
    <3>5. IsChannel(Told(channels, e.at, t, b)) /\ Tells(Append(es, e), e.item, e.at, Told(channels, e.at, t, b))
      BY <1>8, <1>9, <3>2, <3>3, <3>4, FullIsTold
    <3>6. QED
      BY <1>11, <2>1, <3>1, <3>5
  <2>2. CASE e.kind = "text" /\ e.done
    <3>1. TakesFull(channels, e.at, t)
      BY <1>5, <1>6, <1>9, <2>2 DEF TakesText
    <3>2. ~IsDelta(e, e.item, e.at) /\ AnnouncedText(e, e.item, e.at) = {}
      BY <2>2 DEF IsDelta, AnnouncedText
    <3>3. AnnouncedText(e, e.item, e.at) \subseteq {t}
      BY <3>2
    <3>4. PICK b \in BOOLEAN : b = TRUE
      OBVIOUS
    <3>5. IsChannel(Told(channels, e.at, t, b)) /\ Tells(Append(es, e), e.item, e.at, Told(channels, e.at, t, b))
      BY <1>8, <1>9, <3>1, <3>2, <3>3, <3>4, FullIsTold
    <3>6. e.kind # "part"
      BY <2>2
    <3>7. QED
      BY <1>11, <2>2, <3>4, <3>5, <3>6
  <2>3. CASE e.kind = "text" /\ ~e.done
    <3>1. TakesDelta(channels, e.at)
      BY <1>5, <1>6, <2>3 DEF TakesText
    <3>2. IsDelta(e, e.item, e.at)
      BY <2>3 DEF IsDelta
    <3>3. IsChannel(TakesPiece(channels, e.at, e.text))
            /\ Tells(Append(es, e), e.item, e.at, TakesPiece(channels, e.at, e.text))
      BY <1>8, <3>1, <3>2, DeltaIsTold
    <3>4. e.kind # "part"
      BY <2>3
    <3>5. QED
      BY <1>9, <1>11, <2>3, <3>3, <3>4
  <2>4. QED
    BY <1>10, <2>1, <2>2, <2>3
<1>13. PICK after : after = IF e.kind = "part" THEN PartEvent(r, e) ELSE TextEvent(r, e)
  OBVIOUS
<1>14. PICK content : content = Put(channels, e.at, c)
  OBVIOUS
<1>15. IsRecord(after) /\ after.channels = content /\ after.index = r.index /\ after.done = r.done
  <2>1. CASE e.kind = "part"
    <3>1. content = Snapshot(channels, e.at, e.text, e.done)
      BY <1>9, <1>11, <1>14, <2>1 DEF Snapshot
    <3>2. PICK x : x = IF e.done THEN r.added ELSE r.added \cup {e.at}
      OBVIOUS
    <3>3. PICK y : y = IF e.done THEN r.parts \cup {e.at} ELSE r.parts
      OBVIOUS
    <3>4. after = [r EXCEPT !.channels = content, !.added = x, !.parts = y]
      BY <1>6, <1>13, <2>1, <3>1, <3>2, <3>3 DEF PartEvent
    <3>5. after = [index |-> r.index, channels |-> content, closed |-> r.closed, added |-> x,
                   parts |-> y, done |-> r.done]
      BY <1>7, <3>4 DEF IsRecord
    <3>6. QED
      BY <3>5 DEF IsRecord
  <2>2. CASE e.kind # "part"
    <3>1. content = IF e.done THEN Snapshot(channels, e.at, e.text, TRUE) ELSE AppendDelta(channels, e.at, e.text)
      BY <1>9, <1>11, <1>14, <2>2 DEF Snapshot, AppendDelta, TakesPiece
    <3>2. PICK x : x = IF e.done THEN r.closed \cup {e.at} ELSE r.closed
      OBVIOUS
    <3>3. after = [r EXCEPT !.channels = content, !.closed = x]
      BY <1>6, <1>13, <2>2, <3>1, <3>2 DEF TextEvent
    <3>4. after = [index |-> r.index, channels |-> content, closed |-> x, added |-> r.added,
                   parts |-> r.parts, done |-> r.done]
      BY <1>7, <3>3 DEF IsRecord
    <3>5. QED
      BY <3>4 DEF IsRecord
  <2>3. QED
    BY <2>1, <2>2
<1>16. after.channels = Put(r.channels, e.at, c)
  BY <1>6, <1>14, <1>15
<1>17. RecordReads(Append(es, e), e.item, after)
  BY <1>4, <1>12, <1>15, <1>16, OutputIsRead
<1>18. TellsOnly(e, e.item)
  BY DEF TellsOnly, TellsNothing, IsDelta, Closes, AnnouncedText
<1>19. ItemsRead(Append(es, e), Put(items, e.item, after))
  BY <1>1, <1>17, <1>18, ItemIsPut
<1>20. OutputEvent(s, e) = With(s, e.item, after)
  BY <1>1, <1>3, <1>13 DEF OutputEvent
<1>21. With(s, e.item, after).items = Put(items, e.item, after)
  BY <1>1, WithItem
<1>22. QED
  BY <1>19, <1>20, <1>21

-----------------------------------------------------------------------------
(* The end of a response. *)

\* The terminal event's repetition of an item reads as it was told.
LEMMA RepetitionReads ==
    ASSUME NEW es \in Seq(Events), NEW id, NEW r, NEW texts, RecordReads(es, id, r), TextsOf(texts),
           r.done \subseteq {texts}, TakesContent(r.channels, texts, TRUE), NEW k \in DOMAIN texts
    PROVE  ReadsAs(es, id, k, texts[k])
<1>1. PICK t \in Seq(Pieces) : t = texts[k]
  BY DEF TextsOf
<1>2. PICK channels : channels = r.channels
  OBVIOUS
<1>3. TakesFull(channels, k, t)
  BY <1>1, <1>2 DEF TakesContent
<1>4. IF k \in DOMAIN channels THEN IsChannel(channels[k]) /\ Tells(es, id, k, channels[k])
      ELSE Silent(es, id, k)
  BY <1>2 DEF RecordReads, ChannelsRead
<1>5. ASSUME NEW j \in DOMAIN es, es[j].kind = "item", es[j].item = id, es[j].done PROVE es[j].texts = texts
  BY <1>5 DEF RecordReads
<1>6. \A j \in DOMAIN es : es[j] \in Events
  OBVIOUS
<1>7. CASE k \in DOMAIN channels
  <2>1. PICK c : c = channels[k]
    OBVIOUS
  <2>2. IsChannel(c) /\ Tells(es, id, k, c)
    BY <1>4, <1>7, <2>1
  <2>3. c.text \in Seq(Pieces) /\ c.streamed \in BOOLEAN /\ c.complete \in BOOLEAN
    BY <2>2 DEF IsChannel
  <2>4. IF c.streamed \/ c.complete THEN t = c.text ELSE IsPrefix(c.text, t)
    BY <1>3, <1>7, <2>1 DEF TakesFull, Continues
  <2>5. IsPrefix(c.text, t)
    <3>1. IsPrefix(t, t)
      BY PrefixFacts
    <3>2. QED
      BY <2>4, <3>1
  <2>6. ASSUME NEW j \in DOMAIN es PROVE FullText(es[j], id, k) \subseteq {t}
    <3>1. CASE es[j].kind = "item"
      BY <1>1, <1>5, <3>1 DEF FullText
    <3>2. CASE es[j].kind # "item"
      <4>1. FullText(es[j], id, k) = IF Closes(es[j], id, k) THEN {es[j].text} ELSE {}
        BY <3>2 DEF FullText, Closes
      <4>2. Closes(es[j], id, k) => c.complete /\ es[j].text = c.text
        BY <2>2 DEF Tells
      <4>3. QED
        BY <2>4, <4>1, <4>2
    <3>3. QED
      BY <3>1, <3>2
  <2>7. ASSUME NEW j \in DOMAIN es, NEW a \in AnnouncedText(es[j], id, k) PROVE IsPrefix(a, t)
    <3>1. a \in Seq(Pieces) /\ IsPrefix(a, c.text)
      BY <2>2, <2>7 DEF Tells
    <3>2. QED
      BY <2>3, <2>5, <3>1, PrefixFacts
  <2>8. /\ IsSuffix(DeltasOf(es, id, k), t)
        /\ DeltasOf(es, id, k) # <<>> /\ (\A j \in DOMAIN es : AnnouncedText(es[j], id, k) = {})
              => t = DeltasOf(es, id, k)
    <3>1. CASE c.streamed
      BY <2>2, <2>4, <3>1 DEF Tells, Announced
    <3>2. CASE ~c.streamed
      <4>1. DeltasOf(es, id, k) = <<>>
        BY <2>2, <3>2 DEF Tells
      <4>2. IsSuffix(<<>>, t)
        BY SuffixFacts
      <4>3. QED
        BY <4>1, <4>2
    <3>3. QED
      BY <3>1, <3>2
  <2>9. ReadsAs(es, id, k, t)
    BY <2>6, <2>7, <2>8 DEF ReadsAs
  <2>10. QED
    BY <1>1, <2>9
<1>8. CASE k \notin DOMAIN channels
  <2>1. Silent(es, id, k)
    BY <1>4, <1>8
  <2>2. ASSUME NEW j \in DOMAIN es PROVE FullText(es[j], id, k) \subseteq {t}
    <3>1. CASE es[j].kind = "item"
      BY <1>1, <1>5, <3>1 DEF FullText
    <3>2. CASE es[j].kind # "item"
      BY <2>1, <3>2 DEF FullText, Silent, Closes
    <3>3. QED
      BY <3>1, <3>2
  <2>3. \A j \in DOMAIN es : AnnouncedText(es[j], id, k) = {}
    BY <2>1 DEF Silent
  <2>4. DeltasOf(es, id, k) = <<>> /\ IsSuffix(<<>>, t)
    BY <2>1, SuffixFacts DEF Silent
  <2>5. ReadsAs(es, id, k, t)
    BY <2>2, <2>3, <2>4 DEF ReadsAs
  <2>6. QED
    BY <1>1, <2>5
<1>9. QED
  BY <1>7, <1>8

\* The events after the last of a channel do not change how it reads.
LEMMA ReadingStays ==
    ASSUME NEW es \in Seq(Events), NEW e \in Events, e.kind \in {"terminal", "sentinel"},
           NEW id, NEW k, NEW text, ReadsAs(es, id, k, text)
    PROVE  ReadsAs(Append(es, e), id, k, text)
<1>1. PICK new : new = Append(es, e)
  OBVIOUS
<1>2. /\ DOMAIN new = DOMAIN es \cup {Len(es) + 1} /\ new[Len(es) + 1] = e
      /\ \A j \in DOMAIN es : new[j] = es[j]
  BY <1>1, AppendedEvent
<1>3. ~IsDelta(e, id, k) /\ AnnouncedText(e, id, k) = {} /\ FullText(e, id, k) = {}
  BY DEF IsDelta, AnnouncedText, FullText
<1>4. DeltasOf(new, id, k) = DeltasOf(es, id, k)
  BY <1>1, <1>3, StreamedStep
<1>5. \A j \in DOMAIN new : /\ FullText(new[j], id, k) \subseteq {text}
                            /\ \A t \in AnnouncedText(new[j], id, k) : IsPrefix(t, text)
  BY <1>2, <1>3 DEF ReadsAs
<1>6. (\A j \in DOMAIN new : AnnouncedText(new[j], id, k) = {}) => \A j \in DOMAIN es : AnnouncedText(es[j], id, k) = {}
  BY <1>2
<1>7. ReadsAs(new, id, k, text)
  BY <1>4, <1>5, <1>6 DEF ReadsAs
<1>8. QED
  BY <1>1, <1>7

\* An output that is taken has one reading.
LEMMA OutputReads ==
    ASSUME NEW es \in Seq(Events), NEW e \in Events, NEW s, ItemsRead(es, s.items),
           e.kind = "terminal", e.status = "completed", TakesOutputs(s, e.output)
    PROVE  OneReading(Append(es, e), Len(es) + 1)
<1>1. PICK new : new = Append(es, e)
  OBVIOUS
<1>2. /\ DOMAIN new = DOMAIN es \cup {Len(es) + 1} /\ new[Len(es) + 1] = e
      /\ \A j \in DOMAIN es : new[j] = es[j]
  BY <1>1, AppendedEvent
<1>3. PICK items : items = s.items
  OBVIOUS
<1>4. PICK output : output = e.output
  OBVIOUS
<1>5. /\ DOMAIN items \subseteq {output[i].id : i \in DOMAIN output}
      /\ \A i \in DOMAIN output : TakesFinal(s, output[i], i)
  BY <1>3, <1>4 DEF TakesOutputs
<1>6. ASSUME NEW i \in DOMAIN output
      PROVE  \E r : /\ r = RecordFor(items, output[i].id, i) /\ RecordReads(es, output[i].id, r)
                    /\ r.index = i /\ r.done \subseteq {output[i].texts}
                    /\ TakesContent(r.channels, output[i].texts, TRUE)
  <2>1. PICK r : r = RecordFor(items, output[i].id, i)
    OBVIOUS
  <2>2. RecordReads(es, output[i].id, r)
    BY <1>3, <2>1, RecordStarts
  <2>3. TakesFinal(s, output[i], i)
    BY <1>5
  <2>4. r.index = i /\ r.done \subseteq {output[i].texts} /\ TakesContent(r.channels, output[i].texts, TRUE)
    BY <1>3, <2>1, <2>3 DEF TakesFinal
  <2>5. QED
    BY <2>1, <2>2, <2>4
<1>7. ASSUME NEW i \in DOMAIN output, NEW k \in DOMAIN output[i].texts
      PROVE  ReadsAs(new, output[i].id, k, output[i].texts[k])
  <2>1. PICK r : /\ RecordReads(es, output[i].id, r) /\ r.done \subseteq {output[i].texts}
                 /\ TakesContent(r.channels, output[i].texts, TRUE)
    BY <1>6
  <2>2. TextsOf(output[i].texts)
    BY <1>4, ResponsesAssumption
  <2>3. ReadsAs(es, output[i].id, k, output[i].texts[k])
    BY <1>7, <2>1, <2>2, RepetitionReads
  <2>4. QED
    BY <1>1, <2>3, ReadingStays
<1>8. ASSUME NEW j \in DOMAIN new, new[j].kind = "item"
      PROVE  new[j].index \in DOMAIN output /\ output[new[j].index].id = new[j].item
  <2>1. j \in DOMAIN es /\ new[j] = es[j]
    BY <1>2, <1>8
  <2>2. PICK id : id = es[j].item
    OBVIOUS
  <2>3. id \in DOMAIN items /\ RecordReads(es, id, items[id])
    <3>1. IF id \in DOMAIN items THEN RecordReads(es, id, items[id]) ELSE Untold(es, id)
      BY <1>3 DEF ItemsRead
    <3>2. ~Untold(es, id)
      BY <1>8, <2>1, <2>2 DEF Untold
    <3>3. QED
      BY <3>1, <3>2
  <2>4. PICK i \in DOMAIN output : output[i].id = id
    BY <1>5, <2>3
  <2>5. PICK r : r = RecordFor(items, output[i].id, i) /\ r.index = i
    BY <1>6
  <2>6. r = items[id]
    BY <2>3, <2>4, <2>5 DEF RecordFor
  <2>7. es[j].index = i
    BY <1>8, <2>1, <2>2, <2>3, <2>5, <2>6 DEF RecordReads
  <2>8. QED
    BY <2>1, <2>2, <2>4, <2>7
<1>9. \A i \in DOMAIN new : ~(i > Len(es) + 1)
  <2>1. DOMAIN es = 1 .. Len(es) /\ Len(es) \in Nat
    BY AppendedEvent
  <2>2. QED
    BY <1>2, <2>1
<1>10. new[Len(es) + 1].output = output
  BY <1>2, <1>4
<1>11. OneReading(new, Len(es) + 1)
  BY <1>7, <1>8, <1>9, <1>10 DEF OneReading
<1>12. QED
  BY <1>1, <1>11

\* An end marker changes nothing of it.
LEMMA MarkerKeepsReading ==
    ASSUME NEW es \in Seq(Events), NEW e \in Events, NEW p \in DOMAIN es, e.kind = "sentinel", OneReading(es, p)
    PROVE  OneReading(Append(es, e), p)
<1>1. PICK new : new = Append(es, e)
  OBVIOUS
<1>2. /\ DOMAIN new = DOMAIN es \cup {Len(es) + 1} /\ new[Len(es) + 1] = e
      /\ \A j \in DOMAIN es : new[j] = es[j]
  BY <1>1, AppendedEvent
<1>3. PICK output : output = es[p].output
  OBVIOUS
<1>4. new[p].output = output
  BY <1>2, <1>3
<1>5. \A i \in DOMAIN new : i > p => new[i].kind = "sentinel"
  BY <1>2 DEF OneReading
<1>6. \A i \in DOMAIN new : new[i].kind = "item" =>
          new[i].index \in DOMAIN output /\ output[new[i].index].id = new[i].item
  BY <1>2, <1>3 DEF OneReading
<1>7. ASSUME NEW i \in DOMAIN output, NEW k \in DOMAIN output[i].texts
      PROVE  ReadsAs(new, output[i].id, k, output[i].texts[k])
  <2>1. ReadsAs(es, output[i].id, k, output[i].texts[k])
    BY <1>3 DEF OneReading
  <2>2. QED
    BY <1>1, <2>1, ReadingStays
<1>8. OneReading(new, p)
  BY <1>4, <1>5, <1>6, <1>7 DEF OneReading
<1>9. QED
  BY <1>1, <1>8

-----------------------------------------------------------------------------
(* The observer. *)

Unended(es) == \A j \in DOMAIN es : es[j].kind # "terminal"

\* One terminal event, of this status, and if it completes the response, one reading.
Ended(es, status) ==
    \E p \in DOMAIN es :
        /\ es[p].kind = "terminal" /\ \A j \in DOMAIN es : es[j].kind = "terminal" => j = p
        /\ status = "completed" => OneReading(es, p)

\* Until its end a valid response holds what was told of it.
Observed(es, s) ==
    ~s.invalid => IF s.terminal = Null THEN Unended(es) /\ ItemsRead(es, s.items) ELSE Ended(es, s.terminal)

ResponsesInv == events \in Seq(Events) /\ IsResponse(response) /\ Observed(events, response)

\* An event that tells of no item leaves all as they are.
LEMMA QuietEvent ==
    ASSUME NEW es \in Seq(Events), NEW e \in Events, e.kind \in {"created", "sentinel"}, NEW items, ItemsRead(es, items)
    PROVE  ItemsRead(Append(es, e), items)
<1>1. ASSUME NEW i
      PROVE  IF i \in DOMAIN items THEN RecordReads(Append(es, e), i, items[i]) ELSE Untold(Append(es, e), i)
  <2>1. TellsNothing(e, i)
    BY DEF TellsNothing, IsDelta, Closes, AnnouncedText
  <2>2. QED
    BY <2>1, ItemStays
<1>2. QED
  BY <1>1 DEF ItemsRead

\* An event that does not end a response leaves it so.
LEMMA UnendedStep ==
    ASSUME NEW es \in Seq(Events), NEW e \in Events, Unended(es), e.kind # "terminal"
    PROVE  Unended(Append(es, e))
<1>1. PICK new : new = Append(es, e)
  OBVIOUS
<1>2. /\ DOMAIN new = DOMAIN es \cup {Len(es) + 1} /\ new[Len(es) + 1] = e
      /\ \A j \in DOMAIN es : new[j] = es[j]
  BY <1>1, AppendedEvent
<1>3. Unended(new)
  BY <1>2 DEF Unended
<1>4. QED
  BY <1>1, <1>3

\* A terminal event that is taken ends it.
LEMMA EndedStep ==
    ASSUME NEW es \in Seq(Events), NEW e \in Events, NEW s, Unended(es), ItemsRead(es, s.items),
           e.kind = "terminal", e.status = "completed" => TakesOutputs(s, e.output)
    PROVE  Ended(Append(es, e), e.status)
<1>1. PICK new : new = Append(es, e)
  OBVIOUS
<1>2. /\ DOMAIN new = DOMAIN es \cup {Len(es) + 1} /\ new[Len(es) + 1] = e
      /\ \A j \in DOMAIN es : new[j] = es[j]
  BY <1>1, AppendedEvent
<1>3. PICK p : p = Len(es) + 1
  OBVIOUS
<1>4. p \in DOMAIN new /\ new[p].kind = "terminal"
  BY <1>2, <1>3
<1>5. \A j \in DOMAIN new : new[j].kind = "terminal" => j = p
  BY <1>2, <1>3 DEF Unended
<1>6. e.status = "completed" => OneReading(new, p)
  BY <1>1, <1>3, OutputReads
<1>7. Ended(new, e.status)
  BY <1>4, <1>5, <1>6 DEF Ended
<1>8. QED
  BY <1>1, <1>7

\* What an end marker leaves.
LEMMA MarkerIsObserved ==
    ASSUME NEW es \in Seq(Events), NEW e \in Events, NEW s, Observed(es, s), e.kind = "sentinel"
    PROVE  Observed(Append(es, e), s)
<1>1. PICK new : new = Append(es, e)
  OBVIOUS
<1>2. /\ DOMAIN new = DOMAIN es \cup {Len(es) + 1} /\ new[Len(es) + 1] = e
      /\ \A j \in DOMAIN es : new[j] = es[j]
  BY <1>1, AppendedEvent
<1>3. ASSUME ~s.invalid, s.terminal = Null PROVE Unended(new) /\ ItemsRead(new, s.items)
  <2>1. Unended(es) /\ ItemsRead(es, s.items)
    BY <1>3 DEF Observed
  <2>2. QED
    BY <1>1, <2>1, UnendedStep, QuietEvent
<1>4. ASSUME ~s.invalid, s.terminal # Null PROVE Ended(new, s.terminal)
  <2>1. PICK p \in DOMAIN es :
            /\ es[p].kind = "terminal" /\ \A j \in DOMAIN es : es[j].kind = "terminal" => j = p
            /\ s.terminal = "completed" => OneReading(es, p)
    BY <1>4 DEF Observed, Ended
  <2>2. p \in DOMAIN new /\ new[p].kind = "terminal" /\ \A j \in DOMAIN new : new[j].kind = "terminal" => j = p
    BY <1>2, <2>1
  <2>3. s.terminal = "completed" => OneReading(new, p)
    BY <1>1, <2>1, MarkerKeepsReading
  <2>4. QED
    BY <2>2, <2>3 DEF Ended
<1>5. Observed(new, s)
  BY <1>3, <1>4 DEF Observed
<1>6. QED
  BY <1>1, <1>5

\* What an event that is taken leaves.
LEMMA EventIsRead ==
    ASSUME NEW es \in Seq(Events), NEW e \in Events, NEW s, IsResponse(s), ~s.invalid, s.terminal = Null,
           Unended(es), ItemsRead(es, s.items), TakesEvent(s, e)
    PROVE  IsResponse(ReadEvent(s, e)) /\ Observed(Append(es, e), ReadEvent(s, e))
<1>1. PICK after : after = ReadEvent(s, e)
  OBVIOUS
<1>2. PICK new : new = Append(es, e)
  OBVIOUS
<1>3. e.kind \in {"created", "item", "part", "text", "terminal"}
  BY DEF TakesEvent
<1>4. CASE e.kind = "created"
  <2>1. after = [s EXCEPT !.created = TRUE]
    BY <1>1, <1>4 DEF ReadEvent
  <2>2. after = [created |-> TRUE, items |-> s.items, terminal |-> s.terminal, numbered |-> s.numbered,
                 lastSequence |-> s.lastSequence, invalid |-> s.invalid]
    BY <2>1 DEF IsResponse
  <2>3. IsResponse(after) /\ after.terminal = Null /\ after.items = s.items
    BY <2>2 DEF IsResponse
  <2>4. Unended(new) /\ ItemsRead(new, s.items)
    BY <1>2, <1>4, UnendedStep, QuietEvent
  <2>5. Observed(new, after)
    BY <2>3, <2>4 DEF Observed
  <2>6. QED
    BY <1>1, <1>2, <2>3, <2>5
<1>5. CASE e.kind = "item"
  <2>1. after = ItemEvent(s, e) /\ TakesItem(s, e)
    BY <1>1, <1>5 DEF ReadEvent, TakesEvent
  <2>2. IsResponse(after) /\ after.terminal = Null
    BY <2>1, WithItem DEF ItemEvent
  <2>3. ItemsRead(new, after.items)
    BY <1>2, <1>5, <2>1, ItemEventIsRead
  <2>4. Unended(new)
    BY <1>2, <1>5, UnendedStep
  <2>5. Observed(new, after)
    BY <2>2, <2>3, <2>4 DEF Observed
  <2>6. QED
    BY <1>1, <1>2, <2>2, <2>5
<1>6. CASE e.kind \in {"part", "text"}
  <2>1. after = OutputEvent(s, e) /\ TakesOutput(s, e)
    BY <1>1, <1>6 DEF ReadEvent, TakesEvent
  <2>2. IsResponse(after) /\ after.terminal = Null
    BY <2>1, WithItem DEF OutputEvent
  <2>3. ItemsRead(new, after.items)
    BY <1>2, <1>6, <2>1, OutputEventIsRead
  <2>4. Unended(new)
    BY <1>2, <1>6, UnendedStep
  <2>5. Observed(new, after)
    BY <2>2, <2>3, <2>4 DEF Observed
  <2>6. QED
    BY <1>1, <1>2, <2>2, <2>5
<1>7. CASE e.kind = "terminal"
  <2>1. after = Terminal(s, e) /\ (e.status = "completed" => TakesOutputs(s, e.output))
    BY <1>1, <1>7 DEF ReadEvent, TakesEvent
  <2>2. e.status # Null
    BY <1>7, ResponsesAssumption
  <2>3. \E items : after = [created |-> s.created, items |-> items, terminal |-> e.status, numbered |-> s.numbered,
                            lastSequence |-> s.lastSequence, invalid |-> s.invalid]
    <3>1. CASE e.status # "completed"
      <4>1. after = [s EXCEPT !.terminal = e.status]
        BY <2>1, <3>1 DEF Terminal
      <4>2. after = [created |-> s.created, items |-> s.items, terminal |-> e.status, numbered |-> s.numbered,
                     lastSequence |-> s.lastSequence, invalid |-> s.invalid]
        BY <4>1 DEF IsResponse
      <4>3. QED
        BY <4>2
    <3>2. CASE e.status = "completed"
      <4>1. \E items : after = [s EXCEPT !.terminal = "completed", !.items = items]
        BY <2>1, <3>2 DEF Terminal
      <4>2. PICK items : after = [s EXCEPT !.terminal = "completed", !.items = items]
        BY <4>1
      <4>3. after = [created |-> s.created, items |-> items, terminal |-> e.status, numbered |-> s.numbered,
                     lastSequence |-> s.lastSequence, invalid |-> s.invalid]
        BY <3>2, <4>2 DEF IsResponse
      <4>4. QED
        BY <4>3
    <3>3. QED
      BY <3>1, <3>2
  <2>4. IsResponse(after) /\ after.terminal = e.status
    BY <2>3 DEF IsResponse
  <2>5. Ended(new, e.status)
    BY <1>2, <1>7, <2>1, EndedStep
  <2>6. Observed(new, after)
    BY <2>2, <2>4, <2>5 DEF Observed
  <2>7. QED
    BY <1>1, <1>2, <2>4, <2>6
<1>8. QED
  BY <1>3, <1>4, <1>5, <1>6, <1>7

\* What an event is taken for depends on no number.
LEMMA TakesAlike ==
    ASSUME NEW s, NEW t, NEW e, t.items = s.items, t.created = s.created, TakesEvent(s, e)
    PROVE  TakesEvent(t, e)
<1>1. TakesItem(s, e) => TakesItem(t, e)
  BY DEF TakesItem
<1>2. TakesOutput(s, e) => TakesOutput(t, e)
  BY DEF TakesOutput
<1>3. ASSUME NEW output, TakesOutputs(s, output) PROVE TakesOutputs(t, output)
  <2>1. ASSUME NEW i \in DOMAIN output PROVE TakesFinal(t, output[i], i)
    <3>1. TakesFinal(s, output[i], i)
      BY <1>3 DEF TakesOutputs
    <3>2. QED
      BY <3>1 DEF TakesFinal
  <2>2. QED
    BY <1>3, <2>1 DEF TakesOutputs
<1>4. QED
  BY <1>1, <1>2, <1>3 DEF TakesEvent

\* Whatever event the observer is shown.
LEMMA ObserveStep ==
    ASSUME NEW es \in Seq(Events), NEW e \in Events, NEW s, NEW n, IsResponse(s), Observed(es, s), ~s.invalid
    PROVE  IsResponse(Observe(s, e, n)) /\ Observed(Append(es, e), Observe(s, e, n))
<1>1. CASE e.kind = "sentinel"
  <2>1. Observe(s, e, n) = s
    BY <1>1 DEF Observe
  <2>2. QED
    BY <1>1, <2>1, MarkerIsObserved
<1>2. CASE e.kind # "sentinel"
  <2>1. PICK after : after = Observe(s, e, n)
    OBVIOUS
  <2>2. after = ValidateEvent(s, e, n)
    BY <1>2, <2>1 DEF Observe
  <2>3. CASE s.invalid \/ s.terminal # Null \/ ~InSequence(s, n) \/ ~TakesEvent(s, e)
    <3>1. after = [s EXCEPT !.invalid = TRUE]
      BY <2>2, <2>3 DEF ValidateEvent, Refuse
    <3>2. after = [created |-> s.created, items |-> s.items, terminal |-> s.terminal, numbered |-> s.numbered,
                   lastSequence |-> s.lastSequence, invalid |-> TRUE]
      BY <3>1 DEF IsResponse
    <3>3. IsResponse(after) /\ after.invalid
      BY <3>2 DEF IsResponse
    <3>4. Observed(Append(es, e), after)
      BY <3>3 DEF Observed
    <3>5. QED
      BY <2>1, <3>3, <3>4
  <2>4. CASE ~(s.invalid \/ s.terminal # Null \/ ~InSequence(s, n) \/ ~TakesEvent(s, e))
    <3>1. PICK x : x = (n # Null)
      OBVIOUS
    <3>2. PICK y : y = IF n = Null THEN s.lastSequence ELSE n
      OBVIOUS
    <3>3. PICK t : t = [s EXCEPT !.numbered = x, !.lastSequence = y]
      OBVIOUS
    <3>4. [s EXCEPT !.numbered = n # Null, !.lastSequence = IF n = Null THEN @ ELSE n] = t
      BY <3>1, <3>2, <3>3
    <3>5. after = ReadEvent(t, e)
      BY <2>2, <2>4, <3>4 DEF ValidateEvent
    <3>6. t = [created |-> s.created, items |-> s.items, terminal |-> s.terminal, numbered |-> x,
               lastSequence |-> y, invalid |-> s.invalid]
      BY <3>3 DEF IsResponse
    <3>7. /\ IsResponse(t) /\ t.items = s.items /\ t.created = s.created /\ t.terminal = Null /\ ~t.invalid
      BY <2>4, <3>6 DEF IsResponse
    <3>8. TakesEvent(t, e)
      BY <2>4, <3>7, TakesAlike
    <3>9. Unended(es) /\ ItemsRead(es, t.items)
      BY <2>4, <3>7 DEF Observed
    <3>10. IsResponse(after) /\ Observed(Append(es, e), after)
      BY <3>5, <3>7, <3>8, <3>9, EventIsRead
    <3>11. QED
      BY <2>1, <3>10
  <2>5. QED
    BY <2>3, <2>4
<1>3. QED
  BY <1>1, <1>2

\* A response starts with nothing told.
LEMMA ResponsesStart == ResponsesInit => ResponsesInv
<1> SUFFICES ASSUME ResponsesInit PROVE ResponsesInv
  OBVIOUS
<1>1. events = <<>> /\ events \in Seq(Events)
  BY DEF ResponsesInit
<1>2. IsResponse(response) /\ response.items = <<>> /\ response.terminal = Null
  BY DEF ResponsesInit, IsResponse
<1>3. DOMAIN events = {} /\ DOMAIN response.items = {}
  BY <1>1, <1>2
<1>4. ASSUME NEW id PROVE Untold(events, id)
  BY <1>1, <1>3, NothingStreamed DEF Untold, Silent
<1>5. ItemsRead(events, response.items)
  BY <1>3, <1>4 DEF ItemsRead
<1>6. Unended(events)
  BY <1>3 DEF Unended
<1>7. QED
  BY <1>1, <1>2, <1>5, <1>6 DEF ResponsesInv, Observed

\* And every step keeps to what was told.
LEMMA ResponsesStep == ResponsesInv /\ [ResponsesNext]_responsesVars => ResponsesInv'
<1> SUFFICES ASSUME ResponsesInv, [ResponsesNext]_responsesVars PROVE ResponsesInv'
  OBVIOUS
<1>1. ASSUME NEW e \in Events, NEW n, EventArrives(e, n) PROVE ResponsesInv'
  <2>1. events' = Append(events, e) /\ response' = Observe(response, e, n) /\ ~response.invalid
    BY <1>1 DEF EventArrives
  <2>2. events \in Seq(Events) /\ IsResponse(response) /\ Observed(events, response)
    BY DEF ResponsesInv
  <2>3. Append(events, e) \in Seq(Events)
    BY <2>2, AppendedEvent
  <2>4. IsResponse(Observe(response, e, n)) /\ Observed(Append(events, e), Observe(response, e, n))
    BY <2>1, <2>2, ObserveStep
  <2>5. events' \in Seq(Events) /\ IsResponse(response') /\ Observed(events', response')
    BY <2>1, <2>3, <2>4
  <2>6. QED
    BY <2>5 DEF ResponsesInv, IsResponse, Observed
<1>2. ASSUME UNCHANGED <<events, response>> PROVE ResponsesInv'
  <2>1. events' \in Seq(Events) /\ IsResponse(response') /\ Observed(events', response')
    BY <1>2 DEF ResponsesInv
  <2>2. QED
    BY <2>1 DEF ResponsesInv, IsResponse, Observed
<1>3. ASSUME NEW how, ResponseEnds(how) PROVE ResponsesInv'
  BY <1>2, <1>3 DEF ResponseEnds
<1>4. CASE UNCHANGED responsesVars
  BY <1>2, <1>4 DEF responsesVars
<1>5. QED
  BY <1>1, <1>3, <1>4 DEF ResponsesNext

\* The reading of a completed response is one.
LEMMA ReadOnce == ResponsesInv => CompletedHasOneReading
<1> SUFFICES ASSUME ResponsesInv, Verdict = "completed" PROVE OneReading(events, Completion)
  BY DEF CompletedHasOneReading
<1>1. ~response.invalid /\ response.terminal # Null /\ response.terminal = "completed"
  BY DEF Verdict
<1>2. PICK p \in DOMAIN events :
          /\ events[p].kind = "terminal" /\ \A j \in DOMAIN events : events[j].kind = "terminal" => j = p
          /\ OneReading(events, p)
  BY <1>1 DEF ResponsesInv, Observed, Ended
<1>3. Completion = p
  BY <1>2 DEF Completion
<1>4. QED
  BY <1>2, <1>3

\* A response that counts as completed has one reading, whatever a provider announces, streams
\* and repeats, in whatever order: each text of its output is what was announced and streamed
\* for it and what every repetition of it said, every announced item is in its place, and
\* nothing followed.
THEOREM CompletionsAreReadOnce == ResponsesInit /\ [][ResponsesNext]_responsesVars => []CompletedHasOneReading
<1>1. QED
  BY ResponsesStart, ResponsesStep, ReadOnce, PTL
=============================================================================
