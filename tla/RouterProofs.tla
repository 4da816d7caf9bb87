----------------------------- MODULE RouterProofs -----------------------------
(***************************************************************************)
(* What TLAPS proves of the authority inside the router, for every value   *)
(* of the constants: what it answers of its operations is what they did,   *)
(* and an operation runs from its admission to its end under one policy.   *)
(***************************************************************************)
EXTENDS RouterAuthority, FiniteSetTheorems, TLAPS

Writer == [generation : 1 .. MaxGeneration, expected : Policies]
Scope == [state : {"unused", "active", "closed"}, spent : Nat]

RouterTypeOK ==
    /\ phase \in {"closed", "active", "draining", "mutating"}
    /\ generation \in 1 .. MaxGeneration
    /\ actual \in Policies
    /\ receipts \in [Requests -> Receipt \cup {None}]
    /\ operations \in [Requests -> Seq(Operation)]
    /\ missing \in SUBSET Requests
    /\ scopes \in [Scopes -> Scope]
    /\ prepared \in [Requests -> Scopes \cup {None}]
    /\ profile \in Scopes \cup {None}
    /\ clocks \in SUBSET Requests /\ cancelled \in SUBSET Requests
    /\ transports \in SUBSET Requests
    /\ handlers \in [Requests -> Handler \cup {None}]
    /\ writers \in SUBSET Writer
    /\ sent \in [Requests -> Seq({"live", "never", "success", "failure"})]

\* What the operations of a request tell of what was sent, known and open telling whether
\* there is a receipt and a transport: no end is invented, and only the last may lack one.
Tells(known, ops, out, open) ==
    /\ Len(out) = Len(ops)
    /\ ~known => ops = <<>>
    /\ \A i \in DOMAIN ops :
          /\ ops[i].terminal = "completed" => out[i] = "success"
          /\ ops[i].terminal = "failed" => out[i] = "failure"
          /\ i < Len(ops) => ops[i].terminal # "unknown"
    /\ open => ops # <<>> /\ ops[Len(ops)].terminal = "unknown"
OperationsTell ==
    \A r \in Requests : Tells(Known(r), operations[r], sent[r], r \in transports)

\* A handler runs on a receipt that is not done.
HandlersKnown == \A r \in Requests : handlers[r] # None => Known(r) /\ ~receipts[r].done

\* With a native profile all requests but one are quiet.
OthersQuiet ==
    Native => \A r, s \in Requests :
        Known(r) /\ ~Quiescent(r) /\ Known(s) /\ ~Quiescent(s) => r = s

\* A mutation runs alone, whatever ids are asked for meanwhile.
MutatesAlone == phase = "mutating" => \A r \in Requests : Known(r) => Quiescent(r)

\* A handler of this generation works by the policy and the profile on record.
HandlersCurrent ==
    \A r \in Requests : handlers[r] # None =>
        /\ handlers[r].generation <= generation
        /\ handlers[r].generation = generation =>
              /\ phase \in {"active", "draining"}
              /\ handlers[r].policy = actual /\ recorded = Snapshot

\* A writer of this generation is the one whose mutation runs.
WritersInOrder ==
    /\ \A w \in writers : /\ w.generation <= generation
                          /\ w.generation = generation => phase = "mutating"
    /\ \A v, w \in writers : v.generation = w.generation => v = w

\* A native request is admitted under the scope it was prepared for.
PreparedFirst ==
    /\ \A r \in clocks : prepared[r] # None
    /\ Native => \A r \in Requests : Known(r) => prepared[r] # None
    /\ ~Native => \A r \in Requests : prepared[r] = None

\* What was sent under a scope, as pairs of a request and an ordinal.
Goes(out) == {i \in DOMAIN out : out[i] # "never"}
SentUnder(s) == UNION {{r} \X Goes(sent[r]) : r \in {q \in Requests : prepared[q] = s}}
ScopesSpend ==
    \A s \in Scopes : IsFiniteSet(SentUnder(s)) /\ Cardinality(SentUnder(s)) <= scopes[s].spent

RouterInv ==
    /\ RouterTypeOK /\ OperationsTell /\ HandlersKnown /\ OthersQuiet /\ MutatesAlone
    /\ HandlersCurrent /\ WritersInOrder /\ PreparedFirst /\ ScopesSpend

-----------------------------------------------------------------------------
(* Sequences of operations and of what was sent. *)

\* The last of a sequence replaced.
LEMMA LastReplaced ==
    ASSUME NEW S, NEW q \in Seq(S), q # <<>>, NEW e \in S
    PROVE  /\ [q EXCEPT ![Len(q)] = e] \in Seq(S)
           /\ Len([q EXCEPT ![Len(q)] = e]) = Len(q)
           /\ DOMAIN [q EXCEPT ![Len(q)] = e] = DOMAIN q
           /\ Len(q) \in DOMAIN q /\ DOMAIN q = 1 .. Len(q)
           /\ [q EXCEPT ![Len(q)] = e][Len(q)] = e
           /\ \A i \in DOMAIN q : i # Len(q) => [q EXCEPT ![Len(q)] = e][i] = q[i]
  OBVIOUS

\* A sequence with one more element.
LEMMA Appended ==
    ASSUME NEW S, NEW q \in Seq(S), NEW e \in S
    PROVE  /\ Append(q, e) \in Seq(S) /\ Append(q, e) # <<>> /\ Len(q) \in Nat
           /\ Len(Append(q, e)) = Len(q) + 1
           /\ DOMAIN q = 1 .. Len(q) /\ DOMAIN Append(q, e) = 1 .. Len(q) + 1
           /\ \A i \in DOMAIN q : Append(q, e)[i] = q[i]
           /\ Append(q, e)[Len(q) + 1] = e
  OBVIOUS

\* A new operation may follow once no earlier one is unknown.
LEMMA TellsAppend ==
    ASSUME NEW ops \in Seq(Operation), NEW out \in Seq({"live", "never", "success", "failure"}),
           NEW open, Tells(TRUE, ops, out, open),
           \A i \in DOMAIN ops : ops[i].terminal # "unknown",
           NEW o \in Operation, o.terminal = "unknown",
           NEW x \in {"live", "never", "success", "failure"}, NEW still
    PROVE  Tells(TRUE, Append(ops, o), Append(out, x), still)
<1>1. /\ Len(Append(ops, o)) = Len(ops) + 1 /\ DOMAIN ops = 1 .. Len(ops) /\ Len(ops) \in Nat
      /\ DOMAIN Append(ops, o) = 1 .. Len(ops) + 1 /\ Append(ops, o) # <<>>
      /\ \A i \in DOMAIN ops : Append(ops, o)[i] = ops[i]
      /\ Append(ops, o)[Len(ops) + 1] = o
  BY Appended
<1>2. /\ Len(Append(out, x)) = Len(out) + 1 /\ DOMAIN out = 1 .. Len(out)
      /\ \A i \in DOMAIN out : Append(out, x)[i] = out[i]
      /\ Append(out, x)[Len(out) + 1] = x
  BY Appended
<1>3. /\ Len(out) = Len(ops)
      /\ \A i \in DOMAIN ops : /\ ops[i].terminal = "completed" => out[i] = "success"
                               /\ ops[i].terminal = "failed" => out[i] = "failure"
  BY DEF Tells
<1>4. PICK p : p = Append(ops, o)
  OBVIOUS
<1>5. PICK q : q = Append(out, x)
  OBVIOUS
<1>6. Tells(TRUE, p, q, still)
  BY <1>1, <1>2, <1>3, <1>4, <1>5 DEF Tells
<1>7. QED
  BY <1>4, <1>5, <1>6

\* An open operation may be stopped with what it was seen to do.
LEMMA TellsStop ==
    ASSUME NEW ops \in Seq(Operation), NEW out \in Seq({"live", "never", "success", "failure"}),
           NEW known, Tells(known, ops, out, TRUE),
           NEW o \in Operation,
           o.terminal = "completed" => out[Len(out)] = "success",
           o.terminal = "failed" => out[Len(out)] = "failure"
    PROVE  Tells(known, [ops EXCEPT ![Len(ops)] = o], out, FALSE)
<1>1. ops # <<>> /\ Len(out) = Len(ops)
  BY DEF Tells
<1>2. PICK p : p = [ops EXCEPT ![Len(ops)] = o]
  OBVIOUS
<1>3. /\ Len(p) = Len(ops) /\ DOMAIN p = DOMAIN ops /\ DOMAIN ops = 1 .. Len(ops) /\ p[Len(ops)] = o
      /\ \A i \in DOMAIN ops : i # Len(ops) => p[i] = ops[i]
  BY <1>1, <1>2, LastReplaced
<1>4. ~known => ops = <<>>
  BY DEF Tells
<1>5. Tells(known, p, out, FALSE)
  BY <1>1, <1>3, <1>4 DEF Tells
<1>6. QED
  BY <1>2, <1>5

\* The provider may end what is live: no operation told its end before.
LEMMA TellsEnd ==
    ASSUME NEW ops \in Seq(Operation), NEW out \in Seq({"live", "never", "success", "failure"}),
           NEW known, NEW open, Tells(known, ops, out, open), out # <<>>, out[Len(out)] = "live",
           NEW e \in {"success", "failure"}
    PROVE  Tells(known, ops, [out EXCEPT ![Len(out)] = e], open)
<1>1. PICK q : q = [out EXCEPT ![Len(out)] = e]
  OBVIOUS
<1>2. /\ Len(q) = Len(out) /\ DOMAIN q = DOMAIN out /\ DOMAIN out = 1 .. Len(out)
      /\ \A i \in DOMAIN out : i # Len(out) => q[i] = out[i]
  BY <1>1, LastReplaced
<1>3. Len(out) = Len(ops) /\ DOMAIN ops = 1 .. Len(ops)
  BY DEF Tells
<1>4. \A i \in DOMAIN ops : ops[i].terminal \in {"completed", "failed"} => q[i] = out[i]
  BY <1>2, <1>3 DEF Tells
<1>5. Tells(known, ops, q, open)
  BY <1>2, <1>3, <1>4 DEF Tells
<1>6. QED
  BY <1>1, <1>5

\* A boot stops what is unknown and tells no end of it.
LEMMA TellsCrash ==
    ASSUME NEW ops \in Seq(Operation), NEW out \in Seq({"live", "never", "success", "failure"}),
           NEW known, NEW open, Tells(known, ops, out, open)
    PROVE  /\ [i \in DOMAIN ops |-> CrashedOperation(ops[i])] \in Seq(Operation)
           /\ Tells(known, [i \in DOMAIN ops |-> CrashedOperation(ops[i])], out, FALSE)
           /\ \A i \in DOMAIN ops :
                 [k \in DOMAIN ops |-> CrashedOperation(ops[k])][i].terminal = ops[i].terminal
           /\ DOMAIN [i \in DOMAIN ops |-> CrashedOperation(ops[i])] = DOMAIN ops
<1>1. PICK p : p = [i \in DOMAIN ops |-> CrashedOperation(ops[i])]
  OBVIOUS
<1>2. DOMAIN ops = 1 .. Len(ops) /\ Len(ops) \in Nat /\ \A i \in DOMAIN ops : ops[i] \in Operation
  OBVIOUS
<1>3. \A o \in Operation : CrashedOperation(o) \in Operation /\ CrashedOperation(o).terminal = o.terminal
  BY DEF Operation, CrashedOperation
<1>4. /\ DOMAIN p = DOMAIN ops
      /\ \A i \in DOMAIN ops : p[i] \in Operation /\ p[i].terminal = ops[i].terminal
  BY <1>1, <1>2, <1>3
<1>5. p \in Seq(Operation) /\ Len(p) = Len(ops)
  <2>1. p \in [1 .. Len(ops) -> Operation]
    BY <1>1, <1>2, <1>3
  <2>2. QED
    BY <1>2, <2>1
<1>6. ops = <<>> => p = <<>>
  BY <1>5
<1>7. Tells(known, p, out, FALSE)
  BY <1>2, <1>4, <1>5, <1>6 DEF Tells
<1>8. QED
  BY <1>1, <1>4, <1>5, <1>7

-----------------------------------------------------------------------------
(* One conjunct of the invariant at a time. *)

\* The steps that leave the requests alone.
Aside ==
    \/ Fence \/ StartEvaluation
    \/ \E s \in Scopes : ConfigureNative(s) \/ SelectNativeProfile(s) \/ CloseScope(s)
    \/ \E p \in Policies : Replace(p)
    \/ \E w \in writers : WriterWrites(w) \/ WriterEnds(w)
    \/ \E r \in Requests : AskQuiescent(r) \/ PrepareNative(r) \/ FetchAgain(r)
    \/ UNCHANGED vars

\* They do: receipts, operations, handlers and transports stay as they are.
LEMMA AsideLeaves ==
    ASSUME Aside
    PROVE  UNCHANGED <<receipts, operations, handlers, transports, sent>>
  BY DEF Aside, Fence, StartEvaluation, ConfigureNative, SelectNativeProfile, CloseScope, Replace,
         WriterWrites, WriterEnds, AskQuiescent, PrepareNative, FetchAgain, tables, volatile, vars

\* Every other step is of the process or of one request.
LEMMA StepsAre ==
    ASSUME [Next]_vars
    PROVE  \/ Aside \/ Boot
           \/ \E r \in Requests : \/ Admission(r) \/ Fetch(r) \/ OriginalEof(r) \/ TransportEnds(r)
                                  \/ HandlerEnds(r) \/ Cancel(r) \/ ProviderEnds(r)
  BY DEF Next, Aside

\* The types are kept by what leaves the requests alone.
LEMMA AsideTypes == RouterTypeOK /\ Aside => RouterTypeOK'
<1> SUFFICES ASSUME RouterTypeOK, Aside PROVE RouterTypeOK'
  OBVIOUS
<1>0. generation < MaxGeneration => generation + 1 \in 1 .. MaxGeneration
  BY RouterAssumption DEF RouterTypeOK
<1>1. CASE Fence
  BY <1>0, <1>1 DEF Fence, RouterTypeOK, Active
<1>2. CASE StartEvaluation
  BY <1>2 DEF StartEvaluation, RouterTypeOK, Scope, volatile
<1>3. ASSUME NEW s \in Scopes, ConfigureNative(s) \/ SelectNativeProfile(s) PROVE RouterTypeOK'
  BY <1>0, <1>3 DEF ConfigureNative, SelectNativeProfile, RouterTypeOK, tables
<1>4. ASSUME NEW s \in Scopes, CloseScope(s) PROVE RouterTypeOK'
  BY <1>4 DEF CloseScope, RouterTypeOK, Scope, volatile
<1>5. ASSUME NEW p \in Policies, Replace(p) PROVE RouterTypeOK'
  <2>1. CASE UNCHANGED <<generation, writers>> /\ phase' = "draining"
    BY <1>5, <2>1 DEF Replace, RouterTypeOK
  <2>2. CASE generation < MaxGeneration /\ generation' = generation + 1 /\ phase' = "mutating"
             /\ writers' = writers \cup {[generation |-> generation + 1, expected |-> p]}
    <3>1. writers' \in SUBSET Writer
      BY <1>0, <2>2 DEF Writer, RouterTypeOK
    <3>2. QED
      BY <1>0, <1>5, <2>2, <3>1 DEF Replace, RouterTypeOK
  <2>3. QED
    BY <1>5, <2>1, <2>2 DEF Replace
<1>6. ASSUME NEW w \in writers, WriterWrites(w) \/ WriterEnds(w) PROVE RouterTypeOK'
  BY <1>6 DEF WriterWrites, WriterEnds, RouterTypeOK, volatile
<1>7. ASSUME NEW r \in Requests, AskQuiescent(r) \/ PrepareNative(r) \/ FetchAgain(r)
      PROVE  RouterTypeOK'
  BY <1>7 DEF AskQuiescent, PrepareNative, FetchAgain, RouterTypeOK, tables, volatile
<1>8. CASE UNCHANGED vars
  BY <1>8 DEF vars, tables, volatile, RouterTypeOK
<1>9. QED
  BY <1>1, <1>2, <1>3, <1>4, <1>5, <1>6, <1>7, <1>8 DEF Aside

\* What a boot makes of what it finds.
LEMMA BootParts ==
    ASSUME RouterTypeOK, Boot
    PROVE  /\ receipts' \in [Requests -> Receipt \cup {None}]
           /\ scopes' \in [Scopes -> Scope]
           /\ generation' = generation + 1 /\ generation' \in 1 .. MaxGeneration /\ phase' = "closed"
           /\ \A r \in Requests : /\ receipts'[r] # None <=> receipts[r] # None
                                  /\ receipts[r] # None => receipts'[r].done = receipts[r].done
                                  /\ handlers'[r] = None
           /\ \A s \in Scopes : scopes'[s].spent = scopes[s].spent
           /\ operations' = [r \in Requests |->
                  [i \in DOMAIN operations[r] |-> CrashedOperation(operations[r][i])]]
           /\ clocks' = {} /\ cancelled' = {} /\ transports' = {} /\ writers' = {} /\ profile' = None
           /\ UNCHANGED <<recorded, actual, missing, prepared, sent>>
<1>1. /\ receipts' = [r \in Requests |-> Crashed(r)] /\ scopes' = [s \in Scopes |-> CrashedScope(s)]
      /\ generation < MaxGeneration
  BY DEF Boot
<1>2. ASSUME NEW r \in Requests
      PROVE  /\ Crashed(r) \in Receipt \cup {None} /\ (Crashed(r) # None <=> receipts[r] # None)
             /\ receipts[r] # None => Crashed(r).done = receipts[r].done
  <2>1. receipts[r] \in Receipt \cup {None}
    BY DEF RouterTypeOK
  <2>2. receipts[r] \in Receipt => [receipts[r] EXCEPT !.stop = "stopped"] \in Receipt
        /\ [receipts[r] EXCEPT !.stop = "stopped"].done = receipts[r].done
    BY DEF Receipt
  <2>3. CASE Known(r) /\ ~receipts[r].done
    BY <2>1, <2>2, <2>3, NoneAssumption DEF Crashed, Known
  <2>4. CASE ~(Known(r) /\ ~receipts[r].done)
    BY <2>1, <2>4, NoneAssumption DEF Crashed, Known
  <2>5. QED
    BY <2>3, <2>4
<1>3. ASSUME NEW s \in Scopes PROVE CrashedScope(s) \in Scope /\ CrashedScope(s).spent = scopes[s].spent
  BY DEF CrashedScope, RouterTypeOK, Scope
<1>4. receipts' \in [Requests -> Receipt \cup {None}]
  BY <1>1, <1>2
<1>5. scopes' \in [Scopes -> Scope]
  BY <1>1, <1>3
<1>6. generation' = generation + 1 /\ generation' \in 1 .. MaxGeneration /\ phase' = "closed"
  BY <1>1, RouterAssumption DEF Boot, RouterTypeOK
<1>7. \A r \in Requests : /\ receipts'[r] # None <=> receipts[r] # None
                          /\ receipts[r] # None => receipts'[r].done = receipts[r].done
  BY <1>1, <1>2
<1>8. \A s \in Scopes : scopes'[s].spent = scopes[s].spent
  BY <1>1, <1>3
<1>9. QED
  BY <1>4, <1>5, <1>6, <1>7, <1>8 DEF Boot

\* An operation as it is stored.
LEMMA Stops ==
    ASSUME RouterTypeOK, NEW r \in Requests, operations[r] # <<>>,
           NEW terminal \in {"unknown", "completed", "failed"},
           NEW stop \in {"running", "original_eof", "stopped"}, Stop(r, terminal, stop)
    PROVE  /\ [terminal |-> terminal, stop |-> stop] \in Operation
           /\ operations' \in [Requests -> Seq(Operation)]
           /\ operations'[r] = [operations[r] EXCEPT ![Len(operations[r])] =
                                   [terminal |-> terminal, stop |-> stop]]
           /\ \A q \in Requests \ {r} : operations'[q] = operations[q]
<1>1. operations \in [Requests -> Seq(Operation)] /\ operations[r] \in Seq(Operation)
  BY DEF RouterTypeOK
<1>2. [terminal |-> terminal, stop |-> stop] \in Operation
  BY DEF Operation
<1>3. PICK e : e = [terminal |-> terminal, stop |-> stop]
  OBVIOUS
<1>4. operations' = [operations EXCEPT ![r] = [operations[r] EXCEPT ![Len(operations[r])] = e]]
  BY <1>1, <1>3 DEF Stop
<1>5. [operations[r] EXCEPT ![Len(operations[r])] = e] \in Seq(Operation)
  BY <1>1, <1>2, <1>3, LastReplaced
<1>6. QED
  BY <1>1, <1>2, <1>3, <1>4, <1>5

\* What admission changes.
LEMMA AdmissionParts ==
    ASSUME RouterInv, NEW r \in Requests, Admission(r)
    PROVE  /\ RouterTypeOK'
           /\ phase = "active" /\ receipts[r] = None /\ recorded = Snapshot
           /\ receipts'[r] # None /\ ~receipts'[r].done
           /\ handlers'[r] # None /\ handlers'[r].generation = generation /\ handlers'[r].policy = actual
           /\ \A q \in Requests \ {r} : receipts'[q] = receipts[q] /\ handlers'[q] = handlers[q]
           /\ Native => AllQuiet /\ prepared[r] # None
           /\ UNCHANGED <<phase, generation, recorded, actual, operations, missing, scopes, prepared,
                          profile, clocks, cancelled, transports, writers, sent>>
<1>1. RouterTypeOK /\ PreparedFirst
  BY DEF RouterInv
<1>2. PICK e : e = [generation |-> generation, stop |-> "running", done |-> FALSE]
  OBVIOUS
<1>3. PICK h : h = [generation |-> generation, policy |-> actual]
  OBVIOUS
<1>4. e \in Receipt /\ h \in Handler /\ e.done = FALSE /\ h.generation = generation /\ h.policy = actual
  BY <1>1, <1>2, <1>3 DEF RouterTypeOK, Receipt, Handler
<1>5. receipts' = [receipts EXCEPT ![r] = e] /\ handlers' = [handlers EXCEPT ![r] = h]
  BY <1>2, <1>3 DEF Admission
<1>6. e # None /\ h # None
  BY <1>4, NoneAssumption
<1>7. UNCHANGED <<phase, generation, recorded, actual, operations, missing, scopes, prepared,
                  profile, clocks, cancelled, transports, writers, sent>>
  BY DEF Admission
<1>8. receipts' \in [Requests -> Receipt \cup {None}] /\ handlers' \in [Requests -> Handler \cup {None}]
  BY <1>1, <1>4, <1>5 DEF RouterTypeOK
<1>9. RouterTypeOK'
  BY <1>1, <1>7, <1>8 DEF RouterTypeOK
<1>10. /\ receipts'[r] = e /\ handlers'[r] = h
       /\ \A q \in Requests \ {r} : receipts'[q] = receipts[q] /\ handlers'[q] = handlers[q]
  BY <1>1, <1>5 DEF RouterTypeOK
<1>11. /\ phase = "active" /\ receipts[r] = None /\ recorded = Snapshot
       /\ Native => AllQuiet /\ prepared[r] # None
  BY <1>1 DEF Admission, Known, PreparedFirst
<1>12. QED
  BY <1>4, <1>6, <1>7, <1>9, <1>10, <1>11

\* What a fetch changes: one more operation, nobody knows what of, and its debit.
LEMMA FetchParts ==
    ASSUME RouterInv, NEW r \in Requests, Fetch(r)
    PROVE  /\ RouterTypeOK'
           /\ handlers[r] # None /\ Known(r) /\ ~receipts[r].done /\ ~Fenced(r) /\ ~Unknown(r)
           /\ \A q \in Requests \ {r} : operations'[q] = operations[q] /\ sent'[q] = sent[q]
           /\ \E o \in Operation : \E x \in {"live", "never"} :
                 /\ o.terminal = "unknown"
                 /\ operations'[r] = Append(operations[r], o) /\ sent'[r] = Append(sent[r], x)
           /\ transports' \subseteq transports \cup {r} /\ transports \subseteq transports'
           /\ Native => /\ prepared[r] \in Scopes
                        /\ scopes'[prepared[r]].spent = scopes[prepared[r]].spent + 1
                        /\ \A s \in Scopes \ {prepared[r]} : scopes'[s] = scopes[s]
           /\ ~Native => scopes' = scopes
           /\ UNCHANGED <<phase, generation, recorded, actual, receipts, missing, prepared, profile,
                          clocks, handlers, writers>>
<1>1. RouterTypeOK /\ PreparedFirst /\ HandlersKnown
  BY DEF RouterInv
<1>2. /\ handlers[r] # None /\ Known(r) /\ ~receipts[r].done /\ ~Fenced(r) /\ ~Unknown(r)
      /\ Spend(r)
  BY <1>1 DEF Fetch, HandlersKnown, Retryable
<1>3. UNCHANGED <<phase, generation, recorded, actual, receipts, missing, prepared, profile,
                  clocks, handlers, writers>>
  BY DEF Fetch
<1>4. PICK goes \in BOOLEAN :
        /\ operations' = [operations EXCEPT ![r] = Append(@, [terminal |-> "unknown",
                             stop |-> IF goes THEN "running" ELSE "stopped"])]
        /\ sent' = [sent EXCEPT ![r] = Append(@, IF goes THEN "live" ELSE "never")]
        /\ transports' = IF goes THEN transports \cup {r} ELSE transports
        /\ cancelled' = IF goes THEN cancelled ELSE cancelled \cup {r}
  BY DEF Fetch
<1>5. PICK o : o = [terminal |-> "unknown", stop |-> IF goes THEN "running" ELSE "stopped"]
  OBVIOUS
<1>6. PICK x : x = IF goes THEN "live" ELSE "never"
  OBVIOUS
<1>7. o \in Operation /\ o.terminal = "unknown" /\ x \in {"live", "never"}
  BY <1>5, <1>6 DEF Operation
<1>8. operations' = [operations EXCEPT ![r] = Append(operations[r], o)]
      /\ sent' = [sent EXCEPT ![r] = Append(sent[r], x)]
  BY <1>4, <1>5, <1>6
<1>9. /\ operations' \in [Requests -> Seq(Operation)]
      /\ sent' \in [Requests -> Seq({"live", "never", "success", "failure"})]
      /\ operations'[r] = Append(operations[r], o) /\ sent'[r] = Append(sent[r], x)
      /\ \A q \in Requests \ {r} : operations'[q] = operations[q] /\ sent'[q] = sent[q]
  <2>1. operations[r] \in Seq(Operation) /\ sent[r] \in Seq({"live", "never", "success", "failure"})
    BY <1>1 DEF RouterTypeOK
  <2>2. Append(operations[r], o) \in Seq(Operation)
        /\ Append(sent[r], x) \in Seq({"live", "never", "success", "failure"})
    BY <1>7, <2>1, Appended
  <2>3. QED
    BY <1>1, <1>8, <2>2 DEF RouterTypeOK
<1>10. transports' \subseteq transports \cup {r} /\ transports \subseteq transports'
       /\ transports' \in SUBSET Requests /\ cancelled' \in SUBSET Requests
  BY <1>1, <1>4 DEF RouterTypeOK
<1>11. Native => prepared[r] \in Scopes
  BY <1>1, <1>2 DEF PreparedFirst, RouterTypeOK
<1>12. /\ scopes' \in [Scopes -> Scope]
       /\ Native => /\ scopes'[prepared[r]].spent = scopes[prepared[r]].spent + 1
                    /\ \A s \in Scopes \ {prepared[r]} : scopes'[s] = scopes[s]
       /\ ~Native => scopes' = scopes
  <2>1. CASE Native
    <3>1. PICK s \in Scopes : s = prepared[r]
      BY <1>11, <2>1
    <3>2. scopes[s] \in Scope /\ scopes' = [scopes EXCEPT ![s] = [scopes[s] EXCEPT !.spent = scopes[s].spent + 1]]
      BY <1>1, <1>2, <2>1, <3>1 DEF Spend, RouterTypeOK
    <3>3. /\ [scopes[s] EXCEPT !.spent = scopes[s].spent + 1] \in Scope
          /\ [scopes[s] EXCEPT !.spent = scopes[s].spent + 1].spent = scopes[s].spent + 1
      BY <3>2 DEF Scope
    <3>4. QED
      BY <1>1, <2>1, <3>1, <3>2, <3>3 DEF RouterTypeOK
  <2>2. CASE ~Native
    BY <1>1, <1>2, <2>2 DEF Spend, RouterTypeOK
  <2>3. QED
    BY <2>1, <2>2
<1>13. RouterTypeOK'
  BY <1>1, <1>3, <1>9, <1>10, <1>12 DEF RouterTypeOK
<1>14. QED
  BY <1>2, <1>3, <1>7, <1>9, <1>10, <1>11, <1>12, <1>13

\* What the end of a transport changes: what was seen of it.
LEMMA TransportParts ==
    ASSUME RouterInv, NEW r \in Requests, OriginalEof(r) \/ TransportEnds(r)
    PROVE  /\ RouterTypeOK' /\ r \in transports /\ transports' = transports \ {r}
           /\ \E o \in Operation :
                 /\ operations'[r] = [operations[r] EXCEPT ![Len(operations[r])] = o]
                 /\ o.terminal = "completed" => sent[r][Len(sent[r])] = "success"
                 /\ o.terminal = "failed" => sent[r][Len(sent[r])] = "failure"
           /\ \A q \in Requests \ {r} : operations'[q] = operations[q]
           /\ UNCHANGED <<phase, generation, recorded, actual, receipts, missing, scopes, prepared,
                          profile, clocks, handlers, writers, sent>>
<1>1. /\ RouterTypeOK /\ OperationsTell
  BY DEF RouterInv
<1>2. /\ r \in transports /\ transports' = transports \ {r}
      /\ UNCHANGED <<phase, generation, recorded, actual, receipts, missing, scopes, prepared,
                     profile, clocks, handlers, writers, sent>>
      /\ cancelled' \in SUBSET Requests
  BY <1>1 DEF OriginalEof, TransportEnds, RouterTypeOK
<1>3. operations[r] # <<>>
  BY <1>1, <1>2 DEF OperationsTell, Tells
<1>4. PICK terminal \in {"unknown", "completed", "failed"}, stop \in {"original_eof", "stopped"} :
         /\ Stop(r, terminal, stop)
         /\ terminal = "completed" => Last(sent[r]) = "success"
         /\ terminal = "failed" => Last(sent[r]) = "failure"
  <2>1. CASE OriginalEof(r)
    <3>1. Last(sent[r]) \in {"success", "failure"}
      BY <2>1 DEF OriginalEof
    <3>2. PICK terminal \in {"unknown", IF Last(sent[r]) = "success" THEN "completed" ELSE "failed"} :
              Stop(r, terminal, "original_eof")
      BY <2>1 DEF OriginalEof
    <3>3. QED
      BY <3>1, <3>2
  <2>2. CASE TransportEnds(r)
    <3>1. PICK terminal \in {"unknown"} \cup Observed(r) : Stop(r, terminal, "stopped")
      BY <2>2 DEF TransportEnds
    <3>2. CASE terminal = "unknown"
      BY <3>1, <3>2
    <3>3. CASE terminal \in Observed(r)
      <4>1. CASE Last(sent[r]) = "failure"
        BY <3>1, <3>3, <4>1 DEF Observed
      <4>2. CASE Last(sent[r]) = "success" /\ ~Native
        BY <3>1, <3>3, <4>2 DEF Observed
      <4>3. CASE ~ (Last(sent[r]) = "failure") /\ ~ (Last(sent[r]) = "success" /\ ~Native)
        BY <3>3, <4>3 DEF Observed
      <4>4. QED
        BY <4>1, <4>2, <4>3
    <3>4. QED
      BY <3>1, <3>2, <3>3
  <2>3. QED
    BY <2>1, <2>2
<1>5. PICK o : o = [terminal |-> terminal, stop |-> stop]
  OBVIOUS
<1>6. /\ o \in Operation /\ operations' \in [Requests -> Seq(Operation)]
      /\ operations'[r] = [operations[r] EXCEPT ![Len(operations[r])] = o]
      /\ \A q \in Requests \ {r} : operations'[q] = operations[q]
  BY <1>1, <1>3, <1>4, <1>5, Stops
<1>7. o.terminal = terminal
  BY <1>5
<1>8. Last(sent[r]) = sent[r][Len(sent[r])]
  BY DEF Last
<1>9. RouterTypeOK'
  BY <1>1, <1>2, <1>6 DEF RouterTypeOK
<1>10. QED
  BY <1>2, <1>4, <1>6, <1>7, <1>8, <1>9

\* What the end of a handler, or a cancellation, changes of a receipt.
LEMMA ReceiptParts ==
    ASSUME RouterInv, NEW r \in Requests, HandlerEnds(r) \/ Cancel(r)
    PROVE  /\ RouterTypeOK'
           /\ receipts[r] # None /\ receipts'[r] # None
           /\ receipts[r].done => receipts'[r].done
           /\ \A q \in Requests \ {r} : receipts'[q] = receipts[q] /\ handlers'[q] = handlers[q]
           /\ \/ handlers'[r] = None /\ receipts'[r].done
              \/ handlers' = handlers /\ receipts'[r].done = receipts[r].done
           /\ UNCHANGED <<phase, generation, recorded, actual, operations, missing, scopes, prepared,
                          profile, clocks, transports, writers, sent>>
<1>1. RouterTypeOK /\ HandlersKnown
  BY DEF RouterInv
<1>2. receipts[r] # None /\ receipts[r] \in Receipt
  BY <1>1 DEF HandlerEnds, Cancel, HandlersKnown, Known, RouterTypeOK
<1>3. UNCHANGED <<phase, generation, recorded, actual, operations, missing, scopes, prepared,
                  profile, clocks, transports, writers, sent>>
  BY DEF HandlerEnds, Cancel
<1>4. cancelled' \in SUBSET Requests
  BY <1>1 DEF HandlerEnds, Cancel, RouterTypeOK, Active
<1>5. CASE HandlerEnds(r)
  <2>1. PICK kind \in {"stopped", "local_eof"} :
            receipts' = [receipts EXCEPT ![r].done = TRUE,
                                         ![r].stop = IF @ = "running" THEN kind ELSE @]
    BY <1>5 DEF HandlerEnds
  <2>2. PICK e : e = [receipts[r] EXCEPT !.done = TRUE,
                                         !.stop = IF @ = "running" THEN kind ELSE @]
    OBVIOUS
  <2>3. e \in Receipt /\ e.done
    BY <1>2, <2>2 DEF Receipt
  <2>4. receipts' = [receipts EXCEPT ![r] = e]
    BY <1>1, <2>1, <2>2 DEF RouterTypeOK
  <2>5. /\ receipts' \in [Requests -> Receipt \cup {None}] /\ receipts'[r] = e
        /\ \A q \in Requests \ {r} : receipts'[q] = receipts[q]
    BY <1>1, <2>3, <2>4 DEF RouterTypeOK
  <2>6. /\ handlers' \in [Requests -> Handler \cup {None}] /\ handlers'[r] = None
        /\ \A q \in Requests \ {r} : handlers'[q] = handlers[q]
    BY <1>1, <1>5 DEF HandlerEnds, RouterTypeOK
  <2>7. RouterTypeOK'
    BY <1>1, <1>3, <1>4, <2>5, <2>6 DEF RouterTypeOK
  <2>8. QED
    BY <1>2, <1>3, <2>3, <2>5, <2>6, <2>7, NoneAssumption
<1>6. CASE Cancel(r)
  <2>1. PICK e : e = [receipts[r] EXCEPT !.stop = "stopped"]
    OBVIOUS
  <2>2. e \in Receipt /\ e.done = receipts[r].done
    BY <1>2, <2>1 DEF Receipt
  <2>3. receipts' = [receipts EXCEPT ![r] = e] /\ handlers' = handlers
    BY <1>1, <1>6, <2>1 DEF Cancel, RouterTypeOK
  <2>4. /\ receipts' \in [Requests -> Receipt \cup {None}] /\ receipts'[r] = e
        /\ \A q \in Requests \ {r} : receipts'[q] = receipts[q]
    BY <1>1, <2>2, <2>3 DEF RouterTypeOK
  <2>5. RouterTypeOK'
    BY <1>1, <1>3, <1>4, <2>3, <2>4 DEF RouterTypeOK
  <2>6. QED
    BY <1>2, <1>3, <2>2, <2>3, <2>4, <2>5, NoneAssumption
<1>7. QED
  BY <1>5, <1>6

\* What the provider changes: the end of what was live.
LEMMA ProviderParts ==
    ASSUME RouterInv, NEW r \in Requests, ProviderEnds(r)
    PROVE  /\ RouterTypeOK' /\ sent[r] # <<>> /\ sent[r][Len(sent[r])] = "live"
           /\ \E e \in {"success", "failure"} : sent'[r] = [sent[r] EXCEPT ![Len(sent[r])] = e]
           /\ \A q \in Requests \ {r} : sent'[q] = sent[q]
           /\ UNCHANGED <<tables, volatile>>
<1>1. RouterTypeOK
  BY DEF RouterInv
<1>2. /\ sent[r] # <<>> /\ sent[r][Len(sent[r])] = "live" /\ UNCHANGED <<tables, volatile>>
      /\ sent[r] \in Seq({"live", "never", "success", "failure"})
  BY <1>1 DEF ProviderEnds, Last, RouterTypeOK
<1>3. PICK e \in {"success", "failure"} : sent' = [sent EXCEPT ![r][Len(sent[r])] = e]
  BY DEF ProviderEnds
<1>4. sent' = [sent EXCEPT ![r] = [sent[r] EXCEPT ![Len(sent[r])] = e]]
  BY <1>1, <1>3 DEF RouterTypeOK
<1>5. [sent[r] EXCEPT ![Len(sent[r])] = e] \in Seq({"live", "never", "success", "failure"})
  BY <1>2, LastReplaced
<1>6. /\ sent' \in [Requests -> Seq({"live", "never", "success", "failure"})]
      /\ sent'[r] = [sent[r] EXCEPT ![Len(sent[r])] = e]
      /\ \A q \in Requests \ {r} : sent'[q] = sent[q]
  BY <1>1, <1>4, <1>5 DEF RouterTypeOK
<1>7. RouterTypeOK'
  BY <1>1, <1>2, <1>6 DEF RouterTypeOK, tables, volatile
<1>8. QED
  BY <1>2, <1>6, <1>7

\* Every step keeps the types.
LEMMA RouterTypes == RouterInv /\ [Next]_vars => RouterTypeOK'
<1> SUFFICES ASSUME RouterInv, [Next]_vars PROVE RouterTypeOK'
  OBVIOUS
<1>1. RouterTypeOK
  BY DEF RouterInv
<1>2. CASE Aside
  BY <1>1, <1>2, AsideTypes
<1>3. CASE Boot
  <2>1. operations' \in [Requests -> Seq(Operation)]
    <3>1. \A r \in Requests : [i \in DOMAIN operations[r] |-> CrashedOperation(operations[r][i])] \in Seq(Operation)
      BY <1>1, TellsCrash DEF RouterInv, OperationsTell, RouterTypeOK
    <3>2. QED
      BY <1>1, <1>3, <3>1, BootParts
  <2>2. handlers' \in [Requests -> Handler \cup {None}]
    BY <1>3 DEF Boot
  <2>3. QED
    BY <1>1, <1>3, <2>1, <2>2, BootParts DEF RouterTypeOK
<1>4. QED
  BY <1>2, <1>3, StepsAre, AdmissionParts, FetchParts, TransportParts, ReceiptParts, ProviderParts

\* No end is invented, whoever stops listening.
LEMMA TellsKept == RouterInv /\ [Next]_vars => OperationsTell'
<1> SUFFICES ASSUME RouterInv, [Next]_vars, NEW q \in Requests
             PROVE  Tells(receipts'[q] # None, operations'[q], sent'[q], q \in transports')
  BY DEF OperationsTell, Known
<1>1. /\ RouterTypeOK
      /\ Tells(receipts[q] # None, operations[q], sent[q], q \in transports)
      /\ operations[q] \in Seq(Operation) /\ sent[q] \in Seq({"live", "never", "success", "failure"})
  BY DEF RouterInv, OperationsTell, RouterTypeOK, Known
<1>2. CASE Aside
  BY <1>1, <1>2, AsideLeaves
<1>3. CASE Boot
  <2>1. /\ receipts'[q] # None <=> receipts[q] # None
        /\ operations'[q] = [i \in DOMAIN operations[q] |-> CrashedOperation(operations[q][i])]
        /\ sent'[q] = sent[q] /\ q \notin transports'
    BY <1>1, <1>3, BootParts
  <2>2. Tells(receipts[q] # None, [i \in DOMAIN operations[q] |-> CrashedOperation(operations[q][i])],
              sent[q], FALSE)
    BY <1>1, TellsCrash
  <2>3. Tells(receipts'[q] # None, operations'[q], sent'[q], FALSE)
    BY <2>1, <2>2
  <2>4. QED
    BY <2>1, <2>3 DEF Tells
<1>4. ASSUME NEW r \in Requests, Admission(r)
      PROVE  Tells(receipts'[q] # None, operations'[q], sent'[q], q \in transports')
  <2>1. UNCHANGED <<operations, sent, transports>> /\ (receipts[q] # None => receipts'[q] # None)
    BY <1>4, AdmissionParts
  <2>2. QED
    BY <1>1, <2>1 DEF Tells
<1>5. ASSUME NEW r \in Requests, Fetch(r)
      PROVE  Tells(receipts'[q] # None, operations'[q], sent'[q], q \in transports')
  <2>1. CASE q # r
    BY <1>1, <1>5, <2>1, FetchParts
  <2>2. CASE q = r
    <3>1. receipts[q] # None /\ receipts' = receipts /\ \A i \in DOMAIN operations[q] : operations[q][i].terminal # "unknown"
      BY <1>5, <2>2, FetchParts DEF Known, Unknown
    <3>2. PICK o \in Operation, x \in {"live", "never"} :
             /\ o.terminal = "unknown"
             /\ operations'[q] = Append(operations[q], o) /\ sent'[q] = Append(sent[q], x)
      BY <1>5, <2>2, FetchParts
    <3>3. Tells(TRUE, operations[q], sent[q], q \in transports)
      BY <1>1, <3>1
    <3>4. Tells(TRUE, Append(operations[q], o), Append(sent[q], x), q \in transports')
      BY <1>1, <3>1, <3>2, <3>3, TellsAppend
    <3>5. QED
      BY <3>1, <3>2, <3>4
  <2>3. QED
    BY <2>1, <2>2
<1>6. ASSUME NEW r \in Requests, OriginalEof(r) \/ TransportEnds(r)
      PROVE  Tells(receipts'[q] # None, operations'[q], sent'[q], q \in transports')
  <2>0. UNCHANGED <<receipts, sent>>
    BY <1>6, TransportParts
  <2>1. CASE q # r
    <3>1. operations'[q] = operations[q] /\ (q \in transports' <=> q \in transports)
      BY <1>6, <2>1, TransportParts
    <3>2. QED
      BY <1>1, <2>0, <3>1
  <2>2. CASE q = r
    <3>1. q \in transports /\ q \notin transports'
      BY <1>6, <2>2, TransportParts
    <3>2. PICK o \in Operation :
             /\ operations'[q] = [operations[q] EXCEPT ![Len(operations[q])] = o]
             /\ o.terminal = "completed" => sent[q][Len(sent[q])] = "success"
             /\ o.terminal = "failed" => sent[q][Len(sent[q])] = "failure"
      BY <1>6, <2>2, TransportParts
    <3>3. Tells(receipts[q] # None, operations[q], sent[q], TRUE)
      BY <1>1, <3>1
    <3>4. Tells(receipts[q] # None, [operations[q] EXCEPT ![Len(operations[q])] = o], sent[q], FALSE)
      BY <1>1, <3>2, <3>3, TellsStop
    <3>5. Tells(receipts'[q] # None, operations'[q], sent'[q], FALSE)
      BY <2>0, <3>2, <3>4
    <3>6. QED
      BY <3>1, <3>5 DEF Tells
  <2>3. QED
    BY <2>1, <2>2
<1>7. ASSUME NEW r \in Requests, HandlerEnds(r) \/ Cancel(r)
      PROVE  Tells(receipts'[q] # None, operations'[q], sent'[q], q \in transports')
  <2>1. UNCHANGED <<operations, sent, transports>> /\ (receipts'[q] # None <=> receipts[q] # None)
    BY <1>7, ReceiptParts
  <2>2. QED
    BY <1>1, <2>1
<1>8. ASSUME NEW r \in Requests, ProviderEnds(r)
      PROVE  Tells(receipts'[q] # None, operations'[q], sent'[q], q \in transports')
  <2>0. UNCHANGED <<receipts, operations, transports>>
    BY <1>8, ProviderParts DEF tables, volatile
  <2>1. CASE q # r
    BY <1>1, <1>8, <2>0, <2>1, ProviderParts
  <2>2. CASE q = r
    <3>1. /\ sent[q] # <<>> /\ sent[q][Len(sent[q])] = "live"
          /\ \E e \in {"success", "failure"} : sent'[q] = [sent[q] EXCEPT ![Len(sent[q])] = e]
      BY <1>8, <2>2, ProviderParts
    <3>2. PICK e \in {"success", "failure"} : sent'[q] = [sent[q] EXCEPT ![Len(sent[q])] = e]
      BY <3>1
    <3>3. Tells(receipts[q] # None, operations[q], [sent[q] EXCEPT ![Len(sent[q])] = e], q \in transports)
      BY <1>1, <3>1, TellsEnd
    <3>4. QED
      BY <2>0, <3>2, <3>3
  <2>3. QED
    BY <2>1, <2>2
<1>9. QED
  BY <1>2, <1>3, <1>4, <1>5, <1>6, <1>7, <1>8, StepsAre

\* A handler runs on a receipt that is not done.
LEMMA HandlersKept == RouterInv /\ [Next]_vars => HandlersKnown'
<1> SUFFICES ASSUME RouterInv, [Next]_vars, NEW q \in Requests, handlers'[q] # None
             PROVE  receipts'[q] # None /\ ~receipts'[q].done
  BY DEF HandlersKnown, Known
<1>1. handlers[q] # None => receipts[q] # None /\ ~receipts[q].done
  BY DEF RouterInv, HandlersKnown, Known
<1>2. CASE Aside
  BY <1>1, <1>2, AsideLeaves
<1>3. CASE Boot
  BY <1>3, BootParts DEF RouterInv
<1>4. ASSUME NEW r \in Requests, Admission(r) PROVE receipts'[q] # None /\ ~receipts'[q].done
  BY <1>1, <1>4, AdmissionParts
<1>5. ASSUME NEW r \in Requests, Fetch(r) \/ OriginalEof(r) \/ TransportEnds(r)
      PROVE  receipts'[q] # None /\ ~receipts'[q].done
  <2>1. UNCHANGED <<receipts, handlers>>
    BY <1>5, FetchParts, TransportParts
  <2>2. QED
    BY <1>1, <2>1
<1>6. ASSUME NEW r \in Requests, HandlerEnds(r) \/ Cancel(r) PROVE receipts'[q] # None /\ ~receipts'[q].done
  BY <1>1, <1>6, ReceiptParts
<1>7. ASSUME NEW r \in Requests, ProviderEnds(r) PROVE receipts'[q] # None /\ ~receipts'[q].done
  BY <1>1, <1>7, ProviderParts DEF tables, volatile
<1>8. QED
  BY <1>2, <1>3, <1>4, <1>5, <1>6, <1>7, StepsAre

\* What is quiet stays quiet: only admission makes a request that is not.
LEMMA QuietStays ==
    ASSUME RouterInv, [Next]_vars, NEW q \in Requests, receipts'[q] # None
    PROVE  \/ Admission(q)
           \/ receipts[q] # None /\ (Quiescent(q) => Quiescent(q)')
<1>1. /\ Tells(receipts[q] # None, operations[q], sent[q], q \in transports)
      /\ operations[q] \in Seq(Operation) /\ sent[q] \in Seq({"live", "never", "success", "failure"})
      /\ RouterTypeOK
  BY DEF RouterInv, OperationsTell, Known, RouterTypeOK
<1>2. /\ Quiescent(q) <=> /\ receipts[q] # None /\ receipts[q].done
                          /\ \A i \in DOMAIN operations[q] : operations[q][i].terminal # "unknown"
      /\ Quiescent(q)' <=> /\ receipts'[q] # None /\ receipts'[q].done
                           /\ \A i \in DOMAIN operations'[q] : operations'[q][i].terminal # "unknown"
  BY DEF Quiescent, Unknown, Known
<1>3. CASE Aside
  BY <1>2, <1>3, AsideLeaves
<1>4. CASE Boot
  <2>1. /\ receipts[q] # None /\ receipts'[q].done = receipts[q].done
        /\ operations'[q] = [i \in DOMAIN operations[q] |-> CrashedOperation(operations[q][i])]
    BY <1>1, <1>4, BootParts
  <2>2. /\ DOMAIN operations'[q] = DOMAIN operations[q]
        /\ \A i \in DOMAIN operations[q] : operations'[q][i].terminal = operations[q][i].terminal
    <3>1. PICK p : p = [i \in DOMAIN operations[q] |-> CrashedOperation(operations[q][i])]
      OBVIOUS
    <3>2. /\ DOMAIN p = DOMAIN operations[q]
          /\ \A i \in DOMAIN operations[q] : p[i].terminal = operations[q][i].terminal
      BY <1>1, <3>1, TellsCrash
    <3>3. operations'[q] = p
      BY <2>1, <3>1
    <3>4. QED
      BY <3>2, <3>3
  <2>3. QED
    BY <1>2, <2>1, <2>2
<1>5. ASSUME NEW r \in Requests, Admission(r), r # q
      PROVE  receipts[q] # None /\ (Quiescent(q) => Quiescent(q)')
  BY <1>2, <1>5, AdmissionParts
<1>6. ASSUME NEW r \in Requests, Fetch(r)
      PROVE  receipts[q] # None /\ (Quiescent(q) => Quiescent(q)')
  <2>1. receipts' = receipts
    BY <1>6, FetchParts
  <2>2. CASE r = q
    BY <1>2, <1>6, <2>1, <2>2, FetchParts
  <2>3. CASE r # q
    BY <1>2, <1>6, <2>1, <2>3, FetchParts
  <2>4. QED
    BY <2>2, <2>3
<1>7. ASSUME NEW r \in Requests, OriginalEof(r) \/ TransportEnds(r)
      PROVE  receipts[q] # None /\ (Quiescent(q) => Quiescent(q)')
  <2>1. receipts' = receipts /\ r \in transports
    BY <1>7, TransportParts
  <2>2. CASE r = q
    <3>1. operations[q] # <<>> /\ operations[q][Len(operations[q])].terminal = "unknown"
      BY <1>1, <2>1, <2>2 DEF Tells
    <3>2. Len(operations[q]) \in DOMAIN operations[q]
      BY <1>1, <3>1
    <3>3. QED
      BY <1>2, <2>1, <3>1, <3>2
  <2>3. CASE r # q
    BY <1>2, <1>7, <2>1, <2>3, TransportParts
  <2>4. QED
    BY <2>2, <2>3
<1>8. ASSUME NEW r \in Requests, HandlerEnds(r) \/ Cancel(r)
      PROVE  receipts[q] # None /\ (Quiescent(q) => Quiescent(q)')
  BY <1>2, <1>8, ReceiptParts
<1>9. ASSUME NEW r \in Requests, ProviderEnds(r)
      PROVE  receipts[q] # None /\ (Quiescent(q) => Quiescent(q)')
  BY <1>2, <1>9, ProviderParts DEF tables, volatile
<1>10. QED
  BY <1>3, <1>4, <1>5, <1>6, <1>7, <1>8, <1>9, StepsAre

\* With a native profile no second request starts while one is not quiet.
LEMMA OthersStayQuiet == RouterInv /\ [Next]_vars => OthersQuiet'
<1> SUFFICES ASSUME RouterInv, [Next]_vars, Native, NEW q \in Requests, NEW s \in Requests,
                    receipts'[q] # None, ~Quiescent(q)', receipts'[s] # None, ~Quiescent(s)'
             PROVE  q = s
  BY DEF OthersQuiet, Known
<1>1. OthersQuiet
  BY DEF RouterInv
<1>2. ASSUME NEW r \in Requests, Admission(r), NEW p \in Requests, p # r, receipts'[p] # None
      PROVE  Quiescent(p)'
  <2>1. receipts'[p] = receipts[p] /\ operations'[p] = operations[p] /\ AllQuiet
    BY <1>2, AdmissionParts
  <2>2. Quiescent(p)
    BY <1>2, <2>1 DEF AllQuiet, Known
  <2>3. QED
    BY <2>1, <2>2 DEF Quiescent, Known, Unknown
<1>3. CASE Admission(q) \/ Admission(s)
  BY <1>2, <1>3
<1>4. CASE ~Admission(q) /\ ~Admission(s)
  BY <1>1, <1>4, QuietStays DEF OthersQuiet, Known
<1>5. QED
  BY <1>3, <1>4

\* What the steps of the process and of a request leave of the policy.
LEMMA RequestsLeavePolicy ==
    ASSUME RouterInv, NEW r \in Requests,
           \/ Admission(r) \/ Fetch(r) \/ OriginalEof(r) \/ TransportEnds(r)
           \/ HandlerEnds(r) \/ Cancel(r) \/ ProviderEnds(r)
    PROVE  UNCHANGED <<phase, generation, recorded, actual, profile, writers, prepared, clocks>>
  BY AdmissionParts, FetchParts, TransportParts, ReceiptParts, ProviderParts DEF tables, volatile

\* A mutation begins when all is quiet, and nothing is admitted while it runs.
LEMMA MutationsAlone == RouterInv /\ [Next]_vars => MutatesAlone'
<1> SUFFICES ASSUME RouterInv, [Next]_vars, phase' = "mutating", NEW q \in Requests, receipts'[q] # None
             PROVE  Quiescent(q)'
  BY DEF MutatesAlone, Known
<1>1. ~Admission(q)
  <2>1. SUFFICES ASSUME Admission(q) PROVE FALSE
    OBVIOUS
  <2>2. phase = "active" /\ phase' = phase
    BY <2>1, AdmissionParts
  <2>3. QED
    BY <2>2
<1>2. receipts[q] # None /\ (Quiescent(q) => Quiescent(q)')
  BY <1>1, QuietStays
<1>3. phase = "mutating" \/ AllQuiet
  <2>1. CASE Aside
    BY <2>1 DEF Aside, Fence, StartEvaluation, ConfigureNative, SelectNativeProfile, CloseScope,
                Replace, Drained, WriterWrites, WriterEnds, AskQuiescent, PrepareNative, FetchAgain,
                tables, volatile, vars
  <2>2. CASE Boot
    BY <2>2, BootParts DEF RouterInv
  <2>3. QED
    BY <2>1, <2>2, StepsAre, RequestsLeavePolicy
<1>4. QED
  BY <1>2, <1>3 DEF AllQuiet, Known, RouterInv, MutatesAlone

\* Where all is quiet no handler runs and nothing is with the provider.
LEMMA QuietIsIdle ==
    ASSUME RouterInv, NEW q \in Requests, receipts[q] # None => Quiescent(q)
    PROVE  handlers[q] = None /\ Live(q) = {} /\ q \notin transports
<1>1. /\ Tells(receipts[q] # None, operations[q], sent[q], q \in transports)
      /\ operations[q] \in Seq(Operation) /\ sent[q] \in Seq({"live", "never", "success", "failure"})
      /\ handlers[q] # None => receipts[q] # None /\ ~receipts[q].done
  BY DEF RouterInv, OperationsTell, Known, RouterTypeOK, HandlersKnown
<1>2. handlers[q] = None
  BY <1>1 DEF Quiescent
<1>3. \A i \in DOMAIN operations[q] : operations[q][i].terminal \in {"completed", "failed"}
  <2>1. ASSUME NEW i \in DOMAIN operations[q] PROVE operations[q][i].terminal \in {"completed", "failed"}
    <3>1. receipts[q] # None
      BY <1>1 DEF Tells
    <3>2. operations[q][i].terminal # "unknown" /\ operations[q][i] \in Operation
      BY <1>1, <3>1 DEF Quiescent, Unknown
    <3>3. QED
      BY <3>2 DEF Operation
  <2>2. QED
    BY <2>1
<1>4. DOMAIN sent[q] = DOMAIN operations[q] /\ DOMAIN operations[q] = 1 .. Len(operations[q])
  BY <1>1 DEF Tells
<1>5. Live(q) = {}
  BY <1>1, <1>3, <1>4 DEF Live, Tells
<1>6. q \notin transports
  <2>1. SUFFICES ASSUME q \in transports PROVE FALSE
    OBVIOUS
  <2>2. operations[q] # <<>> /\ operations[q][Len(operations[q])].terminal = "unknown"
    BY <1>1, <2>1 DEF Tells
  <2>3. Len(operations[q]) \in DOMAIN operations[q]
    BY <1>1, <2>2
  <2>4. QED
    BY <1>3, <2>2, <2>3
<1>7. QED
  BY <1>2, <1>5, <1>6

\* Writers are numbered by their generations, and the last one's mutation is the one that runs.
LEMMA WritersKept == RouterInv /\ [Next]_vars => WritersInOrder'
<1> SUFFICES ASSUME RouterInv, [Next]_vars PROVE WritersInOrder'
  OBVIOUS
<1>1. WritersInOrder /\ RouterTypeOK /\ generation \in Nat
      /\ \A w \in writers : w.generation \in Nat
  BY DEF RouterInv, RouterTypeOK, Writer
<1>2. CASE UNCHANGED <<phase, generation, writers>>
  BY <1>1, <1>2 DEF WritersInOrder
<1>3. CASE Boot
  BY <1>3, BootParts DEF WritersInOrder, RouterInv
<1>4. CASE Fence
  BY <1>1, <1>4 DEF Fence, WritersInOrder
<1>5. ASSUME NEW s \in Scopes, SelectNativeProfile(s) PROVE WritersInOrder'
  BY <1>1, <1>5 DEF SelectNativeProfile, WritersInOrder
<1>6. ASSUME NEW p \in Policies, Replace(p) PROVE WritersInOrder'
  <2>1. CASE phase' = "draining" /\ UNCHANGED <<generation, writers>> /\ phase # "mutating"
    BY <1>1, <2>1 DEF WritersInOrder
  <2>2. CASE generation' = generation + 1 /\ phase' = "mutating"
             /\ writers' = writers \cup {[generation |-> generation + 1, expected |-> p]}
    <3>1. PICK n : n = [generation |-> generation + 1, expected |-> p]
      OBVIOUS
    <3>2. n.generation = generation + 1 /\ writers' = writers \cup {n}
      BY <2>2, <3>1
    <3>3. QED
      BY <1>1, <2>2, <3>2 DEF WritersInOrder
  <2>3. QED
    BY <1>6, <2>1, <2>2 DEF Replace
<1>7. ASSUME NEW w \in writers, WriterEnds(w) PROVE WritersInOrder'
  <2>1. writers' = writers \ {w} /\ generation' = generation /\ w.generation \in Nat
    BY <1>1, <1>7 DEF WriterEnds
  <2>2. CASE w.generation = generation
    BY <1>1, <2>1, <2>2 DEF WritersInOrder
  <2>3. CASE w.generation # generation
    <3>1. phase' = phase
      BY <1>7, <2>3 DEF WriterEnds, LetsWrite
    <3>2. QED
      BY <1>1, <2>1, <3>1 DEF WritersInOrder
  <2>4. QED
    BY <2>2, <2>3
<1>8. CASE Aside
  <2>1. \/ Fence \/ \E s \in Scopes : SelectNativeProfile(s)
        \/ \E p \in Policies : Replace(p)
        \/ \E w \in writers : WriterEnds(w)
        \/ UNCHANGED <<phase, generation, writers>>
    BY <1>8 DEF Aside, StartEvaluation, ConfigureNative, CloseScope, WriterWrites, AskQuiescent,
                PrepareNative, FetchAgain, tables, volatile, vars
  <2>2. QED
    BY <1>2, <1>4, <1>5, <1>6, <1>7, <2>1
<1>9. QED
  BY <1>2, <1>3, <1>8, StepsAre, RequestsLeavePolicy

\* A handler of this generation keeps the policy it was admitted under: whatever changes
\* policy or profile finds none of it, or leaves its generation behind.
LEMMA CurrentKept == RouterInv /\ [Next]_vars => HandlersCurrent'
<1> SUFFICES ASSUME RouterInv, [Next]_vars, NEW q \in Requests, handlers'[q] # None
             PROVE  /\ handlers'[q].generation <= generation'
                    /\ handlers'[q].generation = generation' =>
                          /\ phase' \in {"active", "draining"}
                          /\ handlers'[q].policy = actual' /\ recorded' = Snapshot'
  BY DEF HandlersCurrent
<1> DEFINE Kept == /\ handlers'[q].generation <= generation'
                   /\ handlers'[q].generation = generation' =>
                         /\ phase' \in {"active", "draining"}
                         /\ handlers'[q].policy = actual' /\ recorded' = Snapshot'
<1>1. /\ RouterTypeOK /\ WritersInOrder /\ MutatesAlone /\ generation \in Nat
      /\ handlers[q] # None => /\ handlers[q].generation <= generation
                               /\ handlers[q].generation = generation =>
                                     /\ phase \in {"active", "draining"}
                                     /\ handlers[q].policy = actual /\ recorded = Snapshot
      /\ handlers[q] # None => handlers[q].generation \in Nat
  BY DEF RouterInv, RouterTypeOK, HandlersCurrent, Handler
<1>2. CASE handlers' = handlers /\ UNCHANGED <<phase, generation, actual, recorded, profile>>
  BY <1>1, <1>2 DEF Snapshot
<1>3. CASE handlers' = handlers /\ generation' = generation + 1
  BY <1>1, <1>3
<1>4. CASE phase = "mutating" /\ handlers' = handlers
  BY <1>1, <1>4, QuietIsIdle DEF MutatesAlone, Known
<1>5. CASE Aside
  <2>1. handlers' = handlers
    BY <1>5, AsideLeaves
  <2>2. ASSUME NEW s \in Scopes, ConfigureNative(s) PROVE handlers'[q].generation # generation'
    BY <1>1, <2>1, <2>2 DEF ConfigureNative, tables
  <2>3. ASSUME NEW p \in Policies, Replace(p), generation' = generation
        PROVE  phase' = "draining" /\ UNCHANGED <<actual, recorded, profile>>
    BY <1>1, <2>3 DEF Replace
  <2>4. ASSUME NEW w \in writers, WriterWrites(w) PROVE phase = "mutating"
    BY <2>4 DEF WriterWrites, LetsWrite
  <2>5. ASSUME NEW w \in writers, WriterEnds(w), phase # "mutating"
        PROVE  UNCHANGED <<phase, generation, actual, recorded, profile>>
    BY <1>1, <2>5 DEF WriterEnds, LetsWrite, WritersInOrder
  <2>6. ASSUME NEW p \in Policies, Replace(p) PROVE generation' = generation \/ generation' = generation + 1
    BY <2>6 DEF Replace
  <2>7. CASE Fence \/ \E s \in Scopes : SelectNativeProfile(s)
    BY <1>3, <2>1, <2>7 DEF Fence, SelectNativeProfile
  <2>8. CASE \E s \in Scopes : ConfigureNative(s)
    <3>1. generation' = generation
      BY <2>8 DEF ConfigureNative, tables
    <3>2. QED
      BY <1>1, <2>1, <2>2, <2>8, <3>1
  <2>9. CASE \E p \in Policies : Replace(p)
    <3>1. PICK p \in Policies : Replace(p)
      BY <2>9
    <3>2. CASE generation' = generation
      BY <1>1, <2>1, <2>3, <3>1, <3>2 DEF Snapshot
    <3>3. CASE generation' = generation + 1
      BY <1>3, <2>1, <3>3
    <3>4. QED
      BY <2>6, <3>1, <3>2, <3>3
  <2>10. CASE \E w \in writers : WriterWrites(w) \/ WriterEnds(w)
    <3>1. CASE phase = "mutating"
      BY <1>4, <2>1, <3>1
    <3>2. CASE phase # "mutating"
      BY <1>2, <2>1, <2>4, <2>5, <2>10, <3>2
    <3>3. QED
      BY <3>1, <3>2
  <2>11. CASE \/ StartEvaluation \/ (\E s \in Scopes : CloseScope(s)) \/ UNCHANGED vars
              \/ \E r \in Requests : AskQuiescent(r) \/ PrepareNative(r) \/ FetchAgain(r)
    <3>1. UNCHANGED <<phase, generation, actual, recorded, profile>>
      BY <2>11 DEF StartEvaluation, CloseScope, AskQuiescent, PrepareNative, FetchAgain, tables,
                   volatile, vars
    <3>2. QED
      BY <1>2, <2>1, <3>1
  <2>12. QED
    BY <1>5, <2>7, <2>8, <2>9, <2>10, <2>11 DEF Aside
<1>6. CASE Boot
  BY <1>6, BootParts DEF RouterInv
<1>7. ASSUME NEW r \in Requests, Admission(r) PROVE Kept
  <2>1. UNCHANGED <<phase, generation, actual, recorded, profile>>
    BY <1>7, RequestsLeavePolicy
  <2>2. CASE r = q
    BY <1>1, <1>7, <2>1, <2>2, AdmissionParts DEF Snapshot
  <2>3. CASE r # q
    BY <1>1, <1>7, <2>1, <2>3, AdmissionParts DEF Snapshot
  <2>4. QED
    BY <2>2, <2>3
<1>8. ASSUME NEW r \in Requests, Fetch(r) \/ OriginalEof(r) \/ TransportEnds(r) \/ ProviderEnds(r)
      PROVE  Kept
  <2>1. UNCHANGED <<phase, generation, actual, recorded, profile, handlers>>
    BY <1>8, RequestsLeavePolicy, FetchParts, TransportParts, ProviderParts DEF tables, volatile
  <2>2. QED
    BY <1>2, <2>1
<1>9. ASSUME NEW r \in Requests, HandlerEnds(r) \/ Cancel(r) PROVE Kept
  <2>1. UNCHANGED <<phase, generation, actual, recorded, profile>>
    BY <1>9, RequestsLeavePolicy
  <2>2. handlers'[q] = handlers[q]
    BY <1>9, ReceiptParts
  <2>3. QED
    BY <1>1, <2>1, <2>2 DEF Snapshot
<1>10. QED
  BY <1>5, <1>6, <1>7, <1>8, <1>9, StepsAre

\* Preparation comes before admission, and is never undone.
LEMMA PreparedKept == RouterInv /\ [Next]_vars => PreparedFirst'
<1> SUFFICES ASSUME RouterInv, [Next]_vars PROVE PreparedFirst'
  OBVIOUS
<1>1. PreparedFirst /\ RouterTypeOK
  BY DEF RouterInv
<1>2. ASSUME prepared' = prepared, clocks' \subseteq clocks,
             \A q \in Requests : receipts'[q] # None => receipts[q] # None
      PROVE  PreparedFirst'
  BY <1>1, <1>2 DEF PreparedFirst, Known
<1>3. ASSUME NEW r \in Requests, PrepareNative(r) PROVE PreparedFirst'
  <2>1. /\ Native /\ profile # None /\ prepared' = [prepared EXCEPT ![r] = profile]
        /\ clocks' = clocks \cup {r} /\ receipts' = receipts
    BY <1>3 DEF PrepareNative
  <2>2. prepared'[r] = profile /\ \A q \in Requests \ {r} : prepared'[q] = prepared[q]
    BY <1>1, <2>1 DEF RouterTypeOK
  <2>3. clocks \in SUBSET Requests
    BY <1>1 DEF RouterTypeOK
  <2>4. QED
    BY <1>1, <2>1, <2>2, <2>3 DEF PreparedFirst, Known
<1>4. CASE Aside
  <2>1. \/ \E r \in Requests : PrepareNative(r)
        \/ prepared' = prepared /\ clocks' = clocks
    BY <1>4 DEF Aside, Fence, StartEvaluation, ConfigureNative, SelectNativeProfile, CloseScope, Replace,
         WriterWrites, WriterEnds, AskQuiescent, FetchAgain, tables, volatile, vars
  <2>2. receipts' = receipts
    BY <1>4, AsideLeaves
  <2>3. QED
    BY <1>2, <1>3, <2>1, <2>2
<1>5. CASE Boot
  BY <1>2, <1>5, BootParts DEF RouterInv
<1>6. ASSUME NEW r \in Requests, Admission(r) PROVE PreparedFirst'
  <2>1. prepared' = prepared /\ clocks' = clocks
    BY <1>6, RequestsLeavePolicy
  <2>2. /\ Native => prepared[r] # None
        /\ \A q \in Requests \ {r} : receipts'[q] = receipts[q]
    BY <1>6, AdmissionParts
  <2>3. QED
    BY <1>1, <2>1, <2>2 DEF PreparedFirst, Known
<1>7. ASSUME NEW r \in Requests, \/ Fetch(r) \/ OriginalEof(r) \/ TransportEnds(r)
                                 \/ HandlerEnds(r) \/ Cancel(r) \/ ProviderEnds(r)
      PROVE  PreparedFirst'
  <2>1. prepared' = prepared /\ clocks' = clocks
    BY <1>7, RequestsLeavePolicy
  <2>2. \A q \in Requests : receipts'[q] # None => receipts[q] # None
    BY <1>7, FetchParts, TransportParts, ReceiptParts, ProviderParts DEF tables, volatile
  <2>3. QED
    BY <1>2, <2>1, <2>2
<1>8. QED
  BY <1>4, <1>5, <1>6, <1>7, StepsAre

\* Scopes are never refunded, and pay before anything is sent under them.
LEMMA SpendingKept == RouterInv /\ [Next]_vars => ScopesSpend'
<1> SUFFICES ASSUME RouterInv, [Next]_vars, NEW s \in Scopes
             PROVE  IsFiniteSet(SentUnder(s)') /\ Cardinality(SentUnder(s)') <= scopes'[s].spent
  BY DEF ScopesSpend
<1>1. /\ RouterTypeOK /\ PreparedFirst /\ RouterTypeOK'
      /\ IsFiniteSet(SentUnder(s)) /\ Cardinality(SentUnder(s)) <= scopes[s].spent
      /\ scopes[s].spent \in Nat /\ s # None
  BY RouterTypes, RouterAssumption DEF RouterInv, ScopesSpend, RouterTypeOK, Scope
<1>2. ASSUME \A r \in Requests : /\ (prepared'[r] = s) <=> (prepared[r] = s)
                                 /\ prepared[r] = s => Goes(sent'[r]) = Goes(sent[r])
      PROVE  SentUnder(s)' = SentUnder(s)
  <2>1. ASSUME NEW z
        PROVE  z \in SentUnder(s)' <=> z \in SentUnder(s)
    <3>1. z \in SentUnder(s) <=> \E r \in Requests : prepared[r] = s /\ z \in {r} \X Goes(sent[r])
      BY DEF SentUnder
    <3>2. z \in SentUnder(s)' <=> \E r \in Requests : prepared'[r] = s /\ z \in {r} \X Goes(sent'[r])
      BY DEF SentUnder
    <3>3. QED
      BY <1>2, <3>1, <3>2
  <2>2. QED
    BY <2>1
<1>3. ASSUME SentUnder(s)' = SentUnder(s), scopes'[s].spent \in {scopes[s].spent, scopes[s].spent + 1}
      PROVE  IsFiniteSet(SentUnder(s)') /\ Cardinality(SentUnder(s)') <= scopes'[s].spent
  BY <1>1, <1>3, FS_CardinalityType
<1>4. CASE Aside
  <2>1. sent' = sent
    BY <1>4, AsideLeaves
  <2>2. scopes'[s].spent = scopes[s].spent
    <3>1. scopes \in [Scopes -> Scope]
      BY <1>1 DEF RouterTypeOK
    <3>2. \/ scopes' = scopes
          \/ \E t, state : scopes' = [scopes EXCEPT ![t].state = state]
      BY <1>4 DEF Aside, Fence, StartEvaluation, ConfigureNative, SelectNativeProfile, CloseScope,
           Replace, WriterWrites, WriterEnds, AskQuiescent, PrepareNative, FetchAgain, tables, volatile,
           vars
    <3>3. QED
      BY <3>1, <3>2 DEF Scope
  <2>3. ASSUME NEW r \in Requests, PrepareNative(r)
        PROVE  SentUnder(s)' = SentUnder(s)
    <3>1. /\ Native /\ prepared[r] = None /\ prepared' = [prepared EXCEPT ![r] = profile]
      BY <2>3 DEF PrepareNative
    <3>2. \A q \in Requests \ {r} : prepared'[q] = prepared[q]
      BY <1>1, <3>1 DEF RouterTypeOK
    <3>3. Goes(sent[r]) = {} /\ Goes(sent'[r]) = {}
      <4>1. receipts[r] = None
        BY <1>1, <3>1 DEF PreparedFirst, Known
      <4>2. Len(sent[r]) = 0 /\ sent[r] \in Seq({"live", "never", "success", "failure"})
        BY <1>1, <4>1 DEF RouterInv, OperationsTell, Tells, Known, RouterTypeOK
      <4>3. DOMAIN sent[r] = {}
        BY <4>2
      <4>4. QED
        BY <2>1, <4>3 DEF Goes
    <3>4. ASSUME NEW z PROVE z \in SentUnder(s)' <=> z \in SentUnder(s)
      <4>1. z \in SentUnder(s) <=> \E q \in Requests \ {r} : prepared[q] = s /\ z \in {q} \X Goes(sent[q])
        BY <3>3 DEF SentUnder
      <4>2. z \in SentUnder(s)' <=> \E q \in Requests \ {r} : prepared'[q] = s /\ z \in {q} \X Goes(sent'[q])
        BY <3>3 DEF SentUnder
      <4>3. QED
        BY <2>1, <3>2, <4>1, <4>2
    <3>5. QED
      BY <3>4
  <2>4. \/ \E r \in Requests : PrepareNative(r)
        \/ prepared' = prepared
    BY <1>4 DEF Aside, Fence, StartEvaluation, ConfigureNative, SelectNativeProfile, CloseScope, Replace,
         WriterWrites, WriterEnds, AskQuiescent, FetchAgain, tables, volatile, vars
  <2>5. SentUnder(s)' = SentUnder(s)
    BY <1>2, <2>1, <2>3, <2>4
  <2>6. QED
    BY <1>3, <2>2, <2>5
<1>5. CASE Boot
  <2>1. prepared' = prepared /\ sent' = sent /\ scopes'[s].spent = scopes[s].spent
    BY <1>1, <1>5, BootParts
  <2>2. QED
    BY <1>2, <1>3, <2>1
<1>6. ASSUME NEW r \in Requests, Fetch(r)
      PROVE  IsFiniteSet(SentUnder(s)') /\ Cardinality(SentUnder(s)') <= scopes'[s].spent
  <2>1. /\ prepared' = prepared /\ \A q \in Requests \ {r} : sent'[q] = sent[q]
        /\ \E x \in {"live", "never"} : sent'[r] = Append(sent[r], x)
        /\ Native => /\ prepared[r] \in Scopes
                     /\ scopes'[prepared[r]].spent = scopes[prepared[r]].spent + 1
                     /\ \A t \in Scopes \ {prepared[r]} : scopes'[t] = scopes[t]
        /\ ~Native => scopes' = scopes
    BY <1>6, FetchParts
  <2>2. PICK x \in {"live", "never"} : sent'[r] = Append(sent[r], x)
    BY <2>1
  <2>3. sent[r] \in Seq({"live", "never", "success", "failure"})
    BY <1>1 DEF RouterTypeOK
  <2>4. Goes(sent'[r]) = Goes(sent[r]) \cup (IF x = "live" THEN {Len(sent[r]) + 1} ELSE {})
    <3> DEFINE n == Len(sent[r]) + 1
    <3>1. n \notin DOMAIN sent[r]
      <4>1. Len(sent[r]) \in Nat /\ DOMAIN sent[r] = 1 .. Len(sent[r])
        BY <2>3
      <4>2. QED
        BY <4>1
    <3>2. /\ DOMAIN sent'[r] = DOMAIN sent[r] \cup {n} /\ sent'[r][n] = x
          /\ \A i \in DOMAIN sent[r] : sent'[r][i] = sent[r][i]
      BY <2>2, <2>3, Appended
    <3> HIDE DEF n
    <3>3. Goes(sent'[r]) = Goes(sent[r]) \cup (IF x = "live" THEN {n} ELSE {})
      BY <2>2, <3>1, <3>2 DEF Goes
    <3>4. QED
      BY <3>3 DEF n
  <2>5. CASE prepared[r] # s
    <3>1. SentUnder(s)' = SentUnder(s)
      BY <1>2, <2>1, <2>5
    <3>2. scopes'[s].spent = scopes[s].spent
      BY <2>1, <2>5
    <3>3. QED
      BY <1>3, <3>1, <3>2
  <2>6. CASE prepared[r] = s
    <3>1. Native /\ scopes'[s].spent = scopes[s].spent + 1
      BY <1>1, <2>1, <2>6 DEF PreparedFirst
    <3>2. CASE x = "never"
      <4>1. Goes(sent'[r]) = Goes(sent[r])
        BY <2>4, <3>2
      <4>2. SentUnder(s)' = SentUnder(s)
        BY <1>2, <2>1, <4>1
      <4>3. QED
        BY <1>3, <3>1, <4>2
    <3>3. CASE x = "live"
      <4> DEFINE n == Len(sent[r]) + 1
      <4>1. Goes(sent'[r]) = Goes(sent[r]) \cup {n}
        BY <2>4, <3>3
      <4> HIDE DEF n
      <4>2. ASSUME NEW z PROVE z \in SentUnder(s)' <=> z \in SentUnder(s) \cup {<<r, n>>}
        <5>1. z \in SentUnder(s) <=> \E q \in Requests : prepared[q] = s /\ z \in {q} \X Goes(sent[q])
          BY DEF SentUnder
        <5>2. z \in SentUnder(s)' <=> \E q \in Requests : prepared'[q] = s /\ z \in {q} \X Goes(sent'[q])
          BY DEF SentUnder
        <5>3. z \in {r} \X Goes(sent'[r]) <=> z \in {r} \X Goes(sent[r]) \/ z = <<r, n>>
          BY <4>1
        <5>4. QED
          BY <2>1, <2>6, <5>1, <5>2, <5>3
      <4>3. SentUnder(s)' = SentUnder(s) \cup {<<r, n>>}
        BY <4>2
      <4>4. IsFiniteSet(SentUnder(s)') /\ Cardinality(SentUnder(s)') <= Cardinality(SentUnder(s)) + 1
        <5>1. PICK S : S = SentUnder(s)
          OBVIOUS
        <5>2. IsFiniteSet(S) /\ Cardinality(S) \in Nat
          BY <1>1, <5>1, FS_CardinalityType
        <5>3. /\ IsFiniteSet(S \cup {<<r, n>>})
              /\ \/ Cardinality(S \cup {<<r, n>>}) = Cardinality(S)
                 \/ Cardinality(S \cup {<<r, n>>}) = Cardinality(S) + 1
          BY <5>2, FS_AddElement
        <5>4. QED
          BY <4>3, <5>1, <5>2, <5>3
      <4>5. QED
        BY <1>1, <3>1, <4>4, FS_CardinalityType
    <3>4. QED
      BY <3>2, <3>3
  <2>7. QED
    BY <2>5, <2>6
<1>7. ASSUME NEW r \in Requests, ProviderEnds(r)
      PROVE  IsFiniteSet(SentUnder(s)') /\ Cardinality(SentUnder(s)') <= scopes'[s].spent
  <2>1. prepared' = prepared /\ scopes' = scopes
    BY <1>7, ProviderParts DEF tables
  <2>2. \A q \in Requests : Goes(sent'[q]) = Goes(sent[q])
    <3>1. /\ sent[r] # <<>> /\ sent[r][Len(sent[r])] = "live" /\ \A q \in Requests \ {r} : sent'[q] = sent[q]
          /\ \E e \in {"success", "failure"} : sent'[r] = [sent[r] EXCEPT ![Len(sent[r])] = e]
      BY <1>7, ProviderParts
    <3>2. PICK e \in {"success", "failure"} : sent'[r] = [sent[r] EXCEPT ![Len(sent[r])] = e]
      BY <3>1
    <3>3. sent[r] \in Seq({"live", "never", "success", "failure"})
      BY <1>1 DEF RouterTypeOK
    <3>4. /\ DOMAIN sent'[r] = DOMAIN sent[r] /\ sent'[r][Len(sent[r])] = e
          /\ \A i \in DOMAIN sent[r] : i # Len(sent[r]) => sent'[r][i] = sent[r][i]
      BY <3>1, <3>2, <3>3, LastReplaced
    <3>5. Goes(sent'[r]) = Goes(sent[r])
      BY <3>1, <3>4 DEF Goes
    <3>6. QED
      BY <3>1, <3>5
  <2>3. QED
    BY <1>2, <1>3, <2>1, <2>2
<1>8. ASSUME NEW r \in Requests, \/ Admission(r) \/ OriginalEof(r) \/ TransportEnds(r)
                                 \/ HandlerEnds(r) \/ Cancel(r)
      PROVE  IsFiniteSet(SentUnder(s)') /\ Cardinality(SentUnder(s)') <= scopes'[s].spent
  <2>1. UNCHANGED <<prepared, scopes, sent>>
    BY <1>8, AdmissionParts, TransportParts, ReceiptParts
  <2>2. QED
    BY <1>2, <1>3, <2>1
<1>9. QED
  BY <1>4, <1>5, <1>6, <1>7, <1>8, StepsAre

\* The invariant holds in a new router.
LEMMA RouterInitially == Init => RouterInv
<1> SUFFICES ASSUME Init PROVE RouterInv
  OBVIOUS
<1>1. /\ phase = "closed" /\ generation = 1 /\ generation \in 1 .. MaxGeneration
      /\ \A r \in Requests : /\ receipts[r] = None /\ operations[r] = <<>> /\ sent[r] = <<>>
                             /\ prepared[r] = None /\ handlers[r] = None
      /\ \A s \in Scopes : scopes[s].spent = 0
      /\ clocks = {} /\ cancelled = {} /\ transports = {} /\ writers = {}
  BY RouterAssumption DEF Init
<1>2. RouterTypeOK
  BY <1>1 DEF Init, RouterTypeOK, Scope
<1>3. OperationsTell /\ HandlersKnown /\ OthersQuiet /\ MutatesAlone /\ HandlersCurrent /\ WritersInOrder
  BY <1>1 DEF OperationsTell, Tells, HandlersKnown, OthersQuiet, MutatesAlone, HandlersCurrent,
              WritersInOrder, Known
<1>4. PreparedFirst
  BY <1>1 DEF PreparedFirst, Known
<1>5. ScopesSpend
  <2>1. \A s \in Scopes : SentUnder(s) = {}
    BY <1>1 DEF SentUnder, Goes
  <2>2. IsFiniteSet({}) /\ Cardinality({}) = 0
    BY FS_EmptySet
  <2>3. ASSUME NEW s \in Scopes
        PROVE  IsFiniteSet(SentUnder(s)) /\ Cardinality(SentUnder(s)) <= scopes[s].spent
    <3>1. SentUnder(s) = {} /\ scopes[s].spent = 0
      BY <1>1, <2>1
    <3>2. Cardinality(SentUnder(s)) = 0 /\ IsFiniteSet(SentUnder(s))
      BY <2>2, <3>1
    <3>3. QED
      BY <3>1, <3>2
  <2>4. QED
    BY <2>3 DEF ScopesSpend
<1>6. QED
  BY <1>2, <1>3, <1>4, <1>5 DEF RouterInv

\* What the router keeps, whatever is cancelled, lost, fenced or booted again: its tables
\* tell no end that was not seen, and generations order writers and handlers.
THEOREM RouterInvariance == Spec => []RouterInv
<1>1. RouterInv /\ [Next]_vars => RouterInv'
  BY RouterTypes, TellsKept, HandlersKept, OthersStayQuiet, MutationsAlone, CurrentKept, WritersKept,
     PreparedKept, SpendingKept DEF RouterInv
<1>2. QED
  BY <1>1, RouterInitially, PTL DEF Spec

-----------------------------------------------------------------------------
(* What the router answers, and under which policy it works. *)

\* What is live is the last operation, and nobody knows its end.
LEMMA LiveIsUnknown ==
    ASSUME RouterInv, NEW r \in Requests, NEW i \in Live(r)
    PROVE  i = Len(operations[r]) /\ Known(r) /\ ~Quiescent(r)
<1>1. /\ Tells(receipts[r] # None, operations[r], sent[r], r \in transports)
      /\ operations[r] \in Seq(Operation) /\ sent[r] \in Seq({"live", "never", "success", "failure"})
  BY DEF RouterInv, OperationsTell, Known, RouterTypeOK
<1>2. i \in DOMAIN operations[r] /\ DOMAIN operations[r] = 1 .. Len(operations[r]) /\ sent[r][i] = "live"
  BY <1>1 DEF Live, Tells
<1>3. operations[r][i].terminal = "unknown"
  <2>1. operations[r][i] \in Operation
    BY <1>1, <1>2
  <2>2. operations[r][i].terminal \in {"unknown", "completed", "failed"}
    BY <2>1 DEF Operation
  <2>3. QED
    BY <1>1, <1>2, <2>2 DEF Tells
<1>4. i = Len(operations[r]) /\ receipts[r] # None
  BY <1>1, <1>2, <1>3 DEF Tells
<1>5. QED
  BY <1>2, <1>3, <1>4 DEF Known, Quiescent, Unknown

\* What the invariant says of receipts.
LEMMA ReceiptsFromInvariant == RouterInv => ReceiptsTellTheTruth
<1> SUFFICES ASSUME RouterInv, NEW r \in Requests, Disposition(r) # "pending_or_unknown"
             PROVE  /\ Live(r) = {} /\ handlers[r] = None
                    /\ Disposition(r) = "original_success" => Last(sent[r]) = "success"
  BY DEF ReceiptsTellTheTruth
<1>1. Quiescent(r)
  BY DEF Disposition
<1>2. Live(r) = {} /\ handlers[r] = None
  BY <1>1, QuietIsIdle
<1>3. ASSUME Disposition(r) = "original_success" PROVE Last(sent[r]) = "success"
  <2>1. operations[r] # <<>> /\ Last(operations[r]).terminal = "completed"
    BY <1>3 DEF Disposition
  <2>2. operations[r] \in Seq(Operation) /\ sent[r] \in Seq({"live", "never", "success", "failure"})
    BY DEF RouterInv, RouterTypeOK
  <2>3. Len(operations[r]) \in DOMAIN operations[r] /\ operations[r][Len(operations[r])].terminal = "completed"
    BY <2>1, <2>2 DEF Last
  <2>4. sent[r][Len(operations[r])] = "success" /\ Len(sent[r]) = Len(operations[r])
    BY <2>3 DEF RouterInv, OperationsTell, Tells
  <2>5. QED
    BY <2>4 DEF Last
<1>4. QED
  BY <1>2, <1>3

\* Receipts tell the truth, a native profile has one operation with the provider at most,
\* and a scope pays for everything sent under it (authority.mjs, evaluation-scope.mjs).
THEOREM OperationsKeptInAccount == Spec => []OperationsAreAccounted
<1>1. RouterInv => OneOperationAtATime
  BY LiveIsUnknown DEF OneOperationAtATime, RouterInv, OthersQuiet
<1>2. RouterInv => ScopeIsSpentOnce
  BY DEF RouterInv, ScopesSpend, ScopeIsSpentOnce, SentUnder, Goes
<1>3. RouterInv => OperationsAreAccounted
  BY <1>1, <1>2, ReceiptsFromInvariant DEF OperationsAreAccounted
<1>4. QED
  BY <1>3, RouterInvariance, PTL

\* The policy of the router changes only between requests.
LEMMA PolicyAlone ==
    ASSUME RouterInv, [Next]_vars, actual' # actual, NEW r \in Requests
    PROVE  Live(r) = {} /\ handlers[r] = None
<1>1. Aside
  BY StepsAre, RequestsLeavePolicy, BootParts DEF RouterInv
<1>2. phase = "mutating"
  BY <1>1 DEF Aside, Fence, StartEvaluation, ConfigureNative, SelectNativeProfile, CloseScope, Replace,
         WriterWrites, LetsWrite, WriterEnds, AskQuiescent, PrepareNative, FetchAgain, tables, volatile, vars
<1>3. QED
  BY <1>2, QuietIsIdle DEF RouterInv, MutatesAlone, Known

\* Only a handler that is not fenced sends.
LEMMA SentByCurrent ==
    ASSUME RouterInv, [Next]_vars, NEW r \in Requests, Len(sent'[r]) > Len(sent[r])
    PROVE  handlers[r].policy = actual /\ recorded = Snapshot
<1>1. RouterTypeOK /\ sent[r] \in Seq({"live", "never", "success", "failure"})
  BY DEF RouterInv, RouterTypeOK
<1>2. sent'[r] # sent[r]
  BY <1>1
<1>3. ASSUME NEW q \in Requests, ProviderEnds(q) PROVE FALSE
  <2>1. q = r /\ sent[r] # <<>> /\ \E e \in {"success", "failure"} : sent'[r] = [sent[r] EXCEPT ![Len(sent[r])] = e]
    BY <1>2, <1>3, ProviderParts
  <2>2. PICK e \in {"success", "failure"} : sent'[r] = [sent[r] EXCEPT ![Len(sent[r])] = e]
    BY <2>1
  <2>3. Len(sent'[r]) = Len(sent[r])
    BY <1>1, <2>1, <2>2, LastReplaced
  <2>4. QED
    BY <1>1, <2>3
<1>4. ~Aside /\ ~Boot
  BY <1>1, <1>2, AsideLeaves, BootParts
<1>5. \E q \in Requests : Fetch(q)
  BY <1>2, <1>3, <1>4, StepsAre, AdmissionParts, TransportParts, ReceiptParts
<1>6. Fetch(r)
  BY <1>2, <1>5, FetchParts
<1>7. handlers[r] # None /\ ~Fenced(r)
  BY <1>6, FetchParts
<1>8. QED
  BY <1>7 DEF RouterInv, HandlersCurrent, Fenced

\* An operation runs from its admission to its end under one policy, the one on record.
THEOREM PolicyWasHeld == Spec => PolicyIsHeld
<1>1. RouterInv /\ [Next]_vars =>
          [actual' # actual => \A r \in Requests : Live(r) = {} /\ handlers[r] = None]_vars
  BY PolicyAlone
<1>2. RouterInv /\ [Next]_vars =>
          [\A r \in Requests : Len(sent'[r]) > Len(sent[r]) =>
               handlers[r].policy = actual /\ recorded = Snapshot]_vars
  BY SentByCurrent
<1>3. QED
  BY <1>1, <1>2, RouterInvariance, PTL
     DEF Spec, PolicyIsHeld, PolicyChangesAlone, SentUnderAdmittedPolicy

=============================================================================
