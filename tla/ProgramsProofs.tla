--------------------------- MODULE ProgramsProofs ---------------------------
(***************************************************************************)
(* What holds of seven of the programs around the store whatever their      *)
(* constants are: the page of the web client, the controlled transition of  *)
(* the native evaluation, the custody of a result between the runner and    *)
(* its owner, the allowance of a planner's revision, what the planner's     *)
(* transport sends, the verdict on a run of a coding harness, and the       *)
(* outcome of a planner's session over chat.  They share no variable; each  *)
(* has its inductive invariant and its theorem.                             *)
(***************************************************************************)
EXTENDS Planner, Custody, WebRead, EvaluationControl, Transport, HarnessWorker, ChatSession,
        FiniteSetTheorems, SequenceTheorems, TLAPS

-----------------------------------------------------------------------------
(* The page *)

ReadOfPage == [at : {"asked", "answered", "over"}, answer : Answers \cup {"none"}, since : Nat, held : Nat]

\* Only the latest read is under way, and then the page loads; what the daemon held when
\* it answered is no older than what it held when it was asked.
WebInv ==
    /\ store \in Nat /\ reads \in Seq(ReadOfPage)
    /\ \A r \in DOMAIN reads :
        /\ reads[r].at # "over" => r = Len(reads) /\ pageState.kind = "loading"
        /\ reads[r].since <= reads[r].held /\ reads[r].held <= store
    /\ pageState.kind \in {"ready", "empty"} =>
        reads # <<>> /\ reads[Len(reads)].at = "over" /\ pageState.snapshot = reads[Len(reads)].held

\* What Shows leaves: the read it ends is the latest.
LEMMA ShownIsLatest ==
    ASSUME WebInv, NEW r \in DOMAIN reads, NEW state, reads[r].at # "over", Shows(r, state),
           state.kind \in {"ready", "empty"} => state.snapshot = reads[r].held
    PROVE  WebInv'
<1>1. /\ r = Len(reads) /\ r \in 1 .. Len(reads) /\ Len(reads) \in Nat /\ DOMAIN reads = 1 .. Len(reads)
      /\ reads[r] \in ReadOfPage
  BY DEF WebInv
<1>2. pageState' = state /\ reads' = [reads EXCEPT ![r].at = "over"] /\ store' = store
  BY DEF Shows
<1>3. reads' \in Seq(ReadOfPage) /\ Len(reads') = Len(reads) /\ DOMAIN reads' = DOMAIN reads
  <2> DEFINE over == [reads[r] EXCEPT !.at = "over"]
  <2>1. over \in ReadOfPage /\ reads' = [reads EXCEPT ![r] = over]
    BY <1>1, <1>2 DEF ReadOfPage
  <2> HIDE DEF over
  <2>2. QED
    BY <1>1, <2>1 DEF WebInv
<1>4. \A q \in DOMAIN reads : /\ reads'[q].since = reads[q].since /\ reads'[q].held = reads[q].held
                              /\ q # r => reads'[q].at = reads[q].at
                              /\ q = r => reads'[q].at = "over"
  BY <1>1, <1>2 DEF WebInv, ReadOfPage
<1>5. QED
  BY <1>1, <1>2, <1>3, <1>4 DEF WebInv

\* Every step of the page, its reads and the daemon keeps it.
LEMMA WebKept == WebInv /\ [WebNext]_webVars => WebInv'
<1> SUFFICES ASSUME WebInv, [WebNext]_webVars PROVE WebInv'
  OBVIOUS
<1>1. CASE Refresh
  <2> DEFINE asked == [at |-> "asked", answer |-> "none", since |-> store, held |-> store]
  <2>1. /\ reads' = Append(reads, asked) /\ pageState'.kind = "loading" /\ store' = store
        /\ reads = <<>> \/ pageState.kind # "loading"
    BY <1>1 DEF Refresh, CanRefresh, State
  <2>2. asked \in ReadOfPage /\ asked.since = store /\ asked.held = store
    BY DEF WebInv, ReadOfPage
  <2> HIDE DEF asked
  <2>3. /\ reads' \in Seq(ReadOfPage) /\ Len(reads') = Len(reads) + 1 /\ reads'[Len(reads')] = asked
        /\ \A r \in DOMAIN reads' : r # Len(reads') => r \in DOMAIN reads /\ reads'[r] = reads[r]
    BY <2>1, <2>2 DEF WebInv
  <2>4. \A r \in DOMAIN reads : reads[r].at = "over"
    BY <2>1 DEF WebInv
  <2>5. QED
    BY <2>1, <2>2, <2>3, <2>4 DEF WebInv
<1>2. CASE StoreChanges
  <2>1. store' = store + 1 /\ pageState' = pageState /\ reads' = reads
    BY <1>2 DEF StoreChanges
  <2>2. \A r \in DOMAIN reads : reads[r].held \in Nat
    <3>1. \A r \in DOMAIN reads : reads[r] \in ReadOfPage
      BY DEF WebInv
    <3>2. QED
      BY <3>1 DEF ReadOfPage
  <2>3. QED
    BY <2>1, <2>2 DEF WebInv
<1>3. ASSUME NEW r \in DOMAIN reads, NEW answer \in Answers, DaemonAnswers(r, answer)
      PROVE  WebInv'
  <2>1. /\ reads[r].at = "asked" /\ pageState' = pageState /\ store' = store
        /\ reads' = [reads EXCEPT ![r].at = "answered", ![r].answer = answer, ![r].held = store]
    BY <1>3 DEF DaemonAnswers
  <2>2. r \in 1 .. Len(reads) /\ Len(reads) \in Nat /\ reads[r] \in ReadOfPage
    BY DEF WebInv
  <2>3. reads' \in Seq(ReadOfPage) /\ Len(reads') = Len(reads) /\ DOMAIN reads' = DOMAIN reads
    BY <2>1, <2>2 DEF WebInv, ReadOfPage
  <2>4. /\ \A q \in DOMAIN reads : q # r => reads'[q] = reads[q]
        /\ reads'[r].since = reads[r].since /\ reads'[r].held = store /\ reads'[r].at = "answered"
    BY <2>1, <2>2 DEF WebInv, ReadOfPage
  <2>5. reads[r].since <= store /\ r = Len(reads) /\ pageState.kind = "loading"
    BY <2>1, <2>2 DEF WebInv, ReadOfPage
  <2>6. QED
    BY <2>1, <2>2, <2>3, <2>4, <2>5 DEF WebInv
<1>4. ASSUME NEW r \in DOMAIN reads, ReadEnds(r) \/ ReadTimesOut(r) \/ ReadFails(r)
      PROVE  WebInv'
  <2>1. PICK state : reads[r].at # "over" /\ Shows(r, state)
                     /\ (state.kind \in {"ready", "empty"} => state.snapshot = reads[r].held)
    <3>1. CASE ReadEnds(r)
      <4>1. Read(r).kind \in {"ready", "empty"} => Read(r).snapshot = reads[r].held
        BY DEF Read, State
      <4>2. QED
        BY <3>1, <4>1 DEF ReadEnds
    <3>2. CASE ReadTimesOut(r)
      BY <3>2 DEF ReadTimesOut, State
    <3>3. CASE ReadFails(r)
      BY <3>3 DEF ReadFails, State
    <3>4. QED
      BY <1>4, <3>1, <3>2, <3>3
  <2>2. QED
    BY <2>1, ShownIsLatest
<1>5. CASE UNCHANGED webVars
  BY <1>5 DEF webVars, WebInv
<1>6. QED
  BY <1>1, <1>2, <1>3, <1>4, <1>5 DEF WebNext

\* The page shows what its latest read found, whatever answers and timers overtake
\* (App.tsx, read.ts).
THEOREM TheLatestReadIsShown == WebInit /\ [][WebNext]_webVars => []PageShowsLatestRead
<1>1. WebInit => WebInv
  BY DEF WebInit, WebInv, State
<1>2. WebInv => PageShowsLatestRead
  BY DEF WebInv, PageShowsLatestRead, ReadOfPage
<1>3. QED
  BY <1>1, <1>2, WebKept, PTL

-----------------------------------------------------------------------------
(* The continuity transition *)

\* A transition that is under way keeps admission shut; once the connection may have been
\* marked, an intent is on disk, and what it leads to is fenced until it has completed.
ControlInv ==
    /\ admitted \in [Attempts -> {"none", "admitting", "reserved", "succeeded", "failed"}]
    /\ marks \in {0, 1} /\ busy \in BOOLEAN /\ failed \in BOOLEAN /\ completed \in BOOLEAN
    /\ intent \in BOOLEAN /\ resultRecord \in BOOLEAN
    /\ transitionAt \in {"idle", "health", "marking", "marked"}
    /\ transitionAt # "idle" => /\ gateway # "down" /\ busy /\ ~completed /\ ~failed
                                /\ RequestsIn("admitting") = {}
    /\ transitionAt = "health" => ~intent
    /\ transitionAt = "marking" => intent /\ marks = 0
    /\ transitionAt = "marked" => intent /\ marks = 1
    /\ marks = 1 => intent
    /\ completed => marks = 1 /\ resultRecord
    /\ intent /\ ~completed /\ gateway # "down" =>
        RequestsIn("admitting") = {} /\ (failed \/ transitionAt # "idle")

\* Commands, requests and the process keep it.
LEMMA ControlKept == ControlInv /\ [ControlNext]_controlVars => ControlInv'
<1> SUFFICES ASSUME ControlInv, [ControlNext]_controlVars PROVE ControlInv'
  OBVIOUS
<1>1. CASE BootGateway
  <2>1. /\ RequestsIn("admitting")' = {}
        /\ admitted' \in [Attempts -> {"none", "admitting", "reserved", "succeeded", "failed"}]
    <3>1. PICK known \in [RequestsIn("admitting") \cup RequestsIn("reserved")
                            -> {"none", "reserved", "succeeded", "failed"}] :
              admitted' = [a \in Attempts |-> IF a \in DOMAIN known THEN known[a] ELSE admitted[a]]
      BY <1>1 DEF BootGateway
    <3>2. \A a \in Attempts : /\ admitted'[a] # "admitting"
                              /\ admitted'[a] \in {"none", "admitting", "reserved", "succeeded", "failed"}
      BY <3>1 DEF RequestsIn, ControlInv
    <3>3. QED
      BY <3>1, <3>2 DEF RequestsIn
  <2>2. /\ transitionAt' = "idle" /\ busy' = FALSE /\ failed' = intent /\ completed' = FALSE
        /\ intent' = intent /\ resultRecord' = resultRecord /\ marks' = marks
    BY <1>1 DEF BootGateway, Recovered
  <2>3. QED
    BY <2>1, <2>2 DEF ControlInv
<1>2. CASE ControlDies \/ StopEnds
  BY <1>2 DEF ControlInv, ControlDies, StopEnds, GoneDown, RequestsIn
<1>3. CASE StopGateway \/ RemoveOwner \/ StartEvaluation \/ Selected \/ SelectFails \/ Deadline
  BY <1>3 DEF ControlInv, StopGateway, RemoveOwner, StartEvaluation, Selected, SelectFails, Deadline,
              RequestsIn
<1>4. ASSUME NEW profile, Select(profile) PROVE ControlInv'
  BY <1>4 DEF ControlInv, Select, RequestsIn
<1>5. ASSUME NEW a \in Attempts, Admit(a) PROVE ControlInv'
  <2>1. ~busy /\ ~failed
    BY <1>5 DEF Admit, AdmissionAllowed
  <2>2. transitionAt = "idle" /\ (intent => completed \/ gateway = "down")
    BY <2>1 DEF ControlInv
  <2>3. QED
    BY <1>5, <2>1, <2>2 DEF ControlInv, Admit
<1>6. ASSUME NEW a \in Attempts, NEW state, Admitted(a, state) \/ Decided(a, state)
      PROVE  ControlInv'
  <2>1. /\ state \in {"none", "reserved", "succeeded", "failed"}
        /\ admitted' = [admitted EXCEPT ![a] = state]
    BY <1>6 DEF Admitted, Decided
  <2>2. /\ RequestsIn("admitting") = {} => RequestsIn("admitting")' = {}
        /\ admitted' \in [Attempts -> {"none", "admitting", "reserved", "succeeded", "failed"}]
    BY <2>1 DEF RequestsIn, ControlInv
  <2>3. QED
    BY <1>6, <2>2 DEF ControlInv, Admitted, Decided
<1>7. CASE Transition
  <2>1. RequestsIn("admitting") = {} /\ RequestsIn("admitting")' = {} /\ ~busy /\ ~failed /\ ~completed
        /\ gateway # "down"
    BY <1>7 DEF Transition, Current, RequestsIn, AdmissionAllowed, Listening
  <2>2. ~intent
    BY <2>1 DEF ControlInv
  <2>3. QED
    BY <1>7, <2>1, <2>2 DEF ControlInv, Transition
<1>8. CASE Intend
  BY <1>8 DEF ControlInv, Intend, Current, RequestsIn
<1>9. CASE MarkUnavailable
  BY <1>9 DEF ControlInv, MarkUnavailable, RequestsIn
<1>10. CASE ConcludeTransition
  BY <1>10 DEF ControlInv, ConcludeTransition, Current, RequestsIn
<1>11. CASE FailTransition
  <2>1. /\ gateway # "down" /\ transitionAt # "idle" /\ busy' = FALSE /\ transitionAt' = "idle"
        /\ completed' = completed /\ admitted' = admitted
        /\ \/ marks' = marks
           \/ transitionAt = "marking" /\ marks' = marks + 1
        /\ \/ resultRecord' = resultRecord
           \/ resultRecord' = TRUE
    BY <1>11 DEF FailTransition
  <2>2. PICK started \in BOOLEAN : /\ transitionAt # "health" => started
                                 /\ failed' = (failed \/ started)
                                 /\ \/ intent' = intent
                                    \/ started /\ intent' = TRUE
    BY <1>11 DEF FailTransition
  <2>3. RequestsIn("admitting")' = RequestsIn("admitting")
    BY <2>1 DEF RequestsIn
  <2>4. RequestsIn("admitting") = {} /\ ~completed /\ ~failed
    BY <2>1 DEF ControlInv
  <2>5. started \/ (failed' = failed /\ intent' = intent /\ ~intent)
    BY <2>1, <2>2 DEF ControlInv
  <2>6. started => failed'
    BY <2>2
  <2>7. /\ marks' \in {0, 1} /\ (marks' = 1 => intent')
        /\ failed' \in BOOLEAN /\ intent' \in BOOLEAN /\ resultRecord' \in BOOLEAN
    <3>1. marks' \in {0, 1}
      BY <2>1 DEF ControlInv
    <3>2. resultRecord' \in BOOLEAN
      BY <2>1 DEF ControlInv
    <3>3. intent' \in BOOLEAN /\ (intent => intent')
      <4>1. intent \in BOOLEAN
        BY DEF ControlInv
      <4>2. intent' = intent \/ intent' = TRUE
        BY <2>2
      <4>3. QED
        BY <4>1, <4>2
    <3>4. failed' \in BOOLEAN
      BY <2>2
    <3>5. marks' = 1 => intent'
      BY <2>1, <3>3 DEF ControlInv
    <3>6. QED
      BY <3>1, <3>2, <3>3, <3>4, <3>5
  <2>8. QED
    BY <2>1, <2>3, <2>4, <2>5, <2>6, <2>7 DEF ControlInv
<1>12. CASE UNCHANGED controlVars
  BY <1>12 DEF controlVars, ControlInv, RequestsIn
<1>13. QED
  BY <1>1, <1>2, <1>3, <1>4, <1>5, <1>6, <1>7, <1>8, <1>9, <1>10, <1>11, <1>12 DEF ControlNext

\* The connection is taken away once, after its intent, and nothing is admitted until
\* the transition is known to be complete (control.mjs, gateway.mjs).
THEOREM TheTransitionIsKnown == ControlInit /\ [][ControlNext]_controlVars => []TransitionIsKnown
<1>1. ControlInit => ControlInv
  <2> SUFFICES ASSUME ControlInit PROVE ControlInv
    OBVIOUS
  <2>1. admitted \in [Attempts -> {"none", "admitting", "reserved", "succeeded", "failed"}]
    BY DEF ControlInit
  <2>2. /\ busy \in BOOLEAN /\ failed \in BOOLEAN /\ completed \in BOOLEAN
        /\ intent \in BOOLEAN /\ resultRecord \in BOOLEAN
    BY DEF ControlInit
  <2>3. ~completed /\ ~intent /\ marks = 0 /\ transitionAt = "idle"
    BY DEF ControlInit
  <2>4. QED
    BY <2>1, <2>2, <2>3 DEF ControlInv
<1>2. ControlInv => TransitionIsKnown
  BY DEF ControlInv, TransitionIsKnown
<1>3. QED
  BY <1>1, <1>2, ControlKept, PTL

-----------------------------------------------------------------------------
(* Custody *)


\* What the runner has begun: each of an identity it had reached, no assignment twice.
BegunInv ==
    /\ runnerAt \in DOMAIN Identities
    /\ begun \in Seq(WireMessages)
    /\ runnerKept = {begun[i] : i \in DOMAIN begun}
    /\ \A i \in DOMAIN begun : /\ begun[i].kind = "assign"
                               /\ \E k \in 1 .. runnerAt : begun[i].identity = Identities[k]
    /\ \A i, j \in DOMAIN begun : i < j =>
        /\ begun[i].body.assignment # begun[j].body.assignment
        /\ \E k, n \in 1 .. runnerAt :
            k <= n /\ begun[i].identity = Identities[k] /\ begun[j].identity = Identities[n]

\* Where transitions of one identity lead.
Path(path, identity) ==
    \A k \in DOMAIN path :
        /\ path[k].identity = identity /\ path[k].body.expected = k
        /\ path[k].body.from = IF k = 1 THEN "assigned" ELSE path[k - 1].body.to
        /\ path[k].body.to \in Edges[path[k].body.from]

\* The attempt is where the transitions of its identity lead, and there are none of later ones.
AppliedInv ==
    /\ ownerAt \in DOMAIN Identities
    /\ applied \in [DOMAIN Identities -> Seq(WireMessages)]
    /\ attemptRevision = Len(applied[ownerAt]) + 1
    /\ attemptState = IF applied[ownerAt] = <<>> THEN "assigned"
                      ELSE applied[ownerAt][Len(applied[ownerAt])].body.to
    /\ \A n \in DOMAIN Identities : /\ Path(applied[n], Identities[n])
                                    /\ n > ownerAt => applied[n] = <<>>

\* The receipt under which a result is kept.
KeptBy(n, result) ==
    /\ receipts[n] # NoReceipt /\ Identities[n] = result.identity
    /\ receipts[n].manifest = result.body.manifest
    /\ receipts[n].artifacts = "verified_durable"
    /\ receipts[n].metadata = "manifest_and_result_committed"

\* A receipt is of the identity it is kept under, and only gets better.
ReceiptsInv ==
    /\ receipts \in [DOMAIN Identities -> CustodyReceipt \cup {NoReceipt}]
    /\ \A n \in DOMAIN Identities : receipts[n] # NoReceipt => receipts[n].identity = Identities[n]
    /\ \A result \in released : \E n \in DOMAIN Identities : KeptBy(n, result)

CustodyInv == BegunInv /\ AppliedInv /\ ReceiptsInv

\* A checked message is of the party's own identity.
LEMMA CheckedIsCurrent ==
    ASSUME NEW m, NEW c, CheckCurrent(m, c) = "ok"
    PROVE  m.identity = c
  BY DEF CheckCurrent

\* A message that is new to a party is of its session and repeats no assignment it keeps.
LEMMA NewIsNew ==
    ASSUME NEW m, NEW kept, NEW c, New(m, kept, c)
    PROVE  /\ CheckCurrent(m, c) = "ok"
           /\ \A previous \in kept : m.kind = "assign" /\ previous.kind = "assign" =>
                  m.body.assignment # previous.body.assignment
<1>1. CheckCurrent(m, c) = "ok"
  BY DEF New, CheckSession
<1>2. ASSUME NEW previous \in kept, m.kind = "assign", previous.kind = "assign",
             m.body.assignment = previous.body.assignment
      PROVE  FALSE
  <2>1. CheckReplay(m, previous, c) = "ok"
    BY DEF New
  <2>2. \A a, b : Same(a, b) # "ok"
    BY DEF Same
  <2>3. QED
    BY <1>1, <1>2, <2>1, <2>2 DEF CheckReplay
<1>3. QED
  BY <1>1, <1>2

\* What a sequence is after one more.
LEMMA OneMore ==
    ASSUME NEW S, NEW s \in Seq(S), NEW e \in S
    PROVE  /\ Append(s, e) \in Seq(S) /\ Len(Append(s, e)) = Len(s) + 1 /\ Append(s, e) # <<>>
           /\ Len(s) \in Nat /\ DOMAIN s = 1 .. Len(s)
           /\ DOMAIN Append(s, e) = 1 .. Len(s) + 1
           /\ Append(s, e)[Len(s) + 1] = e
           /\ \A i \in DOMAIN s : Append(s, e)[i] = s[i]
  OBVIOUS

\* The runner begins no assignment twice.
LEMMA BegunKept == CustodyInv /\ [CustodyNext]_custodyVars => BegunInv'
<1> SUFFICES ASSUME CustodyInv, [CustodyNext]_custodyVars PROVE BegunInv'
  OBVIOUS
<1>1. ASSUME NEW m \in WireMessages, TakeAssignment(m) PROVE BegunInv'
  <2>1. /\ m.kind = "assign" /\ m.identity = Identities[runnerAt]
        /\ \A previous \in runnerKept : previous.kind = "assign" =>
               m.body.assignment # previous.body.assignment
    BY <1>1, NewIsNew, CheckedIsCurrent DEF TakeAssignment
  <2>2. runnerKept' = runnerKept \cup {m} /\ begun' = Append(begun, m) /\ runnerAt' = runnerAt
    BY <1>1 DEF TakeAssignment
  <2>3. begun \in Seq(WireMessages) /\ runnerAt \in DOMAIN Identities /\ runnerAt \in 1 .. runnerAt
    BY CustodyAssumption DEF CustodyInv, BegunInv
  <2>4. /\ begun' \in Seq(WireMessages) /\ DOMAIN begun = 1 .. Len(begun) /\ Len(begun) \in Nat
        /\ DOMAIN begun' = 1 .. Len(begun) + 1 /\ begun'[Len(begun) + 1] = m
        /\ \A i \in DOMAIN begun : begun'[i] = begun[i]
    BY <2>2, <2>3, OneMore
  <2>5. runnerKept' = {begun'[i] : i \in DOMAIN begun'}
    <3>1. runnerKept = {begun[i] : i \in DOMAIN begun}
      BY DEF CustodyInv, BegunInv
    <3>2. QED
      BY <2>2, <2>4, <3>1
  <2>6. \A i \in DOMAIN begun' : begun'[i].kind = "assign" /\ \E k \in 1 .. runnerAt : begun'[i].identity = Identities[k]
    BY <2>1, <2>3, <2>4 DEF CustodyInv, BegunInv
  <2>7. ASSUME NEW i \in DOMAIN begun', NEW j \in DOMAIN begun', i < j
        PROVE  /\ begun'[i].body.assignment # begun'[j].body.assignment
               /\ \E k, n \in 1 .. runnerAt :
                    k <= n /\ begun'[i].identity = Identities[k] /\ begun'[j].identity = Identities[n]
    <3>1. CASE j \in DOMAIN begun
      <4>1. i \in DOMAIN begun
        BY <2>4, <2>7, <3>1
      <4>2. QED
        BY <2>4, <2>7, <3>1, <4>1 DEF CustodyInv, BegunInv
    <3>2. CASE j \notin DOMAIN begun
      <4>1. i \in DOMAIN begun /\ begun'[j] = m /\ begun'[i] = begun[i]
        BY <2>4, <2>7, <3>2
      <4>2. begun[i] \in runnerKept /\ begun[i].kind = "assign"
        BY <4>1 DEF CustodyInv, BegunInv
      <4>3. PICK k \in 1 .. runnerAt : begun[i].identity = Identities[k]
        BY <4>1 DEF CustodyInv, BegunInv
      <4>4. k <= runnerAt
        BY <2>3, <4>3, CustodyAssumption
      <4>5. QED
        BY <2>1, <2>3, <4>1, <4>2, <4>3, <4>4
    <3>3. QED
      BY <3>1, <3>2
  <2>8. \A i \in DOMAIN begun' : /\ begun'[i].kind = "assign"
                               /\ \E k \in 1 .. runnerAt' : begun'[i].identity = Identities[k]
    BY <2>2, <2>6
  <2>9. \A i, j \in DOMAIN begun' : i < j =>
        /\ begun'[i].body.assignment # begun'[j].body.assignment
        /\ \E k, n \in 1 .. runnerAt' :
            k <= n /\ begun'[i].identity = Identities[k] /\ begun'[j].identity = Identities[n]
    BY <2>2, <2>7
  <2>10. begun' \in Seq(WireMessages) /\ runnerAt' \in DOMAIN Identities
    BY <2>2, <2>3, <2>4
  <2>11. QED
    BY <2>5, <2>8, <2>9, <2>10 DEF BegunInv
<1>2. CASE RunnerMoves
  <2>1. /\ runnerAt' = runnerAt + 1 /\ runnerAt < Len(Identities) /\ begun' = begun /\ runnerKept' = runnerKept
        /\ runnerAt \in 1 .. Len(Identities) /\ Len(Identities) \in Nat
    BY <1>2, CustodyAssumption DEF RunnerMoves, CustodyInv, BegunInv
  <2>2. runnerAt' \in DOMAIN Identities /\ \A k \in 1 .. runnerAt : k \in 1 .. runnerAt'
    BY <2>1, CustodyAssumption
  <2>3. QED
    BY <2>1, <2>2 DEF CustodyInv, BegunInv
<1>3. CASE UNCHANGED runnerVars
  BY <1>3 DEF runnerVars, CustodyInv, BegunInv
<1>4. QED
  BY <1>1, <1>2, <1>3 DEF CustodyNext, TakeTransition, TakeResult, ReleaseResult, Hold, OwnerMoves, custodyVars

\* The transitions of an attempt are a path.
LEMMA AppliedKept == CustodyInv /\ [CustodyNext]_custodyVars => AppliedInv'
<1> SUFFICES ASSUME CustodyInv, [CustodyNext]_custodyVars PROVE AppliedInv'
  OBVIOUS
<1>1. ASSUME NEW m \in WireMessages, TakeTransition(m) PROVE AppliedInv'
  <2>1. /\ m.identity = Identities[ownerAt] /\ m.body.expected = attemptRevision
        /\ m.body.from = attemptState /\ m.body.to \in Edges[attemptState]
    <3>1. CheckTransition(m, OwnerIdentity) = "ok"
      BY <1>1 DEF TakeTransition
    <3>2. CheckCurrent(m, OwnerIdentity) = "ok"
      BY <3>1 DEF CheckTransition
    <3>3. m.body.expected = attemptRevision /\ m.body.from = attemptState /\ m.body.to \in Edges[attemptState]
      BY <3>1, <3>2 DEF CheckTransition
    <3>4. QED
      BY <3>2, <3>3, CheckedIsCurrent DEF OwnerIdentity
  <2>2. /\ ownerAt' = ownerAt /\ attemptState' = m.body.to /\ attemptRevision' = attemptRevision + 1
        /\ applied' = [applied EXCEPT ![ownerAt] = Append(@, m)]
    BY <1>1 DEF TakeTransition
  <2>3. /\ ownerAt \in DOMAIN Identities /\ applied \in [DOMAIN Identities -> Seq(WireMessages)]
        /\ attemptRevision = Len(applied[ownerAt]) + 1
        /\ attemptState = IF applied[ownerAt] = <<>> THEN "assigned"
                          ELSE applied[ownerAt][Len(applied[ownerAt])].body.to
        /\ Path(applied[ownerAt], Identities[ownerAt])
    BY DEF CustodyInv, AppliedInv
  <2> DEFINE path == applied[ownerAt]
             next == Append(path, m)
  <2>4. path \in Seq(WireMessages)
    BY <2>3
  <2>5. /\ next \in Seq(WireMessages) /\ Len(next) = Len(path) + 1 /\ next # <<>>
        /\ Len(path) \in Nat /\ DOMAIN path = 1 .. Len(path) /\ DOMAIN next = 1 .. Len(path) + 1
        /\ next[Len(path) + 1] = m /\ \A i \in DOMAIN path : next[i] = path[i]
    BY <2>4, OneMore
  <2>6. (path = <<>>) <=> (Len(path) = 0)
    BY <2>4
  <2>7. applied'[ownerAt] = next /\ \A n \in DOMAIN Identities \ {ownerAt} : applied'[n] = applied[n]
    BY <2>2, <2>3
  <2>8. applied' \in [DOMAIN Identities -> Seq(WireMessages)]
    BY <2>2, <2>3, <2>5
  <2>9. Path(path, Identities[ownerAt]) /\ attemptRevision = Len(path) + 1
        /\ attemptState = IF path = <<>> THEN "assigned" ELSE path[Len(path)].body.to
    BY <2>3
  <2> HIDE DEF path, next
  <2>10. Path(next, Identities[ownerAt])
    <3>1. ASSUME NEW k \in DOMAIN next
          PROVE  /\ next[k].identity = Identities[ownerAt] /\ next[k].body.expected = k
                 /\ next[k].body.from = IF k = 1 THEN "assigned" ELSE next[k - 1].body.to
                 /\ next[k].body.to \in Edges[next[k].body.from]
      <4>1. CASE k \in DOMAIN path
        <5>1. next[k] = path[k] /\ (k # 1 => next[k - 1] = path[k - 1])
          BY <2>5, <4>1
        <5>2. QED
          BY <2>9, <4>1, <5>1 DEF Path
      <4>2. CASE k = Len(path) + 1
        <5>1. next[k] = m /\ (k # 1 => path # <<>> /\ next[k - 1] = path[Len(path)])
          BY <2>5, <2>6, <4>2
        <5>2. attemptState = IF k = 1 THEN "assigned" ELSE next[k - 1].body.to
          BY <2>5, <2>6, <2>9, <4>2, <5>1
        <5>3. QED
          BY <2>1, <2>9, <4>2, <5>1, <5>2
      <4>3. QED
        BY <2>5, <4>1, <4>2
    <3>2. QED
      BY <3>1 DEF Path
  <2>11. \A n \in DOMAIN Identities : /\ Path(applied'[n], Identities[n])
                                      /\ n > ownerAt => applied'[n] = <<>>
    BY <2>7, <2>10, CustodyAssumption, <2>3 DEF CustodyInv, AppliedInv
  <2>12. /\ attemptRevision' = Len(applied'[ownerAt]) + 1
         /\ attemptState' = IF applied'[ownerAt] = <<>> THEN "assigned"
                            ELSE applied'[ownerAt][Len(applied'[ownerAt])].body.to
    BY <2>2, <2>5, <2>7, <2>9
  <2>13. QED
    BY <2>2, <2>3, <2>8, <2>11, <2>12 DEF AppliedInv
<1>2. CASE OwnerMoves
  <2>1. /\ ownerAt' = ownerAt + 1 /\ attemptState' = "assigned" /\ attemptRevision' = 1 /\ applied' = applied
        /\ ownerAt < Len(Identities) /\ ownerAt \in 1 .. Len(Identities) /\ Len(Identities) \in Nat
    BY <1>2, CustodyAssumption DEF OwnerMoves, CustodyInv, AppliedInv
  <2>2. ownerAt' \in DOMAIN Identities /\ applied[ownerAt'] = <<>>
    <3>1. ownerAt' \in DOMAIN Identities /\ ownerAt' > ownerAt
      BY <2>1, CustodyAssumption
    <3>2. QED
      BY <3>1 DEF CustodyInv, AppliedInv
  <2>3. \A n \in DOMAIN Identities : n > ownerAt' => n > ownerAt
    BY <2>1, CustodyAssumption
  <2>4. QED
    BY <2>1, <2>2, <2>3 DEF CustodyInv, AppliedInv
<1>3. CASE UNCHANGED <<ownerAt, attemptState, attemptRevision, applied>>
  BY <1>3 DEF CustodyInv, AppliedInv
<1>4. QED
  BY <1>1, <1>2, <1>3 DEF CustodyNext, TakeAssignment, RunnerMoves, TakeResult, ReleaseResult, Hold,
                          ownerVars, custodyVars

\* A receipt that keeps a result goes on keeping it.
LEMMA ReceiptsKept == CustodyInv /\ [CustodyNext]_custodyVars => ReceiptsInv'
<1> SUFFICES ASSUME CustodyInv, [CustodyNext]_custodyVars PROVE ReceiptsInv'
  OBVIOUS
<1>1. ASSUME NEW m \in WireMessages, TakeResult(m) PROVE ReceiptsInv'
  <2> DEFINE new == [identity |-> m.identity, manifest |-> m.body.manifest, id |-> "r",
                     artifacts |-> "unknown", metadata |-> "event_only"]
  <2>1. /\ m.kind = "result" /\ m.identity = Identities[ownerAt] /\ receipts[ownerAt] = NoReceipt
        /\ receipts' = [receipts EXCEPT ![ownerAt] = new] /\ released' = released
    BY <1>1, NewIsNew, CheckedIsCurrent DEF TakeResult, OwnerIdentity
  <2>2. new \in CustodyReceipt /\ new.identity = Identities[ownerAt]
    BY <2>1 DEF CustodyReceipt
  <2> HIDE DEF new
  <2>3. /\ receipts' \in [DOMAIN Identities -> CustodyReceipt \cup {NoReceipt}]
        /\ \A n \in DOMAIN Identities : receipts[n] # NoReceipt => receipts'[n] = receipts[n]
        /\ \A n \in DOMAIN Identities : receipts'[n] # receipts[n] => n = ownerAt /\ receipts'[n] = new
    BY <2>1, <2>2 DEF CustodyInv, ReceiptsInv
  <2>4. \A result \in released : \E n \in DOMAIN Identities : KeptBy(n, result)'
    BY <2>1, <2>3 DEF CustodyInv, ReceiptsInv, KeptBy
  <2>5. \A n \in DOMAIN Identities : receipts'[n] # NoReceipt => receipts'[n].identity = Identities[n]
    BY <2>2, <2>3 DEF CustodyInv, ReceiptsInv
  <2>6. QED
    BY <2>1, <2>3, <2>4, <2>5 DEF ReceiptsInv
<1>2. ASSUME NEW n \in DOMAIN Identities,
             \/ Hold(n, "artifacts", "verified_durable")
             \/ Hold(n, "metadata", "manifest_and_result_committed")
      PROVE  ReceiptsInv'
  <2>1. receipts[n] \in CustodyReceipt /\ receipts \in [DOMAIN Identities -> CustodyReceipt \cup {NoReceipt}]
    BY <1>2 DEF CustodyInv, ReceiptsInv, Hold
  <2>2. /\ released' = released
        /\ \/ receipts' = [receipts EXCEPT ![n].artifacts = "verified_durable"]
           \/ receipts' = [receipts EXCEPT ![n].metadata = "manifest_and_result_committed"]
    BY <1>2 DEF Hold
  <2>3. /\ receipts'[n] \in CustodyReceipt
        /\ receipts'[n].identity = receipts[n].identity /\ receipts'[n].manifest = receipts[n].manifest
        /\ receipts[n].artifacts = "verified_durable" => receipts'[n].artifacts = "verified_durable"
        /\ receipts[n].metadata = "manifest_and_result_committed" =>
               receipts'[n].metadata = "manifest_and_result_committed"
    BY <2>1, <2>2 DEF CustodyReceipt
  <2>4. /\ \A k \in DOMAIN Identities : k # n => receipts'[k] = receipts[k]
        /\ receipts' \in [DOMAIN Identities -> CustodyReceipt \cup {NoReceipt}]
    BY <2>1, <2>2 DEF CustodyReceipt
  <2>5. receipts'[n] # NoReceipt /\ receipts[n] # NoReceipt
    BY <2>1, <2>3, CustodyAssumption
  <2>6. \A result, k : k \in DOMAIN Identities /\ KeptBy(k, result) => KeptBy(k, result)'
    BY <2>3, <2>4, <2>5 DEF KeptBy
  <2>7. QED
    BY <2>2, <2>3, <2>4, <2>5, <2>6 DEF CustodyInv, ReceiptsInv
<1>3. ASSUME NEW m \in WireMessages, NEW ack \in WireMessages, ReleaseResult(m, ack) PROVE ReceiptsInv'
  <2>1. PICK n \in DOMAIN receipts :
            receipts[n] # NoReceipt /\ CheckAck(m, ack, Identities[runnerAt], receipts[n]) = "ok"
    BY <1>3 DEF ReleaseResult
  <2>2. /\ m.identity = Identities[runnerAt] /\ receipts[n].identity = Identities[runnerAt]
        /\ receipts[n].manifest = m.body.manifest /\ receipts[n].artifacts = "verified_durable"
        /\ receipts[n].metadata = "manifest_and_result_committed"
    <3>1. CheckCurrent(m, Identities[runnerAt]) = "ok"
      BY <2>1 DEF CheckAck
    <3>2. QED
      BY <2>1, <3>1, CheckedIsCurrent DEF CheckAck
  <2>3. n \in DOMAIN Identities /\ receipts[n].identity = Identities[n]
    BY <2>1 DEF CustodyInv, ReceiptsInv
  <2>4. KeptBy(n, m)
    BY <2>1, <2>2, <2>3 DEF KeptBy
  <2>5. released' = released \cup {m} /\ receipts' = receipts
    BY <1>3 DEF ReleaseResult
  <2>6. QED
    BY <2>3, <2>4, <2>5 DEF CustodyInv, ReceiptsInv, KeptBy
<1>4. CASE UNCHANGED <<receipts, released>>
  BY <1>4 DEF CustodyInv, ReceiptsInv, KeptBy
<1>5. QED
  BY <1>1, <1>2, <1>3, <1>4 DEF CustodyNext, TakeAssignment, RunnerMoves, TakeTransition, OwnerMoves, custodyVars

\* Whatever is repeated, reordered or overtaken, an assignment is begun once, transitions
\* are a path, and a released result is held (protocol.ts).
THEOREM CustodyIsKept == CustodyInit /\ [][CustodyNext]_custodyVars => []CustodyIsExact
<1>1. CustodyInit => CustodyInv
  BY CustodyAssumption DEF CustodyInit, CustodyInv, BegunInv, AppliedInv, ReceiptsInv, Path
<1>2. CustodyInv /\ [CustodyNext]_custodyVars => CustodyInv'
  BY BegunKept, AppliedKept, ReceiptsKept DEF CustodyInv
<1>3. CustodyInv => CustodyIsExact
  <2> SUFFICES ASSUME CustodyInv PROVE CustodyIsExact
    OBVIOUS
  <2>1. ASSUME NEW i \in DOMAIN begun, NEW j \in DOMAIN begun, i < j
        PROVE  /\ <<begun[i].identity, begun[i].body.assignment>> # <<begun[j].identity, begun[j].body.assignment>>
               /\ \E k, n \in DOMAIN Identities :
                   k <= n /\ begun[i].identity = Identities[k] /\ begun[j].identity = Identities[n]
    <3>1. \A k \in 1 .. runnerAt : k \in DOMAIN Identities
      BY CustodyAssumption DEF CustodyInv, BegunInv
    <3>2. QED
      BY <2>1, <3>1 DEF CustodyInv, BegunInv
  <2>2. \A n \in DOMAIN applied : \A k \in DOMAIN applied[n] :
        /\ applied[n][k].identity = Identities[n] /\ applied[n][k].body.expected = k
        /\ applied[n][k].body.from = IF k = 1 THEN "assigned" ELSE applied[n][k - 1].body.to
        /\ applied[n][k].body.to \in Edges[applied[n][k].body.from]
    BY DEF CustodyInv, AppliedInv, Path
  <2>3. QED
    BY <2>1, <2>2 DEF CustodyInv, ReceiptsInv, KeptBy, CustodyIsExact
<1>4. QED
  BY <1>1, <1>2, <1>3, PTL

-----------------------------------------------------------------------------
(* The planner's allowance *)

Discovered == [output |-> "call", answer |-> "result"]
Repaired(text) == [output |-> text, answer |-> "repair"]

\* What one session may have behind it when it asks, with what that cost.
Spent(files, repairs) == usage.files = files /\ usage.repairs = repairs
SessionRounds ==
    \/ rounds = <<>> /\ Spent(0, 0)
    \/ rounds = <<Discovered>> /\ Spent(1, 0) /\ CanRead
    \/ \E text \in Texts : /\ budget.repairs = 1
                           /\ \/ rounds = <<Repaired(text)>> /\ Spent(0, 1) /\ ~PlannerPlanValid(text, FALSE)
                              \/ rounds = <<Discovered, Repaired(text)>> /\ Spent(1, 1) /\ CanRead
                                 /\ ~PlannerPlanValid(text, TRUE)

\* The gate's account: the n-th request it admitted carries n - 1 rounds, in a phase its
\* history allows, and each is a prefix of the next.
Fits(r, n) == Len(r.rounds) = n - 1 /\ PlannerRequestState(r)
GateInv ==
    /\ budget \in Budgets /\ decided \in Seq(Decisions) /\ reserved \in Requests \cup {Nothing}
    /\ \A n \in DOMAIN decided : /\ Fits(decided[n], n)
                                 /\ n > 1 => Front(decided[n].rounds) = decided[n - 1].rounds
    /\ reserved # Nothing =>
        /\ Fits(reserved, Len(decided) + 1)
        /\ decided # <<>> => Front(reserved.rounds) = Last(decided).rounds

\* The only session, before it asks: it is where the gate's last decision left it.
InStep ==
    /\ SessionRounds /\ Len(decided) = Len(rounds)
    /\ decided # <<>> => /\ Last(decided).verdict = "validated_success"
                         /\ Front(rounds) = Last(decided).rounds
                         /\ Last(rounds).output = Last(decided).output
Alone == sessions = 1 /\ ~intruder
SessionInv ==
    /\ sessions \in Nat \ {0} /\ intruder \in BOOLEAN
    /\ usage \in [requests : Nat, files : Nat, repairs : Nat]
    /\ rounds \in Seq(Rounds)
    /\ intruder => stage \in {"ready", "failed"}
    /\ Alone => stage # "refused"
    /\ Alone /\ stage = "ready" => reserved = Nothing /\ InStep /\ usage.requests = Len(rounds)
    /\ Alone /\ stage = "waiting" =>
        /\ reserved = NextRequest /\ SessionRounds
        /\ Len(decided) = Len(rounds) /\ usage.requests = Len(rounds) + 1

PlannerInv == GateInv /\ SessionInv

\* A history is a sequence of rounds, of at most three.
LEMMA HistoriesAreRounds ==
    ASSUME NEW h
    PROVE  h \in Histories <=> h \in Seq(Rounds) /\ Len(h) <= 3
<1>1. ASSUME h \in Histories PROVE h \in Seq(Rounds) /\ Len(h) <= 3
  <2>1. PICK n \in 0..3 : h \in [1..n -> Rounds]
    BY <1>1 DEF Histories
  <2>2. QED
    BY <2>1
<1>2. ASSUME h \in Seq(Rounds), Len(h) <= 3 PROVE h \in Histories
  <2>1. h \in [1..Len(h) -> Rounds] /\ Len(h) \in Nat
    BY <1>2
  <2>2. Len(h) \in 0..3
    BY <1>2, <2>1
  <2>3. QED
    BY <2>1, <2>2 DEF Histories
<1>3. QED
  BY <1>1, <1>2

\* What a sequence is after one more.
LEMMA AppendedParts ==
    ASSUME NEW S, NEW s \in Seq(S), NEW e \in S
    PROVE  Len(Append(s, e)) = Len(s) + 1 /\ Last(Append(s, e)) = e /\ Front(Append(s, e)) = s
<1>1. Append(s, e) \in Seq(S) /\ Len(Append(s, e)) = Len(s) + 1 /\ Append(s, e)[Len(s) + 1] = e /\ Len(s) \in Nat
  OBVIOUS
<1>2. Last(Append(s, e)) = e
  BY <1>1 DEF Last
<1>3. Front(Append(s, e)) = SubSeq(Append(s, e), 1, Len(s))
  BY <1>1 DEF Front
<1>4. SubSeq(Append(s, e), 1, Len(s)) = s
  OBVIOUS
<1>5. QED
  BY <1>1, <1>2, <1>3, <1>4

\* The first stays where it is.
LEMMA FirstKept ==
    ASSUME NEW S, NEW s \in Seq(S), NEW e \in S, s # <<>>
    PROVE  Append(s, e)[1] = s[1]
<1>1. Len(s) \in Nat /\ Len(s) # 0
  OBVIOUS
<1>2. 1 \in 1 .. Len(s)
  BY <1>1
<1>3. QED
  BY <1>2

\* One more after a single one.
LEMMA TwoOf ==
    ASSUME NEW S, NEW a \in S, NEW b \in S, NEW s \in Seq(S), Len(s) = 1, s[1] = a, s # <<>>
    PROVE  Append(s, b) = <<a, b>>
<1>1. <<a, b>> \in Seq(S) /\ Len(<<a, b>>) = 2 /\ <<a, b>>[1] = a /\ <<a, b>>[2] = b
  OBVIOUS
<1>2. /\ Append(s, b) \in Seq(S) /\ Len(Append(s, b)) = Len(s) + 1
      /\ Append(s, b)[Len(s) + 1] = b
  BY AppendProperties, Zenon
<1>9. Append(s, b)[1] = s[1]
  BY FirstKept, Zenon
<1>3. PICK p : p = <<a, b>>
  OBVIOUS
<1>4. PICK q : q = Append(s, b)
  OBVIOUS
<1>5. /\ p \in Seq(S) /\ q \in Seq(S) /\ Len(p) = 2 /\ Len(q) = 2
      /\ p[1] = q[1] /\ p[2] = q[2]
  BY <1>1, <1>2, <1>9, <1>3, <1>4
<1>6. \A i \in 1 .. Len(p) : p[i] = q[i]
  BY <1>5
<1>7. p = q
  BY <1>5, <1>6, SeqEqual
<1>8. QED
  BY <1>3, <1>4, <1>7

\* Two in a row.
LEMMA PairOf ==
    ASSUME NEW S, NEW a \in S, NEW b \in S
    PROVE  Append(<<a>>, b) = <<a, b>>
<1>1. <<a>> \in Seq(S) /\ Len(<<a>>) = 1 /\ <<a>>[1] = a
  OBVIOUS
<1>2. QED
  BY <1>1, TwoOf

\* What a sequence is but for its last.
LEMMA FrontParts ==
    ASSUME NEW S, NEW s \in Seq(S), s # <<>>
    PROVE  /\ DOMAIN Front(s) = 1 .. Len(s) - 1 /\ Len(Front(s)) = Len(s) - 1
           /\ \A i \in DOMAIN Front(s) : i \in DOMAIN s /\ i # Len(s) /\ Front(s)[i] = s[i]
<1> DEFINE n == Len(s) - 1
<1>1. n \in Nat /\ Len(s) = n + 1 /\ DOMAIN s = 1 .. n + 1 /\ Front(s) = SubSeq(s, 1, n)
  BY DEF Front
<1> HIDE DEF n
<1>2. \A i \in 1 .. n : i \in DOMAIN s
  BY <1>1
<1>3. /\ DOMAIN SubSeq(s, 1, n) = 1 .. n /\ Len(SubSeq(s, 1, n)) = n
      /\ \A i \in 1 .. n : SubSeq(s, 1, n)[i] = s[i]
  BY <1>1, <1>2
<1>4. QED
  BY <1>1, <1>2, <1>3

\* What the first round has before it: nothing.
LEMMA NothingBeforeFirst ==
    ASSUME NEW h \in Seq(Rounds), h # <<>>
    PROVE  ~FileRead(Before(h, 1)) /\ Repairs(Before(h, 1)) = 0
<1>1. DOMAIN Before(h, 1) = {}
  BY DEF Before
<1>2. {i \in DOMAIN Before(h, 1) : Before(h, 1)[i].answer = "repair"} = {}
  BY <1>1
<1>3. Cardinality({}) = 0
  BY FS_EmptySet
<1>4. QED
  BY <1>1, <1>2, <1>3 DEF FileRead, Repairs

\* They are rounds, two at most.
LEMMA SessionRoundsAre ==
    ASSUME SessionRounds
    PROVE  rounds \in Seq(Rounds) /\ Len(rounds) <= 2 /\ Len(rounds) \in Nat
<1> USE DEF Discovered, Repaired, Rounds, Outputs, Texts
<1>1. CASE rounds = <<>>
  BY <1>1
<1>2. CASE rounds = <<Discovered>>
  BY <1>2
<1>3. ASSUME NEW text \in Texts, rounds = <<Repaired(text)>> \/ rounds = <<Discovered, Repaired(text)>>
      PROVE  rounds \in Seq(Rounds) /\ Len(rounds) <= 2 /\ Len(rounds) \in Nat
  <2>1. Repaired(text) \in Rounds /\ Discovered \in Rounds
    OBVIOUS
  <2> HIDE DEF Discovered, Repaired, Rounds
  <2>2. CASE rounds = <<Repaired(text)>>
    BY <2>1, <2>2
  <2>3. CASE rounds = <<Discovered, Repaired(text)>>
    BY <2>1, <2>3
  <2>4. QED
    BY <1>3, <2>2, <2>3
<1>4. QED
  BY <1>1, <1>2, <1>3 DEF SessionRounds

\* What the session sends is what its history allows.
LEMMA SessionFits ==
    ASSUME PlannerInv, SessionRounds, budget.assessments # 0, Len(rounds) < budget.requests
    PROVE  /\ PlannerRequestState(NextRequest) /\ NextRequest \in Requests
           /\ rounds \in Seq(Rounds) /\ Len(rounds) <= 2
<1> USE DEF Discovered, Repaired, Rounds, Outputs, Texts
<1>1. rounds \in Seq(Rounds) /\ Len(rounds) <= 2 /\ Len(rounds) \in Nat
  BY SessionRoundsAre
<1>2. rounds \in Histories
  BY <1>1, HistoriesAreRounds
<1>3. NextRequest \in Requests /\ NextRequest.rounds = rounds
      /\ NextRequest.choice = IF Discovery(rounds) THEN "auto" ELSE "none"
  BY <1>2 DEF NextRequest, Requests, Discovery
<1>4. Allowed(rounds)
  BY <1>1, PlannerAssumption DEF Allowed, PlannerInv, GateInv
<1>5. ASSUME NEW i \in DOMAIN rounds PROVE ReadRound(rounds, i) \/ RepairRound(rounds, i)
  <2>1. rounds # <<>>
    BY <1>5
  <2>2. CASE rounds = <<Discovered>> /\ CanRead
    <3>1. i = 1 /\ rounds[i] = Discovered
      BY <1>5, <2>2
    <3>2. QED
      BY <1>1, <2>1, <2>2, <3>1, NothingBeforeFirst DEF ReadRound
  <2>3. ASSUME NEW text \in Texts, rounds = <<Repaired(text)>>, budget.repairs = 1, ~PlannerPlanValid(text, FALSE)
        PROVE  RepairRound(rounds, i)
    <3>1. i = 1 /\ rounds[i] = Repaired(text) /\ Len(rounds) = 1
      BY <1>5, <2>3
    <3>2. ~FileRead(Before(rounds, i))
      BY <1>1, <2>1, <3>1, NothingBeforeFirst
    <3>3. QED
      BY <2>3, <3>1, <3>2 DEF RepairRound, PlannerPlanValid
  <2>4. ASSUME NEW text \in Texts, rounds = <<Discovered, Repaired(text)>>, CanRead, budget.repairs = 1,
               ~PlannerPlanValid(text, TRUE)
        PROVE  ReadRound(rounds, i) \/ RepairRound(rounds, i)
    <3>1. i \in {1, 2} /\ rounds[1] = Discovered /\ rounds[2] = Repaired(text) /\ Len(rounds) = 2
      BY <1>5, <2>4
    <3>2. CASE i = 1
      BY <1>1, <2>1, <2>4, <3>1, <3>2, NothingBeforeFirst DEF ReadRound
    <3>3. CASE i = 2
      BY <2>4, <3>1, <3>3 DEF RepairRound, PlannerPlanValid
    <3>4. QED
      BY <3>1, <3>2, <3>3
  <2>5. QED
    BY <2>1, <2>2, <2>3, <2>4 DEF SessionRounds
<1>6. QED
  BY <1>1, <1>3, <1>4, <1>5 DEF PlannerRequestState

\* Where an admitted request takes its place in the gate's account.
LEMMA AdmittedFits ==
    ASSUME PlannerInv, NEW r \in Requests, Admits(r)
    PROVE  /\ reserved = Nothing /\ Fits(r, Len(decided) + 1)
           /\ decided # <<>> => Front(r.rounds) = Last(decided).rounds
<1>1. decided \in Seq(Decisions) /\ Len(decided) \in Nat
  BY DEF PlannerInv, GateInv
<1>2. reserved = Nothing /\ PlannerRequestState(r) /\ Continues(r, LastDecision)
  BY DEF Admits, ValidatePlannerRequest
<1>3. CASE decided = <<>>
  <2>1. r.rounds = <<>>
    BY <1>2, <1>3 DEF LastDecision, Continues
  <2>2. QED
    BY <1>2, <1>3, <2>1 DEF Fits
<1>4. CASE decided # <<>>
  <2>1. LastDecision = Last(decided) /\ Last(decided) = decided[Len(decided)] /\ Len(decided) \in DOMAIN decided
    BY <1>1, <1>4 DEF LastDecision, Last
  <2>2. Last(decided) \in Decisions /\ Last(decided) # Nothing
    BY <1>1, <2>1, PlannerAssumption
  <2>3. Len(r.rounds) = Len(Last(decided).rounds) + 1 /\ Front(r.rounds) = Last(decided).rounds
    BY <1>2, <2>1, <2>2 DEF Continues
  <2>4. Len(Last(decided).rounds) = Len(decided) - 1
    BY <2>1 DEF PlannerInv, GateInv, Fits
  <2>5. QED
    BY <1>1, <1>2, <2>3, <2>4 DEF Fits
<1>5. QED
  BY <1>3, <1>4

\* A session's usage is a number.
LEMMA SendsWithin ==
    ASSUME PlannerInv
    PROVE  (usage.requests >= budget.requests) <=> ~(usage.requests < budget.requests)
  BY PlannerAssumption DEF PlannerInv, GateInv, SessionInv

\* Whatever a session holds, only what is a request is admitted.
LEMMA AdmittedIsRequest ==
    ASSUME PlannerInv, Admits(NextRequest)
    PROVE  NextRequest \in Requests
<1>1. NextRequest.rounds = rounds /\ rounds \in Seq(Rounds) /\ Len(rounds) \in Nat
  BY DEF NextRequest, PlannerInv, SessionInv
<1>2. Len(rounds) <= 2
  BY <1>1 DEF Admits, ValidatePlannerRequest, PlannerRequestState
<1>3. rounds \in Histories
  BY <1>1, <1>2, HistoriesAreRounds
<1>4. QED
  BY <1>3 DEF NextRequest, Requests

\* The gate keeps its account.
LEMMA GateKept == PlannerInv /\ [PlannerNext]_plannerVars => GateInv'
<1> SUFFICES ASSUME PlannerInv, [PlannerNext]_plannerVars PROVE GateInv'
  OBVIOUS
<1>1. decided \in Seq(Decisions) /\ Len(decided) \in Nat /\ DOMAIN decided = 1 .. Len(decided)
  BY DEF PlannerInv, GateInv
<1>2. ASSUME NEW r \in Requests, Admits(r), reserved' = r, decided' = decided, budget' = budget
      PROVE  GateInv'
  <2>1. /\ Fits(r, Len(decided) + 1)
        /\ decided # <<>> => Front(r.rounds) = Last(decided).rounds
    BY <1>2, AdmittedFits
  <2>2. Fits(reserved, Len(decided) + 1)'
    <3> DEFINE n == Len(decided) + 1
    <3>1. Fits(r, n) /\ n = Len(decided') + 1
      BY <1>2, <2>1
    <3> HIDE DEF n
    <3>2. Len(reserved'.rounds) = n - 1
      BY <1>2, <3>1 DEF Fits
    <3>3. PlannerRequestState(reserved)'
      BY <1>2, <3>1 DEF Fits, PlannerRequestState, ReadRound, RepairRound, Allowed, Discovery, CanRead
    <3>4. QED
      BY <3>1, <3>2, <3>3 DEF Fits
  <2>3. \A n \in DOMAIN decided : Fits(decided[n], n)'
    BY <1>2 DEF PlannerInv, GateInv, Fits, PlannerRequestState, ReadRound, RepairRound, Allowed, Discovery, CanRead
  <2>4. budget' \in Budgets /\ decided' \in Seq(Decisions) /\ reserved' \in Requests \cup {Nothing}
    BY <1>2 DEF PlannerInv, GateInv
  <2>5. \A n \in DOMAIN decided' : /\ Fits(decided[n], n)'
                                   /\ n > 1 => Front(decided'[n].rounds) = decided'[n - 1].rounds
    BY <1>2, <2>3 DEF PlannerInv, GateInv
  <2>6. decided' # <<>> => Front(reserved'.rounds) = Last(decided').rounds
    BY <1>2, <2>1
  <2>7. QED
    BY <2>2, <2>4, <2>5, <2>6 DEF GateInv
<1>3. ASSUME NEW output \in Outputs \cup {Nothing}, reserved # Nothing, reserved' = Nothing,
             decided' = Append(decided, Decision(reserved, output)), budget' = budget
      PROVE  GateInv'
  <2> DEFINE d == Decision(reserved, output)
  <2>1. /\ reserved \in Requests /\ Fits(reserved, Len(decided) + 1)
        /\ decided # <<>> => Front(reserved.rounds) = Last(decided).rounds
    BY <1>3 DEF PlannerInv, GateInv
  <2>2. d \in Decisions /\ d.rounds = reserved.rounds /\ d.choice = reserved.choice
    BY <2>1 DEF Decision, Decisions, Requests
  <2>3. Fits(d, Len(decided) + 1)
    BY <2>1, <2>2 DEF Fits, PlannerRequestState
  <2> HIDE DEF d
  <2>4. /\ decided' = Append(decided, d) /\ decided' \in Seq(Decisions)
        /\ DOMAIN decided' = 1 .. Len(decided) + 1 /\ decided'[Len(decided) + 1] = d
        /\ \A n \in DOMAIN decided : decided'[n] = decided[n]
    BY <1>1, <1>3, <2>2 DEF d
  <2>5. ASSUME NEW n \in DOMAIN decided'
        PROVE  /\ Fits(decided'[n], n)
               /\ n > 1 => Front(decided'[n].rounds) = decided'[n - 1].rounds
    <3>1. CASE n \in DOMAIN decided
      <4>1. /\ Fits(decided[n], n)
            /\ n > 1 => Front(decided[n].rounds) = decided[n - 1].rounds
            /\ n > 1 => n - 1 \in DOMAIN decided
        BY <1>1, <3>1 DEF PlannerInv, GateInv
      <4>2. PICK q : q = decided[n] /\ q = decided'[n]
        BY <2>4, <3>1
      <4>3. Fits(q, n)
        BY <4>1, <4>2
      <4>4. Fits(decided'[n], n)
        BY <4>2, <4>3
      <4>5. ASSUME n > 1 PROVE Front(decided'[n].rounds) = decided'[n - 1].rounds
        <5>1. Front(q.rounds) = decided[n - 1].rounds /\ n - 1 \in DOMAIN decided
          BY <4>1, <4>2, <4>5
        <5>2. decided'[n - 1] = decided[n - 1]
          BY <2>4, <5>1
        <5>3. QED
          BY <4>2, <5>1, <5>2
      <4>6. QED
        BY <4>4, <4>5
    <3>2. CASE n = Len(decided) + 1
      <4>1. decided'[n] = d
        BY <2>4, <3>2
      <4>2. Fits(decided'[n], n)
        BY <2>3, <3>2, <4>1
      <4>3. ASSUME n > 1
            PROVE  decided # <<>> /\ decided'[n - 1] = Last(decided)
        <5>1. Len(decided) \in DOMAIN decided /\ n - 1 = Len(decided) /\ decided # <<>>
          BY <1>1, <3>2, <4>3
        <5>2. QED
          BY <2>4, <5>1 DEF Last
      <4>4. QED
        BY <2>1, <2>2, <4>1, <4>2, <4>3
    <3>3. QED
      BY <1>1, <2>4, <3>1, <3>2
  <2>6. \A n \in DOMAIN decided' : Fits(decided[n], n)'
    <3>1. ASSUME NEW n \in DOMAIN decided' PROVE Fits(decided[n], n)'
      <4>1. PICK q : q = decided'[n] /\ Fits(q, n)
        BY <2>5
      <4>2. QED
        BY <1>3, <4>1 DEF Fits, PlannerRequestState, ReadRound, RepairRound, Allowed, Discovery, CanRead
    <3>2. QED
      BY <3>1
  <2>7. budget' \in Budgets
    BY <1>3 DEF PlannerInv, GateInv
  <2>8. QED
    BY <1>3, <2>4, <2>5, <2>6, <2>7 DEF GateInv
<1>4. CASE UNCHANGED <<budget, reserved, decided>>
  BY <1>4 DEF PlannerInv, GateInv, Fits, PlannerRequestState, ReadRound, RepairRound, Allowed, Discovery, CanRead
<1>5. CASE Send
  <2>1. CASE budget.assessments # 0 /\ usage.requests < budget.requests /\ Admits(NextRequest)
    <3>1. reserved' = NextRequest /\ decided' = decided /\ budget' = budget
      BY <1>5, <2>1, SendsWithin DEF Send
    <3>2. NextRequest \in Requests
      BY <2>1, AdmittedIsRequest
    <3>3. QED
      BY <1>2, <2>1, <3>1, <3>2
  <2>2. CASE ~(budget.assessments # 0 /\ usage.requests < budget.requests /\ Admits(NextRequest))
    <3>1. UNCHANGED <<budget, reserved, decided>>
      BY <1>5, <2>2, SendsWithin DEF Send
    <3>2. QED
      BY <1>4, <3>1
  <2>3. QED
    BY <2>1, <2>2
<1>6. ASSUME NEW output \in Outputs, Complete(output) PROVE GateInv'
  BY <1>3, <1>6 DEF Complete
<1>7. CASE Fail
  BY <1>3, <1>7 DEF Fail
<1>8. CASE Abort \/ NewSession
  BY <1>4, <1>8 DEF Abort, NewSession
<1>9. ASSUME NEW r \in Requests, Intrude(r) PROVE GateInv'
  BY <1>2, <1>9 DEF Intrude
<1>10. QED
  BY <1>4, <1>5, <1>6, <1>7, <1>8, <1>9 DEF PlannerNext, plannerVars

\* The only session is never refused: what the gate decided last is where it stands.
LEMMA InStepIsAdmitted ==
    ASSUME PlannerInv, reserved = Nothing, InStep, budget.assessments # 0, Len(rounds) < budget.requests
    PROVE  Admits(NextRequest)
<1>1. PlannerRequestState(NextRequest) /\ rounds \in Seq(Rounds)
  BY SessionFits DEF InStep
<1>2. decided \in Seq(Decisions)
  BY DEF PlannerInv, GateInv
<1>3. NextRequest.rounds = rounds
  BY DEF NextRequest
<1>4. CASE decided = <<>>
  <2>1. LastDecision = Nothing /\ rounds = <<>>
    BY <1>1, <1>4 DEF LastDecision, InStep
  <2>2. QED
    BY <1>1, <1>3, <2>1 DEF Admits, ValidatePlannerRequest, Continues
<1>5. CASE decided # <<>>
  <2>1. LastDecision = Last(decided) /\ Last(decided) = decided[Len(decided)] /\ Len(decided) \in DOMAIN decided
    BY <1>2, <1>5 DEF LastDecision, Last
  <2>2. Last(decided) \in Decisions /\ Last(decided) # Nothing
    BY <1>2, <2>1, PlannerAssumption
  <2>3. /\ Last(decided).verdict = "validated_success" /\ Front(rounds) = Last(decided).rounds
        /\ Last(rounds).output = Last(decided).output /\ Len(decided) = Len(rounds)
    BY <1>5 DEF InStep
  <2>4. Len(Last(decided).rounds) = Len(rounds) - 1
    BY <2>1, <2>3 DEF PlannerInv, GateInv, Fits
  <2>5. Len(rounds) = Len(Last(decided).rounds) + 1
    BY <1>1, <2>4
  <2>6. QED
    BY <1>1, <1>3, <2>1, <2>2, <2>3, <2>5 DEF Admits, ValidatePlannerRequest, Continues
<1>6. QED
  BY <1>4, <1>5

\* What a completed output makes of any session that waits for it.
LEMMA ReceivesTypes ==
    ASSUME rounds \in Seq(Rounds), usage \in [requests : Nat, files : Nat, repairs : Nat],
           NEW output \in Outputs, Receives(output)
    PROVE  /\ stage' \in {"ready", "failed", "plan_proposed", "invalid_plan"}
           /\ rounds' \in Seq(Rounds) /\ usage' \in [requests : Nat, files : Nat, repairs : Nat]
<1>1. \/ rounds' = rounds
      \/ \E round \in Rounds : rounds' = Append(rounds, round)
  BY DEF Receives, Rounds
<1>2. \/ usage' = usage
      \/ usage' = [usage EXCEPT !.files = @ + 1]
      \/ usage' = [usage EXCEPT !.repairs = @ + 1]
  BY DEF Receives
<1>3. stage' \in {"ready", "failed", "plan_proposed", "invalid_plan"}
  BY DEF Receives
<1>4. rounds' \in Seq(Rounds)
  BY <1>1
<1>5. usage' \in [requests : Nat, files : Nat, repairs : Nat]
  BY <1>2
<1>6. QED
  BY <1>3, <1>4, <1>5

\* What a completed output makes of the only session that waits for it.
LEMMA ReceivesInStep ==
    ASSUME PlannerInv, SessionRounds, NEW output \in Outputs, Receives(output), budget' = budget,
           output = "call" => Discovery(rounds)
    PROVE  /\ stage' \in {"ready", "failed", "plan_proposed", "invalid_plan"}
           /\ rounds' \in Seq(Rounds) /\ usage' \in [requests : Nat, files : Nat, repairs : Nat]
           /\ stage' = "ready" =>
                /\ SessionRounds' /\ usage'.requests = usage.requests
                /\ \E round \in Rounds : round.output = output /\ rounds' = Append(rounds, round)
<1>1. rounds \in Seq(Rounds) /\ usage \in [requests : Nat, files : Nat, repairs : Nat]
  BY DEF PlannerInv, SessionInv
<1>2. budget \in [assessments : 0..1, repairs : 0..1, requests : Nat, files : 0..1, fits : BOOLEAN]
  BY PlannerAssumption DEF PlannerInv, GateInv
<1>3. CASE output = "call"
  <2>1. rounds = <<>> /\ CanRead
    BY <1>3 DEF Discovery
  <2>2. usage.files = 0 /\ usage.repairs = 0
    BY <2>1 DEF SessionRounds, Spent
  <2>3. ~(usage.files >= budget.files \/ ~budget.fits)
    BY <1>2, <2>1, <2>2 DEF CanRead
  <2>4. stage' = "ready" /\ rounds' = Append(rounds, Discovered) /\ usage' = [usage EXCEPT !.files = @ + 1]
    BY <1>3, <2>3 DEF Receives, Discovered
  <2>5. usage' \in [requests : Nat, files : Nat, repairs : Nat] /\ usage'.requests = usage.requests
        /\ usage'.files = 1 /\ usage'.repairs = 0
    BY <1>1, <2>2, <2>4
  <2>6. Discovered \in Rounds /\ Discovered.output = output
    BY <1>3 DEF Discovered, Rounds, Outputs
  <2> HIDE DEF Discovered
  <2>7. rounds' = <<Discovered>> /\ rounds' \in Seq(Rounds)
    BY <2>1, <2>4, <2>6
  <2>8. CanRead'
    BY <2>1 DEF CanRead
  <2>9. QED
    BY <2>4, <2>5, <2>6, <2>7, <2>8 DEF SessionRounds, Spent
<1>4. CASE output # "call" /\ PlannerPlanValid(output, usage.files > 0)
  BY <1>1, <1>4 DEF Receives
<1>5. CASE output # "call" /\ ~PlannerPlanValid(output, usage.files > 0)
  <2>1. CASE usage.repairs >= 1 \/ budget.repairs = 0
    BY <1>1, <1>5, <2>1 DEF Receives
  <2>2. CASE ~(usage.repairs >= 1 \/ budget.repairs = 0)
    <3>1. /\ stage' = "ready" /\ rounds' = Append(rounds, Repaired(output))
          /\ usage' = [usage EXCEPT !.repairs = @ + 1]
      BY <1>5, <2>2 DEF Receives, Repaired
    <3>2. usage.repairs = 0 /\ budget.repairs = 1 /\ output \in Texts
      BY <1>1, <1>2, <1>5, <2>2 DEF Outputs
    <3>3. /\ usage' \in [requests : Nat, files : Nat, repairs : Nat] /\ usage'.requests = usage.requests
          /\ usage'.files = usage.files /\ usage'.repairs = 1
      BY <1>1, <3>1, <3>2
    <3>4. Repaired(output) \in Rounds /\ Repaired(output).output = output
      BY DEF Repaired, Rounds
    <3>5. rounds' \in Seq(Rounds)
      BY <1>1, <3>1, <3>4
    <3>6. \/ rounds = <<>> /\ usage.files = 0
          \/ rounds = <<Discovered>> /\ usage.files = 1 /\ CanRead
      BY <3>2 DEF SessionRounds, Spent
    <3>7. SessionRounds'
      <4>1. CASE rounds = <<>> /\ usage.files = 0
        <5>1. rounds' = <<Repaired(output)>> /\ ~PlannerPlanValid(output, FALSE)
          BY <1>5, <3>1, <4>1 DEF PlannerPlanValid
        <5>2. QED
          BY <3>2, <3>3, <4>1, <5>1 DEF SessionRounds, Spent, PlannerPlanValid
      <4>2. CASE rounds = <<Discovered>> /\ usage.files = 1 /\ CanRead
        <5>1. rounds' = <<Discovered, Repaired(output)>>
          <6>1. Discovered \in Rounds
            BY DEF Discovered, Rounds, Outputs
          <6>2. QED
            BY <3>1, <3>4, <4>2, <6>1, PairOf
        <5>2. ~PlannerPlanValid(output, TRUE) /\ CanRead'
          BY <1>5, <4>2 DEF PlannerPlanValid, CanRead
        <5>3. QED
          BY <3>2, <3>3, <4>2, <5>1, <5>2 DEF SessionRounds, Spent, PlannerPlanValid
      <4>3. QED
        BY <3>6, <4>1, <4>2
    <3>8. QED
      BY <3>1, <3>3, <3>4, <3>5, <3>7
  <2>3. QED
    BY <2>1, <2>2
<1>6. QED
  BY <1>3, <1>4, <1>5

\* The session keeps in step with the gate while it is the only one.
LEMMA SessionKept == PlannerInv /\ [PlannerNext]_plannerVars => SessionInv'
<1> SUFFICES ASSUME PlannerInv, [PlannerNext]_plannerVars PROVE SessionInv'
  OBVIOUS
<1>1. /\ rounds \in Seq(Rounds) /\ usage \in [requests : Nat, files : Nat, repairs : Nat]
      /\ decided \in Seq(Decisions)
  BY DEF PlannerInv, SessionInv, GateInv
<1>2. CASE Send
  <2>1. /\ ~intruder /\ stage = "ready" /\ intruder' = intruder /\ sessions' = sessions /\ rounds' = rounds
        /\ decided' = decided /\ budget' = budget
    BY <1>2 DEF Send
  <2>2. CASE budget.assessments = 0 \/ usage.requests >= budget.requests
    BY <1>2, <2>1, <2>2 DEF Send, PlannerInv, SessionInv, Alone
  <2>3. CASE ~(budget.assessments = 0 \/ usage.requests >= budget.requests)
    <3>1. /\ usage' = [usage EXCEPT !.requests = @ + 1]
          /\ IF Admits(NextRequest) THEN stage' = "waiting" /\ reserved' = NextRequest
             ELSE stage' = "refused" /\ UNCHANGED reserved
      BY <1>2, <2>3 DEF Send
    <3>2. /\ usage' \in [requests : Nat, files : Nat, repairs : Nat] /\ usage'.requests = usage.requests + 1
          /\ usage'.files = usage.files /\ usage'.repairs = usage.repairs
      BY <1>1, <3>1
    <3>3. ASSUME Alone
          PROVE  /\ stage' = "waiting" /\ reserved' = NextRequest' /\ SessionRounds'
                 /\ Len(decided') = Len(rounds') /\ usage'.requests = Len(rounds') + 1
      <4>1. reserved = Nothing /\ InStep /\ usage.requests = Len(rounds)
        BY <2>1, <3>3 DEF PlannerInv, SessionInv
      <4>2. Len(rounds) < budget.requests
        BY <2>3, <4>1, SendsWithin
      <4>3. Admits(NextRequest)
        BY <2>3, <4>1, <4>2, InStepIsAdmitted
      <4>4. NextRequest' = NextRequest
        BY <2>1 DEF NextRequest, CanRead
      <4>5. SessionRounds'
        BY <2>1, <3>2, <4>1 DEF InStep, SessionRounds, Spent, CanRead
      <4>6. QED
        BY <2>1, <3>1, <3>2, <4>1, <4>3, <4>4, <4>5 DEF InStep
    <3>4. Alone' => Alone
      BY <2>1 DEF Alone
    <3>5. stage' # "ready"
      BY <3>1
    <3>6. sessions' \in Nat \ {0} /\ intruder' \in BOOLEAN /\ ~intruder' /\ rounds' \in Seq(Rounds)
      BY <2>1 DEF PlannerInv, SessionInv
    <3>7. QED
      BY <3>2, <3>3, <3>4, <3>5, <3>6 DEF SessionInv
  <2>4. QED
    BY <2>2, <2>3
<1>3. ASSUME NEW output \in Outputs, Complete(output) PROVE SessionInv'
  <2>1. /\ reserved # Nothing /\ ValidatePlannerOutput(output, reserved)
        /\ decided' = Append(decided, Decision(reserved, output)) /\ reserved' = Nothing
        /\ budget' = budget /\ intruder' = intruder /\ sessions' = sessions
    BY <1>3 DEF Complete
  <2>2. CASE stage # "waiting"
    <3>1. stage' = stage /\ rounds' = rounds /\ usage' = usage
      BY <1>3, <2>2 DEF Complete
    <3>2. ~(Alone /\ stage = "ready")
      BY <2>1 DEF PlannerInv, SessionInv
    <3>3. QED
      BY <2>1, <2>2, <3>1, <3>2 DEF PlannerInv, SessionInv, Alone
  <2>3. CASE stage = "waiting"
    <3>1. Receives(output) /\ ~intruder
      BY <1>3, <2>3 DEF Complete, PlannerInv, SessionInv
    <3>2. /\ stage' \in {"ready", "failed", "plan_proposed", "invalid_plan"}
          /\ rounds' \in Seq(Rounds) /\ usage' \in [requests : Nat, files : Nat, repairs : Nat]
      BY <1>1, <3>1, ReceivesTypes
    <3>3. ASSUME Alone, stage' = "ready"
          PROVE  InStep' /\ usage'.requests = Len(rounds')
      <4>1. reserved = NextRequest /\ SessionRounds /\ Len(decided) = Len(rounds) /\ usage.requests = Len(rounds) + 1
        BY <2>3, <3>3 DEF PlannerInv, SessionInv
      <4>2. reserved.rounds = rounds
        BY <4>1 DEF NextRequest
      <4>3. output = "call" => Discovery(rounds)
        BY <2>1, <4>2 DEF ValidatePlannerOutput, PlannerContinuation
      <4>4. /\ SessionRounds' /\ usage'.requests = usage.requests
            /\ \E round \in Rounds : round.output = output /\ rounds' = Append(rounds, round)
        BY <2>1, <3>1, <3>3, <4>1, <4>3, ReceivesInStep
      <4>5. PICK round \in Rounds : round.output = output /\ rounds' = Append(rounds, round)
        BY <4>4
      <4>6. Len(rounds') = Len(rounds) + 1 /\ Last(rounds') = round /\ Front(rounds') = rounds
        BY <1>1, <4>5, AppendedParts
      <4> DEFINE d == Decision(reserved, output)
      <4>7. d.verdict = "validated_success" /\ d.rounds = rounds /\ d.output = output /\ d \in Decisions
        <5>1. reserved \in Requests /\ output # Nothing
          BY <2>1, PlannerAssumption DEF PlannerInv, GateInv
        <5>2. QED
          BY <4>2, <5>1 DEF Decision, Decisions, Requests
      <4> HIDE DEF d
      <4>8. Len(decided') = Len(decided) + 1 /\ Last(decided') = d
        BY <1>1, <2>1, <4>7, AppendedParts DEF d
      <4>9. QED
        BY <4>1, <4>4, <4>5, <4>6, <4>7, <4>8 DEF InStep
    <3>4. Alone' => Alone
      BY <2>1 DEF Alone
    <3>5. sessions' \in Nat \ {0} /\ intruder' \in BOOLEAN /\ ~intruder'
      BY <2>1, <3>1 DEF PlannerInv, SessionInv
    <3>6. QED
      BY <2>1, <3>2, <3>3, <3>4, <3>5 DEF SessionInv
  <2>4. QED
    BY <2>2, <2>3
<1>4. CASE Fail
  <2>1. /\ reserved # Nothing /\ stage' = IF stage = "waiting" THEN "failed" ELSE stage
        /\ UNCHANGED <<budget, intruder, rounds, usage, sessions>>
    BY <1>4 DEF Fail
  <2>2. ~(Alone /\ stage = "ready")
    BY <2>1 DEF PlannerInv, SessionInv
  <2>3. QED
    BY <2>1, <2>2 DEF PlannerInv, SessionInv, Alone
<1>5. CASE Abort
  BY <1>5 DEF Abort, PlannerInv, SessionInv, Alone
<1>6. CASE NewSession
  <2>1. /\ ~intruder /\ sessions' = sessions + 1 /\ stage' = "ready" /\ rounds' = <<>> /\ usage' = Fresh
        /\ intruder' = intruder
    BY <1>6 DEF NewSession
  <2>2. sessions' \in Nat \ {0} /\ ~Alone'
    BY <2>1 DEF PlannerInv, SessionInv, Alone
  <2>3. rounds' \in Seq(Rounds) /\ usage' \in [requests : Nat, files : Nat, repairs : Nat]
    BY <2>1 DEF Fresh
  <2>4. QED
    BY <2>1, <2>2, <2>3 DEF PlannerInv, SessionInv
<1>7. ASSUME NEW r \in Requests, Intrude(r) PROVE SessionInv'
  <2>1. intruder /\ UNCHANGED <<budget, intruder, stage, rounds, usage, sessions>>
    BY <1>7 DEF Intrude
  <2>2. QED
    BY <2>1 DEF PlannerInv, SessionInv, Alone
<1>8. CASE UNCHANGED plannerVars
  BY <1>8 DEF plannerVars, PlannerInv, SessionInv, Alone, InStep, SessionRounds, Spent, NextRequest, CanRead
<1>9. QED
  BY <1>2, <1>3, <1>4, <1>5, <1>6, <1>7, <1>8 DEF PlannerNext

\* What the gate admitted, request by request.
LEMMA AdmittedAre ==
    ASSUME PlannerInv
    PROVE  /\ DOMAIN AdmittedRequests = 1 .. Len(AdmittedRequests) /\ Len(AdmittedRequests) \in Nat
           /\ \A n \in DOMAIN AdmittedRequests :
                /\ Fits(AdmittedRequests[n], n) /\ AdmittedRequests[n].rounds \in Seq(Rounds)
                /\ n > 1 => Front(AdmittedRequests[n].rounds) = AdmittedRequests[n - 1].rounds
<1>1. /\ decided \in Seq(Decisions) /\ Len(decided) \in Nat /\ DOMAIN decided = 1 .. Len(decided)
      /\ reserved \in Requests \cup {Nothing}
  BY DEF PlannerInv, GateInv
<1>2. \A n \in DOMAIN decided : /\ Fits(decided[n], n) /\ decided[n].rounds \in Seq(Rounds)
                                /\ n > 1 => Front(decided[n].rounds) = decided[n - 1].rounds
  <2>1. \A n \in DOMAIN decided : decided[n].rounds \in Histories
    <3>1. \A n \in DOMAIN decided : decided[n] \in Decisions
      BY <1>1
    <3>2. QED
      BY <3>1 DEF Decisions
  <2>2. QED
    BY <2>1, HistoriesAreRounds DEF PlannerInv, GateInv
<1>3. CASE reserved = Nothing
  <2>1. AdmittedRequests = decided
    BY <1>1, <1>3 DEF AdmittedRequests
  <2>2. QED
    BY <1>1, <1>2, <2>1
<1>4. CASE reserved # Nothing
  <2> DEFINE all == AdmittedRequests
  <2>1. /\ Len(all) = Len(decided) + 1 /\ DOMAIN all = 1 .. Len(decided) + 1
        /\ all[Len(decided) + 1] = reserved /\ \A n \in DOMAIN decided : all[n] = decided[n]
    <3>1. all = decided \o <<reserved>>
      BY <1>4 DEF AdmittedRequests
    <3>2. decided \in Seq(Decisions \cup Requests) /\ <<reserved>> \in Seq(Decisions \cup Requests)
          /\ Len(<<reserved>>) = 1 /\ <<reserved>>[1] = reserved
      BY <1>1, <1>4
    <3>3. QED
      BY <1>1, <3>1, <3>2
  <2> HIDE DEF all
  <2>2. /\ Fits(reserved, Len(decided) + 1) /\ reserved.rounds \in Seq(Rounds)
        /\ decided # <<>> => Front(reserved.rounds) = Last(decided).rounds
    <3>1. reserved.rounds \in Histories
      BY <1>1, <1>4 DEF Requests
    <3>2. QED
      BY <1>4, <3>1, HistoriesAreRounds DEF PlannerInv, GateInv
  <2>3. ASSUME NEW n \in DOMAIN all
        PROVE  /\ Fits(all[n], n) /\ all[n].rounds \in Seq(Rounds)
               /\ n > 1 => Front(all[n].rounds) = all[n - 1].rounds
    <3>1. CASE n \in DOMAIN decided
      <4>1. n > 1 => n - 1 \in DOMAIN decided
        BY <1>1, <3>1
      <4>2. QED
        BY <1>2, <2>1, <3>1, <4>1
    <3>2. CASE n = Len(decided) + 1
      <4>1. n > 1 => decided # <<>> /\ all[n - 1] = decided[Len(decided)] /\ Last(decided) = decided[Len(decided)]
        BY <1>1, <2>1, <3>2 DEF Last
      <4>2. QED
        BY <2>1, <2>2, <3>2, <4>1
    <3>3. QED
      BY <1>1, <2>1, <3>1, <3>2
  <2>4. QED
    BY <1>1, <2>1, <2>3 DEF all
<1>5. QED
  BY <1>3, <1>4

\* A request that repairs is the last there is.
LEMMA RepairIsLast ==
    ASSUME PlannerInv, NEW n \in DOMAIN AdmittedRequests, Repairs(AdmittedRequests[n].rounds) > 0
    PROVE  n = Len(AdmittedRequests) /\ budget.repairs = 1
<1> DEFINE all == AdmittedRequests
           h == all[n].rounds
<1>1. /\ DOMAIN all = 1 .. Len(all) /\ Len(all) \in Nat
      /\ \A m \in DOMAIN all : /\ Fits(all[m], m) /\ all[m].rounds \in Seq(Rounds)
                               /\ m > 1 => Front(all[m].rounds) = all[m - 1].rounds
  BY AdmittedAre
<1>2. Repairs(h) > 0
  OBVIOUS
<1> HIDE DEF all
<1>3. PICK j \in DOMAIN h : h[j].answer = "repair"
  <2> DEFINE S == {i \in DOMAIN h : h[i].answer = "repair"}
  <2>1. Cardinality(S) > 0 /\ Cardinality({}) = 0
    BY <1>2, FS_EmptySet DEF Repairs
  <2> HIDE DEF S
  <2>2. S # {}
    BY <2>1
  <2>3. QED
    BY <2>2 DEF S
<1>4. Len(h) = n - 1 /\ PlannerRequestState(all[n]) /\ h \in Seq(Rounds)
  BY <1>1 DEF Fits, all
<1>5. j = Len(h) /\ budget.repairs = 1
  BY <1>3, <1>4 DEF PlannerRequestState, ReadRound, RepairRound
<1>6. ASSUME n # Len(all) PROVE FALSE
  <2> DEFINE next == all[n + 1].rounds
  <2>1. /\ n + 1 \in DOMAIN all /\ n + 1 > 1 /\ (n + 1) - 1 = n
    BY <1>1, <1>6 DEF all
  <2>2. next \in Seq(Rounds) /\ Front(next) = h /\ Len(next) = n /\ PlannerRequestState(all[n + 1])
    BY <1>1, <2>1 DEF Fits
  <2> HIDE DEF next, h
  <2>3. j \in DOMAIN next /\ next[j] = h[j] /\ j # Len(next)
    BY <1>3, <1>4, <1>5, <2>2, FrontParts DEF all
  <2>4. ReadRound(next, j) \/ RepairRound(next, j)
    BY <2>2, <2>3 DEF PlannerRequestState, next
  <2>5. QED
    BY <1>3, <2>3, <2>4 DEF ReadRound, RepairRound
<1>7. QED
  BY <1>5, <1>6 DEF all

\* A set of at most one element counts as much as what it needs to have one.
LEMMA AtMostOne ==
    ASSUME NEW S, NEW x, NEW limit \in Nat, S \subseteq {x}, S # {} => limit > 0
    PROVE  Cardinality(S) <= limit
<1>1. Cardinality({}) = 0 /\ Cardinality({x}) = 1
  BY FS_EmptySet, FS_Singleton
<1>2. CASE S = {}
  BY <1>1, <1>2
<1>3. CASE S # {}
  <2>1. S = {x} /\ limit > 0
    BY <1>3
  <2>2. QED
    BY <1>1, <2>1
<1>4. QED
  BY <1>2, <1>3

\* One revision never costs more than its allowance, and a single session may spend all of
\* it (native-planner.mjs, planner.ts).
THEOREM TheAllowanceIsExact == PlannerInit /\ [][PlannerNext]_plannerVars => []AllowanceIsExact
<1>1. PlannerInit => PlannerInv
  <2> SUFFICES ASSUME PlannerInit PROVE PlannerInv
    OBVIOUS
  <2>1. GateInv
    BY DEF PlannerInit, GateInv
  <2>2. SessionInv
    BY DEF PlannerInit, SessionInv, Fresh, InStep, SessionRounds, Spent, Alone
  <2>3. QED
    BY <2>1, <2>2 DEF PlannerInv
<1>2. PlannerInv /\ [PlannerNext]_plannerVars => PlannerInv'
  BY GateKept, SessionKept DEF PlannerInv
<1>3. PlannerInv => AllowanceIsExact
  <2> SUFFICES ASSUME PlannerInv PROVE AllowanceIsExact
    OBVIOUS
  <2> DEFINE all == AdmittedRequests
  <2>1. budget \in [assessments : 0..1, repairs : 0..1, requests : Nat, files : 0..1, fits : BOOLEAN]
    BY PlannerAssumption DEF PlannerInv, GateInv
  <2>2. /\ DOMAIN all = 1 .. Len(all) /\ Len(all) \in Nat
        /\ \A n \in DOMAIN all : Fits(all[n], n) /\ all[n].rounds \in Seq(Rounds)
    BY AdmittedAre
  <2>3. \A n \in DOMAIN all : Repairs(all[n].rounds) > 0 => n = Len(all) /\ budget.repairs = 1
    BY RepairIsLast
  <2> HIDE DEF all
  <2>4. Len(all) <= budget.requests
    <3>1. CASE Len(all) = 0
      BY <2>1, <3>1
    <3>2. CASE Len(all) # 0
      <4>1. Len(all) \in DOMAIN all
        BY <2>2, <3>2
      <4>2. PICK r : r = all[Len(all)] /\ Fits(r, Len(all))
        BY <2>2, <4>1
      <4>3. Len(all) - 1 + 1 <= budget.requests
        BY <4>2 DEF Fits, PlannerRequestState, Allowed
      <4>4. QED
        BY <2>1, <2>2, <4>3
    <3>3. QED
      BY <3>1, <3>2
  <2>5. Cardinality({n \in DOMAIN all : all[n].choice = "auto"}) <= budget.files
    <3>1. ASSUME NEW n \in DOMAIN all, all[n].choice = "auto" PROVE n = 1 /\ budget.files > 0
      <4>1. Discovery(all[n].rounds) /\ Len(all[n].rounds) = n - 1
        BY <2>2, <3>1 DEF Fits, PlannerRequestState
      <4>2. QED
        BY <2>1, <2>2, <4>1 DEF Discovery, CanRead
    <3>2. budget.files \in Nat
      BY <2>1
    <3> DEFINE S == {n \in DOMAIN all : all[n].choice = "auto"}
    <3>3. S \subseteq {1} /\ (S # {} => budget.files > 0)
      BY <3>1
    <3> HIDE DEF S
    <3>4. Cardinality(S) <= budget.files
      BY <3>2, <3>3, AtMostOne
    <3>5. QED
      BY <3>4 DEF S
  <2>6. Cardinality({n \in DOMAIN all : Repairs(all[n].rounds) > 0}) <= budget.repairs
    <3>1. budget.repairs \in Nat
      BY <2>1
    <3> DEFINE S == {n \in DOMAIN all : Repairs(all[n].rounds) > 0}
    <3>2. S \subseteq {Len(all)} /\ (S # {} => budget.repairs > 0)
      BY <2>1, <2>3
    <3> HIDE DEF S
    <3>3. Cardinality(S) <= budget.repairs
      BY <3>1, <3>2, AtMostOne
    <3>4. QED
      BY <3>3 DEF S
  <2>7. SessionIsNeverRefused
    BY DEF PlannerInv, SessionInv, Alone, SessionIsNeverRefused
  <2>8. QED
    BY <2>4, <2>5, <2>6, <2>7 DEF AllowanceIsExact, AllowanceHolds, all
<1>4. QED
  BY <1>1, <1>2, <1>3, PTL

-----------------------------------------------------------------------------
(* A conversation *)

TransportTypeOK ==
    /\ conversation \in Conversations \cup {Absent}
    /\ sending \in BOOLEAN /\ terminalFailure \in BOOLEAN
    /\ call \in [Calls -> [stage : {"idle", "starting", "sent", "released", "completed", "failed"},
                           aborted : BOOLEAN, tools : BOOLEAN, input : Seq(Kinds),
                           release : Releases \cup {Absent}]]
    /\ sent \in Seq([by : Calls, input : Seq(Kinds), tools : BOOLEAN])

Stage(c) == call[c].stage
Active(c) == Stage(c) \in {"starting", "sent", "released"}
Asked(n) == sent[n].by
Output(n) == call[Asked(n)].release.output

\* One call is under way at most, none once a failure or an answer ended it.
CallsInv ==
    /\ \A c, d \in Calls : Active(c) /\ Active(d) => c = d
    /\ ~terminalFailure => /\ \A c \in Calls : Stage(c) # "failed"
                           /\ (\E c \in Calls : Active(c)) => sending
    /\ \A c \in Calls : Stage(c) \in {"released", "completed"} => call[c].release # Absent
    /\ \A c \in Calls : Stage(c) = "completed" => call[c].release.id \in requestIds
    /\ \A c, d \in Calls : Stage(c) = "completed" /\ Stage(d) = "completed" /\ c # d =>
           call[c].release.id # call[d].release.id

\* What was sent was sent by a call of its own; all but the last of them are completed, and
\* a call that is yet to be sent comes after completed ones only.
SentInv ==
    /\ \A n \in DOMAIN sent :
        /\ Stage(Asked(n)) \notin {"idle", "starting"}
        /\ sent[n].input = call[Asked(n)].input /\ sent[n].tools = call[Asked(n)].tools
        /\ n # Len(sent) => Stage(Asked(n)) = "completed"
        /\ \A o \in DOMAIN sent : Asked(o) = Asked(n) => o = n
    /\ \A c \in Calls : Stage(c) = "starting" => \A n \in DOMAIN sent : Stage(Asked(n)) = "completed"
    /\ \A c \in Calls : Stage(c) \in {"sent", "released"} => sent # <<>> /\ Asked(Len(sent)) = c

\* The conversation is at one point: it may be asked, waits for its answer, has one, or has
\* a read to make.  What waits is what the call under way sends.
Unsent == /\ conversation.ready \/ conversation.expected # Absent
          /\ \A n \in DOMAIN sent : Stage(Asked(n)) = "completed"
PointInv ==
    /\ conversation.ready =>
        /\ conversation.expected = Absent /\ conversation.released = Absent /\ ~conversation.pendingRead
        /\ \A n \in DOMAIN sent : Stage(Asked(n)) = "completed"
    /\ conversation.expected # Absent =>
        /\ conversation.expected = conversation.input
        /\ ~conversation.ready /\ conversation.released = Absent /\ ~conversation.pendingRead
        /\ conversation.tools => conversation.phase = "assessment"
    /\ conversation.released # Absent =>
        /\ ~conversation.ready /\ conversation.expected = Absent /\ ~conversation.pendingRead
        /\ sent # <<>> /\ Stage(Asked(Len(sent))) = "completed"
        /\ conversation.released = [of |-> Asked(Len(sent)), output |-> Output(Len(sent))]
        /\ conversation.input = sent[Len(sent)].input /\ conversation.tools = sent[Len(sent)].tools
    /\ conversation.pendingRead =>
        /\ ~conversation.ready /\ conversation.expected = Absent /\ conversation.released = Absent
        /\ conversation.phase = "assessment"
        /\ sent # <<>> /\ Stage(Asked(Len(sent))) = "completed"
        /\ conversation.input = sent[Len(sent)].input \o Output(Len(sent))
        /\ Answer(Len(sent)) = "result" /\ sent[Len(sent)].tools

\* A request with this input and these tools tells on what follows the n-th.
Tells(n, input, tools) ==
    /\ Stage(Asked(n)) = "completed" /\ ~tools
    /\ input = sent[n].input \o Output(n) \o <<Answer(n)>>
    /\ Answer(n) = "result" => sent[n].tools /\ n = 1

\* How far a phase comes: the assessment is the first, the final one second, and a repair
\* comes after either.
Reaches(sofar) ==
    /\ conversation.phase = "assessment" => sofar = 0
    /\ conversation.phase = "final" => sofar = 1 /\ Answer(1) = "result"
    /\ conversation.phase = "repair" =>
        /\ sofar \in {1, 2} /\ Answer(sofar) = "instruction"
        /\ sofar = 2 => Answer(1) = "result"
StoryInv ==
    /\ \A n \in 1 .. Len(sent) - 1 : Tells(n, sent[n + 1].input, sent[n + 1].tools)
    /\ conversation = Absent => sent = <<>> /\ \A c \in Calls : ~Active(c)
    /\ conversation # Absent =>
        /\ PointInv
        /\ \A c \in Calls : Active(c) => /\ conversation.expected = call[c].input
                                         /\ conversation.tools = call[c].tools
        /\ Unsent => /\ Reaches(Len(sent))
                     /\ sent = <<>> => conversation.input = <<>>
                     /\ sent # <<>> => Tells(Len(sent), conversation.input, FALSE)
        /\ ~Unsent => sent # <<>> /\ Reaches(Len(sent) - 1)

TransportInv == TransportTypeOK /\ CallsInv /\ SentInv /\ StoryInv

-----------------------------------------------------------------------------

\* What the types give of a request that was sent.
LEMMA SentTypes ==
    ASSUME TransportTypeOK
    PROVE  /\ Len(sent) \in Nat /\ DOMAIN sent = 1 .. Len(sent) /\ (sent = <<>> <=> Len(sent) = 0)
           /\ \A n \in DOMAIN sent : /\ Asked(n) \in Calls /\ sent[n].input \in Seq(Kinds)
                                     /\ sent[n].tools \in BOOLEAN
<1> DEFINE S == [by : Calls, input : Seq(Kinds), tools : BOOLEAN]
<1>1. sent \in Seq(S)
  BY DEF TransportTypeOK
<1> HIDE DEF S
<1>2. /\ Len(sent) \in Nat /\ DOMAIN sent = 1 .. Len(sent) /\ (sent = <<>> <=> Len(sent) = 0)
      /\ \A n \in DOMAIN sent : sent[n] \in S
  BY <1>1
<1>3. QED
  BY <1>2 DEF S, Asked

\* What was completed stays what it was while another call moves.
LEMMA CompletedStays ==
    ASSUME TransportTypeOK, NEW c \in Calls, sent' = sent,
           \A d \in Calls : d # c => call'[d] = call[d],
           Stage(c) # "completed", call'[c].stage # "completed"
    PROVE  \A n \in DOMAIN sent :
              /\ Stage(Asked(n))' = "completed" <=> Stage(Asked(n)) = "completed"
              /\ Stage(Asked(n)) = "completed" => Output(n)' = Output(n) /\ Answer(n)' = Answer(n)
<1> SUFFICES ASSUME NEW n \in DOMAIN sent
             PROVE  /\ Stage(Asked(n))' = "completed" <=> Stage(Asked(n)) = "completed"
                    /\ Stage(Asked(n)) = "completed" => Output(n)' = Output(n) /\ Answer(n)' = Answer(n)
  OBVIOUS
<1>1. Asked(n) \in Calls /\ Asked(n)' = Asked(n)
  BY SentTypes DEF Asked
<1>2. CASE Asked(n) = c
  BY <1>1, <1>2 DEF Stage
<1>3. CASE Asked(n) # c
  BY <1>1, <1>3 DEF Stage, Output, Answer, Asked, Count
<1>4. QED
  BY <1>2, <1>3

\* How far the conversation has come does not change while its answers do not.
LEMMA ReachesStays ==
    ASSUME NEW k \in Nat, Reaches(k), conversation' = conversation,
           k # 0 => Answer(1)' = Answer(1) /\ Answer(k)' = Answer(k)
    PROVE  Reaches(k)'
  BY DEF Reaches

\* A call that moves without completing or beginning leaves the story as it was.
LEMMA StoryStays ==
    ASSUME TransportInv, NEW c \in Calls, sent' = sent, conversation' = conversation,
           \A d \in Calls : d # c => call'[d] = call[d],
           Stage(c) # "completed", call'[c].stage # "completed",
           Active(c)' => /\ conversation # Absent /\ conversation.expected = call'[c].input
                         /\ conversation.tools = call'[c].tools
    PROVE  StoryInv'
<1> USE DEF TransportInv
<1>1. /\ Len(sent) \in Nat /\ DOMAIN sent = 1 .. Len(sent) /\ (sent = <<>> <=> Len(sent) = 0)
      /\ \A n \in DOMAIN sent : n # Len(sent) => Stage(Asked(n)) = "completed"
  BY SentTypes DEF SentInv
<1>2. \A n \in DOMAIN sent :
         /\ Stage(Asked(n))' = "completed" <=> Stage(Asked(n)) = "completed"
         /\ Stage(Asked(n)) = "completed" => Output(n)' = Output(n) /\ Answer(n)' = Answer(n)
  BY CompletedStays
<1>3. Unsent' <=> Unsent
  BY <1>1, <1>2 DEF Unsent
<1>4. ASSUME NEW n \in 1 .. Len(sent) - 1 PROVE Tells(n, sent[n + 1].input, sent[n + 1].tools)'
  <2>1. n \in DOMAIN sent /\ Tells(n, sent[n + 1].input, sent[n + 1].tools)
    BY <1>1 DEF StoryInv
  <2>2. QED
    BY <1>2, <2>1 DEF Tells
<1>5. ASSUME conversation # Absent PROVE PointInv'
  <2>1. PointInv
    BY <1>5 DEF StoryInv
  <2>2. ASSUME sent # <<>>, Stage(Asked(Len(sent))) = "completed"
        PROVE  /\ Stage(Asked(Len(sent)))' = "completed" /\ Output(Len(sent))' = Output(Len(sent))
               /\ Answer(Len(sent))' = Answer(Len(sent)) /\ Asked(Len(sent))' = Asked(Len(sent))
    <3>1. Len(sent) \in DOMAIN sent
      BY <1>1, <2>2
    <3>2. QED
      BY <1>2, <2>2, <3>1 DEF Asked
  <2>3. (\A n \in DOMAIN sent : Stage(Asked(n)) = "completed") => \A n \in DOMAIN sent : Stage(Asked(n))' = "completed"
    BY <1>2
  <2>4. QED
    BY <2>1, <2>2, <2>3 DEF PointInv
<1>6. ASSUME conversation # Absent, NEW d \in Calls, Active(d)'
      PROVE  conversation.expected = call'[d].input /\ conversation.tools = call'[d].tools
  <2>1. CASE d = c
    BY <1>6, <2>1
  <2>2. CASE d # c
    <3>1. Active(d) /\ call'[d] = call[d]
      BY <1>6, <2>2 DEF Active, Stage
    <3>2. QED
      BY <1>6, <3>1 DEF StoryInv
  <2>3. QED
    BY <2>1, <2>2
<1>7. ASSUME conversation # Absent, Unsent
      PROVE  /\ Reaches(Len(sent))'
             /\ sent = <<>> => conversation.input = <<>>
             /\ sent # <<>> => Tells(Len(sent), conversation.input, FALSE)'
  <2>1. PICK k \in Nat : k = Len(sent)
    BY <1>1
  <2>2. /\ Reaches(k)
        /\ sent = <<>> => conversation.input = <<>>
        /\ sent # <<>> => Tells(k, conversation.input, FALSE)
    BY <1>7, <2>1 DEF StoryInv
  <2>3. \A n \in 1 .. k : Stage(Asked(n))' = "completed" /\ Output(n)' = Output(n) /\ Answer(n)' = Answer(n)
    BY <1>1, <1>2, <1>7, <2>1 DEF Unsent
  <2>4. Reaches(k)'
    BY <2>2, <2>3, ReachesStays
  <2>5. ASSUME sent # <<>> PROVE Tells(k, conversation.input, FALSE)'
    <3>1. k \in 1 .. k
      BY <1>1, <2>1, <2>5
    <3>2. Stage(Asked(k))' = "completed" /\ Output(k)' = Output(k) /\ Answer(k)' = Answer(k)
      BY <2>3, <3>1
    <3>3. Tells(k, conversation.input, FALSE)
      BY <2>2, <2>5
    <3>4. QED
      BY <3>2, <3>3 DEF Tells
  <2>6. QED
    BY <2>1, <2>2, <2>4, <2>5
<1>8. ASSUME conversation # Absent, ~Unsent
      PROVE  sent # <<>> /\ Reaches(Len(sent) - 1)'
  <2>1. sent # <<>> /\ Reaches(Len(sent) - 1)
    BY <1>8 DEF StoryInv
  <2>2. PICK k \in Nat : k = Len(sent) - 1
    <3>1. Len(sent) - 1 \in Nat
      BY <1>1, <2>1
    <3>2. QED
      BY <3>1
  <2>3. \A n \in 1 .. k : Answer(n)' = Answer(n)
    BY <1>1, <1>2, <2>2
  <2>4. Reaches(k)'
    BY <2>1, <2>2, <2>3, ReachesStays
  <2>5. QED
    BY <2>1, <2>2, <2>4
<1>9. ASSUME conversation = Absent PROVE sent = <<>> /\ \A d \in Calls : ~Active(d)'
  <2>1. ASSUME NEW d \in Calls, d # c PROVE ~Active(d)'
    BY <1>9, <2>1 DEF StoryInv, Active, Stage
  <2>2. QED
    BY <1>9, <2>1 DEF StoryInv
<1>10. QED
  BY <1>3, <1>4, <1>5, <1>6, <1>7, <1>8, <1>9 DEF StoryInv

\* A call that fails, is given up on or is answered leaves the calls and what was sent in order.
LEMMA CallsStay ==
    ASSUME TransportInv, NEW c \in Calls, sent' = sent, requestIds' = requestIds,
           \A d \in Calls : d # c => call'[d] = call[d],
           Stage(c) # "completed", call'[c].stage \in {"idle", "released", "failed"},
           call'[c].stage = "idle" => Stage(c) = "idle",
           call'[c].stage = "released" => Stage(c) \in {"sent", "released"} /\ call'[c].release # Absent,
           call'[c].input = call[c].input, call'[c].tools = call[c].tools,
           \/ terminalFailure' = TRUE
           \/ call'[c].stage # "failed" /\ UNCHANGED <<sending, terminalFailure>>
    PROVE  CallsInv' /\ SentInv'
<1> USE DEF TransportInv
<1>1. /\ Len(sent) \in Nat /\ DOMAIN sent = 1 .. Len(sent) /\ (sent = <<>> <=> Len(sent) = 0)
      /\ \A n \in DOMAIN sent : Asked(n) \in Calls /\ Asked(n)' = Asked(n)
  BY SentTypes DEF Asked
<1>2. \A d \in Calls : Active(d)' => Active(d)
  BY DEF Active, Stage
<1>3. \A d \in Calls : Stage(d)' = "completed" => Stage(d) = "completed" /\ call'[d] = call[d]
  BY DEF Stage
<1>4. CallsInv'
  <2>1. \A d, e \in Calls : Active(d)' /\ Active(e)' => d = e
    BY <1>2 DEF CallsInv
  <2>2. ASSUME ~terminalFailure'
        PROVE  (\A d \in Calls : Stage(d)' # "failed") /\ ((\E d \in Calls : Active(d)') => sending')
    BY <1>2, <2>2 DEF CallsInv, Stage
  <2>3. \A d \in Calls : Stage(d)' \in {"released", "completed"} => call'[d].release # Absent
    BY DEF CallsInv, Stage
  <2>4. QED
    BY <1>3, <2>1, <2>2, <2>3 DEF CallsInv
<1>5. \A n \in DOMAIN sent : Stage(Asked(n)) = "completed" => Stage(Asked(n))' = "completed"
  BY <1>1 DEF Stage
<1>6. ASSUME NEW n \in DOMAIN sent
      PROVE  /\ Stage(Asked(n))' \notin {"idle", "starting"}
             /\ sent[n].input = call'[Asked(n)].input /\ sent[n].tools = call'[Asked(n)].tools
  <2>1. /\ Stage(Asked(n)) \notin {"idle", "starting"} /\ Asked(n) \in Calls
        /\ sent[n].input = call[Asked(n)].input /\ sent[n].tools = call[Asked(n)].tools
    BY <1>1 DEF SentInv
  <2>2. CASE Asked(n) = c
    BY <1>1, <2>1, <2>2 DEF Stage
  <2>3. CASE Asked(n) # c
    BY <1>1, <2>1, <2>3 DEF Stage
  <2>4. QED
    BY <2>2, <2>3
<1>7. \A d \in Calls : /\ Stage(d)' = "starting" => Stage(d) = "starting"
                       /\ Stage(d)' \in {"sent", "released"} => Stage(d) \in {"sent", "released"}
  BY DEF Stage
<1>8. SentInv'
  BY <1>1, <1>5, <1>6, <1>7 DEF SentInv
<1>9. QED
  BY <1>4, <1>8

\* The type of a call that moves.
LEMMA CallTypes ==
    ASSUME TransportTypeOK, NEW c \in Calls, NEW next, call' = [call EXCEPT ![c] = next],
           next \in [stage : {"idle", "starting", "sent", "released", "completed", "failed"},
                     aborted : BOOLEAN, tools : BOOLEAN, input : Seq(Kinds), release : Releases \cup {Absent}],
           conversation' \in Conversations \cup {Absent},
           sent' \in Seq([by : Calls, input : Seq(Kinds), tools : BOOLEAN]),
           sending' \in BOOLEAN, terminalFailure' \in BOOLEAN
    PROVE  TransportTypeOK' /\ call'[c] = next /\ \A d \in Calls : d # c => call'[d] = call[d]
  BY DEF TransportTypeOK

\* A call that fails, whatever failed it, ends the conversation's calls.
LEMMA FailureIsKept ==
    ASSUME TransportInv, NEW c \in Calls, Fails(c), Stage(c) # "completed",
           UNCHANGED <<conversation, requestIds, sent>>
    PROVE  TransportInv'
<1> DEFINE next == [call[c] EXCEPT !.stage = "failed"]
<1>1. /\ call' = [call EXCEPT ![c] = next] /\ sending' = FALSE /\ terminalFailure' = TRUE
      /\ TransportTypeOK
  BY DEF Fails, Ends, TransportInv
<1>2. /\ next \in [stage : {"idle", "starting", "sent", "released", "completed", "failed"},
                   aborted : BOOLEAN, tools : BOOLEAN, input : Seq(Kinds), release : Releases \cup {Absent}]
      /\ next.stage = "failed" /\ next.input = call[c].input /\ next.tools = call[c].tools
  BY <1>1 DEF TransportTypeOK
<1> HIDE DEF next
<1>3. TransportTypeOK' /\ call'[c] = next /\ \A d \in Calls : d # c => call'[d] = call[d]
  BY <1>1, <1>2, CallTypes DEF TransportTypeOK
<1>4. CallsInv' /\ SentInv'
  BY <1>1, <1>2, <1>3, CallsStay
<1>5. StoryInv'
  BY <1>1, <1>2, <1>3, StoryStays DEF Active, Stage
<1>6. QED
  BY <1>3, <1>4, <1>5 DEF TransportInv

\* A call that is asked for takes up what the conversation expects.
LEMMA CallBegins ==
    ASSUME TransportInv, NEW c \in Calls, NEW tools \in BOOLEAN, NEW fits \in BOOLEAN, CompleteCall(c, tools, fits)
    PROVE  TransportInv'
<1>1. Stage(c) = "idle" /\ UNCHANGED <<conversation, requestIds, sent, drifted>> /\ TransportTypeOK
  BY DEF CompleteCall, Stage, TransportInv
<1>2. CASE Fails(c)
  BY <1>1, <1>2, FailureIsKept
<1>3. ASSUME ~Fails(c) PROVE TransportInv'
  <2> DEFINE next == [call[c] EXCEPT !.stage = "starting", !.tools = tools, !.input = conversation.expected]
  <2>1. /\ ~sending /\ ~terminalFailure /\ conversation # Absent /\ conversation.expected # Absent
        /\ conversation.tools = tools /\ sending' = TRUE /\ terminalFailure' = terminalFailure
        /\ call' = [call EXCEPT ![c].stage = "starting", ![c].tools = tools, ![c].input = conversation.expected]
    BY <1>3 DEF CompleteCall
  <2>2. call' = [call EXCEPT ![c] = next]
    BY <1>1, <2>1 DEF TransportTypeOK
  <2>3. /\ next \in [stage : {"idle", "starting", "sent", "released", "completed", "failed"},
                     aborted : BOOLEAN, tools : BOOLEAN, input : Seq(Kinds), release : Releases \cup {Absent}]
        /\ next.stage = "starting" /\ next.input = conversation.expected /\ next.tools = tools
    <3>1. conversation.expected \in Seq(Kinds)
      BY <1>1, <2>1 DEF TransportTypeOK, Conversations
    <3>2. QED
      BY <1>1, <3>1 DEF TransportTypeOK
  <2> HIDE DEF next
  <2>4. TransportTypeOK' /\ call'[c] = next /\ \A d \in Calls : d # c => call'[d] = call[d]
    BY <1>1, <2>1, <2>2, <2>3, CallTypes DEF TransportTypeOK
  <2>5. \A d \in Calls : ~Active(d) /\ Stage(d) # "failed"
    BY <2>1 DEF TransportInv, CallsInv
  <2>6. \A d \in Calls : Active(d)' => d = c
    BY <2>4, <2>5 DEF Active, Stage
  <2>7. CallsInv'
    <3>1. \A d \in Calls : Stage(d)' # "failed"
      BY <2>3, <2>4, <2>5 DEF Stage
    <3>2. \A d \in Calls : Stage(d)' \in {"released", "completed"} => call'[d] = call[d] /\ Stage(d)' = Stage(d)
      BY <2>3, <2>4 DEF Stage
    <3>3. \A d \in Calls : Stage(d)' \in {"released", "completed"} => call'[d].release # Absent
      BY <3>2 DEF TransportInv, CallsInv
    <3>4. \A d \in Calls : Stage(d)' = "completed" => Stage(d) = "completed" /\ call'[d] = call[d]
      BY <3>2
    <3>5. /\ \A d \in Calls : Stage(d)' = "completed" => call'[d].release.id \in requestIds'
          /\ \A d, e \in Calls : Stage(d)' = "completed" /\ Stage(e)' = "completed" /\ d # e =>
                call'[d].release.id # call'[e].release.id
      BY <1>1, <3>4 DEF TransportInv, CallsInv
    <3>6. QED
      BY <2>1, <2>6, <3>1, <3>3, <3>5 DEF CallsInv
  <2>8. ASSUME NEW n \in DOMAIN sent
        PROVE  /\ Asked(n) \in Calls /\ Asked(n)' = Asked(n) /\ Stage(Asked(n)) = "completed"
               /\ call'[Asked(n)] = call[Asked(n)]
    <3>1. Asked(n) \in Calls /\ Asked(n)' = Asked(n)
      BY <1>1, SentTypes DEF Asked
    <3>2. Stage(Asked(n)) \notin {"idle", "starting"}
      BY DEF TransportInv, SentInv
    <3>3. ~Active(Asked(n)) /\ Stage(Asked(n)) # "failed"
      BY <2>5, <3>1
    <3>4. Stage(Asked(n)) \in {"idle", "starting", "sent", "released", "completed", "failed"}
      BY <1>1, <3>1 DEF TransportTypeOK, Stage
    <3>5. Stage(Asked(n)) = "completed"
      BY <3>2, <3>3, <3>4 DEF Active
    <3>6. Asked(n) # c
      BY <1>1, <3>5
    <3>7. QED
      BY <2>4, <3>1, <3>5, <3>6
  <2>9. SentInv'
    <3>1. \A d \in Calls : Stage(d)' \notin {"sent", "released"}
      BY <2>3, <2>4, <2>5 DEF Active, Stage
    <3>2. \A n \in DOMAIN sent : Stage(Asked(n))' = "completed"
      BY <2>8 DEF Stage
    <3>3. QED
      BY <1>1, <2>8, <3>1, <3>2 DEF TransportInv, SentInv
  <2>10. StoryInv'
    BY <1>1, <2>1, <2>3, <2>4, StoryStays DEF Stage
  <2>11. QED
    BY <2>4, <2>7, <2>9, <2>10 DEF TransportInv
<1>4. QED
  BY <1>2, <1>3

\* What a call sends follows what was sent.
LEMMA CallIsSent ==
    ASSUME TransportInv, NEW c \in Calls, Ask(c)
    PROVE  TransportInv'
<1> DEFINE next == [call[c] EXCEPT !.stage = "sent"]
           message == [by |-> c, input |-> call[c].input, tools |-> call[c].tools]
<1>1. /\ Stage(c) = "starting" /\ Active(c) /\ TransportTypeOK /\ call' = [call EXCEPT ![c] = next]
      /\ sent' = Append(sent, message)
      /\ UNCHANGED <<conversation, sending, terminalFailure, requestIds, drifted>>
  BY DEF Ask, Ends, Stage, Active, TransportInv
<1>2. /\ next \in [stage : {"idle", "starting", "sent", "released", "completed", "failed"},
                   aborted : BOOLEAN, tools : BOOLEAN, input : Seq(Kinds), release : Releases \cup {Absent}]
      /\ next.stage = "sent" /\ next.input = call[c].input /\ next.tools = call[c].tools
      /\ next.release = call[c].release
  BY <1>1 DEF TransportTypeOK
<1>3. /\ message \in [by : Calls, input : Seq(Kinds), tools : BOOLEAN] /\ message.by = c
      /\ message.input = call[c].input /\ message.tools = call[c].tools
  BY <1>1 DEF TransportTypeOK
<1>4. /\ Len(sent) \in Nat /\ DOMAIN sent = 1 .. Len(sent) /\ (sent = <<>> <=> Len(sent) = 0)
      /\ \A n \in DOMAIN sent : Asked(n) \in Calls
  BY <1>1, SentTypes
<1> HIDE DEF next, message
<1>5. PICK k \in Nat : k = Len(sent)
  BY <1>4
<1>6. /\ sent' \in Seq([by : Calls, input : Seq(Kinds), tools : BOOLEAN])
      /\ Len(sent') = k + 1 /\ DOMAIN sent' = 1 .. k + 1 /\ sent' # <<>>
      /\ sent'[k + 1] = message /\ \A n \in 1 .. k : sent'[n] = sent[n]
  <2> DEFINE S == [by : Calls, input : Seq(Kinds), tools : BOOLEAN]
  <2>1. sent \in Seq(S) /\ message \in S
    BY <1>1, <1>3 DEF TransportTypeOK
  <2> HIDE DEF S
  <2>2. /\ sent' \in Seq(S) /\ Len(sent') = k + 1 /\ DOMAIN sent' = 1 .. k + 1 /\ sent' # <<>>
        /\ sent'[k + 1] = message /\ \A n \in 1 .. k : sent'[n] = sent[n]
    BY <1>1, <1>5, <2>1
  <2>3. QED
    BY <2>2 DEF S
<1>7. TransportTypeOK' /\ call'[c] = next /\ \A d \in Calls : d # c => call'[d] = call[d]
  BY <1>1, <1>2, <1>6, CallTypes DEF TransportTypeOK
<1>8. CallsInv'
  <2>1. \A d \in Calls : Active(d)' <=> Active(d)
    BY <1>1, <1>2, <1>7 DEF Active, Stage
  <2>2. \A d \in Calls : /\ Stage(d)' = "completed" => Stage(d) = "completed" /\ call'[d] = call[d]
                         /\ Stage(d)' = "released" => call'[d] = call[d]
                         /\ Stage(d)' = "failed" => Stage(d) = "failed"
    BY <1>2, <1>7 DEF Stage
  <2>3. \A d \in Calls : Stage(d)' \in {"released", "completed"} => call'[d].release # Absent
    BY <2>2 DEF TransportInv, CallsInv, Stage
  <2>4. QED
    BY <1>1, <2>1, <2>2, <2>3 DEF TransportInv, CallsInv
<1>9. ASSUME NEW n \in 1 .. k
      PROVE  /\ Stage(Asked(n)) = "completed" /\ Asked(n) # c /\ Asked(n)' = Asked(n)
             /\ Asked(n) \in Calls /\ call'[Asked(n)] = call[Asked(n)] /\ sent'[n] = sent[n]
             /\ Output(n)' = Output(n) /\ Answer(n)' = Answer(n) /\ Stage(Asked(n))' = "completed"
  <2>1. Stage(Asked(n)) = "completed" /\ Asked(n) \in Calls
    BY <1>1, <1>4, <1>5 DEF TransportInv, SentInv
  <2>2. Asked(n) # c
    BY <1>1, <2>1
  <2>3. Asked(n)' = Asked(n) /\ call'[Asked(n)] = call[Asked(n)] /\ sent'[n] = sent[n]
    BY <1>6, <1>7, <2>1, <2>2 DEF Asked
  <2>4. Output(n)' = Output(n) /\ Answer(n)' = Answer(n)
    BY <2>3 DEF Output, Answer, Asked, Count
  <2>5. QED
    BY <2>1, <2>2, <2>3, <2>4 DEF Stage
<1>10. Asked(k + 1)' = c /\ Stage(c)' = "sent"
  BY <1>2, <1>3, <1>6, <1>7 DEF Asked, Stage
<1>11. SentInv'
  <2>1. ASSUME NEW n \in DOMAIN sent'
        PROVE  /\ Stage(Asked(n))' \notin {"idle", "starting"}
               /\ sent'[n].input = call'[Asked(n)'].input /\ sent'[n].tools = call'[Asked(n)'].tools
               /\ n # k + 1 => Stage(Asked(n))' = "completed"
               /\ \A o \in DOMAIN sent' : Asked(o)' = Asked(n)' => o = n
    <3>1. CASE n \in 1 .. k
      <4>1. /\ sent[n].input = call[Asked(n)].input /\ sent[n].tools = call[Asked(n)].tools
            /\ \A o \in 1 .. k : Asked(o) = Asked(n) => o = n
        BY <1>4, <1>5, <3>1 DEF TransportInv, SentInv
      <4>2. ASSUME NEW o \in DOMAIN sent', Asked(o)' = Asked(n)' PROVE o = n
        <5>1. o # k + 1
          BY <1>9, <1>10, <3>1, <4>2
        <5>2. o \in 1 .. k
          BY <1>6, <5>1
        <5>3. QED
          BY <1>9, <3>1, <4>1, <4>2, <5>2
      <4>3. QED
        BY <1>9, <3>1, <4>1, <4>2
    <3>2. CASE n = k + 1
      <4>1. ASSUME NEW o \in DOMAIN sent', Asked(o)' = Asked(n)' PROVE o = n
        <5>1. o \in 1 .. k => Asked(o)' # c
          BY <1>9
        <5>2. QED
          BY <1>6, <1>10, <3>2, <4>1, <5>1
      <4>2. QED
        BY <1>2, <1>3, <1>6, <1>7, <1>10, <3>2, <4>1
    <3>3. QED
      BY <1>6, <3>1, <3>2
  <2>2. \A d \in Calls : d # c => ~Active(d)
    BY <1>1 DEF TransportInv, CallsInv
  <2>3. \A d \in Calls : /\ Stage(d)' # "starting"
                         /\ Stage(d)' \in {"sent", "released"} => d = c
    BY <1>7, <1>10, <2>2 DEF Active, Stage
  <2>4. QED
    BY <1>6, <1>10, <2>1, <2>3 DEF SentInv
<1>12. /\ conversation # Absent /\ conversation.expected = call[c].input /\ conversation.tools = call[c].tools
       /\ conversation.expected # Absent
  <2>1. call[c].input \in Seq(Kinds)
    BY <1>1 DEF TransportTypeOK
  <2>2. QED
    BY <1>1, <2>1, TransportAssumption DEF TransportInv, StoryInv
<1>13. Unsent /\ PointInv
  BY <1>1, <1>12 DEF Unsent, TransportInv, SentInv, StoryInv
<1>14. /\ Reaches(k)
       /\ k = 0 => conversation.input = <<>>
       /\ k # 0 => Tells(k, conversation.input, FALSE)
  BY <1>4, <1>5, <1>12, <1>13 DEF TransportInv, StoryInv
<1>15. ASSUME NEW n \in 1 .. k PROVE Tells(n, sent[n + 1].input, sent[n + 1].tools)'
  <2>1. CASE n # k
    <3>1. n \in 1 .. Len(sent) - 1 /\ n + 1 \in 1 .. k
      BY <1>5, <2>1
    <3>2. Tells(n, sent[n + 1].input, sent[n + 1].tools) /\ sent'[n + 1] = sent[n + 1]
      BY <1>6, <3>1 DEF TransportInv, StoryInv
    <3>3. QED
      BY <1>9, <3>2 DEF Tells
  <2>2. CASE n = k
    <3>1. sent'[n + 1].input = conversation.input /\ sent'[n + 1].tools = FALSE
      <4>1. ~conversation.tools
        BY <1>12, <1>13, <1>14, <2>2 DEF PointInv, Reaches, TransportTypeOK
      <4>2. conversation.tools \in BOOLEAN
        BY <1>1, <1>12 DEF TransportTypeOK, Conversations
      <4>3. QED
        BY <1>3, <1>6, <1>12, <1>13, <2>2, <4>1, <4>2 DEF PointInv
    <3>2. Tells(n, conversation.input, FALSE)
      <4>1. k # 0
        BY <2>2
      <4>2. Tells(k, conversation.input, FALSE)
        BY <1>14, <4>1
      <4>3. QED
        BY <2>2, <4>2
    <3>3. QED
      BY <1>9, <3>1, <3>2 DEF Tells
  <2>3. QED
    BY <2>1, <2>2
<1>16. ~Unsent' /\ PointInv'
  <2>1. k + 1 \in DOMAIN sent' /\ Stage(Asked(k + 1))' # "completed"
    BY <1>6, <1>10 DEF Stage
  <2>2. QED
    BY <1>1, <1>12, <1>13, <2>1 DEF Unsent, PointInv
<1>17. Reaches(k)'
  BY <1>1, <1>9, <1>14, ReachesStays
<1>18. \A d \in Calls : Active(d)' => conversation.expected = call'[d].input /\ conversation.tools = call'[d].tools
  <2>1. \A d \in Calls : d # c => ~Active(d)
    BY <1>1 DEF TransportInv, CallsInv
  <2>2. \A d \in Calls : Active(d)' => d = c
    BY <1>7, <2>1 DEF Active, Stage
  <2>3. QED
    BY <1>2, <1>7, <1>12, <2>2
<1>19. StoryInv'
  <2>1. Len(sent') - 1 = k
    BY <1>6
  <2>2. QED
    BY <1>1, <1>6, <1>12, <1>15, <1>16, <1>17, <1>18, <2>1 DEF StoryInv
<1>20. QED
  BY <1>7, <1>8, <1>11, <1>19 DEF TransportInv

\* What a call accepts is the answer to the last that was sent.
LEMMA CallIsAnswered ==
    ASSUME TransportInv, NEW c \in Calls, Accept(c)
    PROVE  TransportInv'
<1>1. Stage(c) = "released" /\ Active(c) /\ sent' = sent /\ TransportTypeOK
  BY DEF Accept, Stage, Active, TransportInv
<1>2. CASE ~Releasable(c)
  <2>1. Fails(c) /\ UNCHANGED <<conversation, requestIds, sent>>
    BY <1>2 DEF Accept
  <2>2. QED
    BY <1>1, <2>1, FailureIsKept
<1>3. ASSUME Releasable(c) PROVE TransportInv'
  <2> DEFINE next == [call[c] EXCEPT !.stage = "completed"]
             heard == [of |-> c, output |-> call[c].release.output]
  <2>1. /\ call' = [call EXCEPT ![c] = next] /\ sending' = FALSE /\ terminalFailure' = terminalFailure
        /\ requestIds' = requestIds \cup {call[c].release.id} /\ call[c].release.id \notin requestIds
        /\ conversation' = [conversation EXCEPT !.expected = Absent, !.released = heard]
    BY <1>3 DEF Accept, Releasable, Ends
  <2>2. call[c].release \in Releases /\ call[c].release.output \in PortOutputs /\ call[c].input \in Seq(Kinds)
    BY <1>1, TransportAssumption DEF TransportInv, CallsInv, TransportTypeOK, Releases
  <2>3. /\ next \in [stage : {"idle", "starting", "sent", "released", "completed", "failed"},
                     aborted : BOOLEAN, tools : BOOLEAN, input : Seq(Kinds), release : Releases \cup {Absent}]
        /\ next.stage = "completed" /\ next.input = call[c].input /\ next.tools = call[c].tools
        /\ next.release = call[c].release
    BY <1>1 DEF TransportTypeOK
  <2>4. heard \in Completions
    BY <2>2 DEF Completions
  <2> HIDE DEF next, heard
  <2>5. /\ conversation \in Conversations /\ conversation # Absent /\ PointInv
        /\ conversation.expected = call[c].input /\ conversation.tools = call[c].tools
        /\ conversation.expected # Absent
    BY <1>1, <2>2, TransportAssumption DEF TransportInv, StoryInv, TransportTypeOK
  <2>6. /\ conversation' \in Conversations /\ conversation'.input = conversation.input
        /\ conversation'.phase = conversation.phase /\ conversation'.ready = conversation.ready
        /\ conversation'.expected = Absent /\ conversation'.tools = conversation.tools
        /\ conversation'.released = heard /\ conversation'.pendingRead = conversation.pendingRead
    BY <2>1, <2>4, <2>5 DEF Conversations
  <2>7. TransportTypeOK' /\ call'[c] = next /\ \A d \in Calls : d # c => call'[d] = call[d]
    BY <1>1, <2>1, <2>3, <2>6, CallTypes DEF TransportTypeOK
  <2>8. \A d \in Calls : ~Active(d)'
    <3>1. \A d \in Calls : d # c => ~Active(d)
      BY <1>1 DEF TransportInv, CallsInv
    <3>2. QED
      BY <2>3, <2>7, <3>1 DEF Active, Stage
  <2>9. CallsInv'
    <3>1. ~terminalFailure' => \A d \in Calls : Stage(d)' # "failed"
      BY <2>1, <2>3, <2>7 DEF TransportInv, CallsInv, Stage
    <3>2. \A d \in Calls : Stage(d)' \in {"released", "completed"} => call'[d].release # Absent
      BY <1>1, <2>3, <2>7 DEF TransportInv, CallsInv, Stage
    <3>3. \A d \in Calls : Stage(d)' = "completed" /\ d # c =>
              Stage(d) = "completed" /\ call'[d] = call[d] /\ call[d].release.id \in requestIds
      BY <2>7 DEF TransportInv, CallsInv, Stage
    <3>4. call'[c].release.id = call[c].release.id /\ call[c].release.id \notin requestIds
      BY <2>1, <2>3, <2>7
    <3>5. \A d \in Calls : Stage(d)' = "completed" => call'[d].release.id \in requestIds'
      BY <2>1, <3>3, <3>4
    <3>6. ASSUME NEW d \in Calls, NEW e \in Calls, Stage(d)' = "completed", Stage(e)' = "completed", d # e
          PROVE  call'[d].release.id # call'[e].release.id
      <4>1. CASE d = c \/ e = c
        BY <3>3, <3>4, <3>6, <4>1
      <4>2. CASE d # c /\ e # c
        BY <3>3, <3>6, <4>2 DEF TransportInv, CallsInv
      <4>3. QED
        BY <4>1, <4>2
    <3>7. QED
      BY <2>8, <3>1, <3>2, <3>5, <3>6 DEF CallsInv
  <2>10. /\ Len(sent) \in Nat /\ DOMAIN sent = 1 .. Len(sent) /\ (sent = <<>> <=> Len(sent) = 0)
         /\ \A n \in DOMAIN sent : Asked(n) \in Calls /\ Asked(n)' = Asked(n)
    BY <1>1, SentTypes DEF Asked
  <2>11. sent # <<>> /\ Asked(Len(sent)) = c /\ Len(sent) \in DOMAIN sent
    BY <1>1, <2>10 DEF TransportInv, SentInv
  <2>12. \A n \in DOMAIN sent :
           /\ Stage(Asked(n)) \notin {"idle", "starting"}
           /\ sent[n].input = call[Asked(n)].input /\ sent[n].tools = call[Asked(n)].tools
           /\ n # Len(sent) => Stage(Asked(n)) = "completed" /\ Asked(n) # c
           /\ \A o \in DOMAIN sent : Asked(o) = Asked(n) => o = n
    BY <2>11 DEF TransportInv, SentInv
  <2>13. ASSUME NEW n \in DOMAIN sent
         PROVE  /\ Stage(Asked(n))' = "completed"
                /\ n # Len(sent) => /\ call'[Asked(n)] = call[Asked(n)] /\ Output(n)' = Output(n)
                                    /\ Answer(n)' = Answer(n) /\ Stage(Asked(n)) = "completed"
    <3>1. CASE n = Len(sent)
      BY <2>3, <2>7, <2>10, <2>11, <3>1 DEF Stage
    <3>2. CASE n # Len(sent)
      <4>1. Asked(n) # c /\ Asked(n) \in Calls /\ Asked(n)' = Asked(n) /\ Stage(Asked(n)) = "completed"
        BY <2>10, <2>12, <3>2
      <4>2. call'[Asked(n)] = call[Asked(n)]
        BY <2>7, <4>1
      <4>3. QED
        BY <1>1, <3>2, <4>1, <4>2 DEF Stage, Output, Answer, Asked, Count
    <3>3. QED
      BY <3>1, <3>2
  <2>14. SentInv'
    <3>1. ASSUME NEW n \in DOMAIN sent
          PROVE  sent[n].input = call'[Asked(n)].input /\ sent[n].tools = call'[Asked(n)].tools
      <4>1. CASE Asked(n) = c
        BY <2>3, <2>7, <2>12, <4>1
      <4>2. CASE Asked(n) # c
        BY <2>7, <2>10, <2>12, <4>2
      <4>3. QED
        BY <4>1, <4>2
    <3>2. \A d \in Calls : Stage(d)' \notin {"starting", "sent", "released"}
      BY <2>8 DEF Active
    <3>3. QED
      BY <1>1, <2>10, <2>12, <2>13, <3>1, <3>2 DEF SentInv
  <2>15. ~conversation.ready /\ ~conversation.pendingRead
    BY <2>5 DEF PointInv
  <2>16. PointInv'
    <3>1. sent[Len(sent)].input = conversation.input /\ sent[Len(sent)].tools = conversation.tools
      BY <2>5, <2>11, <2>12 DEF PointInv
    <3>2. heard = [of |-> Asked(Len(sent))', output |-> Output(Len(sent))']
      BY <1>1, <2>3, <2>7, <2>10, <2>11 DEF heard, Output, Asked
    <3>3. QED
      BY <1>1, <2>6, <2>11, <2>13, <2>15, <3>1, <3>2 DEF PointInv
  <2>17. ~Unsent /\ ~Unsent'
    <3>1. ~Unsent
      BY <1>1, <2>11 DEF Unsent
    <3>2. ~Unsent'
      BY <2>6, <2>15 DEF Unsent
    <3>3. QED
      BY <3>1, <3>2
  <2>18. PICK k \in Nat : k = Len(sent) - 1
    <3>1. Len(sent) - 1 \in Nat
      BY <2>10, <2>11
    <3>2. QED
      BY <3>1
  <2>19. Reaches(k)'
    <3>1. Reaches(k)
      BY <2>5, <2>17, <2>18 DEF TransportInv, StoryInv
    <3>2. k # 0 => Answer(1)' = Answer(1) /\ Answer(k)' = Answer(k)
      BY <2>10, <2>13, <2>18
    <3>3. QED
      BY <2>6, <3>1, <3>2 DEF Reaches
  <2>20. ASSUME NEW n \in 1 .. k PROVE Tells(n, sent[n + 1].input, sent[n + 1].tools)'
    <3>1. n \in DOMAIN sent /\ n # Len(sent) /\ n \in 1 .. Len(sent) - 1
      <4>1. Len(sent) \in Nat /\ Len(sent) = k + 1 /\ DOMAIN sent = 1 .. k + 1
        BY <2>10, <2>18
      <4>2. QED
        BY <4>1
    <3>2. Tells(n, sent[n + 1].input, sent[n + 1].tools)
      BY <3>1 DEF TransportInv, StoryInv
    <3>3. QED
      BY <1>1, <2>13, <3>1, <3>2 DEF Tells
  <2>21. StoryInv'
    <3>1. conversation' = Absent => sent = <<>>
      BY <2>6, TransportAssumption
    <3>2. QED
      BY <1>1, <2>8, <2>11, <2>16, <2>17, <2>18, <2>19, <2>20, <3>1 DEF StoryInv
  <2>22. QED
    BY <2>7, <2>9, <2>14, <2>21 DEF TransportInv
<1>4. QED
  BY <1>2, <1>3

\* What the conversation does by itself leaves the calls and what was sent alone.
LEMMA OthersRest ==
    ASSUME TransportInv, NEW next \in Conversations, Converses(next)
    PROVE  /\ TransportTypeOK' /\ CallsInv' /\ SentInv' /\ conversation' = next /\ next # Absent
           /\ sent' = sent /\ call' = call
           /\ \A n : Tells(n, sent[n + 1].input, sent[n + 1].tools)' <=> Tells(n, sent[n + 1].input, sent[n + 1].tools)
<1>1. /\ conversation' = next /\ next # Absent
      /\ UNCHANGED <<sending, terminalFailure, requestIds, call, sent, drifted>>
  BY TransportAssumption DEF Converses
<1>2. TransportTypeOK'
  BY <1>1 DEF TransportInv, TransportTypeOK
<1>3. CallsInv' /\ SentInv'
  BY <1>1 DEF TransportInv, CallsInv, SentInv, Active, Stage, Asked
<1>4. \A n : Tells(n, sent[n + 1].input, sent[n + 1].tools)' <=> Tells(n, sent[n + 1].input, sent[n + 1].tools)
  BY <1>1 DEF Tells, Answer, Output, Asked, Stage
<1>5. QED
  BY <1>1, <1>2, <1>3, <1>4

\* While nothing is expected no call is under way.
LEMMA NoneUnderWay ==
    ASSUME TransportInv, conversation = Absent \/ conversation.expected = Absent
    PROVE  \A c \in Calls : ~Active(c)
<1> SUFFICES ASSUME NEW c \in Calls, Active(c) PROVE FALSE
  OBVIOUS
<1>1. call[c].input \in Seq(Kinds)
  BY DEF TransportInv, TransportTypeOK
<1>2. conversation # Absent
  BY DEF TransportInv, StoryInv
<1>3. conversation.expected = call[c].input
  BY <1>2 DEF TransportInv, StoryInv
<1>4. QED
  BY <1>1, <1>2, <1>3, TransportAssumption

\* A point the conversation comes to by itself, with no call under way, leaves the story whole.
LEMMA PointMoves ==
    ASSUME TransportInv, NEW next \in Conversations, Converses(next),
           \A c \in Calls : ~Active(c), PointInv',
           Unsent' => /\ Reaches(Len(sent))'
                      /\ sent = <<>> => next.input = <<>>
                      /\ sent # <<>> => Tells(Len(sent), conversation.input, FALSE)',
           ~Unsent' => sent # <<>> /\ Reaches(Len(sent) - 1)'
    PROVE  TransportInv'
<1>1. /\ TransportTypeOK' /\ CallsInv' /\ SentInv' /\ conversation' = next /\ next # Absent
      /\ sent' = sent /\ call' = call
      /\ \A n : Tells(n, sent[n + 1].input, sent[n + 1].tools)' <=> Tells(n, sent[n + 1].input, sent[n + 1].tools)
  BY OthersRest
<1>2. \A c \in Calls : ~Active(c)'
  BY <1>1 DEF Active, Stage
<1>3. \A n \in 1 .. Len(sent') - 1 : Tells(n, sent[n + 1].input, sent[n + 1].tools)'
  BY <1>1 DEF TransportInv, StoryInv
<1>4. StoryInv'
  BY <1>1, <1>2, <1>3 DEF StoryInv
<1>5. QED
  BY <1>1, <1>4 DEF TransportInv

\* The conversation begins, or asks.
LEMMA ConversationAsks ==
    ASSUME TransportInv, Converse \/ \E tools \in BOOLEAN : Request(tools)
    PROVE  TransportInv'
<1>1. /\ TransportTypeOK /\ Len(sent) \in Nat /\ DOMAIN sent = 1 .. Len(sent) /\ (sent = <<>> <=> Len(sent) = 0)
  BY SentTypes DEF TransportInv
<1>2. CASE Converse
  <2> DEFINE next == [input |-> <<>>, phase |-> "assessment", ready |-> TRUE, expected |-> Absent,
                      tools |-> FALSE, released |-> Absent, pendingRead |-> FALSE]
  <2>1. /\ conversation = Absent /\ Converses(next) /\ next \in Conversations
        /\ next.input = <<>> /\ next.phase = "assessment" /\ next.ready /\ next.expected = Absent
        /\ next.released = Absent /\ ~next.pendingRead
    BY <1>2 DEF Converse, Converses, Conversations
  <2> HIDE DEF next
  <2>2. sent = <<>> /\ sent' = sent /\ conversation' = next /\ Len(sent) = 0 /\ DOMAIN sent = {}
    BY <1>1, <2>1 DEF Converses, TransportInv, StoryInv
  <2>3. \A c \in Calls : ~Active(c)
    BY <2>1, NoneUnderWay
  <2>4. PointInv'
    BY <2>1, <2>2 DEF PointInv
  <2>5. Unsent' /\ Reaches(Len(sent))'
    BY <2>1, <2>2 DEF Unsent, Reaches
  <2>6. QED
    BY <2>1, <2>2, <2>3, <2>4, <2>5, PointMoves
<1>3. ASSUME NEW tools \in BOOLEAN, Request(tools) PROVE TransportInv'
  <2> DEFINE next == [conversation EXCEPT !.ready = FALSE, !.tools = tools, !.expected = conversation.input]
  <2>1. /\ conversation # Absent /\ conversation.ready /\ conversation.expected = Absent /\ Converses(next)
        /\ conversation.phase = "assessment" \/ ~tools
    BY <1>3 DEF Request
  <2>2. conversation \in Conversations /\ PointInv
    BY <1>1, <2>1 DEF TransportTypeOK, TransportInv, StoryInv
  <2>3. /\ next \in Conversations /\ next.input = conversation.input /\ next.phase = conversation.phase
        /\ ~next.ready /\ next.expected = conversation.input /\ next.tools = tools
        /\ next.released = conversation.released /\ next.pendingRead = conversation.pendingRead
        /\ next.expected # Absent
    BY <2>2, TransportAssumption DEF Conversations
  <2> HIDE DEF next
  <2>4. sent' = sent /\ call' = call /\ conversation' = next
    BY <2>1 DEF Converses
  <2>5. \A c \in Calls : ~Active(c)
    BY <2>1, NoneUnderWay
  <2>6. \A n \in DOMAIN sent : Stage(Asked(n)) = "completed"
    BY <2>1, <2>2 DEF PointInv
  <2>7. Unsent /\ Unsent'
    BY <2>1, <2>3, <2>4, <2>6 DEF Unsent, Stage, Asked
  <2>8. PointInv'
    BY <2>1, <2>2, <2>3, <2>4 DEF PointInv
  <2>9. /\ Reaches(Len(sent))
        /\ sent = <<>> => conversation.input = <<>>
        /\ sent # <<>> => Tells(Len(sent), conversation.input, FALSE)
    BY <2>1, <2>7 DEF TransportInv, StoryInv
  <2>10. Reaches(Len(sent))'
    BY <2>3, <2>4, <2>9 DEF Reaches, Answer, Asked
  <2>11. sent # <<>> => Tells(Len(sent), conversation.input, FALSE)'
    BY <2>3, <2>4, <2>9 DEF Tells, Answer, Asked, Output, Stage
  <2>12. QED
    BY <2>1, <2>3, <2>5, <2>7, <2>8, <2>9, <2>10, <2>11, PointMoves
<1>4. QED
  BY <1>2, <1>3

\* Where the conversation stands with an answer, or with a read to make.
LEMMA AnsweredAt ==
    ASSUME TransportInv, conversation # Absent, conversation.released # Absent \/ conversation.pendingRead
    PROVE  /\ conversation \in Conversations /\ PointInv /\ \A c \in Calls : ~Active(c)
           /\ Len(sent) \in Nat /\ Len(sent) # 0 /\ sent # <<>> /\ DOMAIN sent = 1 .. Len(sent)
           /\ ~Unsent /\ Reaches(Len(sent) - 1)
           /\ \A n \in DOMAIN sent : Stage(Asked(n)) = "completed"
           /\ sent[Len(sent)].input \in Seq(Kinds) /\ Output(Len(sent)) \in Seq(Kinds)
<1>1. conversation \in Conversations /\ PointInv /\ TransportTypeOK
  BY DEF TransportInv, StoryInv, TransportTypeOK
<1>2. /\ ~conversation.ready /\ conversation.expected = Absent /\ sent # <<>>
      /\ Stage(Asked(Len(sent))) = "completed"
  BY <1>1 DEF PointInv
<1>3. /\ Len(sent) \in Nat /\ DOMAIN sent = 1 .. Len(sent) /\ Len(sent) # 0
      /\ \A n \in DOMAIN sent : Asked(n) \in Calls /\ sent[n].input \in Seq(Kinds)
  BY <1>1, <1>2, SentTypes
<1>4. ~Unsent
  BY <1>2 DEF Unsent
<1>5. Reaches(Len(sent) - 1)
  BY <1>4 DEF TransportInv, StoryInv
<1>6. \A n \in DOMAIN sent : Stage(Asked(n)) = "completed"
  BY <1>2 DEF TransportInv, SentInv
<1>7. Output(Len(sent)) \in Seq(Kinds)
  <2>1. Len(sent) \in DOMAIN sent
    BY <1>3
  <2>2. PICK c \in Calls : c = Asked(Len(sent))
    BY <1>3, <2>1
  <2>3. Stage(c) = "completed"
    BY <1>2, <2>2
  <2>4. call[c].release # Absent /\ call[c].release \in Releases \cup {Absent}
    BY <1>1, <2>3 DEF TransportInv, CallsInv, TransportTypeOK
  <2>5. call[c].release.output \in PortOutputs
    BY <2>4 DEF Releases
  <2>6. QED
    BY <2>2, <2>5, TransportAssumption DEF Output
<1>8. \A c \in Calls : ~Active(c)
  BY <1>2, NoneUnderWay
<1>9. Len(sent) \in DOMAIN sent
  BY <1>3
<1>10. QED
  BY <1>1, <1>2, <1>3, <1>4, <1>5, <1>6, <1>7, <1>8, <1>9

\* The calls of an answer are taken into the conversation, which then has them to make.
LEMMA CallsAreTaken ==
    ASSUME TransportInv, NEW c \in Calls, CallsOf(c)
    PROVE  TransportInv'
<1> DEFINE next == [conversation EXCEPT !.input = @ \o conversation.released.output,
                                        !.released = Absent, !.pendingRead = TRUE]
<1>1. /\ conversation # Absent /\ conversation.released # Absent /\ Converses(next)
      /\ conversation.phase = "assessment" /\ conversation.tools
      /\ Count(conversation.released.output, "call") = 1
  BY DEF CallsOf, Holds
<1>2. /\ conversation \in Conversations /\ PointInv /\ \A d \in Calls : ~Active(d)
      /\ sent # <<>> /\ Reaches(Len(sent) - 1) /\ Stage(Asked(Len(sent))) = "completed"
      /\ sent[Len(sent)].input \in Seq(Kinds) /\ Output(Len(sent)) \in Seq(Kinds)
  BY <1>1, AnsweredAt DEF PointInv
<1>3. /\ ~conversation.ready /\ conversation.expected = Absent
      /\ conversation.released.output = Output(Len(sent))
      /\ conversation.input = sent[Len(sent)].input /\ conversation.tools = sent[Len(sent)].tools
  <2>1. PointInv
    BY <1>2
  <2>2. /\ ~conversation.ready /\ conversation.expected = Absent
        /\ conversation.released = [of |-> Asked(Len(sent)), output |-> Output(Len(sent))]
        /\ conversation.input = sent[Len(sent)].input /\ conversation.tools = sent[Len(sent)].tools
    BY <1>1, <2>1 DEF PointInv
  <2>3. QED
    BY <2>2
<1>4. conversation.input \o conversation.released.output \in Seq(Kinds)
  BY <1>2, <1>3
<1>5. /\ next \in Conversations /\ next.input = sent[Len(sent)].input \o Output(Len(sent))
      /\ next.phase = "assessment" /\ ~next.ready /\ next.expected = Absent
      /\ next.released = Absent /\ next.pendingRead = TRUE
  BY <1>1, <1>2, <1>3, <1>4 DEF Conversations
<1> HIDE DEF next
<1>6. sent' = sent /\ call' = call /\ conversation' = next
  BY <1>1 DEF Converses
<1>7. Answer(Len(sent)) = "result"
  BY <1>1, <1>3 DEF Answer, Output, Asked
<1>8. PointInv'
  BY <1>1, <1>2, <1>3, <1>5, <1>6, <1>7 DEF PointInv, Answer, Output, Asked, Stage
<1>9. ~Unsent'
  BY <1>5, <1>6 DEF Unsent
<1>10. Reaches(Len(sent) - 1)'
  BY <1>1, <1>2, <1>5, <1>6 DEF Reaches
<1>11. QED
  BY <1>1, <1>2, <1>5, <1>8, <1>9, <1>10, PointMoves

\* The read was the assessment's, and its result makes the final request.
LEMMA ReadIsMade ==
    ASSUME TransportInv, NEW c \in Calls, ReadOf(c)
    PROVE  TransportInv'
<1> DEFINE next == [conversation EXCEPT !.input = Append(@, "result"), !.pendingRead = FALSE,
                                        !.phase = "final", !.ready = TRUE]
<1>1. conversation # Absent /\ conversation.pendingRead /\ Converses(next)
  BY DEF ReadOf
<1>2. /\ conversation \in Conversations /\ PointInv /\ \A d \in Calls : ~Active(d)
      /\ Len(sent) \in Nat /\ Len(sent) # 0 /\ sent # <<>> /\ DOMAIN sent = 1 .. Len(sent)
      /\ Reaches(Len(sent) - 1) /\ \A n \in DOMAIN sent : Stage(Asked(n)) = "completed"
      /\ sent[Len(sent)].input \in Seq(Kinds) /\ Output(Len(sent)) \in Seq(Kinds)
  BY <1>1, AnsweredAt
<1>3. /\ conversation.expected = Absent /\ conversation.released = Absent /\ conversation.phase = "assessment"
      /\ conversation.input = sent[Len(sent)].input \o Output(Len(sent))
      /\ Answer(Len(sent)) = "result" /\ sent[Len(sent)].tools
  BY <1>1, <1>2 DEF PointInv
<1>4. Len(sent) = 1
  BY <1>2, <1>3 DEF Reaches
<1>5. /\ Append(conversation.input, "result") \in Seq(Kinds)
      /\ Append(conversation.input, "result") = conversation.input \o <<"result">>
  <2>1. conversation.input \in Seq(Kinds) /\ "result" \in Kinds
    BY <1>2 DEF Conversations, Kinds
  <2> HIDE DEF Kinds
  <2>2. QED
    BY <2>1, AppendIsConcat
<1>6. /\ next \in Conversations /\ next.input = Append(conversation.input, "result")
      /\ next.phase = "final" /\ next.ready = TRUE /\ next.expected = Absent
      /\ next.released = Absent /\ ~next.pendingRead
  BY <1>2, <1>3, <1>5 DEF Conversations
<1> HIDE DEF next
<1>7. sent' = sent /\ call' = call /\ conversation' = next
  BY <1>1 DEF Converses
<1>8. PointInv' /\ Unsent'
  BY <1>2, <1>6, <1>7 DEF PointInv, Unsent, Asked, Stage
<1>9. PICK k \in Nat : k = Len(sent) /\ k = 1
  BY <1>2, <1>4
<1>10. Answer(k) = "result" /\ Answer(k)' = Answer(k) /\ Answer(1)' = Answer(1)
  BY <1>3, <1>7, <1>9 DEF Answer, Asked
<1>11. Reaches(k)'
  BY <1>6, <1>7, <1>9, <1>10 DEF Reaches
<1>12. Tells(k, conversation.input, FALSE)'
  <2>1. Stage(Asked(k)) = "completed"
    BY <1>2, <1>9
  <2>2. Stage(Asked(k))' = "completed" /\ Output(k)' = Output(k)
    BY <1>7, <2>1 DEF Stage, Asked, Output
  <2>3. next.input = sent[k].input \o Output(k) \o <<"result">> /\ sent[k].tools
    BY <1>3, <1>5, <1>6, <1>9
  <2>4. QED
    BY <1>7, <1>9, <1>10, <2>2, <2>3 DEF Tells
<1>13. Converses(next)
  BY <1>1 DEF next
<1>14. QED
  BY <1>2, <1>6, <1>7, <1>8, <1>9, <1>11, <1>12, <1>13, PointMoves

\* A repair answers what had no call, and is the last.
LEMMA RepairIsMade ==
    ASSUME TransportInv, NEW c \in Calls, RepairOf(c)
    PROVE  TransportInv'
<1> DEFINE input == conversation.input \o conversation.released.output \o <<"instruction">>
           next == [conversation EXCEPT !.input = input, !.released = Absent, !.phase = "repair", !.ready = TRUE]
<1>1. /\ conversation # Absent /\ conversation.released # Absent /\ Converses(next)
      /\ conversation.phase # "repair" /\ Count(conversation.released.output, "call") = 0
  BY DEF RepairOf, Holds
<1>2. /\ conversation \in Conversations /\ PointInv /\ \A d \in Calls : ~Active(d)
      /\ Len(sent) \in Nat /\ Len(sent) # 0 /\ sent # <<>> /\ DOMAIN sent = 1 .. Len(sent)
      /\ Reaches(Len(sent) - 1) /\ \A n \in DOMAIN sent : Stage(Asked(n)) = "completed"
      /\ sent[Len(sent)].input \in Seq(Kinds) /\ Output(Len(sent)) \in Seq(Kinds)
  BY <1>1, AnsweredAt
<1>3. /\ conversation.expected = Absent /\ ~conversation.pendingRead
      /\ conversation.released.output = Output(Len(sent)) /\ conversation.input = sent[Len(sent)].input
  BY <1>1, <1>2 DEF PointInv
<1>4. input \in Seq(Kinds)
  <2>1. conversation.input \in Seq(Kinds) /\ conversation.released.output \in Seq(Kinds) /\ "instruction" \in Kinds
    BY <1>2, <1>3 DEF Kinds
  <2> HIDE DEF Kinds
  <2>2. QED
    BY <2>1
<1>5. input = sent[Len(sent)].input \o Output(Len(sent)) \o <<"instruction">>
  BY <1>3
<1> HIDE DEF input
<1>6. /\ next \in Conversations /\ next.input = input
      /\ next.phase = "repair" /\ next.ready = TRUE /\ next.expected = Absent
      /\ next.released = Absent /\ ~next.pendingRead
  BY <1>2, <1>3, <1>4 DEF Conversations
<1> HIDE DEF next
<1>7. sent' = sent /\ call' = call /\ conversation' = next
  BY <1>1 DEF Converses, input, next
<1>8. PointInv' /\ Unsent'
  BY <1>2, <1>6, <1>7 DEF PointInv, Unsent, Asked, Stage
<1>9. PICK k \in Nat : k = Len(sent) /\ k # 0
  BY <1>2
<1>10. Answer(k) = "instruction" /\ Answer(k)' = Answer(k) /\ Answer(1)' = Answer(1)
  BY <1>1, <1>3, <1>7, <1>9 DEF Answer, Output, Asked
<1>11. Reaches(k)'
  <2>1. \/ k = 1
        \/ k = 2 /\ Answer(1) = "result"
    <3>1. conversation.phase \in {"assessment", "final"}
      BY <1>1, <1>2 DEF Conversations
    <3>2. QED
      BY <1>2, <1>9, <3>1 DEF Reaches
  <2>2. QED
    BY <1>6, <1>7, <1>10, <2>1 DEF Reaches
<1>12. Tells(k, conversation.input, FALSE)'
  <2>1. Stage(Asked(k)) = "completed"
    BY <1>2, <1>9
  <2>2. Stage(Asked(k))' = "completed" /\ Output(k)' = Output(k)
    BY <1>7, <2>1 DEF Stage, Asked, Output
  <2>3. QED
    BY <1>5, <1>6, <1>7, <1>9, <1>10, <2>2 DEF Tells
<1>13. Converses(next)
  BY <1>1 DEF input, next
<1>14. QED
  BY <1>2, <1>6, <1>7, <1>8, <1>9, <1>11, <1>12, <1>13, PointMoves

\* A call that is given up on fails or notes it; one the port answers or rejects waits no more.
LEMMA CallIsLeft ==
    ASSUME TransportInv, NEW c \in Calls, GiveUp(c) \/ Reject(c)
    PROVE  TransportInv'
<1>1. Stage(c) # "completed" /\ UNCHANGED <<conversation, requestIds, sent, drifted>> /\ TransportTypeOK
  BY DEF GiveUp, Reject, Stage, TransportInv
<1>2. CASE Fails(c)
  BY <1>1, <1>2, FailureIsKept
<1>3. ASSUME ~Fails(c) PROVE TransportInv'
  <2> DEFINE next == [call[c] EXCEPT !.aborted = TRUE]
  <2>1. /\ Stage(c) \notin {"starting", "sent", "failed", "completed"}
        /\ call' = [call EXCEPT ![c].aborted = TRUE] /\ UNCHANGED <<sending, terminalFailure>>
    BY <1>3 DEF GiveUp, Reject, Stage
  <2>2. /\ next \in [stage : {"idle", "starting", "sent", "released", "completed", "failed"},
                     aborted : BOOLEAN, tools : BOOLEAN, input : Seq(Kinds), release : Releases \cup {Absent}]
        /\ next.stage = Stage(c) /\ next.input = call[c].input /\ next.tools = call[c].tools
        /\ next.release = call[c].release /\ Stage(c) \in {"idle", "released"}
    BY <1>1, <2>1 DEF TransportTypeOK, Stage
  <2>3. call' = [call EXCEPT ![c] = next]
    BY <1>1, <2>1 DEF TransportTypeOK
  <2> HIDE DEF next
  <2>4. TransportTypeOK' /\ call'[c] = next /\ \A d \in Calls : d # c => call'[d] = call[d]
    <3>1. /\ conversation' \in Conversations \cup {Absent}
          /\ sent' \in Seq([by : Calls, input : Seq(Kinds), tools : BOOLEAN])
          /\ sending' \in BOOLEAN /\ terminalFailure' \in BOOLEAN
      BY <1>1, <2>1 DEF TransportTypeOK
    <3>2. QED
      BY <1>1, <2>2, <2>3, <3>1, CallTypes
  <2>5. Stage(c) = "released" => call'[c].release # Absent
    BY <2>2, <2>4 DEF TransportInv, CallsInv
  <2>6. CallsInv' /\ SentInv'
    BY <1>1, <2>1, <2>2, <2>4, <2>5, CallsStay
  <2>7. Active(c)' => /\ conversation # Absent /\ conversation.expected = call'[c].input
                      /\ conversation.tools = call'[c].tools
    BY <2>2, <2>4 DEF Active, Stage, TransportInv, StoryInv
  <2>8. StoryInv'
    BY <1>1, <2>2, <2>4, <2>7, StoryStays
  <2>9. QED
    BY <2>4, <2>6, <2>8 DEF TransportInv
<1>4. QED
  BY <1>2, <1>3

\* What the port releases waits to be accepted.
LEMMA CallIsReleased ==
    ASSUME TransportInv, NEW c \in Calls, NEW id \in RequestIds, NEW output \in PortOutputs, NEW sound \in BOOLEAN,
           Release(c, id, output, sound)
    PROVE  TransportInv'
<1> DEFINE release == [id |-> id, output |-> output, sound |-> sound]
           next == [call[c] EXCEPT !.stage = "released", !.release = release]
<1>1. /\ Stage(c) = "sent" /\ UNCHANGED <<conversation, sending, terminalFailure, requestIds, sent, drifted>>
      /\ call' = [call EXCEPT ![c].stage = "released", ![c].release = release] /\ TransportTypeOK
  BY DEF Release, Stage, TransportInv
<1>2. release \in Releases /\ release # Absent
  BY TransportAssumption DEF Releases
<1> HIDE DEF release
<1>3. /\ next \in [stage : {"idle", "starting", "sent", "released", "completed", "failed"},
                   aborted : BOOLEAN, tools : BOOLEAN, input : Seq(Kinds), release : Releases \cup {Absent}]
      /\ next.stage = "released" /\ next.input = call[c].input /\ next.tools = call[c].tools
      /\ next.release = release
  BY <1>1, <1>2 DEF TransportTypeOK
<1>4. call' = [call EXCEPT ![c] = next]
  BY <1>1 DEF TransportTypeOK
<1> HIDE DEF next
<1>5. TransportTypeOK' /\ call'[c] = next /\ \A d \in Calls : d # c => call'[d] = call[d]
  BY <1>1, <1>3, <1>4, CallTypes DEF TransportTypeOK
<1>6. CallsInv' /\ SentInv'
  BY <1>1, <1>2, <1>3, <1>5, CallsStay
<1>7. Active(c)' => /\ conversation # Absent /\ conversation.expected = call'[c].input
                    /\ conversation.tools = call'[c].tools
  BY <1>1, <1>3, <1>5 DEF Active, TransportInv, StoryInv
<1>8. StoryInv'
  BY <1>1, <1>3, <1>5, <1>7, StoryStays
<1>9. QED
  BY <1>5, <1>6, <1>8 DEF TransportInv

\* Every step keeps the story.
LEMMA TransportKept == TransportInv /\ [TransportNext]_transportVars => TransportInv'
<1> SUFFICES ASSUME TransportInv, [TransportNext]_transportVars PROVE TransportInv'
  OBVIOUS
<1>1. CASE UNCHANGED <<conversation, sending, terminalFailure, requestIds, call, sent>>
  <2>1. TransportTypeOK' /\ CallsInv'
    BY <1>1 DEF TransportInv, TransportTypeOK, CallsInv, Active, Stage
  <2>2. SentInv'
    BY <1>1 DEF TransportInv, SentInv, Asked, Stage
  <2>3. PointInv' <=> PointInv
    BY <1>1 DEF PointInv, Answer, Output, Asked, Stage
  <2>4. Unsent' <=> Unsent
    BY <1>1 DEF Unsent, Asked, Stage
  <2>5. \A k : Reaches(k)' <=> Reaches(k)
    BY <1>1 DEF Reaches, Answer, Asked
  <2>6. \A k, input, tools : Tells(k, input, tools)' <=> Tells(k, input, tools)
    BY <1>1 DEF Tells, Answer, Output, Asked, Stage
  <2>7. StoryInv'
    BY <1>1, <2>3, <2>4, <2>5, <2>6 DEF TransportInv, StoryInv, Active, Stage
  <2>8. QED
    BY <2>1, <2>2, <2>7 DEF TransportInv
<1>2. CASE Drift \/ UNCHANGED transportVars
  BY <1>1, <1>2 DEF Drift, transportVars
<1>3. QED
  BY <1>2, ConversationAsks, CallsAreTaken, ReadIsMade, RepairIsMade, CallBegins, CallIsSent, CallIsLeft,
     CallIsAnswered, CallIsReleased DEF TransportNext

\* What reaches the port is one story (NativePlannerTransport.complete, NativeConversation).
THEOREM TheTransportTellsOneStory == TransportInit /\ [][TransportNext]_transportVars => []TransportTellsOneStory
<1>1. TransportInit => TransportInv
  <2> SUFFICES ASSUME TransportInit PROVE TransportInv
    OBVIOUS
  <2>1. TransportTypeOK
    <3>1. sent \in Seq([by : Calls, input : Seq(Kinds), tools : BOOLEAN])
      BY DEF TransportInit
    <3>2. <<>> \in Seq(Kinds)
      OBVIOUS
    <3>3. call \in [Calls -> [stage : {"idle", "starting", "sent", "released", "completed", "failed"},
                             aborted : BOOLEAN, tools : BOOLEAN, input : Seq(Kinds),
                             release : Releases \cup {Absent}]]
      BY <3>2 DEF TransportInit
    <3>4. QED
      BY <3>1, <3>3 DEF TransportInit, TransportTypeOK
  <2>2. CallsInv /\ SentInv
    BY DEF TransportInit, CallsInv, SentInv, Active, Stage
  <2>3. StoryInv
    BY DEF TransportInit, StoryInv, Active, Stage
  <2>4. QED
    BY <2>1, <2>2, <2>3 DEF TransportInv
<1>2. TransportInv => TransportTellsOneStory
  <2> SUFFICES ASSUME TransportInv, NEW n \in 1..(Len(sent) - 1)
               PROVE  /\ Stage(Asked(n)) = "completed" /\ ~sent[n + 1].tools
                      /\ \A o \in 1..(n - 1) : call[Asked(o)].release.id # call[Asked(n)].release.id
                      /\ sent[n + 1].input = sent[n].input \o Output(n) \o <<Answer(n)>>
                      /\ Answer(n) = "result" => sent[n].tools /\ n = 1
                      /\ Answer(n) = "instruction" => Len(sent) = n + 1
    BY DEF TransportTellsOneStory, Stage, Asked, Output
  <2>1. /\ Len(sent) \in Nat /\ DOMAIN sent = 1 .. Len(sent) /\ (sent = <<>> <=> Len(sent) = 0)
        /\ \A m \in DOMAIN sent : Asked(m) \in Calls
    BY SentTypes DEF TransportInv
  <2>2. Tells(n, sent[n + 1].input, sent[n + 1].tools)
    BY DEF TransportInv, StoryInv
  <2>3. ASSUME NEW o \in 1..(n - 1) PROVE call[Asked(o)].release.id # call[Asked(n)].release.id
    <3>1. o \in DOMAIN sent /\ n \in DOMAIN sent /\ o # n /\ o # Len(sent)
      <4>1. PICK k \in Nat : k = Len(sent)
        BY <2>1
      <4>2. n \in 1 .. k - 1 /\ o \in 1 .. n - 1 /\ DOMAIN sent = 1 .. k
        BY <2>1, <4>1
      <4>3. n \in 1 .. k /\ o \in 1 .. k /\ o # n /\ o # k
        BY <4>1, <4>2
      <4>4. QED
        BY <4>1, <4>2, <4>3
    <3>2. Asked(o) # Asked(n) /\ Stage(Asked(o)) = "completed" /\ Asked(o) \in Calls /\ Asked(n) \in Calls
      BY <2>1, <3>1 DEF TransportInv, SentInv
    <3>3. QED
      BY <2>2, <3>2 DEF Tells, TransportInv, CallsInv
  <2>4. ASSUME Answer(n) = "instruction" PROVE Len(sent) = n + 1
    <3>1. PICK m \in Nat : m = Len(sent)
      BY <2>1
    <3>2. n \in 1 .. m - 1 /\ m - 1 \in Nat /\ m \geq 2
      BY <3>1
    <3>3. sent # <<>>
      BY <2>1, <3>1, <3>2
    <3>4. conversation # Absent /\ conversation \in Conversations
      BY <3>3 DEF TransportInv, TransportTypeOK, StoryInv
    <3>5. conversation.phase \in {"assessment", "final", "repair"}
      BY <3>4 DEF Conversations
    <3>6. Reaches(m) \/ Reaches(m - 1)
      BY <3>1, <3>4 DEF TransportInv, StoryInv
    <3>7. ASSUME NEW k \in Nat, Reaches(k), m \in {k, k + 1} PROVE m = n + 1
      <4>1. k \in {0, 1, 2} /\ (k = 2 => Answer(1) = "result") /\ (k = 1 => Answer(1) \in {"result", "instruction"})
        BY <3>5, <3>7 DEF Reaches
      <4>2. CASE k = 2
        <5>1. n # 1
          BY <2>4, <4>1, <4>2
        <5>2. QED
          BY <3>2, <3>7, <4>2, <5>1
      <4>3. CASE k # 2
        BY <3>2, <3>7, <4>1, <4>3
      <4>4. QED
        BY <4>2, <4>3
    <3>8. QED
      BY <3>1, <3>2, <3>6, <3>7
  <2>5. QED
    BY <2>2, <2>3, <2>4 DEF Tells
<1>3. QED
  BY <1>1, <1>2, TransportKept, PTL

-----------------------------------------------------------------------------
(* One run of a coding harness *)

WorkerTypeOK ==
    /\ adapter \in {"chat", "native", "suite"}
    /\ printed \in Seq(HarnessEvents) /\ values \in Seq(HarnessEvents)
    /\ taken \in Nat /\ taken <= Len(printed)
    /\ invalid \in BOOLEAN /\ cancelled \in BOOLEAN /\ terminated \in BOOLEAN
    /\ overdue \in BOOLEAN /\ halfLine \in BOOLEAN

\* What was accepted is what was read, of one session and of calls that ran once.
ValuesAreRead ==
    /\ ~invalid => Len(values) = taken /\ \A n \in 1 .. taken : values[n] = printed[n]
    /\ \A m, n \in DOMAIN values :
        /\ values[m].session = values[n].session /\ values[n].type # "alien"
        /\ adapter # "chat" /\ m # n /\ values[m].type = "completed" /\ values[n].type = "completed"
               => values[m].of # values[n].of

\* A signal was sent for a reason that the verdict knows.
WorkerInv == WorkerTypeOK /\ ValuesAreRead /\ (terminated => cancelled \/ invalid)

\* What Take leaves, when it accepts the next event.
LEMMA AcceptedIsRead ==
    ASSUME WorkerInv, taken < Len(printed), Accepts(printed[taken + 1]),
           values' = Append(values, printed[taken + 1]), taken' = taken + 1,
           UNCHANGED <<adapter, printed, invalid>>
    PROVE  values' \in Seq(HarnessEvents) /\ taken' \in Nat /\ taken' <= Len(printed) /\ ValuesAreRead'
<1> DEFINE k == Len(values)
           e == printed[taken + 1]
<1>1. /\ k \in Nat /\ e \in HarnessEvents /\ values \in Seq(HarnessEvents) /\ DOMAIN values = 1 .. k
      /\ taken \in Nat /\ printed \in Seq(HarnessEvents)
  BY DEF WorkerInv, WorkerTypeOK
<1>2. /\ values' \in Seq(HarnessEvents) /\ Len(values') = k + 1 /\ DOMAIN values' = 1 .. k + 1
      /\ \A n \in 1 .. k : values'[n] = values[n]
      /\ values'[k + 1] = e
  <2>1. values' = Append(values, e)
    OBVIOUS
  <2> HIDE DEF e
  <2>2. QED
    BY <1>1, <2>1
<1>3. ~invalid' => Len(values') = taken' /\ \A n \in 1 .. taken' : values'[n] = printed'[n]
  BY <1>1, <1>2 DEF WorkerInv, ValuesAreRead
<1>4. /\ e.type # "alien"
      /\ k > 0 => e.session = values[1].session
      /\ adapter # "chat" /\ e.type = "completed" =>
            \A n \in 1 .. k : values[n].type = "completed" => values[n].of # e.of
  <2>1. k > 0 => values # <<>>
    BY <1>1
  <2>2. e.type # "alien" /\ Session \subseteq {e.session}
    BY DEF Accepts, ChatAccepts, NativeAccepts
  <2>3. k > 0 => values[1].session \in Session
    BY <2>1 DEF Session
  <2>4. adapter # "chat" /\ e.type = "completed" => e.of \notin CallsSeen
    BY DEF Accepts, NativeAccepts
  <2>5. \A n \in 1 .. k : values[n].type = "completed" => values[n].of \in CallsSeen
    BY <1>1 DEF CallsSeen
  <2> HIDE DEF e
  <2>6. QED
    BY <2>2, <2>3, <2>4, <2>5
<1>5. ASSUME NEW m \in DOMAIN values', NEW n \in DOMAIN values'
      PROVE  /\ values'[m].session = values'[n].session /\ values'[n].type # "alien"
             /\ adapter' # "chat" /\ m # n /\ values'[m].type = "completed" /\ values'[n].type = "completed"
                    => values'[m].of # values'[n].of
  <2>1. \A i, j \in 1 .. k :
            /\ values[i].session = values[j].session /\ values[j].type # "alien"
            /\ adapter # "chat" /\ i # j /\ values[i].type = "completed" /\ values[j].type = "completed"
                   => values[i].of # values[j].of
    BY <1>1 DEF WorkerInv, ValuesAreRead
  <2>2. m \in 1 .. k \/ m = k + 1
    BY <1>1, <1>2
  <2>3. n \in 1 .. k \/ n = k + 1
    BY <1>1, <1>2
  <2>4. \A i \in 1 .. k : values[i].session = e.session
    <3>1. \A i \in 1 .. k : 1 \in 1 .. k /\ k > 0
      BY <1>1
    <3>2. QED
      BY <1>4, <2>1, <3>1
  <2> HIDE DEF k, e
  <2>5. CASE m \in 1 .. k /\ n \in 1 .. k
    BY <1>2, <2>1, <2>5
  <2>6. CASE m = k + 1 /\ n \in 1 .. k
    BY <1>2, <1>4, <2>1, <2>4, <2>6
  <2>7. CASE m \in 1 .. k /\ n = k + 1
    BY <1>2, <1>4, <2>1, <2>4, <2>7
  <2>8. CASE m = k + 1 /\ n = k + 1
    BY <1>2, <1>4, <2>8
  <2>9. QED
    BY <2>2, <2>3, <2>5, <2>6, <2>7, <2>8
<1>6. QED
  BY <1>1, <1>2, <1>3, <1>5 DEF ValuesAreRead

\* Every step keeps it.
LEMMA WorkerKept == WorkerInv /\ [HarnessNext]_harnessVars => WorkerInv'
<1> SUFFICES ASSUME WorkerInv, [HarnessNext]_harnessVars PROVE WorkerInv'
  OBVIOUS
<1>1. ASSUME NEW event \in HarnessEvents, PrintEvent(event) PROVE WorkerInv'
  <2>1. /\ printed' = Append(printed, event) /\ printed \in Seq(HarnessEvents)
        /\ UNCHANGED <<adapter, values, taken, invalid, cancelled, terminated, overdue, halfLine>>
    BY <1>1 DEF PrintEvent, readerVars, WorkerInv, WorkerTypeOK
  <2>2. /\ printed' \in Seq(HarnessEvents) /\ Len(printed') = Len(printed) + 1
        /\ \A n \in 1 .. Len(printed) : printed'[n] = printed[n]
    BY <2>1
  <2>3. QED
    BY <2>1, <2>2 DEF WorkerInv, WorkerTypeOK, ValuesAreRead
<1>2. CASE Take
  <2>1. CASE Accepts(printed[taken + 1])
    <3>1. /\ taken < Len(printed) /\ taken' = taken + 1 /\ values' = Append(values, printed[taken + 1])
          /\ UNCHANGED <<adapter, printed, invalid, cancelled, terminated, overdue, halfLine>>
      BY <1>2, <2>1 DEF Take, processVars
    <3>2. QED
      BY <2>1, <3>1, AcceptedIsRead DEF WorkerInv, WorkerTypeOK
  <2>2. CASE ~Accepts(printed[taken + 1])
    <3>1. /\ taken < Len(printed) /\ taken' = taken + 1 /\ invalid'
          /\ terminated' = (terminated \/ harness = "running")
          /\ UNCHANGED <<adapter, printed, values, cancelled, overdue, halfLine>>
      BY <1>2, <2>2 DEF Take, processVars, Terminate
    <3>2. invalid' = TRUE
      BY <1>2, <2>2 DEF Take
    <3>3. QED
      BY <3>1, <3>2 DEF WorkerInv, WorkerTypeOK, ValuesAreRead
  <2>3. QED
    BY <2>1, <2>2
<1>3. CASE \/ \E content \in {"wanted", "other"} : Write(content)
           \/ \E code \in {"ok", "error"}, half \in BOOLEAN : EndChild(code, half)
           \/ SpawnFails \/ StderrLimit \/ TimePasses \/ DeadlineFires \/ CancelRun \/ KillTimer \/ Close
           \/ UNCHANGED harnessVars
  <2>1. /\ UNCHANGED <<adapter, printed, values, taken>>
        /\ invalid' \in BOOLEAN /\ cancelled' \in BOOLEAN /\ terminated' \in BOOLEAN
        /\ overdue' \in BOOLEAN /\ halfLine' \in BOOLEAN
        /\ (invalid => invalid') /\ (cancelled => cancelled')
        /\ terminated' => terminated \/ cancelled' \/ invalid'
    <3> USE DEF harnessVars, processVars, readerVars, WorkerInv, WorkerTypeOK
    <3>1. CASE \/ \E content \in {"wanted", "other"} : Write(content)
               \/ \E code \in {"ok", "error"}, half \in BOOLEAN : EndChild(code, half)
      BY <3>1 DEF Write, EndChild
    <3>2. CASE SpawnFails
      BY <3>2 DEF SpawnFails
    <3>3. CASE StderrLimit
      BY <3>3 DEF StderrLimit, Terminate
    <3>4. CASE DeadlineFires \/ CancelRun
      BY <3>4 DEF DeadlineFires, CancelRun, Terminate
    <3>5. CASE TimePasses \/ KillTimer
      <4>1. overdue' = overdue \/ overdue' = TRUE
        BY <3>5 DEF TimePasses, KillTimer
      <4>2. UNCHANGED <<adapter, printed, values, taken, halfLine, invalid, cancelled, terminated>>
        BY <3>5 DEF TimePasses, KillTimer
      <4>3. overdue' \in BOOLEAN
        BY <4>1
      <4>4. QED
        BY <4>2, <4>3
    <3>6. CASE Close
      BY <3>6 DEF Close
    <3>7. CASE UNCHANGED harnessVars
      BY <3>7
    <3>8. QED
      BY <1>3, <3>1, <3>2, <3>3, <3>4, <3>5, <3>6, <3>7
  <2>2. QED
    BY <2>1 DEF WorkerInv, WorkerTypeOK, ValuesAreRead
<1>4. QED
  BY <1>1, <1>2, <1>3 DEF HarnessNext

\* The close that reports a candidate.
LEMMA CandidateLeft ==
    ASSUME WorkerInv, [HarnessNext]_harnessVars, workerOutcome' # workerOutcome,
           workerOutcome' = "completed_candidate"
    PROVE  LeftAlone
<1>1. Close
  BY DEF HarnessNext, harnessVars, readerVars, processVars, PrintEvent, Write, EndChild, SpawnFails, Take,
     StderrLimit, TimePasses, DeadlineFires, CancelRun, KillTimer
<1>2. /\ ~cancelled' /\ ~invalid' /\ taken = Len(printed)
      /\ cancelled' = (cancelled \/ (adapter = "suite" /\ overdue)) /\ invalid' = (invalid \/ halfLine)
      /\ ~Has("rejected") /\ ~Has("failed") /\ ~Has("error") /\ harnessExit = "ok"
  BY <1>1 DEF Close, Classify, ClassifyResult
<1>3. ~terminated /\ ~cancelled /\ ~invalid /\ ~halfLine /\ (adapter = "suite" => ~overdue)
  BY <1>2 DEF WorkerInv, WorkerTypeOK
<1>4. values = printed
  <2>1. /\ values \in Seq(HarnessEvents) /\ printed \in Seq(HarnessEvents) /\ Len(values) = Len(printed)
        /\ \A n \in 1 .. Len(printed) : values[n] = printed[n]
    BY <1>2, <1>3 DEF WorkerInv, WorkerTypeOK, ValuesAreRead
  <2>2. QED
    BY <2>1
<1>5. ASSUME NEW m \in DOMAIN values, NEW n \in DOMAIN values
      PROVE  /\ values[m].session = values[n].session
             /\ values[n].type \notin {"failed", "rejected", "error", "alien"}
             /\ adapter # "chat" /\ m # n /\ values[m].type = "completed" => values[m] # values[n]
  BY <1>2 DEF WorkerInv, ValuesAreRead, Has
<1>6. QED
  BY <1>2, <1>3, <1>4, <1>5 DEF LeftAlone

\* A candidate is reported only of a run nobody had given up on, judged by everything it
\* printed (start, classify, NativeEvents).
THEOREM CandidatesWereAlone == HarnessInit /\ [][HarnessNext]_harnessVars => CandidatesWereLeftAlone
<1>1. HarnessInit => WorkerInv
  <2> SUFFICES ASSUME HarnessInit PROVE WorkerInv
    OBVIOUS
  <2>1. /\ printed = <<>> /\ values = <<>> /\ <<>> \in Seq(HarnessEvents) /\ Len(printed) = 0
        /\ DOMAIN values = {} /\ Len(values) = 0 /\ taken = 0
    BY DEF HarnessInit
  <2>2. WorkerTypeOK
    <3>1. /\ invalid \in BOOLEAN /\ cancelled \in BOOLEAN /\ terminated \in BOOLEAN
          /\ overdue \in BOOLEAN /\ halfLine \in BOOLEAN /\ adapter \in {"chat", "native", "suite"}
      BY DEF HarnessInit
    <3>2. QED
      BY <2>1, <3>1 DEF WorkerTypeOK
  <2>3. ValuesAreRead
    BY <2>1 DEF ValuesAreRead
  <2>4. QED
    BY <2>2, <2>3 DEF HarnessInit, WorkerInv
<1>2. WorkerInv /\ [HarnessNext]_harnessVars =>
        [workerOutcome' # workerOutcome /\ workerOutcome' = "completed_candidate" => LeftAlone]_harnessVars
  BY CandidateLeft
<1>3. QED
  BY <1>1, <1>2, WorkerKept, PTL DEF CandidatesWereLeftAlone

-----------------------------------------------------------------------------
(* One planner session over chat *)

CallIds == (1 .. 3) \X (1 .. 1)
ChatMessage == [role : {"system", "user", "assistant", "tool"}, text : {"none", "blank", "words"},
                calls : Seq(CallIds), of : CallIds \cup {<<>>}]

\* What validateRequest asks of a conversation, but for its length; one request with tools
\* is the first.
Wholesome(s, history) ==
    /\ \A n \in DOMAIN history : TakesMessage(s, history, n)
    /\ Pending(history, Len(history)) = {}
    /\ \A i \in DOMAIN history : history[i].role = "system" => i = 1

ChatTypeOK ==
    /\ chatSchema \in {1, 2} /\ chatBudget \in ChatBudgets
    /\ messages \in Seq(ChatMessage) /\ Len(messages) >= 2
    /\ chatUsage \in [requests : 0 .. 3, files : 0 .. 1, repairs : 0 .. 1]
    /\ completions \in 0 .. 3 /\ reply \in Seq(Frames)
    /\ stopped \in {"no", "aborted", "timedOut"}

\* While the session goes on: every request but the one under way was answered, and the
\* conversation is one that validateRequest takes, with calls of earlier answers only.
Working ==
    /\ chatStage \in {"ready", "asked", "reading", "answered"} =>
        /\ Wholesome(chatSchema, messages)
        /\ Len(messages) <= 2 + 2 * chatUsage.files + 2 * chatUsage.repairs
        /\ \A c \in Made(messages, Len(messages)) : c[1] <= chatUsage.requests
    /\ chatStage = "ready" => completions = chatUsage.requests
    /\ chatStage \in {"asked", "reading", "answered"} =>
        /\ chatUsage.requests = completions + 1
        /\ \A c \in Made(messages, Len(messages)) : c[1] < chatUsage.requests
    /\ chatStage = "asked" => reply = <<>>

ChatInv == ChatTypeOK /\ Working /\ OutcomesAreHonest

-----------------------------------------------------------------------------
(* One more message *)

\* The budgets of a session.
LEMMA BudgetBounds ==
    ASSUME chatBudget \in ChatBudgets
    PROVE  /\ chatBudget.requests \in 0 .. 3 /\ chatBudget.files \in 0 .. 1 /\ chatBudget.repairs \in 0 .. 1
           /\ chatBudget.assessments \in 0 .. 1 /\ chatBudget.fits \in BOOLEAN
BY ChatBudgetAssumption

\* A message changes nothing about those before it.
LEMMA MadeBefore ==
    ASSUME NEW h \in Seq(ChatMessage), NEW m \in ChatMessage, NEW n \in 0 .. Len(h)
    PROVE  Made(Append(h, m), n) = Made(h, n) /\ Answered(Append(h, m), n) = Answered(h, n)
<1> DEFINE g == Append(h, m)
<1>1. \A i \in 1 .. n : g[i] = h[i]
  OBVIOUS
<1> HIDE DEF g
<1>2. Made(g, n) = Made(h, n)
  BY <1>1 DEF Made
<1>3. Answered(g, n) = Answered(h, n)
  BY <1>1 DEF Answered
<1>4. QED
  BY <1>2, <1>3 DEF g

\* And adds its calls or its answer.
LEMMA MadeAfter ==
    ASSUME NEW h \in Seq(ChatMessage), NEW m \in ChatMessage
    PROVE  /\ Made(Append(h, m), Len(h) + 1) = Made(h, Len(h)) \cup ToSet(m.calls)
           /\ Answered(Append(h, m), Len(h) + 1) =
                  Answered(h, Len(h)) \cup (IF m.role = "tool" THEN {m.of} ELSE {})
<1> DEFINE g == Append(h, m)
           k == Len(h)
<1>1. /\ k \in Nat /\ g[k + 1] = m /\ \A i \in 1 .. k : g[i] = h[i]
  OBVIOUS
<1> HIDE DEF g, k
<1>2. \A i \in 1 .. k + 1 : i \in 1 .. k \/ i = k + 1
  BY <1>1
<1>3. 1 .. k \subseteq 1 .. k + 1 /\ k + 1 \in 1 .. k + 1
  BY <1>1
<1>4. Made(g, k + 1) = Made(h, k) \cup ToSet(m.calls)
  <2>1. ASSUME NEW x \in Made(g, k + 1) PROVE x \in Made(h, k) \cup ToSet(m.calls)
    <3>1. PICK i \in 1 .. k + 1 : x \in ToSet(g[i].calls)
      BY <2>1 DEF Made
    <3>2. QED
      BY <1>1, <1>2, <3>1 DEF Made
  <2>2. ASSUME NEW x \in Made(h, k) PROVE x \in Made(g, k + 1)
    <3>1. PICK i \in 1 .. k : x \in ToSet(h[i].calls)
      BY <2>2 DEF Made
    <3>2. i \in 1 .. k + 1 /\ x \in ToSet(g[i].calls)
      BY <1>1, <1>3, <3>1
    <3>3. QED
      BY <3>2 DEF Made
  <2>3. ASSUME NEW x \in ToSet(m.calls) PROVE x \in Made(g, k + 1)
    BY <1>1, <1>3, <2>3 DEF Made
  <2>4. QED
    BY <2>1, <2>2, <2>3
<1>5. Answered(g, k + 1) = Answered(h, k) \cup (IF m.role = "tool" THEN {m.of} ELSE {})
  <2>1. ASSUME NEW x \in Answered(g, k + 1)
        PROVE  x \in Answered(h, k) \cup (IF m.role = "tool" THEN {m.of} ELSE {})
    <3>1. PICK i \in 1 .. k + 1 : g[i].role = "tool" /\ x = g[i].of
      BY <2>1 DEF Answered
    <3>2. CASE i \in 1 .. k
      BY <1>1, <3>1, <3>2 DEF Answered
    <3>3. CASE i = k + 1
      BY <1>1, <3>1, <3>3
    <3>4. QED
      BY <1>2, <3>2, <3>3
  <2>2. ASSUME NEW x \in Answered(h, k) PROVE x \in Answered(g, k + 1)
    <3>1. PICK i \in 1 .. k : h[i].role = "tool" /\ x = h[i].of
      BY <2>2 DEF Answered
    <3>2. i \in 1 .. k + 1 /\ g[i].role = "tool" /\ x = g[i].of
      BY <1>1, <1>3, <3>1
    <3>3. QED
      BY <3>2 DEF Answered
  <2>3. ASSUME m.role = "tool" PROVE m.of \in Answered(g, k + 1)
    BY <1>1, <1>3, <2>3 DEF Answered
  <2>4. QED
    BY <2>1, <2>2, <2>3
<1>6. QED
  BY <1>4, <1>5 DEF g, k

\* A conversation goes on with what may follow it.
LEMMA GoesOnWell ==
    ASSUME NEW h \in Seq(ChatMessage), NEW m \in ChatMessage, NEW s,
           \A n \in DOMAIN h : TakesMessage(s, h, n),
           TakesMessage(s, Append(h, m), Len(h) + 1)
    PROVE  \A n \in DOMAIN Append(h, m) : TakesMessage(s, Append(h, m), n)
<1> SUFFICES ASSUME NEW n \in DOMAIN Append(h, m), n # Len(h) + 1
             PROVE  TakesMessage(s, Append(h, m), n)
  OBVIOUS
<1>1. n \in DOMAIN h /\ n - 1 \in 0 .. Len(h) /\ Append(h, m)[n] = h[n]
  OBVIOUS
<1>2. TakesMessage(s, h, n)
  BY <1>1
<1>3. /\ Made(Append(h, m), n - 1) = Made(h, n - 1)
      /\ Pending(Append(h, m), n - 1) = Pending(h, n - 1)
  BY <1>1, MadeBefore DEF Pending
<1>4. QED
  BY <1>1, <1>2, <1>3 DEF TakesMessage

\* Words may follow a conversation that waits for no answer.
LEMMA WordsFollow ==
    ASSUME NEW h \in Seq(ChatMessage), NEW s, Wholesome(s, h), Len(h) >= 1,
           NEW role \in {"user", "assistant"}
    PROVE  /\ Message(role, "words") \in ChatMessage
           /\ Wholesome(s, Append(h, Message(role, "words")))
           /\ Made(Append(h, Message(role, "words")), Len(h) + 1) = Made(h, Len(h))
<1> DEFINE m == Message(role, "words")
           g == Append(h, m)
           k == Len(h)
<1>1. /\ m \in ChatMessage /\ m.role = role /\ m.text = "words" /\ m.calls = <<>>
      /\ ToSet(m.calls) = {} /\ Cardinality(ToSet(m.calls)) = 0 /\ Len(m.calls) = 0
  <2>1. m = [role |-> role, text |-> "words", calls |-> <<>>, of |-> <<>>]
    BY DEF Message
  <2>2. <<>> \in Seq(CallIds)
    OBVIOUS
  <2>a. <<>> \in CallIds \cup {<<>>} /\ role \in {"system", "user", "assistant", "tool"}
    OBVIOUS
  <2> HIDE DEF m, CallIds
  <2>3. m \in ChatMessage /\ m.role = role /\ m.text = "words" /\ m.calls = <<>>
    BY <2>1, <2>2, <2>a DEF ChatMessage
  <2>4. ToSet(<<>>) = {}
    BY DEF ToSet
  <2>5. QED
    BY <2>3, <2>4, FS_EmptySet
<1>2. k \in Nat /\ g \in Seq(ChatMessage) /\ Len(g) = k + 1 /\ DOMAIN g = 1 .. k + 1 /\ DOMAIN h = 1 .. k
      /\ g[k + 1] = m /\ (\A i \in 1 .. k : g[i] = h[i]) /\ k \in 0 .. k /\ (k + 1) - 1 = k
  <2> HIDE DEF m
  <2>1. QED
    BY <1>1
<1>3. /\ Made(g, k + 1) = Made(h, k) /\ Answered(g, k + 1) = Answered(h, k)
      /\ Made(g, k) = Made(h, k) /\ Answered(g, k) = Answered(h, k)
  <2>1. m.role # "tool"
    BY <1>1
  <2> HIDE DEF m
  <2>2. QED
    BY <1>1, <1>2, <2>1, MadeAfter, MadeBefore
<1>4. Pending(g, k) = {} /\ Pending(g, k + 1) = {}
  BY <1>3 DEF Pending, Wholesome
<1>5. TakesMessage(s, g, k + 1)
  <2> HIDE DEF m, g, k
  <2>1. CASE role = "assistant"
    BY <1>1, <1>2, <1>3, <1>4, <2>1 DEF TakesMessage
  <2>2. CASE role = "user"
    BY <1>1, <1>2, <1>3, <1>4, <2>2 DEF TakesMessage
  <2>3. QED
    BY <2>1, <2>2
<1>6. \A n \in DOMAIN g : TakesMessage(s, g, n)
  <2>1. m \in ChatMessage
    BY <1>1
  <2> HIDE DEF m
  <2>2. QED
    BY <1>5, <2>1, GoesOnWell DEF Wholesome
<1>7. \A i \in DOMAIN g : g[i].role = "system" => i = 1
  <2>1. \A i \in 1 .. k + 1 : i \in 1 .. k \/ i = k + 1
    BY <1>2
  <2> HIDE DEF m, g, k
  <2>2. QED
    BY <1>1, <1>2, <2>1 DEF Wholesome, k
<1>8. QED
  <2> HIDE DEF m
  <2>1. QED
    BY <1>1, <1>2, <1>3, <1>4, <1>6, <1>7 DEF Wholesome, m

\* So may a call nobody made before, with its answer.
LEMMA CallFollows ==
    ASSUME NEW h \in Seq(ChatMessage), NEW s, Wholesome(s, h), Len(h) >= 1,
           NEW c \in CallIds, c \notin Made(h, Len(h)),
           NEW a \in ChatMessage, a.role = "assistant", a.text = "none", a.calls = <<c>>,
           NEW t \in ChatMessage, t.role = "tool", t.calls = <<>>, t.of = c
    PROVE  /\ Wholesome(s, Append(Append(h, a), t))
           /\ Made(Append(Append(h, a), t), Len(h) + 2) = Made(h, Len(h)) \cup {c}
<1> DEFINE g == Append(h, a)
           f == Append(g, t)
           k == Len(h)
<1>1. /\ k \in Nat /\ g \in Seq(ChatMessage) /\ Len(g) = k + 1 /\ DOMAIN g = 1 .. k + 1
      /\ f \in Seq(ChatMessage) /\ Len(f) = k + 2 /\ DOMAIN f = 1 .. k + 2
      /\ g[k + 1] = a /\ f[k + 2] = t /\ f[k + 1] = a
      /\ (\A i \in 1 .. k : f[i] = h[i]) /\ DOMAIN h = 1 .. k
      /\ k \in 0 .. k /\ (k + 1) - 1 = k /\ (k + 2) - 1 = k + 1 /\ (k + 1) + 1 = k + 2
      /\ k + 1 \in 0 .. Len(g)
  OBVIOUS
<1>2. /\ ToSet(a.calls) = {c} /\ Cardinality({c}) = 1 /\ Len(a.calls) = 1 /\ a.calls # <<>>
      /\ ToSet(t.calls) = {}
  <2>1. ToSet(<<c>>) = {c} /\ ToSet(<<>>) = {}
    <3>1. DOMAIN <<c>> = {1} /\ <<c>>[1] = c
      OBVIOUS
    <3>2. QED
      BY <3>1 DEF ToSet
  <2>2. QED
    BY <2>1, FS_Singleton
<1>3. /\ Made(g, k) = Made(h, k) /\ Answered(g, k) = Answered(h, k)
      /\ Made(g, k + 1) = Made(h, k) \cup {c} /\ Answered(g, k + 1) = Answered(h, k)
  <2>1. Made(g, k) = Made(h, k) /\ Answered(g, k) = Answered(h, k)
    BY <1>1, MadeBefore
  <2>2. Made(g, k + 1) = Made(h, k) \cup ToSet(a.calls)
        /\ Answered(g, k + 1) = Answered(h, k) \cup (IF a.role = "tool" THEN {a.of} ELSE {})
    BY MadeAfter
  <2> HIDE DEF g, k
  <2>3. QED
    BY <1>2, <2>1, <2>2
<1>4. /\ Made(f, k + 1) = Made(g, k + 1) /\ Answered(f, k + 1) = Answered(g, k + 1)
      /\ Made(f, k + 2) = Made(h, k) \cup {c} /\ Answered(f, k + 2) = Answered(h, k) \cup {c}
  <2> HIDE DEF g
  <2>1. Made(f, k + 1) = Made(g, k + 1) /\ Answered(f, k + 1) = Answered(g, k + 1)
    BY <1>1, MadeBefore
  <2>2. Made(f, Len(g) + 1) = Made(g, Len(g)) \cup ToSet(t.calls)
        /\ Answered(f, Len(g) + 1) = Answered(g, Len(g)) \cup (IF t.role = "tool" THEN {t.of} ELSE {})
    BY <1>1, MadeAfter
  <2> HIDE DEF f, k
  <2>3. QED
    BY <1>1, <1>2, <1>3, <2>1, <2>2
<1>5. Pending(h, k) = {} /\ c \notin Made(h, k)
  BY DEF Wholesome
<1>6. Pending(g, k) = {} /\ c \in Pending(f, k + 1) /\ Pending(f, k + 2) = {}
  <2>1. c \notin Answered(h, k)
    <3> SUFFICES ASSUME c \in Answered(h, k) PROVE FALSE
      OBVIOUS
    <3>1. PICK i \in 1 .. k : h[i].role = "tool" /\ h[i].of = c
      BY DEF Answered
    <3>2. c \in Pending(h, i - 1)
      BY <1>1, <3>1 DEF Wholesome, TakesMessage
    <3>3. Made(h, i - 1) \subseteq Made(h, k)
      <4>1. 1 .. (i - 1) \subseteq 1 .. k
        BY <1>1, <3>1
      <4> HIDE DEF k
      <4>2. QED
        BY <4>1 DEF Made
    <3>4. QED
      BY <1>5, <3>2, <3>3 DEF Pending
  <2> HIDE DEF f, g, k
  <2>2. QED
    BY <1>3, <1>4, <1>5, <2>1 DEF Pending
<1>7. TakesMessage(s, g, k + 1)
  <2> HIDE DEF g, k, f
  <2>1. /\ g[k + 1].role = "assistant" /\ g[k + 1].text = "none" /\ g[k + 1].calls # <<>>
        /\ ToSet(g[k + 1].calls) = {c} /\ Len(g[k + 1].calls) = 1
    BY <1>1, <1>2
  <2>2. {c} \cap Made(g, k) = {} /\ Pending(g, k) = {} /\ (k + 1) - 1 = k
    BY <1>1, <1>3, <1>5, <1>6
  <2>3. /\ ToSet(g[k + 1].calls) \cap Made(g, (k + 1) - 1) = {}
        /\ Cardinality(ToSet(g[k + 1].calls)) = Len(g[k + 1].calls)
        /\ Pending(g, (k + 1) - 1) = {}
    BY <1>2, <2>1, <2>2
  <2>4. QED
    BY <2>1, <2>3 DEF TakesMessage
<1>8. TakesMessage(s, f, k + 2)
  <2> HIDE DEF g, k, f
  <2>1. QED
    BY <1>1, <1>6 DEF TakesMessage
<1>9. \A n \in DOMAIN g : TakesMessage(s, g, n)
  BY <1>7, GoesOnWell DEF Wholesome
<1>10. \A n \in DOMAIN f : TakesMessage(s, f, n)
  <2> HIDE DEF g
  <2>1. QED
    BY <1>1, <1>8, <1>9, GoesOnWell
<1>11. \A i \in DOMAIN f : f[i].role = "system" => i = 1
  <2>1. \A i \in 1 .. k + 2 : i \in 1 .. k \/ i = k + 1 \/ i = k + 2
    BY <1>1
  <2> HIDE DEF f, g, k
  <2>2. QED
    BY <1>1, <2>1 DEF Wholesome, k
<1>12. QED
  <2>1. Len(h) = k /\ Len(f) = k + 2 /\ f = Append(Append(h, a), t)
    BY <1>1
  <2> HIDE DEF f, g, k
  <2>2. Wholesome(s, f)
    BY <1>6, <1>10, <1>11, <2>1 DEF Wholesome
  <2>3. QED
    BY <1>4, <2>1, <2>2

-----------------------------------------------------------------------------
(* The session's steps *)

\* What a failure leaves as the stage.
LEMMA OutcomeIs ==
    ASSUME NEW code, Outcome(code)
    PROVE  chatStage' = code \/ chatStage' = "time_budget_exhausted_unknown"
BY DEF Outcome

\* No request of a session is one that validateRequest refuses.
LEMMA RequestsAreValid ==
    ASSUME ChatInv, chatStage = "ready"
    PROVE  ValidateRequest(chatSchema, ChatRequest(Tools))
<1>1. /\ Wholesome(chatSchema, messages) /\ messages \in Seq(ChatMessage)
      /\ Len(messages) \in 1 .. 64 /\ Len(messages) > 1
  <2>1. /\ chatUsage.files \in 0 .. 1 /\ chatUsage.repairs \in 0 .. 1
        /\ messages \in Seq(ChatMessage) /\ Len(messages) >= 2
    BY DEF ChatInv, ChatTypeOK
  <2>2. /\ Wholesome(chatSchema, messages)
        /\ Len(messages) <= 2 + 2 * chatUsage.files + 2 * chatUsage.repairs
    BY DEF ChatInv, Working
  <2>3. Len(messages) \in Nat
    BY <2>1
  <2> DEFINE files == chatUsage.files
             repairs == chatUsage.repairs
             k == Len(messages)
  <2>4. files \in 0 .. 1 /\ repairs \in 0 .. 1 /\ k \in Nat /\ k >= 2 /\ k <= 2 + 2 * files + 2 * repairs
    BY <2>1, <2>2, <2>3
  <2> HIDE DEF files, repairs, k
  <2>5. k \in 1 .. 64 /\ k > 1
    BY <2>4
  <2>6. QED
    BY <2>1, <2>2, <2>5 DEF k
<1>2. MessagesFit(chatSchema, messages)
  BY <1>1 DEF MessagesFit, Wholesome
<1>3. ChatRequest(Tools).messages = messages
  BY DEF ChatRequest
<1>4. ChatRequest(Tools).choice # "absent" => chatSchema = 1 /\ ChatRequest(Tools).tools
  BY DEF ChatRequest, ChatInv, ChatTypeOK
<1>5. QED
  BY <1>2, <1>3, <1>4 DEF ValidateRequest

\* A request is one more, and its calls will be new.
LEMMA RequestKeeps ==
    ASSUME ChatInv, SendRequest
    PROVE  ChatInv'
<1>1. /\ chatStage = "ready" /\ reply' = <<>> /\ reply' \in Seq(Frames) /\ DOMAIN reply' = {}
      /\ UNCHANGED <<chatSchema, chatBudget, messages, completions, stopped>>
      /\ completions = chatUsage.requests
      /\ chatBudget.requests \in 0 .. 3
  BY BudgetBounds DEF SendRequest, ChatInv, ChatTypeOK, Working
<1>2. CASE chatStage' = "asked"
  <2>1. /\ chatUsage' = [chatUsage EXCEPT !.requests = @ + 1]
        /\ chatUsage.requests < chatBudget.requests
    BY <1>1, <1>2 DEF SendRequest, Outcome
  <2>2. /\ chatUsage' \in [requests : 0 .. 3, files : 0 .. 1, repairs : 0 .. 1]
        /\ chatUsage'.requests = chatUsage.requests + 1
        /\ chatUsage'.files = chatUsage.files /\ chatUsage'.repairs = chatUsage.repairs
    BY <1>1, <2>1 DEF ChatInv, ChatTypeOK
  <2>3. \A c \in Made(messages, Len(messages)) : c[1] <= chatUsage.requests
    BY <1>1 DEF ChatInv, Working
  <2>4. \A c \in Made(messages, Len(messages)) : c \in CallIds
    <3>1. ASSUME NEW i \in 1 .. Len(messages) PROVE ToSet(messages[i].calls) \subseteq CallIds
      <4>1. messages[i] \in ChatMessage
        BY DEF ChatInv, ChatTypeOK
      <4>2. messages[i].calls \in Seq(CallIds)
        BY <4>1 DEF ChatMessage
      <4>3. QED
        BY <4>2 DEF ToSet
    <3>2. QED
      BY <3>1 DEF Made
  <2>5. \A c \in Made(messages, Len(messages)) : c[1] < chatUsage'.requests
    BY <2>2, <2>3, <2>4 DEF CallIds, ChatInv, ChatTypeOK
  <2>6. ChatTypeOK'
    BY <1>1, <2>2 DEF ChatInv, ChatTypeOK
  <2>7. Working'
    <3>1. Wholesome(chatSchema, messages) /\ Len(messages) <= 2 + 2 * chatUsage.files + 2 * chatUsage.repairs
      BY <1>1 DEF ChatInv, Working
    <3>2. \A c \in Made(messages, Len(messages)) : c[1] <= chatUsage'.requests
      BY <2>2, <2>4, <2>5 DEF CallIds
    <3>3. Wholesome(chatSchema', messages') /\ Made(messages', Len(messages')) = Made(messages, Len(messages))
      BY <1>1, <3>1
    <3>4. Len(messages') <= 2 + 2 * chatUsage'.files + 2 * chatUsage'.repairs
      BY <1>1, <2>2, <3>1
    <3>5. chatUsage'.requests = completions' + 1
      BY <1>1, <2>2
    <3>6. QED
      BY <1>1, <1>2, <2>5, <3>2, <3>3, <3>4, <3>5 DEF Working
  <2>8. OutcomesAreHonest'
    <3>1. chatUsage'.requests <= completions' + 1
      BY <1>1, <2>2 DEF ChatInv, ChatTypeOK
    <3>2. QED
      BY <1>2, <3>1 DEF OutcomesAreHonest
  <2>9. QED
    BY <2>6, <2>7, <2>8 DEF ChatInv
<1>3. CASE chatStage' # "asked"
  <2>1. /\ ~(stopped = "no" /\ chatBudget.assessments > 0 /\ chatUsage.requests < chatBudget.requests)
        /\ UNCHANGED chatUsage
    BY <1>1, <1>3, RequestsAreValid DEF SendRequest
  <2>2. chatStage' \in {"assessment_budget_exhausted", "cancelled", "request_budget_exhausted",
                        "time_budget_exhausted_unknown"}
    BY <2>1 DEF SendRequest, Outcome
  <2>3. ChatTypeOK'
    BY <1>1, <2>1 DEF ChatInv, ChatTypeOK
  <2>4. Working'
    BY <2>2 DEF Working
  <2>5. OutcomesAreHonest'
    <3>1. chatUsage'.requests = completions' /\ completions' \in 0 .. 3
      BY <1>1, <2>1 DEF ChatInv, ChatTypeOK
    <3>2. \A n \in 0 .. 3 : n <= n + 1
      OBVIOUS
    <3>3. chatUsage'.requests <= completions' + 1
      BY <3>1, <3>2, Zenon
    <3>4. QED
      BY <2>2, <3>1, <3>3 DEF OutcomesAreHonest
  <2>6. QED
    BY <2>3, <2>4, <2>5 DEF ChatInv
<1>4. QED
  BY <1>2, <1>3

\* Where only the stage and the reply change, and the stage is no later than before.
LEMMA ReplyKeeps ==
    ASSUME ChatInv, chatStage \in {"asked", "reading"},
           UNCHANGED <<chatSchema, chatBudget, messages, chatUsage, completions>>,
           stopped' \in {"no", "aborted", "timedOut"}, reply' \in Seq(Frames),
           \/ chatStage' \in {"reading", "answered"}
           \/ chatStage' = "asked" /\ reply' = <<>>
           \/ chatStage' \in {"request_budget_exhausted", "invalid_request_identity", "route_unavailable",
                              "response_budget_exhausted", "cancelled_unknown", "time_budget_exhausted_unknown"}
           \/ chatStage' = "invalid_stream" /\ ~Heard(reply')
           \/ chatStage' = "partial_failure" /\ Heard(reply')
    PROVE  ChatInv'
<1>1. ChatTypeOK'
  BY DEF ChatInv, ChatTypeOK
<1>2. Working'
  <2>1. /\ Wholesome(chatSchema, messages)
        /\ Len(messages) <= 2 + 2 * chatUsage.files + 2 * chatUsage.repairs
        /\ \A c \in Made(messages, Len(messages)) : c[1] <= chatUsage.requests
        /\ \A c \in Made(messages, Len(messages)) : c[1] < chatUsage.requests
        /\ chatUsage.requests = completions + 1
    BY DEF ChatInv, Working
  <2>2. chatStage' # "ready" /\ (chatStage' = "asked" => reply' = <<>>)
    OBVIOUS
  <2>3. QED
    BY <2>1, <2>2 DEF Working
<1>3. OutcomesAreHonest'
  <2>1. chatUsage'.requests = completions' + 1 /\ completions' \in 0 .. 3
    BY DEF ChatInv, ChatTypeOK, Working
  <2>2. chatUsage'.requests <= completions' + 1
    BY <2>1
  <2>3. /\ chatStage' = "invalid_stream" => ~Heard(reply')
        /\ chatStage' = "partial_failure" => Heard(reply')
    OBVIOUS
  <2>4. QED
    BY <2>2, <2>3 DEF OutcomesAreHonest, Heard, Semantic
<1>4. QED
  BY <1>1, <1>2, <1>3 DEF ChatInv

\* Whatever becomes of the response.
LEMMA ResponseKeeps ==
    ASSUME ChatInv,
           \/ ReplyBegins \/ ReplyEnds \/ ResponseFails \/ RequestFails \/ \E f \in Frames : ReplyFrame(f)
    PROVE  ChatInv'
<1>1. reply \in Seq(Frames) /\ stopped \in {"no", "aborted", "timedOut"}
  BY DEF ChatInv, ChatTypeOK
<1>2. CASE ReplyBegins
  BY <1>1, <1>2, ReplyKeeps DEF ReplyBegins, Settles, Outcome
<1>3. CASE ReplyEnds
  BY <1>1, <1>3, ReplyKeeps DEF ReplyEnds, Settles, Outcome
<1>4. CASE ResponseFails
  BY <1>1, <1>4, ReplyKeeps DEF ResponseFails, Settles, Outcome
<1>5. CASE RequestFails
  <2>1. chatStage' \in {"cancelled_unknown", "route_unavailable", "time_budget_exhausted_unknown"}
    BY <1>5 DEF RequestFails, Outcome
  <2>2. QED
    BY <1>1, <1>5, <2>1, ReplyKeeps DEF RequestFails, Settles
<1>6. ASSUME NEW f \in Frames, ReplyFrame(f) PROVE ChatInv'
  <2>1. Append(reply, f) \in Seq(Frames)
    BY <1>1
  <2>2. /\ reply' \in Seq(Frames)
        /\ \/ chatStage' = "reading"
           \/ chatStage' \in {"response_budget_exhausted", "time_budget_exhausted_unknown"}
           \/ chatStage' = "invalid_stream" /\ ~Heard(reply')
           \/ chatStage' = "partial_failure" /\ Heard(reply')
    BY <1>1, <1>6, <2>1 DEF ReplyFrame, Outcome
  <2>3. QED
    BY <1>1, <1>6, <2>2, ReplyKeeps DEF ReplyFrame
<1>7. QED
  BY <1>2, <1>3, <1>4, <1>5, <1>6

\* An abort or the session's timer.
LEMMA StopKeeps ==
    ASSUME ChatInv, NEW how \in {"aborted", "timedOut"}, StopSession(how)
    PROVE  ChatInv'
<1>1. ChatTypeOK'
  BY DEF StopSession, ChatInv, ChatTypeOK
<1>2. Working'
  BY DEF StopSession, ChatInv, Working
<1>3. OutcomesAreHonest'
  BY DEF StopSession, ChatInv, OutcomesAreHonest
<1>4. QED
  BY <1>1, <1>2, <1>3 DEF ChatInv

\* The next round of a session, with what the model said and what it is told.
LEMMA RoundKeeps ==
    ASSUME ChatInv, chatStage = "answered", chatStage' = "ready", completions' = completions + 1,
           UNCHANGED <<chatSchema, chatBudget, reply, stopped>>,
           chatUsage' \in [requests : 0 .. 3, files : 0 .. 1, repairs : 0 .. 1],
           chatUsage'.requests = chatUsage.requests,
           messages' \in Seq(ChatMessage), Wholesome(chatSchema, messages'),
           Len(messages') >= 2, Len(messages') <= 2 + 2 * chatUsage'.files + 2 * chatUsage'.repairs,
           \A c \in Made(messages', Len(messages')) : c[1] <= chatUsage.requests
    PROVE  ChatInv'
<1>1. completions' = chatUsage'.requests
  BY DEF ChatInv, Working
<1>2. ChatTypeOK'
  <2>1. completions' \in 0 .. 3
    BY <1>1
  <2>2. QED
    BY <2>1 DEF ChatInv, ChatTypeOK
<1>3. Working'
  BY <1>1 DEF Working
<1>4. OutcomesAreHonest'
  <2>1. completions' \in 0 .. 3
    BY <1>2 DEF ChatTypeOK
  <2>2. chatUsage'.requests <= completions' + 1
    BY <1>1, <2>1
  <2>3. QED
    BY <2>2 DEF OutcomesAreHonest
<1>5. QED
  BY <1>2, <1>3, <1>4 DEF ChatInv

\* The number of the parts of calls in a response.
LEMMA PartsAreCounted ==
    ASSUME NEW frames \in Seq(Frames)
    PROVE  PartsIn(frames) \in Nat
<1>1. IsFiniteSet(1 .. Len(frames))
  BY FS_Interval
<1>2. {i \in DOMAIN frames : frames[i] \in {"part", "opening"}} \subseteq 1 .. Len(frames)
  OBVIOUS
<1>3. QED
  BY <1>1, <1>2, FS_Subset, FS_CardinalityType DEF PartsIn, CountOf

\* The one file an allowance leaves is one call and its answer.
LEMMA CallKeeps ==
    ASSUME ChatInv, chatStage = "answered", chatStage' = "ready", completions' = completions + 1,
           UNCHANGED <<chatSchema, chatBudget, reply, stopped>>,
           NEW parts \in Nat, parts > 0, ~(parts > chatBudget.files - chatUsage.files),
           messages' = WithCalls([i \in 1 .. parts |-> <<chatUsage.requests, i>>]),
           chatUsage' = [chatUsage EXCEPT !.files = @ + parts]
    PROVE  ChatInv'
<1>1. /\ chatUsage \in [requests : 0 .. 3, files : 0 .. 1, repairs : 0 .. 1]
      /\ chatBudget.files \in 0 .. 1 /\ messages \in Seq(ChatMessage)
      /\ completions \in 0 .. 3 /\ Len(messages) >= 2
  BY BudgetBounds DEF ChatInv, ChatTypeOK
<1>2. /\ Wholesome(chatSchema, messages)
      /\ Len(messages) <= 2 + 2 * chatUsage.files + 2 * chatUsage.repairs
      /\ \A x \in Made(messages, Len(messages)) : x[1] < chatUsage.requests
      /\ \A x \in Made(messages, Len(messages)) : x[1] <= chatUsage.requests
      /\ chatUsage.requests = completions + 1
  BY DEF ChatInv, Working
<1>3. parts = 1 /\ chatUsage.files = 0 /\ chatUsage.requests \in 1 .. 3
  BY <1>1, <1>2
<1> DEFINE c == <<chatUsage.requests, 1>>
           a == [role |-> "assistant", text |-> "none", calls |-> <<c>>, of |-> <<>>]
           t == [role |-> "tool", text |-> "words", calls |-> <<>>, of |-> c]
<1>4. c \in CallIds /\ c[1] = chatUsage.requests
  BY <1>3 DEF CallIds
<1>5. c \notin Made(messages, Len(messages))
  BY <1>1, <1>2, <1>4
<1>6. /\ a \in ChatMessage /\ a.role = "assistant" /\ a.text = "none" /\ a.calls = <<c>>
      /\ t \in ChatMessage /\ t.role = "tool" /\ t.calls = <<>> /\ t.of = c
  <2> HIDE DEF c
  <2>1. <<c>> \in Seq(CallIds) /\ <<>> \in Seq(CallIds)
    BY <1>4
  <2>2. QED
    BY <1>4, <2>1 DEF ChatMessage
<1>7. messages' = Append(Append(messages, a), t)
  <2>1. [i \in 1 .. parts |-> <<chatUsage.requests, i>>] = <<c>>
    <3>1. \A i \in 1 .. 1 : <<chatUsage.requests, i>> = c
      OBVIOUS
    <3> HIDE DEF c
    <3>2. [i \in 1 .. 1 |-> <<chatUsage.requests, i>>] = [i \in 1 .. 1 |-> c]
      BY <3>1
    <3>3. [i \in 1 .. 1 |-> c] = <<c>>
      OBVIOUS
    <3>4. QED
      BY <1>3, <3>2, <3>3
  <2>2. [Message("assistant", "none") EXCEPT !.calls = <<c>>] = a
    BY DEF Message
  <2>3. [i \in DOMAIN <<c>> |-> [Message("tool", "words") EXCEPT !.of = <<c>>[i]]] = <<t>>
    <3>1. [Message("tool", "words") EXCEPT !.of = c] = t
      BY DEF Message
    <3> HIDE DEF c, t
    <3>2. DOMAIN <<c>> = 1 .. 1 /\ <<c>>[1] = c
      OBVIOUS
    <3>3. [i \in DOMAIN <<c>> |-> [Message("tool", "words") EXCEPT !.of = <<c>>[i]]] = [i \in 1 .. 1 |-> t]
      BY <3>1, <3>2
    <3>4. [i \in 1 .. 1 |-> t] = <<t>>
      OBVIOUS
    <3>5. QED
      BY <3>3, <3>4
  <2>4. messages' = messages \o <<a>> \o <<t>>
    <3> HIDE DEF c, a, t
    <3>1. QED
      BY <2>1, <2>2, <2>3 DEF WithCalls
  <2> HIDE DEF c, a, t
  <2>5. messages \o <<a>> = Append(messages, a) /\ Append(messages, a) \in Seq(ChatMessage)
    BY <1>1, <1>6
  <2>6. Append(messages, a) \o <<t>> = Append(Append(messages, a), t)
    BY <1>6, <2>5
  <2>7. QED
    BY <2>4, <2>5, <2>6
<1> HIDE DEF c, a, t
<1>8. Len(messages) >= 1
  BY <1>1
<1>9. /\ Wholesome(chatSchema, messages')
      /\ Made(messages', Len(messages) + 2) = Made(messages, Len(messages)) \cup {c}
  <2>1. messages \in Seq(ChatMessage) /\ Wholesome(chatSchema, messages)
    BY <1>1, <1>2
  <2>2. /\ Wholesome(chatSchema, Append(Append(messages, a), t))
        /\ Made(Append(Append(messages, a), t), Len(messages) + 2) = Made(messages, Len(messages)) \cup {c}
    BY <2>1, <1>4, <1>5, <1>6, <1>8, CallFollows
  <2>3. QED
    BY <1>7, <2>2
<1>10. messages' \in Seq(ChatMessage) /\ Len(messages') = Len(messages) + 2 /\ Len(messages) \in Nat
  <2>1. messages \in Seq(ChatMessage) /\ a \in ChatMessage /\ t \in ChatMessage
    BY <1>1, <1>6
  <2> HIDE DEF ChatMessage
  <2> DEFINE g == Append(messages, a)
  <2>2. g \in Seq(ChatMessage) /\ Len(g) = Len(messages) + 1 /\ Len(messages) \in Nat
    BY <2>1
  <2> HIDE DEF g
  <2>3. Append(g, t) \in Seq(ChatMessage) /\ Len(Append(g, t)) = Len(messages) + 2
    BY <2>1, <2>2
  <2>4. QED
    BY <1>7, <2>2, <2>3 DEF g
<1>11. /\ chatUsage' \in [requests : 0 .. 3, files : 0 .. 1, repairs : 0 .. 1]
       /\ chatUsage'.requests = chatUsage.requests /\ chatUsage'.files = 1
       /\ chatUsage'.repairs = chatUsage.repairs
  BY <1>1, <1>3
<1>12. Len(messages') <= 2 + 2 * chatUsage'.files + 2 * chatUsage'.repairs /\ Len(messages') >= 2
  BY <1>1, <1>2, <1>3, <1>10, <1>11
<1>13. \A x \in Made(messages', Len(messages')) : x[1] <= chatUsage.requests
  BY <1>2, <1>3, <1>4, <1>9, <1>10
<1>14. QED
  BY <1>9, <1>10, <1>11, <1>12, <1>13, RoundKeeps

\* A repair says again what the model said, if anything, and asks again.
LEMMA RepairKeeps ==
    ASSUME ChatInv, chatStage = "answered", chatStage' = "ready", completions' = completions + 1,
           UNCHANGED <<chatSchema, chatBudget, reply, stopped>>,
           NEW text, messages' = Repair(text), ~(chatUsage.repairs >= chatBudget.repairs),
           chatUsage' = [chatUsage EXCEPT !.repairs = @ + 1]
    PROVE  ChatInv'
<1>1. /\ chatUsage \in [requests : 0 .. 3, files : 0 .. 1, repairs : 0 .. 1]
      /\ chatBudget.repairs \in 0 .. 1 /\ messages \in Seq(ChatMessage)
      /\ completions \in 0 .. 3 /\ Len(messages) >= 2
  BY BudgetBounds DEF ChatInv, ChatTypeOK
<1>2. /\ Wholesome(chatSchema, messages)
      /\ Len(messages) <= 2 + 2 * chatUsage.files + 2 * chatUsage.repairs
      /\ \A x \in Made(messages, Len(messages)) : x[1] <= chatUsage.requests
  BY DEF ChatInv, Working
<1>3. /\ chatUsage' \in [requests : 0 .. 3, files : 0 .. 1, repairs : 0 .. 1]
      /\ chatUsage'.requests = chatUsage.requests /\ chatUsage'.files = chatUsage.files
      /\ chatUsage'.repairs = 1 /\ chatUsage.repairs = 0
  BY <1>1
<1> DEFINE w == Message("assistant", "words")
           u == Message("user", "words")
           k == Len(messages)
<1>4. k \in Nat /\ k >= 1
  BY <1>1
<1>5. /\ messages' \in Seq(ChatMessage) /\ Wholesome(chatSchema, messages')
      /\ Len(messages') >= 2 /\ Len(messages') <= k + 2
      /\ Made(messages', Len(messages')) = Made(messages, Len(messages))
  <2>1. CASE text = "words"
    <3> DEFINE g == Append(messages, w)
    <3>1. w \in ChatMessage /\ Wholesome(chatSchema, g) /\ Made(g, k + 1) = Made(messages, k)
      BY <1>1, <1>2, <1>4, WordsFollow
    <3> HIDE DEF w, u
    <3>2. g \in Seq(ChatMessage) /\ Len(g) = k + 1 /\ Len(g) >= 1
      BY <1>1, <1>4, <3>1
    <3> HIDE DEF g, k
    <3>3. u \in ChatMessage /\ Wholesome(chatSchema, Append(g, u)) /\ Made(Append(g, u), Len(g) + 1) = Made(g, Len(g))
      BY <3>1, <3>2, WordsFollow DEF u
    <3>4. messages' = Append(g, u)
      <4>1. messages' = messages \o <<w>> \o <<u>>
        BY <2>1 DEF Repair, w, u
      <4>2. messages \o <<w>> = g
        BY <1>1, <3>1 DEF g
      <4>3. g \o <<u>> = Append(g, u)
        BY <3>2, <3>3
      <4>4. QED
        BY <4>1, <4>2, <4>3
    <3>5. Append(g, u) \in Seq(ChatMessage) /\ Len(Append(g, u)) = k + 2
      BY <1>4, <3>2, <3>3
    <3>6. (k + 1) + 1 = k + 2 /\ k + 2 >= 2 /\ k + 2 <= k + 2
      BY <1>4
    <3>7. Made(messages', Len(messages')) = Made(messages, k)
      BY <3>1, <3>2, <3>3, <3>4, <3>5, <3>6
    <3>8. QED
      BY <3>3, <3>4, <3>5, <3>6, <3>7 DEF k
  <2>2. CASE text # "words"
    <3>1. /\ u \in ChatMessage /\ Wholesome(chatSchema, Append(messages, u))
          /\ Made(Append(messages, u), k + 1) = Made(messages, k)
      BY <1>1, <1>2, <1>4, WordsFollow
    <3> HIDE DEF u
    <3>2. messages' = Append(messages, u)
      <4>1. messages' = messages \o <<>> \o <<u>>
        BY <2>2 DEF Repair, u
      <4>2. messages \o <<>> = messages /\ messages \o <<u>> = Append(messages, u)
        BY <1>1, <3>1
      <4>3. QED
        BY <4>1, <4>2
    <3>3. Append(messages, u) \in Seq(ChatMessage) /\ Len(Append(messages, u)) = k + 1
      BY <1>1, <3>1
    <3>4. QED
      BY <1>4, <3>1, <3>2, <3>3
  <2>3. QED
    BY <2>1, <2>2
<1>6. Len(messages') <= 2 + 2 * chatUsage'.files + 2 * chatUsage'.repairs
  <2>1. k <= 2 + 2 * chatUsage.files + 2 * chatUsage.repairs
    BY <1>2
  <2>2. chatUsage.files \in 0 .. 1 /\ Len(messages') \in Nat
    BY <1>1, <1>5
  <2> HIDE DEF k
  <2>3. QED
    BY <1>3, <1>4, <1>5, <2>1, <2>2
<1>7. \A x \in Made(messages', Len(messages')) : x[1] <= chatUsage.requests
  BY <1>2, <1>5
<1>8. QED
  BY <1>3, <1>5, <1>6, <1>7, RoundKeeps

\* Whatever is made of an answer.
LEMMA AnswerKeeps ==
    ASSUME ChatInv, NEW valid \in BOOLEAN, Continue(valid)
    PROVE  ChatInv'
<1> DEFINE parts == PartsIn(reply)
           text == TextIn(reply)
<1>1. parts \in Nat
  BY PartsAreCounted DEF ChatInv, ChatTypeOK
<1>2. /\ chatStage = "answered" /\ UNCHANGED <<chatSchema, chatBudget, reply, stopped>>
      /\ chatUsage.requests = completions + 1 /\ chatUsage.requests \in 0 .. 3 /\ completions \in 0 .. 3
      /\ completions' = (IF stopped = "no" THEN completions + 1 ELSE completions)
      /\ completions' \in 0 .. 3
  BY DEF Continue, ChatInv, ChatTypeOK, Working
<1> HIDE DEF parts, text
<1>3. ASSUME UNCHANGED <<messages, chatUsage>>,
             \/ chatStage' \in {"cancelled_unknown", "time_budget_exhausted_unknown"}
             \/ /\ chatStage' \in {"invalid_plan", "plan_proposed", "discovery_budget_exhausted"}
                /\ stopped = "no"
      PROVE  ChatInv'
  <2>1. ChatTypeOK'
    BY <1>2, <1>3 DEF ChatInv, ChatTypeOK
  <2>2. Working'
    BY <1>3 DEF Working
  <2>3. OutcomesAreHonest'
    <3>1. chatUsage'.requests <= completions' + 1
      BY <1>2, <1>3
    <3>2. chatStage' \in {"invalid_plan", "plan_proposed", "discovery_budget_exhausted"} =>
              completions' = chatUsage'.requests
      BY <1>2, <1>3
    <3>3. QED
      BY <1>3, <3>1, <3>2 DEF OutcomesAreHonest
  <2>4. QED
    BY <2>1, <2>2, <2>3 DEF ChatInv
<1>4. CASE stopped # "no"
  <2>1. Outcome("cancelled_unknown") /\ UNCHANGED <<messages, chatUsage>>
    BY <1>4 DEF Continue
  <2>2. QED
    BY <1>3, <2>1, OutcomeIs
<1>5. CASE stopped = "no" /\ parts > 0 /\ text # "none"
  <2>1. Outcome("invalid_plan") /\ UNCHANGED <<messages, chatUsage>>
    BY <1>5 DEF Continue, parts, text
  <2>2. QED
    BY <1>3, <1>5, <2>1, OutcomeIs
<1>6. CASE stopped = "no" /\ parts > 0 /\ text = "none"
  <2>1. IF parts > chatBudget.files - chatUsage.files \/ ~chatBudget.fits
        THEN Outcome("discovery_budget_exhausted") /\ UNCHANGED <<messages, chatUsage>>
        ELSE /\ chatStage' = "ready"
             /\ messages' = WithCalls([i \in 1 .. parts |-> <<chatUsage.requests, i>>])
             /\ chatUsage' = [chatUsage EXCEPT !.files = @ + parts]
    BY <1>6 DEF Continue, parts, text
  <2>2. CASE parts > chatBudget.files - chatUsage.files \/ ~chatBudget.fits
    <3>1. Outcome("discovery_budget_exhausted") /\ UNCHANGED <<messages, chatUsage>>
      BY <2>1, <2>2
    <3>2. QED
      BY <1>3, <1>6, <3>1, OutcomeIs
  <2>3. CASE ~(parts > chatBudget.files - chatUsage.files \/ ~chatBudget.fits)
    <3>1. completions' = completions + 1
      BY <1>2, <1>6
    <3>2. QED
      BY <1>1, <1>2, <1>6, <2>1, <2>3, <3>1, CallKeeps
  <2>4. QED
    BY <2>2, <2>3
<1>7. CASE stopped = "no" /\ parts = 0 /\ valid
  <2>1. Outcome("plan_proposed") /\ UNCHANGED <<messages, chatUsage>>
    BY <1>7 DEF Continue, parts, text
  <2>2. QED
    BY <1>3, <1>7, <2>1, OutcomeIs
<1>8. CASE stopped = "no" /\ parts = 0 /\ ~valid
  <2>1. IF chatUsage.repairs >= chatBudget.repairs
        THEN Outcome("invalid_plan") /\ UNCHANGED <<messages, chatUsage>>
        ELSE /\ chatStage' = "ready" /\ messages' = Repair(text)
             /\ chatUsage' = [chatUsage EXCEPT !.repairs = @ + 1]
    BY <1>8 DEF Continue, parts, text
  <2>2. CASE chatUsage.repairs >= chatBudget.repairs
    <3>1. Outcome("invalid_plan") /\ UNCHANGED <<messages, chatUsage>>
      BY <2>1, <2>2
    <3>2. QED
      BY <1>3, <1>8, <3>1, OutcomeIs
  <2>3. CASE ~(chatUsage.repairs >= chatBudget.repairs)
    <3>1. completions' = completions + 1
      BY <1>2, <1>8
    <3>2. QED
      BY <1>2, <1>8, <2>1, <2>3, <3>1, RepairKeeps
  <2>4. QED
    BY <2>2, <2>3
<1>9. parts > 0 \/ parts = 0
  BY <1>1
<1>10. QED
  BY <1>4, <1>5, <1>6, <1>7, <1>8, <1>9

\* The session and its transport tell one story, whatever is said to it and whenever it is
\* stopped (PlannerSession.execute, BoundaryTransport, validateRequest).
THEOREM TheOutcomesAreHonest == SessionInit /\ [][SessionNext]_sessionVars => []OutcomesAreHonest
<1>1. SessionInit => ChatInv
  <2> SUFFICES ASSUME SessionInit PROVE ChatInv
    OBVIOUS
  <2> DEFINE y == Message("system", "words")
             u == Message("user", "words")
  <2>1. messages = <<y, u>>
    BY DEF SessionInit
  <2>2. y \in ChatMessage /\ y.role = "system" /\ y.text = "words" /\ y.calls = <<>>
    <3>1. y = [role |-> "system", text |-> "words", calls |-> <<>>, of |-> <<>>]
      BY DEF Message
    <3>2. <<>> \in Seq(CallIds)
      OBVIOUS
    <3>3. <<>> \in CallIds \cup {<<>>}
      OBVIOUS
    <3> HIDE DEF y, CallIds
    <3>4. QED
      BY <3>1, <3>2, <3>3 DEF ChatMessage
  <2> HIDE DEF y, u
  <2> DEFINE h == Append(<<>>, y)
  <2>3. h = <<y>> /\ h \in Seq(ChatMessage) /\ Len(h) = 1 /\ DOMAIN h = 1 .. 1 /\ h[1] = y
    BY <2>2
  <2>4. Made(<<>>, 0) = {} /\ Answered(<<>>, 0) = {}
    BY DEF Made, Answered
  <2>5. ToSet(y.calls) = {}
    BY <2>2 DEF ToSet
  <2>6. Made(h, 1) = {} /\ Answered(h, 1) = {} /\ Made(h, 0) = {} /\ Answered(h, 0) = {}
    <3>1. <<>> \in Seq(ChatMessage) /\ Len(<<>>) = 0 /\ 0 \in 0 .. Len(<<>>) /\ 0 + 1 = 1
      OBVIOUS
    <3>2. /\ Made(h, Len(<<>>) + 1) = Made(<<>>, Len(<<>>)) \cup ToSet(y.calls)
          /\ Answered(h, Len(<<>>) + 1) =
                 Answered(<<>>, Len(<<>>)) \cup (IF y.role = "tool" THEN {y.of} ELSE {})
      BY <2>2, <3>1, MadeAfter
    <3>3. Made(h, 0) = Made(<<>>, 0) /\ Answered(h, 0) = Answered(<<>>, 0)
      BY <2>2, <3>1, MadeBefore
    <3> HIDE DEF h
    <3>4. QED
      BY <2>2, <2>4, <2>5, <3>1, <3>2, <3>3
  <2> HIDE DEF h
  <2>7. Pending(h, 0) = {} /\ Pending(h, 1) = {}
    BY <2>6 DEF Pending
  <2>8. Wholesome(chatSchema, h)
    <3>1. TakesMessage(chatSchema, h, 1)
      <4>1. 1 - 1 = 0
        OBVIOUS
      <4>2. QED
        BY <2>2, <2>3, <2>7, <4>1 DEF TakesMessage
    <3>2. \A n \in 1 .. 1 : n = 1
      OBVIOUS
    <3>3. QED
      BY <2>3, <2>7, <3>1, <3>2 DEF Wholesome
  <2>9. /\ u \in ChatMessage /\ Wholesome(chatSchema, Append(h, u)) /\ Made(Append(h, u), 2) = {}
    <3>1. Len(h) >= 1 /\ Len(h) + 1 = 2
      BY <2>3
    <3>2. u \in ChatMessage /\ Wholesome(chatSchema, Append(h, u)) /\ Made(Append(h, u), Len(h) + 1) = Made(h, Len(h))
      BY <2>3, <2>8, <3>1, WordsFollow DEF u
    <3>3. QED
      BY <2>3, <2>6, <3>1, <3>2
  <2>10. messages = Append(h, u) /\ messages \in Seq(ChatMessage) /\ Len(messages) = 2
    BY <2>1, <2>2, <2>3, <2>9
  <2>11. ChatTypeOK
    BY <2>10 DEF SessionInit, ChatTypeOK
  <2>12. Working
    <3>1. /\ chatStage = "ready" /\ completions = 0
          /\ chatUsage.requests = 0 /\ chatUsage.files = 0 /\ chatUsage.repairs = 0
      BY DEF SessionInit
    <3>2. Wholesome(chatSchema, messages) /\ Made(messages, Len(messages)) = {}
      BY <2>9, <2>10
    <3>3. Len(messages) <= 2 + 2 * chatUsage.files + 2 * chatUsage.repairs
      BY <2>10, <3>1
    <3>4. QED
      BY <3>1, <3>2, <3>3 DEF Working
  <2>13. OutcomesAreHonest
    BY DEF SessionInit, OutcomesAreHonest
  <2>14. QED
    BY <2>11, <2>12, <2>13 DEF ChatInv
<1>2. ChatInv /\ [SessionNext]_sessionVars => ChatInv'
  <2> SUFFICES ASSUME ChatInv, [SessionNext]_sessionVars PROVE ChatInv'
    OBVIOUS
  <2>1. CASE UNCHANGED sessionVars
    <3>1. ChatTypeOK' /\ Working'
      BY <2>1 DEF sessionVars, ChatInv, ChatTypeOK, Working
    <3>2. OutcomesAreHonest'
      BY <2>1 DEF sessionVars, ChatInv, OutcomesAreHonest
    <3>3. QED
      BY <3>1, <3>2 DEF ChatInv
  <2>2. QED
    BY <2>1, RequestKeeps, ResponseKeeps, StopKeeps, AnswerKeeps DEF SessionNext
<1>3. ChatInv => OutcomesAreHonest
  BY DEF ChatInv
<1>4. QED
  BY <1>1, <1>2, <1>3, PTL
=============================================================================
