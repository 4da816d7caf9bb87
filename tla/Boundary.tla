------------------------------- MODULE Boundary -------------------------------
(***************************************************************************)
(* The request handlers of experiments/inference-boundary/boundary.ts over *)
(* the policy gate.  A handler runs from one await to the next: it reads   *)
(* the body, is admitted, marks its send, streams, finalises, releases the *)
(* completion and finishes; aborts (a client that leaves, a deadline, a    *)
(* revocation, a close) reach it in between.                               *)
(***************************************************************************)
EXTENDS PolicyGate

VARIABLES pc,        \* of each request: where its handler is
          released   \* of each request: none, some or all of its completion written

boundary == <<pc, released>>
vars == <<gate, callers, external, boundary>>

InFlight == {"body", "admitting", "marking", "streaming", "finalizing", "releasing"}
Forwarded(r) == provider[r] # "none"
Goto(r, label) == pc' = [pc EXCEPT ![r] = label]
Answered(r, label, answers) == pc[r] = label /\ reply[r] \in answers
Forget(r) == reply' = [reply EXCEPT ![r] = None]
GateSame == UNCHANGED <<life, failed, uncertain, journal, disk, lock, step>>

\* A call of the gate: refused at once, or queued.
Call(op, r, outcome, label, otherwise) ==
    IF Accepts THEN Enqueue(op, r, outcome) /\ Goto(r, label)
    ELSE UNCHANGED queue /\ Goto(r, otherwise)

\* The handler's catch and finally: abort the rest, then settle with the gate.
Finish(r, outcome) ==
    /\ aborted' = [aborted EXCEPT ![r] = @ \/ outcome # "completed"]
    /\ Call("finish", r, outcome, "finishing", "done")

Failures(r) ==
    IF ~Forwarded(r) THEN {"failed_before_output"}
    ELSE IF aborted[r] \/ ~Current(r) THEN {"cancelled_unknown"}
    ELSE {"failed_before_output", "partial_failure", "cancelled_unknown"}

Fail(r) == \E outcome \in Failures(r) : Finish(r, outcome)

-----------------------------------------------------------------------------

\* The supervisor gives an attempt its only token; a journal that knows the attempt forbids it.
Issue(a) ==
    /\ life = "open" /\ ~shut /\ scopes[a] = "none" /\ journal.counts[a] = 0 /\ journal.epoch # 0
    /\ scopes' = [scopes EXCEPT ![a] = "live"]
    /\ bound' = [bound EXCEPT ![a] = journal.epoch]
    /\ UNCHANGED <<gate, aborted, shut, external, boundary>>

Expire(a) ==
    /\ scopes[a] = "live"
    /\ scopes' = [scopes EXCEPT ![a] = "ended"]
    /\ UNCHANGED <<gate, aborted, bound, shut, external, boundary>>

Revoke(a) ==
    /\ scopes[a] = "live"
    /\ scopes' = [scopes EXCEPT ![a] = "ended"]
    /\ aborted' = [r \in Requests |-> aborted[r] \/ (AttemptOf[r] = a /\ pc[r] \in InFlight)]
    /\ UNCHANGED <<gate, bound, shut, external, boundary>>

\* A token is good while its scope is.
Authenticate(r) == Current(r)

Arrive(r) ==
    /\ pc[r] = "new" /\ life \in {"open", "closing"} /\ Authenticate(r)
    /\ Goto(r, "body")
    /\ UNCHANGED <<gate, callers, external, released>>

\* A client that leaves, or the first of the request's deadlines.
Abort(r) ==
    /\ pc[r] \in InFlight /\ ~aborted[r]
    /\ aborted' = [aborted EXCEPT ![r] = TRUE]
    /\ UNCHANGED <<gate, scopes, bound, shut, external, boundary>>

\* The whole body, unless its request was aborted while it came.
Body(r) == pc[r] = "body" /\ ~aborted[r]

Reject(r) == Goto(r, "done") /\ UNCHANGED queue

\* The body is read and its translation is submitted, or it is refused.
Submit(r) ==
    /\ \/ Body(r) /\ Call("admit", r, "active", "admitting", "done")
       \/ pc[r] = "body" /\ Reject(r)
    /\ GateSame /\ UNCHANGED <<reply, callers, external, released>>

MayRun(r) == Current(r) /\ ~aborted[r]

\* What a handler checks between the durable reservation and the first byte upstream.
Recheck(r) == MayRun(r)

Forward(r) ==
    /\ provider' = [provider EXCEPT ![r] = "sent"]
    /\ Goto(r, "streaming")
    /\ UNCHANGED <<queue, aborted>>

Admitted(r) ==
    /\ Answered(r, "admitting", {"ok"})
    /\ Forget(r)
    /\ \/ ~Recheck(r) /\ Fail(r) /\ UNCHANGED provider
       \/ /\ Recheck(r) /\ Receipts /\ UNCHANGED provider
          /\ IF Accepts THEN Enqueue("markSend", r, "active") /\ Goto(r, "marking") /\ UNCHANGED aborted
             ELSE Fail(r)
       \/ Recheck(r) /\ ~Receipts /\ Forward(r)
    /\ GateSame /\ UNCHANGED <<scopes, bound, shut, frozen, writer, released>>

NotAdmitted(r) ==
    /\ Answered(r, "admitting", {"denied"})
    /\ Forget(r) /\ Goto(r, "done")
    /\ GateSame /\ UNCHANGED <<queue, callers, external, released>>

Marked(r) ==
    /\ pc[r] = "marking" /\ reply[r] # None
    /\ Forget(r)
    /\ IF reply[r] = "ok" /\ Recheck(r) THEN Forward(r) ELSE Fail(r) /\ UNCHANGED provider
    /\ GateSame /\ UNCHANGED <<scopes, bound, shut, frozen, writer, released>>

\* The stream ends complete: at the end of file, whatever the provider still does.
StreamEnds(r) ==
    /\ pc[r] = "streaming" /\ MayRun(r)
    /\ IF Receipts
       THEN /\ IF Accepts THEN Enqueue("finalize", r, "active") /\ Goto(r, "finalizing")
                               /\ UNCHANGED aborted
               ELSE Fail(r)
            /\ UNCHANGED released
       ELSE /\ released' = [released EXCEPT ![r] = "all"]
            /\ Finish(r, "completed")
    /\ GateSame /\ UNCHANGED <<reply, scopes, bound, shut, external>>

\* The stream breaks, violates the protocol or its limits, or the handler is aborted.
StreamBreaks(r) ==
    /\ pc[r] = "streaming"
    /\ Fail(r)
    /\ GateSame /\ UNCHANGED <<reply, scopes, bound, shut, external, released>>

Finalized(r) ==
    /\ pc[r] = "finalizing" /\ reply[r] # None
    /\ Forget(r)
    /\ IF reply[r] = "ok" THEN Goto(r, "releasing") /\ UNCHANGED <<queue, aborted>>
       ELSE Fail(r)
    /\ GateSame /\ UNCHANGED <<scopes, bound, shut, external, released>>

AssertRelease(r) ==
    /\ Accepts /\ journal.phase \in {"active", "draining"} /\ r \in Reserved(journal)
    /\ \E i \in DOMAIN journal.decisions :
          journal.decisions[i].request = r /\ journal.decisions[i].verdict = "validated_success"

\* One output of the completion is written; between two the handler may wait for the client.
ReleaseOutput(r) ==
    /\ pc[r] = "releasing" /\ MayRun(r) /\ AssertRelease(r)
    /\ \/ /\ released[r] = "none" /\ released' = [released EXCEPT ![r] = "some"]
          /\ UNCHANGED <<queue, aborted, pc>>
       \/ released' = [released EXCEPT ![r] = "all"] /\ Finish(r, "completed")
    /\ GateSame /\ UNCHANGED <<reply, scopes, bound, shut, external>>

ReleaseBreaks(r) ==
    /\ pc[r] = "releasing"
    /\ Fail(r)
    /\ GateSame /\ UNCHANGED <<reply, scopes, bound, shut, external, released>>

Finished(r) ==
    /\ pc[r] = "finishing" /\ reply[r] # None
    /\ Forget(r) /\ Goto(r, "done")
    /\ GateSame /\ UNCHANGED <<queue, callers, external, released>>

-----------------------------------------------------------------------------

Activate ==
    /\ Accepts /\ journal.phase = "closed"
    /\ \A i \in DOMAIN queue : queue[i].op # "activate"
    /\ Enqueue("activate", None, "active")
    /\ UNCHANGED <<life, failed, uncertain, journal, disk, lock, step, reply, callers, external, boundary>>

DrainAndReplace ==
    /\ Accepts /\ journal.epoch \in 1 .. MaxEpoch - 1
    /\ \A i \in DOMAIN queue : queue[i].op # "replace"
    /\ Enqueue("replace", None, "active")
    /\ UNCHANGED <<life, failed, uncertain, journal, disk, lock, step, reply, callers, external, boundary>>

\* close(): abort every handler; the gate of schema 1 is closed at once.
Close ==
    /\ life = "open" /\ ~shut
    /\ shut' = TRUE
    /\ aborted' = [r \in Requests |-> aborted[r] \/ pc[r] \in InFlight]
    /\ IF Receipts THEN UNCHANGED gate ELSE GateClose
    /\ UNCHANGED <<scopes, bound, external, boundary>>

Over == \A r \in Requests : pc[r] \in {"new", "done", "gone"}

\* With receipts the handlers settle first.
CloseLast ==
    /\ Receipts /\ shut /\ Over /\ GateClose
    /\ UNCHANGED <<callers, external, boundary>>

\* A new boundary over a gate opened once the old one has closed.
Start ==
    /\ Over /\ Open
    /\ scopes' = [a \in Attempts |-> "none"] /\ bound' = [a \in Attempts |-> 0]
    /\ shut' = FALSE
    /\ UNCHANGED <<aborted, boundary>>

Die ==
    /\ Mortal /\ Crash
    /\ pc' = [r \in Requests |-> IF pc[r] = "new" THEN "new" ELSE "gone"]
    /\ scopes' = [a \in Attempts |-> "none"] /\ bound' = [a \in Attempts |-> 0]
    /\ shut' = FALSE
    /\ UNCHANGED <<aborted, released>>

HandlerSteps(r) ==
    \/ Submit(r) \/ Admitted(r) \/ NotAdmitted(r) \/ Marked(r)
    \/ StreamEnds(r) \/ StreamBreaks(r) \/ Finalized(r)
    \/ ReleaseOutput(r) \/ ReleaseBreaks(r) \/ Finished(r)

Init ==
    /\ GateInit
    /\ pc = [r \in Requests |-> "new"]
    /\ released = [r \in Requests |-> "none"]

Next ==
    \/ GateSteps /\ UNCHANGED boundary
    \/ StorageFails /\ UNCHANGED boundary
    \/ WriterApplies /\ UNCHANGED boundary
    \/ WriterGivesUp /\ UNCHANGED boundary
    \/ ProviderMoves /\ UNCHANGED boundary
    \/ RemoveLock /\ UNCHANGED boundary
    \/ \E a \in Attempts : Issue(a) \/ Expire(a) \/ Revoke(a)
    \/ \E r \in Requests : Arrive(r) \/ Abort(r) \/ HandlerSteps(r)
    \/ Activate \/ DrainAndReplace \/ Close \/ CloseLast \/ Start \/ Die

Spec == Init /\ [][Next]_vars

-----------------------------------------------------------------------------
(* Properties. *)

\* What the journal on disk says of a request was so upstream, whatever process dies at
\* whatever await of the gate: work that may be under way is reserved, and counted, as
\* possibly sent; a request reserved only, or recorded as never sent, never left; a
\* recorded success succeeded and a recorded failure is over.  And the next process
\* accepts it: no order of admissions, failed writes and crashes leaves a journal that
\* validateJournal refuses.
JournalIsTruthful ==
    /\ disk \in Journal /\ ValidJournal(disk)
    /\ \A r \in Requests :
        LET saved == disk.reservations[r] IN
        /\ provider[r] \in {"sent", "running"} => saved # None
        /\ Receipts /\ provider[r] # "none" /\ saved # None => saved.send = "send_possible"
        /\ \A i \in DOMAIN disk.decisions : disk.decisions[i].request = r =>
              CASE disk.decisions[i].verdict = "never_sent" -> provider[r] = "none"
                [] disk.decisions[i].verdict = "validated_success" -> provider[r] = "success"
                [] OTHER -> Settled(r)

\* No part of a completion reaches the client before its validated success is durable, and
\* the record outlives every restart.
ReleasedIsRecorded ==
    Receipts => \A r \in Requests : released[r] # "none" =>
        \E i \in DOMAIN disk.decisions :
            disk.decisions[i].request = r /\ disk.decisions[i].verdict = "validated_success"

\* A planner chain does not fork: a request of an input revision leaves only when every
\* earlier one of that revision that left was delivered whole.
ChainsDoNotFork ==
    Planner => \A r, s \in Requests :
        r # s /\ ChainOf[r] = ChainOf[s] /\ Forwarded(r) /\ Forwarded(s) =>
            released[r] = "all" \/ released[s] = "all"

\* Neither a completion nor the next request of its chain gets ahead of the record and the
\* delivery it rests on.
NothingRunsAhead == ReleasedIsRecorded /\ ChainsDoNotFork

\* A request leaves only while the router really works by the policy its binding names,
\* whatever replacement timed out, crashed or was given up on before.
SentUnderBoundPolicy ==
    [][\A r \in Requests : provider[r] = "none" /\ provider'[r] # "none" =>
           frozen = bound[AttemptOf[r]]]_vars

\* The boundary implements the ledger of its requests.
Ledger == INSTANCE RequestLedger WITH
    work <- [r \in Requests |->
                CASE provider[r] \in {"sent", "running"} -> "live" [] OTHER -> provider[r]],
    delivered <- {r \in Requests : released[r] # "none"},
    stopped <- {a \in Attempts : shut \/ scopes[a] # "live"}
LedgerSpec == Ledger!LedgerSpec

\* Operations of the gate and awaits of a handler end: answers, timers and storage see to
\* it.  A request's deadline comes, and a closed boundary whose handlers are done closes
\* its gate.  Nothing is assumed of clients, providers, operators or late writers.
FairSpec ==
    /\ Spec
    /\ WF_vars(GateSteps /\ UNCHANGED boundary)
    /\ \A r \in Requests : WF_vars(HandlerSteps(r)) /\ WF_vars(Abort(r))
    /\ WF_vars(CloseLast)

\* A request that arrived ends, whatever the provider, the router and storage do, unless
\* the process dies.
RequestsEnd == \A r \in Requests : pc[r] = "body" ~> pc[r] \in {"done", "gone"}

\* A close ends: no handler, queued operation or lost writer holds it up.
CloseEnds == shut ~> life \in {"closed", "down"}

\* Whatever stalls upstream, every request and every close ends.
EverythingEnds == RequestsEnd /\ CloseEnds
=============================================================================
