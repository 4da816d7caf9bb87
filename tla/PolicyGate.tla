------------------------------ MODULE PolicyGate ------------------------------
(***************************************************************************)
(* The policy gate of experiments/inference-boundary/policy.ts: a journal  *)
(* of request reservations behind a serial queue.  Each queued operation   *)
(* is a sequence of steps, one from an await to the next; what happens     *)
(* elsewhere (aborts, a close, a crash, the provider, a policy writer that *)
(* outlives its timeout) interleaves with those steps.                     *)
(*                                                                         *)
(* With Receipts the journal is of schema 2 or 3 and the authority gives   *)
(* receipts of what a request did; without, it is of schema 1 and the      *)
(* authority only tells whether requests are quiescent.                    *)
(***************************************************************************)
EXTENDS FiniteSets, Integers, Sequences

CONSTANTS Requests,      \* request identifiers, each reserved at most once
          Attempts,
          AttemptOf,     \* the attempt a request is made for
          ChainOf,       \* the planner input revision a request belongs to
          Receipts,      \* schema 2 or 3 rather than 1
          Serial,        \* native profile: one reservation at a time
          Planner,       \* planner protocol: requests of a revision form a chain
          RequestCount,  \* policy.limits.requestCount
          Concurrency,   \* policy.limits.concurrency
          MaxDecisions,  \* capacity of the decision history
          MaxEpoch,      \* bound on policy replacements
          Mortal,        \* whether the process may die in this instance
          None

ASSUME CallersAssumption ==
    AttemptOf \in [Requests -> Attempts] /\ None \notin Requests /\ IsFiniteSet(Requests)
ASSUME ModesAssumption ==
    /\ {Receipts, Serial, Planner, Mortal} \subseteq BOOLEAN
    /\ (Planner => Serial) /\ (Serial => Receipts)
ASSUME LimitsAssumption ==
    /\ RequestCount \in Nat \ {0} /\ Concurrency \in Nat \ {0}
    /\ MaxDecisions \in Nat \ {0} /\ MaxEpoch \in Nat \ {0}

VARIABLES life,       \* the gate object: down (no process), open, closing, closed
          failed,     \* gate.failed: storage or ownership is lost
          uncertain,  \* gate.uncertainMutation: a writer was given up on
          journal,    \* gate.state
          disk,       \* state.json
          lock,       \* owner.lock exists
          queue,      \* operations chained on gate.tail, the first one running
          step,       \* where the running operation is
          reply,      \* of each request: the answer its caller has not yet read
          aborted,    \* of each request: the abort signal of its caller
          scopes,     \* of each attempt: none, live or ended
          bound,      \* of each attempt: the policy epoch its binding names
          shut,       \* the boundary that issued the scopes is closed
          provider,   \* external: what became of each request upstream
          frozen,     \* external: epoch of the policy the router works by
          writer      \* external: epoch a policy writer is installing, or 0

gate == <<life, failed, uncertain, journal, disk, lock, queue, step, reply>>
callers == <<aborted, scopes, bound, shut>>
external == <<provider, frozen, writer>>

-----------------------------------------------------------------------------
(* The journal. *)

Outcomes == {"active", "completed", "failed_before_output", "partial_failure",
             "cancelled_unknown"}
Sends == {"reserved", "send_possible"}
Verdicts == {"validated_success", "quiescent_failure", "never_sent"}
Reservation == [epoch : Nat \ {0}, outcome : Outcomes, send : Sends]
Decision == [request : Requests, send : Sends, verdict : Verdicts,
             delivery : (Outcomes \ {"active"}) \cup {"unobserved"}]
Journal == [phase : {"closed", "active", "draining", "mutating"},
            epoch : Nat,
            reservations : [Requests -> Reservation \cup {None}],
            counts : [Attempts -> 0 .. RequestCount],
            decisions : Seq(Decision)]

ASSUME NoneAssumption == None \notin Reservation /\ None \notin {"ok", "denied", "held"}

EmptyJournal ==
    [phase |-> "closed", epoch |-> 0, reservations |-> [r \in Requests |-> None],
     counts |-> [a \in Attempts |-> 0], decisions |-> <<>>]

Reserved(j) == {r \in Requests : j.reservations[r] # None}
ReservedBy(j, a) == {r \in Reserved(j) : AttemptOf[r] = a}
Decided(j) == {j.decisions[i].request : i \in DOMAIN j.decisions}
Chain(j, c) == {i \in DOMAIN j.decisions : ChainOf[j.decisions[i].request] = c}

Extends(d, r) ==
    /\ d.verdict = "validated_success" /\ d.delivery = "completed"
    /\ AttemptOf[d.request] = AttemptOf[r]

\* What a journal must satisfy to be opened again.
ValidJournal(j) ==
    /\ \A r \in Reserved(j) : j.reservations[r].epoch = j.epoch
    /\ Len(j.decisions) <= MaxDecisions
    /\ Cardinality(Decided(j)) = Len(j.decisions)
    /\ \A i \in DOMAIN j.decisions :
          LET d == j.decisions[i] IN
          /\ (d.verdict = "never_sent") = (d.send = "reserved")
          /\ j.reservations[d.request] # None => j.reservations[d.request].send = d.send
    /\ Planner => \A i \in DOMAIN j.decisions : \A next \in (Reserved(j) \ Decided(j)) \cup
                     {j.decisions[k].request : k \in (i + 1) .. Len(j.decisions)} :
          ChainOf[j.decisions[i].request] = ChainOf[next] => Extends(j.decisions[i], next)
    /\ \A a \in Attempts :
          j.counts[a] >= Cardinality({r \in Reserved(j) \cup Decided(j) : AttemptOf[r] = a})

Release(j, S) == [j EXCEPT !.reservations = [r \in Requests |-> IF r \in S THEN None ELSE @[r]]]

Undelivered(j, r, verdict) ==
    [request |-> r, send |-> j.reservations[r].send, verdict |-> verdict,
     delivery |-> "unobserved"]

Push(j, d) == [j EXCEPT !.decisions = Append(@, d)]

\* The first decision of a request is the one that is kept.  Admission leaves room for it.
RecordDecision(j, r, verdict) ==
    IF r \in Decided(j) THEN j ELSE Push(j, Undelivered(j, r, verdict))

Delivered(j, r, outcome) ==
    [j EXCEPT !.decisions = [i \in DOMAIN @ |->
        IF @[i].request = r THEN [@[i] EXCEPT !.delivery = outcome] ELSE @[i]]]

-----------------------------------------------------------------------------
(* The authority: what it can truthfully answer. *)

Current(r) == ~shut /\ scopes[AttemptOf[r]] = "live" /\ journal.epoch # 0
Settled(r) == provider[r] \in {"success", "failure"}
Quiet(S) == \A r \in S : provider[r] \notin {"sent", "running"}

-----------------------------------------------------------------------------
(* The serial queue. *)

Job(op, r, outcome) == [op |-> op, request |-> r, outcome |-> outcome]
Accepts == life = "open" /\ ~failed /\ ~uncertain
Enqueue(op, r, outcome) == queue' = Append(queue, Job(op, r, outcome))
Abandoned(job) == job.op \in {"admit", "finalize"} /\ aborted[job.request]

\* An operation takes its turn after a read of the lock file, so the caller of the one
\* before it has read its answer by then.
At(op, s) ==
    /\ queue # <<>> /\ Head(queue).op = op /\ step = s
    /\ \A r \in Requests : reply[r] = None
Takes(op) == At(op, "turn") /\ Accepts /\ ~Abandoned(Head(queue))
Hears(op, s) == At(op, s) /\ life = "open" /\ ~Abandoned(Head(queue))

Return(answer) ==
    /\ queue' = Tail(queue)
    /\ step' = "turn"
    /\ reply' = [r \in Requests |-> IF r = Head(queue).request THEN answer ELSE reply[r]]

Proceed(j, s) ==
    /\ journal' = j
    /\ step' = s
    /\ UNCHANGED <<queue, reply>>

\* A failed operation that leaves an open gate closed persists that first.
Throw(j) ==
    IF life = "open" /\ ~failed /\ j.phase = "closed" THEN Proceed(j, "tidy")
    ELSE journal' = j /\ Return("denied")

Refuse ==
    /\ queue # <<>> /\ step = "turn" /\ Head(queue).op # "close"
    /\ ~Accepts \/ Abandoned(Head(queue))
    /\ \A r \in Requests : reply[r] = None
    /\ Return("denied")
    /\ UNCHANGED <<life, failed, uncertain, journal, disk, lock, callers, external>>

Quietly == UNCHANGED <<life, failed, uncertain, disk, lock, callers, external>>

-----------------------------------------------------------------------------
(* Activation: settle what an earlier process left, then adopt the policy. *)

Leave(j, r) ==
    Release(RecordDecision(j, r, IF j.reservations[r].send = "reserved" THEN "never_sent"
                                 ELSE "quiescent_failure"), {r})

ActivateTurn ==
    /\ Takes("activate")
    /\ IF journal.phase = "closed" THEN Proceed(journal, "settle") ELSE Throw(journal)
    /\ Quietly

SettleUnsent ==
    /\ Receipts /\ At("activate", "settle")
    /\ \E r \in Reserved(journal) :
          journal.reservations[r].send = "reserved" /\ Proceed(Leave(journal, r), "write")
    /\ Quietly

SettleSent ==
    /\ Receipts /\ Hears("activate", "settle")
    /\ \E r \in Reserved(journal) :
          /\ journal.reservations[r].send = "send_possible"
          /\ IF Settled(r) THEN Proceed(Leave(journal, r), "write") ELSE Throw(journal)
    /\ Quietly

Adopt ==
    /\ Hears("activate", "settle")
    /\ Receipts => Reserved(journal) = {}
    /\ \E quiescent \in {FALSE, Quiet(Reserved(journal))} :
          IF quiescent
          THEN Proceed([Release(journal, Requests) EXCEPT !.epoch = frozen, !.phase = "active"],
                       "write")
          ELSE Throw(journal)
    /\ Quietly

-----------------------------------------------------------------------------
(* Admission of a request. *)

Retired(j) == {r \in Reserved(j) : j.reservations[r].outcome # "active"}

\* The last decision of the chain must have been delivered whole under the same binding.
Continues(j, r) ==
    LET previous == Chain(j, ChainOf[r])
    IN  Planner => \A i \in previous :
            (\A k \in previous : k <= i) => Extends(j.decisions[i], r)

\* Slip: a reservation whose handler has ended no longer counts.
HeldActive(j, a) == Cardinality(ReservedBy(j, a) \ Retired(j))

\* The reservations of an attempt that limit its concurrency.
HeldBy(j, a) == Cardinality(ReservedBy(j, a))

Room(j, r) ==
    /\ Current(r)
    /\ bound[AttemptOf[r]] = j.epoch
    /\ HeldBy(j, AttemptOf[r]) < Concurrency
    /\ j.counts[AttemptOf[r]] < RequestCount

Reserve(j, r) ==
    [j EXCEPT !.reservations[r] = [epoch |-> j.epoch, outcome |-> "active", send |-> "reserved"],
              !.counts[AttemptOf[r]] = @ + 1]

Admission(j, r) == IF Room(j, r) THEN Proceed(Reserve(j, r), "write") ELSE Throw(j)

Admissible(j, r) ==
    /\ j.phase = "active" /\ j.epoch # 0
    /\ Receipts => Len(j.decisions) + Cardinality(Reserved(j)) < MaxDecisions
    /\ Serial => Reserved(j) = {}
    /\ Continues(j, r)

\* assertCurrent, or the preparation of a native request: the router's boot, phase,
\* generation or policy is no longer the one that was read, or the request was stopped there.
AssertCurrentRefuses(j) == Receipts /\ Throw(j)

AdmitTurn ==
    /\ Takes("admit")
    /\ LET r == Head(queue).request IN
          \/ ~Admissible(journal, r) /\ Throw(journal)
          \/ /\ Admissible(journal, r)
             /\ IF ~Receipts /\ Retired(journal) # {} THEN Proceed(journal, "retired")
                ELSE Admission(journal, r) \/ AssertCurrentRefuses(journal)
    /\ Quietly

AdmitRetired ==
    /\ Hears("admit", "retired")
    /\ \E quiescent \in {FALSE, Quiet(Retired(journal))} :
          Admission(IF quiescent THEN Release(journal, Retired(journal)) ELSE journal,
                    Head(queue).request)
    /\ Quietly

-----------------------------------------------------------------------------
(* Sending, finalising and finishing a request.  With receipts, the router may *)
(* have moved on since the policy was read: every check of it may refuse.      *)

Sendable(j, r, send) == r \in Reserved(j) /\ j.reservations[r].send = send

\* Slip: the mark is not awaited.
MarkSendUnsaved ==
    /\ Takes("markSend")
    /\ LET r == Head(queue).request IN
          \/ /\ journal.phase = "active" /\ Sendable(journal, r, "reserved")
             /\ journal' = [journal EXCEPT !.reservations[r].send = "send_possible"]
             /\ Return("ok")
          \/ Throw(journal)
    /\ Quietly

MarkSendTurn ==
    /\ Takes("markSend")
    /\ LET r == Head(queue).request IN
          IF journal.phase = "active" /\ Sendable(journal, r, "reserved")
          THEN \/ Proceed([journal EXCEPT !.reservations[r].send = "send_possible"], "write")
               \/ AssertCurrentRefuses(journal)
          ELSE Throw(journal)
    /\ Quietly

FinalizeTurn ==
    /\ Takes("finalize")
    /\ IF /\ journal.phase \in {"active", "draining"}
          /\ Sendable(journal, Head(queue).request, "send_possible")
       THEN Proceed(journal, "receipt") ELSE Throw(journal)
    /\ Quietly

\* Slip: the caller is answered before the decision is durable.
ReceiptUnsaved ==
    /\ Hears("finalize", "receipt")
    /\ LET r == Head(queue).request IN
          /\ Settled(r)
          /\ \/ /\ provider[r] = "success" /\ Current(r)
                /\ journal' = RecordDecision(journal, r, "validated_success")
                /\ Return("ok")
             \/ Throw(journal)
    /\ Quietly

ReceiptArrives ==
    /\ Hears("finalize", "receipt")
    /\ LET r == Head(queue).request IN
          /\ Settled(r)
          /\ \/ /\ provider[r] = "success" /\ Current(r)
                /\ Proceed(RecordDecision(journal, r, "validated_success"), "write")
             \/ Throw(journal)
    /\ Quietly

Conclude(j, r, outcome) == Delivered(Leave(j, r), r, outcome)

NeverForwarded(r, outcome) == provider[r] = "none"

FinishTurn ==
    /\ Takes("finish")
    /\ LET r == Head(queue).request
           outcome == Head(queue).outcome
           j == [journal EXCEPT !.reservations[r].outcome = outcome]
       IN  IF r \notin Reserved(journal) THEN Throw(journal)
           ELSE CASE Receipts /\ Sendable(journal, r, "reserved") ->
                        Proceed(Conclude(j, r, outcome), "write")
                  [] ~Receipts /\ NeverForwarded(r, outcome) -> Proceed(Release(j, {r}), "write")
                  [] OTHER -> Proceed(j, "verdict")
    /\ Quietly

VerdictArrives ==
    /\ Hears("finish", "verdict")
    /\ LET r == Head(queue).request IN
          \/ Receipts /\ Settled(r) /\ Proceed(Conclude(journal, r, Head(queue).outcome), "write")
          \/ Receipts /\ ~Settled(r) /\ Proceed(journal, "write")
          \/ ~Receipts /\ Quiet({r}) /\ Proceed(Release(journal, {r}), "write")
          \/ ~Receipts /\ Proceed(journal, "write")
    /\ Quietly

-----------------------------------------------------------------------------
(* Replacement of the policy, schema 1 only. *)

ReplaceTurn ==
    /\ Takes("replace")
    /\ IF journal.phase \notin {"active", "draining"} THEN Throw(journal)
       ELSE Proceed([journal EXCEPT !.phase = IF Receipts THEN "closed" ELSE "draining"], "write")
    /\ Quietly

\* An active local stream must finish, even when its upstream work has.
DrainWaits ==
    /\ At("replace", "drain") /\ Retired(journal) # Reserved(journal)
    /\ Return("held")
    /\ UNCHANGED journal /\ Quietly

Drain ==
    /\ Hears("replace", "drain") /\ Retired(journal) = Reserved(journal)
    /\ \E quiescent \in {FALSE, Quiet(Reserved(journal))} :
          IF quiescent
          THEN Proceed([Release(journal, Requests) EXCEPT !.phase = "mutating"], "write")
          ELSE Return("held") /\ UNCHANGED journal
    /\ Quietly

Replaced ==
    /\ Hears("replace", "mutate") /\ frozen = writer
    /\ writer' = 0
    /\ Proceed([journal EXCEPT !.epoch = writer, !.phase = "active"], "write")
    /\ UNCHANGED <<life, failed, uncertain, disk, lock, callers, provider, frozen>>

\* The writer fails, or what it read back is not the policy under review.
ReplaceFails ==
    /\ At("replace", "mutate")
    /\ writer' = 0
    /\ Throw([journal EXCEPT !.phase = "closed"])
    /\ UNCHANGED <<life, failed, uncertain, disk, lock, callers, provider, frozen>>

\* The timeout or a close ends the wait; the writer itself goes on.
ReplaceAbandoned ==
    /\ At("replace", "mutate")
    /\ uncertain' = TRUE
    /\ Throw([journal EXCEPT !.phase = "closed"])
    /\ UNCHANGED <<life, failed, disk, lock, callers, external>>

WriterApplies ==
    /\ writer # 0
    /\ frozen' = writer
    /\ UNCHANGED <<gate, callers, provider, writer>>

WriterGivesUp ==
    /\ writer # 0 /\ ~At("replace", "mutate")
    /\ writer' = 0
    /\ UNCHANGED <<gate, callers, provider, frozen>>

-----------------------------------------------------------------------------
(* Persistence, failures of the authority and of storage. *)

\* What an operation does once its journal is on disk.
Written ==
    CASE Head(queue).op = "activate" /\ journal.phase = "closed" -> Proceed(journal, "settle")
      [] Head(queue).op = "replace" /\ journal.phase = "draining" -> Proceed(journal, "drain")
      [] Head(queue).op = "replace" /\ journal.phase = "mutating" -> Proceed(journal, "mutate")
      [] Head(queue).op = "replace" /\ journal.phase = "closed" -> Throw(journal)
      [] Head(queue).op = "finalize" ->
            \/ Current(Head(queue).request) /\ ~Abandoned(Head(queue)) /\ life = "open"
               /\ Return("ok") /\ UNCHANGED journal
            \/ Throw(journal)
      [] Head(queue).op = "finish" ->
            /\ Return(IF Head(queue).request \in Reserved(journal) THEN "held" ELSE "ok")
            /\ UNCHANGED journal
      [] OTHER -> (Return("ok") \/ (Head(queue).op = "markSend" /\ Serial /\ Return("denied")))
                  /\ UNCHANGED journal

Persist ==
    /\ queue # <<>> /\ step = "write" /\ Head(queue).op # "close" /\ life = "open"
    /\ disk' = journal
    /\ Written
    /\ writer' = IF Head(queue).op = "replace" /\ journal.phase = "mutating"
                 THEN journal.epoch + 1 ELSE writer
    /\ UNCHANGED <<life, failed, uncertain, lock, callers, provider, frozen>>

Tidy ==
    /\ queue # <<>> /\ step = "tidy" /\ life = "open"
    /\ disk' = journal
    /\ Return("denied")
    /\ UNCHANGED <<life, failed, uncertain, journal, lock, callers, external>>

\* Slip: the wait for a receipt has no timer.
AsksButReceipt ==
    \/ Receipts /\ At("activate", "settle")
       /\ \E r \in Reserved(journal) : journal.reservations[r].send = "send_possible"
    \/ At("activate", "settle") /\ (Receipts => Reserved(journal) = {})
    \/ At("admit", "retired") \/ At("finish", "verdict")
    \/ At("replace", "drain") /\ Retired(journal) = Reserved(journal)

\* Every failed or timed-out answer of the authority closes the gate.
Asks ==
    \/ Receipts /\ At("activate", "settle")
       /\ \E r \in Reserved(journal) : journal.reservations[r].send = "send_possible"
    \/ At("activate", "settle") /\ (Receipts => Reserved(journal) = {})
    \/ At("admit", "retired") \/ At("finalize", "receipt") \/ At("finish", "verdict")
    \/ At("replace", "drain") /\ Retired(journal) = Reserved(journal)

AuthorityFails ==
    /\ Asks
    /\ Throw([journal EXCEPT !.phase = "closed"])
    /\ Quietly

\* The directory, or the lock file that names this owner in it, is not as it was left.
LosesOwner == failed' = TRUE /\ journal' = [journal EXCEPT !.phase = "closed"]

\* A read or write of the directory fails; the rename may have happened before.
StorageFails ==
    /\ queue # <<>> /\ step # "mutate"
    /\ life = "open" \/ Head(queue).op = "close"
    /\ LosesOwner
    /\ disk' \in {disk} \cup (IF step \in {"write", "tidy"} THEN {journal} ELSE {})
    /\ life' = IF Head(queue).op = "close" THEN "closed" ELSE life
    /\ Return("denied")
    /\ UNCHANGED <<uncertain, lock, callers, external>>

\* A close that arrives during the write of another operation stops it before the rename.
PersistRefused ==
    /\ queue # <<>> /\ step \in {"write", "tidy"} /\ Head(queue).op # "close"
    /\ life = "closing"
    /\ LosesOwner
    /\ Return("denied")
    /\ UNCHANGED <<life, uncertain, disk, lock, callers, external>>

-----------------------------------------------------------------------------
(* The life of the gate. *)

Open ==
    /\ life \in {"down", "closed"} /\ ~lock
    /\ ValidJournal(disk)
    /\ lock' = TRUE
    /\ \/ /\ life' = "open" /\ failed' = FALSE /\ uncertain' = FALSE
          /\ journal' = [disk EXCEPT !.phase = "closed"] /\ disk' = journal'
       \/ UNCHANGED <<life, failed, uncertain, journal, disk>>   \* the first persist fails
    /\ UNCHANGED <<queue, step, reply, external>>

GateClose ==
    /\ life = "open"
    /\ life' = "closing"
    /\ Enqueue("close", None, "active")
    /\ UNCHANGED <<failed, uncertain, journal, disk, lock, step, reply>>

CloseTurn ==
    /\ At("close", "turn")
    /\ Proceed([journal EXCEPT !.phase = "closed"], "write")
    /\ Quietly

\* Slip: every close gives the lock back.
UnlocksAlways == TRUE

\* The lock of a gate that gave up on a writer is kept for the operator.
Unlocks == ~uncertain
CloseWritten ==
    /\ At("close", "write")
    /\ disk' = journal
    /\ life' = "closed"
    /\ lock' = ~Unlocks
    /\ Return("ok")
    /\ UNCHANGED <<failed, uncertain, journal, callers, external>>

\* The process dies, with whatever writer it ran.  A rename under way may have happened.
Crash ==
    /\ life # "down"
    /\ life' = "down" /\ failed' = FALSE /\ uncertain' = FALSE
    /\ disk' \in {disk} \cup (IF step \in {"write", "tidy"} THEN {journal} ELSE {})
    /\ journal' = EmptyJournal
    /\ queue' = <<>> /\ step' = "turn" /\ reply' = [r \in Requests |-> None]
    /\ frozen' \in {frozen} \cup (IF writer # 0 THEN {writer} ELSE {})
    /\ writer' = 0
    /\ UNCHANGED <<lock, provider>>

\* The operator removes the lock once the supervisor is known to be dead.
RemoveLock ==
    /\ life = "down" /\ lock
    /\ lock' = FALSE
    /\ UNCHANGED <<life, failed, uncertain, journal, disk, queue, step, reply, callers, external>>

-----------------------------------------------------------------------------
(* External: the provider behind the router. *)

ProviderMoves ==
    /\ \E r \in Requests :
          \/ provider[r] = "sent" /\ provider' = [provider EXCEPT ![r] = "running"]
          \/ /\ provider[r] = "running"
             /\ \E result \in {"success", "failure"} : provider' = [provider EXCEPT ![r] = result]
    /\ UNCHANGED <<gate, callers, frozen, writer>>

\* Every operation of the gate ends: its caller, the authority's timer and storage see to it.
GateSteps ==
    \/ Refuse \/ Persist \/ PersistRefused \/ Tidy \/ AuthorityFails \/ CloseTurn \/ CloseWritten
    \/ ActivateTurn \/ SettleUnsent \/ SettleSent \/ Adopt
    \/ AdmitTurn \/ AdmitRetired \/ MarkSendTurn \/ FinalizeTurn \/ ReceiptArrives
    \/ FinishTurn \/ VerdictArrives
    \/ ReplaceTurn \/ DrainWaits \/ Drain \/ Replaced \/ ReplaceFails \/ ReplaceAbandoned

GateInit ==
    /\ life = "down" /\ failed = FALSE /\ uncertain = FALSE
    /\ journal = EmptyJournal /\ disk = EmptyJournal /\ lock = FALSE
    /\ queue = <<>> /\ step = "turn" /\ reply = [r \in Requests |-> None]
    /\ aborted = [r \in Requests |-> FALSE]
    /\ scopes = [a \in Attempts |-> "none"]
    /\ bound = [a \in Attempts |-> 0]
    /\ shut = FALSE
    /\ provider = [r \in Requests |-> "none"]
    /\ frozen = 1 /\ writer = 0
=============================================================================
