---------------------------- MODULE RouterAuthority ----------------------------
(***************************************************************************)
(* The authority inside the router, overlay/authority.mjs with             *)
(* evaluation-scope.mjs: which policy the router works by, which requests  *)
(* it admitted, and what became of every operation it sent to a provider.  *)
(* Its tables survive the process; handlers, transports, mutation          *)
(* callbacks and request clocks do not.                                    *)
(*                                                                         *)
(* JavaScript runs to the next await, and each database transaction is     *)
(* synchronous: an action is one such stretch.  A policy revision changes  *)
(* with the generation only, which stands for both.                        *)
(***************************************************************************)
EXTENDS FiniteSets, Integers, Sequences, SequencesExt

CONSTANTS Requests,
          Policies,       \* projections of the router's own tables
          Scopes,         \* evaluation scopes, one to a native profile
          Native,         \* a native profile is configured
          MaxAttempts,    \* scope.maxInferenceAttempts, or 16 without a profile
          MaxGeneration,  \* bound on generations
          None

ASSUME RouterAssumption ==
    /\ Native \in BOOLEAN /\ MaxAttempts \in Nat \ {0} /\ MaxGeneration \in Nat \ {0}
    /\ None \notin Requests \cup Policies \cup Scopes

VARIABLES
    phase, generation,
    recorded,    \* gaffer_authority.policy
    actual,      \* what the router's tables project to
    receipts,    \* gaffer_receipts
    operations,  \* gaffer_operations of each request, by ordinal
    missing,     \* gaffer_missing: ids asked for before they were known
    scopes,      \* gaffer_scopes: phase and spent attempts
    prepared,    \* gaffer_native_admissions: the scope a request was prepared for
    profile,     \* volatile: the scope of the selected native profile
    clocks,      \* volatile: requests whose deadline this process knows
    handlers,    \* volatile: running request handlers, with their generation and policy
    cancelled,   \* volatile: requests whose context is aborted
    transports,  \* volatile: requests with a provider transport open
    writers,     \* volatile: mutation callbacks, with generation and expected policy
    sent         \* external: what the provider does with each operation

tables == <<phase, generation, recorded, actual, receipts, operations, missing, scopes, prepared>>
volatile == <<profile, clocks, handlers, cancelled, transports, writers>>
vars == <<tables, volatile, sent>>

-----------------------------------------------------------------------------
(* Receipts. *)

\* Every stop but the orderly one is "stopped": the boundary tells no more apart.
Receipt == [generation : 1 .. MaxGeneration, stop : {"running", "local_eof", "stopped"},
            done : BOOLEAN]
Operation == [terminal : {"unknown", "completed", "failed"},
              stop : {"running", "original_eof", "stopped"}]
Handler == [generation : 1 .. MaxGeneration, policy : Policies]

ASSUME NoneAssumption == None \notin Receipt \cup Handler

Known(r) == receipts[r] # None
Unknown(r) == \E i \in DOMAIN operations[r] : operations[r][i].terminal = "unknown"

Quiescent(r) == Known(r) /\ receipts[r].done /\ ~Unknown(r)

AllQuiet == missing = {} /\ \A r \in Requests : Known(r) => Quiescent(r)

\* What the boundary reads from a receipt: an end counts only if the original response ended.
Disposition(r) ==
    IF \/ ~Quiescent(r)
       \/ \E i \in DOMAIN operations[r] : operations[r][i].stop # "original_eof"
    THEN "pending_or_unknown"
    ELSE IF operations[r] # <<>> /\ Last(operations[r]).terminal = "completed"
    THEN "original_success" ELSE "quiescent_failure"

Snapshot == <<actual, profile>>
Active == {r \in Requests : handlers[r] # None} \cup transports

\* A scope is used while its process knows its clock.
ScopeCurrent(s) == scopes[s].state = "active"

\* What every resumed handler asserts, but for its own deadline.
Fenced(r) ==
    \/ r \in cancelled \/ phase \notin {"active", "draining"}
    \/ handlers[r].generation # generation
    \/ Native /\ ~ScopeCurrent(prepared[r])

-----------------------------------------------------------------------------
(* The process. *)

\* A new boot closes the authority and marks whatever was under way; spent stays spent.
Crashed(r) ==
    IF Known(r) /\ ~receipts[r].done THEN [receipts[r] EXCEPT !.stop = "stopped"]
    ELSE receipts[r]

CrashedOperation(o) ==
    IF o.terminal = "unknown" THEN [o EXCEPT !.stop = "stopped"] ELSE o

CrashedScope(s) ==
    IF ScopeCurrent(s) THEN [scopes[s] EXCEPT !.state = "closed"] ELSE scopes[s]

Boot ==
    /\ generation < MaxGeneration
    /\ generation' = generation + 1 /\ phase' = "closed"
    /\ receipts' = [r \in Requests |-> Crashed(r)]
    /\ operations' = [r \in Requests |->
                        [i \in DOMAIN operations[r] |-> CrashedOperation(operations[r][i])]]
    /\ scopes' = [s \in Scopes |-> CrashedScope(s)]
    /\ profile' = None /\ clocks' = {} /\ handlers' = [r \in Requests |-> None]
    /\ cancelled' = {} /\ transports' = {} /\ writers' = {}
    /\ UNCHANGED <<recorded, actual, missing, prepared, sent>>

ConfigureNative(s) ==
    /\ Native /\ phase = "closed" /\ AllQuiet /\ profile = None
    /\ profile' = s
    /\ UNCHANGED <<tables, clocks, handlers, cancelled, transports, writers, sent>>

SelectNativeProfile(s) ==
    /\ Native /\ phase = "active" /\ Active = {} /\ AllQuiet
    /\ s # profile /\ (scopes[s].state = "unused" \/ ScopeCurrent(s))
    /\ generation < MaxGeneration
    /\ generation' = generation + 1
    /\ profile' = s /\ recorded' = <<actual, s>>
    /\ UNCHANGED <<phase, actual, receipts, operations, missing, scopes, prepared, clocks,
                   handlers, cancelled, transports, writers, sent>>

-----------------------------------------------------------------------------
(* Policy. *)

\* Slip: requests that ended locally are taken for quiet.
QuietLocally == missing = {} /\ \A r \in Requests : Known(r) => receipts[r].done

\* Between the drain and the mutation nothing else runs.
Drained == AllQuiet

Replace(p) ==
    /\ phase # "mutating"
    /\ Native => profile # None
    /\ IF Drained
       THEN /\ generation < MaxGeneration
            /\ generation' = generation + 1 /\ phase' = "mutating"
            /\ writers' = writers \cup {[generation |-> generation + 1, expected |-> p]}
       ELSE phase' = "draining" /\ UNCHANGED <<generation, writers>>
    /\ UNCHANGED <<recorded, actual, receipts, operations, missing, scopes, prepared, profile,
                   clocks, handlers, cancelled, transports, sent>>

LetsWrite(w) == phase = "mutating" /\ w.generation = generation

WriterWrites(w) ==
    /\ LetsWrite(w)
    /\ actual' \in Policies
    /\ UNCHANGED <<phase, generation, recorded, receipts, operations, missing, scopes, prepared,
                   volatile, sent>>

WriterEnds(w) ==
    /\ writers' = writers \ {w}
    /\ \/ /\ LetsWrite(w) /\ actual = w.expected
          /\ phase' = "active" /\ recorded' = Snapshot
       \/ /\ phase' = IF generation = w.generation THEN "closed" ELSE phase
          /\ UNCHANGED recorded
    /\ UNCHANGED <<generation, actual, receipts, operations, missing, scopes, prepared, profile,
                   clocks, handlers, cancelled, transports, sent>>

Fence ==
    /\ generation < MaxGeneration
    /\ phase' = "closed" /\ generation' = generation + 1
    /\ cancelled' = cancelled \cup Active
    /\ UNCHANGED <<recorded, actual, receipts, operations, missing, scopes, prepared, profile,
                   clocks, handlers, transports, writers, sent>>

\* Asking about an id makes an unknown one missing, for good.
AskQuiescent(r) ==
    /\ ~Known(r) /\ r \notin missing
    /\ missing' = missing \cup {r}
    /\ UNCHANGED <<phase, generation, recorded, actual, receipts, operations, scopes, prepared,
                   volatile, sent>>

-----------------------------------------------------------------------------
(* Evaluation scopes. *)

StartEvaluation ==
    /\ Native /\ phase = "active" /\ profile # None /\ AllQuiet
    /\ \A s \in Scopes : ~ScopeCurrent(s)
    /\ scopes[profile].state = "unused"
    /\ scopes' = [scopes EXCEPT ![profile].state = "active"]
    /\ UNCHANGED <<phase, generation, recorded, actual, receipts, operations, missing, prepared,
                   volatile, sent>>

\* An owner closes a quiet scope, or a check finds its deadline passed or a clock set back.
CloseScope(s) ==
    /\ ScopeCurrent(s)
    /\ scopes' = [scopes EXCEPT ![s].state = "closed"]
    /\ UNCHANGED <<phase, generation, recorded, actual, receipts, operations, missing, prepared,
                   volatile, sent>>

PrepareNative(r) ==
    /\ Native /\ profile # None /\ recorded = Snapshot
    /\ prepared[r] = None /\ ScopeCurrent(profile)
    /\ prepared' = [prepared EXCEPT ![r] = profile]
    /\ clocks' = clocks \cup {r}
    /\ UNCHANGED <<phase, generation, recorded, actual, receipts, operations, missing, scopes,
                   profile, handlers, cancelled, transports, writers, sent>>

-----------------------------------------------------------------------------
(* A request. *)

Admission(r) ==
    /\ phase = "active" /\ ~Known(r) /\ recorded = Snapshot
    /\ Native => /\ prepared[r] = profile /\ r \in clocks /\ ScopeCurrent(profile)
                 /\ Active = {} /\ AllQuiet
    /\ receipts' = [receipts EXCEPT ![r] =
                      [generation |-> generation, stop |-> "running", done |-> FALSE]]
    /\ handlers' = [handlers EXCEPT ![r] = [generation |-> generation, policy |-> actual]]
    /\ UNCHANGED <<phase, generation, recorded, actual, operations, missing, scopes, prepared,
                   profile, clocks, cancelled, transports, writers, sent>>

\* Slip: once its transport is gone an operation may be tried again.
RetryableGone(r) == r \notin transports

Retryable(r) == ~Unknown(r)

Spend(r) ==
    IF Native THEN /\ scopes[prepared[r]].spent < MaxAttempts
                   /\ scopes' = [scopes EXCEPT ![prepared[r]].spent = @ + 1]
    ELSE Len(operations[r]) < MaxAttempts /\ UNCHANGED scopes

\* The operation and its debit are durable before anything is sent; a deadline that passed
\* during the commit keeps both and sends nothing.
Fetch(r) ==
    /\ handlers[r] # None /\ ~Fenced(r) /\ Retryable(r) /\ Spend(r)
    /\ \E goes \in BOOLEAN :
        /\ operations' = [operations EXCEPT ![r] = Append(@, [terminal |-> "unknown",
                             stop |-> IF goes THEN "running" ELSE "stopped"])]
        /\ sent' = [sent EXCEPT ![r] = Append(@, IF goes THEN "live" ELSE "never")]
        /\ transports' = IF goes THEN transports \cup {r} ELSE transports
        /\ cancelled' = IF goes THEN cancelled ELSE cancelled \cup {r}
    /\ UNCHANGED <<phase, generation, recorded, actual, receipts, missing, prepared, profile,
                   clocks, handlers, writers>>

\* Asking again while an operation is unknown ends the request.
FetchAgain(r) ==
    /\ handlers[r] # None /\ ~Fenced(r) /\ ~Retryable(r)
    /\ cancelled' = cancelled \cup {r}
    /\ UNCHANGED <<tables, profile, clocks, handlers, transports, writers, sent>>

Stop(r, terminal, stop) ==
    operations' = [operations EXCEPT ![r][Len(operations[r])] =
                      [terminal |-> terminal, stop |-> stop]]

\* A Responses terminal stands even if the response is not read to its end, but a native
\* completion needs the end.
Observed(r) ==
    CASE Last(sent[r]) = "failure" -> {"failed"}
      [] Last(sent[r]) = "success" /\ ~Native -> {"completed"}
      [] OTHER -> {}

\* The original response ends; what the observer makes of it may still be unknown.
OriginalEof(r) ==
    /\ r \in transports /\ r \notin cancelled /\ Last(sent[r]) \in {"success", "failure"}
    /\ \E terminal \in {"unknown", IF Last(sent[r]) = "success" THEN "completed" ELSE "failed"} :
          Stop(r, terminal, "original_eof")
    /\ transports' = transports \ {r}
    /\ UNCHANGED <<phase, generation, recorded, actual, receipts, missing, scopes, prepared,
                   profile, clocks, handlers, cancelled, writers, sent>>

\* The transport fails or its content is refused, which aborts the request, or it is
\* cancelled, by the abort of the request or by a reader that goes on without it.
TransportEnds(r) ==
    /\ r \in transports
    /\ \E terminal \in {"unknown"} \cup Observed(r) : Stop(r, terminal, "stopped")
    /\ cancelled' \in {cancelled, cancelled \cup {r}}
    /\ transports' = transports \ {r}
    /\ UNCHANGED <<phase, generation, recorded, actual, receipts, missing, scopes, prepared,
                   profile, clocks, handlers, writers, sent>>

HandlerEnds(r) ==
    /\ handlers[r] # None
    /\ \E kind \in {"stopped"} \cup (IF Fenced(r) THEN {} ELSE {"local_eof"}) :
          receipts' = [receipts EXCEPT ![r].done = TRUE,
                                       ![r].stop = IF @ = "running" THEN kind ELSE @]
    /\ handlers' = [handlers EXCEPT ![r] = None]
    /\ cancelled' = IF r \in transports THEN cancelled \cup {r} ELSE cancelled
    /\ UNCHANGED <<phase, generation, recorded, actual, operations, missing, scopes, prepared,
                   profile, clocks, transports, writers, sent>>

Cancel(r) ==
    /\ Known(r)
    /\ receipts' = [receipts EXCEPT ![r].stop = "stopped"]
    /\ cancelled' = cancelled \cup (Active \cap {r})
    /\ UNCHANGED <<phase, generation, recorded, actual, operations, missing, scopes, prepared,
                   profile, clocks, handlers, transports, writers, sent>>

\* External: the provider ends an operation, whether anybody still listens or not.
ProviderEnds(r) ==
    /\ sent[r] # <<>> /\ Last(sent[r]) = "live"
    /\ \E end \in {"success", "failure"} : sent' = [sent EXCEPT ![r][Len(sent[r])] = end]
    /\ UNCHANGED <<tables, volatile>>

-----------------------------------------------------------------------------

Init ==
    /\ phase = "closed" /\ generation = 1 /\ recorded = None /\ actual \in Policies
    /\ receipts = [r \in Requests |-> None] /\ operations = [r \in Requests |-> <<>>]
    /\ missing = {} /\ scopes = [s \in Scopes |-> [state |-> "unused", spent |-> 0]]
    /\ prepared = [r \in Requests |-> None]
    /\ profile = None /\ clocks = {} /\ handlers = [r \in Requests |-> None]
    /\ cancelled = {} /\ transports = {} /\ writers = {}
    /\ sent = [r \in Requests |-> <<>>]

Next ==
    \/ Boot \/ Fence \/ StartEvaluation
    \/ \E s \in Scopes : ConfigureNative(s) \/ SelectNativeProfile(s) \/ CloseScope(s)
    \/ \E p \in Policies : Replace(p)
    \/ \E w \in writers : WriterWrites(w) \/ WriterEnds(w)
    \/ \E r \in Requests :
          \/ AskQuiescent(r) \/ PrepareNative(r) \/ Admission(r) \/ Fetch(r) \/ FetchAgain(r)
          \/ OriginalEof(r) \/ TransportEnds(r) \/ HandlerEnds(r) \/ Cancel(r) \/ ProviderEnds(r)

Spec == Init /\ [][Next]_vars

-----------------------------------------------------------------------------
(* Properties. *)

Live(r) == {i \in DOMAIN sent[r] : sent[r][i] = "live"}

\* Evidence is never ahead of the provider: what a receipt calls settled is over, and what
\* it calls the original success succeeded, whatever was cancelled, lost or crashed.
ReceiptsTellTheTruth ==
    \A r \in Requests :
        /\ Disposition(r) # "pending_or_unknown" => Live(r) = {} /\ handlers[r] = None
        /\ Disposition(r) = "original_success" => Last(sent[r]) = "success"

\* Under a native profile one operation at most is with the provider, over all requests,
\* cancellations and boots: what nobody saw end keeps the next request out.
OneOperationAtATime ==
    Native => \A r, s \in Requests : \A i \in Live(r), j \in Live(s) : r = s /\ i = j

\* Restarts and lost answers do not renew a scope: what was sent under it stays within its
\* attempts.
ScopeIsSpentOnce ==
    \A s \in Scopes :
        LET mine == {r \in Requests : prepared[r] = s}
            goes(r) == {i \in DOMAIN sent[r] : sent[r][i] # "never"}
        IN  Cardinality(UNION {{r} \X goes(r) : r \in mine}) <= scopes[s].spent

\* The policy of the router changes only when no handler runs and no operation is with the
\* provider, although writers outlive their mutation and processes die.
PolicyChangesAlone ==
    [][actual' # actual => \A r \in Requests : Live(r) = {} /\ handlers[r] = None]_vars

\* An operation is sent under the policy its request was admitted under, which is the one
\* recorded.
SentUnderAdmittedPolicy ==
    [][\A r \in Requests : Len(sent'[r]) > Len(sent[r]) =>
           handlers[r].policy = actual /\ recorded = Snapshot]_vars

\* What the router answers of its operations is what they did, one at a time and once.
OperationsAreAccounted == ReceiptsTellTheTruth /\ OneOperationAtATime /\ ScopeIsSpentOnce

\* An operation runs from its admission to its end under one policy.
PolicyIsHeld == PolicyChangesAlone /\ SentUnderAdmittedPolicy
=============================================================================
