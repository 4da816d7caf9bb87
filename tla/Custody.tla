-------------------------------- MODULE Custody --------------------------------
(***************************************************************************)
(* What the checks of the execution protocol (schemas/execution/protocol.ts)*)
(* give two parties that use them as they are meant to be used: a runner    *)
(* that takes assignments and the owner of the attempt that takes its       *)
(* transitions and results, keep what they took and hold its artifacts.     *)
(* Both parties are external.  Every message that was ever sent may arrive  *)
(* at any time, any number of times, at a party whose identity has moved    *)
(* on, and under an acknowledgement that was sent too early.                *)
(* A message is [version, id, identity, kind, body].                        *)
(***************************************************************************)
EXTENDS Naturals, Sequences

CONSTANTS WireMessages, \* every message there may be
          Identities,   \* [generation, attempt, epoch], as they follow one another
          NoReceipt

\* What the owner writes of a result it took.
CustodyReceipt ==
    [identity : {m.identity : m \in WireMessages},
     manifest : {m.body.manifest : m \in {w \in WireMessages : w.kind = "result"}},
     id : {"r"}, artifacts : {"unknown", "verified_durable"},
     metadata : {"event_only", "manifest_and_result_committed"}]

ASSUME CustodyAssumption ==
    /\ Len(Identities) \in Nat \ {0} /\ DOMAIN Identities = 1 .. Len(Identities)
    /\ NoReceipt \notin CustodyReceipt

VARIABLES runnerAt, ownerAt, \* how far each party has moved in Identities
          runnerKept,     \* the assignments the runner retains
          begun,          \* the assignments it has begun, in order
          ownerKept,      \* the transitions and results the owner retains
          attemptState, attemptRevision,
          applied,        \* identity -> the transitions the owner applied
          receipts,       \* identity -> the custody owner's receipt
          released        \* the results whose sender was told they are kept

runnerVars == <<runnerAt, runnerKept, begun>>
ownerVars == <<ownerAt, ownerKept, attemptState, attemptRevision, applied>>
custodyVars == <<runnerVars, ownerVars, receipts, released>>

FencedVersion == "execution-provisional-v2"

---------------------------------------------------------------------------
CheckCurrent(m, c) ==
    IF m.identity.generation # c.generation THEN "stale_generation"
    ELSE IF m.identity = c THEN "ok" ELSE "stale_attempt"
CheckSession(m, c) ==
    IF CheckCurrent(m, c) # "ok" THEN CheckCurrent(m, c)
    ELSE IF m.version = FencedVersion THEN "ok" ELSE "unknown_version"

Same(m, previous) == IF m = previous THEN "duplicate" ELSE "identity_conflict"
\* Slip: an assignment that is sent again under another message id is a new one.
CheckReplayById(m, previous, c) ==
    IF CheckCurrent(m, c) # "ok" THEN CheckCurrent(m, c)
    ELSE IF m.id = previous.id THEN Same(m, previous) ELSE "ok"
CheckReplay(m, previous, c) ==
    IF CheckCurrent(m, c) # "ok" THEN CheckCurrent(m, c)
    ELSE IF m.id = previous.id THEN Same(m, previous)
    ELSE IF m.kind = "assign" /\ previous.kind = "assign" /\ m.body.assignment = previous.body.assignment
         THEN Same([m EXCEPT !.id = ""], [previous EXCEPT !.id = ""])
    ELSE "ok"

Edges ==
    [assigned |-> {"starting", "stopping", "unknown"}, starting |-> {"running", "stopping", "unknown"},
     running |-> {"result_pending", "stopping", "unknown"},
     result_pending |-> {"succeeded", "failed", "stopping", "unknown"},
     stopping |-> {"cancelled", "expired", "unknown"},
     unknown |-> {"stopping", "cancelled", "expired", "result_pending"},
     succeeded |-> {}, failed |-> {}, cancelled |-> {}, expired |-> {}]
CheckTransition(m, c) ==
    IF CheckCurrent(m, c) # "ok" THEN CheckCurrent(m, c)
    ELSE IF m.body.expected # attemptRevision THEN "revision_conflict"
    ELSE IF m.body.from = attemptState /\ m.body.to \in Edges[attemptState] THEN "ok" ELSE "invalid_transition"

CheckAck(result, ack, c, receipt) ==
    IF CheckCurrent(result, c) # "ok" THEN CheckCurrent(result, c)
    ELSE IF CheckCurrent(ack, c) # "ok" THEN CheckCurrent(ack, c)
    ELSE IF result.version # ack.version THEN "unknown_version"
    ELSE IF result.body.manifest # ack.body.manifest THEN "identity_conflict"
    ELSE IF /\ receipt.identity = c /\ receipt.manifest = result.body.manifest
            /\ receipt.id = ack.body.receipt
            /\ receipt.artifacts = "verified_durable"
            /\ receipt.metadata = "manifest_and_result_committed" THEN "ok"
    ELSE "ack_not_durable"

---------------------------------------------------------------------------
(* The parties *)

\* Of the session, and neither a message that was kept nor one that contradicts it.
New(m, kept, c) == CheckSession(m, c) = "ok" /\ \A previous \in kept : CheckReplay(m, previous, c) = "ok"

TakeAssignment(m) ==
    /\ m.kind = "assign" /\ New(m, runnerKept, Identities[runnerAt])
    /\ runnerKept' = runnerKept \cup {m} /\ begun' = Append(begun, m)
    /\ UNCHANGED <<runnerAt, ownerVars, receipts, released>>
RunnerMoves ==
    /\ runnerAt < Len(Identities) /\ runnerAt' = runnerAt + 1
    /\ UNCHANGED <<runnerKept, begun, ownerVars, receipts, released>>

OwnerIdentity == Identities[ownerAt]
TakeTransition(m) ==
    /\ m.kind = "transition" /\ New(m, ownerKept, OwnerIdentity) /\ CheckTransition(m, OwnerIdentity) = "ok"
    /\ ownerKept' = ownerKept \cup {m}
    /\ attemptState' = m.body.to /\ attemptRevision' = attemptRevision + 1
    /\ applied' = [applied EXCEPT ![ownerAt] = Append(@, m)]
    /\ UNCHANGED <<runnerVars, ownerAt, receipts, released>>
TakeResult(m) ==
    /\ m.kind = "result" /\ New(m, ownerKept, OwnerIdentity) /\ receipts[ownerAt] = NoReceipt
    /\ ownerKept' = ownerKept \cup {m}
    /\ receipts' = [receipts EXCEPT ![ownerAt] = [identity |-> m.identity, manifest |-> m.body.manifest, id |-> "r",
                        artifacts |-> "unknown", metadata |-> "event_only"]]
    /\ UNCHANGED <<runnerVars, ownerAt, attemptState, attemptRevision, applied, released>>
\* The artifacts are copied and the result is committed, in either order, also late.
Hold(n, field, to) ==
    /\ receipts[n] # NoReceipt /\ receipts[n][field] # to
    /\ receipts' = [receipts EXCEPT ![n][field] = to]
    /\ UNCHANGED <<runnerVars, ownerVars, released>>
OwnerMoves ==
    /\ ownerAt < Len(Identities) /\ ownerAt' = ownerAt + 1
    /\ attemptState' = "assigned" /\ attemptRevision' = 1
    /\ UNCHANGED <<runnerVars, ownerKept, applied, receipts, released>>

\* The sender of a result gives it up when an acknowledgement checks against a receipt.
ReleaseResult(result, ack) ==
    /\ result.kind = "result" /\ ack.kind = "result_ack" /\ result \notin released
    /\ \E n \in DOMAIN receipts :
        receipts[n] # NoReceipt /\ CheckAck(result, ack, Identities[runnerAt], receipts[n]) = "ok"
    /\ released' = released \cup {result}
    /\ UNCHANGED <<runnerVars, ownerVars, receipts>>

CustodyInit ==
    /\ runnerAt = 1 /\ ownerAt = 1 /\ runnerKept = {} /\ begun = <<>> /\ ownerKept = {}
    /\ attemptState = "assigned" /\ attemptRevision = 1
    /\ applied = [n \in DOMAIN Identities |-> <<>>]
    /\ receipts = [n \in DOMAIN Identities |-> NoReceipt] /\ released = {}

CustodyNext ==
    \/ \E m \in WireMessages : TakeAssignment(m) \/ TakeTransition(m) \/ TakeResult(m)
    \/ \E m, ack \in WireMessages : ReleaseResult(m, ack)
    \/ \E n \in DOMAIN Identities :
        \/ Hold(n, "artifacts", "verified_durable") \/ Hold(n, "metadata", "manifest_and_result_committed")
    \/ RunnerMoves \/ OwnerMoves

---------------------------------------------------------------------------
(***************************************************************************)
(* However messages are repeated, sent again under other names, reordered   *)
(* or held back over a change of epoch or generation, a runner begins no    *)
(* assignment twice and none of an identity it has left; the transitions    *)
(* applied to an attempt are a path through its states, each on the         *)
(* revision the one before it left; and a result whose sender was told that *)
(* it is kept is the one held, whole and committed, for its own attempt,    *)
(* also when the acknowledgement had overtaken the copy (checkSession,      *)
(* checkReplay, checkTransition, checkAck).                                 *)
(***************************************************************************)
CustodyIsExact ==
    /\ \A i, j \in DOMAIN begun : i < j =>
        /\ <<begun[i].identity, begun[i].body.assignment>> # <<begun[j].identity, begun[j].body.assignment>>
        /\ \E k, n \in DOMAIN Identities :
            k <= n /\ begun[i].identity = Identities[k] /\ begun[j].identity = Identities[n]
    /\ \A n \in DOMAIN applied : \A k \in DOMAIN applied[n] :
        /\ applied[n][k].identity = Identities[n] /\ applied[n][k].body.expected = k
        /\ applied[n][k].body.from = IF k = 1 THEN "assigned" ELSE applied[n][k - 1].body.to
        /\ applied[n][k].body.to \in Edges[applied[n][k].body.from]
    /\ \A result \in released : \E n \in DOMAIN receipts :
        /\ receipts[n] # NoReceipt /\ Identities[n] = result.identity
        /\ receipts[n].manifest = result.body.manifest
        /\ receipts[n].artifacts = "verified_durable"
        /\ receipts[n].metadata = "manifest_and_result_committed"
=============================================================================
