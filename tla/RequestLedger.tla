---------------------------- MODULE RequestLedger ----------------------------
(***************************************************************************)
(* What the inference boundary promises, whatever its processes, journal   *)
(* and locks do: an attempt starts at most RequestCount requests, at most  *)
(* Concurrency of them are under way at a time, none once the attempt is   *)
(* stopped, and an answer is delivered to a running attempt only; with     *)
(* receipts, only an answer the provider is known to have completed.       *)
(***************************************************************************)
EXTENDS FiniteSets, Naturals

CONSTANTS Requests, Attempts, AttemptOf, RequestCount, Concurrency, Receipts

VARIABLES work,       \* of each request: none, live, success or failure
          delivered,  \* requests whose answer the caller received
          stopped     \* attempts that may not act

ledger == <<work, delivered, stopped>>

Started(a) == {r \in Requests : AttemptOf[r] = a /\ work[r] # "none"}
UnderWay(a) == {r \in Requests : AttemptOf[r] = a /\ work[r] = "live"}

LedgerInit ==
    /\ work = [r \in Requests |-> "none"]
    /\ delivered = {}
    /\ stopped = Attempts

\* An attempt begins, or begins again before it has started any request.
Allow(a) ==
    /\ Started(a) = {}
    /\ stopped' = stopped \ {a}
    /\ UNCHANGED <<work, delivered>>

Start(r) ==
    /\ AttemptOf[r] \notin stopped
    /\ work[r] = "none"
    /\ Cardinality(Started(AttemptOf[r])) < RequestCount
    /\ Cardinality(UnderWay(AttemptOf[r])) < Concurrency
    /\ work' = [work EXCEPT ![r] = "live"]
    /\ UNCHANGED <<delivered, stopped>>

End(r) ==
    /\ work[r] = "live"
    /\ \E result \in {"success", "failure"} : work' = [work EXCEPT ![r] = result]
    /\ UNCHANGED <<delivered, stopped>>

Deliver(r) ==
    /\ AttemptOf[r] \notin stopped
    /\ work[r] \in (IF Receipts THEN {"success"} ELSE {"live", "success", "failure"})
    /\ delivered' = delivered \cup {r}
    /\ UNCHANGED <<work, stopped>>

Stop(S) ==
    /\ stopped' = stopped \cup S
    /\ UNCHANGED <<work, delivered>>

LedgerNext ==
    \/ \E a \in Attempts : Allow(a)
    \/ \E r \in Requests : Start(r) \/ End(r) \/ Deliver(r)
    \/ \E S \in SUBSET Attempts : Stop(S)

LedgerSpec == LedgerInit /\ [][LedgerNext]_ledger
=============================================================================
