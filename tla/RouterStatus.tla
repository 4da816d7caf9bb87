----------------------------- MODULE RouterStatus -----------------------------
(***************************************************************************)
(* The passive status adapter of experiments/router-status/status.ts: one   *)
(* GET of the router's connection table, projected against the operator's   *)
(* bindings into an observation with an interval of validity.  The router's *)
(* table changes while the read is under way and after it; the adapter's    *)
(* own clock alone decides freshness.  The adapter keeps nothing from one    *)
(* snapshot to the next, so a behaviour holds one.                          *)
(*                                                                          *)
(* A row stands for the fields a projection reads: what the router says of  *)
(* the connection and when it last checked.  A row ahead of the clock is    *)
(* rejected, and stands for every row a projection rejects (a field out of  *)
(* its enumeration, another provider, a malformed date).                    *)
(***************************************************************************)
EXTENDS Integers, FiniteSets, FiniteSetsExt

CONSTANTS Configured,      \* connections the operator bound
          Route,           \* the ones this route may use
          Foreign,         \* upstream identities nobody bound
          FreshnessMs,
          TimeoutMs,
          MaxNow,          \* bound of the clock
          Absent

ASSUME RouteAssumption ==
    /\ Route \subseteq Configured /\ Route # {} /\ Configured \cap Foreign = {}
    /\ FreshnessMs \in Nat /\ TimeoutMs \in Nat /\ Absent \notin Nat

VARIABLES now,             \* the adapter's clock
          legacy,          \* the inspected commit is the deployed one
          table,           \* the router's rows by upstream identity
          denied,          \* the last time the router held each connection denied
          reading,         \* the read under way: since when, and the payload once sent
          observation      \* the snapshot returned, once there is one

statusVars == <<now, legacy, table, denied, reading, observation>>

Upstream == Configured \cup Foreign
Denials == {"disabled", "blocked"}       \* an exhausted connection is blocked until a reset
Unobserved == [readiness |-> "unknown", reason |-> "no_observation",
               observed_at |-> Absent, validity_until |-> Absent]

---------------------------------------------------------------------------
(* projectConnection and projectLegacyConnection *)

Row(state, at) == [state |-> state, observed_at |-> at,
                   validity_until |-> IF at = Absent THEN Absent ELSE at + FreshnessMs]
NoRow == Row("unknown", Absent)

Rejected(row) == row # Absent /\ row.at # Absent /\ row.at > now

\* Evidence older than FreshnessMs keeps its interval and loses its state.
Aged(state, at) == Row(IF now - at < FreshnessMs THEN state ELSE "unknown", at)

ProjectConnection(row) == IF row.at = Absent THEN NoRow ELSE Aged(row.kind, row.at)

\* A disabled connection is a fact of the configuration, dated by its retrieval;
\* a legacy health state counts only as an error with its time.
ProjectLegacyConnection(row) ==
    CASE row.kind = "disabled" -> Row("disabled", now)
      [] row.kind = "blocked" /\ row.at # Absent -> Aged("blocked", row.at)
      [] OTHER -> NoRow

Project(row) ==
    IF row = Absent THEN NoRow
    ELSE IF legacy THEN ProjectLegacyConnection(row) ELSE ProjectConnection(row)

---------------------------------------------------------------------------
(* snapshot *)

\* connectionsById: rows of unbound identities make the whole observation malformed.
Foreigners(payload) == {u \in Foreign : payload[u] # Absent}

ValidityIsLatest(rows) == Max({rows[c].validity_until : c \in Route})   \* slip
ValidityUntil(rows) == Min({rows[c].validity_until : c \in Route})

Reading(rows, malformed) ==
    IF malformed THEN [Unobserved EXCEPT !.reason = "malformed_observation"]
    ELSE IF \A c \in Route : rows[c].state \in Denials
    THEN [readiness |-> "not_ready", reason |-> "connection_unavailable",
          observed_at |-> Max({rows[c].observed_at : c \in Route}),
          validity_until |-> ValidityUntil(rows)]
    ELSE IF \E c \in Route : rows[c].validity_until # Absent /\ rows[c].validity_until <= now
    THEN [Unobserved EXCEPT !.reason = "stale_observation"]
    ELSE Unobserved

Observe(payload) ==
    LET rows == [c \in Route |-> IF Rejected(payload[c]) THEN NoRow ELSE Project(payload[c])]
    IN  Reading(rows, \/ Foreigners(payload) # {}
                      \/ \E c \in Route : Rejected(payload[c]))

StatusInit ==
    /\ now = 0 /\ legacy \in BOOLEAN
    /\ table = [u \in Upstream |-> Absent]
    /\ denied = [c \in Configured |-> Absent]
    /\ reading = Absent
    /\ observation = Absent

StartRead ==
    /\ reading = Absent /\ observation = Absent
    /\ reading' = [since |-> now, payload |-> Absent]
    /\ UNCHANGED <<now, legacy, table, denied, observation>>

\* The router answers with its table as it is; the answer is on its way.
Respond ==
    /\ reading # Absent /\ reading.payload = Absent
    /\ reading' = [reading EXCEPT !.payload = table]
    /\ UNCHANGED <<now, legacy, table, denied, observation>>

\* The body is complete: the projection reads the clock again.
Complete ==
    /\ reading # Absent /\ reading.payload # Absent
    /\ reading' = Absent
    /\ observation' = Observe(reading.payload)
    /\ UNCHANGED <<now, legacy, table, denied>>

\* A refused, oversized, unparsable or aborted answer projects nothing.
FailRead(reason) ==
    /\ reading # Absent /\ reading' = Absent
    /\ observation' = [Unobserved EXCEPT !.reason = reason]
    /\ UNCHANGED <<now, legacy, table, denied>>

\* The abort timer ends a read that is TimeoutMs old before the clock goes on.
Expired == reading # Absent /\ now >= reading.since + TimeoutMs

---------------------------------------------------------------------------
(* The router and time *)

\* What the router's own record says of a connection, and since when it is known.
\* A legacy row denies while it is disabled, whenever that was recorded.
Denies(row, time) ==
    IF row = Absent THEN Absent
    ELSE IF legacy /\ row.kind = "disabled" THEN time
    ELSE IF row.kind \in Denials /\ row.at # Absent THEN row.at
    ELSE Absent
Latest(a, b) == IF a = Absent THEN b ELSE IF b = Absent \/ b < a THEN a ELSE b

\* The router checks a connection and writes its row, with a clock that may run ahead,
\* or an operator removes it.
RouterWrites(u, row) ==
    /\ observation = Absent /\ row # table[u]
    /\ table' = [table EXCEPT ![u] = row]
    /\ denied' = IF u \in Foreign THEN denied
                 ELSE [denied EXCEPT ![u] = Latest(@, Denies(row, now))]
    /\ UNCHANGED <<now, legacy, reading, observation>>

Passes ==
    /\ now < MaxNow /\ ~Expired
    /\ now' = now + 1
    /\ denied' = [c \in Configured |-> Latest(denied[c], Denies(table[c], now + 1))]
    /\ UNCHANGED <<legacy, table, reading, observation>>

WrittenRows(u) ==
    IF u \in Foreign THEN {Absent, [kind |-> "eligible", at |-> Absent]}
    ELSE {Absent} \cup [kind : Denials \cup {"eligible"}, at : {now}]
         \cup [kind : Denials, at : {now + 1}] \cup [kind : {"disabled"}, at : {Absent}]

StatusNext ==
    \/ StartRead \/ Respond \/ Complete
    \/ \E reason \in {"malformed_observation", "router_unreachable"} : FailRead(reason)
    \/ \E u \in Upstream : \E row \in WrittenRows(u) : RouterWrites(u, row)
    \/ Passes

(***************************************************************************)
(* While a not_ready observation is valid, every connection of the route    *)
(* was denied by the router's own record within the freshness window, give  *)
(* or take the time one read may take: a snapshot taken late, a row that    *)
(* changed behind the read or one fresh denial among stale ones never       *)
(* keeps a route out of use longer (projectConnection, snapshot).  Only a   *)
(* legacy disabled row is dated by its retrieval instead of its check.      *)
(***************************************************************************)
NotReadyIsRecent ==
    observation # Absent =>
        (observation.readiness = "not_ready" /\ now < observation.validity_until =>
            \A c \in Route :
                /\ denied[c] # Absent
                /\ now < denied[c] + FreshnessMs + IF legacy THEN TimeoutMs ELSE 0)
=============================================================================
