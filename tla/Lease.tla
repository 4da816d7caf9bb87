-------------------------------- MODULE Lease --------------------------------
(***************************************************************************)
(* The lease arithmetic of schemas/execution/protocol.ts (CheckLease of     *)
(* protocol.go is its twin) between the two parties it is written for: a    *)
(* runner that keeps one outstanding request, an external watchdog that     *)
(* ends the process tree, and a daemon that records each issuance before it *)
(* answers.  Each has a clock of its own; `skew` is how far the runner's is *)
(* ahead since the boot, and never moves by more than Drift.  Neither party *)
(* is written yet: only the checks between them are, so the parties are     *)
(* external and the checks are translated.                                  *)
(***************************************************************************)
EXTENDS Integers

CONSTANTS Nonces,        \* one per request, numbered from 1
          Validities,    \* validity_ms the daemon may grant
          Drift,         \* drift_ms: bounds the relative error of the two clocks
          Termination,   \* termination_ms: bounds the stop of the process tree
          Boots,         \* boots of the runner, numbered from 1
          MaxLeaseTime,  \* bound of the daemon's clock
          NoLease

ASSUME LeaseAssumption ==
    /\ Nonces \subseteq Nat /\ Validities \subseteq Nat /\ Boots \subseteq Nat
    /\ Drift \in Nat /\ Termination \in Nat

VARIABLES issued,        \* the daemon's durable issuances by nonce: validity and its time
          daemonNow,     \* the daemon's monotonic clock
          skew,          \* the runner's clock minus the daemon's
          boot,          \* the runner's boot
          request,       \* the outstanding request: nonce, its boot, sent_ms
          sent,          \* every request on the wire; it may arrive late, twice or never
          cutoff,        \* the installed stop_by_ms
          work           \* "none", "running" or "terminated"

leaseVars == <<issued, daemonNow, skew, boot, request, sent, cutoff, work>>

RunnerNow == daemonNow + skew

\* checkLease's arithmetic: anchored at the send, never at the receipt.
StopByUncorrected(asked, validity) == asked.sent_ms + validity - Termination   \* slip
StopBy(asked, validity) == asked.sent_ms + validity - Drift - Termination

\* checkLease: the replies a runner installs.
BootsAgree(asked, reply) == asked.boot = boot /\ reply.boot = boot
NonceActive(reply) == request # NoLease /\ request.nonce = reply.nonce
InTime(asked, reply) ==
    LET stop == StopBy(asked, issued[reply.nonce].validity)
    IN  /\ RunnerNow >= asked.sent_ms /\ RunnerNow < stop
        /\ cutoff # NoLease => asked.sent_ms < cutoff /\ RunnerNow < cutoff
CheckLease(asked, reply) ==
    /\ BootsAgree(asked, reply)
    /\ NonceActive(reply)
    /\ Drift + Termination < issued[reply.nonce].validity
    /\ InTime(asked, reply)

LeaseInit ==
    /\ issued = [n \in Nonces |-> NoLease]
    /\ daemonNow = 0 /\ skew \in 0..Drift
    /\ boot = 1 /\ request = NoLease /\ sent = {}
    /\ cutoff = NoLease /\ work = "none"

\* The runner asks, for its launch or to renew; one request is outstanding.
Ask(n) ==
    /\ work # "terminated" /\ request = NoLease
    /\ {m.nonce : m \in sent} = {k \in Nonces : k < n}
    /\ request' = [nonce |-> n, boot |-> boot, sent_ms |-> RunnerNow]
    /\ sent' = sent \cup {[nonce |-> n, boot |-> boot]}
    /\ UNCHANGED <<issued, daemonNow, skew, boot, cutoff, work>>

\* checkReplay: a nonce already issued is a duplicate and keeps its issuance.
Issue(m, validity) ==
    /\ m \in sent /\ issued[m.nonce] = NoLease
    /\ issued' = [issued EXCEPT ![m.nonce] = [validity |-> validity, at |-> daemonNow]]
    /\ UNCHANGED <<daemonNow, skew, boot, request, sent, cutoff, work>>

\* The reply to m arrives: it is checked, and an accepted one consumes the nonce.
Reply(m) ==
    /\ m \in sent /\ issued[m.nonce] # NoLease /\ request # NoLease
    /\ work # "terminated"
    /\ CheckLease(request, m)
    /\ cutoff' = StopBy(request, issued[m.nonce].validity)
    /\ request' = NoLease /\ work' = "running"
    /\ UNCHANGED <<issued, daemonNow, skew, boot, sent>>

\* The watchdog begins the stop at the cutoff and the tree is gone within Termination.
Watchdog ==
    /\ work = "running" /\ RunnerNow >= cutoff
    /\ work' = "terminated" /\ request' = NoLease
    /\ UNCHANGED <<issued, daemonNow, skew, boot, sent, cutoff>>

Overdue == work = "running" /\ RunnerNow + 1 > cutoff + Termination

\* A request given up, or a reboot: its process and its leases are gone.
GiveUp ==
    /\ request # NoLease /\ request' = NoLease
    /\ UNCHANGED <<issued, daemonNow, skew, boot, sent, cutoff, work>>
Reboot ==
    /\ boot + 1 \in Boots /\ boot' = boot + 1
    /\ request' = NoLease /\ cutoff' = NoLease /\ work' = "none"
    /\ skew' \in 0..Drift
    /\ UNCHANGED <<issued, daemonNow, sent>>

\* Time passes on both clocks, or on one of them as far as the drift allows.
Tick(daemon, runner) ==
    /\ daemonNow + daemon <= MaxLeaseTime
    /\ skew + runner - daemon \in 0..Drift
    /\ runner > 0 => ~Overdue
    /\ daemonNow' = daemonNow + daemon /\ skew' = skew + runner - daemon
    /\ UNCHANGED <<issued, boot, request, sent, cutoff, work>>

LeaseNext ==
    \/ \E n \in Nonces : Ask(n)
    \/ \E m \in sent, v \in Validities : Issue(m, v)
    \/ \E m \in sent : Reply(m)
    \/ Watchdog \/ GiveUp \/ Reboot
    \/ \E daemon, runner \in 0..1 : daemon + runner > 0 /\ Tick(daemon, runner)

LeaseSpec == LeaseInit /\ [][LeaseNext]_leaseVars

(***************************************************************************)
(* Work runs only while the daemon's own clock is within the validity of a  *)
(* lease the daemon issued, however late the reply came and whatever the    *)
(* clocks did: a daemon that waits for its latest issuance to end may give  *)
(* the work to another writer (checkLease; docs/contracts/execution.md 4).  *)
(***************************************************************************)
NoWorkOutlivesItsLease ==
    work = "running" =>
        \E n \in Nonces : issued[n] # NoLease /\ daemonNow <= issued[n].at + issued[n].validity
=============================================================================
