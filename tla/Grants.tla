-------------------------------- MODULE Grants --------------------------------
(***************************************************************************)
(* The retained execution grants of internal/store/grants.go.  Every       *)
(* operation is one immediate SQLite transaction under one mutex, so one   *)
(* action is one committed transaction; a refused or rolled back call      *)
(* leaves the store as it was and is no step.  The daemon's wall clock is  *)
(* a variable of the environment that moves both ways.                     *)
(***************************************************************************)
EXTENDS Authority

CONSTANTS Tasks,      \* task identifiers
          GrantIds,   \* grant identifiers, each bound to one content for ever
          Actors,     \* audit references of approvers
          Envelopes,  \* the envelopes operators and planners put forward
          MaxTime,    \* bound on the wall clock
          None        \* an absent row

ASSUME EnvelopesAssumption == Envelopes \subseteq Envelope
ASSUME MaxTimeAssumption == MaxTime \in Nat \ {0}

Reasons == {"superseded", "revoked", "expired"}

Grant == [task : Tasks, revision : Positive, actor : Actors, envelope : Envelopes]

ASSUME NoneAssumption == None \notin GrantIds /\ None \notin Grant

VARIABLES grants,    \* execution_grants: the immutable row of each identifier
          heads,     \* execution_grant_heads: the current grant of each task
          signals,   \* execution_invalidations: why a grant ended, if it did
          now,       \* the daemon's wall clock
          approved   \* history: the grants an approval, not a restriction, wrote

grantRows == <<grants, heads, approved>>
grantVars == <<grants, heads, signals, now, approved>>

Retained(t) == {g \in GrantIds : grants[g] # None /\ grants[g].task = t}

IsHead(g) == \E t \in Tasks : heads[t] = g

\* liveGrant: no retained invalidation, and not elapsed by the current clock.
Live(g) == signals[g] = "none" /\ now < grants[g].envelope.expires

Elapsed(g) == signals[g] = "none" /\ IsHead(g) /\ grants[g].envelope.expires <= now

\* Slip: the expiry is computed from the clock each time instead of being kept.
ExpireGrantsRecomputed ==
    [g \in GrantIds |->
        IF Elapsed(g) THEN "expired"
        ELSE IF signals[g] = "expired" /\ now < grants[g].envelope.expires THEN "none"
        ELSE signals[g]]

\* expireGrants: every elapsed head is invalidated, whichever task it belongs to.
ExpireGrants == [g \in GrantIds |-> IF Elapsed(g) THEN "expired" ELSE signals[g]]

\* checkExecution: the grant is live, is its task's head and covers the request.
CheckExecution(g, t, requested) ==
    /\ grants[g] # None
    /\ Live(g)
    /\ heads[t] = g
    /\ Check(grants[g].envelope, requested, now)

\* Slip: a replaced grant is left to its expiry.
EndOfElapsedOnly(old) ==
    IF signals[old] = "none" /\ now >= grants[old].envelope.expires THEN "expired" ELSE signals[old]

\* The old head is invalidated in the transaction that replaces it, once.
EndOf(old) ==
    IF signals[old] # "none" THEN signals[old]
    ELSE IF now >= grants[old].envelope.expires THEN "expired"
    ELSE "superseded"

\* The writes of changeExecution once no check refuses.
Install(id, g) ==
    /\ now < g.envelope.expires
    /\ grants' = [grants EXCEPT ![id] = g]
    /\ heads' = [heads EXCEPT ![g.task] = id]
    /\ UNCHANGED now

\* The first grant of a task can only be an approval.
ApproveFirst(id, g) ==
    /\ grants[id] = None
    /\ heads[g.task] = None
    /\ Valid(g.envelope)
    /\ g.revision = 1
    /\ Install(id, g)
    /\ approved' = approved \cup {id}
    /\ UNCHANGED signals

\* The compare-and-set on the head, whose identifier its revision fixes.
NextRevision(g, old) == old.revision < MaxInteger /\ g.revision = old.revision + 1

\* Slip: the replacement is compared with the current head alone.
ReplacesHead(g) == Replacement(g.envelope, grants[heads[g.task]].envelope)

\* The replacement is checked against every retained grant of the task, dead or alive.
ReplacesAll(g) == \A r \in Retained(g.task) : Replacement(g.envelope, grants[r].envelope)

\* Slip: only the routes and the actor of a restriction are compared.
NarrowsRoutes(g, old) == g.actor = old.actor /\ g.envelope.routes \subseteq old.envelope.routes

\* A restriction keeps the actor and lies within the live head.
Narrows(g, old) == g.actor = old.actor /\ Within(g.envelope, old.envelope)

\* What approvals and restrictions of an existing head have in common.  A
\* request for what the live head already grants returns that head and writes nothing.
Supersede(id, g) ==
    LET old == heads[g.task] IN
    /\ grants[id] = None
    /\ old # None
    /\ Valid(g.envelope)
    /\ NextRevision(g, grants[old])
    /\ ~ (/\ Live(old)
          /\ g.actor = grants[old].actor
          /\ g.envelope = grants[old].envelope)
    /\ ReplacesAll(g)
    /\ signals' = [signals EXCEPT ![old] = EndOf(old)]
    /\ Install(id, g)

\* An approval may follow a dead head and may widen.
ApproveNext(id, g) ==
    /\ Supersede(id, g)
    /\ approved' = approved \cup {id}

\* A restriction needs live authority of the same actor and only narrows it.
RestrictExecution(id, g) ==
    LET old == heads[g.task] IN
    /\ old # None
    /\ Live(old)
    /\ Narrows(g, grants[old])
    /\ Supersede(id, g)
    /\ UNCHANGED approved

\* Revocation, or a material edit that waits for approval, of the current head.
InvalidateExecution(t, reason) ==
    /\ heads[t] # None
    /\ signals[heads[t]] = "none"
    /\ signals' = [signals EXCEPT ![heads[t]] = reason]
    /\ UNCHANGED <<grantRows, now>>

\* CheckExecution and ExecutionInvalidations both commit the elapsed expiries they see.
LatchExpiry ==
    /\ signals' = ExpireGrants
    /\ UNCHANGED <<grantRows, now>>

\* The clock of the host is adjusted in both directions.
ClockMoves ==
    /\ now' \in 1 .. MaxTime
    /\ UNCHANGED <<grantRows, signals>>

GrantInit ==
    /\ grants = [g \in GrantIds |-> None]
    /\ heads = [t \in Tasks |-> None]
    /\ signals = [g \in GrantIds |-> "none"]
    /\ now = 1
    /\ approved = {}

GrantNext ==
    \/ \E id \in GrantIds, t \in Tasks, n \in Positive, a \in Actors, e \in Envelopes :
          LET g == [task |-> t, revision |-> n, actor |-> a, envelope |-> e] IN
          \/ ApproveFirst(id, g)
          \/ ApproveNext(id, g)
          \/ RestrictExecution(id, g)
    \/ \E t \in Tasks, reason \in {"revoked", "superseded"} : InvalidateExecution(t, reason)
    \/ LatchExpiry
    \/ ClockMoves

GrantSpec == GrantInit /\ [][GrantNext]_grantVars

-----------------------------------------------------------------------------
GrantTypeOK ==
    /\ grants \in [GrantIds -> Grant \cup {None}]
    /\ heads \in [Tasks -> GrantIds \cup {None}]
    /\ signals \in [GrantIds -> Reasons \cup {"none"}]
    /\ now \in 1 .. MaxTime
    /\ approved \in SUBSET GrantIds

\* Every retained grant other than its task's head has a durable invalidation: a
\* replaced authority is never left without the signal that tells consumers to stop.
OnlyHeadUnended ==
    \A g \in GrantIds :
        grants[g] # None /\ heads[grants[g].task] # g => signals[g] # "none"

\* The revisions of a task's grants are 1 .. n without gap or repetition and the
\* head is the last: neither a lost update nor a replay can move the head back.
RevisionsContiguous ==
    \A t \in Tasks :
        LET n == Cardinality(Retained(t)) IN
        /\ {grants[g].revision : g \in Retained(t)} = 1 .. n
        /\ n > 0 => heads[t] \in Retained(t) /\ grants[heads[t]].revision = n

\* changeExecution writes three rows for one replacement: the grant, the head and the
\* invalidation of what was replaced.  Together they keep one unbroken chain.
ChainIsWhole == OnlyHeadUnended /\ RevisionsContiguous

\* The approval a grant descends from: the last approved grant not after it.
ApprovedBefore(g) ==
    {a \in approved : /\ grants[a].task = grants[g].task
                      /\ grants[a].revision <= grants[g].revision}

Source(a, g) ==
    /\ a \in ApprovedBefore(g)
    /\ \A b \in ApprovedBefore(g) : grants[b].revision <= grants[a].revision

\* However long the chain of restrictions, a grant lies within the envelope that was
\* approved at its root, under that approval's actor.
RestrictionsStayApproved ==
    \A g \in GrantIds : grants[g] # None =>
        \E a \in GrantIds :
            /\ Source(a, g)
            /\ Within(grants[g].envelope, grants[a].envelope)
            /\ grants[g].actor = grants[a].actor

\* In all retained history a decision number, and a route revision, of a task name
\* one content, and neither goes back, even for a route that was dropped for a while.
HistoryNeverRewritten ==
    \A t \in Tasks : \A g, h \in Retained(t) :
        LET old == grants[g].envelope
            new == grants[h].envelope
        IN  grants[g].revision <= grants[h].revision =>
               /\ CheckRevision(new.decision, old.decision)
               /\ \A n \in new.routes, o \in old.routes : n.key = o.key =>
                     /\ n.revision >= o.revision
                     /\ n.revision = o.revision => n = o

\* A task that lost its authority regains some only by the clock going back before
\* an expiry nobody has latched, or by an approval of a later revision.
Authorised(t) == heads[t] # None /\ Live(heads[t])

AuthorityReturnsByApproval ==
    [][\A t \in Tasks : ~ Authorised(t) /\ Authorised(t)' =>
          \/ now' < now /\ heads'[t] = heads[t] /\ signals[heads[t]] = "none"
          \/ /\ heads'[t] \in approved' \ approved
             /\ heads[t] # None => grants'[heads'[t]].revision > grants[heads[t]].revision
      ]_grantVars
=============================================================================
