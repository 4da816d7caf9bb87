------------------------------ MODULE StoreProofs ------------------------------
(***************************************************************************)
(* What TLAPS proves of the daemon's store for every value of the          *)
(* constants: of Grants, the order of envelopes, the chains of grants and  *)
(* the authority they give; of Dispatch, the types, the life of an         *)
(* attempt, the single slot, the receipts, the stop, and the accounts kept *)
(* per task: its epochs, its state and everything it was ever charged.     *)
(***************************************************************************)
EXTENDS Dispatch, FiniteSetTheorems, TLAPS

-----------------------------------------------------------------------------
(* The order of envelopes. *)

\* Every valid envelope is within itself: approving what is asked for grants it.
LEMMA WithinReflexive ==
    ASSUME NEW e \in Envelope, Valid(e)
    PROVE  Within(e, e)
  BY DEF Within, BudgetsWithin, Envelope, Budgets, Positive, NonNegative, NoCap

\* Narrowing twice is narrowing: a chain of restrictions never leaves its first envelope.
THEOREM WithinTransitive ==
    ASSUME NEW a \in Envelope, NEW b \in Envelope, NEW c \in Envelope,
           Within(a, b), Within(b, c)
    PROVE  Within(a, c)
<1>1. BudgetsWithin(a.budgets, c.budgets)
  BY MaxIntegerAssumption
  DEF Within, BudgetsWithin, Envelope, Budgets, Positive, NonNegative, NoCap
<1>2. a.notBefore >= c.notBefore /\ a.expires <= c.expires
  BY MaxIntegerAssumption DEF Within, Envelope, Positive
<1>3. QED
  BY <1>1, <1>2 DEF Within

\* Restricting an envelope that may replace a retained one gives one that may, too: the
\* history check of changeExecution can only ever refuse an approval.
THEOREM RestrictionKeepsHistory ==
    ASSUME NEW next \in Envelope, NEW old \in Envelope, NEW retained \in Envelope,
           Within(next, old), Replacement(old, retained)
    PROVE  Replacement(next, retained)
  BY DEF Within, Replacement

-----------------------------------------------------------------------------
(* The inductive invariant. *)

\* A head is a retained grant of its task, and the last of it.
HeadsRetained ==
    \A t \in Tasks : heads[t] # None => grants[heads[t]] # None /\ grants[heads[t]].task = t

HeadsLatest ==
    \A g \in GrantIds : grants[g] # None =>
        /\ heads[grants[g].task] # None
        /\ grants[g].revision <= grants[heads[grants[g].task]].revision

EnvelopesValid == \A g \in GrantIds : grants[g] # None => Valid(grants[g].envelope)

ApprovedRetained == \A a \in approved : grants[a] # None

GrantInv ==
    /\ GrantTypeOK
    /\ HeadsRetained
    /\ HeadsLatest
    /\ EnvelopesValid
    /\ ApprovedRetained
    /\ OnlyHeadUnended
    /\ RestrictionsStayApproved
    /\ HistoryNeverRewritten

\* What the three actions that write a grant have in common, for the proofs.
NewGrant(id, g) ==
    /\ id \in GrantIds /\ g \in Grant
    /\ grants[id] = None
    /\ Valid(g.envelope)
    /\ grants' = [grants EXCEPT ![id] = g]
    /\ heads' = [heads EXCEPT ![g.task] = id]
    /\ now' = now
    /\ ReplacesAll(g)
    /\ \A r \in Retained(g.task) : grants[r].revision < g.revision
    /\ signals' \in [GrantIds -> Reasons \cup {"none"}]
    /\ \A r \in GrantIds : signals[r] # "none" => signals'[r] # "none"
    /\ heads[g.task] # None => signals'[heads[g.task]] # "none"
    /\ approved' \in {approved, approved \cup {id}}

\* What HistoryNeverRewritten says of one envelope and an earlier one.
Preserves(new, old) ==
    /\ CheckRevision(new.decision, old.decision)
    /\ \A n \in new.routes, o \in old.routes : n.key = o.key =>
          /\ n.revision >= o.revision
          /\ n.revision = o.revision => n = o

\* A valid envelope keeps its own decision and routes: a key names one route of it.
LEMMA ValidPreservesItself ==
    ASSUME NEW e \in Envelope, Valid(e)
    PROVE  Preserves(e, e)
  BY DEF Preserves, CheckRevision, Valid, Envelope, Route, Revision, Positive

\* An empty store satisfies the invariant.
LEMMA GrantInitial == GrantInit => GrantInv
  BY MaxTimeAssumption, NoneAssumption
  DEF GrantInit, GrantInv, GrantTypeOK, HeadsRetained, HeadsLatest, EnvelopesValid, ApprovedRetained,
      OnlyHeadUnended, RestrictionsStayApproved, HistoryNeverRewritten, Retained

\* The first approval of a task writes a new grant with no history to respect.
LEMMA FirstIsNew ==
    ASSUME GrantInv, NEW id \in GrantIds, NEW g \in Grant, ApproveFirst(id, g)
    PROVE  NewGrant(id, g)
<1>1. Retained(g.task) = {}
  BY DEF GrantInv, HeadsLatest, ApproveFirst, Retained
<1>2. QED
  BY <1>1 DEF NewGrant, GrantInv, GrantTypeOK, ApproveFirst, Install, ReplacesAll

\* A replacement writes a new grant after its predecessor's end, with all history checked.
LEMMA SupersedeIsNew ==
    ASSUME GrantInv, NEW id \in GrantIds, NEW g \in Grant, Supersede(id, g),
           approved' \in {approved, approved \cup {id}}
    PROVE  NewGrant(id, g)
<1> DEFINE old == heads[g.task]
<1>1. g.task \in Tasks /\ old \in GrantIds /\ grants[old] \in Grant /\ grants[old].task = g.task
  BY DEF GrantInv, GrantTypeOK, HeadsRetained, Supersede, Grant
<1>2. ASSUME NEW r \in Retained(g.task)
      PROVE  grants[r].revision < g.revision
  <2>1. grants[r] \in Grant /\ grants[r].revision <= grants[old].revision
    BY DEF GrantInv, GrantTypeOK, HeadsLatest, Retained
  <2>2. g.revision = grants[old].revision + 1
    BY DEF Supersede, NextRevision
  <2>3. QED
    BY <1>1, <2>1, <2>2, MaxIntegerAssumption DEF Grant, Positive
<1>3. EndOf(old) \in Reasons
  BY <1>1 DEF EndOf, Reasons, GrantInv, GrantTypeOK
<1>4. signals' = [signals EXCEPT ![old] = EndOf(old)]
  BY DEF Supersede
<1>5. /\ signals' \in [GrantIds -> Reasons \cup {"none"}]
      /\ \A r \in GrantIds : signals[r] # "none" => signals'[r] # "none"
      /\ signals'[old] # "none"
  BY <1>1, <1>3, <1>4 DEF GrantInv, GrantTypeOK, Reasons
<1>6. QED
  BY <1>2, <1>5 DEF NewGrant, Supersede, Install

\* An approval, or a restriction within the task's live head, keeps the invariant.
LEMMA NewGrantKeeps ==
    ASSUME GrantInv, NEW id \in GrantIds, NEW g \in Grant, NewGrant(id, g),
           \/ id \in approved'
           \/ /\ heads[g.task] # None
              /\ Narrows(g, grants[heads[g.task]])
    PROVE  GrantInv'
<1>1. GrantTypeOK'
  BY DEF GrantInv, GrantTypeOK, NewGrant, Grant
<1>2. /\ g # None /\ g.task \in Tasks /\ g.revision \in Nat
      /\ grants'[id] = g /\ heads'[g.task] = id
      /\ \A r \in GrantIds : r # id => grants'[r] = grants[r]
      /\ \A t \in Tasks : t # g.task => heads'[t] = heads[t]
  BY NoneAssumption DEF GrantInv, GrantTypeOK, NewGrant, Grant, Positive
<1>3. ASSUME NEW r \in GrantIds, grants[r] # None
      PROVE  /\ r # id /\ grants'[r] = grants[r] /\ grants[r] \in Grant
             /\ grants[r].revision \in Nat /\ grants[r].task \in Tasks
             /\ grants[r].envelope \in Envelope
             /\ grants[r].task = g.task => grants[r].revision < g.revision
  BY <1>2, <1>3, EnvelopesAssumption DEF GrantInv, GrantTypeOK, NewGrant, Retained, Grant, Positive
<1>4. HeadsRetained'
  <2> SUFFICES ASSUME NEW t \in Tasks, heads'[t] # None
               PROVE  grants'[heads'[t]] # None /\ grants'[heads'[t]].task = t
    BY DEF HeadsRetained
  <2>1. CASE t = g.task
    BY <1>2, <2>1
  <2>2. CASE t # g.task
    BY <1>2, <1>3, <2>2 DEF GrantInv, GrantTypeOK, HeadsRetained
  <2>3. QED
    BY <2>1, <2>2
<1>5. HeadsLatest'
  <2> SUFFICES ASSUME NEW r \in GrantIds, grants'[r] # None
               PROVE  /\ heads'[grants'[r].task] # None
                      /\ grants'[r].revision <= grants'[heads'[grants'[r].task]].revision
    BY DEF HeadsLatest
  <2>1. CASE r = id
    BY <1>2, <2>1, NoneAssumption
  <2>2. CASE r # id /\ grants[r].task = g.task
    BY <1>2, <1>3, <2>2, NoneAssumption
  <2>3. CASE r # id /\ grants[r].task # g.task
    <3>1. grants[r] # None /\ heads'[grants[r].task] = heads[grants[r].task]
      BY <1>2, <1>3, <2>3
    <3>2. heads[grants[r].task] \in GrantIds /\ grants[heads[grants[r].task]] # None
      BY <1>3, <3>1 DEF GrantInv, GrantTypeOK, HeadsLatest, HeadsRetained
    <3>3. QED
      BY <1>3, <2>3, <3>1, <3>2 DEF GrantInv, HeadsLatest
  <2>4. QED
    BY <2>1, <2>2, <2>3
<1>6. EnvelopesValid'
  <2> SUFFICES ASSUME NEW r \in GrantIds, grants'[r] # None
               PROVE  Valid(grants'[r].envelope)
    BY DEF EnvelopesValid
  <2>1. CASE r = id
    BY <1>2, <2>1 DEF NewGrant
  <2>2. CASE r # id
    BY <1>2, <2>2 DEF GrantInv, EnvelopesValid
  <2>3. QED
    BY <2>1, <2>2
<1>7. ApprovedRetained'
  BY <1>2, <1>3 DEF GrantInv, GrantTypeOK, ApprovedRetained, NewGrant
<1>8. OnlyHeadUnended'
  <2> SUFFICES ASSUME NEW r \in GrantIds, grants'[r] # None, heads'[grants'[r].task] # r
               PROVE  signals'[r] # "none"
    BY DEF OnlyHeadUnended
  <2>1. r # id /\ grants[r] # None /\ grants'[r] = grants[r] /\ grants[r].task \in Tasks
    BY <1>2, <1>3
  <2>2. CASE heads[grants[r].task] # r
    BY <2>1, <2>2 DEF GrantInv, OnlyHeadUnended, NewGrant
  <2>3. CASE heads[grants[r].task] = r
    <3>1. grants[r].task = g.task
      BY <1>2, <2>1, <2>3
    <3>2. heads[g.task] # None
      BY <2>3, <3>1, NoneAssumption
    <3>3. QED
      BY <2>3, <3>1, <3>2 DEF NewGrant
  <2>4. QED
    BY <2>2, <2>3
<1>9. RestrictionsStayApproved'
  <2> SUFFICES ASSUME NEW r \in GrantIds, grants'[r] # None
               PROVE  \E a \in GrantIds :
                         /\ Source(a, r)'
                         /\ Within(grants'[r].envelope, grants'[a].envelope)
                         /\ grants'[r].actor = grants'[a].actor
    BY DEF RestrictionsStayApproved
  <2>1. approved \subseteq GrantIds /\ \A a \in approved : a # id /\ grants[a] # None
    BY <1>3 DEF GrantInv, GrantTypeOK, ApprovedRetained
  <2>2. CASE id \in approved' /\ r = id
    <3>1. Source(id, id)'
      BY <1>2, <1>3, <2>1, <2>2 DEF Source, ApprovedBefore, NewGrant
    <3>2. Within(g.envelope, g.envelope)
      BY WithinReflexive, EnvelopesAssumption DEF NewGrant, Grant
    <3>3. QED
      BY <1>2, <2>2, <3>1, <3>2
  <2>3. CASE r # id
    <3>1. grants[r] # None /\ grants'[r] = grants[r]
      BY <1>2, <2>3
    <3>2. PICK a \in GrantIds : /\ Source(a, r)
                               /\ Within(grants[r].envelope, grants[a].envelope)
                               /\ grants[r].actor = grants[a].actor
      BY <3>1 DEF GrantInv, RestrictionsStayApproved
    <3>3. a \in approved /\ grants'[a] = grants[a]
      BY <1>2, <2>1, <3>2 DEF Source, ApprovedBefore
    <3>4. ApprovedBefore(r)' = ApprovedBefore(r)
      BY <1>2, <1>3, <2>1, <2>3, <3>1 DEF ApprovedBefore, NewGrant
    <3>5. Source(a, r)'
      BY <1>2, <2>1, <3>2, <3>3, <3>4 DEF Source, ApprovedBefore
    <3>6. QED
      BY <3>1, <3>2, <3>3, <3>5
  <2>4. CASE r = id /\ id \notin approved'
    <3> DEFINE old == heads[g.task]
    <3>1. /\ old \in GrantIds /\ grants[old] # None /\ grants[old].task = g.task
          /\ Narrows(g, grants[old])
      BY <1>2, <2>4 DEF GrantInv, GrantTypeOK, HeadsRetained
    <3>2. PICK a \in GrantIds : /\ Source(a, old)
                               /\ Within(grants[old].envelope, grants[a].envelope)
                               /\ grants[old].actor = grants[a].actor
      BY <3>1 DEF GrantInv, RestrictionsStayApproved
    <3>3. a \in approved /\ grants[a] # None /\ grants'[a] = grants[a]
      BY <1>2, <2>1, <3>2 DEF Source, ApprovedBefore
    <3>4. approved' = approved
      BY <2>4 DEF NewGrant
    <3>5. \A x \in approved : grants[x].task = g.task =>
             grants[x].revision <= grants[old].revision /\ grants[x].revision <= g.revision
      BY <1>2, <1>3, <2>1 DEF GrantInv, HeadsLatest
    <3>6. ApprovedBefore(id)' = ApprovedBefore(old)
      BY <1>2, <2>1, <3>1, <3>4, <3>5 DEF ApprovedBefore
    <3>7. Source(a, id)'
      BY <1>2, <2>1, <3>2, <3>3, <3>6 DEF Source, ApprovedBefore
    <3>8. g.envelope \in Envelope /\ grants[old].envelope \in Envelope
          /\ grants[a].envelope \in Envelope
      BY <1>3, <3>1, <3>3, EnvelopesAssumption DEF Grant
    <3>9. Within(g.envelope, grants[a].envelope) /\ g.actor = grants[a].actor
      BY <3>1, <3>2, <3>8, WithinTransitive DEF Narrows
    <3>10. QED
      BY <1>2, <2>4, <3>3, <3>7, <3>9
  <2>5. QED
    BY <2>2, <2>3, <2>4
<1>10. HistoryNeverRewritten'
  <2> SUFFICES ASSUME NEW t \in Tasks, NEW a \in Retained(t)', NEW b \in Retained(t)',
                      grants'[a].revision <= grants'[b].revision
               PROVE  Preserves(grants'[b].envelope, grants'[a].envelope)
    BY DEF HistoryNeverRewritten, Preserves
  <2>1. CASE a # id /\ b # id
    BY <1>2, <2>1 DEF GrantInv, HistoryNeverRewritten, Preserves, Retained
  <2>2. CASE a = id /\ b # id
    <3>1. /\ b \in GrantIds /\ grants[b] # None
          /\ grants'[b] = grants[b] /\ grants[b].task = g.task
      BY <1>2, <2>2 DEF Retained
    <3>2. QED
      BY <1>2, <1>3, <2>2, <3>1
  <2>3. CASE a # id /\ b = id
    <3>1. a \in Retained(g.task) /\ grants'[a] = grants[a]
      BY <1>2, <2>3 DEF Retained
    <3>2. Replacement(g.envelope, grants[a].envelope)
      BY <3>1 DEF NewGrant, ReplacesAll
    <3>3. QED
      BY <1>2, <2>3, <3>1, <3>2 DEF Preserves, Replacement, RouteReplacement
  <2>4. CASE a = id /\ b = id
    <3>1. g.envelope \in Envelope /\ Valid(g.envelope)
      BY EnvelopesAssumption DEF NewGrant, Grant
    <3>2. QED
      BY <1>2, <2>4, <3>1, ValidPreservesItself
  <2>5. QED
    BY <2>1, <2>2, <2>3, <2>4
<1>11. QED
  BY <1>1, <1>4, <1>5, <1>6, <1>7, <1>8, <1>9, <1>10 DEF GrantInv

\* The other actions write no grant, and no action removes an invalidation.
LEMMA SignalsKeep ==
    ASSUME GrantInv, UNCHANGED grantRows, now' \in 1 .. MaxTime,
           signals' \in [GrantIds -> Reasons \cup {"none"}],
           \A r \in GrantIds : signals[r] # "none" => signals'[r] # "none"
    PROVE  GrantInv'
<1>1. GrantTypeOK' /\ OnlyHeadUnended'
  BY DEF GrantInv, GrantTypeOK, OnlyHeadUnended, grantRows
<1>2. HeadsRetained' /\ HeadsLatest' /\ EnvelopesValid' /\ ApprovedRetained'
  BY DEF GrantInv, HeadsRetained, HeadsLatest, EnvelopesValid, ApprovedRetained, grantRows
<1>3. RestrictionsStayApproved'
  BY DEF GrantInv, RestrictionsStayApproved, Source, ApprovedBefore, grantRows
<1>4. HistoryNeverRewritten'
  BY DEF GrantInv, HistoryNeverRewritten, Retained, grantRows
<1>5. QED
  BY <1>1, <1>2, <1>3, <1>4 DEF GrantInv

\* expireGrants writes well-typed invalidations and removes none.
LEMMA ExpireGrantsKeeps ==
    ASSUME GrantInv
    PROVE  /\ ExpireGrants \in [GrantIds -> Reasons \cup {"none"}]
           /\ \A r \in GrantIds : signals[r] # "none" => ExpireGrants[r] # "none"
  BY DEF GrantInv, GrantTypeOK, ExpireGrants, Elapsed, Reasons

\* Every transaction of grants.go, and every move of the clock, keeps the invariant.
LEMMA GrantInductive ==
    ASSUME GrantInv, [GrantNext]_grantVars
    PROVE  GrantInv'
<1>1. ASSUME NEW id \in GrantIds, NEW g \in Grant, ApproveFirst(id, g)
      PROVE  GrantInv'
  <2>1. NewGrant(id, g) /\ id \in approved'
    BY <1>1, FirstIsNew DEF ApproveFirst
  <2>2. QED
    BY <2>1, NewGrantKeeps
<1>2. ASSUME NEW id \in GrantIds, NEW g \in Grant, ApproveNext(id, g)
      PROVE  GrantInv'
  <2>1. NewGrant(id, g) /\ id \in approved'
    BY <1>2, SupersedeIsNew DEF ApproveNext
  <2>2. QED
    BY <2>1, NewGrantKeeps
<1>3. ASSUME NEW id \in GrantIds, NEW g \in Grant, RestrictExecution(id, g)
      PROVE  GrantInv'
  <2>1. NewGrant(id, g) /\ heads[g.task] # None /\ Narrows(g, grants[heads[g.task]])
    BY <1>3, SupersedeIsNew DEF RestrictExecution
  <2>2. QED
    BY <2>1, NewGrantKeeps
<1>4. ASSUME NEW t \in Tasks, NEW reason \in {"revoked", "superseded"},
             InvalidateExecution(t, reason)
      PROVE  GrantInv'
  <2>1. signals' \in [GrantIds -> Reasons \cup {"none"}]
        /\ \A r \in GrantIds : signals[r] # "none" => signals'[r] # "none"
    BY <1>4 DEF GrantInv, GrantTypeOK, InvalidateExecution, Reasons
  <2>2. QED
    BY <1>4, <2>1, SignalsKeep DEF InvalidateExecution, GrantInv, GrantTypeOK
<1>5. CASE LatchExpiry
  BY <1>5, ExpireGrantsKeeps, SignalsKeep DEF LatchExpiry, GrantInv, GrantTypeOK
<1>6. CASE ClockMoves
  BY <1>6, SignalsKeep DEF ClockMoves, GrantInv, GrantTypeOK
<1>7. CASE UNCHANGED grantVars
  BY <1>7, SignalsKeep DEF grantVars, grantRows, GrantInv, GrantTypeOK
<1>8. ASSUME NEW id \in GrantIds, NEW t \in Tasks, NEW n \in Positive, NEW a \in Actors,
             NEW e \in Envelopes
      PROVE  [task |-> t, revision |-> n, actor |-> a, envelope |-> e] \in Grant
  BY DEF Grant
<1>9. QED
  BY <1>1, <1>2, <1>3, <1>4, <1>5, <1>6, <1>7, <1>8 DEF GrantNext

\* The strengthened invariant of grants.go: besides the properties below it, heads are
\* retained, the last of their task, and every retained envelope is valid.
THEOREM GrantInvariance == GrantSpec => []GrantInv
<1>1. GrantInv /\ [GrantNext]_grantVars => GrantInv'
  BY GrantInductive
<1>2. QED
  BY GrantInitial, <1>1, PTL DEF GrantSpec

\* The rows of grants.go keep their types, whatever the constants.
THEOREM GrantTypes == GrantSpec => []GrantTypeOK
<1>1. GrantInv => GrantTypeOK
  BY DEF GrantInv
<1>2. QED
  BY <1>1, GrantInvariance, PTL

\* changeExecution never replaces a head without leaving its invalidation behind.
THEOREM ReplacedGrantsEnd == GrantSpec => []OnlyHeadUnended
<1>1. GrantInv => OnlyHeadUnended
  BY DEF GrantInv
<1>2. QED
  BY <1>1, GrantInvariance, PTL

\* No chain of RestrictExecution calls, however long, leaves the envelope that
\* ApproveExecution was given.
THEOREM RestrictionsApproved == GrantSpec => []RestrictionsStayApproved
<1>1. GrantInv => RestrictionsStayApproved
  BY DEF GrantInv
<1>2. QED
  BY <1>1, GrantInvariance, PTL

\* The history loop of changeExecution, repeated over any number of grants, keeps every
\* decision number and route revision of a task bound to one content.
THEOREM HistoryKept == GrantSpec => []HistoryNeverRewritten
<1>1. GrantInv => HistoryNeverRewritten
  BY DEF GrantInv
<1>2. QED
  BY <1>1, GrantInvariance, PTL

-----------------------------------------------------------------------------
(* What a step does to the authority of a task. *)

\* One step gives a task authority back only as AuthorityReturnsByApproval says.
LEMMA AuthorityStep ==
    ASSUME GrantInv, GrantNext, NEW t \in Tasks, ~ Authorised(t), Authorised(t)'
    PROVE  \/ now' < now /\ heads'[t] = heads[t] /\ signals[heads[t]] = "none"
           \/ /\ heads'[t] \in approved' \ approved
              /\ heads[t] # None => grants'[heads'[t]].revision > grants[heads[t]].revision
<1>1. ASSUME NEW id \in GrantIds, NEW g \in Grant, NewGrant(id, g), t = g.task, id \in approved'
      PROVE  /\ heads'[t] \in approved' \ approved
             /\ heads[t] # None => grants'[heads'[t]].revision > grants[heads[t]].revision
  <2>1. heads'[t] = id /\ grants'[id] = g /\ id \notin approved
    BY <1>1 DEF NewGrant, GrantInv, GrantTypeOK, ApprovedRetained, Grant
  <2>2. ASSUME heads[t] # None
        PROVE  g.revision > grants[heads[t]].revision
    <3>1. heads[t] \in Retained(t)
      BY <1>1, <2>2 DEF GrantInv, GrantTypeOK, HeadsRetained, Retained, Grant
    <3>2. grants[heads[t]].revision \in Positive /\ g.revision \in Positive
      BY <3>1 DEF GrantInv, GrantTypeOK, Retained, Grant
    <3>3. QED
      BY <1>1, <3>1, <3>2 DEF NewGrant, Positive
  <2>3. QED
    BY <1>1, <2>1, <2>2
<1>2. ASSUME NEW id \in GrantIds, NEW g \in Grant, NewGrant(id, g), t # g.task
      PROVE  FALSE
  <2>1. heads'[t] = heads[t] /\ now' = now /\ g.task \in Tasks /\ heads[t] # None
    BY <1>2 DEF NewGrant, GrantInv, GrantTypeOK, Grant, Authorised
  <2>2. heads[t] \in GrantIds /\ grants'[heads[t]] = grants[heads[t]]
    BY <1>2, <2>1 DEF NewGrant, GrantInv, GrantTypeOK, HeadsRetained
  <2>3. signals[heads[t]] # "none" => signals'[heads[t]] # "none"
    BY <1>2, <2>2 DEF NewGrant
  <2>4. QED
    BY <2>1, <2>2, <2>3 DEF Authorised, Live
<1>3. ASSUME NEW id \in GrantIds, NEW g \in Grant, RestrictExecution(id, g)
      PROVE  FALSE
  <2>1. NewGrant(id, g) /\ Live(heads[g.task]) /\ heads[g.task] # None
    BY <1>3, SupersedeIsNew DEF RestrictExecution
  <2>2. QED
    BY <1>2, <2>1 DEF Authorised
<1>4. ASSUME UNCHANGED <<grantRows, now>>,
             \A r \in GrantIds : signals[r] # "none" => signals'[r] # "none"
      PROVE  FALSE
  BY <1>4 DEF Authorised, Live, grantRows, GrantInv, GrantTypeOK
<1>5. CASE \E reason \in {"revoked", "superseded"}, u \in Tasks : InvalidateExecution(u, reason)
  <2>1. \A r \in GrantIds : signals[r] # "none" => signals'[r] # "none"
    BY <1>5 DEF InvalidateExecution, GrantInv, GrantTypeOK
  <2>2. QED
    BY <1>4, <1>5, <2>1 DEF InvalidateExecution
<1>6. CASE LatchExpiry
  BY <1>4, <1>6, ExpireGrantsKeeps DEF LatchExpiry
<1>7. CASE ClockMoves
  <2>1. heads'[t] = heads[t] /\ heads[t] \in GrantIds /\ grants[heads[t]] \in Grant
        /\ signals[heads[t]] = "none" /\ now' < grants[heads[t]].envelope.expires
        /\ ~ (now < grants[heads[t]].envelope.expires)
    BY <1>7 DEF ClockMoves, Authorised, Live, grantRows, GrantInv, GrantTypeOK, HeadsRetained
  <2>2. grants[heads[t]].envelope.expires \in Nat /\ now \in Nat /\ now' \in Nat
    BY <1>7, <2>1, EnvelopesAssumption, MaxTimeAssumption
    DEF ClockMoves, GrantInv, GrantTypeOK, Grant, Envelope, Positive
  <2>3. QED
    BY <2>1, <2>2
<1>8. ASSUME NEW id \in GrantIds, NEW g \in Grant, ApproveFirst(id, g) \/ ApproveNext(id, g)
      PROVE  NewGrant(id, g) /\ id \in approved'
  BY <1>8, FirstIsNew, SupersedeIsNew DEF ApproveFirst, ApproveNext
<1>9. ASSUME NEW id \in GrantIds, NEW u \in Tasks, NEW n \in Positive, NEW a \in Actors,
             NEW e \in Envelopes
      PROVE  [task |-> u, revision |-> n, actor |-> a, envelope |-> e] \in Grant
  BY DEF Grant
<1>10. QED
  BY <1>1, <1>2, <1>3, <1>5, <1>6, <1>7, <1>8, <1>9 DEF GrantNext

\* A task without authority stays so until ApproveExecution, unless the clock went back
\* over an expiry that no call has latched.
THEOREM AuthorityReturns == GrantSpec => AuthorityReturnsByApproval
<1>1. GrantInv /\ [GrantNext]_grantVars =>
        [\A t \in Tasks : ~ Authorised(t) /\ Authorised(t)' =>
          \/ now' < now /\ heads'[t] = heads[t] /\ signals[heads[t]] = "none"
          \/ /\ heads'[t] \in approved' \ approved
             /\ heads[t] # None => grants'[heads'[t]].revision > grants[heads[t]].revision
        ]_grantVars
  BY AuthorityStep
<1>2. QED
  BY <1>1, GrantInvariance, PTL DEF GrantSpec, AuthorityReturnsByApproval

-----------------------------------------------------------------------------
(* Contiguous revisions; the retained grants of a task are finite whatever GrantIds is. *)

Contiguous == RevisionsContiguous /\ \A t \in Tasks : IsFiniteSet(Retained(t))

\* A new grant, numbered by the compare-and-set, extends 1 .. n to 1 .. n + 1.
LEMMA ContiguousStep ==
    ASSUME GrantInv, Contiguous, NEW id \in GrantIds, NEW g \in Grant, NewGrant(id, g),
           heads[g.task] = None => g.revision = 1,
           heads[g.task] # None => g.revision = grants[heads[g.task]].revision + 1
    PROVE  Contiguous'
<1> DEFINE R == Retained(g.task)
           n == Cardinality(R)
<1>1. /\ g # None /\ g.task \in Tasks
      /\ grants'[id] = g /\ heads'[g.task] = id
      /\ \A r \in GrantIds : r # id => grants'[r] = grants[r]
      /\ \A t \in Tasks : t # g.task => heads'[t] = heads[t]
  BY NoneAssumption DEF GrantInv, GrantTypeOK, NewGrant, Grant
<1>2. IsFiniteSet(R) /\ n \in Nat /\ id \notin R
  BY <1>1, FS_CardinalityType DEF Contiguous, Retained, NewGrant
<1>3. Retained(g.task)' = R \cup {id}
  BY <1>1 DEF Retained, NewGrant
<1>4. IsFiniteSet(R \cup {id}) /\ Cardinality(R \cup {id}) = n + 1
  BY <1>2, FS_AddElement
<1>5. g.revision = n + 1
  <2>1. CASE heads[g.task] = None
    <3>1. R = {}
      BY <1>1, <2>1 DEF GrantInv, HeadsLatest, Retained
    <3>2. QED
      BY <2>1, <3>1, FS_EmptySet
  <2>2. CASE heads[g.task] # None
    <3>1. heads[g.task] \in R
      BY <1>1, <2>2 DEF GrantInv, GrantTypeOK, HeadsRetained, Retained
    <3>2. n > 0
      BY <1>2, <3>1, FS_EmptySet
    <3>3. QED
      BY <1>1, <2>2, <3>2 DEF Contiguous, RevisionsContiguous
  <2>3. QED
    BY <2>1, <2>2
<1>6. {grants'[r].revision : r \in R \cup {id}} = 1 .. n + 1
  <2>1. \A r \in R : grants'[r] = grants[r]
    BY <1>1, <1>2 DEF Retained
  <2>2. {grants[r].revision : r \in R} = 1 .. n
    BY <1>1 DEF Contiguous, RevisionsContiguous
  <2>3. {grants'[r].revision : r \in R \cup {id}} = {grants[r].revision : r \in R} \cup {n + 1}
    BY <1>1, <1>5, <2>1
  <2>4. 1 .. n + 1 = (1 .. n) \cup {n + 1}
    BY <1>2
  <2>5. QED
    BY <2>2, <2>3, <2>4
<1>7. ASSUME NEW t \in Tasks, t # g.task
      PROVE  Retained(t)' = Retained(t) /\ heads'[t] = heads[t]
             /\ \A r \in Retained(t) : grants'[r] = grants[r]
  BY <1>1, <1>7 DEF Retained, NewGrant
<1>8. RevisionsContiguous'
  <2> SUFFICES ASSUME NEW t \in Tasks
               PROVE  LET m == Cardinality(Retained(t)') IN
                      /\ {grants'[r].revision : r \in Retained(t)'} = 1 .. m
                      /\ m > 0 => /\ heads'[t] \in Retained(t)'
                                  /\ grants'[heads'[t]].revision = m
    BY DEF RevisionsContiguous
  <2>1. CASE t = g.task
    BY <1>1, <1>3, <1>4, <1>5, <1>6, <2>1
  <2>2. CASE t # g.task
    BY <1>7, <2>2 DEF Contiguous, RevisionsContiguous
  <2>3. QED
    BY <2>1, <2>2
<1>9. \A t \in Tasks : IsFiniteSet(Retained(t)')
  BY <1>3, <1>4, <1>7 DEF Contiguous
<1>10. QED
  BY <1>8, <1>9 DEF Contiguous

\* The compare-and-set of changeExecution numbers the grants of a task 1, 2, 3, ...
\* without gap or repetition, and its head is the last.
THEOREM RevisionsAreContiguous == GrantSpec => []RevisionsContiguous
<1>1. GrantInit => Contiguous
  <2> SUFFICES ASSUME GrantInit PROVE Contiguous
    OBVIOUS
  <2>1. \A t \in Tasks : Retained(t) = {}
    BY DEF GrantInit, Retained
  <2>2. QED
    BY <2>1, FS_EmptySet DEF Contiguous, RevisionsContiguous
<1>2. GrantInv /\ Contiguous /\ [GrantNext]_grantVars => Contiguous'
  <2> SUFFICES ASSUME GrantInv, Contiguous, [GrantNext]_grantVars PROVE Contiguous'
    OBVIOUS
  <2>1. ASSUME NEW id \in GrantIds, NEW g \in Grant, ApproveFirst(id, g)
        PROVE  Contiguous'
    BY <2>1, FirstIsNew, ContiguousStep DEF ApproveFirst
  <2>2. ASSUME NEW id \in GrantIds, NEW g \in Grant, Supersede(id, g),
               approved' \in {approved, approved \cup {id}}
        PROVE  Contiguous'
    <3>1. NewGrant(id, g) /\ heads[g.task] # None
          /\ g.revision = grants[heads[g.task]].revision + 1
      BY <2>2, SupersedeIsNew DEF Supersede, NextRevision
    <3>2. QED
      BY <3>1, ContiguousStep
  <2>3. ASSUME UNCHANGED grantRows
        PROVE  Contiguous'
    <3>1. grants' = grants /\ heads' = heads
      BY <2>3 DEF grantRows
    <3>2. \A t \in Tasks : Retained(t)' = Retained(t)
      BY <3>1 DEF Retained
    <3>3. RevisionsContiguous'
      BY <3>1, <3>2 DEF Contiguous, RevisionsContiguous
    <3>4. QED
      BY <3>2, <3>3 DEF Contiguous
  <2>4. ASSUME NEW id \in GrantIds, NEW t \in Tasks, NEW n \in Positive, NEW a \in Actors,
               NEW e \in Envelopes
        PROVE  [task |-> t, revision |-> n, actor |-> a, envelope |-> e] \in Grant
    BY DEF Grant
  <2>5. ASSUME NEW id \in GrantIds, NEW g \in Grant,
               ApproveNext(id, g) \/ RestrictExecution(id, g)
        PROVE  Contiguous'
    BY <2>2, <2>5 DEF ApproveNext, RestrictExecution
  <2>6. UNCHANGED grantRows => Contiguous'
    BY <2>3
  <2>7. CASE \/ \E t \in Tasks, reason \in {"revoked", "superseded"} : InvalidateExecution(t, reason)
             \/ LatchExpiry \/ ClockMoves \/ UNCHANGED grantVars
    BY <2>6, <2>7 DEF InvalidateExecution, LatchExpiry, ClockMoves, grantVars, grantRows
  <2>8. QED
    BY <2>1, <2>4, <2>5, <2>7 DEF GrantNext
<1>3. Contiguous => RevisionsContiguous
  BY DEF Contiguous
<1>4. QED
  BY <1>1, <1>2, <1>3, GrantInvariance, PTL DEF GrantSpec

\* The grant rows, the head and the invalidations of a task form one unbroken chain.
THEOREM ChainKept == GrantSpec => []ChainIsWhole
BY ReplacedGrantsEnd, RevisionsAreContiguous, PTL DEF ChainIsWhole

-----------------------------------------------------------------------------
(* The store's writes to the tables of grants.go. *)

\* An action that latches the elapsed grants does to them what LatchExpiry does.
LEMMA GrantsStep == [DispatchNext]_vars => [GrantNext]_grantVars
<1> SUFFICES ASSUME [DispatchNext]_vars PROVE [GrantNext]_grantVars
  OBVIOUS
<1>1. ASSUME NEW i \in Intents,
             \/ \E t \in Tasks, g \in GrantIds, e \in Envelopes, want \in Allowances :
                   Admit(i, t, g, e, want)
             \/ Delivery(i)
             \/ \E m \in Ack : AcknowledgeAssignment(i, m)
      PROVE  LatchExpiry
  BY <1>1 DEF Admit, Delivery, AcknowledgeAssignment, LatchExpiry
<1>2. Restart => LatchExpiry
  BY DEF Restart, LatchExpiry
<1>3. ASSUME NEW i \in Intents,
             \/ \E to \in Terminal, n \in Positive : ReconcileDispatch(i, to, n)
             \/ RunnerStep(i)
             \/ Fence(i)
      PROVE  UNCHANGED grantVars
  BY <1>3 DEF ReconcileDispatch, RunnerStep, Fence
<1>4. CASE \/ \E t \in Tasks : StopDispatch(t)
           \/ \E r \in Runners, f \in FactSet : PublishEligibility(r, f)
           \/ \E r \in Runners, to \in {"enabled", "disabled", "revoked"} : UpdateRunner(r, to)
           \/ RegisterRepository
  BY <1>4 DEF StopDispatch, PublishEligibility, UpdateRunner, RegisterRepository
<1>5. UNCHANGED vars => UNCHANGED grantVars
  BY DEF vars
<1>6. LatchExpiry => GrantNext
  BY DEF GrantNext
<1>7. QED
  BY <1>1, <1>2, <1>3, <1>4, <1>5, <1>6 DEF DispatchNext

\* The dispatch store implements the specification of the grants it shares tables with.
THEOREM DispatchImplementsGrants == DispatchSpec => GrantSpec
<1>1. DispatchInit => GrantInit
  BY DEF DispatchInit
<1>2. QED
  BY <1>1, GrantsStep, PTL DEF DispatchSpec, GrantSpec

\* So all that is proved of grants.go alone holds beside dispatch.go too.
LEMMA GrantsInvariantInDispatch == DispatchSpec => []GrantInv
  BY DispatchImplementsGrants, GrantInvariance, PTL

-----------------------------------------------------------------------------
(* Types. *)

\* The empty tables have their types.
LEMMA DispatchInitialTypes == DispatchInit => DispatchTypeOK
<1> SUFFICES ASSUME DispatchInit PROVE DispatchTypeOK
  OBVIOUS
<1>1. GrantTypeOK
  BY GrantInitial DEF DispatchInit, GrantInv
<1>2. QED
  BY <1>1, BoundsAssumption DEF DispatchInit, DispatchTypeOK

\* What a writer of attempts stores has its type.
LEMMA MovedTypes ==
    ASSUME DispatchTypeOK, NEW S \in SUBSET Intents, NEW to \in AttemptState
    PROVE  /\ MovedAll(S, to) \in [Intents -> [state : AttemptState \cup {"none"}, revision : Nat]]
           /\ Record(S, to) \in [Intents -> Seq(AttemptState)]
           /\ Reconciling(S) \in [Tasks -> {"none", "ready", "reconciling"}]
  BY DEF DispatchTypeOK, MovedAll, Moved, Record, Reconciling

\* The states dispatch.go and recovery.go write are states of the protocol.
LEMMA AttemptStates ==
    /\ "assigned" \in AttemptState /\ "stopping" \in AttemptState /\ "unknown" \in AttemptState
    /\ Terminal \subseteq AttemptState
  BY DEF AttemptState, Working, Terminal

\* Every transaction keeps the types of the tables of dispatch.go.
LEMMA TypesStep ==
    ASSUME DispatchTypeOK, GrantTypeOK', [DispatchNext]_vars
    PROVE  DispatchTypeOK'
<1>1. CASE UNCHANGED dispatchVars
  BY <1>1 DEF dispatchVars, DispatchTypeOK, attemptVars, placementVars
<1>2. ASSUME NEW i \in Intents, NEW t \in Tasks, NEW g \in GrantIds, NEW e \in Envelopes,
             NEW want \in Allowances, Admit(i, t, g, e, want)
      PROVE  DispatchTypeOK'
  <2>1. PICK n \in Positive : dispatches' = [dispatches EXCEPT ![i] =
           [task |-> t, grant |-> g, envelope |-> e, allowance |-> want,
            epoch |-> n, created |-> now]]
    BY <1>2 DEF Admit
  <2>2. dispatches' \in [Intents -> Row \cup {None}]
    BY <2>1 DEF DispatchTypeOK, GrantTypeOK, Row
  <2>3. /\ attempts' \in [Intents -> [state : AttemptState \cup {"none"}, revision : Nat]]
        /\ events' \in [Intents -> Seq(AttemptState)]
    BY <1>2, AttemptStates DEF Admit, DispatchTypeOK
  <2>4. /\ born' \in [Intents -> 0 .. MaxBoot]
        /\ taskState' \in [Tasks -> {"none", "ready", "reconciling"}]
    BY <1>2, BoundsAssumption DEF Admit, DispatchTypeOK
  <2>5. QED
    BY <1>2, <2>2, <2>3, <2>4 DEF Admit, DispatchTypeOK, placementVars
<1>3. ASSUME NEW i \in Intents, Delivery(i)
      PROVE  DispatchTypeOK'
  BY <1>3 DEF Delivery, DispatchTypeOK, placementVars, attemptVars
<1>4. ASSUME NEW i \in Intents, NEW m \in Ack, AcknowledgeAssignment(i, m)
      PROVE  DispatchTypeOK'
  BY <1>4 DEF AcknowledgeAssignment, DispatchTypeOK, placementVars, attemptVars
<1>5. ASSUME NEW i \in Intents, NEW to \in Terminal, NEW n \in Positive,
             ReconcileDispatch(i, to, n)
      PROVE  DispatchTypeOK'
  BY <1>5, MovedTypes, AttemptStates DEF ReconcileDispatch, DispatchTypeOK, placementVars
<1>6. ASSUME NEW i \in Intents, RunnerStep(i) \/ Fence(i)
      PROVE  DispatchTypeOK'
  BY <1>6 DEF RunnerStep, Fence, DispatchTypeOK, placementVars, attemptVars
<1>7. ASSUME NEW t \in Tasks, StopDispatch(t)
      PROVE  DispatchTypeOK'
  <2>1. {i \in Of(t) : attempts[i].state = "assigned"} \in SUBSET Intents
    BY DEF Of
  <2>2. QED
    BY <1>7, <2>1, MovedTypes, AttemptStates DEF StopDispatch, DispatchTypeOK, placementVars
<1>8. ASSUME NEW r \in Runners, NEW f \in FactSet, PublishEligibility(r, f)
      PROVE  DispatchTypeOK'
  BY <1>8 DEF PublishEligibility, DispatchTypeOK, attemptVars
<1>9. ASSUME NEW r \in Runners, NEW to \in {"enabled", "disabled", "revoked"}, UpdateRunner(r, to)
      PROVE  DispatchTypeOK'
  BY <1>9 DEF UpdateRunner, DispatchTypeOK, attemptVars
<1>10. CASE RegisterRepository
  BY <1>10, BoundsAssumption DEF RegisterRepository, DispatchTypeOK, attemptVars
<1>11. CASE Restart
  <2>1. UnderWay \in SUBSET Intents
    BY DEF UnderWay
  <2>2. boot' \in 1 .. MaxBoot
    BY <1>11, BoundsAssumption DEF Restart, DispatchTypeOK
  <2>3. QED
    BY <1>11, <2>1, <2>2, MovedTypes, AttemptStates DEF Restart, DispatchTypeOK, placementVars
<1>12. UNCHANGED vars => UNCHANGED dispatchVars
  BY DEF vars
<1>13. QED
  BY <1>1, <1>2, <1>3, <1>4, <1>5, <1>6, <1>7, <1>8, <1>9, <1>10, <1>11, <1>12 DEF DispatchNext

\* Every row of grants.go and dispatch.go keeps its type, whatever the constants.
THEOREM DispatchTypes == DispatchSpec => []DispatchTypeOK
<1>1. DispatchTypeOK /\ GrantInv' /\ [DispatchNext]_vars => DispatchTypeOK'
  BY TypesStep DEF GrantInv
<1>2. QED
  BY <1>1, DispatchInitialTypes, GrantsInvariantInDispatch, PTL DEF DispatchSpec

-----------------------------------------------------------------------------
(* The life of an attempt. *)

\* An attempt row exists with its dispatch row, and its state fixes its revision: only
\* admission, stop, restart and reconciliation write it.
Stage(i) ==
    LET a == attempts[i] IN
    \/ dispatches[i] = None /\ a.state = "none" /\ a.revision = 0
    \/ dispatches[i] # None /\ a.state = "assigned" /\ a.revision = 1
    \/ dispatches[i] # None /\ a.state = "stopping" /\ a.revision = 2
    \/ dispatches[i] # None /\ a.state = "unknown" /\ a.revision \in {2, 3}
    \/ dispatches[i] # None /\ a.state \in {"cancelled", "expired"} /\ a.revision \in {3, 4}

Stages == \A i \in Intents : Stage(i)

AttemptInv ==
    /\ Stages
    /\ EventsAreHistory
    /\ TerminalIffReleased
    /\ OneActiveAttempt

\* What an action that moves the attempts of S to one state does to them.
Moves(S, to) ==
    /\ S \subseteq Intents
    /\ \A i \in S : attempts[i].state \in AttemptState /\ <<attempts[i].state, to>> \in Edges
    /\ attempts' = MovedAll(S, to)
    /\ events' = Record(S, to)
    /\ released' = IF to \in Terminal THEN released \cup S ELSE released
    /\ dispatches' = dispatches

\* The protocol edges that dispatch.go and recovery.go use.
LEMMA EdgeFacts ==
    /\ <<"assigned", "stopping">> \in Edges /\ <<"assigned", "unknown">> \in Edges
    /\ <<"stopping", "unknown">> \in Edges
    /\ \A s \in AttemptState, to \in {"cancelled", "expired"} :
          <<s, to>> \in Edges => s \in {"stopping", "unknown"}
  BY DEF Edges, AttemptState, Working, Terminal

\* Admission into a free slot starts an attempt at revision 1 and keeps the invariant.
LEMMA AdmitAttempt ==
    ASSUME DispatchTypeOK, AttemptInv, NEW i \in Intents, dispatches[i] = None, SlotFree,
           attempts' = [attempts EXCEPT ![i] = [state |-> "assigned", revision |-> 1]],
           events' = [events EXCEPT ![i] = <<"assigned">>],
           NEW row \in Row, dispatches' = [dispatches EXCEPT ![i] = row],
           released' = released
    PROVE  AttemptInv'
<1>1. /\ attempts'[i] = [state |-> "assigned", revision |-> 1]
      /\ events'[i] = <<"assigned">>
      /\ dispatches'[i] = row /\ row # None
      /\ \A j \in Intents : j # i => /\ attempts'[j] = attempts[j]
                                     /\ events'[j] = events[j]
                                     /\ dispatches'[j] = dispatches[j]
  BY NoRowAssumption DEF DispatchTypeOK
<1>2. Stages'
  BY <1>1 DEF AttemptInv, Stages, Stage
<1>3. EventsAreHistory'
  BY <1>1 DEF AttemptInv, EventsAreHistory
<1>4. TerminalIffReleased'
  BY <1>1 DEF AttemptInv, TerminalIffReleased, Stages, Stage, Terminal
<1>5. OneActiveAttempt'
  BY <1>1 DEF SlotFree, OneActiveAttempt, Active, Terminal
<1>6. QED
  BY <1>2, <1>3, <1>4, <1>5 DEF AttemptInv

\* A recorded move of some attempts along protocol edges keeps the invariant.
LEMMA MovesAttempt ==
    ASSUME DispatchTypeOK, AttemptInv, NEW S, NEW to \in {"stopping", "unknown", "cancelled", "expired"},
           Moves(S, to),
           to = "stopping" => \A i \in S : attempts[i].state = "assigned",
           to = "unknown" => \A i \in S : attempts[i].state \in Working
    PROVE  AttemptInv'
<1>1. ASSUME NEW i \in Intents
      PROVE  /\ i \in S => /\ attempts'[i].state = to
                           /\ attempts'[i].revision = attempts[i].revision + 1
                           /\ events'[i] = Append(events[i], to)
             /\ i \notin S => attempts'[i] = attempts[i] /\ events'[i] = events[i]
  BY DEF Moves, MovedAll, Moved, Record, DispatchTypeOK
<1>2. Stages'
  <2> SUFFICES ASSUME NEW i \in Intents PROVE Stage(i)'
    BY DEF Stages
  <2>1. CASE i \notin S
    BY <1>1, <2>1 DEF AttemptInv, Stages, Stage, Moves
  <2>2. CASE i \in S
    <3>1. attempts[i].state \in AttemptState /\ Stage(i) /\ <<attempts[i].state, to>> \in Edges
      BY <2>2 DEF Moves, AttemptInv, Stages
    <3>2. to \in {"cancelled", "expired"} => attempts[i].state \in {"stopping", "unknown"}
      BY <3>1, EdgeFacts DEF Terminal, Stage
    <3>3. to = "unknown" => attempts[i].state \in {"assigned", "stopping"}
      BY <2>2, <3>1 DEF Stage, Working
    <3>4. QED
      BY <1>1, <2>2, <3>1, <3>2, <3>3 DEF Stage, Moves
  <2>3. QED
    BY <2>1, <2>2
<1>3. EventsAreHistory'
  <2> SUFFICES ASSUME NEW i \in Intents
               PROVE  LET n == Len(events'[i]) IN
                      /\ attempts'[i].revision = n
                      /\ attempts'[i].state = IF n = 0 THEN "none" ELSE events'[i][n]
                      /\ \A k \in 1 .. n - 1 : <<events'[i][k], events'[i][k + 1]>> \in Edges
    BY DEF EventsAreHistory
  <2>1. CASE i \notin S
    BY <1>1, <2>1 DEF AttemptInv, EventsAreHistory
  <2>2. CASE i \in S
    <3> DEFINE m == Len(events[i])
    <3>1. /\ events[i] \in Seq(AttemptState) /\ m \in Nat /\ attempts[i].revision = m
          /\ attempts[i].state = (IF m = 0 THEN "none" ELSE events[i][m])
          /\ \A k \in 1 .. m - 1 : <<events[i][k], events[i][k + 1]>> \in Edges
      BY DEF DispatchTypeOK, AttemptInv, EventsAreHistory
    <3>2. <<attempts[i].state, to>> \in Edges /\ m # 0
      BY <2>2, <3>1 DEF Moves, AttemptState, Working, Terminal
    <3>3. /\ Len(events'[i]) = m + 1 /\ events'[i][m + 1] = to
          /\ \A k \in 1 .. m : events'[i][k] = events[i][k]
      <4>1. to \in AttemptState /\ events'[i] = Append(events[i], to)
        BY <1>1, <2>2 DEF AttemptState, Working, Terminal
      <4>2. QED
        BY <3>1, <4>1
    <3>4. ASSUME NEW k \in 1 .. m
          PROVE  <<events'[i][k], events'[i][k + 1]>> \in Edges
      <4>1. CASE k = m
        BY <3>1, <3>2, <3>3, <4>1
      <4>2. CASE k # m
        BY <3>1, <3>3, <4>2
      <4>3. QED
        BY <4>1, <4>2
    <3>5. attempts'[i].revision = m + 1 /\ attempts'[i].state = to
      BY <1>1, <2>2, <3>1
    <3>6. 1 .. (m + 1) - 1 = 1 .. m /\ m + 1 # 0
      BY <3>1
    <3>7. QED
      BY <3>3, <3>4, <3>5, <3>6
  <2>3. QED
    BY <2>1, <2>2
<1>4. TerminalIffReleased'
  <2>1. \A i \in S : attempts[i].state \notin Terminal
    BY EdgeFacts DEF Moves, Edges, Terminal
  <2>2. to \in Terminal <=> to \in {"cancelled", "expired"}
    BY DEF Terminal
  <2>3. ASSUME NEW i \in Intents
        PROVE  attempts'[i].state \in Terminal <=> i \in released'
    <3>1. attempts[i].state \in Terminal <=> i \in released
      BY DEF AttemptInv, TerminalIffReleased
    <3>2. CASE i \in S
      <4>1. attempts'[i].state = to /\ i \notin released
        BY <1>1, <2>1, <3>1, <3>2
      <4>2. i \in released' <=> to \in Terminal
        BY <3>2, <4>1 DEF Moves
      <4>3. QED
        BY <4>1, <4>2
    <3>3. CASE i \notin S
      BY <1>1, <3>1, <3>3 DEF Moves
    <3>4. QED
      BY <3>2, <3>3
  <2>4. QED
    BY <2>3 DEF TerminalIffReleased
<1>5. OneActiveAttempt'
  <2>1. ASSUME NEW i \in Intents, Active(i)'
        PROVE  Active(i)
    BY <1>1, <2>1 DEF Moves, Active, Edges, Terminal
  <2>2. QED
    BY <2>1 DEF AttemptInv, OneActiveAttempt
<1>6. QED
  BY <1>2, <1>3, <1>4, <1>5 DEF AttemptInv

Stoppable(t) == {i \in Of(t) : attempts[i].state = "assigned"}

\* StopDispatch moves the task's assigned attempt to stopping.
LEMMA StopMoves ==
    ASSUME DispatchTypeOK, AttemptInv, NEW t \in Tasks, StopDispatch(t)
    PROVE  Moves(Stoppable(t), "stopping")
  BY EdgeFacts, AttemptStates DEF StopDispatch, Stoppable, Moves, Of, Terminal

\* recoverAttempts moves every attempt that was under way to unknown.
LEMMA RestartMoves ==
    ASSUME DispatchTypeOK, AttemptInv, Restart
    PROVE  Moves(UnderWay, "unknown")
<1>1. \A i \in UnderWay : attempts[i].state \in {"assigned", "stopping"}
  BY DEF AttemptInv, Stages, Stage, UnderWay, Working
<1>2. QED
  BY <1>1, EdgeFacts, AttemptStates DEF Restart, Moves, UnderWay, Terminal

\* ReconcileDispatch moves one stopped or lost attempt to its terminal state.
LEMMA ReconcileMoves ==
    ASSUME DispatchTypeOK, AttemptInv, NEW i \in Intents, NEW to \in Terminal, NEW n \in Positive,
           ReconcileDispatch(i, to, n)
    PROVE  to \in {"cancelled", "expired"} /\ Moves({i}, to)
<1>1. attempts[i].state \in AttemptState
  BY AttemptStates DEF AttemptInv, Stages, Stage, ReconcileDispatch, Terminal
<1>2. QED
  BY <1>1 DEF ReconcileDispatch, CheckTransition, Moves

\* A step that leaves attempts, events and releases alone keeps the invariant.
LEMMA QuietAttempts ==
    ASSUME AttemptInv, UNCHANGED <<dispatches, attempts, events, released>>
    PROVE  AttemptInv'
<1>1. Stages' /\ TerminalIffReleased'
  BY DEF AttemptInv, Stages, Stage, TerminalIffReleased
<1>2. EventsAreHistory' /\ OneActiveAttempt'
  BY DEF AttemptInv, EventsAreHistory, OneActiveAttempt, Active
<1>3. QED
  BY <1>1, <1>2 DEF AttemptInv

\* Admission, whose row the type invariant of the next state describes.
LEMMA AdmitWrites ==
    ASSUME DispatchTypeOK, NEW i \in Intents, NEW t \in Tasks, NEW g \in GrantIds,
           NEW e \in Envelopes, NEW want \in Allowances, Admit(i, t, g, e, want)
    PROVE  \E row \in Row : row.task = t /\ dispatches' = [dispatches EXCEPT ![i] = row]
  BY DEF Admit, Row, DispatchTypeOK, GrantTypeOK

\* The steps that neither admit nor move an attempt.
Quiet == UNCHANGED <<dispatches, attempts, events, released>>

\* Four actions write attempts; every other step is quiet.
LEMMA QuietSteps ==
    ASSUME [DispatchNext]_vars
    PROVE  \/ \E i \in Intents, t \in Tasks, g \in GrantIds, e \in Envelopes,
                 want \in Allowances : Admit(i, t, g, e, want)
           \/ \E t \in Tasks : StopDispatch(t)
           \/ Restart
           \/ \E i \in Intents, to \in Terminal, n \in Positive : ReconcileDispatch(i, to, n)
           \/ Quiet
<1>1. UNCHANGED dispatchVars => Quiet
  BY DEF dispatchVars, attemptVars, Quiet
<1>2. UNCHANGED vars => Quiet
  BY <1>1 DEF vars
<1>3. \A i \in Intents : Delivery(i) \/ (\E m \in Ack : AcknowledgeAssignment(i, m))
                           \/ RunnerStep(i) \/ Fence(i) => Quiet
  BY DEF Delivery, AcknowledgeAssignment, RunnerStep, Fence, attemptVars, Quiet
<1>4. (\E r \in Runners, f \in FactSet : PublishEligibility(r, f)) => Quiet
  BY DEF PublishEligibility, attemptVars, Quiet
<1>5. (\E r \in Runners, to \in {"enabled", "disabled", "revoked"} : UpdateRunner(r, to)) => Quiet
  BY DEF UpdateRunner, attemptVars, Quiet
<1>6. RegisterRepository => Quiet
  BY DEF RegisterRepository, attemptVars, Quiet
<1>7. QED
  BY <1>1, <1>2, <1>3, <1>4, <1>5, <1>6 DEF DispatchNext

\* Every transaction keeps the invariant of the attempts.
LEMMA AttemptStep ==
    ASSUME DispatchTypeOK, AttemptInv, [DispatchNext]_vars
    PROVE  AttemptInv'
<1>1. ASSUME NEW i \in Intents, NEW t \in Tasks, NEW g \in GrantIds, NEW e \in Envelopes,
             NEW want \in Allowances, Admit(i, t, g, e, want)
      PROVE  AttemptInv'
  <2>1. PICK row \in Row : dispatches' = [dispatches EXCEPT ![i] = row]
    BY <1>1, AdmitWrites
  <2>2. QED
    BY <1>1, <2>1, AdmitAttempt DEF Admit, Reserve
<1>2. ASSUME NEW t \in Tasks, StopDispatch(t)
      PROVE  AttemptInv'
  BY <1>2, StopMoves, MovesAttempt DEF Stoppable
<1>3. CASE Restart
  BY <1>3, RestartMoves, MovesAttempt DEF UnderWay
<1>4. ASSUME NEW i \in Intents, NEW to \in Terminal, NEW n \in Positive,
             ReconcileDispatch(i, to, n)
      PROVE  AttemptInv'
  BY <1>4, ReconcileMoves, MovesAttempt
<1>5. CASE Quiet
  BY <1>5, QuietAttempts DEF Quiet
<1>6. QED
  BY <1>1, <1>2, <1>3, <1>4, <1>5, QuietSteps

\* The strengthened invariant of attempts: state, revision, events and release of an
\* attempt agree, at each of the stages it can be in.
THEOREM AttemptInvariance == DispatchSpec => [](DispatchTypeOK /\ AttemptInv)
<1>1. DispatchInit => AttemptInv
  BY DEF DispatchInit, AttemptInv, Stages, Stage, EventsAreHistory, TerminalIffReleased,
         OneActiveAttempt, Active, Terminal
<1>2. DispatchTypeOK /\ AttemptInv /\ [DispatchNext]_vars => AttemptInv'
  BY AttemptStep
<1>3. QED
  BY <1>1, <1>2, DispatchTypes, PTL DEF DispatchSpec

\* reserve admits over the whole store: whatever stops, restarts and reconciliations
\* interleave, at most one attempt is active.
THEOREM SlotIsSingle == DispatchSpec => []OneActiveAttempt
<1>1. AttemptInv => OneActiveAttempt
  BY DEF AttemptInv
<1>2. QED
  BY <1>1, AttemptInvariance, PTL

\* ReconcileDispatch alone gives capacity back, with the terminal state.
THEOREM ReleaseIsTerminal == DispatchSpec => []TerminalIffReleased
<1>1. AttemptInv => TerminalIffReleased
  BY DEF AttemptInv
<1>2. QED
  BY <1>1, AttemptInvariance, PTL

\* Every writer of an attempt records the event of its revision, along protocol edges.
THEOREM EventsRecorded == DispatchSpec => []EventsAreHistory
<1>1. AttemptInv => EventsAreHistory
  BY DEF AttemptInv
<1>2. QED
  BY <1>1, AttemptInvariance, PTL

\* recoverAttempts never meets an exhausted revision, however often the daemon starts.
THEOREM RevisionsAreBounded == DispatchSpec => []RevisionsBounded
<1>1. AttemptInv => RevisionsBounded
  BY DEF AttemptInv, Stages, Stage, RevisionsBounded
<1>2. QED
  BY <1>1, AttemptInvariance, PTL

-----------------------------------------------------------------------------
(* What runners hold, what they have acknowledged, and what a stop ends. *)

\* A runner holds or runs an assignment only while its attempt occupies the slot.
HeldIsActive == \A i \in Intents : work[i] \in {"holding", "live"} => Active(i)

\* Only the daemon start that admitted an attempt sees it assigned.
AssignedNow == \A i \in Intents : attempts[i].state = "assigned" => born[i] = boot

StoppedUnassigned == \A t \in stops : \A i \in Of(t) : attempts[i].state # "assigned"

HandInv ==
    /\ HeldIsActive
    /\ AssignedNow
    /\ ReceiptsFromAdmittingBoot
    /\ StoppedUnassigned

\* What the provers see of an attempt that a writer moves, or leaves.
LEMMA MovesEffect ==
    ASSUME DispatchTypeOK, NEW S, NEW to \in AttemptState, Moves(S, to), NEW i \in Intents
    PROVE  /\ i \in S => attempts'[i].state = to
           /\ i \notin S => attempts'[i] = attempts[i]
           /\ to \notin Terminal => (Active(i) => Active(i)')
           /\ to # "assigned" /\ attempts'[i].state = "assigned" => attempts[i].state = "assigned"
<1>1. attempts'[i] = IF i \in S THEN [state |-> to, revision |-> attempts[i].revision + 1]
                     ELSE attempts[i]
  BY DEF Moves, MovedAll, Moved
<1>2. (i \in S => attempts'[i].state = to) /\ (i \notin S => attempts'[i] = attempts[i])
  BY <1>1
<1>3. to # "none"
  BY DEF AttemptState, Working, Terminal
<1>4. QED
  BY <1>2, <1>3 DEF Active

\* Every transaction, and every step of a runner, keeps the invariant of what is handed.
LEMMA HandStep ==
    ASSUME DispatchTypeOK, AttemptInv, HandInv, [DispatchNext]_vars
    PROVE  HandInv'
<1>1. ASSUME NEW i \in Intents, NEW t \in Tasks, NEW g \in GrantIds, NEW e \in Envelopes,
             NEW want \in Allowances, Admit(i, t, g, e, want)
      PROVE  HandInv'
  <2>1. PICK row \in Row : row.task = t /\ dispatches' = [dispatches EXCEPT ![i] = row]
    BY <1>1, AdmitWrites
  <2>2. /\ dispatches[i] = None /\ t \notin stops /\ row # None
        /\ dispatches'[i] = row /\ attempts'[i].state = "assigned" /\ born'[i] = boot
        /\ \A j \in Intents : j # i => /\ dispatches'[j] = dispatches[j]
                                       /\ attempts'[j] = attempts[j]
                                       /\ born'[j] = born[j]
        /\ work' = work /\ boot' = boot /\ acks' = acks /\ stops' = stops
    BY <1>1, <2>1, NoRowAssumption DEF Admit, DispatchAllowed, DispatchTypeOK
  <2>3. HeldIsActive'
    BY <2>2 DEF HandInv, HeldIsActive, Active, Terminal
  <2>4. AssignedNow' /\ ReceiptsFromAdmittingBoot'
    BY <2>2 DEF HandInv, AssignedNow, ReceiptsFromAdmittingBoot
  <2>5. StoppedUnassigned'
    BY <2>1, <2>2 DEF HandInv, StoppedUnassigned, Of
  <2>6. QED
    BY <2>3, <2>4, <2>5 DEF HandInv
<1>2. ASSUME NEW t \in Tasks, StopDispatch(t)
      PROVE  HandInv'
  <2>1. Moves(Stoppable(t), "stopping")
    BY <1>2, StopMoves
  <2>2. /\ stops' = stops \cup {t}
        /\ UNCHANGED <<dispatches, born, boot, acks, work>>
    BY <1>2 DEF StopDispatch
  <2>3. HeldIsActive'
    BY <2>1, <2>2, MovesEffect, AttemptStates DEF HandInv, HeldIsActive, Terminal
  <2>4. AssignedNow' /\ ReceiptsFromAdmittingBoot'
    BY <2>1, <2>2, MovesEffect, AttemptStates DEF HandInv, AssignedNow, ReceiptsFromAdmittingBoot
  <2>5. ASSUME NEW u \in stops', NEW i \in Of(u)', attempts'[i].state = "assigned"
        PROVE  FALSE
    <3>1. i \in Intents /\ i \in Of(u)
      BY <2>2 DEF Of
    <3>2. attempts[i].state = "assigned" /\ i \notin Stoppable(t)
      BY <2>1, <2>5, <3>1, MovesEffect, AttemptStates
    <3>3. QED
      BY <2>2, <3>1, <3>2 DEF Stoppable, HandInv, StoppedUnassigned
  <2>6. QED
    BY <2>3, <2>4, <2>5 DEF HandInv, StoppedUnassigned
<1>3. CASE Restart
  <2>1. Moves(UnderWay, "unknown")
    BY <1>3, RestartMoves
  <2>2. UNCHANGED <<dispatches, born, acks, work, stops>>
    BY <1>3 DEF Restart
  <2>3. HeldIsActive'
    BY <2>1, <2>2, MovesEffect, AttemptStates DEF HandInv, HeldIsActive, Terminal
  <2>4. \A i \in Intents : attempts'[i].state # "assigned"
    BY <2>1, MovesEffect, AttemptStates DEF UnderWay, Working
  <2>5. QED
    BY <2>2, <2>3, <2>4 DEF HandInv, AssignedNow, ReceiptsFromAdmittingBoot, StoppedUnassigned, Of
<1>4. ASSUME NEW i \in Intents, NEW to \in Terminal, NEW n \in Positive,
             ReconcileDispatch(i, to, n)
      PROVE  HandInv'
  <2>1. Moves({i}, to) /\ to \in {"cancelled", "expired"} /\ to \in AttemptState
    BY <1>4, ReconcileMoves, AttemptStates
  <2>2. /\ UNCHANGED <<dispatches, born, boot, acks, work, stops>>
        /\ work[i] = "fenced"
    BY <1>4 DEF ReconcileDispatch, LaunchFenced
  <2>3. ASSUME NEW j \in Intents, work'[j] \in {"holding", "live"}
        PROVE  Active(j)'
    <3>1. j # i /\ Active(j)
      BY <2>2, <2>3 DEF HandInv, HeldIsActive
    <3>2. QED
      BY <2>1, <3>1, MovesEffect DEF Active
  <2>4. \A j \in Intents : attempts'[j].state = "assigned" => attempts[j].state = "assigned"
    BY <2>1, MovesEffect
  <2>5. QED
    BY <2>2, <2>3, <2>4
    DEF HandInv, HeldIsActive, AssignedNow, ReceiptsFromAdmittingBoot, StoppedUnassigned, Of
<1>5. ASSUME Quiet, UNCHANGED <<acks, stops, boot, born, work>>
      PROVE  HandInv'
  BY <1>5 DEF Quiet, HandInv, HeldIsActive, AssignedNow, ReceiptsFromAdmittingBoot,
              StoppedUnassigned, Of, Active
<1>6. ASSUME NEW i \in Intents, Delivery(i)
      PROVE  HandInv'
  <2>1. Quiet /\ UNCHANGED <<acks, stops, boot, born>> /\ attempts[i].state = "assigned"
        /\ \A j \in Intents : j # i => work'[j] = work[j]
    BY <1>6 DEF Delivery, Deliverable, Quiet, attemptVars, DispatchTypeOK
  <2>2. HeldIsActive'
    BY <2>1 DEF Quiet, HandInv, HeldIsActive, Active, Terminal
  <2>3. QED
    BY <2>1, <2>2
    DEF Quiet, HandInv, AssignedNow, ReceiptsFromAdmittingBoot, StoppedUnassigned, Of
<1>7. ASSUME NEW i \in Intents, NEW m \in Ack, AcknowledgeAssignment(i, m)
      PROVE  HandInv'
  <2>1. /\ Quiet /\ UNCHANGED <<work, stops, boot, born>>
        /\ attempts[i].state = "assigned" /\ dispatches[i] # None /\ m.daemonBoot = boot
        /\ acks'[i] = m
        /\ \A j \in Intents : j # i => acks'[j] = acks[j]
    BY <1>7 DEF AcknowledgeAssignment, Deliverable, Quiet, attemptVars, DispatchTypeOK
  <2>2. ReceiptsFromAdmittingBoot'
    BY <2>1 DEF Quiet, HandInv, AssignedNow, ReceiptsFromAdmittingBoot
  <2>3. QED
    BY <2>1, <2>2 DEF Quiet, HandInv, HeldIsActive, Active, AssignedNow, StoppedUnassigned, Of
<1>8. ASSUME NEW i \in Intents, RunnerStep(i) \/ Fence(i)
      PROVE  HandInv'
  <2>1. Quiet /\ UNCHANGED <<acks, stops, boot, born>>
        /\ \A j \in Intents : work'[j] \in {"holding", "live"} => work[j] \in {"holding", "live"}
    BY <1>8 DEF RunnerStep, Fence, Quiet, attemptVars, DispatchTypeOK
  <2>2. QED
    BY <2>1 DEF Quiet, HandInv, HeldIsActive, AssignedNow, ReceiptsFromAdmittingBoot,
                StoppedUnassigned, Of, Active
<1>9. CASE \/ UNCHANGED dispatchVars
           \/ UNCHANGED vars
           \/ \E r \in Runners, f \in FactSet : PublishEligibility(r, f)
           \/ \E r \in Runners, to \in {"enabled", "disabled", "revoked"} : UpdateRunner(r, to)
           \/ RegisterRepository
  <2>1. Quiet /\ UNCHANGED <<acks, stops, boot, born, work>>
    BY <1>9 DEF vars, dispatchVars, attemptVars, Quiet, PublishEligibility, UpdateRunner,
                RegisterRepository
  <2>2. QED
    BY <1>5, <2>1
<1>10. QED
  BY <1>1, <1>2, <1>3, <1>4, <1>6, <1>7, <1>8, <1>9 DEF DispatchNext

\* The strengthened invariant of hand-over: what a runner holds belongs to the active
\* attempt, what is assigned was admitted by this daemon start, a stopped task has none.
THEOREM HandInvariance == DispatchSpec => [](DispatchTypeOK /\ AttemptInv /\ HandInv)
<1>1. DispatchInit => HandInv
  BY DEF DispatchInit, HandInv, HeldIsActive, AssignedNow, ReceiptsFromAdmittingBoot,
         StoppedUnassigned
<1>2. DispatchTypeOK /\ AttemptInv /\ HandInv /\ [DispatchNext]_vars => HandInv'
  BY HandStep
<1>3. QED
  BY <1>1, <1>2, AttemptInvariance, PTL DEF DispatchSpec

\* No two runners hold or run an assignment at once: the slot of an attempt that was
\* delivered comes free only when the owner has fenced its launch.
THEOREM WorkNeverOverlaps == DispatchSpec => []NoOverlappingWork
<1>1. AttemptInv /\ HandInv => NoOverlappingWork
  BY DEF AttemptInv, HandInv, HeldIsActive, OneActiveAttempt, NoOverlappingWork
<1>2. QED
  BY <1>1, HandInvariance, PTL

\* AcknowledgeAssignment never stores a receipt for an attempt of an earlier daemon start.
THEOREM ReceiptsOfThisBoot == DispatchSpec => []ReceiptsFromAdmittingBoot
<1>1. HandInv => ReceiptsFromAdmittingBoot
  BY DEF HandInv
<1>2. QED
  BY <1>1, HandInvariance, PTL

-----------------------------------------------------------------------------
(* What no step may do. *)

\* A step that stores no receipt for an attempt and puts it into no runner's hands.
NotHanded(i) == acks'[i] = acks[i] /\ (work[i] = "idle" => work'[i] # "holding")

\* The steps that do so find everything Deliverable checks.
LEMMA HandingStep ==
    ASSUME DispatchTypeOK, [DispatchNext]_vars, NEW i \in Intents
    PROVE  Deliverable(i) \/ NotHanded(i)
<1>1. ASSUME NEW j \in Intents, Delivery(j)
      PROVE  Deliverable(i) \/ NotHanded(i)
  <2>1. Deliverable(j) /\ acks' = acks /\ (j # i => work'[i] = work[i])
    BY <1>1 DEF Delivery, DispatchTypeOK
  <2>2. QED
    BY <2>1 DEF NotHanded
<1>2. ASSUME NEW j \in Intents, NEW m \in Ack, AcknowledgeAssignment(j, m)
      PROVE  Deliverable(i) \/ NotHanded(i)
  <2>1. Deliverable(j) /\ work' = work /\ (j # i => acks'[i] = acks[i])
    BY <1>2 DEF AcknowledgeAssignment, DispatchTypeOK
  <2>2. QED
    BY <2>1 DEF NotHanded
<1>3. ASSUME NEW j \in Intents, RunnerStep(j) \/ Fence(j)
      PROVE  NotHanded(i)
  BY <1>3 DEF RunnerStep, Fence, DispatchTypeOK, NotHanded
<1>4. UNCHANGED <<acks, work>> => NotHanded(i)
  BY DEF NotHanded
<1>5. ASSUME NEW j \in Intents, NEW t \in Tasks, NEW g \in GrantIds, NEW e \in Envelopes,
             NEW want \in Allowances, Admit(j, t, g, e, want)
      PROVE  NotHanded(i)
  BY <1>4, <1>5 DEF Admit
<1>6. CASE \/ UNCHANGED dispatchVars
           \/ UNCHANGED vars
           \/ \E r \in Runners, f \in FactSet : PublishEligibility(r, f)
           \/ \E r \in Runners, to \in {"enabled", "disabled", "revoked"} : UpdateRunner(r, to)
           \/ RegisterRepository
           \/ Restart
           \/ \E t \in Tasks : StopDispatch(t)
           \/ \E j \in Intents, to \in Terminal, n \in Positive : ReconcileDispatch(j, to, n)
  BY <1>4, <1>6 DEF vars, dispatchVars, PublishEligibility, UpdateRunner, RegisterRepository,
                    Restart, ReconcileDispatch, StopDispatch
<1>7. QED
  BY <1>1, <1>2, <1>3, <1>5, <1>6 DEF DispatchNext

\* Delivery and acknowledgement look for the invalidation of the grant in their own
\* transaction: once it is there, nothing of the dispatch is handed out.
THEOREM InvalidationStops == DispatchSpec => InvalidatedGrantHandsNothing
<1>1. DispatchTypeOK /\ [DispatchNext]_vars =>
        [\A i \in Intents : dispatches[i] # None /\ signals[dispatches[i].grant] # "none" =>
          /\ acks'[i] = acks[i]
          /\ work[i] = "idle" => work'[i] # "holding"
        ]_vars
  <2> SUFFICES ASSUME DispatchTypeOK, DispatchNext, NEW i \in Intents,
                      signals[dispatches[i].grant] # "none"
               PROVE  NotHanded(i)
    BY DEF NotHanded
  <2>1. ~ Deliverable(i)
    BY DEF Deliverable, DispatchAllowed, CheckExecution, Live
  <2>2. QED
    BY <2>1, HandingStep
<1>2. QED
  BY <1>1, DispatchTypes, PTL DEF DispatchSpec, InvalidatedGrantHandsNothing

\* Delivery and acknowledgement read facts, profile and runner again, so an assignment
\* that was admitted on what has since changed stays in the outbox.
THEOREM StaleFactsStop == DispatchSpec => NothingHandedOnStaleFacts
<1>1. DispatchTypeOK /\ [DispatchNext]_vars =>
        [\A i \in Intents : dispatches[i] # None =>
          LET made == DecisionOf(dispatches[i].envelope) IN
          \/ facts[made.runner] = made.facts /\ made.facts.profile = profile
             /\ runners[made.runner] = "enabled"
          \/ acks'[i] = acks[i] /\ (work[i] = "idle" => work'[i] # "holding")
        ]_vars
  <2> SUFFICES ASSUME DispatchTypeOK, DispatchNext, NEW i \in Intents, ~ NotHanded(i)
               PROVE  LET made == DecisionOf(dispatches[i].envelope) IN
                      facts[made.runner] = made.facts /\ made.facts.profile = profile
                        /\ runners[made.runner] = "enabled"
    BY DEF NotHanded
  <2>1. Deliverable(i)
    BY HandingStep
  <2>2. QED
    BY <2>1 DEF Deliverable, CheckDispatch, Placement
<1>2. QED
  BY <1>1, DispatchTypes, PTL DEF DispatchSpec, NothingHandedOnStaleFacts

\* No transaction deletes a stop.
LEMMA StopsGrow ==
    ASSUME [DispatchNext]_vars
    PROVE  stops \subseteq stops'
<1>1. ASSUME NEW i \in Intents
      PROVE  /\ Delivery(i) \/ RunnerStep(i) \/ Fence(i) => stops' = stops
             /\ \A m \in Ack : AcknowledgeAssignment(i, m) => stops' = stops
             /\ \A to \in Terminal, n \in Positive : ReconcileDispatch(i, to, n) => stops' = stops
             /\ \A t \in Tasks, g \in GrantIds, e \in Envelopes, want \in Allowances :
                   Admit(i, t, g, e, want) => stops' = stops
  BY DEF Delivery, RunnerStep, Fence, AcknowledgeAssignment, ReconcileDispatch, Admit
<1>2. \A t \in Tasks : StopDispatch(t) => stops \subseteq stops'
  BY DEF StopDispatch
<1>3. \/ UNCHANGED dispatchVars \/ UNCHANGED vars \/ RegisterRepository \/ Restart
      \/ \E r \in Runners, f \in FactSet : PublishEligibility(r, f)
      \/ \E r \in Runners, to \in {"enabled", "disabled", "revoked"} : UpdateRunner(r, to)
      => stops' = stops
  BY DEF dispatchVars, vars, RegisterRepository, Restart, PublishEligibility, UpdateRunner
<1>4. QED
  BY <1>1, <1>2, <1>3 DEF DispatchNext

\* StopDispatch is final for its task: Dispatch, delivery and AcknowledgeAssignment find
\* the latch in their own transaction, and no restart takes it away.
THEOREM StopsStick == DispatchSpec => StopIsSticky
<1>1. DispatchTypeOK /\ AttemptInv /\ HandInv /\ [DispatchNext]_vars =>
        [\A t \in stops : t \in stops' /\ Of(t)' = Of(t) /\ \A i \in Of(t) :
          /\ attempts[i].state # "assigned"
          /\ acks'[i] = acks[i]
          /\ work[i] = "idle" => work'[i] # "holding"
        ]_vars
  <2> SUFFICES ASSUME DispatchTypeOK, AttemptInv, HandInv, DispatchNext, NEW t \in stops
               PROVE  t \in stops' /\ Of(t)' = Of(t) /\ \A i \in Of(t) :
                        /\ attempts[i].state # "assigned"
                        /\ acks'[i] = acks[i]
                        /\ work[i] = "idle" => work'[i] # "holding"
    OBVIOUS
  <2>1. ASSUME NEW i \in Intents, NEW u \in Tasks, NEW g \in GrantIds, NEW e \in Envelopes,
               NEW want \in Allowances, Admit(i, u, g, e, want)
        PROVE  stops' = stops /\ Of(t)' = Of(t)
    <3>1. PICK row \in Row : row.task = u /\ dispatches' = [dispatches EXCEPT ![i] = row]
      BY <2>1, AdmitWrites
    <3>2. u \notin stops /\ stops' = stops /\ dispatches[i] = None
      BY <2>1 DEF Admit, DispatchAllowed
    <3>3. dispatches'[i] = row /\ \A j \in Intents : j # i => dispatches'[j] = dispatches[j]
      BY <3>1 DEF DispatchTypeOK
    <3>4. QED
      BY <3>1, <3>2, <3>3 DEF Of
  <2>2. dispatches' = dispatches => Of(t)' = Of(t)
    BY DEF Of
  <2>3. ASSUME NEW i \in Of(t)
        PROVE  attempts[i].state # "assigned" /\ NotHanded(i)
    <3>1. i \in Intents /\ attempts[i].state # "assigned"
      BY DEF Of, HandInv, StoppedUnassigned
    <3>2. ~ Deliverable(i)
      BY <3>1 DEF Deliverable
    <3>3. QED
      BY <3>1, <3>2, HandingStep
  <2>4. (\E i \in Intents, u \in Tasks, g \in GrantIds, e \in Envelopes, want \in Allowances :
            Admit(i, u, g, e, want)) \/ dispatches' = dispatches
    BY QuietSteps DEF StopDispatch, Restart, ReconcileDispatch, Quiet
  <2>5. Of(t)' = Of(t)
    BY <2>1, <2>2, <2>4
  <2>6. QED
    BY <2>3, <2>5, StopsGrow DEF NotHanded
<1>2. QED
  BY <1>1, HandInvariance, PTL DEF DispatchSpec, StopIsSticky

-----------------------------------------------------------------------------
(* The store implements the slot. *)

Spent == {<<i, dispatches[i].task>> : i \in {j \in Intents : dispatches[j] # None}}

\* With at most one active attempt the slot's occupant is that attempt.
LEMMA OccupantFacts ==
    ASSUME OneActiveAttempt
    PROVE  /\ \A i \in Intents : Active(i) => Occupant = i
           /\ (\A i \in Intents : ~ Active(i)) => Occupant = None
  BY DEF Occupant, OneActiveAttempt

\* The same of the next state.
LEMMA NextOccupantFacts ==
    ASSUME OneActiveAttempt'
    PROVE  /\ \A i \in Intents : Active(i)' => Occupant' = i
           /\ (\A i \in Intents : ~ Active(i)') => Occupant' = None
  BY DEF Occupant, OneActiveAttempt

\* A step after which the same attempts are active leaves the occupant.
LEMMA OccupantKept ==
    ASSUME OneActiveAttempt, OneActiveAttempt', \A i \in Intents : Active(i)' <=> Active(i)
    PROVE  Occupant' = Occupant
<1>1. CASE \E i \in Intents : Active(i)
  BY <1>1, OccupantFacts, NextOccupantFacts
<1>2. CASE \A i \in Intents : ~ Active(i)
  BY <1>2, OccupantFacts, NextOccupantFacts
<1>3. QED
  BY <1>1, <1>2

\* Every transaction is a step of the slot, or none.
LEMMA SlotStep ==
    ASSUME DispatchTypeOK, AttemptInv, AttemptInv', [DispatchNext]_vars
    PROVE  [Slot!Next]_(Slot!slotVars)
<1>1. OneActiveAttempt /\ OneActiveAttempt'
  BY DEF AttemptInv
<1>2. ASSUME NEW i \in Intents, NEW t \in Tasks, NEW g \in GrantIds, NEW e \in Envelopes,
             NEW want \in Allowances, Admit(i, t, g, e, want)
      PROVE  Slot!Admit(i, t)
  <2>1. PICK row \in Row : row.task = t /\ dispatches' = [dispatches EXCEPT ![i] = row]
    BY <1>2, AdmitWrites
  <2>2. /\ dispatches[i] = None /\ t \notin stops /\ row # None
        /\ dispatches'[i] = row /\ attempts'[i].state = "assigned"
        /\ \A j \in Intents : j # i => dispatches'[j] = dispatches[j]
        /\ acks' = acks /\ stops' = stops
        /\ \A j \in Intents : ~ Active(j)
    BY <1>2, <2>1, NoRowAssumption
    DEF Admit, DispatchAllowed, DispatchTypeOK, Reserve, SlotFree
  <2>3. Occupant = None /\ Occupant' = i
    BY <1>1, <2>2, OccupantFacts, NextOccupantFacts DEF Active, Terminal
  <2>4. Spent' = Spent \cup {<<i, t>>} /\ \A u \in Tasks : <<i, u>> \notin Spent
    BY <2>1, <2>2 DEF Spent
  <2>5. QED
    BY <2>2, <2>3, <2>4 DEF Slot!Admit, Spent
<1>3. ASSUME NEW i \in Intents, NEW m \in Ack, AcknowledgeAssignment(i, m)
      PROVE  Slot!Next
  <2>1. /\ dispatches[i] # None /\ attempts[i].state = "assigned" /\ dispatches[i].task \notin stops
        /\ acks'[i] # None /\ \A j \in Intents : j # i => acks'[j] = acks[j]
        /\ UNCHANGED <<dispatches, attempts, stops>>
        /\ dispatches[i].task \in Tasks
    BY <1>3, NoRowAssumption
    DEF AcknowledgeAssignment, Deliverable, DispatchAllowed, DispatchTypeOK, attemptVars, Row
  <2>2. Occupant = i /\ Occupant' = Occupant
    BY <1>1, <2>1, OccupantFacts, OccupantKept DEF Active, Terminal
  <2>3. Spent' = Spent /\ <<i, dispatches[i].task>> \in Spent
    BY <2>1 DEF Spent
  <2>4. {j \in Intents : acks'[j] # None} = {j \in Intents : acks[j] # None} \cup {i}
    BY <2>1
  <2>5. PICK t \in Tasks : t = dispatches[i].task
    BY <2>1
  <2>6. Slot!Hand(i, t)
    BY <2>1, <2>2, <2>3, <2>4, <2>5 DEF Slot!Hand, Spent
  <2>7. QED
    BY <2>6 DEF Slot!Next
<1>4. ASSUME NEW t \in Tasks, StopDispatch(t)
      PROVE  Slot!Stop(t)
  <2>1. Moves(Stoppable(t), "stopping") /\ stops' = stops \cup {t} /\ acks' = acks
    BY <1>4, StopMoves DEF StopDispatch
  <2>2. \A i \in Intents : Active(i)' <=> Active(i)
    BY <2>1, MovesEffect, AttemptStates DEF Stoppable, Active, Terminal
  <2>3. Occupant' = Occupant /\ dispatches' = dispatches
    BY <1>1, <2>1, <2>2, OccupantKept DEF Moves
  <2>4. QED
    BY <2>1, <2>3 DEF Slot!Stop
<1>5. ASSUME NEW i \in Intents, NEW to \in Terminal, NEW n \in Positive,
             ReconcileDispatch(i, to, n)
      PROVE  Slot!Release
  <2>1. Moves({i}, to) /\ to \in AttemptState /\ UNCHANGED <<stops, acks, dispatches>>
    BY <1>5, ReconcileMoves, AttemptStates DEF ReconcileDispatch
  <2>2. Active(i)
    <3>1. attempts[i].state \in {"stopping", "unknown"}
      BY <1>5, EdgeFacts, ReconcileMoves DEF Moves
    <3>2. QED
      BY <3>1 DEF Active, Terminal
  <2>3. \A j \in Intents : ~ Active(j)'
    BY <1>1, <2>1, <2>2, MovesEffect DEF OneActiveAttempt, Active
  <2>4. Occupant = i /\ Occupant' = None /\ i # None
    BY <1>1, <2>2, <2>3, OccupantFacts, NextOccupantFacts, IntentsAssumption
  <2>5. QED
    BY <2>1, <2>4 DEF Slot!Release
<1>6. ASSUME UNCHANGED <<dispatches, acks, stops>>, \A i \in Intents : Active(i)' <=> Active(i)
      PROVE  UNCHANGED Slot!slotVars
  BY <1>1, <1>6, OccupantKept DEF Slot!slotVars
<1>7. CASE Restart
  <2>1. Moves(UnderWay, "unknown") /\ UNCHANGED <<dispatches, acks, stops>>
    BY <1>7, RestartMoves DEF Restart
  <2>2. \A i \in Intents : Active(i)' <=> Active(i)
    BY <2>1, MovesEffect, AttemptStates DEF UnderWay, Working, Active, Terminal
  <2>3. QED
    BY <1>6, <2>1, <2>2
<1>8. CASE \/ UNCHANGED dispatchVars
           \/ UNCHANGED vars
           \/ \E i \in Intents : Delivery(i) \/ RunnerStep(i) \/ Fence(i)
           \/ \E r \in Runners, f \in FactSet : PublishEligibility(r, f)
           \/ \E r \in Runners, to \in {"enabled", "disabled", "revoked"} : UpdateRunner(r, to)
           \/ RegisterRepository
  <2>1. UNCHANGED <<dispatches, attempts, acks, stops>>
    BY <1>8 DEF vars, dispatchVars, attemptVars, Delivery, RunnerStep, Fence, PublishEligibility,
                UpdateRunner, RegisterRepository
  <2>2. QED
    BY <1>6, <2>1 DEF Active
<1>9. CASE \E i \in Intents, t \in Tasks, g \in GrantIds, e \in Envelopes, want \in Allowances :
              Admit(i, t, g, e, want)
  BY <1>2, <1>9 DEF Slot!Next
<1>10. CASE \E i \in Intents, m \in Ack : AcknowledgeAssignment(i, m)
  BY <1>3, <1>10
<1>11. CASE \/ \E t \in Tasks : StopDispatch(t)
            \/ \E i \in Intents, to \in Terminal, n \in Positive : ReconcileDispatch(i, to, n)
  BY <1>4, <1>5, <1>11 DEF Slot!Next
<1>12. QED
  BY <1>7, <1>8, <1>9, <1>10, <1>11 DEF DispatchNext

\* Whatever its tables, restarts and message deliveries, the admission store is one slot:
\* taken once per intent, handed to its holder, refused to stopped tasks.
THEOREM DispatchImplementsSlot == DispatchSpec => SlotSpec
<1>1. DispatchInit => Slot!Init
  <2> SUFFICES ASSUME DispatchInit PROVE Slot!Init
    OBVIOUS
  <2>1. \A i \in Intents : dispatches[i] = None /\ acks[i] = None /\ ~ Active(i)
    BY DEF DispatchInit, Active
  <2>2. Occupant = None
    BY <2>1 DEF Occupant
  <2>3. QED
    BY <2>1, <2>2 DEF DispatchInit, Slot!Init
<1>2. DispatchTypeOK /\ AttemptInv /\ AttemptInv' /\ [DispatchNext]_vars
        => [Slot!Next]_(Slot!slotVars)
  BY SlotStep
<1>3. QED
  BY <1>1, <1>2, AttemptInvariance, PTL DEF DispatchSpec, SlotSpec, Slot!Spec

\* One attempt is unresolved and one runner holds work, at any time.
THEOREM WorkersAreSingle == DispatchSpec => []OneWorker
BY SlotIsSingle, WorkNeverOverlaps, PTL DEF OneWorker

\* State, release, events, revision and receipt of every attempt agree.
THEOREM RowsTell == DispatchSpec => []RowsAgree
BY ReleaseIsTerminal, EventsRecorded, RevisionsAreBounded, ReceiptsOfThisBoot, PTL DEF RowsAgree

\* Nothing is handed out on ended authority or on replaced facts.
THEOREM StaleNeverHanded == DispatchSpec => NothingStaleHanded
BY InvalidationStops, StaleFactsStop DEF NothingStaleHanded

-----------------------------------------------------------------------------
(* Sums over finite sets. *)

\* A set of naturals has a least member: induction, for provers that cannot take an
\* operator as the parameter of a theorem.
LEMMA LeastNatural ==
    ASSUME NEW T \in SUBSET Nat, T # {}
    PROVE  \E n \in T : \A m \in T : n <= m
<1> DEFINE R == OpToRel(<, Nat)
<1>1. PICK n \in T : \A m \in T : <<m, n>> \notin R
  <2> HIDE DEF R
  <2>1. IsWellFoundedOn(R, Nat)
    BY NatLessThanWellFounded DEF R
  <2>2. QED
    BY <2>1, WFMin
<1>2. ASSUME NEW m \in T, m < n PROVE FALSE
  <2>1. <<m, n>> \in Nat \X Nat /\ <<m, n>>[1] = m /\ <<m, n>>[2] = n
    OBVIOUS
  <2>2. <<m, n>> \in R
    BY <1>2, <2>1 DEF OpToRel
  <2>3. QED
    BY <1>1, <2>2
<1>3. QED
  BY <1>2

\* f gives every subset of S the sum of the weights of its members.
Adds(f, w, S) ==
    /\ f \in [SUBSET S -> Nat]
    /\ f[{}] = 0
    /\ \A s \in SUBSET S : \A x \in s : f[s] = f[s \ {x}] + w[x]

\* One more weighted element extends the sums.
LEMMA AdditiveExtends ==
    ASSUME NEW S, NEW x, x \notin S, NEW w, \A y \in S \cup {x} : w[y] \in Nat, NEW f, Adds(f, w, S)
    PROVE  \E g : Adds(g, w, S \cup {x})
<1> DEFINE g == [s \in SUBSET (S \cup {x}) |-> IF x \in s THEN f[s \ {x}] + w[x] ELSE f[s]]
<1>0. ASSUME NEW s \in SUBSET (S \cup {x})
      PROVE  /\ s \ {x} \in SUBSET S /\ f[s \ {x}] \in Nat
             /\ x \in s => g[s] = f[s \ {x}] + w[x]
             /\ x \notin s => s \ {x} = s /\ g[s] = f[s]
  BY DEF Adds
<1>1. g \in [SUBSET (S \cup {x}) -> Nat]
  <2>1. \A s \in SUBSET (S \cup {x}) : (IF x \in s THEN f[s \ {x}] + w[x] ELSE f[s]) \in Nat
    BY <1>0 DEF Adds
  <2>2. QED
    BY <2>1
<1>2. g[{}] = 0
  BY DEF Adds
<1>3. ASSUME NEW s \in SUBSET (S \cup {x}), NEW y \in s
      PROVE  g[s] = g[s \ {y}] + w[y]
  <2>1. CASE y = x
    BY <1>0, <2>1
  <2>2. CASE y # x /\ x \notin s
    BY <1>0, <2>2 DEF Adds
  <2>3. CASE y # x /\ x \in s
    <3>1. g[s] = f[s \ {x}] + w[x] /\ g[s \ {y}] = f[(s \ {y}) \ {x}] + w[x]
      BY <1>0, <2>3
    <3>2. y \in s \ {x} /\ (s \ {y}) \ {x} = (s \ {x}) \ {y} /\ y \in S
      BY <2>3
    <3>3. f[s \ {x}] = f[(s \ {x}) \ {y}] + w[y]
      BY <3>2, <1>0 DEF Adds
    <3>4. f[(s \ {x}) \ {y}] \in Nat /\ w[y] \in Nat
      <4>1. (s \ {x}) \ {y} \in SUBSET S
        OBVIOUS
      <4>2. QED BY <4>1, <3>2 DEF Adds
    <3>5. f[(s \ {y}) \ {x}] = f[(s \ {x}) \ {y}] /\ w[x] \in Nat
      BY <3>2
    <3>6. (f[(s \ {x}) \ {y}] + w[y]) + w[x] = (f[(s \ {x}) \ {y}] + w[x]) + w[y]
      BY <3>4, <3>5
    <3>7. QED
      <4> HIDE DEF g
      <4> QED BY <3>1, <3>3, <3>5, <3>6
  <2>4. QED BY <2>1, <2>2, <2>3
<1>4. Adds(g, w, S \cup {x})
  <2> HIDE DEF g
  <2> QED BY <1>1, <1>2, <1>3 DEF Adds
<1>5. QED
  BY <1>4

\* Every finite set of weighted elements has its sums.
LEMMA AdditiveExists ==
    ASSUME NEW S, IsFiniteSet(S), NEW w, \A y \in S : w[y] \in Nat
    PROVE  \E f : Adds(f, w, S)
<1> DEFINE Bad == {T \in FiniteSubsetsOf(S) : ~ \E f : Adds(f, w, T)}
<1>1. ASSUME Bad # {} PROVE FALSE
  <2>1. PICK T \in Bad : \A U \in Bad : <<U, T>> \notin StrictSubsetOrdering(S)
    <3> HIDE DEF Bad
    <3>1. Bad \subseteq FiniteSubsetsOf(S)
      BY DEF Bad
    <3>2. QED
      BY <1>1, <3>1, FS_StrictSubsetOrderingWellFounded, WFMin
  <2>2. T # {}
    <3>1. Adds([s \in SUBSET {} |-> 0], w, {})
      BY DEF Adds
    <3>2. QED BY <3>1
  <2>3. PICK x \in T : TRUE
    BY <2>2
  <2>4. T \in SUBSET S /\ IsFiniteSet(T) /\ T \ {x} \in SUBSET S /\ IsFiniteSet(T \ {x})
    BY FS_RemoveElement DEF FiniteSubsetsOf
  <2>5. <<T \ {x}, T>> \in StrictSubsetOrdering(S)
    BY <2>3, <2>4 DEF StrictSubsetOrdering
  <2>6. PICK f : Adds(f, w, T \ {x})
    BY <2>1, <2>4, <2>5 DEF FiniteSubsetsOf
  <2>7. (T \ {x}) \cup {x} = T /\ x \notin T \ {x}
    BY <2>3
  <2>8. \E g : Adds(g, w, T)
    BY <2>4, <2>6, <2>7, AdditiveExtends
  <2>9. QED
    BY <2>8
<1>2. S \in FiniteSubsetsOf(S)
  BY DEF FiniteSubsetsOf
<1>3. QED
  BY <1>1, <1>2

\* The fold of FiniteSetsExt picks some order of the set; the sum does not depend on it.
LEMMA SummedIsAdditive ==
    ASSUME NEW S, IsFiniteSet(S), NEW w, \A y \in S : w[y] \in Nat,
           NEW f, Adds(f, w, S)
    PROVE  Summed(w, S) = f[S]
<1> DEFINE choose(s) == CHOOSE x \in s : TRUE
           Body(g) == [s \in SUBSET S |-> IF s = {} THEN 0 ELSE w[choose(s)] + g[s \ {choose(s)}]]
           h == CHOOSE g : g = Body(g)
<1>1. Summed(w, S) = h[S]
  BY DEF Summed, MapThenSumSet, MapThenFoldSet
<1>2. f = Body(f)
  <2>1. ASSUME NEW s \in SUBSET S PROVE f[s] = Body(f)[s]
    <3>1. CASE s = {}
      BY <3>1 DEF Adds
    <3>2. CASE s # {}
      <4>1. choose(s) \in s
        BY <3>2
      <4>2. f[s] = f[s \ {choose(s)}] + w[choose(s)]
        BY <4>1 DEF Adds
      <4>3. f[s \ {choose(s)}] \in Nat /\ w[choose(s)] \in Nat
        <5>1. s \ {choose(s)} \in SUBSET S
          OBVIOUS
        <5>2. QED BY <4>1, <5>1 DEF Adds
      <4>4. Body(f)[s] = w[choose(s)] + f[s \ {choose(s)}]
        BY <3>2
      <4> HIDE DEF choose, Body
      <4>5. QED BY <4>2, <4>3, <4>4
    <3>3. QED BY <3>1, <3>2
  <2>2. DOMAIN f = SUBSET S /\ f = [s \in DOMAIN f |-> f[s]]
    BY DEF Adds
  <2>3. QED
    BY <2>1, <2>2
<1>3. h = Body(h)
  <2> HIDE DEF Body
  <2>1. QED BY <1>2
<1>4. ASSUME h[S] # f[S] PROVE FALSE
  <2> DEFINE Bad == {s \in SUBSET S : h[s] # f[s]}
  <2> HIDE DEF h, choose
  <2>1. PICK s \in Bad : \A u \in Bad : <<u, s>> \notin StrictSubsetOrdering(S)
    <3>1. Bad \subseteq FiniteSubsetsOf(S) /\ Bad # {}
      BY <1>4, FS_FiniteSubsetsOfFinite
    <3> HIDE DEF Bad
    <3>2. QED
      BY <3>1, FS_StrictSubsetOrderingWellFounded, WFMin
  <2>2. s \in SUBSET S /\ h[s] # f[s] /\ h[s] = Body(h)[s] /\ f[s] = Body(f)[s]
    <3>1. s \in SUBSET S /\ h[s] # f[s]
      OBVIOUS
    <3>2. QED
      <4> HIDE DEF Body
      <4> QED BY <3>1, <1>2, <1>3
  <2>3. s # {}
    BY <2>2
  <2>4. choose(s) \in s
    BY <2>3 DEF choose
  <2>5. s \ {choose(s)} \in SUBSET S /\ <<s \ {choose(s)}, s>> \in StrictSubsetOrdering(S)
    BY <2>4, <2>2 DEF StrictSubsetOrdering
  <2>6. h[s \ {choose(s)}] = f[s \ {choose(s)}]
    BY <2>1, <2>5
  <2>7. QED
    BY <2>2, <2>3, <2>6
<1>5. QED
  <2> HIDE DEF h
  <2> QED BY <1>1, <1>4

\* A set that gains an element gains its weight.
LEMMA SummedGrows ==
    ASSUME NEW S, IsFiniteSet(S), NEW x, x \notin S, NEW v, NEW w,
           \A y \in S : v[y] = w[y] /\ w[y] \in Nat, w[x] \in Nat
    PROVE  /\ Summed(v, S) \in Nat
           /\ Summed(w, S \cup {x}) = Summed(v, S) + w[x]
<1>1. IsFiniteSet(S \cup {x})
  BY FS_AddElement
<1>2. PICK g : Adds(g, w, S \cup {x})
  BY <1>1, AdditiveExists
<1> DEFINE f == [s \in SUBSET S |-> g[s]]
<1>3. Adds(f, v, S)
  <2>1. \A s \in SUBSET S : s \in SUBSET (S \cup {x}) /\ g[s] \in Nat
    BY <1>2 DEF Adds
  <2>2. f \in [SUBSET S -> Nat] /\ f[{}] = 0
    BY <1>2, <2>1 DEF Adds
  <2>3. ASSUME NEW s \in SUBSET S, NEW y \in s
        PROVE  f[s] = f[s \ {y}] + v[y]
    <3>1. g[s] = g[s \ {y}] + w[y]
      BY <1>2, <2>1 DEF Adds
    <3>2. f[s] = g[s] /\ f[s \ {y}] = g[s \ {y}] /\ w[y] = v[y]
      OBVIOUS
    <3>3. QED
      BY <3>1, <3>2
  <2>4. QED
    BY <2>2, <2>3 DEF Adds
<1>4. Summed(v, S) = f[S] /\ Summed(w, S \cup {x}) = g[S \cup {x}]
  BY <1>1, <1>2, <1>3, SummedIsAdditive
<1>5. f[S] = g[S] /\ f[S] \in Nat
  BY <1>3 DEF Adds
<1>6. g[S \cup {x}] = g[S] + w[x]
  <2>1. (S \cup {x}) \ {x} = S
    OBVIOUS
  <2>2. QED
    BY <1>2, <2>1 DEF Adds
<1>7. QED
  BY <1>4, <1>5, <1>6

-----------------------------------------------------------------------------
(* Admission of one more attempt of a task. *)

\* What Admit does to the rows of its task, in the terms the accounts are kept in.
AddsRow(i, t) ==
    /\ i \in Intents /\ t \in Tasks
    /\ dispatches[i] = None
    /\ dispatches'[i] \in Row /\ dispatches'[i] # None /\ dispatches'[i].task = t
    /\ \A j \in Intents : j # i => dispatches'[j] = dispatches[j]

\* A grant, once written, is never rewritten.
GrantRowsStay == \A g \in GrantIds : grants[g] # None => grants'[g] = grants[g]

\* No grant transaction touches a row already written: approval and restriction append.
LEMMA GrantRowsAreKept ==
    ASSUME GrantTypeOK, [GrantNext]_grantVars
    PROVE  GrantRowsStay
<1>1. ASSUME NEW id \in GrantIds, NEW t \in Tasks, NEW n \in Positive, NEW a \in Actors,
             NEW e \in Envelopes, NEW g, g = [task |-> t, revision |-> n, actor |-> a, envelope |-> e],
             ApproveFirst(id, g) \/ ApproveNext(id, g) \/ RestrictExecution(id, g)
      PROVE  GrantRowsStay
  <2>1. grants[id] = None /\ grants' = [grants EXCEPT ![id] = g]
    BY <1>1 DEF ApproveFirst, ApproveNext, RestrictExecution, Supersede, Install
  <2>2. QED
    BY <2>1 DEF GrantRowsStay, GrantTypeOK
<1>2. CASE \/ \E t \in Tasks, reason \in {"revoked", "superseded"} : InvalidateExecution(t, reason)
           \/ LatchExpiry \/ ClockMoves \/ UNCHANGED grantVars
  BY <1>2 DEF InvalidateExecution, LatchExpiry, ClockMoves, grantVars, grantRows, GrantRowsStay
<1>3. QED
  BY <1>1, <1>2 DEF GrantNext

\* Only admission writes a dispatch row, and it writes one.
LEMMA AdmitOrKeep ==
    ASSUME DispatchTypeOK, [DispatchNext]_vars
    PROVE  \/ \E i \in Intents, t \in Tasks, g \in GrantIds, e \in Envelopes, want \in Allowances :
                 Admit(i, t, g, e, want)
           \/ dispatches' = dispatches
  BY QuietSteps DEF StopDispatch, Restart, ReconcileDispatch, Quiet

\* Admission writes one row of its task, at the next epoch, on the named grant.
LEMMA AdmitAdds ==
    ASSUME DispatchTypeOK, NEW i \in Intents, NEW t \in Tasks, NEW g \in GrantIds,
           NEW e \in Envelopes, NEW want \in Allowances, Admit(i, t, g, e, want)
    PROVE  /\ AddsRow(i, t)
           /\ \E n \in Positive :
                 /\ NextEpoch(t, n)
                 /\ dispatches'[i] = [task |-> t, grant |-> g, envelope |-> e,
                                      allowance |-> want, epoch |-> n, created |-> now]
<1>1. PICK n \in Positive :
         /\ NextEpoch(t, n)
         /\ dispatches' = [dispatches EXCEPT ![i] =
              [task |-> t, grant |-> g, envelope |-> e, allowance |-> want, epoch |-> n, created |-> now]]
  BY DEF Admit
<1> DEFINE row == [task |-> t, grant |-> g, envelope |-> e, allowance |-> want, epoch |-> n, created |-> now]
<1>2. row \in Row /\ row # None
  BY NoRowAssumption DEF Row, DispatchTypeOK, GrantTypeOK
<1>3. dispatches[i] = None
  BY DEF Admit
<1>4. dispatches'[i] = row /\ \A j \in Intents : j # i => dispatches'[j] = dispatches[j]
  BY <1>1 DEF DispatchTypeOK
<1>5. QED
  BY <1>1, <1>2, <1>3, <1>4 DEF AddsRow

\* A row more is a dispatch more of its task, and leaves every other task alone.
LEMMA OfGrows ==
    ASSUME NEW i, NEW t, AddsRow(i, t)
    PROVE  /\ i \notin Of(t)
           /\ Of(t)' = Of(t) \cup {i}
           /\ \A u \in Tasks : u # t => Of(u)' = Of(u)
           /\ \A u \in Tasks : \A j \in Of(u) : dispatches'[j] = dispatches[j]
  BY DEF AddsRow, Of

-----------------------------------------------------------------------------
(* Epochs. *)

\* Each dispatch names a grant of its own task.
GrantsOfTasks ==
    \A t \in Tasks : \A i \in Of(t) :
        grants[dispatches[i].grant] # None /\ grants[dispatches[i].grant].task = t

FiniteTasks == \A t \in Tasks : IsFiniteSet(Of(t))

EpochInv == GrantsOfTasks /\ FiniteTasks /\ EpochsFollowGrants

\* Admission counts on from the largest epoch of the task.
LEMMA EpochIsNext ==
    ASSUME DispatchTypeOK, EpochInv, NEW t \in Tasks, NEW n \in Positive, NextEpoch(t, n)
    PROVE  n = Cardinality(Of(t)) + 1
<1> DEFINE m == Cardinality(Of(t))
<1>1. m \in Nat /\ n \in Nat /\ n >= 1
  BY FS_CardinalityType, MaxIntegerAssumption DEF EpochInv, FiniteTasks, Positive
<1>2. {dispatches[i].epoch : i \in Of(t)} = 1 .. m
  BY DEF EpochInv, EpochsFollowGrants
<1>3. \A k \in 1 .. m : k < n
  BY <1>2 DEF NextEpoch
<1>4. n = 1 \/ n - 1 \in 1 .. m
  BY <1>2 DEF NextEpoch
<1>5. CASE m = 0
  BY <1>1, <1>4, <1>5
<1>6. CASE m >= 1
  <2>1. m < n
    BY <1>1, <1>3, <1>6
  <2>2. n - 1 \in 1 .. m
    BY <1>1, <1>4, <1>6, <2>1
  <2>3. QED
    BY <1>1, <2>1, <2>2
<1>7. QED
  BY <1>1, <1>5, <1>6

\* No step leaves a gap in the epochs, or runs a later epoch on an older grant: admission
\* is on the head of the task, and no grant is newer than its head.
LEMMA EpochStep ==
    ASSUME DispatchTypeOK, DispatchTypeOK', GrantInv, EpochInv, [DispatchNext]_vars
    PROVE  EpochInv'
<1>1. GrantRowsStay
  BY GrantsStep, GrantRowsAreKept DEF GrantInv
<1>2. \A t \in Tasks : \A i \in Of(t) : i \in Intents /\ dispatches[i] \in Row
  BY DEF DispatchTypeOK, Of
<1>3. \A t \in Tasks : \A i \in Of(t) : grants'[dispatches[i].grant] = grants[dispatches[i].grant]
  BY <1>1, <1>2 DEF EpochInv, GrantsOfTasks, GrantRowsStay, Row
<1>4. CASE dispatches' = dispatches
  <2>1. \A t \in Tasks : Of(t)' = Of(t)
    BY <1>4 DEF Of
  <2>2. GrantsOfTasks' /\ FiniteTasks'
    BY <1>3, <1>4, <2>1 DEF EpochInv, GrantsOfTasks, FiniteTasks
  <2>3. EpochsFollowGrants'
    BY <1>3, <1>4, <2>1 DEF EpochInv, EpochsFollowGrants
  <2>4. QED
    BY <2>2, <2>3 DEF EpochInv
<1>5. ASSUME NEW i \in Intents, NEW t \in Tasks, NEW g \in GrantIds, NEW e \in Envelopes,
             NEW want \in Allowances, Admit(i, t, g, e, want)
      PROVE  EpochInv'
  <2>1. PICK n \in Positive :
           /\ NextEpoch(t, n)
           /\ dispatches'[i] = [task |-> t, grant |-> g, envelope |-> e, allowance |-> want,
                                epoch |-> n, created |-> now]
    BY <1>5, AdmitAdds
  <2>2. AddsRow(i, t)
    BY <1>5, AdmitAdds
  <2>3. /\ i \notin Of(t)
        /\ Of(t)' = Of(t) \cup {i}
        /\ \A u \in Tasks : u # t => Of(u)' = Of(u)
        /\ \A u \in Tasks : \A j \in Of(u) : dispatches'[j] = dispatches[j]
    BY <2>2, OfGrows
  <2>4. grants' = grants /\ heads[t] = g /\ grants[g] # None
    BY <1>5 DEF Admit, DispatchAllowed, CheckExecution, grantRows
  <2>5. grants[g].task = t /\ grants[g] \in Grant
    BY <2>4, NoneAssumption DEF GrantInv, HeadsRetained, GrantTypeOK
  <2>6. GrantsOfTasks'
    BY <2>1, <2>3, <2>4, <2>5 DEF EpochInv, GrantsOfTasks
  <2>7. /\ IsFiniteSet(Of(t)) /\ IsFiniteSet(Of(t) \cup {i})
        /\ Cardinality(Of(t) \cup {i}) = Cardinality(Of(t)) + 1
        /\ Cardinality(Of(t)) \in Nat
    BY <2>3, FS_AddElement, FS_CardinalityType DEF EpochInv, FiniteTasks
  <2>8. FiniteTasks'
    BY <2>3, <2>7 DEF EpochInv, FiniteTasks
  <2>9. n = Cardinality(Of(t)) + 1
    BY <2>1, EpochIsNext
  <2>10. ASSUME NEW u \in Tasks
         PROVE  {dispatches'[j].epoch : j \in Of(u)'} = 1 .. Cardinality(Of(u)')
    <3>1. CASE u # t
      BY <2>3, <3>1 DEF EpochInv, EpochsFollowGrants
    <3>2. CASE u = t
      <4> DEFINE m == Cardinality(Of(t))
      <4>1. {dispatches'[j].epoch : j \in Of(t) \cup {i}} = {dispatches[j].epoch : j \in Of(t)} \cup {m + 1}
        BY <2>1, <2>3, <2>9
      <4>2. {dispatches[j].epoch : j \in Of(t)} = 1 .. m
        BY DEF EpochInv, EpochsFollowGrants
      <4>3. 1 .. m + 1 = (1 .. m) \cup {m + 1}
        BY <2>7
      <4>4. QED
        BY <2>3, <2>7, <3>2, <4>1, <4>2, <4>3
    <3>3. QED
      BY <3>1, <3>2
  <2>11. ASSUME NEW u \in Tasks, NEW j \in Of(u)', NEW k \in Of(u)',
                dispatches'[j].epoch < dispatches'[k].epoch
         PROVE  grants'[dispatches'[j].grant].revision <= grants'[dispatches'[k].grant].revision
    <3>1. CASE j \in Of(u) /\ k \in Of(u)
      BY <2>3, <2>4, <2>11, <3>1 DEF EpochInv, EpochsFollowGrants
    <3>2. CASE u = t /\ k = i /\ j \in Of(u)
      <4>1. /\ dispatches[j].grant \in GrantIds /\ grants[dispatches[j].grant] # None
            /\ grants[dispatches[j].grant].task = t
        BY <1>2, <3>2 DEF EpochInv, GrantsOfTasks, Row
      <4>2. grants[dispatches[j].grant].revision <= grants[g].revision
        BY <2>4, <4>1 DEF GrantInv, HeadsLatest
      <4>3. QED
        BY <2>1, <2>3, <2>4, <3>2, <4>2
    <3>3. CASE u = t /\ j = i
      <4>1. dispatches'[k].epoch \in 1 .. n
        <5>1. {dispatches'[l].epoch : l \in Of(t)'} = 1 .. Cardinality(Of(t)')
          BY <2>10
        <5>2. Cardinality(Of(t)') = n
          BY <2>3, <2>7, <2>9
        <5>3. QED
          BY <3>3, <5>1, <5>2
      <4>2. dispatches'[i].epoch = n
        BY <2>1
      <4>3. QED
        BY <2>7, <2>9, <2>11, <3>3, <4>1, <4>2
    <3>4. QED
      BY <2>3, <3>1, <3>2, <3>3
  <2>12. EpochsFollowGrants'
    BY <2>10, <2>11 DEF EpochsFollowGrants
  <2>13. QED
    BY <2>6, <2>8, <2>12 DEF EpochInv
<1>6. QED
  BY <1>4, <1>5, AdmitOrKeep

\* The strengthened invariant of epochs: the dispatches of a task are finitely many, on
\* grants retained for it.
THEOREM EpochInvariance == DispatchSpec => []EpochInv
<1>1. DispatchInit => EpochInv
  <2> SUFFICES ASSUME DispatchInit PROVE EpochInv
    OBVIOUS
  <2>1. \A t \in Tasks : Of(t) = {}
    BY DEF DispatchInit, Of
  <2>2. QED
    BY <2>1, FS_EmptySet DEF EpochInv, GrantsOfTasks, FiniteTasks, EpochsFollowGrants
<1>2. DispatchTypeOK /\ DispatchTypeOK' /\ GrantInv /\ EpochInv /\ [DispatchNext]_vars => EpochInv'
  BY EpochStep
<1>3. QED
  BY <1>1, <1>2, DispatchTypes, GrantsInvariantInDispatch, PTL DEF DispatchSpec

\* Dispatch numbers the attempts of a task 1, 2, 3, ... whatever was released, stopped or
\* replaced in between, and never runs a later one on an older grant.
THEOREM EpochsAreInOrder == DispatchSpec => []EpochsFollowGrants
<1>1. EpochInv => EpochsFollowGrants
  BY DEF EpochInv
<1>2. QED
  BY <1>1, EpochInvariance, PTL

-----------------------------------------------------------------------------
(* Tasks and their last attempt. *)

LastOf(t) == {i \in Of(t) : \A j \in Of(t) : dispatches[j].epoch <= dispatches[i].epoch}

\* A writer that moves assigned or started attempts of some tasks marks those tasks.
LEMMA MovedTasks ==
    ASSUME DispatchTypeOK, TaskStateFollowsAttempt, NEW S, NEW to \in AttemptState \ {"assigned"},
           Moves(S, to), taskState' = Reconciling(S),
           \A i \in Intents : attempts[i].state = "assigned" =>
              i \in S \/ \A t \in Tasks : i \in Of(t) => Of(t) \cap S = {}
    PROVE  TaskStateFollowsAttempt'
<1> SUFFICES ASSUME NEW t \in Tasks
             PROVE  /\ taskState'[t] = "none" <=> Of(t)' = {}
                    /\ \A i \in LastOf(t)' : taskState'[t] = "ready" <=> attempts'[i].state = "assigned"
  BY DEF TaskStateFollowsAttempt, LastOf
<1>1. Of(t)' = Of(t) /\ LastOf(t)' = LastOf(t) /\ \A i \in LastOf(t) : i \in Of(t) /\ i \in Intents
  BY DEF Moves, Of, LastOf
<1>2. /\ taskState[t] = "none" <=> Of(t) = {}
      /\ \A i \in LastOf(t) : taskState[t] = "ready" <=> attempts[i].state = "assigned"
  BY DEF TaskStateFollowsAttempt, LastOf
<1>3. taskState'[t] = IF Of(t) \cap S # {} THEN "reconciling" ELSE taskState[t]
  BY DEF Reconciling
<1>4. \A i \in Intents : /\ i \in S => attempts'[i].state = to
                         /\ i \notin S => attempts'[i] = attempts[i]
  BY MovesEffect
<1>5. CASE Of(t) \cap S # {}
  BY <1>1, <1>3, <1>4, <1>5
<1>6. CASE Of(t) \cap S = {}
  BY <1>1, <1>2, <1>3, <1>4, <1>6
<1>7. QED
  BY <1>5, <1>6

\* Every transaction keeps task state and last attempt together.
LEMMA TaskStep ==
    ASSUME DispatchTypeOK, AttemptInv, EpochInv, TaskStateFollowsAttempt, [DispatchNext]_vars
    PROVE  TaskStateFollowsAttempt'
<1>1. ASSUME NEW i \in Intents, NEW t \in Tasks, NEW g \in GrantIds, NEW e \in Envelopes,
             NEW want \in Allowances, Admit(i, t, g, e, want)
      PROVE  TaskStateFollowsAttempt'
  <2>1. PICK n \in Positive :
           /\ NextEpoch(t, n)
           /\ dispatches'[i] = [task |-> t, grant |-> g, envelope |-> e, allowance |-> want,
                                epoch |-> n, created |-> now]
    BY <1>1, AdmitAdds
  <2>2. AddsRow(i, t)
    BY <1>1, AdmitAdds
  <2>3. /\ i \notin Of(t)
        /\ Of(t)' = Of(t) \cup {i}
        /\ \A u \in Tasks : u # t => Of(u)' = Of(u)
        /\ \A u \in Tasks : \A j \in Of(u) : dispatches'[j] = dispatches[j]
    BY <2>2, OfGrows
  <2>4. /\ attempts'[i].state = "assigned"
        /\ \A j \in Intents : j # i => attempts'[j] = attempts[j]
        /\ taskState'[t] = "ready"
        /\ \A u \in Tasks : u # t => taskState'[u] = taskState[u]
    BY <1>1 DEF Admit, DispatchTypeOK
  <2>5. LastOf(t)' = {i}
    <3>1. \A j \in Of(t) : dispatches'[j].epoch < dispatches'[i].epoch
      BY <2>1, <2>3 DEF NextEpoch
    <3>2. \A j \in Of(t) : dispatches'[j].epoch \in Nat /\ dispatches'[i].epoch \in Nat
      BY <2>1, <2>3, MaxIntegerAssumption DEF DispatchTypeOK, Row, Of, Positive
    <3>3. n \in Nat /\ dispatches'[i].epoch = n
      BY <2>1, MaxIntegerAssumption DEF Positive
    <3>4. i \in LastOf(t)'
      BY <2>3, <3>1, <3>2, <3>3 DEF LastOf
    <3>5. \A j \in Of(t) : j \notin LastOf(t)'
      BY <2>3, <3>1, <3>2 DEF LastOf
    <3>6. LastOf(t)' \subseteq Of(t) \cup {i}
      BY <2>3 DEF LastOf
    <3>7. QED
      BY <3>4, <3>5, <3>6
  <2>6. ASSUME NEW u \in Tasks
        PROVE  /\ taskState'[u] = "none" <=> Of(u)' = {}
               /\ \A k \in LastOf(u)' : taskState'[u] = "ready" <=> attempts'[k].state = "assigned"
    <3>1. CASE u = t
      BY <2>3, <2>4, <2>5, <3>1
    <3>2. CASE u # t
      <4>1. LastOf(u)' = LastOf(u) /\ i \notin Of(u)
        BY <2>2, <2>3, <3>2 DEF LastOf, Of, AddsRow
      <4>2. \A k \in LastOf(u) : k \in Of(u) /\ k \in Intents
        BY DEF LastOf, Of
      <4>3. QED
        BY <2>3, <2>4, <3>2, <4>1, <4>2 DEF TaskStateFollowsAttempt, LastOf
    <3>3. QED
      BY <3>1, <3>2
  <2>7. QED
    BY <2>6 DEF TaskStateFollowsAttempt, LastOf
<1>2. ASSUME NEW t \in Tasks, StopDispatch(t)
      PROVE  TaskStateFollowsAttempt'
  <2>1. Moves(Stoppable(t), "stopping") /\ taskState' = Reconciling(Stoppable(t))
    BY <1>2, StopMoves DEF StopDispatch, Stoppable
  <2>2. \A i \in Intents : attempts[i].state = "assigned" =>
           i \in Stoppable(t) \/ \A u \in Tasks : i \in Of(u) => Of(u) \cap Stoppable(t) = {}
    BY DEF Stoppable, Of
  <2>3. QED
    BY <2>1, <2>2, MovedTasks, AttemptStates
<1>3. CASE Restart
  <2>1. Moves(UnderWay, "unknown") /\ taskState' = Reconciling(UnderWay)
    BY <1>3, RestartMoves DEF Restart
  <2>2. \A i \in Intents : attempts[i].state = "assigned" => i \in UnderWay
    BY DEF UnderWay, Working
  <2>3. QED
    BY <2>1, <2>2, MovedTasks, AttemptStates
<1>4. ASSUME NEW i \in Intents, NEW to \in Terminal, NEW n \in Positive,
             ReconcileDispatch(i, to, n)
      PROVE  TaskStateFollowsAttempt'
  <2>1. Moves({i}, to) /\ to \in {"cancelled", "expired"} /\ to \in AttemptState /\ taskState' = taskState
    BY <1>4, ReconcileMoves, AttemptStates DEF ReconcileDispatch
  <2>2. attempts[i].state # "assigned" /\ attempts'[i].state # "assigned"
    <3>1. attempts'[i].state = to
      BY <2>1, MovesEffect
    <3>2. attempts[i].state \in {"stopping", "unknown"}
      BY <2>1, EdgeFacts DEF Moves
    <3>3. QED
      BY <2>1, <3>1, <3>2
  <2>3. \A j \in Intents : attempts'[j].state = "assigned" <=> attempts[j].state = "assigned"
    BY <2>1, <2>2, MovesEffect
  <2>4. \A t \in Tasks : Of(t)' = Of(t) /\ LastOf(t)' = LastOf(t) /\ LastOf(t) \subseteq Intents
    BY <2>1 DEF Moves, Of, LastOf
  <2>5. QED
    BY <2>1, <2>3, <2>4 DEF TaskStateFollowsAttempt, LastOf
<1>5. ASSUME UNCHANGED <<dispatches, attempts, taskState>>
      PROVE  TaskStateFollowsAttempt'
  BY <1>5 DEF TaskStateFollowsAttempt, Of
<1>6. CASE \/ UNCHANGED dispatchVars
           \/ UNCHANGED vars
           \/ \E i \in Intents : Delivery(i) \/ RunnerStep(i) \/ Fence(i)
           \/ \E i \in Intents, m \in Ack : AcknowledgeAssignment(i, m)
           \/ \E r \in Runners, f \in FactSet : PublishEligibility(r, f)
           \/ \E r \in Runners, to \in {"enabled", "disabled", "revoked"} : UpdateRunner(r, to)
           \/ RegisterRepository
  <2>1. UNCHANGED <<dispatches, attempts, taskState>>
    BY <1>6 DEF vars, dispatchVars, attemptVars, Delivery, RunnerStep, Fence, AcknowledgeAssignment,
                PublishEligibility, UpdateRunner, RegisterRepository
  <2>2. QED
    BY <1>5, <2>1
<1>7. QED
  BY <1>1, <1>2, <1>3, <1>4, <1>6 DEF DispatchNext

\* No constraint ties tasks.state to the attempts, and admission, stop, restart and
\* reconciliation write it apart: it always tells what became of the task's last attempt.
THEOREM TasksFollowTheirLast == DispatchSpec => []TaskStateFollowsAttempt
<1>1. DispatchInit => TaskStateFollowsAttempt
  BY DEF DispatchInit, TaskStateFollowsAttempt, Of
<1>2. DispatchTypeOK /\ AttemptInv /\ EpochInv /\ TaskStateFollowsAttempt /\ [DispatchNext]_vars
        => TaskStateFollowsAttempt'
  BY TaskStep
<1>3. QED
  BY <1>1, <1>2, AttemptInvariance, EpochInvariance, PTL DEF DispatchSpec

-----------------------------------------------------------------------------
(* Ceilings. *)

UpTo(t, i) == {j \in Of(t) : dispatches[j].epoch <= dispatches[i].epoch}

\* The budgets of one dispatch cover everything charged to the dispatches U up to it.
Covers(i, U) ==
    LET ceiling == dispatches[i].envelope.budgets
        used == Charged(U)
        end == dispatches[i].created + dispatches[i].allowance.attemptMS
    IN  /\ Cardinality(U) <= ceiling.attempts
        /\ Cardinality(U) - 1 <= ceiling.retries
        /\ used.requests <= ceiling.requests
        /\ used.ms <= ceiling.totalMS
        /\ used.tokens <= ceiling.tokens
        /\ ceiling.cost # NoCap =>
              /\ used.cost <= ceiling.cost
              /\ \A j \in U : dispatches[j].allowance.cost # NoCap
        /\ \A j \in U : end <= dispatches[j].created + ceiling.totalMS

\* Its execution ends before the grant it runs on.
EndsInGrant(i) ==
    dispatches[i].created + dispatches[i].allowance.attemptMS
       <= grants[dispatches[i].grant].envelope.expires

\* CeilingsHold, one dispatch at a time.
LEMMA CeilingParts ==
    CeilingsHold <=> \A t \in Tasks : \A i \in Of(t) : Covers(i, UpTo(t, i)) /\ EndsInGrant(i)
  BY DEF CeilingsHold, Covers, UpTo, EndsInGrant

\* The same, for all weights of the same elements.
LEMMA SumOfMore ==
    ASSUME NEW U, IsFiniteSet(U), NEW i, i \notin U
    PROVE  \A v, w : (\A y \in U : v[y] = w[y] /\ w[y] \in Nat) /\ w[i] \in Nat =>
              Summed(v, U) \in Nat /\ Summed(w, U \cup {i}) = Summed(v, U) + w[i]
  BY SummedGrows

\* What is charged is a matter of the charged rows alone.
LEMMA ChargedKept ==
    ASSUME NEW U, \A j \in U : dispatches'[j] = dispatches[j]
    PROVE  Charged(U)' = Charged(U)
<1>1. /\ [j \in U |-> dispatches'[j].allowance.requests] = [j \in U |-> dispatches[j].allowance.requests]
      /\ [j \in U |-> dispatches'[j].allowance.attemptMS] = [j \in U |-> dispatches[j].allowance.attemptMS]
      /\ [j \in U |-> dispatches'[j].allowance.tokens] = [j \in U |-> dispatches[j].allowance.tokens]
      /\ [j \in U |-> CostOf(dispatches'[j].allowance)] = [j \in U |-> CostOf(dispatches[j].allowance)]
  OBVIOUS
<1>2. QED
  BY <1>1 DEF Charged

\* What rows hold are natural numbers.
LEMMA RowNumbers ==
    ASSUME NEW row \in Row
    PROVE  /\ row.allowance.requests \in Nat /\ row.allowance.attemptMS \in Nat
           /\ row.allowance.tokens \in Nat /\ CostOf(row.allowance) \in Nat
           /\ row.created \in Nat /\ row.epoch \in Nat
           /\ row.allowance \in Budgets /\ row.envelope.budgets \in Budgets
<1>1. /\ row.allowance \in Budgets /\ row.envelope \in Envelope
      /\ row.created \in Nat /\ row.epoch \in Nat
  BY MaxTimeAssumption, MaxIntegerAssumption, AllowancesAssumption, EnvelopesAssumption DEF Row, Positive
<1>2. row.envelope.budgets \in Budgets
  BY <1>1 DEF Envelope
<1>3. QED
  BY <1>1, <1>2, MaxIntegerAssumption DEF Budgets, Positive, NonNegative, CostOf, NoCap

\* One more dispatch is charged on top of those before it.
LEMMA ChargedGrows ==
    ASSUME NEW U, IsFiniteSet(U), NEW i, i \notin U,
           \A j \in U : dispatches'[j] = dispatches[j] /\ dispatches[j] \in Row,
           dispatches'[i] \in Row
    PROVE  /\ Charged(U).requests \in Nat /\ Charged(U).ms \in Nat
           /\ Charged(U).tokens \in Nat /\ Charged(U).cost \in Nat
           /\ Charged(U \cup {i})'.requests = Charged(U).requests + dispatches'[i].allowance.requests
           /\ Charged(U \cup {i})'.ms = Charged(U).ms + dispatches'[i].allowance.attemptMS
           /\ Charged(U \cup {i})'.tokens = Charged(U).tokens + dispatches'[i].allowance.tokens
           /\ Charged(U \cup {i})'.cost = Charged(U).cost + CostOf(dispatches'[i].allowance)
<1>0. \A v, w : (\A y \in U : v[y] = w[y] /\ w[y] \in Nat) /\ w[i] \in Nat =>
         Summed(v, U) \in Nat /\ Summed(w, U \cup {i}) = Summed(v, U) + w[i]
  BY SumOfMore
<1> DEFINE V == U \cup {i}
           requests(S) == [j \in S |-> dispatches[j].allowance.requests]
           ms(S) == [j \in S |-> dispatches[j].allowance.attemptMS]
           tokens(S) == [j \in S |-> dispatches[j].allowance.tokens]
           cost(S) == [j \in S |-> CostOf(dispatches[j].allowance)]
<1>1. \A j \in V : dispatches'[j] \in Row
  OBVIOUS
<1>2. /\ \A j \in U : requests(U)[j] = requests(V)'[j] /\ requests(V)'[j] \in Nat
      /\ requests(V)'[i] = dispatches'[i].allowance.requests /\ requests(V)'[i] \in Nat
  BY <1>1, RowNumbers
<1>3. /\ \A j \in U : ms(U)[j] = ms(V)'[j] /\ ms(V)'[j] \in Nat
      /\ ms(V)'[i] = dispatches'[i].allowance.attemptMS /\ ms(V)'[i] \in Nat
  BY <1>1, RowNumbers
<1>4. /\ \A j \in U : tokens(U)[j] = tokens(V)'[j] /\ tokens(V)'[j] \in Nat
      /\ tokens(V)'[i] = dispatches'[i].allowance.tokens /\ tokens(V)'[i] \in Nat
  BY <1>1, RowNumbers
<1>5. /\ \A j \in U : cost(U)[j] = cost(V)'[j] /\ cost(V)'[j] \in Nat
      /\ cost(V)'[i] = CostOf(dispatches'[i].allowance) /\ cost(V)'[i] \in Nat
  BY <1>1, RowNumbers
<1>6. /\ Charged(U) = [requests |-> Summed(requests(U), U), ms |-> Summed(ms(U), U),
                       tokens |-> Summed(tokens(U), U), cost |-> Summed(cost(U), U)]
      /\ Charged(V)' = [requests |-> Summed(requests(V)', V), ms |-> Summed(ms(V)', V),
                        tokens |-> Summed(tokens(V)', V), cost |-> Summed(cost(V)', V)]
  BY DEF Charged
<1> HIDE DEF requests, ms, tokens, cost
<1>7. Summed(requests(U), U) \in Nat
      /\ Summed(requests(V)', V) = Summed(requests(U), U) + requests(V)'[i]
  BY <1>0, <1>2
<1>8. Summed(ms(U), U) \in Nat /\ Summed(ms(V)', V) = Summed(ms(U), U) + ms(V)'[i]
  BY <1>0, <1>3
<1>9. Summed(tokens(U), U) \in Nat /\ Summed(tokens(V)', V) = Summed(tokens(U), U) + tokens(V)'[i]
  BY <1>0, <1>4
<1>10. Summed(cost(U), U) \in Nat /\ Summed(cost(V)', V) = Summed(cost(U), U) + cost(V)'[i]
  BY <1>0, <1>5
<1>11. QED
  BY <1>2, <1>3, <1>4, <1>5, <1>6, <1>7, <1>8, <1>9, <1>10

\* The least of a set of naturals is what Min gives.
LEMMA MinIsLeast ==
    ASSUME NEW T \in SUBSET Nat, T # {}
    PROVE  Min(T) \in T /\ \A m \in T : Min(T) <= m
  BY LeastNatural DEF Min

\* What reserve has checked when an attempt is admitted.
LEMMA AdmittedFits ==
    ASSUME DispatchTypeOK, GrantInv, EpochInv, NEW i \in Intents, NEW t \in Tasks,
           NEW g \in GrantIds, NEW e \in Envelopes, NEW want \in Allowances, Admit(i, t, g, e, want)
    PROVE  /\ want \in Budgets /\ e.budgets \in Budgets /\ now \in Nat
           /\ Cardinality(Of(t)) < e.budgets.attempts /\ Cardinality(Of(t)) <= e.budgets.retries
           /\ BudgetLeft(t, e.budgets, want)
           /\ want.attemptMS <= e.budgets.totalMS
           /\ e.budgets.cost # NoCap =>
                 want.cost # NoCap /\ \A j \in Of(t) : dispatches[j].allowance.cost # NoCap
           /\ \A j \in Of(t) : now + want.attemptMS <= dispatches[j].created + e.budgets.totalMS
           /\ now + want.attemptMS <= grants[g].envelope.expires
<1>1. want \in Budgets /\ e \in Envelope /\ e.budgets \in Budgets /\ now \in Nat
  BY AllowancesAssumption, EnvelopesAssumption, MaxTimeAssumption
  DEF Envelope, DispatchTypeOK, GrantTypeOK
<1>2. /\ want.attemptMS \in Nat /\ want.totalMS \in Nat /\ e.budgets.totalMS \in Nat
      /\ e.expires \in Nat
  BY <1>1, MaxIntegerAssumption DEF Budgets, Positive, Envelope
<1>3. /\ PriorUseKnown(t, e.budgets)
      /\ Cardinality(Of(t)) < e.budgets.attempts /\ Cardinality(Of(t)) <= e.budgets.retries
      /\ WithinDuration(t, e, want) /\ BudgetLeft(t, e.budgets, want)
  BY DEF Admit, Reserve
<1>4. want.totalMS = want.attemptMS /\ BudgetsWithin(want, e.budgets)
  BY <1>1 DEF Admit, SingleAttempt, Within, Envelope
<1>5. want.attemptMS <= e.budgets.totalMS /\ (e.budgets.cost # NoCap => want.cost # NoCap)
  BY <1>4 DEF BudgetsWithin
<1>6. e.budgets.cost # NoCap => \A j \in Of(t) : dispatches[j].allowance.cost # NoCap
  BY <1>3 DEF PriorUseKnown
<1>7. ASSUME NEW j \in Of(t)
      PROVE  now + want.attemptMS <= dispatches[j].created + e.budgets.totalMS
  <2> DEFINE T == {dispatches[k].created : k \in Of(t)}
             first == Min(T)
  <2>1. T \in SUBSET Nat /\ T # {} /\ dispatches[j].created \in T
    <3>1. \A k \in Of(t) : dispatches[k] \in Row
      BY DEF DispatchTypeOK, Of
    <3>2. QED
      BY <3>1, RowNumbers
  <2>2. first \in Nat /\ first <= dispatches[j].created /\ dispatches[j].created \in Nat
    BY <2>1, MinIsLeast
  <2>3. first <= now /\ now - first + want.attemptMS <= e.budgets.totalMS
    BY <1>3 DEF WithinDuration
  <2> HIDE DEF first, T
  <2>4. QED
    BY <1>1, <1>2, <2>2, <2>3
<1>8. now + want.attemptMS <= grants[g].envelope.expires
  <2>1. e.expires <= grants[g].envelope.expires
    BY DEF Admit, DispatchAllowed, CheckExecution, Check, Within
  <2>2. grants[g].envelope.expires \in Nat
    <3>1. grants[g] \in Grant
      BY DEF Admit, DispatchAllowed, CheckExecution, DispatchTypeOK, GrantTypeOK
    <3>2. QED
      BY <3>1, EnvelopesAssumption, MaxIntegerAssumption DEF Grant, Envelope, Positive
  <2>3. now + want.attemptMS <= e.expires
    BY <1>3 DEF WithinDuration
  <2>4. QED
    BY <1>1, <1>2, <2>1, <2>2, <2>3
<1>9. QED
  BY <1>1, <1>3, <1>5, <1>6, <1>7, <1>8

\* The ceilings of a new dispatch cover all of its task, itself included.
LEMMA NewIsCovered ==
    ASSUME DispatchTypeOK, GrantInv, EpochInv, NEW i \in Intents, NEW t \in Tasks,
           NEW g \in GrantIds, NEW e \in Envelopes, NEW want \in Allowances,
           Admit(i, t, g, e, want), NEW U, U = Of(t)
    PROVE  Covers(i, U \cup {i})' /\ EndsInGrant(i)'
<1> DEFINE b == e.budgets
<1>1. AddsRow(i, t)
  BY AdmitAdds
<1>2. dispatches'[i].grant = g /\ dispatches'[i].envelope = e /\ dispatches'[i].allowance = want
      /\ dispatches'[i].created = now
  <2>1. PICK n \in Positive :
           dispatches'[i] = [task |-> t, grant |-> g, envelope |-> e, allowance |-> want,
                             epoch |-> n, created |-> now]
    BY AdmitAdds
  <2>2. QED
    BY <2>1
<1>3. /\ i \notin U /\ dispatches'[i] \in Row
      /\ \A j \in U : dispatches'[j] = dispatches[j] /\ dispatches[j] \in Row
  BY <1>1, OfGrows DEF AddsRow, DispatchTypeOK, Of
<1>4. /\ want \in Budgets /\ b \in Budgets /\ now \in Nat
      /\ Cardinality(U) < b.attempts /\ Cardinality(U) <= b.retries
      /\ BudgetLeft(t, b, want)
      /\ want.attemptMS <= b.totalMS
      /\ b.cost # NoCap => want.cost # NoCap /\ \A j \in U : dispatches[j].allowance.cost # NoCap
      /\ \A j \in U : now + want.attemptMS <= dispatches[j].created + b.totalMS
      /\ now + want.attemptMS <= grants[g].envelope.expires
  BY AdmittedFits
<1>5. /\ b.attempts \in Nat /\ b.retries \in Nat /\ b.totalMS \in Nat
      /\ want.attemptMS \in Nat
  BY <1>4, MaxIntegerAssumption DEF Budgets, Positive, NonNegative
<1>6. IsFiniteSet(U) /\ Cardinality(U) \in Nat /\ Cardinality(U \cup {i}) = Cardinality(U) + 1
  BY <1>3, FS_AddElement, FS_CardinalityType DEF EpochInv, FiniteTasks
<1>7. /\ Charged(U).requests \in Nat /\ Charged(U).ms \in Nat
      /\ Charged(U).tokens \in Nat /\ Charged(U).cost \in Nat
      /\ Charged(U \cup {i})'.requests = Charged(U).requests + want.requests
      /\ Charged(U \cup {i})'.ms = Charged(U).ms + want.attemptMS
      /\ Charged(U \cup {i})'.tokens = Charged(U).tokens + want.tokens
      /\ Charged(U \cup {i})'.cost = Charged(U).cost + CostOf(want)
  <2>1. /\ Charged(U).requests \in Nat /\ Charged(U).ms \in Nat
        /\ Charged(U).tokens \in Nat /\ Charged(U).cost \in Nat
        /\ Charged(U \cup {i})'.requests = Charged(U).requests + dispatches'[i].allowance.requests
        /\ Charged(U \cup {i})'.ms = Charged(U).ms + dispatches'[i].allowance.attemptMS
        /\ Charged(U \cup {i})'.tokens = Charged(U).tokens + dispatches'[i].allowance.tokens
        /\ Charged(U \cup {i})'.cost = Charged(U).cost + CostOf(dispatches'[i].allowance)
    BY <1>3, <1>6, ChargedGrows
  <2>2. QED
    BY <1>2, <2>1
<1>8. /\ Charged(U \cup {i})'.requests <= b.requests
      /\ Charged(U \cup {i})'.ms <= b.totalMS
      /\ Charged(U \cup {i})'.tokens <= b.tokens
      /\ b.cost # NoCap => Charged(U \cup {i})'.cost <= b.cost
  BY <1>4, <1>7 DEF BudgetLeft
<1>9. Cardinality(U \cup {i}) <= b.attempts /\ Cardinality(U \cup {i}) - 1 <= b.retries
  BY <1>4, <1>5, <1>6
<1>10. \A j \in U \cup {i} :
          /\ now + want.attemptMS <= dispatches'[j].created + b.totalMS
          /\ b.cost # NoCap => dispatches'[j].allowance.cost # NoCap
  BY <1>2, <1>3, <1>4, <1>5
<1>11. grants' = grants
  BY DEF Admit, grantRows
<1>12. Covers(i, U \cup {i})'
  BY <1>2, <1>8, <1>9, <1>10 DEF Covers
<1>13. EndsInGrant(i)'
  BY <1>2, <1>4, <1>11 DEF EndsInGrant
<1>14. QED
  BY <1>12, <1>13


\* A dispatch no step touches keeps what its budgets have to cover.
LEMMA CoveredStays ==
    ASSUME NEW i, NEW U, i \in U, \A j \in U : dispatches'[j] = dispatches[j], Covers(i, U)
    PROVE  Covers(i, U)'
<1>1. Charged(U)' = Charged(U) /\ dispatches'[i] = dispatches[i]
  BY ChargedKept
<1>2. QED
  BY <1>1 DEF Covers

\* A dispatch keeps its end, and its grant keeps the expiry it was approved with.
LEMMA EndsStays ==
    ASSUME DispatchTypeOK, EpochInv, GrantRowsStay, NEW t \in Tasks, NEW i \in Of(t),
           dispatches'[i] = dispatches[i], EndsInGrant(i)
    PROVE  EndsInGrant(i)'
<1>1. dispatches[i].grant \in GrantIds
  BY DEF DispatchTypeOK, Of, Row
<1>2. grants'[dispatches[i].grant] = grants[dispatches[i].grant]
  BY <1>1 DEF EpochInv, GrantsOfTasks, GrantRowsStay
<1>3. QED
  BY <1>2 DEF EndsInGrant

\* A new epoch is above all others, so the dispatches up to an old one stay the same and
\* those up to the new one are all of the task.
LEMMA UpToGrows ==
    ASSUME DispatchTypeOK, NEW i \in Intents, NEW t \in Tasks, AddsRow(i, t),
           NEW n \in Positive, NextEpoch(t, n), dispatches'[i].epoch = n
    PROVE  /\ UpTo(t, i)' = Of(t) \cup {i}
           /\ \A j \in Of(t) : UpTo(t, j)' = UpTo(t, j)
<1>1. /\ i \notin Of(t)
      /\ Of(t)' = Of(t) \cup {i}
      /\ \A j \in Of(t) : dispatches'[j] = dispatches[j]
  BY OfGrows
<1>2. n \in Nat /\ \A j \in Of(t) : dispatches[j].epoch \in Nat /\ dispatches[j].epoch < n
  <2>1. \A j \in Of(t) : dispatches[j] \in Row
    BY DEF DispatchTypeOK, Of
  <2>2. QED
    BY <2>1, RowNumbers, MaxIntegerAssumption DEF NextEpoch, Positive
<1>3. UpTo(t, i)' = {j \in Of(t) \cup {i} : dispatches'[j].epoch <= n}
  BY <1>1 DEF UpTo
<1>4. \A j \in Of(t) \cup {i} : dispatches'[j].epoch <= n
  BY <1>1, <1>2
<1>5. ASSUME NEW j \in Of(t) PROVE UpTo(t, j)' = UpTo(t, j)
  <2>1. UpTo(t, j)' = {k \in Of(t) \cup {i} : dispatches'[k].epoch <= dispatches'[j].epoch}
    BY <1>1 DEF UpTo
  <2>2. ~ (dispatches'[i].epoch <= dispatches'[j].epoch)
    BY <1>1, <1>2
  <2>3. QED
    BY <1>1, <2>1, <2>2 DEF UpTo
<1>6. QED
  BY <1>3, <1>4, <1>5

\* Admission measures the new dispatch against all that came before; nothing else charges.
LEMMA CeilingStep ==
    ASSUME DispatchTypeOK, DispatchTypeOK', GrantInv, EpochInv, CeilingsHold, [DispatchNext]_vars
    PROVE  CeilingsHold'
<1>1. GrantRowsStay
  BY GrantsStep, GrantRowsAreKept DEF GrantInv
<1>2. \A t \in Tasks : \A i \in Of(t) : Covers(i, UpTo(t, i)) /\ EndsInGrant(i)
  BY CeilingParts
<1>3. \A t \in Tasks : \A i \in Of(t) : i \in UpTo(t, i) /\ UpTo(t, i) \subseteq Of(t)
  <2>1. \A t \in Tasks : \A i \in Of(t) : dispatches[i] \in Row
    BY DEF DispatchTypeOK, Of
  <2>2. QED
    BY <2>1, RowNumbers DEF UpTo
\* Dispatches of a task that keeps its dispatches stay covered.
<1>4. ASSUME NEW t \in Tasks, NEW i \in Of(t), UpTo(t, i)' = UpTo(t, i),
             \A j \in Of(t) : dispatches'[j] = dispatches[j]
      PROVE  Covers(i, UpTo(t, i))' /\ EndsInGrant(i)'
  <2>1. PICK U : U = UpTo(t, i)
    OBVIOUS
  <2>2. Covers(i, U)'
    BY <1>2, <1>3, <1>4, <2>1, CoveredStays
  <2>3. EndsInGrant(i)'
    BY <1>1, <1>2, <1>4, EndsStays
  <2>4. UpTo(t, i)' = U
    BY <1>4, <2>1
  <2>5. QED
    BY <2>2, <2>3, <2>4
<1>5. CASE dispatches' = dispatches
  <2>1. \A t \in Tasks : Of(t)' = Of(t) /\ \A i \in Of(t) : UpTo(t, i)' = UpTo(t, i)
    BY <1>5 DEF Of, UpTo
  <2>2. ASSUME NEW t \in Tasks, NEW i \in Of(t)'
        PROVE  Covers(i, UpTo(t, i))' /\ EndsInGrant(i)'
    BY <1>4, <1>5, <2>1
  <2>3. QED
    BY <2>2 DEF CeilingsHold, Covers, UpTo, EndsInGrant
<1>6. ASSUME NEW i \in Intents, NEW t \in Tasks, NEW g \in GrantIds, NEW e \in Envelopes,
             NEW want \in Allowances, Admit(i, t, g, e, want)
      PROVE  CeilingsHold'
  <2>1. PICK n \in Positive :
           /\ NextEpoch(t, n)
           /\ dispatches'[i] = [task |-> t, grant |-> g, envelope |-> e, allowance |-> want,
                                epoch |-> n, created |-> now]
    BY <1>6, AdmitAdds
  <2>2. AddsRow(i, t) /\ dispatches'[i].epoch = n
    BY <1>6, <2>1, AdmitAdds
  <2>3. /\ Of(t)' = Of(t) \cup {i}
        /\ \A u \in Tasks : u # t => Of(u)' = Of(u)
        /\ \A u \in Tasks : \A j \in Of(u) : dispatches'[j] = dispatches[j]
    BY <2>2, OfGrows
  <2>4. UpTo(t, i)' = Of(t) \cup {i} /\ \A j \in Of(t) : UpTo(t, j)' = UpTo(t, j)
    BY <2>1, <2>2, UpToGrows
  <2>5. Covers(i, UpTo(t, i))' /\ EndsInGrant(i)'
    <3>1. PICK U : U = Of(t)
      OBVIOUS
    <3>2. Covers(i, U \cup {i})' /\ EndsInGrant(i)'
      BY <1>6, <3>1, NewIsCovered
    <3>3. QED
      BY <2>4, <3>1, <3>2
  <2>6. ASSUME NEW j \in Of(t) PROVE Covers(j, UpTo(t, j))' /\ EndsInGrant(j)'
    BY <1>4, <2>3, <2>4
  <2>7. ASSUME NEW u \in Tasks, u # t, NEW j \in Of(u)
        PROVE  Covers(j, UpTo(u, j))' /\ EndsInGrant(j)'
    <3>1. UpTo(u, j)' = UpTo(u, j)
      BY <2>3, <2>7 DEF UpTo
    <3>2. QED
      BY <1>4, <2>3, <3>1
  <2>8. ASSUME NEW u \in Tasks, NEW j \in Of(u)'
        PROVE  Covers(j, UpTo(u, j))' /\ EndsInGrant(j)'
    BY <2>3, <2>5, <2>6, <2>7, <2>8
  <2>9. QED
    BY <2>8 DEF CeilingsHold, Covers, UpTo, EndsInGrant
<1>7. QED
  BY <1>5, <1>6, AdmitOrKeep

\* Whatever grants came and went, every dispatch was admitted under ceilings that cover
\* everything its task was charged up to it, released attempts included: reserve never
\* refunds, and counts all dispatches of the task whatever grant they ran on.
THEOREM CeilingsAreHeld == DispatchSpec => []CeilingsHold
<1>1. DispatchInit => CeilingsHold
  BY DEF DispatchInit, CeilingsHold, Of
<1>2. DispatchTypeOK /\ DispatchTypeOK' /\ GrantInv /\ EpochInv /\ CeilingsHold /\ [DispatchNext]_vars
        => CeilingsHold'
  BY CeilingStep
<1>3. QED
  BY <1>1, <1>2, AttemptInvariance, GrantsInvariantInDispatch, EpochInvariance, PTL DEF DispatchSpec
=============================================================================
