------------------------------- MODULE Identity -------------------------------
(***************************************************************************)
(* Principals, credential pins and invitations of internal/store/identity.go *)
(* with the requests of internal/httpapi/identity.go that change them: a   *)
(* request authenticates in one transaction, reads its body, and acts in   *)
(* another.  Owner bootstrap and recovery run on a store that no daemon    *)
(* has open, as cmd/gafferd/main.go starts them.                           *)
(*                                                                         *)
(* An invitation preallocates the identity of its runner, so a runner is   *)
(* named by its invitation, and so is the one-use token that only its      *)
(* issuer and whoever it was passed on to can present.                     *)
(***************************************************************************)
EXTENDS Integers

CONSTANTS Pins,        \* fingerprints of client certificates
          Invites,     \* message ids of invitations, naming their runners
          Owner,       \* the only owner identity
          Requests,    \* owner requests in flight at a time
          MaxRevision, \* protocol.go MaxInteger, scaled down
          Life,        \* ten minutes, in ticks
          MaxClock,    \* bound on the wall clock
          None         \* an absent row

ASSUME OwnerAssumption == Owner \notin Invites
ASSUME RevisionAssumption == MaxRevision \in Nat \ {0}
ASSUME LifeAssumption == Life \in Nat \ {0} /\ MaxClock \in Nat

Identities == Invites \cup {Owner}

Principal == [enabled : BOOLEAN, revoked : BOOLEAN, revision : 1 .. MaxRevision]

Credential == [identity : Identities, revoked : BOOLEAN]

Invite == [pin : Pins, expires : 0 .. MaxClock + Life, consumed : BOOLEAN]

ASSUME NoneAssumption == None \notin Principal \cup Credential \cup Invite \cup Pins

VARIABLES principals,   \* principals
          credentials,  \* credentials: the identity each pin was bound to
          invites,      \* enrollments
          requests,     \* the pin an owner request was authenticated by
          up,           \* a daemon serves the store
          clock,        \* the wall clock
          fenced        \* history: pins and invitations the last recovery found

rows == <<principals, credentials, invites>>
vars == <<rows, requests, up, clock, fenced>>

\* principal: the identity behind an unrevoked credential, if it is not revoked itself.
Is(pin, id) ==
    /\ credentials[pin] # None /\ credentials[pin].identity = id
    /\ ~ credentials[pin].revoked
    /\ ~ principals[id].revoked

IsOwner(pin) == Is(pin, Owner)

\* A pin that some invitation has reserved, consumed or not.
Reserved(pin) == \E e \in Invites : invites[e] # None /\ invites[e].pin = pin

\* Slip: a pin whose credential was revoked can be bound again.
UnusedOrRevoked(pin) == credentials[pin] # None => credentials[pin].revoked

\* addCredential refuses a pin that was ever bound.
Unused(pin) == credentials[pin] = None

\* Slip: the pins of open invitations are not looked at.
FreeOfCredentials(pin) == Unused(pin)

\* A pin for an identity that has not reserved it.
Free(pin) == Unused(pin) /\ ~ Reserved(pin)

Bind(creds, pin, id) == [creds EXCEPT ![pin] = [identity |-> id, revoked |-> FALSE]]

RevokeCredentials(ids) ==
    [pin \in Pins |->
        IF credentials[pin] # None /\ credentials[pin].identity \in ids
        THEN [credentials[pin] EXCEPT !.revoked = TRUE]
        ELSE credentials[pin]]

\* BootstrapOwner without recovery, once per store.
BootstrapOwner(pin) ==
    /\ ~ up
    /\ principals[Owner] = None
    /\ Free(pin)
    /\ principals' = [principals EXCEPT ![Owner] = [enabled |-> TRUE, revoked |-> FALSE, revision |-> 1]]
    /\ credentials' = Bind(credentials, pin, Owner)
    /\ UNCHANGED <<invites, requests, up, clock, fenced>>

\* Slip: invitations that are about to expire anyway are left alone.
ConsumeOpen ==
    [e \in Invites |-> IF invites[e] # None /\ clock + Life <= invites[e].expires
                       THEN [invites[e] EXCEPT !.consumed = TRUE] ELSE invites[e]]

ConsumeAll ==
    [e \in Invites |-> IF invites[e] # None
                       THEN [invites[e] EXCEPT !.consumed = TRUE] ELSE invites[e]]

\* Every principal is revoked, and then the owner is not.
Recovered ==
    [id \in Identities |-> IF principals[id] = None THEN None
        ELSE [enabled |-> id = Owner, revoked |-> id # Owner, revision |-> principals[id].revision + 1]]

\* BootstrapOwner with recovery: all credentials and invitations are fenced, in the
\* transaction that binds the replacement key.
RecoverOwner(pin) ==
    /\ ~ up
    /\ principals[Owner] # None
    /\ \A id \in Identities : principals[id] # None => principals[id].revision < MaxRevision
    /\ Free(pin)
    /\ principals' = Recovered
    /\ credentials' = Bind(RevokeCredentials(Identities), pin, Owner)
    /\ invites' = ConsumeAll
    /\ fenced' = [pins |-> {f \in Pins : credentials[f] # None},
                  invites |-> {e \in Invites : invites[e] # None}]
    /\ UNCHANGED <<requests, up, clock>>

\* NewTLS serves only a store that has an owner.
Start ==
    /\ ~ up
    /\ principals[Owner] # None
    /\ up' = TRUE
    /\ UNCHANGED <<rows, requests, clock, fenced>>

\* The daemon stops or dies; its requests die with it.
Stop ==
    /\ up
    /\ up' = FALSE
    /\ requests' = [h \in Requests |-> None]
    /\ UNCHANGED <<rows, clock, fenced>>

\* Authenticate of a request to a path that only an owner may use.
Authenticate(h, pin) ==
    /\ up
    /\ requests[h] = None
    /\ IsOwner(pin)
    /\ requests' = [requests EXCEPT ![h] = pin]
    /\ UNCHANGED <<rows, up, clock, fenced>>

\* The body is invalid, the connection is lost, or the store refuses.
Refused(h) ==
    /\ requests[h] # None
    /\ requests' = [requests EXCEPT ![h] = None]
    /\ UNCHANGED <<rows, up, clock, fenced>>

\* Slip: the actor was looked up when the request was authenticated.
ActorAuthenticated(h) == requests[h] # None

\* The actor is looked up again in the transaction of its change.
ActorAllowed(h) == requests[h] # None /\ IsOwner(requests[h])

CreateEnrollment(h, e, pin) ==
    /\ ActorAllowed(h)
    /\ invites[e] = None
    /\ Free(pin)
    /\ invites' = [invites EXCEPT ![e] = [pin |-> pin, expires |-> clock + Life, consumed |-> FALSE]]
    /\ requests' = [requests EXCEPT ![h] = None]
    /\ UNCHANGED <<principals, credentials, up, clock, fenced>>

\* The token of e is presented with the certificate its invitation names.
Enroll(e) ==
    /\ up
    /\ invites[e] # None
    /\ ~ invites[e].consumed
    /\ clock < invites[e].expires
    /\ principals[e] = None
    /\ Unused(invites[e].pin)
    /\ invites' = [invites EXCEPT ![e].consumed = TRUE]
    /\ principals' = [principals EXCEPT ![e] = [enabled |-> FALSE, revoked |-> FALSE, revision |-> 1]]
    /\ credentials' = Bind(credentials, invites[e].pin, e)
    /\ UNCHANGED <<requests, up, clock, fenced>>

\* The compare-and-set of UpdateIdentity.
Current(id, revision) ==
    /\ revision < MaxRevision
    /\ principals[id].revision = revision
    /\ ~ principals[id].revoked

Changed(p, action) ==
    CASE action = "rotate" -> [p EXCEPT !.revision = @ + 1]
      [] action = "revoke" -> [enabled |-> FALSE, revoked |-> TRUE, revision |-> p.revision + 1]
      [] OTHER -> [p EXCEPT !.enabled = action = "enable", !.revision = @ + 1]

\* What UpdateIdentity checks of any action, and writes of the principal.
Update(h, id, revision, action) ==
    /\ ActorAllowed(h)
    /\ principals[id] # None
    /\ Current(id, revision)
    /\ principals' = [principals EXCEPT ![id] = Changed(@, action)]
    /\ requests' = [requests EXCEPT ![h] = None]
    /\ UNCHANGED <<invites, up, clock, fenced>>

EnableOrDisable(h, e, revision, action) ==
    /\ Update(h, e, revision, action)
    /\ UNCHANGED credentials

\* Rotation binds a pin nobody has used or reserved, in place of all earlier ones.
Rotate(h, id, revision, pin) ==
    /\ Update(h, id, revision, "rotate")
    /\ Free(pin)
    /\ credentials' = Bind(RevokeCredentials({id}), pin, id)

Revoke(h, id, revision) ==
    /\ Update(h, id, revision, "revoke")
    /\ credentials' = RevokeCredentials({id})

ClockMoves ==
    /\ clock' \in 0 .. MaxClock
    /\ UNCHANGED <<rows, requests, up, fenced>>

Init ==
    /\ principals = [id \in Identities |-> None]
    /\ credentials = [pin \in Pins |-> None]
    /\ invites = [e \in Invites |-> None]
    /\ requests = [h \in Requests |-> None]
    /\ up = FALSE
    /\ clock = 0
    /\ fenced = [pins |-> {}, invites |-> {}]

Next ==
    \/ \E pin \in Pins : BootstrapOwner(pin) \/ RecoverOwner(pin)
    \/ Start \/ Stop \/ ClockMoves
    \/ \E e \in Invites : Enroll(e)
    \/ \E h \in Requests :
          \/ \E pin \in Pins : Authenticate(h, pin)
          \/ Refused(h)
          \/ \E e \in Invites, pin \in Pins : CreateEnrollment(h, e, pin)
          \/ \E n \in 1 .. MaxRevision :
                \/ \E e \in Invites, action \in {"enable", "disable"} : EnableOrDisable(h, e, n, action)
                \/ \E id \in Identities :
                      \/ Revoke(h, id, n)
                      \/ \E pin \in Pins : Rotate(h, id, n, pin)

Spec == Init /\ [][Next]_vars

-----------------------------------------------------------------------------
IdentityTypeOK ==
    /\ principals \in [Identities -> Principal \cup {None}]
    /\ credentials \in [Pins -> Credential \cup {None}]
    /\ invites \in [Invites -> Invite \cup {None}]
    /\ requests \in [Requests -> Pins \cup {None}]
    /\ up \in BOOLEAN
    /\ clock \in 0 .. MaxClock
    /\ fenced \in [pins : SUBSET Pins, invites : SUBSET Invites]

\* A pin that an invitation reserved is never a key of anybody but that invitation's
\* runner, whichever of invitation, rotation and recovery came first.
ReservedPinsAreKept ==
    \A e \in Invites : invites[e] # None /\ credentials[invites[e].pin] # None =>
        /\ credentials[invites[e].pin].identity = e
        /\ invites[e].consumed /\ principals[e] # None

\* An identity is proved by one key at a time, and by none once it is revoked.
OneLiveCredential ==
    \A id \in Identities :
        LET live == {pin \in Pins : /\ credentials[pin] # None
                                    /\ credentials[pin].identity = id
                                    /\ ~ credentials[pin].revoked}
        IN  /\ \A p, q \in live : p = q
            /\ live # {} => principals[id] # None /\ ~ principals[id].revoked

\* Invitations reserve keys before anybody exists to hold them, rotations and recoveries
\* bind and revoke them later: a key proves one identity, an identity has one key.
KeysAreExclusive == ReservedPinsAreKept /\ OneLiveCredential

\* Recovery fences everything that was there: no key it found authenticates again, no
\* invitation it found brings a runner in, whatever requests were under way before.
NothingSurvivesRecovery ==
    /\ \A pin \in fenced.pins : credentials[pin].revoked
    /\ \A e \in fenced.invites :
          invites[e].consumed /\ (principals[e] # None => principals[e].revoked)

\* A pin stays bound to its identity for ever, and a revoked key stays revoked.
PinsNeverReassigned ==
    [][\A pin \in Pins : credentials[pin] # None =>
          /\ credentials'[pin] # None
          /\ credentials'[pin].identity = credentials[pin].identity
          /\ credentials[pin].revoked => credentials'[pin].revoked
      ]_vars

\* While the daemon serves, invitations are issued and identities changed only by a
\* request whose key is the owner's at that moment, not merely when it was authenticated.
OnlyTheOwnerChanges ==
    [][up =>
          \/ \E h \in Requests : requests[h] # None /\ requests'[h] = None /\ IsOwner(requests[h])
          \/ /\ \A id \in Identities : principals[id] # None => principals'[id] = principals[id]
             /\ \A e \in Invites : invites[e] = None => invites'[e] = None
      ]_vars

\* A runner's revocation is final; only recovery ends the owner's.
RevokedForGood ==
    [][\A id \in Identities : principals[id] # None /\ principals[id].revoked =>
          \/ principals'[id].revoked /\ ~ principals'[id].enabled
          \/ id = Owner /\ ~ up
      ]_vars

\* Neither a key nor an identity that was taken away comes back, under its own name or
\* another, whatever is enrolled, rotated or recovered afterwards.
RevocationHolds == PinsNeverReassigned /\ RevokedForGood

\* The keys that prove an identity now.
Keys(id) == {pin \in Pins : Is(pin, id)}

\* Whatever an owner saw of an identity, its keys included, is unchanged as long as the
\* revision is: an update based on a revision never overwrites a change it did not see.
RevisionTellsChanges ==
    [][\A id \in Identities : principals[id] # None =>
          \/ principals'[id].revision > principals[id].revision
          \/ principals'[id] = principals[id] /\ Keys(id)' = Keys(id)
      ]_vars

\* An identity and its keys change by an owner who is one, and visibly.
ChangesAreTheOwners == OnlyTheOwnerChanges /\ RevisionTellsChanges
=============================================================================
