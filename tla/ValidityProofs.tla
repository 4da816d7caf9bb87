---------------------------- MODULE ValidityProofs ----------------------------
(***************************************************************************)
(* What TLAPS proves, for every value of the constants, of what a party is  *)
(* taken for and of how long it stands.                                     *)
(*                                                                          *)
(* Identity: the enrolment of runners, their certificates and sessions.     *)
(*                                                                          *)
(* What one clock granted and another one uses, for every validity, drift,  *)
(* latency and freshness: NoWorkOutlivesItsLease is checkLease's            *)
(* arithmetic: a cutoff is the send plus validity minus drift and stop; the *)
(* send, read on the daemon's clock, is at most a drift later than the      *)
(* issuance that follows it; so work that is gone a stop after the cutoff   *)
(* is gone within the validity of that issuance.                            *)
(*                                                                          *)
(* NotReadyIsRecent is projectOpenRelayRouteSnapshot's: the rows of a       *)
(* snapshot were true when they were read, the read was bounded, and a      *)
(* verdict is valid until the freshness after the earliest of its denials.  *)
(*                                                                          *)
(* BelievedTranscriptsAreRuns is what the verifiers of evidence check: five *)
(* lists fit each other field by field, so they are one run, in its order.  *)
(***************************************************************************)
EXTENDS Identity, Lease, RouterStatus, Transcript, FiniteSetTheorems, SequenceTheorems,
        WellFoundedInduction, NaturalsInduction, TLAPS

-----------------------------------------------------------------------------
(* The inductive invariant. *)

\* A key belongs to an identity that exists, an identity of a runner to a used invitation.
RowsRefer ==
    /\ \A pin \in Pins : credentials[pin] # None => principals[credentials[pin].identity] # None
    /\ \A e \in Invites : principals[e] # None => invites[e] # None /\ invites[e].consumed

\* No two invitations reserve one pin.
PinsReservedOnce ==
    \A e, f \in Invites : invites[e] # None /\ invites[f] # None /\ invites[e].pin = invites[f].pin
                             => e = f

\* What the last recovery found is still there.
FencedRowsStay ==
    /\ \A pin \in fenced.pins : credentials[pin] # None
    /\ \A e \in fenced.invites : invites[e] # None

LiveKey(pin) == credentials[pin] # None /\ ~ credentials[pin].revoked

\* OneLiveCredential, said of keys rather than of identities.
KeysProve ==
    /\ \A p, q \in Pins :
          LiveKey(p) /\ LiveKey(q) /\ credentials[p].identity = credentials[q].identity => p = q
    /\ \A p \in Pins : LiveKey(p) => ~ principals[credentials[p].identity].revoked

IdentityInv ==
    /\ IdentityTypeOK
    /\ RowsRefer
    /\ PinsReservedOnce
    /\ FencedRowsStay
    /\ ReservedPinsAreKept
    /\ KeysProve
    /\ NothingSurvivesRecovery

-----------------------------------------------------------------------------
(* Types. *)

\* Binding a key keeps the type of the table.
LEMMA BindTypes ==
    ASSUME NEW creds \in [Pins -> Credential \cup {None}], NEW pin \in Pins, NEW id \in Identities
    PROVE  Bind(creds, pin, id) \in [Pins -> Credential \cup {None}]
  BY DEF Bind, Credential

\* Revoking keys keeps the type of the table.
LEMMA RevokeTypes ==
    ASSUME IdentityTypeOK, NEW ids
    PROVE  RevokeCredentials(ids) \in [Pins -> Credential \cup {None}]
<1>1. ASSUME NEW p \in Pins, credentials[p] # None
      PROVE  [credentials[p] EXCEPT !.revoked = TRUE] \in Credential
  BY <1>1 DEF IdentityTypeOK, Credential
<1>2. QED
  BY <1>1 DEF RevokeCredentials, IdentityTypeOK

\* An action on a principal that is current keeps the type of its row.
LEMMA ChangedTypes ==
    ASSUME IdentityTypeOK, NEW id \in Identities, principals[id] # None,
           NEW n \in 1 .. MaxRevision, Current(id, n),
           NEW action \in {"enable", "disable", "rotate", "revoke"}
    PROVE  /\ Changed(principals[id], action) \in Principal
           /\ Changed(principals[id], action).revision = n + 1
           /\ Changed(principals[id], action).revoked = (action = "revoke")
           /\ action = "revoke" => ~ Changed(principals[id], action).enabled
<1>1. principals[id] \in Principal /\ principals[id].revision = n /\ ~ principals[id].revoked
  BY DEF IdentityTypeOK, Current
<1>2. n + 1 \in 1 .. MaxRevision
  BY RevisionAssumption DEF Current
<1>3. QED
  BY <1>1, <1>2 DEF Changed, Principal

\* A store without rows has the types.
LEMMA InitialTypes == Init => IdentityTypeOK
<1> SUFFICES ASSUME Init PROVE IdentityTypeOK
  OBVIOUS
<1>1. 0 \in 0 .. MaxClock
  BY LifeAssumption
<1>2. fenced \in [pins : SUBSET Pins, invites : SUBSET Invites]
  BY DEF Init
<1>3. QED
  BY <1>1, <1>2 DEF Init, IdentityTypeOK

\* Every transaction keeps the types.
LEMMA TypesStep ==
    ASSUME IdentityTypeOK, [Next]_vars
    PROVE  IdentityTypeOK'
<1>0. Owner \in Identities /\ \A e \in Invites : e \in Identities
  BY DEF Identities
<1>1. ASSUME NEW pin \in Pins, BootstrapOwner(pin)
      PROVE  IdentityTypeOK'
  <2>1. [enabled |-> TRUE, revoked |-> FALSE, revision |-> 1] \in Principal
    BY RevisionAssumption DEF Principal
  <2>2. QED
    BY <1>0, <1>1, <2>1, BindTypes DEF BootstrapOwner, IdentityTypeOK
<1>2. ASSUME NEW pin \in Pins, RecoverOwner(pin)
      PROVE  IdentityTypeOK'
  <2>1. Recovered \in [Identities -> Principal \cup {None}]
    <3>1. ASSUME NEW id \in Identities, principals[id] # None
          PROVE  [enabled |-> id = Owner, revoked |-> id # Owner,
                  revision |-> principals[id].revision + 1] \in Principal
      <4>1. principals[id].revision + 1 \in 1 .. MaxRevision
        BY <1>2, <3>1, RevisionAssumption DEF RecoverOwner, IdentityTypeOK, Principal
      <4>2. QED
        BY <4>1 DEF Principal
    <3>2. QED
      BY <3>1 DEF Recovered
  <2>2. ConsumeAll \in [Invites -> Invite \cup {None}]
    <3>1. ASSUME NEW e \in Invites, invites[e] # None
          PROVE  [invites[e] EXCEPT !.consumed = TRUE] \in Invite
      BY <3>1 DEF IdentityTypeOK, Invite
    <3>2. QED
      BY <3>1 DEF ConsumeAll
  <2>3. Bind(RevokeCredentials(Identities), pin, Owner) \in [Pins -> Credential \cup {None}]
    BY <1>0, BindTypes, RevokeTypes
  <2>4. QED
    BY <1>2, <2>1, <2>2, <2>3 DEF RecoverOwner, IdentityTypeOK
<1>3. CASE Start \/ Stop \/ ClockMoves \/ UNCHANGED vars
  BY <1>3 DEF Start, Stop, ClockMoves, vars, rows, IdentityTypeOK
<1>4. ASSUME NEW e \in Invites, Enroll(e)
      PROVE  IdentityTypeOK'
  <2>1. [enabled |-> FALSE, revoked |-> FALSE, revision |-> 1] \in Principal
    BY RevisionAssumption DEF Principal
  <2>2. invites[e] \in Invite /\ invites[e].pin \in Pins
    BY <1>4 DEF Enroll, IdentityTypeOK, Invite
  <2>3. [invites[e] EXCEPT !.consumed = TRUE] \in Invite
    BY <2>2 DEF Invite
  <2>4. Bind(credentials, invites[e].pin, e) \in [Pins -> Credential \cup {None}]
    BY <1>0, <2>2, BindTypes DEF IdentityTypeOK
  <2>5. QED
    BY <1>0, <1>4, <2>1, <2>3, <2>4 DEF Enroll, IdentityTypeOK
<1>5. ASSUME NEW h \in Requests,
             (\E pin \in Pins : Authenticate(h, pin)) \/ Refused(h)
      PROVE  IdentityTypeOK'
  BY <1>5 DEF Authenticate, Refused, rows, IdentityTypeOK
<1>6. ASSUME NEW h \in Requests, NEW e \in Invites, NEW pin \in Pins, CreateEnrollment(h, e, pin)
      PROVE  IdentityTypeOK'
  <2>1. [pin |-> pin, expires |-> clock + Life, consumed |-> FALSE] \in Invite
    BY LifeAssumption DEF IdentityTypeOK, Invite
  <2>2. QED
    BY <1>6, <2>1 DEF CreateEnrollment, IdentityTypeOK
<1>7. ASSUME NEW h \in Requests, NEW id \in Identities, NEW n \in 1 .. MaxRevision,
             NEW action \in {"enable", "disable", "rotate", "revoke"}, Update(h, id, n, action)
      PROVE  /\ principals' \in [Identities -> Principal \cup {None}]
             /\ requests' \in [Requests -> Pins \cup {None}]
             /\ UNCHANGED <<invites, up, clock, fenced>>
  BY <1>7, ChangedTypes DEF Update, IdentityTypeOK
<1>8. ASSUME NEW h \in Requests, NEW e \in Invites, NEW n \in 1 .. MaxRevision,
             NEW action \in {"enable", "disable"}, EnableOrDisable(h, e, n, action)
      PROVE  IdentityTypeOK'
  BY <1>0, <1>7, <1>8 DEF EnableOrDisable, IdentityTypeOK
<1>9. ASSUME NEW h \in Requests, NEW id \in Identities, NEW n \in 1 .. MaxRevision, Revoke(h, id, n)
      PROVE  IdentityTypeOK'
  <2>1. credentials' \in [Pins -> Credential \cup {None}]
    BY <1>9, RevokeTypes DEF Revoke
  <2>2. QED
    BY <1>7, <1>9, <2>1 DEF Revoke, IdentityTypeOK
<1>10. ASSUME NEW h \in Requests, NEW id \in Identities, NEW n \in 1 .. MaxRevision,
              NEW pin \in Pins, Rotate(h, id, n, pin)
       PROVE  IdentityTypeOK'
  <2>1. credentials' \in [Pins -> Credential \cup {None}]
    BY <1>10, RevokeTypes, BindTypes DEF Rotate
  <2>2. QED
    BY <1>7, <1>10, <2>1 DEF Rotate, IdentityTypeOK
<1>11. QED
  BY <1>1, <1>2, <1>3, <1>4, <1>5, <1>6, <1>8, <1>9, <1>10 DEF Next

-----------------------------------------------------------------------------
(* What a step does to one row. *)

\* Binding adds one live key and touches no other.
LEMMA BindEffect ==
    ASSUME NEW creds \in [Pins -> Credential \cup {None}], NEW pin \in Pins, NEW id \in Identities
    PROVE  /\ Bind(creds, pin, id)[pin] # None
           /\ Bind(creds, pin, id)[pin].identity = id
           /\ ~ Bind(creds, pin, id)[pin].revoked
           /\ \A p \in Pins : p # pin => Bind(creds, pin, id)[p] = creds[p]
<1>1. [identity |-> id, revoked |-> FALSE] \in Credential
  BY DEF Credential
<1>2. QED
  BY <1>1, NoneAssumption DEF Bind

\* Revoking neither adds, removes nor moves a key, and revokes those of the given identities.
LEMMA RevokeEffect ==
    ASSUME IdentityTypeOK, NEW ids, NEW p \in Pins
    PROVE  /\ RevokeCredentials(ids)[p] = None <=> credentials[p] = None
           /\ credentials[p] # None =>
                 /\ RevokeCredentials(ids)[p].identity = credentials[p].identity
                 /\ RevokeCredentials(ids)[p].revoked
                       <=> credentials[p].revoked \/ credentials[p].identity \in ids
<1>1. CASE credentials[p] # None /\ credentials[p].identity \in ids
  <2>1. RevokeCredentials(ids)[p] = [credentials[p] EXCEPT !.revoked = TRUE]
    BY <1>1 DEF RevokeCredentials
  <2>2. credentials[p] \in Credential
    BY <1>1 DEF IdentityTypeOK
  <2>3. [credentials[p] EXCEPT !.revoked = TRUE] \in Credential
    BY <2>2 DEF Credential
  <2>4. QED
    BY <1>1, <2>1, <2>2, <2>3, NoneAssumption DEF Credential
<1>2. CASE ~ (credentials[p] # None /\ credentials[p].identity \in ids)
  BY <1>2 DEF RevokeCredentials
<1>3. QED
  BY <1>1, <1>2

\* Recovery consumes invitations and touches nothing else of them.
LEMMA ConsumeEffect ==
    ASSUME IdentityTypeOK, NEW e \in Invites
    PROVE  /\ ConsumeAll[e] = None <=> invites[e] = None
           /\ invites[e] # None => ConsumeAll[e].pin = invites[e].pin /\ ConsumeAll[e].consumed
<1>1. CASE invites[e] # None
  <2>1. ConsumeAll[e] = [invites[e] EXCEPT !.consumed = TRUE]
    BY <1>1 DEF ConsumeAll
  <2>2. invites[e] \in Invite
    BY <1>1 DEF IdentityTypeOK
  <2>3. [invites[e] EXCEPT !.consumed = TRUE] \in Invite
    BY <2>2 DEF Invite
  <2>4. QED
    BY <1>1, <2>1, <2>2, <2>3, NoneAssumption DEF Invite
<1>2. CASE invites[e] = None
  BY <1>2 DEF ConsumeAll
<1>3. QED
  BY <1>1, <1>2

\* Recovery revokes every runner and restores the owner, in a new revision of each.
LEMMA RecoveredEffect ==
    ASSUME IdentityTypeOK, NEW id \in Identities,
           principals[id] # None => principals[id].revision < MaxRevision
    PROVE  /\ Recovered[id] = None <=> principals[id] = None
           /\ principals[id] # None =>
                 /\ Recovered[id].revoked <=> id # Owner
                 /\ Recovered[id].enabled <=> id = Owner
                 /\ Recovered[id].revision = principals[id].revision + 1
<1>1. CASE principals[id] # None
  <2>1. Recovered[id] = [enabled |-> id = Owner, revoked |-> id # Owner,
                         revision |-> principals[id].revision + 1]
    BY <1>1 DEF Recovered
  <2>2. principals[id] \in Principal
    BY <1>1 DEF IdentityTypeOK
  <2>3. principals[id].revision + 1 \in 1 .. MaxRevision
    BY <1>1, <2>2, RevisionAssumption DEF Principal
  <2>4. Recovered[id] \in Principal
    BY <2>1, <2>3 DEF Principal
  <2>5. Recovered[id] # None
    BY <2>4, NoneAssumption
  <2>6. /\ Recovered[id].revoked <=> id # Owner
        /\ Recovered[id].enabled <=> id = Owner
    <3> DEFINE r == principals[id].revision + 1
    <3>1. CASE id = Owner
      <4>1. (id = Owner) = TRUE /\ (id # Owner) = FALSE
        BY <3>1
      <4>2. Recovered[id] = [enabled |-> TRUE, revoked |-> FALSE, revision |-> r]
        BY <2>1, <4>1, Zenon
      <4>3. QED
        BY <3>1, <4>2
    <3>2. CASE id # Owner
      <4>1. (id = Owner) = FALSE /\ (id # Owner) = TRUE
        BY <3>2
      <4>2. Recovered[id] = [enabled |-> FALSE, revoked |-> TRUE, revision |-> r]
        BY <2>1, <4>1, Zenon
      <4>3. QED
        BY <3>2, <4>2
    <3>3. QED
      BY <3>1, <3>2
  <2>7. Recovered[id].revision = principals[id].revision + 1
    BY <2>1
  <2>8. QED
    BY <1>1, <2>5, <2>6, <2>7
<1>2. CASE principals[id] = None
  BY <1>2 DEF Recovered
<1>3. QED
  BY <1>1, <1>2

\* An update touches one identity, which was not revoked, and gives it a new revision.
LEMMA UpdateEffect ==
    ASSUME IdentityTypeOK, NEW h \in Requests, NEW id \in Identities, NEW n \in 1 .. MaxRevision,
           NEW action \in {"enable", "disable", "rotate", "revoke"}, Update(h, id, n, action)
    PROVE  /\ principals[id] # None /\ ~ principals[id].revoked
           /\ principals'[id] # None
           /\ principals'[id].revision = principals[id].revision + 1
           /\ principals'[id].revoked <=> action = "revoke"
           /\ \A other \in Identities : other # id => principals'[other] = principals[other]
<1>1. principals' = [principals EXCEPT ![id] = Changed(principals[id], action)]
  BY DEF Update
<1>2. principals[id] # None /\ Current(id, n)
  BY DEF Update
<1>3. Changed(principals[id], action) \in Principal
  BY <1>2, ChangedTypes
<1>4. /\ principals'[id] = Changed(principals[id], action)
      /\ \A other \in Identities : other # id => principals'[other] = principals[other]
  BY <1>1 DEF IdentityTypeOK
<1>5. principals'[id] # None
  BY <1>3, <1>4, NoneAssumption
<1>6. ~ principals[id].revoked /\ principals[id].revision = n
  BY <1>2 DEF Current
<1>7. principals'[id].revision = principals[id].revision + 1
  BY <1>2, <1>4, <1>6, ChangedTypes
<1>8. principals'[id].revoked <=> action = "revoke"
  BY <1>2, <1>4, ChangedTypes
<1>9. QED
  BY <1>2, <1>4, <1>5, <1>6, <1>7, <1>8

-----------------------------------------------------------------------------
(* Each action keeps the invariant. *)

\* The parts of the invariant that are not types, by name.
Parts == RowsRefer /\ PinsReservedOnce /\ FencedRowsStay
            /\ ReservedPinsAreKept /\ KeysProve /\ NothingSurvivesRecovery

\* A store without rows satisfies every part.
LEMMA InitialParts == Init => Parts
  BY DEF Init, Parts, RowsRefer, PinsReservedOnce, FencedRowsStay, ReservedPinsAreKept,
         KeysProve, LiveKey, NothingSurvivesRecovery, Identities

\* Requests, the clock, start and stop change no row.
LEMMA QuietSteps ==
    ASSUME IdentityInv, UNCHANGED <<rows, fenced>>
    PROVE  Parts'
  BY DEF IdentityInv, Parts, rows, RowsRefer, PinsReservedOnce, FencedRowsStay,
         ReservedPinsAreKept, KeysProve, LiveKey, NothingSurvivesRecovery

\* The first owner's key is nobody else's and reserved by nobody.
LEMMA BootstrapStep ==
    ASSUME IdentityInv, NEW pin \in Pins, BootstrapOwner(pin)
    PROVE  Parts'
<1>0. Owner \in Identities /\ Owner \notin Invites /\ \A e \in Invites : e \in Identities
  BY OwnerAssumption DEF Identities
<1>1. /\ credentials[pin] = None
      /\ principals[Owner] = None
      /\ \A e \in Invites : invites[e] # None => invites[e].pin # pin
      /\ UNCHANGED <<invites, fenced>>
  BY DEF BootstrapOwner, Free, Unused, Reserved
<1>2. /\ credentials'[pin] # None /\ credentials'[pin].identity = Owner
      /\ ~ credentials'[pin].revoked
      /\ \A p \in Pins : p # pin => credentials'[p] = credentials[p]
  BY <1>0, BindEffect DEF BootstrapOwner, IdentityInv, IdentityTypeOK
<1>3. /\ principals'[Owner] # None /\ ~ principals'[Owner].revoked
      /\ \A id \in Identities : id # Owner => principals'[id] = principals[id]
  <2>1. [enabled |-> TRUE, revoked |-> FALSE, revision |-> 1] \in Principal
    BY RevisionAssumption DEF Principal
  <2>2. principals'[Owner] = [enabled |-> TRUE, revoked |-> FALSE, revision |-> 1]
    BY <1>0 DEF BootstrapOwner, IdentityInv, IdentityTypeOK
  <2>3. principals'[Owner] # None
    BY <2>1, <2>2, NoneAssumption
  <2>4. ~ principals'[Owner].revoked
    BY <2>2
  <2>5. QED
    BY <2>3, <2>4 DEF BootstrapOwner, IdentityInv, IdentityTypeOK
<1>4. \A p \in Pins : credentials[p] # None => credentials[p].identity \in Identities \ {Owner}
  BY <1>1 DEF IdentityInv, IdentityTypeOK, Credential, RowsRefer
<1>5. RowsRefer'
  BY <1>0, <1>1, <1>2, <1>3, <1>4 DEF IdentityInv, RowsRefer
<1>6. PinsReservedOnce' /\ FencedRowsStay'
  BY <1>1, <1>2 DEF IdentityInv, PinsReservedOnce, FencedRowsStay, IdentityTypeOK
<1>7. ReservedPinsAreKept'
  BY <1>0, <1>1, <1>2, <1>3 DEF IdentityInv, ReservedPinsAreKept, IdentityTypeOK, Invite
<1>8. KeysProve'
  BY <1>1, <1>2, <1>3, <1>4 DEF IdentityInv, KeysProve, LiveKey
<1>9. NothingSurvivesRecovery'
  BY <1>0, <1>1, <1>2, <1>3
     DEF IdentityInv, NothingSurvivesRecovery, FencedRowsStay, IdentityTypeOK
<1>10. QED
  BY <1>5, <1>6, <1>7, <1>8, <1>9 DEF Parts

\* A replacement key is bound after everything that was there is fenced.
LEMMA RecoveryStep ==
    ASSUME IdentityInv, NEW pin \in Pins, RecoverOwner(pin)
    PROVE  Parts'
<1>0. Owner \in Identities /\ Owner \notin Invites /\ \A e \in Invites : e \in Identities
  BY OwnerAssumption DEF Identities
<1>1. /\ credentials[pin] = None
      /\ principals[Owner] # None
      /\ \A e \in Invites : invites[e] # None => invites[e].pin # pin
  BY DEF RecoverOwner, Free, Unused, Reserved
<1>2. /\ credentials'[pin] # None /\ credentials'[pin].identity = Owner
      /\ ~ credentials'[pin].revoked
      /\ \A p \in Pins : p # pin => credentials'[p] = RevokeCredentials(Identities)[p]
  BY <1>0, BindEffect, RevokeTypes DEF RecoverOwner, IdentityInv
<1>3. \A p \in Pins : p # pin =>
         /\ credentials'[p] = None <=> credentials[p] = None
         /\ credentials[p] # None =>
               credentials'[p].identity = credentials[p].identity /\ credentials'[p].revoked
  <2>1. \A p \in Pins : credentials[p] # None => credentials[p].identity \in Identities
    BY DEF IdentityInv, IdentityTypeOK, Credential
  <2>2. QED
    BY <1>2, <2>1, RevokeEffect DEF IdentityInv
<1>4. \A e \in Invites :
         /\ invites'[e] = None <=> invites[e] = None
         /\ invites[e] # None => invites'[e].pin = invites[e].pin /\ invites'[e].consumed
  BY ConsumeEffect DEF RecoverOwner, IdentityInv
<1>5. \A id \in Identities :
         /\ principals'[id] = None <=> principals[id] = None
         /\ principals[id] # None => (principals'[id].revoked <=> id # Owner)
  BY RecoveredEffect DEF RecoverOwner, IdentityInv
<1>6. /\ \A p \in Pins : p \in fenced'.pins <=> credentials[p] # None
      /\ fenced'.pins \subseteq Pins
      /\ \A e \in Invites : e \in fenced'.invites <=> invites[e] # None
      /\ fenced'.invites \subseteq Invites
  BY DEF RecoverOwner
<1>7. \A p \in Pins : credentials[p] # None => credentials[p].identity \in Identities
  BY DEF IdentityInv, IdentityTypeOK, Credential
<1>8. RowsRefer'
  BY <1>0, <1>1, <1>2, <1>3, <1>4, <1>5, <1>7 DEF IdentityInv, RowsRefer
<1>9. PinsReservedOnce'
  BY <1>4 DEF IdentityInv, PinsReservedOnce
<1>10. FencedRowsStay'
  BY <1>1, <1>3, <1>4, <1>6 DEF FencedRowsStay
<1>11. ReservedPinsAreKept'
  BY <1>0, <1>1, <1>2, <1>3, <1>4, <1>5
     DEF IdentityInv, ReservedPinsAreKept, IdentityTypeOK, Invite
<1>12. KeysProve'
  BY <1>0, <1>1, <1>2, <1>3, <1>5 DEF KeysProve, LiveKey
<1>13. NothingSurvivesRecovery'
  BY <1>0, <1>1, <1>3, <1>4, <1>5, <1>6 DEF NothingSurvivesRecovery
<1>14. QED
  BY <1>8, <1>9, <1>10, <1>11, <1>12, <1>13 DEF Parts

\* A new invitation reserves a pin that nobody has bound or reserved.
LEMMA InviteStep ==
    ASSUME IdentityInv, NEW h \in Requests, NEW e \in Invites, NEW pin \in Pins,
           CreateEnrollment(h, e, pin)
    PROVE  Parts'
<1>1. /\ credentials[pin] = None
      /\ invites[e] = None
      /\ \A f \in Invites : invites[f] # None => invites[f].pin # pin
      /\ UNCHANGED <<principals, credentials, fenced>>
  BY DEF CreateEnrollment, Free, Unused, Reserved
<1>2. /\ invites'[e] # None /\ invites'[e].pin = pin
      /\ \A f \in Invites : f # e => invites'[f] = invites[f]
  <2>1. [pin |-> pin, expires |-> clock + Life, consumed |-> FALSE] \in Invite
    BY LifeAssumption DEF IdentityInv, IdentityTypeOK, Invite
  <2>2. QED
    BY <2>1, NoneAssumption DEF CreateEnrollment, IdentityInv, IdentityTypeOK
<1>3. RowsRefer'
  BY <1>1, <1>2 DEF IdentityInv, RowsRefer
<1>4. PinsReservedOnce'
  BY <1>1, <1>2 DEF IdentityInv, PinsReservedOnce
<1>5. FencedRowsStay' /\ NothingSurvivesRecovery'
  BY <1>1, <1>2 DEF IdentityInv, FencedRowsStay, NothingSurvivesRecovery, IdentityTypeOK
<1>6. ReservedPinsAreKept'
  BY <1>1, <1>2 DEF IdentityInv, ReservedPinsAreKept
<1>7. KeysProve'
  BY <1>1 DEF IdentityInv, KeysProve, LiveKey
<1>8. QED
  BY <1>3, <1>4, <1>5, <1>6, <1>7 DEF Parts

\* A token brings in the runner of its invitation, once.
LEMMA EnrollStep ==
    ASSUME IdentityInv, NEW e \in Invites, Enroll(e)
    PROVE  Parts'
<1> DEFINE pin == invites[e].pin
<1>0. e \in Identities /\ pin \in Pins /\ \A f \in Invites : f \in Identities
  BY DEF Identities, Enroll, IdentityInv, IdentityTypeOK, Invite
<1>1. /\ invites[e] # None /\ ~ invites[e].consumed
      /\ principals[e] = None
      /\ credentials[pin] = None
      /\ UNCHANGED fenced
  BY DEF Enroll, Unused
<1>2. /\ credentials'[pin] # None /\ credentials'[pin].identity = e
      /\ ~ credentials'[pin].revoked
      /\ \A p \in Pins : p # pin => credentials'[p] = credentials[p]
  BY <1>0, BindEffect DEF Enroll, IdentityInv, IdentityTypeOK
<1>3. /\ principals'[e] # None /\ ~ principals'[e].revoked
      /\ \A id \in Identities : id # e => principals'[id] = principals[id]
  <2>1. [enabled |-> FALSE, revoked |-> FALSE, revision |-> 1] \in Principal
    BY RevisionAssumption DEF Principal
  <2>2. principals'[e] = [enabled |-> FALSE, revoked |-> FALSE, revision |-> 1]
    BY <1>0 DEF Enroll, IdentityInv, IdentityTypeOK
  <2>3. principals'[e] # None
    BY <2>1, <2>2, NoneAssumption
  <2>4. ~ principals'[e].revoked
    BY <2>2
  <2>5. QED
    BY <2>3, <2>4 DEF Enroll, IdentityInv, IdentityTypeOK
<1>4. /\ invites'[e] # None /\ invites'[e].pin = pin /\ invites'[e].consumed
      /\ \A f \in Invites : f # e => invites'[f] = invites[f]
  <2>1. invites[e] \in Invite
    BY <1>1 DEF IdentityInv, IdentityTypeOK
  <2>2. [invites[e] EXCEPT !.consumed = TRUE] \in Invite
    BY <2>1 DEF Invite
  <2>3. invites'[e] = [invites[e] EXCEPT !.consumed = TRUE]
    BY DEF Enroll, IdentityInv, IdentityTypeOK
  <2>4. invites'[e] # None
    BY <2>2, <2>3, NoneAssumption
  <2>5. invites'[e].pin = pin /\ invites'[e].consumed
    BY <2>1, <2>3 DEF Invite
  <2>6. QED
    BY <2>4, <2>5 DEF Enroll, IdentityInv, IdentityTypeOK
<1>5. \A p \in Pins : credentials[p] # None => credentials[p].identity \in Identities \ {e}
  BY <1>1 DEF IdentityInv, IdentityTypeOK, Credential, RowsRefer
<1> HIDE DEF pin
<1>6. RowsRefer'
  BY <1>0, <1>1, <1>2, <1>3, <1>4, <1>5 DEF IdentityInv, RowsRefer
<1>7. PinsReservedOnce'
  <2>1. \A f \in Invites : /\ invites'[f] = None <=> invites[f] = None
                           /\ invites[f] # None => invites'[f].pin = invites[f].pin
    BY <1>1, <1>4 DEF pin
  <2>2. QED
    BY <2>1 DEF IdentityInv, PinsReservedOnce
<1>8. FencedRowsStay'
  BY <1>1, <1>2, <1>4 DEF IdentityInv, FencedRowsStay, IdentityTypeOK
<1>9. ReservedPinsAreKept'
  <2>1. \A f \in Invites : f # e /\ invites[f] # None => invites[f].pin # pin
    BY <1>1 DEF IdentityInv, PinsReservedOnce, pin
  <2>2. \A f \in Invites : invites[f] # None => invites[f].pin \in Pins
    BY DEF IdentityInv, IdentityTypeOK, Invite
  <2>3. QED
    BY <1>0, <1>2, <1>3, <1>4, <2>1, <2>2 DEF IdentityInv, ReservedPinsAreKept
<1>10. KeysProve'
  BY <1>0, <1>1, <1>2, <1>3, <1>5 DEF IdentityInv, KeysProve, LiveKey
<1>11. NothingSurvivesRecovery'
  BY <1>0, <1>1, <1>2, <1>3, <1>4
     DEF IdentityInv, NothingSurvivesRecovery, FencedRowsStay, IdentityTypeOK
<1>12. QED
  BY <1>6, <1>7, <1>8, <1>9, <1>10, <1>11 DEF Parts

\* Enabling and disabling change no key.
LEMMA EnableStep ==
    ASSUME IdentityInv, NEW h \in Requests, NEW id \in Invites, NEW n \in 1 .. MaxRevision,
           NEW action \in {"enable", "disable"}, EnableOrDisable(h, id, n, action)
    PROVE  Parts'
<1>0. id \in Identities /\ \A e \in Invites : e \in Identities
  BY DEF Identities
<1>1. /\ principals[id] # None /\ ~ principals[id].revoked
      /\ principals'[id] # None /\ ~ principals'[id].revoked
      /\ \A other \in Identities : other # id => principals'[other] = principals[other]
  BY <1>0, UpdateEffect DEF EnableOrDisable, IdentityInv
<1>2. UNCHANGED <<credentials, invites, fenced>>
  BY DEF EnableOrDisable, Update
<1>3. \A p \in Pins : credentials[p] # None => credentials[p].identity \in Identities
  BY DEF IdentityInv, IdentityTypeOK, Credential
<1>4. RowsRefer' /\ PinsReservedOnce' /\ FencedRowsStay'
  BY <1>0, <1>1, <1>2, <1>3 DEF IdentityInv, RowsRefer, PinsReservedOnce, FencedRowsStay
<1>5. ReservedPinsAreKept'
  BY <1>0, <1>1, <1>2 DEF IdentityInv, ReservedPinsAreKept
<1>6. KeysProve'
  BY <1>1, <1>2, <1>3 DEF IdentityInv, KeysProve, LiveKey
<1>7. NothingSurvivesRecovery'
  BY <1>0, <1>1, <1>2 DEF IdentityInv, NothingSurvivesRecovery, IdentityTypeOK
<1>8. QED
  BY <1>4, <1>5, <1>6, <1>7 DEF Parts

\* A revoked identity keeps no key.
LEMMA RevokeStep ==
    ASSUME IdentityInv, NEW h \in Requests, NEW id \in Identities, NEW n \in 1 .. MaxRevision,
           Revoke(h, id, n)
    PROVE  Parts'
<1>0. \A e \in Invites : e \in Identities
  BY DEF Identities
<1>1. /\ principals[id] # None /\ ~ principals[id].revoked
      /\ principals'[id] # None /\ principals'[id].revoked
      /\ \A other \in Identities : other # id => principals'[other] = principals[other]
  BY UpdateEffect DEF Revoke, IdentityInv
<1>2. UNCHANGED <<invites, fenced>>
  BY DEF Revoke, Update
<1>3. \A p \in Pins :
         /\ credentials'[p] = None <=> credentials[p] = None
         /\ credentials[p] # None =>
               /\ credentials'[p].identity = credentials[p].identity
               /\ credentials'[p].revoked <=> credentials[p].revoked \/ credentials[p].identity = id
  BY RevokeEffect DEF Revoke, IdentityInv
<1>4. \A p \in Pins : credentials[p] # None => credentials[p].identity \in Identities
  BY DEF IdentityInv, IdentityTypeOK, Credential
<1>5. RowsRefer' /\ PinsReservedOnce'
  BY <1>0, <1>1, <1>2, <1>3, <1>4 DEF IdentityInv, RowsRefer, PinsReservedOnce
<1>6. FencedRowsStay' /\ NothingSurvivesRecovery'
  BY <1>0, <1>1, <1>2, <1>3
     DEF IdentityInv, FencedRowsStay, NothingSurvivesRecovery, IdentityTypeOK
<1>7. ReservedPinsAreKept'
  BY <1>0, <1>1, <1>2, <1>3 DEF IdentityInv, ReservedPinsAreKept, IdentityTypeOK, Invite
<1>8. KeysProve'
  BY <1>1, <1>3, <1>4 DEF IdentityInv, KeysProve, LiveKey
<1>9. QED
  BY <1>5, <1>6, <1>7, <1>8 DEF Parts

\* A rotation leaves one live key.
LEMMA RotateStep ==
    ASSUME IdentityInv, NEW h \in Requests, NEW id \in Identities, NEW n \in 1 .. MaxRevision,
           NEW pin \in Pins, Rotate(h, id, n, pin)
    PROVE  Parts'
<1>0. \A e \in Invites : e \in Identities
  BY DEF Identities
<1>1. /\ principals[id] # None /\ ~ principals[id].revoked
      /\ principals'[id] # None /\ ~ principals'[id].revoked
      /\ \A other \in Identities : other # id => principals'[other] = principals[other]
  BY UpdateEffect DEF Rotate, IdentityInv
<1>2. /\ credentials[pin] = None
      /\ \A e \in Invites : invites[e] # None => invites[e].pin # pin
      /\ UNCHANGED <<invites, fenced>>
  BY DEF Rotate, Update, Free, Unused, Reserved
<1>3. /\ credentials'[pin] # None /\ credentials'[pin].identity = id
      /\ ~ credentials'[pin].revoked
      /\ \A p \in Pins : p # pin => credentials'[p] = RevokeCredentials({id})[p]
  BY BindEffect, RevokeTypes DEF Rotate, IdentityInv
<1>4. \A p \in Pins : p # pin =>
         /\ credentials'[p] = None <=> credentials[p] = None
         /\ credentials[p] # None =>
               /\ credentials'[p].identity = credentials[p].identity
               /\ credentials'[p].revoked <=> credentials[p].revoked \/ credentials[p].identity = id
  BY <1>3, RevokeEffect DEF IdentityInv
<1>5. \A p \in Pins : credentials[p] # None => credentials[p].identity \in Identities
  BY DEF IdentityInv, IdentityTypeOK, Credential
<1>6. RowsRefer' /\ PinsReservedOnce'
  BY <1>0, <1>1, <1>2, <1>3, <1>4, <1>5 DEF IdentityInv, RowsRefer, PinsReservedOnce
<1>7. FencedRowsStay' /\ NothingSurvivesRecovery'
  BY <1>0, <1>1, <1>2, <1>3, <1>4
     DEF IdentityInv, FencedRowsStay, NothingSurvivesRecovery, IdentityTypeOK
<1>8. ReservedPinsAreKept'
  BY <1>0, <1>1, <1>2, <1>3, <1>4
     DEF IdentityInv, ReservedPinsAreKept, IdentityTypeOK, Invite
<1>9. KeysProve'
  BY <1>1, <1>2, <1>3, <1>4, <1>5 DEF IdentityInv, KeysProve, LiveKey
<1>10. QED
  BY <1>6, <1>7, <1>8, <1>9 DEF Parts

\* Every transaction keeps the invariant.
LEMMA InvariantStep == IdentityInv /\ [Next]_vars => IdentityInv'
<1> SUFFICES ASSUME IdentityInv, [Next]_vars PROVE IdentityInv'
  OBVIOUS
<1>1. IdentityTypeOK'
  BY TypesStep DEF IdentityInv
<1>2. ASSUME \/ Start \/ Stop \/ ClockMoves \/ UNCHANGED vars
             \/ \E h \in Requests : Refused(h) \/ \E pin \in Pins : Authenticate(h, pin)
      PROVE  Parts'
  <2>1. UNCHANGED <<rows, fenced>>
    BY <1>2 DEF Start, Stop, ClockMoves, vars, Refused, Authenticate
  <2>2. QED
    BY <2>1, QuietSteps
<1>3. Parts'
  BY <1>2, BootstrapStep, RecoveryStep, InviteStep, EnrollStep, EnableStep, RevokeStep, RotateStep
     DEF Next
<1>4. QED
  BY <1>1, <1>3 DEF IdentityInv, Parts

\* The invariant holds in every reachable state.
THEOREM IdentityInvariance == Spec => []IdentityInv
<1>1. Init => IdentityInv
  BY InitialTypes, InitialParts DEF IdentityInv, Parts
<1>2. QED
  BY <1>1, InvariantStep, PTL DEF Spec

-----------------------------------------------------------------------------
(* The properties. *)

\* The tables of identity.go keep their types.
THEOREM IdentityTypes == Spec => []IdentityTypeOK
<1>1. IdentityInv => IdentityTypeOK
  BY DEF IdentityInv
<1>2. QED
  BY <1>1, IdentityInvariance, PTL

\* A pin that an invitation reserved proves nobody but that invitation's runner.
THEOREM PinsStayReserved == Spec => []ReservedPinsAreKept
<1>1. IdentityInv => ReservedPinsAreKept
  BY DEF IdentityInv
<1>2. QED
  BY <1>1, IdentityInvariance, PTL

\* An identity has at most one live key, and none once it is revoked.
THEOREM LiveKeysAreSingle == Spec => []OneLiveCredential
<1>1. IdentityInv => OneLiveCredential
  BY DEF IdentityInv, KeysProve, LiveKey, RowsRefer, OneLiveCredential
<1>2. QED
  BY <1>1, IdentityInvariance, PTL

\* No key and no invitation that a recovery found works after it.
THEOREM RecoveryFences == Spec => []NothingSurvivesRecovery
<1>1. IdentityInv => NothingSurvivesRecovery
  BY DEF IdentityInv
<1>2. QED
  BY <1>1, IdentityInvariance, PTL

\* What a step does to a key: nothing, revoke it, or bind it for the first time.
LEMMA KeyStep ==
    ASSUME IdentityInv, [Next]_vars, NEW p \in Pins, credentials[p] # None
    PROVE  /\ credentials'[p] # None
           /\ credentials'[p].identity = credentials[p].identity
           /\ credentials[p].revoked => credentials'[p].revoked
<1> DEFINE Kept ==
             /\ credentials'[p] # None
             /\ credentials'[p].identity = credentials[p].identity
             /\ credentials[p].revoked => credentials'[p].revoked
<1> SUFFICES Kept
  OBVIOUS
<1>0. Owner \in Identities /\ \A e \in Invites : e \in Identities
  BY DEF Identities
<1>1. CASE UNCHANGED credentials
  BY <1>1
<1>2. ASSUME NEW pin \in Pins, NEW id \in Identities, Unused(pin),
             \/ credentials' = Bind(credentials, pin, id)
             \/ \E ids \in SUBSET Identities :
                   credentials' = Bind(RevokeCredentials(ids), pin, id)
      PROVE  Kept
  <2>1. p # pin
    BY <1>2 DEF Unused
  <2>2. CASE credentials' = Bind(credentials, pin, id)
    BY <2>1, <2>2, BindEffect DEF IdentityInv, IdentityTypeOK
  <2>3. ASSUME NEW ids \in SUBSET Identities,
               credentials' = Bind(RevokeCredentials(ids), pin, id)
        PROVE  Kept
    <3>1. credentials'[p] = RevokeCredentials(ids)[p]
      BY <2>1, <2>3, BindEffect, RevokeTypes DEF IdentityInv
    <3>2. QED
      BY <3>1, RevokeEffect DEF IdentityInv
  <2>4. QED
    BY <1>2, <2>2, <2>3
<1>3. ASSUME NEW ids, credentials' = RevokeCredentials(ids)
      PROVE  Kept
  BY <1>3, RevokeEffect DEF IdentityInv
<1>4. ASSUME NEW pin \in Pins, BootstrapOwner(pin) \/ RecoverOwner(pin)
      PROVE  Kept
  <2>1. /\ Unused(pin)
        /\ \/ credentials' = Bind(credentials, pin, Owner)
           \/ credentials' = Bind(RevokeCredentials(Identities), pin, Owner)
    BY <1>4 DEF BootstrapOwner, RecoverOwner, Free
  <2>2. QED
    BY <1>0, <1>2, <2>1
<1>5. ASSUME NEW e \in Invites, Enroll(e)
      PROVE  Kept
  <2>1. invites[e].pin \in Pins
    BY <1>5 DEF Enroll, IdentityInv, IdentityTypeOK, Invite
  <2>2. Unused(invites[e].pin) /\ credentials' = Bind(credentials, invites[e].pin, e)
    BY <1>5 DEF Enroll
  <2>3. QED
    BY <1>0, <1>2, <2>1, <2>2
<1>6. ASSUME NEW h \in Requests, NEW id \in Identities, NEW n \in 1 .. MaxRevision,
             NEW pin \in Pins, Rotate(h, id, n, pin)
      PROVE  Kept
  <2>1. Unused(pin) /\ credentials' = Bind(RevokeCredentials({id}), pin, id)
    BY <1>6 DEF Rotate, Free
  <2>2. {id} \in SUBSET Identities
    OBVIOUS
  <2>3. QED
    BY <1>2, <2>1, <2>2
<1>7. ASSUME NEW h \in Requests, NEW id \in Identities, NEW n \in 1 .. MaxRevision, Revoke(h, id, n)
      PROVE  Kept
  <2>1. credentials' = RevokeCredentials({id})
    BY <1>7 DEF Revoke
  <2>2. QED
    BY <1>3, <2>1
<1>8. ASSUME \/ Start \/ Stop \/ ClockMoves \/ UNCHANGED vars
             \/ \E h \in Requests :
                   \/ Refused(h)
                   \/ \E pin \in Pins : Authenticate(h, pin)
                   \/ \E e \in Invites, pin \in Pins : CreateEnrollment(h, e, pin)
                   \/ \E n \in 1 .. MaxRevision, e \in Invites, action \in {"enable", "disable"} :
                         EnableOrDisable(h, e, n, action)
      PROVE  Kept
  <2>1. UNCHANGED credentials
    BY <1>8 DEF Start, Stop, ClockMoves, vars, rows, Refused, Authenticate, CreateEnrollment,
                EnableOrDisable
  <2>2. QED
    BY <1>1, <2>1
<1> HIDE DEF Kept
<1>9. QED
  BY <1>4, <1>5, <1>6, <1>7, <1>8 DEF Next

\* A pin is bound to one identity for ever, and a revoked key proves nothing again.
THEOREM PinsStayBound == Spec => PinsNeverReassigned
<1> DEFINE Kept == \A pin \in Pins : credentials[pin] # None =>
                      /\ credentials'[pin] # None
                      /\ credentials'[pin].identity = credentials[pin].identity
                      /\ credentials[pin].revoked => credentials'[pin].revoked
<1>1. IdentityInv /\ [Next]_vars => Kept
  BY KeyStep
<1>2. QED
  BY <1>1, IdentityInvariance, PTL DEF Spec, PinsNeverReassigned

\* What a step of the serving daemon may do without an owner's request.
LEMMA UnaskedStep ==
    ASSUME IdentityInv, Next, up
    PROVE  \/ \E h \in Requests : requests[h] # None /\ requests'[h] = None /\ IsOwner(requests[h])
           \/ /\ \A id \in Identities : principals[id] # None => principals'[id] = principals[id]
              /\ \A e \in Invites : invites[e] = None => invites'[e] = None
<1>1. ASSUME NEW h \in Requests, ActorAllowed(h), requests' = [requests EXCEPT ![h] = None]
      PROVE  requests[h] # None /\ requests'[h] = None /\ IsOwner(requests[h])
  BY <1>1 DEF ActorAllowed, IdentityInv, IdentityTypeOK
<1>2. ASSUME NEW h \in Requests, NEW e \in Invites, NEW pin \in Pins, CreateEnrollment(h, e, pin)
      PROVE  ActorAllowed(h) /\ requests' = [requests EXCEPT ![h] = None]
  BY <1>2 DEF CreateEnrollment
<1>3. ASSUME NEW h \in Requests, NEW n \in 1 .. MaxRevision,
             \/ \E e \in Invites, action \in {"enable", "disable"} : EnableOrDisable(h, e, n, action)
             \/ \E id \in Identities : Revoke(h, id, n) \/ \E pin \in Pins : Rotate(h, id, n, pin)
      PROVE  ActorAllowed(h) /\ requests' = [requests EXCEPT ![h] = None]
  BY <1>3 DEF EnableOrDisable, Revoke, Rotate, Update
<1>4. ASSUME NEW e \in Invites, Enroll(e)
      PROVE  /\ \A id \in Identities : principals[id] # None => principals'[id] = principals[id]
             /\ \A f \in Invites : invites[f] = None => invites'[f] = None
  BY <1>4 DEF Enroll, IdentityInv, IdentityTypeOK
<1>5. ASSUME \/ Start \/ Stop \/ ClockMoves
             \/ \E h \in Requests : Refused(h) \/ \E pin \in Pins : Authenticate(h, pin)
      PROVE  UNCHANGED <<principals, invites>>
  BY <1>5 DEF Start, Stop, ClockMoves, rows, Refused, Authenticate
<1>6. ~ \E pin \in Pins : BootstrapOwner(pin) \/ RecoverOwner(pin)
  BY DEF BootstrapOwner, RecoverOwner
<1>7. QED
  BY <1>1, <1>2, <1>3, <1>4, <1>5, <1>6 DEF Next

\* Only a request of a current owner changes an identity or issues an invitation.
THEOREM OwnersDecide == Spec => OnlyTheOwnerChanges
<1> DEFINE Decided ==
      up => \/ \E h \in Requests : requests[h] # None /\ requests'[h] = None /\ IsOwner(requests[h])
            \/ /\ \A id \in Identities : principals[id] # None => principals'[id] = principals[id]
               /\ \A e \in Invites : invites[e] = None => invites'[e] = None
<1>1. IdentityInv /\ Next => Decided
  BY UnaskedStep
<1>2. UNCHANGED vars => Decided
  BY DEF vars, rows
<1>3. IdentityInv /\ [Next]_vars => Decided
  BY <1>1, <1>2
<1>4. QED
  BY <1>3, IdentityInvariance, PTL DEF Spec, OnlyTheOwnerChanges

\* What a step does to an identity and to its keys: nothing that keeps its revision.
LEMMA IdentityStep ==
    ASSUME IdentityInv, [Next]_vars, NEW id \in Identities, principals[id] # None
    PROVE  \/ /\ principals'[id] = principals[id]
              /\ \A p \in Pins :
                    (credentials'[p] # None /\ credentials'[p].identity = id /\ ~ credentials'[p].revoked)
                       <=> (credentials[p] # None /\ credentials[p].identity = id
                               /\ ~ credentials[p].revoked)
           \/ /\ principals'[id] # None
              /\ principals'[id].revision > principals[id].revision
              /\ principals'[id].revoked => ~ principals'[id].enabled
              /\ principals[id].revoked => (id = Owner /\ ~ up) \/ principals'[id].revoked
<1> DEFINE Proves(creds, p) == creds[p] # None /\ creds[p].identity = id /\ ~ creds[p].revoked
           Same == /\ principals'[id] = principals[id]
                   /\ \A p \in Pins : Proves(credentials', p) <=> Proves(credentials, p)
           Newer == /\ principals'[id] # None
                    /\ principals'[id].revision > principals[id].revision
                    /\ principals'[id].revoked => ~ principals'[id].enabled
                    /\ principals[id].revoked => (id = Owner /\ ~ up) \/ principals'[id].revoked
<1> SUFFICES Same \/ Newer
  OBVIOUS
<1>0. /\ Owner \in Identities /\ Owner \notin Invites /\ \A e \in Invites : e \in Identities
      /\ IdentityTypeOK
      /\ principals[id].revision \in Nat
  BY OwnerAssumption DEF Identities, IdentityInv, IdentityTypeOK, Principal
\* Binding a pin nobody has used to another identity, after revoking keys of others.
<1>1. ASSUME NEW pin \in Pins, NEW other \in Identities, other # id, Unused(pin), NEW ids,
             id \notin ids,
             \/ credentials' = Bind(credentials, pin, other)
             \/ credentials' = Bind(RevokeCredentials(ids), pin, other)
             \/ credentials' = RevokeCredentials(ids)
      PROVE  \A p \in Pins : Proves(credentials', p) <=> Proves(credentials, p)
  <2>1. ASSUME NEW p \in Pins
        PROVE  Proves(RevokeCredentials(ids), p) <=> Proves(credentials, p)
    BY <1>0, <1>1, RevokeEffect
  <2>2. ASSUME NEW p \in Pins, NEW creds \in [Pins -> Credential \cup {None}], creds[pin] = None
        PROVE  Proves(Bind(creds, pin, other), p) <=> Proves(creds, p)
    BY <1>1, <2>2, BindEffect
  <2>3. credentials[pin] = None /\ RevokeCredentials(ids)[pin] = None
    BY <1>0, <1>1, RevokeEffect DEF Unused
  <2>4. /\ credentials \in [Pins -> Credential \cup {None}]
        /\ RevokeCredentials(ids) \in [Pins -> Credential \cup {None}]
    BY <1>0, RevokeTypes DEF IdentityTypeOK
  <2> HIDE DEF Proves
  <2>5. QED
    BY <1>1, <2>1, <2>2, <2>3, <2>4
<1>2. ASSUME NEW pin \in Pins, BootstrapOwner(pin)
      PROVE  Same
  <2>1. id # Owner /\ principals'[id] = principals[id]
    BY <1>0, <1>2 DEF BootstrapOwner, IdentityTypeOK
  <2>2. Unused(pin) /\ credentials' = Bind(credentials, pin, Owner)
    BY <1>2 DEF BootstrapOwner, Free
  <2>3. id \notin {}
    OBVIOUS
  <2>4. \A p \in Pins : Proves(credentials', p) <=> Proves(credentials, p)
    BY <1>0, <1>1, <2>1, <2>2, <2>3
  <2>5. QED
    BY <2>1, <2>4
<1>3. ASSUME NEW pin \in Pins, RecoverOwner(pin)
      PROVE  Newer
  <2>1. /\ ~ up
        /\ principals'[id] = Recovered[id]
        /\ principals[id].revision < MaxRevision
    BY <1>3 DEF RecoverOwner
  <2>2. /\ Recovered[id] # None
        /\ Recovered[id].revoked <=> id # Owner
        /\ Recovered[id].enabled <=> id = Owner
        /\ Recovered[id].revision = principals[id].revision + 1
    BY <1>0, <2>1, RecoveredEffect
  <2>3. principals'[id].revision > principals[id].revision
    BY <1>0, <2>1, <2>2
  <2>4. QED
    BY <2>1, <2>2, <2>3
<1>4. ASSUME NEW e \in Invites, Enroll(e)
      PROVE  Same
  <2>1. e # id /\ principals'[id] = principals[id]
    BY <1>0, <1>4 DEF Enroll, IdentityTypeOK
  <2>2. /\ invites[e].pin \in Pins
        /\ Unused(invites[e].pin)
        /\ credentials' = Bind(credentials, invites[e].pin, e)
    BY <1>0, <1>4 DEF Enroll, IdentityTypeOK, Invite
  <2>3. id \notin {}
    OBVIOUS
  <2>4. \A p \in Pins : Proves(credentials', p) <=> Proves(credentials, p)
    BY <1>0, <1>1, <2>1, <2>2, <2>3
  <2>5. QED
    BY <2>1, <2>4
<1>5. ASSUME NEW h \in Requests, NEW other \in Identities, NEW n \in 1 .. MaxRevision,
             NEW action \in {"enable", "disable", "rotate", "revoke"}, Update(h, other, n, action)
      PROVE  IF other = id THEN Newer ELSE principals'[id] = principals[id]
  <2>1. CASE other # id
    BY <1>0, <1>5, <2>1, UpdateEffect
  <2>2. CASE other = id
    <3>1. /\ ~ principals[id].revoked
          /\ principals'[id] # None
          /\ principals'[id].revision = principals[id].revision + 1
          /\ principals'[id].revoked <=> action = "revoke"
      BY <1>0, <1>5, <2>2, UpdateEffect
    <3>2. principals'[id] = Changed(principals[id], action) /\ Current(id, n)
      BY <1>0, <1>5, <2>2 DEF Update, IdentityTypeOK
    <3>3. action = "revoke" => ~ principals'[id].enabled
      BY <1>0, <3>2, ChangedTypes
    <3>4. principals'[id].revision > principals[id].revision
      BY <1>0, <3>1
    <3>5. QED
      BY <2>2, <3>1, <3>3, <3>4
  <2>3. QED
    BY <2>1, <2>2
<1>6. ASSUME NEW h \in Requests, NEW e \in Invites, NEW n \in 1 .. MaxRevision,
             NEW action \in {"enable", "disable"}, EnableOrDisable(h, e, n, action)
      PROVE  Same \/ Newer
  <2>1. Update(h, e, n, action) /\ UNCHANGED credentials
    BY <1>6 DEF EnableOrDisable
  <2>2. IF e = id THEN Newer ELSE principals'[id] = principals[id]
    BY <1>0, <1>5, <2>1
  <2>3. QED
    BY <2>1, <2>2
<1>7. ASSUME NEW h \in Requests, NEW other \in Identities, NEW n \in 1 .. MaxRevision,
             Revoke(h, other, n)
      PROVE  Same \/ Newer
  <2>1. Update(h, other, n, "revoke") /\ credentials' = RevokeCredentials({other})
    BY <1>7 DEF Revoke
  <2>2. IF other = id THEN Newer ELSE principals'[id] = principals[id]
    BY <1>5, <2>1
  <2>3. other # id => \A p \in Pins : Proves(credentials', p) <=> Proves(credentials, p)
    BY <1>0, <2>1, RevokeEffect
  <2>4. QED
    BY <2>2, <2>3
<1>8. ASSUME NEW h \in Requests, NEW other \in Identities, NEW n \in 1 .. MaxRevision,
             NEW pin \in Pins, Rotate(h, other, n, pin)
      PROVE  Same \/ Newer
  <2>1. /\ Update(h, other, n, "rotate") /\ Unused(pin)
        /\ credentials' = Bind(RevokeCredentials({other}), pin, other)
    BY <1>8 DEF Rotate, Free
  <2>2. IF other = id THEN Newer ELSE principals'[id] = principals[id]
    BY <1>5, <2>1
  <2>3. other # id => id \notin {other}
    OBVIOUS
  <2>4. other # id => \A p \in Pins : Proves(credentials', p) <=> Proves(credentials, p)
    BY <1>1, <2>1, <2>3
  <2>5. QED
    BY <2>2, <2>4
<1>9. ASSUME \/ Start \/ Stop \/ ClockMoves \/ UNCHANGED vars
             \/ \E h \in Requests :
                   \/ Refused(h)
                   \/ \E pin \in Pins : Authenticate(h, pin)
                   \/ \E e \in Invites, pin \in Pins : CreateEnrollment(h, e, pin)
      PROVE  Same
  <2>1. UNCHANGED <<principals, credentials>>
    BY <1>9 DEF Start, Stop, ClockMoves, vars, rows, Refused, Authenticate, CreateEnrollment
  <2>2. QED
    BY <2>1
<1> HIDE DEF Same, Newer
<1>10. QED
  BY <1>2, <1>3, <1>4, <1>6, <1>7, <1>8, <1>9 DEF Next

\* A revoked identity is not enabled.
RevokedIsDisabled ==
    \A id \in Identities : principals[id] # None /\ principals[id].revoked => ~ principals[id].enabled

\* A row is inserted unrevoked, and revoked only together with its enablement.
LEMMA RevokedStaysDisabled == IdentityInv /\ RevokedIsDisabled /\ [Next]_vars => RevokedIsDisabled'
<1> SUFFICES ASSUME IdentityInv, RevokedIsDisabled, [Next]_vars,
                    NEW id \in Identities, principals'[id] # None, principals'[id].revoked
             PROVE  ~ principals'[id].enabled
  BY DEF RevokedIsDisabled
<1>1. CASE principals[id] # None
  BY <1>1, IdentityStep DEF RevokedIsDisabled
<1>2. CASE principals[id] = None
  <2>1. ASSUME NEW h \in Requests, NEW other \in Identities, NEW n \in 1 .. MaxRevision,
               NEW action \in {"enable", "disable", "rotate", "revoke"}, Update(h, other, n, action)
        PROVE  FALSE
    BY <1>2, <2>1, UpdateEffect DEF IdentityInv
  <2>2. ASSUME NEW pin \in Pins, BootstrapOwner(pin)
        PROVE  FALSE
    <3>1. CASE id = Owner
      <4>1. principals'[id] = [enabled |-> TRUE, revoked |-> FALSE, revision |-> 1]
        BY <2>2, <3>1 DEF BootstrapOwner, IdentityInv, IdentityTypeOK
      <4>2. QED
        BY <4>1
    <3>2. CASE id # Owner
      BY <1>2, <2>2, <3>2 DEF BootstrapOwner, IdentityInv, IdentityTypeOK
    <3>3. QED
      BY <3>1, <3>2
  <2>3. ASSUME NEW pin \in Pins, RecoverOwner(pin)
        PROVE  FALSE
    BY <1>2, <2>3, RecoveredEffect DEF RecoverOwner, IdentityInv
  <2>4. ASSUME NEW e \in Invites, Enroll(e)
        PROVE  FALSE
    <3>1. CASE id = e
      <4>1. principals'[id] = [enabled |-> FALSE, revoked |-> FALSE, revision |-> 1]
        BY <2>4, <3>1 DEF Enroll, IdentityInv, IdentityTypeOK
      <4>2. QED
        BY <4>1
    <3>2. CASE id # e
      BY <1>2, <2>4, <3>2 DEF Enroll, IdentityInv, IdentityTypeOK
    <3>3. QED
      BY <3>1, <3>2
  <2>5. ASSUME NEW h \in Requests, NEW n \in 1 .. MaxRevision,
               \/ \E e \in Invites, action \in {"enable", "disable"} : EnableOrDisable(h, e, n, action)
               \/ \E other \in Identities : Revoke(h, other, n) \/ \E pin \in Pins : Rotate(h, other, n, pin)
        PROVE  FALSE
    BY <2>1, <2>5 DEF EnableOrDisable, Revoke, Rotate, Identities
  <2>6. ASSUME \/ Start \/ Stop \/ ClockMoves \/ UNCHANGED vars
               \/ \E h \in Requests :
                     \/ Refused(h)
                     \/ \E pin \in Pins : Authenticate(h, pin)
                     \/ \E e \in Invites, pin \in Pins : CreateEnrollment(h, e, pin)
        PROVE  FALSE
    <3>1. UNCHANGED principals
      BY <2>6 DEF Start, Stop, ClockMoves, vars, rows, Refused, Authenticate, CreateEnrollment
    <3>2. QED
      BY <1>2, <3>1
  <2>7. QED
    BY <2>2, <2>3, <2>4, <2>5, <2>6 DEF Next
<1>3. QED
  BY <1>1, <1>2

\* A runner's revocation is final; only recovery, with no daemon serving, ends the owner's.
THEOREM RevocationIsFinal == Spec => RevokedForGood
<1> DEFINE Final == \A id \in Identities : principals[id] # None /\ principals[id].revoked =>
                       \/ principals'[id].revoked /\ ~ principals'[id].enabled
                       \/ id = Owner /\ ~ up
<1>1. Init => RevokedIsDisabled
  BY DEF Init, RevokedIsDisabled
<1>2. IdentityInv /\ RevokedIsDisabled /\ [Next]_vars => Final
  BY IdentityStep DEF RevokedIsDisabled
<1>3. QED
  BY <1>1, <1>2, RevokedStaysDisabled, IdentityInvariance, PTL DEF Spec, RevokedForGood

\* What an owner saw of an identity and its keys is unchanged while the revision is.
THEOREM RevisionsTell == Spec => RevisionTellsChanges
<1> DEFINE Told == \A id \in Identities : principals[id] # None =>
                      \/ principals'[id].revision > principals[id].revision
                      \/ principals'[id] = principals[id] /\ Keys(id)' = Keys(id)
<1>1. IdentityInv /\ [Next]_vars => Told
  <2> SUFFICES ASSUME IdentityInv, [Next]_vars, NEW id \in Identities, principals[id] # None,
                      ~ principals'[id].revision > principals[id].revision
               PROVE  principals'[id] = principals[id] /\ Keys(id)' = Keys(id)
    OBVIOUS
  <2>1. /\ principals'[id] = principals[id]
        /\ \A p \in Pins :
              (credentials'[p] # None /\ credentials'[p].identity = id /\ ~ credentials'[p].revoked)
                 <=> (credentials[p] # None /\ credentials[p].identity = id /\ ~ credentials[p].revoked)
    BY IdentityStep
  <2>2. \A p \in Pins : Is(p, id)' <=> Is(p, id)
    BY <2>1 DEF Is
  <2>3. QED
    BY <2>1, <2>2 DEF Keys
<1>2. QED
  BY <1>1, IdentityInvariance, PTL DEF Spec, RevisionTellsChanges

\* A key proves one identity and an identity has one live key.
THEOREM KeysExclude == Spec => []KeysAreExclusive
BY PinsStayReserved, LiveKeysAreSingle, PTL DEF KeysAreExclusive

\* No revoked key or identity comes back, but for the owner's recovery.
THEOREM RevocationKept == Spec => RevocationHolds
BY PinsStayBound, RevocationIsFinal DEF RevocationHolds

\* An identity and its keys change by an owner who is one, and visibly.
THEOREM ChangesAreOwned == Spec => ChangesAreTheOwners
  BY OwnersDecide, RevisionsTell DEF ChangesAreTheOwners

LeaseTypeOK ==
    /\ issued \in [Nonces -> [validity : Nat, at : Nat] \cup {NoLease}]
    /\ daemonNow \in Nat /\ skew \in 0..Drift
    /\ request \in [nonce : Nonces, boot : Nat, sent_ms : Int] \cup {NoLease}
    /\ sent \subseteq [nonce : Nonces, boot : Nat]
    /\ boot \in Nat
    /\ cutoff \in Int \cup {NoLease}

\* Only what was asked is issued, and what is asked is not issued before.
IssuedWasAsked == \A n \in Nonces : issued[n] # NoLease => \E m \in sent : m.nonce = n

\* The daemon's clock has passed the send of an outstanding request, less the drift, and
\* had when it issued the answer.
SentBeforeIssued ==
    request # NoLease =>
        /\ request.sent_ms - Drift <= daemonNow
        /\ issued[request.nonce] # NoLease => request.sent_ms - Drift <= issued[request.nonce].at

\* Running work has a cutoff that leaves room for its stop, on both clocks.
Covered(n) == issued[n] # NoLease /\ cutoff + Termination <= issued[n].at + issued[n].validity
WorkIsCovered ==
    work = "running" =>
        /\ cutoff \in Int
        /\ RunnerNow <= cutoff + Termination
        /\ \E n \in Nonces : Covered(n)

LeaseInv == LeaseTypeOK /\ IssuedWasAsked /\ SentBeforeIssued /\ WorkIsCovered

\* The runner starts with nothing asked and no work.
LEMMA LeaseStarts == LeaseInit => LeaseInv
<1> SUFFICES ASSUME LeaseInit PROVE LeaseInv
  OBVIOUS
<1>1. LeaseTypeOK
  BY LeaseAssumption DEF LeaseInit, LeaseTypeOK
<1>2. IssuedWasAsked /\ SentBeforeIssued /\ WorkIsCovered
  BY DEF LeaseInit, IssuedWasAsked, SentBeforeIssued, WorkIsCovered
<1>3. QED
  BY <1>1, <1>2 DEF LeaseInv

\* Every step of either clock, of the runner and of the daemon keeps it.
LEMMA LeaseKept == LeaseInv /\ [LeaseNext]_leaseVars => LeaseInv'
<1> SUFFICES ASSUME LeaseInv, [LeaseNext]_leaseVars PROVE LeaseInv'
  OBVIOUS
<1> USE LeaseAssumption DEF LeaseInv
<1>1. ASSUME NEW n \in Nonces, Ask(n)
      PROVE  LeaseInv'
  <2>1. issued[n] = NoLease
    <3>1. n \notin {m.nonce : m \in sent}
      <4>1. n \in Nat /\ ~ n < n
        OBVIOUS
      <4>2. QED
        BY <1>1, <4>1 DEF Ask
    <3>2. \A m \in sent : m.nonce # n
      BY <3>1
    <3>3. QED
      BY <3>2 DEF IssuedWasAsked
  <2>2. LeaseTypeOK'
    BY <1>1 DEF Ask, LeaseTypeOK, RunnerNow
  <2>3. IssuedWasAsked'
    BY <1>1 DEF Ask, IssuedWasAsked
  <2>4. request'.sent_ms - Drift <= daemonNow' /\ issued'[request'.nonce] = NoLease
    BY <1>1, <2>1 DEF Ask, LeaseTypeOK, RunnerNow
  <2>5. SentBeforeIssued'
    BY <2>4 DEF SentBeforeIssued
  <2>6. WorkIsCovered'
    BY <1>1 DEF Ask, WorkIsCovered, Covered, RunnerNow
  <2>7. QED
    BY <2>2, <2>3, <2>5, <2>6
<1>2. ASSUME NEW m \in sent, NEW v \in Validities, Issue(m, v)
      PROVE  LeaseInv'
  <2>1. m.nonce \in Nonces /\ v \in Nat
    BY DEF LeaseTypeOK
  <2>2. \A n \in Nonces : issued'[n] = IF n = m.nonce THEN [validity |-> v, at |-> daemonNow]
                                       ELSE issued[n]
    BY <1>2 DEF Issue, LeaseTypeOK
  <2>3. LeaseTypeOK'
    BY <1>2, <2>1 DEF Issue, LeaseTypeOK
  <2>4. IssuedWasAsked'
    BY <1>2, <2>2 DEF Issue, IssuedWasAsked
  <2>5. SentBeforeIssued'
    BY <1>2, <2>2 DEF Issue, SentBeforeIssued, LeaseTypeOK
  <2>6. \A n \in Nonces : Covered(n) => Covered(n)'
    BY <1>2, <2>2 DEF Issue, Covered
  <2>7. WorkIsCovered'
    BY <1>2, <2>6 DEF Issue, WorkIsCovered, RunnerNow
  <2>8. QED
    BY <2>3, <2>4, <2>5, <2>7
<1>3. ASSUME NEW m \in sent, Reply(m)
      PROVE  LeaseInv'
  <2> DEFINE i == issued[m.nonce]
  <2>1. /\ request \in [nonce : Nonces, boot : Nat, sent_ms : Int]
        /\ i \in [validity : Nat, at : Nat] /\ i # NoLease
        /\ m.nonce \in Nonces /\ request.nonce = m.nonce
    BY <1>3 DEF Reply, CheckLease, NonceActive, LeaseTypeOK
  <2>2. request.sent_ms - Drift <= i.at
    BY <1>3, <2>1 DEF SentBeforeIssued, Reply
  <2>3. cutoff' = request.sent_ms + i.validity - Drift - Termination /\ RunnerNow < cutoff'
    BY <1>3 DEF Reply, CheckLease, InTime, StopBy
  <2>4. cutoff' \in Int /\ cutoff' + Termination <= i.at + i.validity
    BY <2>1, <2>2, <2>3
  <2>5. Covered(m.nonce)'
    BY <1>3, <2>1, <2>4 DEF Reply, Covered
  <2>6. RunnerNow' <= cutoff' + Termination
    BY <1>3, <2>3, <2>4 DEF Reply, RunnerNow, LeaseTypeOK
  <2>7. WorkIsCovered'
    BY <2>1, <2>4, <2>5, <2>6 DEF WorkIsCovered
  <2>8. LeaseTypeOK'
    BY <1>3, <2>4 DEF Reply, LeaseTypeOK
  <2>9. IssuedWasAsked' /\ SentBeforeIssued'
    BY <1>3 DEF Reply, IssuedWasAsked, SentBeforeIssued
  <2>10. QED
    BY <2>7, <2>8, <2>9
<1>4. CASE Watchdog \/ GiveUp \/ UNCHANGED leaseVars
  <2>1. UNCHANGED <<issued, daemonNow, skew, boot, sent, cutoff>>
        /\ request' \in {request, NoLease} /\ (work' = "running" => work = "running")
    BY <1>4 DEF Watchdog, GiveUp, leaseVars
  <2>2. LeaseTypeOK'
    BY <2>1 DEF LeaseTypeOK
  <2>3. IssuedWasAsked' /\ SentBeforeIssued'
    BY <2>1 DEF IssuedWasAsked, SentBeforeIssued
  <2>4. WorkIsCovered'
    BY <2>1 DEF WorkIsCovered, Covered, RunnerNow
  <2>5. QED
    BY <2>2, <2>3, <2>4
<1>5. CASE Reboot
  <2>1. LeaseTypeOK'
    BY <1>5 DEF Reboot, LeaseTypeOK
  <2>2. IssuedWasAsked' /\ SentBeforeIssued' /\ WorkIsCovered'
    BY <1>5 DEF Reboot, IssuedWasAsked, SentBeforeIssued, WorkIsCovered
  <2>3. QED
    BY <2>1, <2>2
<1>6. ASSUME NEW daemon \in 0..1, NEW runner \in 0..1, Tick(daemon, runner)
      PROVE  LeaseInv'
  <2>1. /\ daemonNow' \in Nat /\ daemonNow' >= daemonNow /\ skew' \in 0..Drift
        /\ RunnerNow' = RunnerNow + runner
        /\ UNCHANGED <<issued, boot, request, sent, cutoff, work>>
    BY <1>6 DEF Tick, LeaseTypeOK, RunnerNow
  <2>2. LeaseTypeOK'
    BY <2>1 DEF LeaseTypeOK
  <2>3. IssuedWasAsked'
    BY <2>1 DEF IssuedWasAsked
  <2>4. SentBeforeIssued'
    BY <2>1 DEF SentBeforeIssued, LeaseTypeOK
  <2>5. work = "running" => RunnerNow' <= cutoff + Termination
    BY <1>6, <2>1 DEF Tick, Overdue, WorkIsCovered, LeaseTypeOK, RunnerNow
  <2>6. WorkIsCovered'
    BY <2>1, <2>5 DEF WorkIsCovered, Covered
  <2>7. QED
    BY <2>2, <2>3, <2>4, <2>6
<1>7. QED
  BY <1>1, <1>2, <1>3, <1>4, <1>5, <1>6 DEF LeaseNext

\* No work runs, on the daemon's clock, past the end of every lease the daemon issued.
THEOREM WorkEndsWithItsLease == LeaseSpec => []NoWorkOutlivesItsLease
<1>1. LeaseInv => NoWorkOutlivesItsLease
  <2> SUFFICES ASSUME LeaseInv, work = "running"
               PROVE  \E n \in Nonces :
                         issued[n] # NoLease /\ daemonNow <= issued[n].at + issued[n].validity
    BY DEF NoWorkOutlivesItsLease
  <2>1. PICK n \in Nonces : Covered(n)
    BY DEF LeaseInv, WorkIsCovered
  <2>2. daemonNow <= cutoff + Termination /\ cutoff \in Int
    BY LeaseAssumption DEF LeaseInv, LeaseTypeOK, WorkIsCovered, RunnerNow
  <2>3. issued[n] \in [validity : Nat, at : Nat]
    BY <2>1 DEF LeaseInv, LeaseTypeOK, Covered
  <2>4. QED
    BY <2>1, <2>2, <2>3, LeaseAssumption DEF Covered, LeaseInv, LeaseTypeOK
<1>2. QED
  BY <1>1, LeaseStarts, LeaseKept, PTL DEF LeaseSpec

-----------------------------------------------------------------------------
(* A snapshot *)

Rows == {Absent} \cup [kind : Denials \cup {"eligible"}, at : Nat \cup {Absent}]
StatusTypeOK ==
    /\ now \in Nat /\ legacy \in BOOLEAN
    /\ table \in [Upstream -> Rows]
    /\ denied \in [Configured -> Nat \cup {Absent}]
    /\ reading \in {Absent} \cup [since : Nat, payload : {Absent} \cup [Upstream -> Rows]]
    /\ reading # Absent => reading.since <= now /\ now <= reading.since + TimeoutMs

\* What rows say is denied was held denied as late as they say; a legacy row that is
\* disabled says so of the time it is read at.
HeldBy(read, time) ==
    \A c \in Configured :
        Denies(read[c], time) # Absent => denied[c] # Absent /\ Denies(read[c], time) <= denied[c]
RowsAreHeld ==
    /\ HeldBy(table, now)
    /\ reading # Absent /\ reading.payload # Absent => HeldBy(reading.payload, reading.since)

\* The slack of a legacy observation, whose disabled rows carry the time of the read.
Slack == IF legacy THEN TimeoutMs ELSE 0
ObservationIsHeld ==
    observation # Absent /\ observation.readiness = "not_ready" =>
        /\ observation.validity_until \in Nat
        /\ \A c \in Route : /\ denied[c] # Absent
                            /\ observation.validity_until <= denied[c] + FreshnessMs + Slack

StatusInv == StatusTypeOK /\ RowsAreHeld /\ ObservationIsHeld

\* A set of numbers has a least one.
LEMMA MinIsLeast ==
    ASSUME NEW S, S \subseteq Nat, S # {}
    PROVE  Min(S) \in S /\ \A y \in S : Min(S) <= y
<1> DEFINE R == OpToRel(<, Nat)
<1>1. PICK x \in S : \A y \in S : <<y, x>> \notin R
  <2>1. IsWellFoundedOn(R, Nat)
    BY NatLessThanWellFounded DEF R
  <2>2. QED
    BY <2>1, WFMin
<1>2. \A y \in S : x <= y
  <2>1. ASSUME NEW y \in S, ~(x <= y) PROVE FALSE
    <3>1. x \in Nat /\ y \in Nat /\ y < x
      BY <2>1
    <3>2. QED
      BY <1>1, <3>1 DEF OpToRel
  <2>2. QED
    BY <2>1
<1>3. QED
  BY <1>2 DEF Min

\* The later of two times, either of which may be missing, is no earlier than both.
LEMMA LatestIsLater ==
    ASSUME NEW a \in Nat \cup {Absent}, NEW b \in Nat \cup {Absent}
    PROVE  /\ Latest(a, b) \in Nat \cup {Absent}
           /\ a # Absent => Latest(a, b) # Absent /\ a <= Latest(a, b)
           /\ b # Absent => Latest(a, b) # Absent /\ b <= Latest(a, b)
  BY RouteAssumption DEF Latest

\* A denial has a time, which is no later when it is read earlier.
LEMMA DenialsAreTimed ==
    ASSUME legacy \in BOOLEAN, NEW row \in Rows, NEW time \in Nat, NEW earlier \in Nat, earlier <= time
    PROVE  /\ Denies(row, time) \in Nat \cup {Absent}
           /\ Denies(row, earlier) # Absent => Denies(row, time) # Absent /\ Denies(row, earlier) <= Denies(row, time)
  BY RouteAssumption DEF Denies, Rows, Denials

\* What was held stays held while denials only come later.
LEMMA HeldStays ==
    ASSUME StatusTypeOK, NEW read \in [Upstream -> Rows], NEW time \in Nat, HeldBy(read, time),
           denied' \in [Configured -> Nat \cup {Absent}], legacy' = legacy,
           \A c \in Configured : denied[c] # Absent => denied'[c] # Absent /\ denied[c] <= denied'[c]
    PROVE  \A c \in Configured :
              Denies(read[c], time) # Absent => denied'[c] # Absent /\ Denies(read[c], time) <= denied'[c]
<1> SUFFICES ASSUME NEW c \in Configured, Denies(read[c], time) # Absent
             PROVE  denied'[c] # Absent /\ Denies(read[c], time) <= denied'[c]
  OBVIOUS
<1>1. read[c] \in Rows /\ time <= time
  BY DEF Upstream
<1>2. Denies(read[c], time) \in Nat
  BY <1>1, DenialsAreTimed DEF StatusTypeOK
<1>3. denied[c] # Absent /\ Denies(read[c], time) <= denied[c] /\ denied[c] \in Nat /\ denied'[c] \in Nat
  BY <1>2 DEF HeldBy, StatusTypeOK
<1>4. denied[c] <= denied'[c] /\ denied'[c] # Absent
  BY <1>3
<1>5. QED
  BY <1>2, <1>3, <1>4

\* A projected denial is valid no longer than the freshness of what the router held.
LEMMA ProjectedDenials ==
    ASSUME StatusTypeOK, NEW read \in [Upstream -> Rows], NEW since \in Nat,
           since <= now, now <= since + TimeoutMs, HeldBy(read, since),
           NEW c \in Configured, Project(read[c]).state \in Denials
    PROVE  /\ Project(read[c]).validity_until \in Nat /\ denied[c] # Absent
           /\ Project(read[c]).validity_until <= denied[c] + FreshnessMs + Slack
<1> DEFINE row == read[c]
<1>1. row \in Rows /\ denied[c] \in Nat \cup {Absent} /\ now \in Nat /\ legacy \in BOOLEAN
  BY DEF Upstream, StatusTypeOK
<1>2. Denies(row, since) # Absent => denied[c] # Absent /\ Denies(row, since) <= denied[c]
  BY DEF HeldBy
<1>3. Project(row).state \in Denials
  OBVIOUS
<1> HIDE DEF row
<1>4. row # Absent /\ row.kind \in Denials
  BY <1>1, <1>3 DEF Project, ProjectConnection, ProjectLegacyConnection, NoRow, Row, Aged, Denials, Rows
<1>5. CASE legacy /\ row.kind = "disabled"
  <2>1. Project(row) = Row("disabled", now) /\ Denies(row, since) = since
    BY <1>4, <1>5 DEF Project, ProjectLegacyConnection, Denies
  <2>2. denied[c] \in Nat /\ denied[c] # Absent /\ since <= denied[c]
    BY <1>1, <1>2, <2>1, RouteAssumption
  <2>3. Project(row).validity_until = now + FreshnessMs
    BY <1>1, <2>1, RouteAssumption DEF Row
  <2>4. QED
    BY <1>1, <1>5, <2>2, <2>3, RouteAssumption DEF Slack, row
<1>6. CASE ~(legacy /\ row.kind = "disabled")
  <2>1. row.at # Absent /\ Project(row).validity_until = row.at + FreshnessMs
    <3>1. CASE legacy
      BY <1>1, <1>3, <1>4, <1>6, <3>1 DEF Project, ProjectLegacyConnection, NoRow, Row, Aged, Denials
    <3>2. CASE ~legacy
      BY <1>1, <1>3, <1>4, <1>6, <3>2 DEF Project, ProjectConnection, NoRow, Row, Aged, Denials
    <3>3. QED
      BY <3>1, <3>2
  <2>2. row.at \in Nat /\ Denies(row, since) = row.at
    BY <1>1, <1>4, <1>6, <2>1 DEF Denies, Rows
  <2>3. denied[c] \in Nat /\ denied[c] # Absent /\ row.at <= denied[c]
    BY <1>1, <1>2, <2>1, <2>2
  <2>4. QED
    BY <1>1, <2>1, <2>2, <2>3, RouteAssumption DEF Slack, row
<1>7. QED
  BY <1>5, <1>6

\* An observation that denies the whole route is valid as long as each denial it rests on.
LEMMA ObservedDenials ==
    ASSUME StatusTypeOK, NEW read \in [Upstream -> Rows], NEW since \in Nat,
           since <= now, now <= since + TimeoutMs, HeldBy(read, since),
           Observe(read).readiness = "not_ready"
    PROVE  /\ Observe(read).validity_until \in Nat
           /\ \A c \in Route : /\ denied[c] # Absent
                               /\ Observe(read).validity_until <= denied[c] + FreshnessMs + Slack
<1> DEFINE seen == [c \in Route |-> IF Rejected(read[c]) THEN NoRow ELSE Project(read[c])]
           bad == Foreigners(read) # {} \/ \E c \in Route : Rejected(read[c])
           ends == {seen[c].validity_until : c \in Route}
<1>1. Observe(read) = Reading(seen, bad)
  BY DEF Observe
<1>2. ~bad /\ (\A c \in Route : seen[c].state \in Denials) /\ Observe(read).validity_until = ValidityUntil(seen)
  <2> HIDE DEF seen, bad
  <2>1. QED
    BY <1>1 DEF Reading, Unobserved
<1>3. \A c \in Route : seen[c] = Project(read[c])
  BY <1>2
<1>4. \A c \in Route : /\ seen[c].validity_until \in Nat /\ denied[c] # Absent /\ denied[c] \in Nat
                       /\ seen[c].validity_until <= denied[c] + FreshnessMs + Slack
  <2> SUFFICES ASSUME NEW c \in Route
               PROVE  /\ seen[c].validity_until \in Nat /\ denied[c] # Absent /\ denied[c] \in Nat
                      /\ seen[c].validity_until <= denied[c] + FreshnessMs + Slack
    OBVIOUS
  <2>1. seen[c] = Project(read[c]) /\ seen[c].state \in Denials /\ c \in Configured
    BY <1>2, <1>3, RouteAssumption
  <2> HIDE DEF seen, bad
  <2>2. /\ Project(read[c]).validity_until \in Nat /\ denied[c] # Absent
        /\ Project(read[c]).validity_until <= denied[c] + FreshnessMs + Slack
    BY <2>1, ProjectedDenials
  <2>3. denied[c] \in Nat
    BY <2>1, <2>2 DEF StatusTypeOK
  <2>4. QED
    BY <2>1, <2>2, <2>3
<1> HIDE DEF seen, bad
<1>5. ends \subseteq Nat /\ ends # {}
  BY <1>4, RouteAssumption
<1>6. Min(ends) \in ends /\ \A y \in ends : Min(ends) <= y
  BY <1>5, MinIsLeast
<1>7. PICK least : least = Min(ends)
  OBVIOUS
<1>8. Observe(read).validity_until = least /\ least \in Nat
  BY <1>2, <1>5, <1>6, <1>7 DEF ValidityUntil
<1>9. ASSUME NEW c \in Route
      PROVE  denied[c] # Absent /\ least <= denied[c] + FreshnessMs + Slack
  <2>1. least <= seen[c].validity_until
    BY <1>6, <1>7
  <2>2. Slack \in Nat
    BY RouteAssumption DEF Slack
  <2>3. QED
    BY <1>4, <1>8, <2>1, <2>2, RouteAssumption
<1>10. QED
  BY <1>8, <1>9

\* Nothing is read or observed at first.
LEMMA StatusStarts == StatusInit => StatusInv
  BY RouteAssumption DEF StatusInit, StatusInv, StatusTypeOK, RowsAreHeld, HeldBy, ObservationIsHeld, Rows,
     Upstream, Denies

\* Every step keeps what was denied at or after what says so.
LEMMA StatusKept == StatusInv /\ [StatusNext]_statusVars => StatusInv'
<1> SUFFICES ASSUME StatusInv, [StatusNext]_statusVars PROVE StatusInv'
  OBVIOUS
<1>1. StatusTypeOK /\ now \in Nat
  BY DEF StatusInv, StatusTypeOK
<1>2. CASE StartRead
  <2>1. UNCHANGED <<now, legacy, table, denied, observation>> /\ reading' = [since |-> now, payload |-> Absent]
    BY <1>2 DEF StartRead
  <2>2. StatusTypeOK'
    BY <1>1, <2>1, RouteAssumption DEF StatusTypeOK
  <2>3. RowsAreHeld' /\ ObservationIsHeld'
    BY <2>1 DEF StatusInv, RowsAreHeld, HeldBy, Denies, ObservationIsHeld, Slack
  <2>4. QED
    BY <2>2, <2>3 DEF StatusInv
<1>3. CASE Respond
  <2>1. /\ UNCHANGED <<now, legacy, table, denied, observation>>
        /\ reading # Absent /\ reading' = [reading EXCEPT !.payload = table]
    BY <1>3 DEF Respond
  <2>2. reading \in [since : Nat, payload : {Absent} \cup [Upstream -> Rows]] /\ table \in [Upstream -> Rows]
    BY <1>1, <2>1 DEF StatusTypeOK
  <2>3. /\ reading' \in [since : Nat, payload : {Absent} \cup [Upstream -> Rows]]
        /\ reading'.since = reading.since /\ reading'.payload = table
    BY <2>1, <2>2
  <2>4. StatusTypeOK'
    BY <1>1, <2>1, <2>3 DEF StatusTypeOK
  <2>5. HeldBy(table, reading.since)
    <3>1. ASSUME NEW c \in Configured, Denies(table[c], reading.since) # Absent
          PROVE  denied[c] # Absent /\ Denies(table[c], reading.since) <= denied[c]
      <4>1. table[c] \in Rows /\ denied[c] \in Nat \cup {Absent}
        BY <1>1 DEF StatusTypeOK, Upstream
      <4>2. reading.since \in Nat /\ reading.since <= now /\ legacy \in BOOLEAN
        BY <1>1, <2>1, <2>2 DEF StatusTypeOK
      <4>3. /\ Denies(table[c], now) # Absent /\ Denies(table[c], reading.since) <= Denies(table[c], now)
            /\ Denies(table[c], now) \in Nat \cup {Absent} /\ Denies(table[c], reading.since) \in Nat \cup {Absent}
        BY <1>1, <3>1, <4>1, <4>2, DenialsAreTimed
      <4>4. denied[c] # Absent /\ Denies(table[c], now) <= denied[c]
        BY <4>3 DEF StatusInv, RowsAreHeld, HeldBy
      <4>5. QED
        BY <3>1, <4>1, <4>3, <4>4
    <3>2. QED
      BY <3>1 DEF HeldBy
  <2>6. RowsAreHeld' /\ ObservationIsHeld'
    BY <2>1, <2>3, <2>5 DEF StatusInv, RowsAreHeld, HeldBy, Denies, ObservationIsHeld, Slack
  <2>7. QED
    BY <2>4, <2>6 DEF StatusInv
<1>4. CASE Complete
  <2>1. /\ UNCHANGED <<now, legacy, table, denied>> /\ reading # Absent /\ reading.payload # Absent
        /\ reading' = Absent /\ observation' = Observe(reading.payload)
    BY <1>4 DEF Complete
  <2>2. StatusTypeOK'
    BY <1>1, <2>1 DEF StatusTypeOK
  <2>3. RowsAreHeld'
    BY <2>1 DEF StatusInv, RowsAreHeld, HeldBy, Denies
  <2>4. ASSUME observation'.readiness = "not_ready"
        PROVE  /\ observation'.validity_until \in Nat
               /\ \A c \in Route : /\ denied[c] # Absent
                                   /\ observation'.validity_until <= denied[c] + FreshnessMs + Slack
    <3>1. /\ reading.payload \in [Upstream -> Rows] /\ reading.since \in Nat
          /\ reading.since <= now /\ now <= reading.since + TimeoutMs
      BY <1>1, <2>1 DEF StatusTypeOK
    <3>2. HeldBy(reading.payload, reading.since)
      BY <2>1 DEF StatusInv, RowsAreHeld
    <3>3. Observe(reading.payload).readiness = "not_ready"
      BY <2>1, <2>4
    <3>4. QED
      BY <1>1, <2>1, <3>1, <3>2, <3>3, ObservedDenials
  <2>5. ObservationIsHeld'
    BY <2>1, <2>4 DEF ObservationIsHeld, Slack
  <2>6. QED
    BY <2>2, <2>3, <2>5 DEF StatusInv
<1>5. ASSUME NEW reason \in {"malformed_observation", "router_unreachable"}, FailRead(reason)
      PROVE  StatusInv'
  <2>1. /\ UNCHANGED <<now, legacy, table, denied>> /\ reading' = Absent
        /\ observation' = [Unobserved EXCEPT !.reason = reason]
    BY <1>5 DEF FailRead
  <2>2. observation'.readiness = "unknown"
    BY <2>1 DEF Unobserved
  <2>3. StatusTypeOK'
    BY <1>1, <2>1 DEF StatusTypeOK
  <2>4. QED
    BY <2>1, <2>2, <2>3 DEF StatusInv, RowsAreHeld, HeldBy, Denies, ObservationIsHeld
<1>6. ASSUME denied' \in [Configured -> Nat \cup {Absent}], legacy' = legacy, reading' = reading, observation' = observation,
             \A c \in Configured : denied[c] # Absent => denied'[c] # Absent /\ denied[c] <= denied'[c]
      PROVE  /\ reading # Absent /\ reading.payload # Absent => HeldBy(reading.payload, reading.since)'
             /\ ObservationIsHeld'
  <2>1. ASSUME reading # Absent, reading.payload # Absent PROVE HeldBy(reading.payload, reading.since)'
    <3>1. /\ reading.payload \in [Upstream -> Rows] /\ reading.since \in Nat
          /\ HeldBy(reading.payload, reading.since)
      BY <1>1, <2>1 DEF StatusTypeOK, StatusInv, RowsAreHeld
    <3>2. \A c \in Configured :
             Denies(reading.payload[c], reading.since) # Absent =>
                denied'[c] # Absent /\ Denies(reading.payload[c], reading.since) <= denied'[c]
      BY <1>1, <1>6, <3>1, HeldStays
    <3>3. QED
      BY <1>6, <3>2 DEF HeldBy, Denies
  <2>2. ObservationIsHeld'
    <3>1. ASSUME observation # Absent, observation.readiness = "not_ready", NEW c \in Route
          PROVE  /\ observation.validity_until \in Nat /\ denied'[c] # Absent
                 /\ observation.validity_until <= denied'[c] + FreshnessMs + Slack
      <4>1. /\ observation.validity_until \in Nat /\ denied[c] # Absent
            /\ observation.validity_until <= denied[c] + FreshnessMs + Slack
        BY <3>1 DEF StatusInv, ObservationIsHeld
      <4>2. c \in Configured /\ FreshnessMs \in Nat /\ Slack \in Nat
        BY RouteAssumption DEF Slack
      <4>3. denied[c] \in Nat /\ denied'[c] \in Nat /\ denied'[c] # Absent /\ denied[c] <= denied'[c]
        BY <1>1, <1>6, <4>1, <4>2 DEF StatusTypeOK
      <4>4. QED
        BY <4>1, <4>2, <4>3
    <3>2. ASSUME observation # Absent, observation.readiness = "not_ready"
          PROVE  observation.validity_until \in Nat
      BY <3>2 DEF StatusInv, ObservationIsHeld
    <3>3. Slack' = Slack
      BY <1>6 DEF Slack
    <3>4. QED
      BY <1>6, <3>1, <3>2, <3>3 DEF ObservationIsHeld
  <2>3. QED
    BY <2>1, <2>2
<1>7. ASSUME NEW u \in Upstream, NEW row \in WrittenRows(u), RouterWrites(u, row)
      PROVE  StatusInv'
  <2>1. /\ UNCHANGED <<now, legacy, reading, observation>> /\ table' = [table EXCEPT ![u] = row]
        /\ denied' = IF u \in Foreign THEN denied ELSE [denied EXCEPT ![u] = Latest(@, Denies(row, now))]
    BY <1>7 DEF RouterWrites
  <2>2. row \in Rows
    BY <1>1 DEF WrittenRows, Rows, Denials
  <2>3. Denies(row, now) \in Nat \cup {Absent}
    BY <1>1, <2>2, DenialsAreTimed DEF StatusTypeOK
  <2>4. /\ denied' \in [Configured -> Nat \cup {Absent}]
        /\ \A c \in Configured : denied[c] # Absent => denied'[c] # Absent /\ denied[c] <= denied'[c]
        /\ u \notin Foreign /\ Denies(row, now) # Absent => denied'[u] # Absent /\ Denies(row, now) <= denied'[u]
    <3>1. CASE u \in Foreign
      BY <1>1, <2>1, <3>1 DEF StatusTypeOK
    <3>2. CASE u \notin Foreign
      <4>1. PICK late : late = Latest(denied[u], Denies(row, now))
        OBVIOUS
      <4>2. u \in Configured /\ denied[u] \in Nat \cup {Absent}
        BY <1>1, <3>2 DEF StatusTypeOK, Upstream
      <4>3. /\ late \in Nat \cup {Absent}
            /\ denied[u] # Absent => late # Absent /\ denied[u] <= late
            /\ Denies(row, now) # Absent => late # Absent /\ Denies(row, now) <= late
        BY <2>3, <4>1, <4>2, LatestIsLater
      <4>4. denied' = [denied EXCEPT ![u] = late]
        BY <2>1, <3>2, <4>1
      <4>5. QED
        BY <1>1, <4>2, <4>3, <4>4 DEF StatusTypeOK
    <3>3. QED
      BY <3>1, <3>2
  <2>5. StatusTypeOK'
    BY <1>1, <2>1, <2>2, <2>4 DEF StatusTypeOK
  <2>6. HeldBy(table, now)'
    <3>1. ASSUME NEW c \in Configured, Denies(table'[c], now) # Absent
          PROVE  denied'[c] # Absent /\ Denies(table'[c], now) <= denied'[c]
      <4>1. CASE c = u
        <5>1. table'[c] = row /\ u \notin Foreign
          BY <1>1, <2>1, <4>1, RouteAssumption DEF StatusTypeOK
        <5>2. QED
          BY <2>4, <3>1, <4>1, <5>1
      <4>2. CASE c # u
        <5>1. table'[c] = table[c]
          BY <1>1, <2>1, <4>2 DEF StatusTypeOK, Upstream
        <5>2. table \in [Upstream -> Rows] /\ HeldBy(table, now) /\ now \in Nat
          BY <1>1 DEF StatusTypeOK, StatusInv, RowsAreHeld
        <5>3. Denies(table[c], now) # Absent => denied'[c] # Absent /\ Denies(table[c], now) <= denied'[c]
          BY <1>1, <2>1, <2>4, <5>2, HeldStays
        <5>4. QED
          BY <3>1, <5>1, <5>3
      <4>3. QED
        BY <4>1, <4>2
    <3>2. QED
      BY <2>1, <3>1 DEF HeldBy, Denies
  <2>7. QED
    BY <1>6, <2>1, <2>4, <2>5, <2>6 DEF StatusInv, RowsAreHeld
<1>8. CASE Passes
  <2>1. /\ UNCHANGED <<legacy, table, reading, observation>> /\ ~Expired /\ now' = now + 1
        /\ denied' = [c \in Configured |-> Latest(denied[c], Denies(table[c], now + 1))]
    BY <1>8 DEF Passes
  <2>2. ASSUME NEW c \in Configured
        PROVE  /\ denied'[c] \in Nat \cup {Absent}
               /\ denied[c] # Absent => denied'[c] # Absent /\ denied[c] <= denied'[c]
               /\ Denies(table[c], now + 1) # Absent => denied'[c] # Absent /\ Denies(table[c], now + 1) <= denied'[c]
    <3>1. denied[c] \in Nat \cup {Absent} /\ table[c] \in Rows /\ now + 1 \in Nat /\ now <= now + 1 /\ legacy \in BOOLEAN
      BY <1>1 DEF StatusTypeOK, Upstream
    <3>2. Denies(table[c], now + 1) \in Nat \cup {Absent}
      BY <1>1, <3>1, DenialsAreTimed
    <3>3. QED
      BY <2>1, <3>1, <3>2, LatestIsLater
  <2>3. denied' \in [Configured -> Nat \cup {Absent}]
    BY <2>1, <2>2
  <2>4. StatusTypeOK'
    <3>1. reading # Absent => reading.since \in Nat /\ now + 1 <= reading.since + TimeoutMs
      BY <1>1, <2>1, RouteAssumption DEF Expired, StatusTypeOK
    <3>2. QED
      BY <1>1, <2>1, <2>3, <3>1 DEF StatusTypeOK
  <2>5. HeldBy(table, now)'
    <3>1. \A c \in Configured : Denies(table[c], now + 1) # Absent =>
             denied'[c] # Absent /\ Denies(table[c], now + 1) <= denied'[c]
      BY <2>2
    <3>2. QED
      BY <2>1, <3>1 DEF HeldBy, Denies
  <2>6. QED
    BY <1>6, <2>1, <2>2, <2>3, <2>4, <2>5 DEF StatusInv, RowsAreHeld
<1>9. CASE UNCHANGED statusVars
  BY <1>9 DEF statusVars, StatusInv, StatusTypeOK, RowsAreHeld, HeldBy, Denies, ObservationIsHeld, Slack
<1>10. QED
  BY <1>2, <1>3, <1>4, <1>5, <1>7, <1>8, <1>9 DEF StatusNext

\* A valid not_ready observation rests on denials the router held within the freshness
\* window, give or take one legacy read (projectConnection, snapshot).
THEOREM NotReadyWasDenied == StatusInit /\ [][StatusNext]_statusVars => []NotReadyIsRecent
<1>1. StatusInv => NotReadyIsRecent
  <2> SUFFICES ASSUME StatusInv, observation # Absent, observation.readiness = "not_ready",
                      now < observation.validity_until, NEW c \in Route
               PROVE  denied[c] # Absent /\ now < denied[c] + FreshnessMs + IF legacy THEN TimeoutMs ELSE 0
    BY DEF NotReadyIsRecent
  <2>1. /\ observation.validity_until \in Nat /\ denied[c] # Absent
        /\ observation.validity_until <= denied[c] + FreshnessMs + Slack
    BY DEF StatusInv, ObservationIsHeld
  <2>2. now \in Nat /\ denied[c] \in Nat /\ FreshnessMs \in Nat /\ Slack \in Nat
    BY <2>1, RouteAssumption DEF StatusInv, StatusTypeOK, Slack
  <2>3. now < denied[c] + FreshnessMs + Slack
    BY <2>1, <2>2
  <2>4. QED
    BY <2>1, <2>3 DEF Slack
<1>2. QED
  BY <1>1, StatusStarts, StatusKept, PTL

-----------------------------------------------------------------------------
(* Counting up *)

\* Of folds only the least of some naturals is used here, which is the same of any step.
Plus(a, b) == a + b
Summing == INSTANCE FoldFacts WITH Op <- Plus

\* What holds of no number, and of the next when of one, holds of all up to any.
LEMMA UpTo ==
    ASSUME NEW m \in Nat, NEW G, G \subseteq 0 .. m, 0 \in G, \A n \in 0 .. m - 1 : n \in G => n + 1 \in G
    PROVE  \A n \in 0 .. m : n \in G
<1> DEFINE Bad == {n \in 0 .. m : n \notin G}
<1>1. ASSUME Bad # {} PROVE FALSE
  <2>1. PICK k \in Bad : \A n \in Bad : k <= n
    <3> HIDE DEF Bad
    <3>1. Bad \in SUBSET Nat
      BY DEF Bad
    <3>2. QED
      BY <1>1, <3>1, Summing!Least
  <2>2. k # 0 /\ k - 1 \in 0 .. m - 1 /\ k - 1 \notin Bad
    BY <2>1
  <2>3. k - 1 \in G
    BY <2>2
  <2>4. QED
    BY <2>1, <2>2, <2>3
<1>2. QED
  BY <1>1


-----------------------------------------------------------------------------
(* Sequences of sequences, one after the other *)

\* Definite steps of a flattening: what it holds after each sequence.
IsFlattening(f, x, n) == f = [i \in 1 .. n |-> IF i = 1 THEN x[i] ELSE f[i - 1] \o x[i]]

\* There are such steps, over any number of sequences.
LEMMA FlatteningExists ==
    ASSUME NEW x, NEW m \in Nat
    PROVE  \E f : IsFlattening(f, x, m)
<1> DEFINE G == {n \in 0 .. m : \E f : IsFlattening(f, x, n)}
<1>1. 0 \in G
  <2> DEFINE f == [i \in 1 .. 0 |-> <<>>]
  <2>1. 1 .. 0 = {}
    OBVIOUS
  <2>2. IsFlattening(f, x, 0)
    BY <2>1 DEF IsFlattening
  <2>3. QED
    BY <2>2
<1>2. ASSUME NEW n \in 0 .. m - 1, n \in G PROVE n + 1 \in G
  <2>1. PICK f : IsFlattening(f, x, n)
    BY <1>2
  <2> DEFINE last == IF n + 1 = 1 THEN x[n + 1] ELSE f[n] \o x[n + 1]
             g == [i \in 1 .. n + 1 |-> IF i = n + 1 THEN last ELSE f[i]]
  <2>2. ASSUME NEW i \in 1 .. n + 1 PROVE g[i] = IF i = 1 THEN x[i] ELSE g[i - 1] \o x[i]
    <3>1. CASE i = n + 1
      <4>1. i # 1 => i - 1 = n /\ n \in 1 .. n + 1 /\ n # n + 1
        BY <3>1
      <4>2. g[i] = last /\ (i # 1 => g[i - 1] = f[n])
        BY <3>1, <4>1
      <4> HIDE DEF g
      <4>3. QED
        BY <3>1, <4>1, <4>2
    <3>2. CASE i # n + 1
      <4>1. i \in 1 .. n /\ (i # 1 => i - 1 \in 1 .. n + 1 /\ i - 1 # n + 1)
        BY <3>2
      <4>2. g[i] = f[i] /\ (i # 1 => g[i - 1] = f[i - 1])
        BY <3>2, <4>1
      <4>3. f[i] = IF i = 1 THEN x[i] ELSE f[i - 1] \o x[i]
        BY <2>1, <4>1 DEF IsFlattening
      <4> HIDE DEF g
      <4>4. QED
        BY <4>2, <4>3
    <3>3. QED
      BY <3>1, <3>2
  <2>3. IsFlattening(g, x, n + 1)
    <3>1. \A i \in 1 .. n + 1 : g[i] = IF i = 1 THEN x[i] ELSE g[i - 1] \o x[i]
      BY <2>2
    <3>2. g = [i \in 1 .. n + 1 |-> g[i]]
      OBVIOUS
    <3> HIDE DEF g
    <3>3. QED
      BY <3>1, <3>2 DEF IsFlattening
  <2>4. n + 1 \in 0 .. m
    OBVIOUS
  <2>5. QED
    BY <2>3, <2>4
<1>3. m \in G
  <2> HIDE DEF G
  <2>1. G \subseteq 0 .. m
    BY DEF G
  <2>2. \A n \in 0 .. m : n \in G
    BY <1>1, <1>2, <2>1, UpTo
  <2>3. QED
    BY <2>2
<1>4. QED
  BY <1>3

\* g holds what the first sequences of x come to.
Follows(g, x, m) == g[0] = <<>> /\ \A n \in 1 .. m : g[n] = g[n - 1] \o x[n]

\* What follows sequences holds sequences.
LEMMA FollowsInSeq ==
    ASSUME NEW S, NEW m \in Nat, NEW x, \A n \in 1 .. m : x[n] \in Seq(S), NEW g, Follows(g, x, m)
    PROVE  \A n \in 0 .. m : g[n] \in Seq(S)
<1> DEFINE G == {n \in 0 .. m : g[n] \in Seq(S)}
<1>1. 0 \in G
  <2>1. g[0] = <<>> /\ <<>> \in Seq(S) /\ 0 \in 0 .. m
    BY DEF Follows
  <2>2. QED
    BY <2>1
<1>2. ASSUME NEW n \in 0 .. m - 1, n \in G PROVE n + 1 \in G
  <2>1. n + 1 \in 1 .. m /\ (n + 1) - 1 = n /\ n + 1 \in 0 .. m
    OBVIOUS
  <2>2. g[n + 1] = g[n] \o x[n + 1] /\ x[n + 1] \in Seq(S) /\ g[n] \in Seq(S)
    BY <1>2, <2>1 DEF Follows
  <2>3. g[n + 1] \in Seq(S)
    BY <2>2, ConcatProperties
  <2>4. QED
    BY <2>1, <2>3
<1> HIDE DEF G
<1>3. G \subseteq 0 .. m
  BY DEF G
<1>4. \A n \in 0 .. m : n \in G
  BY <1>1, <1>2, <1>3, UpTo
<1>5. QED
  BY <1>4 DEF G

\* A flattening takes the sequences one after the other.
LEMMA FlatTrace ==
    ASSUME NEW S, NEW m \in Nat, NEW x, x \in [1 .. m -> Seq(S)]
    PROVE  \E g : Follows(g, x, m) /\ g[m] = FlattenSeq(x)
<1>1. Len(x) = m
  OBVIOUS
<1>2. CASE m = 0
  <2>1. FlattenSeq(x) = x /\ x = <<>>
    BY <1>1, <1>2 DEF FlattenSeq
  <2> DEFINE g == [n \in {0} |-> <<>>]
  <2>2. g[0] = <<>> /\ g[m] = FlattenSeq(x) /\ 1 .. m = {}
    BY <1>2, <2>1
  <2>3. QED
    BY <2>2 DEF Follows
<1>3. CASE m # 0
  <2> DEFINE flatten == CHOOSE f : IsFlattening(f, x, Len(x))
  <2>1. FlattenSeq(x) = flatten[Len(x)]
    BY <1>1, <1>3 DEF FlattenSeq, IsFlattening
  <2>2. IsFlattening(flatten, x, m)
    BY <1>1, FlatteningExists
  <2> DEFINE g == [n \in 0 .. m |-> IF n = 0 THEN <<>> ELSE flatten[n]]
  <2> HIDE DEF flatten
  <2>3. ASSUME NEW n \in 1 .. m PROVE g[n] = g[n - 1] \o x[n]
    <3>1. n \in 0 .. m /\ n - 1 \in 0 .. m /\ n # 0 /\ x[n] \in Seq(S)
      OBVIOUS
    <3>2. flatten[n] = IF n = 1 THEN x[n] ELSE flatten[n - 1] \o x[n]
      BY <2>2 DEF IsFlattening
    <3>3. CASE n = 1
      <4>1. g[n] = x[n] /\ g[n - 1] = <<>>
        BY <3>1, <3>2, <3>3
      <4>2. QED
        BY <3>1, <4>1, ConcatEmptySeq
    <3>4. CASE n # 1
      <4>1. n - 1 # 0
        BY <3>4
      <4>2. g[n] = flatten[n] /\ g[n - 1] = flatten[n - 1]
        BY <3>1, <4>1
      <4>3. QED
        BY <3>2, <3>4, <4>2
    <3>5. QED
      BY <3>3, <3>4
  <2>4. g[0] = <<>> /\ g[m] = FlattenSeq(x)
    BY <1>1, <1>3, <2>1
  <2> HIDE DEF g
  <2>5. Follows(g, x, m)
    BY <2>3, <2>4 DEF Follows
  <2>6. QED
    BY <2>4, <2>5
<1>4. QED
  BY <1>2, <1>3

\* And whatever does that is the flattening.
LEMMA FlatOfTrace ==
    ASSUME NEW S, NEW m \in Nat, NEW x, x \in [1 .. m -> Seq(S)], NEW g, Follows(g, x, m)
    PROVE  g[m] = FlattenSeq(x)
<1>1. PICK h : Follows(h, x, m) /\ h[m] = FlattenSeq(x)
  BY FlatTrace
<1> DEFINE G == {n \in 0 .. m : g[n] = h[n]}
<1>2. 0 \in G
  BY <1>1 DEF Follows
<1>3. ASSUME NEW n \in 0 .. m - 1, n \in G PROVE n + 1 \in G
  <2>1. n + 1 \in 1 .. m /\ (n + 1) - 1 = n /\ n + 1 \in 0 .. m
    OBVIOUS
  <2>2. g[n + 1] = g[n] \o x[n + 1] /\ h[n + 1] = h[n] \o x[n + 1]
    BY <1>1, <2>1 DEF Follows
  <2>3. QED
    BY <1>3, <2>1, <2>2
<1> HIDE DEF G
<1>4. G \subseteq 0 .. m
  BY DEF G
<1>5. \A n \in 0 .. m : n \in G
  BY <1>2, <1>3, <1>4, UpTo
<1>6. m \in G
  BY <1>5
<1>7. QED
  BY <1>1, <1>6 DEF G

\* What any number of sequences come to, one after the other, is a sequence.
LEMMA FlatInSeq ==
    ASSUME NEW S, NEW m \in Nat, NEW x, x \in [1 .. m -> Seq(S)]
    PROVE  FlattenSeq(x) \in Seq(S)
<1>1. PICK g : Follows(g, x, m) /\ g[m] = FlattenSeq(x)
  BY FlatTrace
<1>2. \A n \in 1 .. m : x[n] \in Seq(S)
  OBVIOUS
<1>3. \A n \in 0 .. m : g[n] \in Seq(S)
  BY <1>1, <1>2, FollowsInSeq
<1>4. m \in 0 .. m
  OBVIOUS
<1>5. QED
  BY <1>1, <1>3, <1>4

\* One sequence alone holds something.
Alone(x, k, m) == \A n \in 1 .. m : n # k => x[n] = <<>>

\* Sequences that hold nothing before one and nothing after it come to that one.
LEMMA FlatOfOne ==
    ASSUME NEW S, NEW m \in Nat, NEW x, x \in [1 .. m -> Seq(S)], NEW k \in 1 .. m, Alone(x, k, m)
    PROVE  FlattenSeq(x) = x[k]
<1> USE DEF Alone
<1> DEFINE g == [n \in 0 .. m |-> IF n < k THEN <<>> ELSE x[k]]
<1>1. ASSUME NEW n \in 1 .. m PROVE g[n] = g[n - 1] \o x[n]
  <2>1. n \in 0 .. m /\ n - 1 \in 0 .. m /\ x[n] \in Seq(S) /\ x[k] \in Seq(S) /\ <<>> \in Seq(S)
    OBVIOUS
  <2>2. CASE n < k
    <3>1. g[n] = <<>> /\ g[n - 1] = <<>> /\ x[n] = <<>>
      BY <2>1, <2>2
    <3> HIDE DEF g
    <3>2. QED
      BY <3>1
  <2>3. CASE n = k
    <3>1. g[n] = x[k] /\ g[n - 1] = <<>> /\ x[n] = x[k]
      BY <2>1, <2>3
    <3> HIDE DEF g
    <3>2. QED
      BY <2>1, <3>1, ConcatEmptySeq
  <2>4. CASE n > k
    <3>1. g[n] = x[k] /\ g[n - 1] = x[k] /\ x[n] = <<>>
      BY <2>1, <2>4
    <3> HIDE DEF g
    <3>2. QED
      BY <2>1, <3>1, ConcatEmptySeq
  <2>5. QED
    BY <2>2, <2>3, <2>4
<1>2. g[0] = <<>> /\ g[m] = x[k]
  OBVIOUS
<1> HIDE DEF g
<1>3. Follows(g, x, m)
  BY <1>1, <1>2 DEF Follows
<1>4. QED
  BY <1>2, <1>3, FlatOfTrace

\* Sequences that hold nothing come to nothing.
LEMMA FlatOfNone ==
    ASSUME NEW m \in Nat, NEW x, x \in [1 .. m -> {<<>>}]
    PROVE  FlattenSeq(x) = <<>>
<1> DEFINE g == [n \in 0 .. m |-> <<>>]
<1>1. \A n \in 1 .. m : g[n] = g[n - 1] \o x[n]
  <2>1. \A n \in 1 .. m : n \in 0 .. m /\ n - 1 \in 0 .. m /\ x[n] = <<>>
    OBVIOUS
  <2>2. <<>> \o <<>> = <<>>
    OBVIOUS
  <2>3. QED
    BY <2>1, <2>2
<1>2. g[0] = <<>> /\ g[m] = <<>>
  OBVIOUS
<1>3. x \in [1 .. m -> Seq({})]
  <2>1. <<>> \in Seq({})
    OBVIOUS
  <2>2. QED
    BY <2>1
<1> HIDE DEF g
<1>4. Follows(g, x, m)
  BY <1>1, <1>2 DEF Follows
<1>5. QED
  BY <1>2, <1>3, <1>4, FlatOfTrace

\* Sequences of one value come to the sequence of those values.
LEMMA FlatOfSingles ==
    ASSUME NEW S, NEW m \in Nat, NEW v, v \in [1 .. m -> S]
    PROVE  FlattenSeq([n \in 1 .. m |-> <<v[n]>>]) = v
<1> DEFINE x == [n \in 1 .. m |-> <<v[n]>>]
           g == [n \in 0 .. m |-> [i \in 1 .. n |-> v[i]]]
<1>1. ASSUME NEW n \in 1 .. m PROVE g[n] = g[n - 1] \o x[n]
  <2>1. n \in 0 .. m /\ n - 1 \in 0 .. m
    OBVIOUS
  <2>2. g[n] = [i \in 1 .. n |-> v[i]] /\ g[n - 1] = [i \in 1 .. n - 1 |-> v[i]] /\ x[n] = <<v[n]>>
    BY <2>1
  <2>3. [i \in 1 .. n - 1 |-> v[i]] \in Seq(S) /\ v[n] \in S /\ [i \in 1 .. n |-> v[i]] \in Seq(S)
    OBVIOUS
  <2>4. [i \in 1 .. n - 1 |-> v[i]] \o <<v[n]>> = [i \in 1 .. n |-> v[i]]
    OBVIOUS
  <2> HIDE DEF g, x
  <2>5. QED
    BY <2>2, <2>4
<1>2. g[0] = <<>> /\ g[m] = v
  OBVIOUS
<1>3. x \in [1 .. m -> Seq(S)]
  OBVIOUS
<1> HIDE DEF g, x
<1>4. Follows(g, x, m)
  BY <1>1, <1>2 DEF Follows
<1>5. FlattenSeq(x) = v
  BY <1>2, <1>3, <1>4, FlatOfTrace
<1>6. QED
  BY <1>5 DEF x

\* What a table writes for each value of a sequence, one after the other.
Read(w, s) == FlattenSeq([n \in DOMAIN s |-> w[s[n]]])

Tables(S, T) == [S -> Seq(T)]
Lists(m, S) == [1 .. m -> Seq(S)]

\* What is read of values is a sequence.
LEMMA ReadInSeq ==
    ASSUME NEW S, NEW T, NEW w \in Tables(S, T), NEW s \in Seq(S)
    PROVE  Read(w, s) \in Seq(T)
<1> DEFINE x == [n \in DOMAIN s |-> w[s[n]]]
<1>1. x \in [1 .. Len(s) -> Seq(T)] /\ Len(s) \in Nat
  BY DEF Tables
<1> HIDE DEF x
<1>2. FlattenSeq(x) \in Seq(T)
  BY <1>1, FlatInSeq
<1>3. QED
  BY <1>2 DEF Read, x

\* The order in which sequences are put together is no matter.
LEMMA Associates ==
    ASSUME NEW S, NEW p \in Seq(S), NEW q \in Seq(S), NEW r \in Seq(S)
    PROVE  p \o (q \o r) = (p \o q) \o r
BY ConcatAssociative

\* Two sequences are read one after the other.
LEMMA ReadConcat ==
    ASSUME NEW S, NEW T, NEW w \in Tables(S, T), NEW s \in Seq(S), NEW t \in Seq(S)
    PROVE  Read(w, s \o t) = Read(w, s) \o Read(w, t)
<1> DEFINE x == [n \in DOMAIN s |-> w[s[n]]]
           y == [n \in DOMAIN t |-> w[t[n]]]
           z == [n \in DOMAIN (s \o t) |-> w[(s \o t)[n]]]
           k == Len(s)
           m == Len(t)
<1>1. k \in Nat /\ m \in Nat /\ x \in [1 .. k -> Seq(T)] /\ y \in [1 .. m -> Seq(T)]
  BY DEF Tables
<1>2. z \in [1 .. k + m -> Seq(T)]
  <2>1. s \o t \in Seq(S) /\ DOMAIN (s \o t) = 1 .. k + m
    BY ConcatProperties
  <2>2. QED
    BY <2>1 DEF Tables
<1>3. \A n \in 1 .. k : z[n] = x[n]
  OBVIOUS
<1>4. \A n \in 1 .. m : z[k + n] = y[n]
  OBVIOUS
<1> HIDE DEF x, y, z, k, m
<1>5. PICK g : Follows(g, x, k) /\ g[k] = FlattenSeq(x)
  BY <1>1, FlatTrace
<1>6. PICK h : Follows(h, y, m) /\ h[m] = FlattenSeq(y)
  BY <1>1, FlatTrace
<1> DEFINE f == [n \in 0 .. k + m |-> IF n <= k THEN g[n] ELSE g[k] \o h[n - k]]
<1>7. ASSUME NEW n \in 1 .. k + m PROVE f[n] = f[n - 1] \o z[n]
  <2>1. n \in 0 .. k + m /\ n - 1 \in 0 .. k + m
    BY <1>1
  <2>2. CASE n <= k
    <3>1. n \in 1 .. k /\ f[n] = g[n] /\ f[n - 1] = g[n - 1]
      BY <1>1, <2>1, <2>2
    <3> HIDE DEF f
    <3>2. QED
      BY <1>3, <1>5, <3>1 DEF Follows
  <2>3. CASE n > k
    <3>1. n - k \in 1 .. m /\ n - k - 1 \in 0 .. m /\ k + (n - k) = n
      BY <1>1, <2>3
    <3>2. f[n] = g[k] \o h[n - k]
      <4>1. ~ (n <= k)
        BY <1>1, <2>3
      <4>2. QED
        BY <2>1, <4>1
    <3>3. h[n - k] = h[n - k - 1] \o y[n - k] /\ h[0] = <<>>
      BY <1>6, <3>1 DEF Follows
    <3>4. g[k] \in Seq(T) /\ h[n - k - 1] \in Seq(T) /\ y[n - k] \in Seq(T)
      <4>1. \A i \in 1 .. k : x[i] \in Seq(T)
        BY <1>1
      <4>2. \A i \in 1 .. m : y[i] \in Seq(T)
        BY <1>1
      <4>3. \A i \in 0 .. k : g[i] \in Seq(T)
        BY <1>1, <1>5, <4>1, FollowsInSeq
      <4>4. \A i \in 0 .. m : h[i] \in Seq(T)
        BY <1>1, <1>6, <4>2, FollowsInSeq
      <4>5. k \in 0 .. k
        BY <1>1
      <4>6. QED
        BY <3>1, <4>2, <4>3, <4>4, <4>5
    <3>5. f[n - 1] = g[k] \o h[n - k - 1]
      <4>1. CASE n - 1 = k
        <5>1. n - k - 1 = 0 /\ f[n - 1] = g[k]
          BY <1>1, <2>1, <4>1
        <5> HIDE DEF f
        <5>2. QED
          BY <3>3, <3>4, <5>1, ConcatEmptySeq
      <4>2. CASE n - 1 # k
        <5>1. ~ (n - 1 <= k) /\ (n - 1) - k = n - k - 1
          BY <1>1, <2>3, <4>2
        <5>2. QED
          BY <2>1, <5>1
      <4>3. QED
        BY <4>1, <4>2
    <3>6. z[n] = y[n - k]
      BY <1>4, <3>1
    <3>7. g[k] \o (h[n - k - 1] \o y[n - k]) = (g[k] \o h[n - k - 1]) \o y[n - k]
      <4>1. ASSUME NEW p \in Seq(T), NEW q \in Seq(T), NEW r \in Seq(T)
            PROVE  p \o (q \o r) = (p \o q) \o r
        BY Associates
      <4>2. QED
        BY <3>4, <4>1
    <3> HIDE DEF f
    <3>8. QED
      BY <3>2, <3>3, <3>5, <3>6, <3>7
  <2>4. n <= k \/ n > k
    BY <1>1
  <2> HIDE DEF f
  <2>5. QED
    BY <2>2, <2>3, <2>4
<1>8. f[0] = <<>> /\ f[k + m] = FlattenSeq(x) \o FlattenSeq(y)
  <2>1. 0 \in 0 .. k + m /\ 0 <= k /\ k + m \in 0 .. k + m /\ (k + m) - k = m
    BY <1>1
  <2>2. f[0] = g[0] /\ g[0] = <<>>
    BY <1>5, <2>1 DEF Follows
  <2>3. CASE m = 0
    <3>1. f[k + m] = g[k]
      BY <1>1, <2>1, <2>3
    <3>2. h[0] = <<>> /\ FlattenSeq(y) = <<>>
      BY <1>6, <2>3 DEF Follows
    <3>3. FlattenSeq(x) \in Seq(T)
      BY <1>1, FlatInSeq
    <3> HIDE DEF f
    <3>4. QED
      BY <1>5, <2>2, <3>1, <3>2, <3>3, ConcatEmptySeq
  <2>4. CASE m # 0
    <3>1. ~ (k + m <= k)
      BY <1>1, <2>4
    <3>2. f[k + m] = g[k] \o h[m]
      BY <2>1, <3>1
    <3> HIDE DEF f
    <3>3. QED
      BY <1>5, <1>6, <2>2, <3>2
  <2>5. QED
    BY <2>3, <2>4
<1> HIDE DEF f
<1>9. Follows(f, z, k + m) /\ k + m \in Nat
  <2>1. k + m \in Nat
    BY <1>1
  <2>2. \A n \in 1 .. k + m : f[n] = f[n - 1] \o z[n]
    BY <1>7
  <2>3. QED
    BY <1>8, <2>1, <2>2 DEF Follows
<1>10. f[k + m] = FlattenSeq(z)
  BY <1>2, <1>9, FlatOfTrace
<1>11. QED
  BY <1>8, <1>10 DEF Read, x, y, z

-----------------------------------------------------------------------------
(* Tables read over sequences *)

\* Nothing is read of no value.
LEMMA ReadNothing ==
    ASSUME NEW w
    PROVE  Read(w, <<>>) = <<>>
<1> DEFINE x == [n \in DOMAIN <<>> |-> w[<<>>[n]]]
<1>1. DOMAIN <<>> = {}
  OBVIOUS
<1>2. x \in [1 .. 0 -> {<<>>}]
  BY <1>1
<1> HIDE DEF x
<1>3. FlattenSeq(x) = <<>>
  BY <1>2, FlatOfNone
<1>4. QED
  BY <1>3 DEF Read, x

\* Of one value, what the table writes for it.
LEMMA ReadOne ==
    ASSUME NEW S, NEW T, NEW w \in Tables(S, T), NEW v \in S
    PROVE  Read(w, <<v>>) = w[v]
<1> DEFINE x == [n \in DOMAIN <<v>> |-> w[<<v>>[n]]]
<1>1. x \in [1 .. 1 -> Seq(T)] /\ x[1] = w[v] /\ x[1] \in Seq(T)
  BY DEF Tables
<1> HIDE DEF x
<1>2. PICK one \in Nat : one = 1
  OBVIOUS
<1>3. PICK g : Follows(g, x, one) /\ g[one] = FlattenSeq(x)
  BY <1>1, <1>2, FlatTrace
<1>4. g[1] = FlattenSeq(x) /\ g[0] = <<>> /\ g[1] = g[0] \o x[1]
  <2>1. 1 \in 1 .. one /\ 1 - 1 = 0
    BY <1>2
  <2>2. QED
    BY <1>2, <1>3, <2>1 DEF Follows
<1>5. QED
  BY <1>1, <1>4, ConcatEmptySeq DEF Read, x

\* Sequences one after the other are read one after the other.
LEMMA ReadFlat ==
    ASSUME NEW S, NEW T, NEW w \in Tables(S, T), NEW m \in Nat, NEW x \in Lists(m, S)
    PROVE  Read(w, FlattenSeq(x)) = FlattenSeq([i \in 1 .. m |-> Read(w, x[i])])
<1>0. x \in [1 .. m -> Seq(S)]
  BY DEF Lists
<1>1. PICK g : Follows(g, x, m) /\ g[m] = FlattenSeq(x)
  BY <1>0, FlatTrace
<1> DEFINE y == [i \in 1 .. m |-> Read(w, x[i])]
           f == [n \in 0 .. m |-> Read(w, g[n])]
<1>2. \A i \in 1 .. m : x[i] \in Seq(S)
  BY <1>0
<1>3. \A n \in 0 .. m : g[n] \in Seq(S)
  BY <1>1, <1>2, FollowsInSeq
<1>4. ASSUME NEW n \in 1 .. m PROVE f[n] = f[n - 1] \o y[n]
  <2>1. n \in 0 .. m /\ n - 1 \in 0 .. m
    OBVIOUS
  <2>2. g[n] = g[n - 1] \o x[n]
    BY <1>1 DEF Follows
  <2>3. g[n - 1] \in Seq(S) /\ x[n] \in Seq(S)
    BY <1>2, <1>3, <2>1
  <2>4. Read(w, g[n - 1] \o x[n]) = Read(w, g[n - 1]) \o Read(w, x[n])
    <3>1. ASSUME NEW p \in Seq(S), NEW q \in Seq(S) PROVE Read(w, p \o q) = Read(w, p) \o Read(w, q)
      BY ReadConcat
    <3>2. QED
      BY <2>3, <3>1
  <2>5. f[n] = Read(w, g[n]) /\ f[n - 1] = Read(w, g[n - 1]) /\ y[n] = Read(w, x[n])
    BY <2>1
  <2> HIDE DEF f, y
  <2>6. QED
    BY <2>2, <2>4, <2>5
<1>5. f[0] = <<>> /\ f[m] = Read(w, FlattenSeq(x))
  <2>1. 0 \in 0 .. m /\ m \in 0 .. m
    OBVIOUS
  <2>2. g[0] = <<>>
    BY <1>1 DEF Follows
  <2>3. f[0] = Read(w, g[0]) /\ f[m] = Read(w, g[m])
    BY <2>1
  <2> HIDE DEF f
  <2>4. QED
    BY <1>1, <2>2, <2>3, ReadNothing
<1>6. y \in [1 .. m -> Seq(T)]
  <2>1. ASSUME NEW i \in 1 .. m PROVE Read(w, x[i]) \in Seq(T)
    BY <1>2, ReadInSeq
  <2>2. QED
    BY <2>1
<1>7. \A n \in 1 .. m : f[n] = f[n - 1] \o y[n]
  BY <1>4
<1> HIDE DEF f, y
<1>8. Follows(f, y, m)
  BY <1>5, <1>7 DEF Follows
<1>9. f[m] = FlattenSeq(y)
  BY <1>6, <1>8, FlatOfTrace
<1>10. QED
  BY <1>5, <1>9 DEF y

Each(F, s) == [n \in DOMAIN s |-> F[s[n]]]
Singly(F, S) == [v \in S |-> <<F[v]>>]

\* One value for each value of a sequence.
LEMMA ReadEach ==
    ASSUME NEW S, NEW F, NEW s \in Seq(S)
    PROVE  Read(Singly(F, S), s) = Each(F, s)
<1> DEFINE w == [v \in S |-> <<F[v]>>]
           x == [n \in DOMAIN s |-> w[s[n]]]
           u == [n \in 1 .. Len(s) |-> F[s[n]]]
           T == {F[v] : v \in S}
<1>1. x = [n \in 1 .. Len(s) |-> <<u[n]>>]
  <2>1. DOMAIN s = 1 .. Len(s) /\ \A n \in 1 .. Len(s) : s[n] \in S
    OBVIOUS
  <2>2. \A n \in 1 .. Len(s) : x[n] = <<F[s[n]]>> /\ u[n] = F[s[n]]
    BY <2>1
  <2>3. QED
    BY <2>1, <2>2
<1>2. u \in [1 .. Len(s) -> T] /\ Len(s) \in Nat /\ u = [n \in DOMAIN s |-> F[s[n]]]
  OBVIOUS
<1> HIDE DEF u
<1>3. FlattenSeq([n \in 1 .. Len(s) |-> <<u[n]>>]) = u
  BY <1>2, FlatOfSingles, ZenonT(60)
<1>4. Read(w, s) = FlattenSeq(x)
  BY DEF Read
<1> HIDE DEF x
<1>5. QED
  BY <1>1, <1>2, <1>3, <1>4 DEF Each, Singly

EachOf(F, items, P) == [n \in DOMAIN items |-> IF n \in P THEN <<F[items[n]]>> ELSE <<>>]

\* What a function gives of the chosen items, in their order.
LEMMA EachChosen ==
    ASSUME NEW S, NEW F, NEW items \in Seq(S), NEW P
    PROVE  /\ Chosen(items, P) \in Seq(S)
           /\ Each(F, Chosen(items, P)) = FlattenSeq(EachOf(F, items, P))
<1> DEFINE x == [n \in DOMAIN items |-> IF n \in P THEN <<items[n]>> ELSE <<>>]
           w == Singly(F, S)
           T == {F[v] : v \in S}
           y == [n \in 1 .. Len(items) |-> Read(w, x[n])]
           z == [n \in DOMAIN items |-> IF n \in P THEN <<F[items[n]]>> ELSE <<>>]
<1>1. x \in [1 .. Len(items) -> Seq(S)] /\ Len(items) \in Nat /\ DOMAIN items = 1 .. Len(items)
  OBVIOUS
<1>2. w \in Tables(S, T)
  BY DEF Tables, Singly
<1>3. \A v \in S : w[v] = <<F[v]>>
  BY DEF Singly
<1>4. Chosen(items, P) = FlattenSeq(x)
  BY DEF Chosen
<1>5. y = z
  <2>1. ASSUME NEW n \in DOMAIN items PROVE Read(w, x[n]) = z[n]
    <3>1. CASE n \in P
      <4>1. x[n] = <<items[n]>> /\ items[n] \in S /\ z[n] = <<F[items[n]]>>
        BY <3>1
      <4> HIDE DEF w, x, z
      <4>2. Read(w, <<items[n]>>) = w[items[n]]
        BY <1>2, <4>1, ReadOne
      <4>3. QED
        BY <1>3, <4>1, <4>2
    <3>2. CASE n \notin P
      <4>1. x[n] = <<>> /\ z[n] = <<>>
        BY <3>2
      <4> HIDE DEF w, x, z
      <4>2. QED
        BY <4>1, ReadNothing
    <3>3. QED
      BY <3>1, <3>2
  <2>2. \A n \in 1 .. Len(items) : y[n] = z[n]
    BY <1>1, <2>1
  <2>3. y = [n \in 1 .. Len(items) |-> y[n]] /\ z = [n \in 1 .. Len(items) |-> z[n]]
    BY <1>1
  <2> HIDE DEF y, z
  <2>4. QED
    BY <2>2, <2>3
<1> HIDE DEF x
<1>6. FlattenSeq(x) \in Seq(S)
  BY <1>1, FlatInSeq
<1>7. Read(w, FlattenSeq(x)) = Each(F, FlattenSeq(x))
  BY <1>6, ReadEach
<1> HIDE DEF w
<1>8. Read(w, FlattenSeq(x)) = FlattenSeq(y)
  <2>1. x \in Lists(Len(items), S)
    BY <1>1 DEF Lists
  <2>2. QED
    BY <1>1, <1>2, <2>1, ReadFlat DEF y
<1> HIDE DEF y
<1>9. QED
  BY <1>4, <1>5, <1>6, <1>7, <1>8 DEF z, EachOf

-----------------------------------------------------------------------------
(* The places of sequences in what they come to *)

\* Where each of some sequences lies in s, which is all of them: after a[i - 1] values.
Placed(a, x, m, s) ==
    /\ \A i \in 0 .. m : a[i] \in Nat
    /\ \A i \in 0 .. m, j \in 0 .. m : i <= j => a[i] <= a[j]
    /\ \A i \in 1 .. m : a[i] = a[i - 1] + Len(x[i])
    /\ \A i \in 1 .. m : \A k \in 1 .. Len(x[i]) : a[i - 1] + k \in 1 .. Len(s) /\ s[a[i - 1] + k] = x[i][k]
    /\ \A p \in 1 .. Len(s) : \E i \in 1 .. m : \E k \in 1 .. Len(x[i]) : p = a[i - 1] + k

\* One more sequence is placed at the end.
LEMMA PlaceOne ==
    ASSUME NEW S, NEW m \in Nat, NEW x, NEW a, NEW s \in Seq(S), NEW t \in Seq(S),
           Placed(a, x, m, s), x[m + 1] = t, a[m] = Len(s), a[m + 1] = Len(s) + Len(t)
    PROVE  Placed(a, x, m + 1, s \o t)
<1>1. m + 1 \in Nat /\ (m + 1) - 1 = m /\ Len(s) \in Nat /\ Len(t) \in Nat /\ Len(s \o t) = Len(s) + Len(t)
  OBVIOUS
<1>2. \A k \in 1 .. Len(s) : (s \o t)[k] = s[k]
  OBVIOUS
<1>3. \A k \in 1 .. Len(t) : (s \o t)[Len(s) + k] = t[k]
  OBVIOUS
<1>4. \A i \in 1 .. m + 1 : i \in 1 .. m \/ i = m + 1
  OBVIOUS
<1>5. \A i \in 0 .. m + 1 : i \in 0 .. m \/ i = m + 1
  OBVIOUS
<1>6. \A i \in 0 .. m + 1 : a[i] \in Nat
  BY <1>1, <1>5 DEF Placed
<1>7. \A i \in 0 .. m + 1, j \in 0 .. m + 1 : i <= j => a[i] <= a[j]
  <2>1. \A i \in 0 .. m : a[i] <= a[m] /\ a[i] \in Nat
    <3>1. \A i \in 0 .. m : i <= m /\ m \in 0 .. m
      OBVIOUS
    <3>2. QED
      BY <3>1 DEF Placed
  <2>2. \A i \in 0 .. m : a[i] <= a[m + 1]
    BY <1>1, <2>1
  <2>3. ASSUME NEW i \in 0 .. m + 1, NEW j \in 0 .. m + 1, i <= j PROVE a[i] <= a[j]
    <3>1. CASE j \in 0 .. m
      <4>1. i \in 0 .. m
        BY <2>3, <3>1
      <4>2. QED
        BY <2>3, <3>1, <4>1 DEF Placed
    <3>2. CASE j = m + 1
      BY <1>1, <1>5, <2>2, <3>2
    <3>3. QED
      BY <1>5, <3>1, <3>2
  <2>4. QED
    BY <2>3
<1>8. \A i \in 1 .. m + 1 : a[i] = a[i - 1] + Len(x[i])
  BY <1>1, <1>4 DEF Placed
<1>9. ASSUME NEW i \in 1 .. m + 1, NEW k \in 1 .. Len(x[i])
      PROVE  a[i - 1] + k \in 1 .. Len(s \o t) /\ (s \o t)[a[i - 1] + k] = x[i][k]
  <2>1. CASE i \in 1 .. m
    <3>1. a[i - 1] + k \in 1 .. Len(s) /\ s[a[i - 1] + k] = x[i][k]
      BY <2>1 DEF Placed
    <3>2. a[i - 1] + k \in 1 .. Len(s \o t)
      BY <1>1, <3>1
    <3>3. QED
      BY <1>2, <3>1, <3>2
  <2>2. CASE i = m + 1
    <3>1. a[i - 1] = Len(s) /\ k \in 1 .. Len(t) /\ x[i] = t
      BY <1>1, <2>2
    <3>2. QED
      BY <1>1, <1>3, <3>1
  <2>3. QED
    BY <1>4, <2>1, <2>2
<1>10. ASSUME NEW p \in 1 .. Len(s \o t) PROVE \E i \in 1 .. m + 1 : \E k \in 1 .. Len(x[i]) : p = a[i - 1] + k
  <2>1. CASE p <= Len(s)
    <3>1. p \in 1 .. Len(s)
      BY <1>1, <2>1
    <3>2. PICK i \in 1 .. m : \E k \in 1 .. Len(x[i]) : p = a[i - 1] + k
      BY <3>1 DEF Placed
    <3>3. i \in 1 .. m + 1
      OBVIOUS
    <3>4. QED
      BY <3>2, <3>3
  <2>2. CASE p > Len(s)
    <3>1. p - Len(s) \in 1 .. Len(t) /\ p = Len(s) + (p - Len(s))
      BY <1>1, <2>2
    <3>2. PICK k \in 1 .. Len(t) : p = Len(s) + k
      BY <3>1
    <3>3. m + 1 \in 1 .. m + 1
      OBVIOUS
    <3>4. k \in 1 .. Len(x[m + 1]) /\ p = a[(m + 1) - 1] + k
      BY <1>1, <3>2
    <3>5. QED
      BY <3>3, <3>4
  <2>3. QED
    BY <1>1, <2>1, <2>2
<1>11. \A i \in 1 .. m + 1 : \A k \in 1 .. Len(x[i]) :
            a[i - 1] + k \in 1 .. Len(s \o t) /\ (s \o t)[a[i - 1] + k] = x[i][k]
  BY <1>9
<1>12. \A p \in 1 .. Len(s \o t) : \E i \in 1 .. m + 1 : \E k \in 1 .. Len(x[i]) : p = a[i - 1] + k
  BY <1>10
<1>13. QED
  BY <1>6, <1>7, <1>8, <1>11, <1>12 DEF Placed

\* Every one of the sequences has its place in what they come to.
LEMMA FlatPlaces ==
    ASSUME NEW S, NEW m \in Nat, NEW x \in Lists(m, S)
    PROVE  \E a : Placed(a, x, m, FlattenSeq(x))
<1>1. x \in [1 .. m -> Seq(S)]
  BY DEF Lists
<1>2. PICK g : Follows(g, x, m) /\ g[m] = FlattenSeq(x)
  BY <1>1, FlatTrace
<1>3. \A n \in 1 .. m : x[n] \in Seq(S)
  BY <1>1
<1>4. \A n \in 0 .. m : g[n] \in Seq(S)
  BY <1>2, <1>3, FollowsInSeq
<1> DEFINE a == [n \in 0 .. m |-> Len(g[n])]
           G == {n \in 0 .. m : Placed(a, x, n, g[n])}
<1>5. \A n \in 0 .. m : a[n] = Len(g[n])
  OBVIOUS
<1> HIDE DEF a
<1>6. 0 \in G
  <2>1. g[0] = <<>> /\ 0 \in 0 .. m /\ Len(<<>>) = 0 /\ a[0] = 0
    BY <1>2, <1>5 DEF Follows
  <2>2. 1 .. 0 = {} /\ 0 .. 0 = {0}
    OBVIOUS
  <2>3. Placed(a, x, 0, <<>>)
    BY <2>1, <2>2 DEF Placed
  <2>4. QED
    BY <2>1, <2>3
<1>7. ASSUME NEW n \in 0 .. m - 1, n \in G PROVE n + 1 \in G
  <2>1. n + 1 \in 1 .. m /\ (n + 1) - 1 = n /\ n + 1 \in 0 .. m /\ n \in 0 .. m /\ n \in Nat
    OBVIOUS
  <2>2. PICK s \in Seq(S) : s = g[n]
    BY <1>4, <2>1
  <2>3. PICK t \in Seq(S) : t = x[n + 1]
    BY <1>3, <2>1
  <2>4. g[n + 1] = s \o t
    BY <1>2, <2>1, <2>2, <2>3 DEF Follows
  <2>5. a[n] = Len(s) /\ a[n + 1] = Len(s) + Len(t)
    <3>1. Len(s \o t) = Len(s) + Len(t)
      BY ConcatProperties
    <3>2. QED
      BY <1>5, <2>1, <2>2, <2>4, <3>1
  <2>6. Placed(a, x, n, s)
    BY <1>7, <2>2
  <2>7. Placed(a, x, n + 1, s \o t)
    BY <2>1, <2>3, <2>5, <2>6, PlaceOne
  <2>8. QED
    BY <2>1, <2>4, <2>7
<1>8. G \subseteq 0 .. m
  OBVIOUS
<1> HIDE DEF G
<1>9. \A n \in 0 .. m : n \in G
  BY <1>6, <1>7, <1>8, UpTo
<1>10. m \in G
  BY <1>9
<1>11. QED
  BY <1>2, <1>10 DEF G

\* s holds what the sequences hold, and nothing else.
Holds(s, x, m) ==
    /\ \A p \in 1 .. Len(s) : \E i \in 1 .. m : \E k \in 1 .. Len(x[i]) : s[p] = x[i][k]
    /\ \A i \in 1 .. m : \A k \in 1 .. Len(x[i]) : \E p \in 1 .. Len(s) : s[p] = x[i][k]

\* What they come to does.
LEMMA FlatHolds ==
    ASSUME NEW S, NEW m \in Nat, NEW x \in Lists(m, S)
    PROVE  Holds(FlattenSeq(x), x, m)
<1>1. PICK s : s = FlattenSeq(x)
  OBVIOUS
<1>2. PICK a : Placed(a, x, m, s)
  BY <1>1, FlatPlaces
<1>3. \A p \in 1 .. Len(s) : \E i \in 1 .. m : \E k \in 1 .. Len(x[i]) : s[p] = x[i][k]
  <2>1. ASSUME NEW p \in 1 .. Len(s) PROVE \E i \in 1 .. m : \E k \in 1 .. Len(x[i]) : s[p] = x[i][k]
    <3>1. PICK i \in 1 .. m : \E k \in 1 .. Len(x[i]) : p = a[i - 1] + k
      BY <1>2 DEF Placed
    <3>2. PICK k \in 1 .. Len(x[i]) : p = a[i - 1] + k
      BY <3>1
    <3>3. s[a[i - 1] + k] = x[i][k]
      BY <1>2 DEF Placed
    <3>4. QED
      BY <3>2, <3>3
  <2>2. QED
    BY <2>1
<1>4. \A i \in 1 .. m : \A k \in 1 .. Len(x[i]) : \E p \in 1 .. Len(s) : s[p] = x[i][k]
  BY <1>2 DEF Placed
<1>5. QED
  BY <1>1, <1>3, <1>4 DEF Holds

\* A value that what they come to holds once is in one of the sequences.
LEMMA FlatApart ==
    ASSUME NEW S, NEW m \in Nat, NEW x \in Lists(m, S), IsInjective(FlattenSeq(x)),
           NEW i \in 1 .. m, NEW j \in 1 .. m, NEW k \in 1 .. Len(x[i]), NEW l \in 1 .. Len(x[j]),
           x[i][k] = x[j][l]
    PROVE  i = j
<1>0. x \in [1 .. m -> Seq(S)]
  BY DEF Lists
<1>1. PICK s \in Seq(S) : s = FlattenSeq(x)
  BY <1>0, FlatInSeq
<1>2. PICK a : Placed(a, x, m, s)
  BY <1>1, FlatPlaces
<1>3. \A p, q \in 1 .. Len(s) : s[p] = s[q] => p = q
  <2>1. DOMAIN s = 1 .. Len(s)
    OBVIOUS
  <2>2. QED
    BY <1>1, <2>1 DEF IsInjective
<1>4. a[i - 1] + k \in 1 .. Len(s) /\ s[a[i - 1] + k] = x[i][k]
  BY <1>2 DEF Placed
<1>5. a[j - 1] + l \in 1 .. Len(s) /\ s[a[j - 1] + l] = x[j][l]
  BY <1>2 DEF Placed
<1>6. a[i - 1] + k = a[j - 1] + l
  BY <1>3, <1>4, <1>5
<1>7. i \in 0 .. m /\ i - 1 \in 0 .. m /\ j \in 0 .. m /\ j - 1 \in 0 .. m
  OBVIOUS
<1>8. x[i] \in Seq(S) /\ x[j] \in Seq(S)
  BY <1>0
<1>9. Len(x[i]) \in Nat /\ Len(x[j]) \in Nat
  BY <1>8
<1>10. a[i] \in Nat /\ a[i - 1] \in Nat /\ a[j] \in Nat /\ a[j - 1] \in Nat
  BY <1>2, <1>7 DEF Placed
<1>11. a[i] = a[i - 1] + Len(x[i]) /\ a[j] = a[j - 1] + Len(x[j])
  BY <1>2 DEF Placed
<1>12. (i <= j - 1 => a[i] <= a[j - 1]) /\ (j <= i - 1 => a[j] <= a[i - 1])
  BY <1>2, <1>7 DEF Placed
<1>13. ~ (i <= j - 1) /\ ~ (j <= i - 1)
  <2>1. PICK b \in Nat : b = a[i - 1]
    BY <1>10
  <2>2. PICK c \in Nat : c = a[j - 1]
    BY <1>10
  <2>3. PICK d \in Nat : d = Len(x[i])
    BY <1>9
  <2>4. PICK e \in Nat : e = Len(x[j])
    BY <1>9
  <2>5. a[i] = b + d /\ a[j] = c + e
    BY <1>11, <2>1, <2>2, <2>3, <2>4
  <2>6. k \in 1 .. d /\ l \in 1 .. e /\ b + k = c + l
    BY <1>6, <2>1, <2>2, <2>3, <2>4
  <2>7. (i <= j - 1 => b + d <= c) /\ (j <= i - 1 => c + e <= b)
    BY <1>12, <2>1, <2>2, <2>5
  <2>8. QED
    BY <2>6, <2>7
<1>14. QED
  BY <1>13

\* Sequences that hold no value twice, in one or in two, come to one that does not.
LEMMA FlatOnce ==
    ASSUME NEW S, NEW m \in Nat, NEW x \in Lists(m, S),
           \A i \in 1 .. m : \A j \in 1 .. m : \A k \in 1 .. Len(x[i]) : \A l \in 1 .. Len(x[j]) :
                x[i][k] = x[j][l] => i = j /\ k = l
    PROVE  IsInjective(FlattenSeq(x))
<1>0. x \in [1 .. m -> Seq(S)]
  BY DEF Lists
<1>1. PICK s \in Seq(S) : s = FlattenSeq(x)
  BY <1>0, FlatInSeq
<1>2. PICK a : Placed(a, x, m, s)
  BY <1>1, FlatPlaces
<1>3. ASSUME NEW p \in 1 .. Len(s), NEW q \in 1 .. Len(s), s[p] = s[q] PROVE p = q
  <2>1. PICK i \in 1 .. m : \E k \in 1 .. Len(x[i]) : p = a[i - 1] + k
    BY <1>2 DEF Placed
  <2>2. PICK k \in 1 .. Len(x[i]) : p = a[i - 1] + k
    BY <2>1
  <2>3. PICK j \in 1 .. m : \E l \in 1 .. Len(x[j]) : q = a[j - 1] + l
    BY <1>2 DEF Placed
  <2>4. PICK l \in 1 .. Len(x[j]) : q = a[j - 1] + l
    BY <2>3
  <2>5. s[a[i - 1] + k] = x[i][k]
    BY <1>2 DEF Placed
  <2>6. s[a[j - 1] + l] = x[j][l]
    BY <1>2 DEF Placed
  <2>7. x[i][k] = x[j][l]
    BY <1>3, <2>2, <2>4, <2>5, <2>6
  <2>8. i = j /\ k = l
    BY <2>7
  <2>9. QED
    BY <2>2, <2>4, <2>8
<1>4. DOMAIN s = 1 .. Len(s)
  OBVIOUS
<1>5. QED
  BY <1>1, <1>3, <1>4 DEF IsInjective

-----------------------------------------------------------------------------
(* Steps *)

\* The sequences of the steps up to one, and those of one step.
Upto(x, step, i, m) == [n \in 1 .. m |-> IF step[n] <= i THEN x[n] ELSE <<>>]
InStep(x, step, i, m) == [n \in 1 .. m |-> IF step[n] = i THEN x[n] ELSE <<>>]
Climbs(step, m, last) ==
    /\ \A n \in 1 .. m : step[n] \in 1 .. last
    /\ \A n \in 1 .. m, k \in 1 .. m : n <= k => step[n] <= step[k]

\* What a step holds comes after all that the steps before it hold.
LEMMA NextStep ==
    ASSUME NEW S, NEW m \in Nat, NEW last \in Nat, NEW x \in Lists(m, S), NEW step, Climbs(step, m, last),
           NEW i \in 1 .. last
    PROVE  FlattenSeq(Upto(x, step, i, m)) =
                FlattenSeq(Upto(x, step, i - 1, m)) \o FlattenSeq(InStep(x, step, i, m))
<1>0. \A n \in 1 .. m : x[n] \in Seq(S) /\ <<>> \in Seq(S)
  BY DEF Lists
<1> DEFINE u == Upto(x, step, i, m)
           v == Upto(x, step, i - 1, m)
           w == InStep(x, step, i, m)
<1>1. \A n \in 1 .. m : step[n] \in Nat /\ u[n] = (IF step[n] <= i THEN x[n] ELSE <<>>)
  BY DEF Climbs, Upto
<1>2. \A n \in 1 .. m : v[n] = (IF step[n] <= i - 1 THEN x[n] ELSE <<>>)
  BY DEF Upto
<1>3. \A n \in 1 .. m : w[n] = (IF step[n] = i THEN x[n] ELSE <<>>)
  BY DEF InStep
<1>4. u \in [1 .. m -> Seq(S)] /\ v \in [1 .. m -> Seq(S)] /\ w \in [1 .. m -> Seq(S)]
  BY <1>0 DEF Upto, InStep
<1> HIDE DEF u, v, w
<1>5. PICK g : Follows(g, v, m) /\ g[m] = FlattenSeq(v)
  BY <1>4, FlatTrace
<1>6. PICK h : Follows(h, w, m) /\ h[m] = FlattenSeq(w)
  BY <1>4, FlatTrace
<1>7. \A n \in 0 .. m : g[n] \in Seq(S) /\ h[n] \in Seq(S)
  <2>1. \A n \in 1 .. m : v[n] \in Seq(S)
    BY <1>4
  <2>2. \A n \in 1 .. m : w[n] \in Seq(S)
    BY <1>4
  <2>3. \A n \in 0 .. m : g[n] \in Seq(S)
    BY <1>5, <2>1, FollowsInSeq
  <2>4. \A n \in 0 .. m : h[n] \in Seq(S)
    BY <1>6, <2>2, FollowsInSeq
  <2>5. QED
    BY <2>3, <2>4
<1> DEFINE G == {n \in 0 .. m : \A k \in 1 .. n : step[n] < i => h[n] = <<>>}
<1>8. \A n \in 0 .. m : n \in G
  <2>1. 0 \in G
    OBVIOUS
  <2>2. ASSUME NEW n \in 0 .. m - 1, n \in G PROVE n + 1 \in G
    <3>1. n + 1 \in 1 .. m /\ (n + 1) - 1 = n /\ n + 1 \in 0 .. m
      OBVIOUS
    <3>2. ASSUME step[n + 1] < i PROVE h[n + 1] = <<>>
      <4>1. w[n + 1] = <<>>
        <5>1. step[n + 1] # i
          BY <1>1, <3>1, <3>2
        <5>2. QED
          BY <1>3, <3>1, <5>1
      <4>2. h[n] = <<>>
        <5>1. CASE n = 0
          BY <1>6, <5>1 DEF Follows
        <5>2. CASE n # 0
          <6>1. n \in 1 .. m /\ n \in 1 .. n /\ n <= n + 1
            BY <5>2
          <6>2. step[n] <= step[n + 1]
            BY <3>1, <6>1 DEF Climbs
          <6>3. step[n] < i
            BY <1>1, <3>1, <3>2, <6>1, <6>2
          <6>4. QED
            BY <2>2, <6>1, <6>3
        <5>3. QED
          BY <5>1, <5>2
      <4>3. h[n + 1] = h[n] \o w[n + 1]
        BY <1>6, <3>1 DEF Follows
      <4>4. QED
        BY <4>1, <4>2, <4>3
    <3>3. QED
      BY <3>1, <3>2
  <2>3. G \subseteq 0 .. m
    OBVIOUS
  <2> HIDE DEF G
  <2>4. QED
    BY <2>1, <2>2, <2>3, UpTo
<1> DEFINE f == [n \in 0 .. m |-> g[n] \o h[n]]
<1>9. ASSUME NEW n \in 1 .. m PROVE f[n] = f[n - 1] \o u[n]
  <2>1. n \in 0 .. m /\ n - 1 \in 0 .. m /\ n \in 1 .. n
    OBVIOUS
  <2>2. g[n] = g[n - 1] \o v[n] /\ h[n] = h[n - 1] \o w[n]
    BY <1>5, <1>6 DEF Follows
  <2>3. PICK p \in Seq(S) : p = g[n - 1]
    BY <1>7, <2>1
  <2>4. PICK q \in Seq(S) : q = h[n - 1]
    BY <1>7, <2>1
  <2>5. PICK r \in Seq(S) : r = x[n]
    BY <1>0
  <2>6. f[n] = g[n] \o h[n] /\ f[n - 1] = p \o q
    BY <2>1, <2>3, <2>4
  <2> HIDE DEF f
  <2>7. CASE step[n] < i
    <3>1. u[n] = r /\ v[n] = r /\ w[n] = <<>>
      BY <1>1, <1>2, <1>3, <2>5, <2>7
    <3>2. h[n] = <<>>
      BY <1>8, <2>1, <2>7
    <3>3. q = <<>>
      BY <2>2, <2>4, <3>1, <3>2, ConcatEmptySeq
    <3>4. g[n] = p \o r
      BY <2>2, <2>3, <3>1
    <3>5. f[n] = p \o r /\ f[n - 1] = p
      BY <2>6, <3>2, <3>3, <3>4
    <3>6. QED
      BY <3>1, <3>5
  <2>8. CASE step[n] = i
    <3>1. u[n] = r /\ v[n] = <<>> /\ w[n] = r
      BY <1>1, <1>2, <1>3, <2>5, <2>8
    <3>2. g[n] = p /\ h[n] = q \o r
      BY <2>2, <2>3, <2>4, <3>1, ConcatEmptySeq
    <3>3. p \o (q \o r) = (p \o q) \o r
      BY Associates
    <3>4. QED
      BY <2>6, <3>1, <3>2, <3>3
  <2>9. CASE step[n] > i
    <3>1. u[n] = <<>> /\ v[n] = <<>> /\ w[n] = <<>>
      BY <1>1, <1>2, <1>3, <2>9
    <3>2. g[n] = p /\ h[n] = q
      BY <2>2, <2>3, <2>4, <3>1, ConcatEmptySeq
    <3>3. p \o q \in Seq(S)
      OBVIOUS
    <3>4. QED
      BY <2>6, <3>1, <3>2, <3>3, ConcatEmptySeq
  <2>10. step[n] < i \/ step[n] = i \/ step[n] > i
    <3>1. step[n] \in Nat
      BY <1>1
    <3>2. QED
      BY <3>1
  <2>11. QED
    BY <2>7, <2>8, <2>9, <2>10
<1>10. f[0] = <<>> /\ f[m] = FlattenSeq(v) \o FlattenSeq(w)
  <2>1. 0 \in 0 .. m /\ m \in 0 .. m
    OBVIOUS
  <2>2. f[0] = g[0] \o h[0] /\ f[m] = g[m] \o h[m]
    BY <2>1
  <2> HIDE DEF f
  <2>3. QED
    BY <1>5, <1>6, <2>2 DEF Follows
<1>11. \A n \in 1 .. m : f[n] = f[n - 1] \o u[n]
  BY <1>9
<1> HIDE DEF f
<1>12. Follows(f, u, m)
  BY <1>10, <1>11 DEF Follows
<1>13. f[m] = FlattenSeq(u)
  BY <1>4, <1>12, FlatOfTrace
<1>14. QED
  BY <1>10, <1>13 DEF u, v, w

\* Step after step, the steps come to all of it.
LEMMA StepAfterStep ==
    ASSUME NEW S, NEW m \in Nat, NEW last \in Nat, NEW x \in Lists(m, S), NEW step, Climbs(step, m, last)
    PROVE  FlattenSeq([i \in 1 .. last |-> FlattenSeq(InStep(x, step, i, m))]) = FlattenSeq(x)
<1>0. x \in [1 .. m -> Seq(S)] /\ <<>> \in Seq(S)
  BY DEF Lists
<1> DEFINE f == [i \in 0 .. last |-> FlattenSeq(Upto(x, step, i, m))]
           y == [i \in 1 .. last |-> FlattenSeq(InStep(x, step, i, m))]
<1>1. ASSUME NEW i \in 1 .. last PROVE f[i] = f[i - 1] \o y[i]
  <2>1. i \in 0 .. last /\ i - 1 \in 0 .. last
    OBVIOUS
  <2>2. f[i] = FlattenSeq(Upto(x, step, i, m)) /\ f[i - 1] = FlattenSeq(Upto(x, step, i - 1, m))
        /\ y[i] = FlattenSeq(InStep(x, step, i, m))
    BY <2>1
  <2> HIDE DEF f, y
  <2>3. QED
    BY <2>2, NextStep
<1>2. f[0] = <<>>
  <2> DEFINE z == Upto(x, step, 0, m)
  <2>1. \A n \in 1 .. m : ~ (step[n] <= 0)
    BY DEF Climbs
  <2>2. z \in [1 .. m -> {<<>>}]
    BY <2>1 DEF Upto
  <2> HIDE DEF z
  <2>3. FlattenSeq(z) = <<>>
    BY <2>2, FlatOfNone
  <2>4. 0 \in 0 .. last
    OBVIOUS
  <2>5. QED
    BY <2>3, <2>4 DEF z
<1>3. f[last] = FlattenSeq(x)
  <2>1. \A n \in 1 .. m : step[n] <= last
    BY DEF Climbs
  <2>2. Upto(x, step, last, m) = x
    BY <1>0, <2>1 DEF Upto
  <2>3. last \in 0 .. last
    OBVIOUS
  <2>4. QED
    BY <2>2, <2>3
<1>4. y \in [1 .. last -> Seq(S)]
  <2>1. ASSUME NEW i \in 1 .. last PROVE FlattenSeq(InStep(x, step, i, m)) \in Seq(S)
    <3> DEFINE z == InStep(x, step, i, m)
    <3>1. z \in [1 .. m -> Seq(S)]
      BY <1>0 DEF InStep
    <3> HIDE DEF z
    <3>2. FlattenSeq(z) \in Seq(S)
      BY <3>1, FlatInSeq
    <3>3. QED
      BY <3>2 DEF z
  <2>2. QED
    BY <2>1
<1>5. \A i \in 1 .. last : f[i] = f[i - 1] \o y[i]
  BY <1>1
<1> HIDE DEF f, y
<1>6. Follows(f, y, last)
  BY <1>2, <1>5 DEF Follows
<1>7. f[last] = FlattenSeq(y)
  BY <1>4, <1>6, FlatOfTrace
<1>8. QED
  BY <1>3, <1>7 DEF y

-----------------------------------------------------------------------------
(* What a transcript's requests carry *)

\* What sequences hold is the array of it.
LEMMA Arrays ==
    ASSUME NEW S, NEW s \in Seq(S)
    PROVE  IsArray(s)
BY DEF IsArray, ToSet

\* A sequence of some values is one of more.
LEMMA Widen ==
    ASSUME NEW S, NEW T, S \subseteq T, NEW s \in Seq(S)
    PROVE  s \in Seq(T)
<1>1. s = [n \in 1 .. Len(s) |-> s[n]] /\ Len(s) \in Nat
  OBVIOUS
<1>2. \A n \in 1 .. Len(s) : s[n] \in T
  OBVIOUS
<1>3. QED
  BY <1>1, <1>2

\* What the items at some positions are of.
OfChosen(items, P) == [n \in 1 .. Len(items) |-> IF n \in P THEN <<items[n].of>> ELSE <<>>]

\* What the chosen items are of, in their order.
LEMMA OfTheChosen ==
    ASSUME NEW S, NEW items \in Seq(S), NEW P
    PROVE  /\ Chosen(items, P) \in Seq(S)
           /\ Of(Chosen(items, P)) = FlattenSeq(OfChosen(items, P))
<1> DEFINE F == [v \in S |-> v.of]
           c == Chosen(items, P)
<1>1. c \in Seq(S) /\ Each(F, c) = FlattenSeq(EachOf(F, items, P))
  <2> HIDE DEF F
  <2>1. QED
    BY EachChosen
<1>2. OfChosen(items, P) = EachOf(F, items, P)
  BY DEF OfChosen, EachOf
<1> HIDE DEF c
<1>3. Each(F, c) = Of(c)
  BY <1>1 DEF Each, Of
<1>4. QED
  BY <1>1, <1>2, <1>3 DEF c

\* What an item of a kind is of, and nothing of an item of another.
OfKind(kind, S) == [v \in S |-> IF v.kind = kind THEN <<v.of>> ELSE <<>>]

\* Items of a kind are read from a sequence, one by one.
LEMMA KindIsRead ==
    ASSUME NEW S, NEW items \in Seq(S), NEW kind
    PROVE  /\ OfKind(kind, S) \in Tables(S, {v.of : v \in S})
           /\ Of(Kind(items, kind)) = Read(OfKind(kind, S), items)
           /\ Kind(items, kind) \in Seq(S)
<1> DEFINE P == {n \in DOMAIN items : items[n].kind = kind}
<1>1. OfKind(kind, S) \in Tables(S, {v.of : v \in S})
  <2>1. PICK U : U = {v.of : v \in S}
    OBVIOUS
  <2>2. \A v \in S : v.of \in U
    BY <2>1
  <2>3. \A v \in S : <<v.of>> \in Seq(U) /\ <<>> \in Seq(U)
    BY <2>2
  <2>4. \A v \in S : (IF v.kind = kind THEN <<v.of>> ELSE <<>>) \in Seq(U)
    BY <2>3
  <2>5. QED
    BY <2>1, <2>4 DEF OfKind, Tables
<1>2. OfChosen(items, P) = [n \in DOMAIN items |-> OfKind(kind, S)[items[n]]]
  <2>1. \A n \in DOMAIN items : items[n] \in S /\ DOMAIN items = 1 .. Len(items)
    OBVIOUS
  <2>2. \A n \in DOMAIN items : OfKind(kind, S)[items[n]] = IF n \in P THEN <<items[n].of>> ELSE <<>>
    BY <2>1 DEF OfKind
  <2> HIDE DEF P
  <2>3. QED
    BY <2>1, <2>2 DEF OfChosen
<1> HIDE DEF P
<1>3. Of(Chosen(items, P)) = FlattenSeq(OfChosen(items, P)) /\ Chosen(items, P) \in Seq(S)
  BY OfTheChosen
<1>4. QED
  BY <1>1, <1>2, <1>3 DEF Kind, P, Read

\* The items of a kind in two sequences, one after the other.
LEMMA KindConcat ==
    ASSUME NEW S, NEW s \in Seq(S), NEW t \in Seq(S), NEW kind
    PROVE  Of(Kind(s \o t, kind)) = Of(Kind(s, kind)) \o Of(Kind(t, kind))
<1>1. PICK w \in Tables(S, {v.of : v \in S}) : w = OfKind(kind, S)
  BY KindIsRead
<1>2. s \o t \in Seq(S)
  OBVIOUS
<1>3. PICK u \in Seq(S) : u = s \o t
  BY <1>2
<1>4. Of(Kind(u, kind)) = Read(w, u)
  BY <1>1, KindIsRead
<1>5. Of(Kind(s, kind)) = Read(w, s) /\ Of(Kind(t, kind)) = Read(w, t)
  BY <1>1, KindIsRead
<1>6. Read(w, s \o t) = Read(w, s) \o Read(w, t)
  BY ReadConcat
<1>7. QED
  BY <1>3, <1>4, <1>5, <1>6

\* No item is of the kind.
LEMMA KindNone ==
    ASSUME NEW S, NEW s \in Seq(S), NEW kind, \A n \in DOMAIN s : s[n].kind # kind
    PROVE  Of(Kind(s, kind)) = <<>>
<1> DEFINE P == {n \in DOMAIN s : s[n].kind = kind}
           x == OfChosen(s, P)
<1>1. x \in [1 .. Len(s) -> {<<>>}] /\ Len(s) \in Nat
  <2>1. DOMAIN s = 1 .. Len(s) /\ P = {}
    OBVIOUS
  <2> HIDE DEF P
  <2>2. QED
    BY <2>1 DEF OfChosen
<1> HIDE DEF P, x
<1>2. FlattenSeq(x) = <<>>
  BY <1>1, FlatOfNone
<1>3. Of(Chosen(s, P)) = FlattenSeq(OfChosen(s, P))
  BY OfTheChosen
<1>4. QED
  BY <1>2, <1>3 DEF P, x, Kind

\* Every item is of the kind.
LEMMA KindAll ==
    ASSUME NEW S, NEW s \in Seq(S), NEW kind, \A n \in DOMAIN s : s[n].kind = kind
    PROVE  Of(Kind(s, kind)) = Of(s)
<1> DEFINE P == {n \in DOMAIN s : s[n].kind = kind}
           v == [n \in 1 .. Len(s) |-> s[n].of]
           T == {a.of : a \in S}
<1>1. OfChosen(s, P) = [n \in 1 .. Len(s) |-> <<v[n]>>]
  <2>1. DOMAIN s = 1 .. Len(s) /\ \A n \in DOMAIN s : n \in P
    OBVIOUS
  <2> HIDE DEF P
  <2>2. QED
    BY <2>1 DEF OfChosen
<1>2. v \in [1 .. Len(s) -> T] /\ Len(s) \in Nat /\ v = Of(s)
  BY DEF Of
<1> HIDE DEF P, v, T
<1>3. FlattenSeq([n \in 1 .. Len(s) |-> <<v[n]>>]) = v
  BY <1>2, FlatOfSingles
<1>4. Of(Chosen(s, P)) = FlattenSeq(OfChosen(s, P))
  BY OfTheChosen
<1>5. QED
  BY <1>1, <1>2, <1>3, <1>4 DEF P, Kind

\* The calls of an output, as a sequence.
LEMMA CallsOfOutput ==
    ASSUME NEW S, NEW output \in Seq(S)
    PROVE  CallIds(output) \in Seq({v.of : v \in S})
<1>1. Kind(output, "call") \in Seq(S)
  BY KindIsRead
<1>2. QED
  BY <1>1 DEF CallIds, Of

\* A request carries the results of the one before and one of each call it released.
LEMMA ResultsOfRequest ==
    ASSUME NEW asked, NEW previous, NEW output,
           ValidNativeRequest(asked, previous, output), IsArray(previous.input)
    PROVE  /\ IsArray(asked.input)
           /\ Of(Kind(asked.input, "result")) = Of(Kind(previous.input, "result")) \o CallIds(output)
<1>1. PICK S : S = ToSet(output)
  OBVIOUS
<1>2. output \in Seq(S)
  BY <1>1 DEF ValidNativeRequest, ContinuationOutput, IsArray
<1>3. PICK calls \in Seq({v.of : v \in S}) : calls = CallIds(output)
  BY <1>2, CallsOfOutput
<1> DEFINE results == [n \in DOMAIN calls |-> [kind |-> "result", of |-> calls[n]]]
           normal == Normalized(output)
           T == ToSet(previous.input) \cup ToSet(normal) \cup ToSet(results)
<1>4. previous.input \in Seq(T)
  <2>1. previous.input \in Seq(ToSet(previous.input))
    BY DEF IsArray
  <2>2. ToSet(previous.input) \subseteq T
    OBVIOUS
  <2> HIDE DEF T
  <2>3. QED
    BY <2>1, <2>2, Widen
<1>5. normal \in Seq(T) /\ \A n \in DOMAIN normal : normal[n].kind \in {"reasoning", "call", "message"}
  <2>1. normal = [n \in 1 .. Len(output) |-> [kind |-> output[n].kind, of |-> output[n].of]]
    BY <1>2 DEF Normalized
  <2>2. \A n \in DOMAIN normal : normal[n] \in ToSet(normal)
    BY DEF ToSet
  <2>3. DOMAIN normal = 1 .. Len(output) /\ Len(output) \in Nat /\ normal = [n \in 1 .. Len(output) |-> normal[n]]
    BY <1>2, <2>1
  <2>4. \A n \in DOMAIN output : output[n].kind \in {"reasoning", "call", "message"}
    BY DEF ValidNativeRequest, ContinuationOutput
  <2>5. \A n \in DOMAIN normal : normal[n].kind = output[n].kind /\ n \in DOMAIN output
    BY <1>2, <2>1
  <2> HIDE DEF normal, results
  <2>6. normal \in Seq(T)
    BY <2>2, <2>3
  <2>7. QED
    BY <2>4, <2>5, <2>6
<1>6. results \in Seq(T) /\ Of(results) = calls /\ \A n \in DOMAIN results : results[n].kind = "result"
  <2>1. \A n \in DOMAIN results : results[n] \in ToSet(results)
    BY DEF ToSet
  <2>2. DOMAIN results = 1 .. Len(calls) /\ Len(calls) \in Nat /\ calls = [n \in 1 .. Len(calls) |-> calls[n]]
    OBVIOUS
  <2>3. Of(results) = calls /\ \A n \in DOMAIN results : results[n].kind = "result"
    BY <2>2 DEF Of
  <2>4. results = [n \in 1 .. Len(calls) |-> results[n]]
    BY <2>2
  <2> HIDE DEF normal, results
  <2>5. results \in Seq(T)
    BY <2>1, <2>2, <2>4
  <2>6. QED
    BY <2>3, <2>5
<1>7. asked.input = previous.input \o normal \o results
  BY <1>3 DEF ValidNativeRequest
<1> HIDE DEF normal, results, T
<1>8. PICK p \in Seq(T) : p = previous.input
  BY <1>4
<1>9. PICK q \in Seq(T) : q = p \o normal
  <2>1. p \o normal \in Seq(T)
    BY <1>5, ConcatProperties
  <2>2. QED
    BY <2>1
<1>10. asked.input = q \o results /\ asked.input \in Seq(T)
  BY <1>6, <1>7, <1>8, <1>9
<1>11. Of(Kind(q \o results, "result")) = Of(Kind(q, "result")) \o Of(Kind(results, "result"))
  BY <1>6, KindConcat
<1>12. Of(Kind(p \o normal, "result")) = Of(Kind(p, "result")) \o Of(Kind(normal, "result"))
  BY <1>5, KindConcat
<1>13. Of(Kind(normal, "result")) = <<>>
  <2>1. \A n \in DOMAIN normal : normal[n].kind # "result"
    BY <1>5
  <2>2. QED
    BY <1>5, <2>1, KindNone
<1>14. Of(Kind(results, "result")) = calls
  BY <1>6, KindAll
<1>15. Of(Kind(p, "result")) \o <<>> = Of(Kind(p, "result"))
  <2>1. Kind(p, "result") \in Seq(T)
    BY KindIsRead
  <2>2. Of(Kind(p, "result")) \in Seq({v.of : v \in T})
    BY <2>1 DEF Of
  <2>3. QED
    BY <2>2, ConcatEmptySeq
<1>16. IsArray(asked.input)
  BY <1>10, Arrays
<1>17. QED
  BY <1>3, <1>8, <1>9, <1>10, <1>11, <1>12, <1>13, <1>14, <1>15, <1>16

\* The chosen items are the items at the positions, and all of those.
LEMMA ChosenHolds ==
    ASSUME NEW S, NEW items \in Seq(S), NEW P
    PROVE  /\ \A p \in DOMAIN Chosen(items, P) : \E n \in DOMAIN items : n \in P /\ Chosen(items, P)[p] = items[n]
           /\ \A n \in DOMAIN items : n \in P => \E p \in DOMAIN Chosen(items, P) : Chosen(items, P)[p] = items[n]
<1> DEFINE x == [n \in DOMAIN items |-> IF n \in P THEN <<items[n]>> ELSE <<>>]
           m == Len(items)
<1>1. m \in Nat /\ DOMAIN items = 1 .. m /\ x \in Lists(m, S)
  BY DEF Lists
<1>2. \A n \in 1 .. m : (n \in P => x[n] = <<items[n]>>) /\ (n \notin P => x[n] = <<>>)
  OBVIOUS
<1> HIDE DEF x, m
<1>3. PICK c \in Seq(S) : c = FlattenSeq(x)
  <2>1. x \in [1 .. m -> Seq(S)]
    BY <1>1 DEF Lists
  <2>2. QED
    BY <1>1, <2>1, FlatInSeq
<1>4. c = Chosen(items, P) /\ DOMAIN c = 1 .. Len(c)
  BY <1>3 DEF Chosen, x
<1>5. /\ \A p \in 1 .. Len(c) : \E i \in 1 .. m : \E k \in 1 .. Len(x[i]) : c[p] = x[i][k]
      /\ \A i \in 1 .. m : \A k \in 1 .. Len(x[i]) : \E p \in 1 .. Len(c) : c[p] = x[i][k]
  <2>1. Holds(FlattenSeq(x), x, m)
    BY <1>1, FlatHolds
  <2>2. Holds(c, x, m)
    BY <1>3, <2>1
  <2>3. QED
    BY <2>2 DEF Holds
<1>6. ASSUME NEW p \in 1 .. Len(c) PROVE \E n \in 1 .. m : n \in P /\ c[p] = items[n]
  <2>1. PICK i \in 1 .. m : \E k \in 1 .. Len(x[i]) : c[p] = x[i][k]
    BY <1>5
  <2>2. PICK k \in 1 .. Len(x[i]) : c[p] = x[i][k]
    BY <2>1
  <2>3. i \in P
    <3>1. CASE i \notin P
      <4>1. x[i] = <<>>
        BY <1>2, <3>1
      <4>2. QED
        BY <4>1
    <3>2. QED
      BY <3>1
  <2>4. x[i] = <<items[i]>>
    BY <1>2, <2>3
  <2>5. QED
    BY <2>2, <2>3, <2>4
<1>7. ASSUME NEW n \in 1 .. m, n \in P PROVE \E p \in 1 .. Len(c) : c[p] = items[n]
  <2>1. x[n] = <<items[n]>>
    BY <1>2, <1>7
  <2>2. 1 \in 1 .. Len(x[n]) /\ x[n][1] = items[n]
    BY <2>1
  <2>3. QED
    BY <1>5, <2>2
<1>8. QED
  BY <1>1, <1>4, <1>6, <1>7

\* The steps of what was printed go up, from the first request's to the last's.
LEMMA StepsClimb ==
    ASSUME NEW e, InSteps(e), IsArray(e.events), IsArray(e.requests)
    PROVE  Climbs([n \in 1 .. Len(e.events) |-> StepOf(e.events, n)], Len(e.events), Len(e.requests))
<1> DEFINE m == Len(e.events)
           Starts(n) == {k \in 1 .. n : e.events[k].type = "step_start"}
           step == [n \in 1 .. m |-> StepOf(e.events, n)]
<1>1. m \in Nat /\ Len(e.requests) \in Nat /\ DOMAIN e.events = 1 .. m
  BY DEF IsArray
<1> HIDE DEF m
<1>2. ASSUME NEW n \in 1 .. m PROVE IsFiniteSet(Starts(n)) /\ step[n] = Cardinality(Starts(n)) /\ step[n] \in Nat
  <2>1. IsFiniteSet(1 .. n) /\ Starts(n) \subseteq 1 .. n
    BY FS_Interval
  <2>2. step[n] = Cardinality(Starts(n))
    BY DEF StepOf
  <2> HIDE DEF Starts
  <2>3. IsFiniteSet(Starts(n))
    BY <2>1, FS_Subset
  <2>4. Cardinality(Starts(n)) \in Nat
    BY <2>3, FS_CardinalityType
  <2>5. QED
    BY <2>2, <2>3, <2>4
<1>3. ASSUME NEW n \in 1 .. m, NEW k \in 1 .. m, n <= k PROVE step[n] <= step[k]
  <2>1. Starts(n) \subseteq Starts(k)
    BY <1>3
  <2>2. IsFiniteSet(Starts(k)) /\ step[k] = Cardinality(Starts(k)) /\ step[n] = Cardinality(Starts(n))
    BY <1>2
  <2> HIDE DEF Starts, step
  <2>3. Cardinality(Starts(n)) <= Cardinality(Starts(k))
    BY <2>1, <2>2, FS_Subset
  <2>4. QED
    BY <2>2, <2>3
<1>4. ASSUME NEW n \in 1 .. m PROVE step[n] \in 1 .. Len(e.requests)
  <2>1. 1 \in 1 .. m /\ m \in 1 .. m /\ 1 <= n /\ n <= m
    BY <1>1
  <2>2. step[m] = Len(e.requests)
    BY <2>1 DEF InSteps, m
  <2>3. step[1] >= 1
    <3>1. 1 \in Starts(1)
      BY <1>1, <2>1 DEF InSteps
    <3>2. IsFiniteSet(Starts(1)) /\ step[1] = Cardinality(Starts(1)) /\ step[1] \in Nat
      BY <1>2, <2>1
    <3> HIDE DEF Starts, step
    <3>3. Cardinality(Starts(1)) # 0
      BY <3>1, <3>2, FS_EmptySet
    <3>4. QED
      BY <3>2, <3>3
  <2>4. step[1] <= step[n] /\ step[n] <= step[m]
    <3> HIDE DEF step
    <3>1. QED
      BY <1>3, <2>1
  <2>5. step[n] \in Nat /\ step[1] \in Nat
    BY <1>2, <2>1
  <2> HIDE DEF step
  <2>6. QED
    BY <1>1, <2>2, <2>3, <2>4, <2>5
<1>5. QED
  BY <1>3, <1>4 DEF Climbs, m

\* The tools that were printed are those of the steps, step after step.
LEMMA ToolsByStep ==
    ASSUME NEW e, InSteps(e), IsArray(e.events), IsArray(e.requests)
    PROVE  Of(ToolEvents(e.events))
                = FlattenSeq([i \in 1 .. Len(e.requests) |-> Of(Printed(e, i, "tool_use"))])
<1> DEFINE m == Len(e.events)
           last == Len(e.requests)
           step == [n \in 1 .. m |-> StepOf(e.events, n)]
           P == {n \in DOMAIN e.events : e.events[n].type = "tool_use"}
           At(i) == {n \in DOMAIN e.events : StepOf(e.events, n) = i /\ e.events[n].type = "tool_use"}
           x == OfChosen(e.events, P)
           S == ToSet(e.events)
           T == {v.of : v \in S}
<1>1. m \in Nat /\ last \in Nat /\ DOMAIN e.events = 1 .. m /\ e.events \in Seq(S)
  BY DEF IsArray
<1>2. Climbs(step, m, last)
  <2> HIDE DEF m, last
  <2>1. QED
    BY StepsClimb DEF m, last
<1>3. x \in Lists(m, T)
  <2>1. \A n \in 1 .. m : e.events[n] \in S
    BY <1>1
  <2>2. \A n \in 1 .. m : e.events[n].of \in T
    BY <2>1
  <2> HIDE DEF S, T, P
  <2>3. \A n \in 1 .. m : <<e.events[n].of>> \in Seq(T) /\ <<>> \in Seq(T)
    BY <2>2
  <2>4. \A n \in 1 .. m : (IF n \in P THEN <<e.events[n].of>> ELSE <<>>) \in Seq(T)
    BY <2>3
  <2>5. QED
    BY <2>4 DEF Lists, OfChosen
<1>4. \A i \in 1 .. last : InStep(x, step, i, m) = OfChosen(e.events, At(i))
  <2>1. ASSUME NEW i \in 1 .. last PROVE InStep(x, step, i, m) = OfChosen(e.events, At(i))
    <3>1. ASSUME NEW n \in 1 .. m
          PROVE  (IF step[n] = i THEN x[n] ELSE <<>>) = (IF n \in At(i) THEN <<e.events[n].of>> ELSE <<>>)
      <4>1. x[n] = (IF n \in P THEN <<e.events[n].of>> ELSE <<>>) /\ step[n] = StepOf(e.events, n)
        BY DEF OfChosen
      <4>2. n \in At(i) <=> step[n] = i /\ n \in P
        BY <1>1, <4>1
      <4> HIDE DEF x, step, P, At
      <4>3. QED
        BY <4>1, <4>2
    <3> HIDE DEF x, step, P, At
    <3>2. QED
      BY <3>1 DEF InStep, OfChosen, m
  <2>2. QED
    BY <2>1
<1>5. \A i \in 1 .. last : Of(Printed(e, i, "tool_use")) = FlattenSeq(InStep(x, step, i, m))
  <2>1. ASSUME NEW i \in 1 .. last PROVE Of(Printed(e, i, "tool_use")) = FlattenSeq(OfChosen(e.events, At(i)))
    <3>1. Printed(e, i, "tool_use") = Chosen(e.events, At(i))
      BY DEF Printed
    <3> HIDE DEF At, S
    <3>2. QED
      BY <1>1, <3>1, OfTheChosen
  <2> HIDE DEF At, x, step
  <2>2. QED
    BY <1>4, <2>1
<1>6. Of(ToolEvents(e.events)) = FlattenSeq(x)
  <2>1. ToolEvents(e.events) = Chosen(e.events, P)
    BY DEF ToolEvents, OfType
  <2> HIDE DEF P, S
  <2>2. QED
    BY <1>1, <2>1, OfTheChosen
<1> HIDE DEF x, step, m, T
<1>7. FlattenSeq([i \in 1 .. last |-> FlattenSeq(InStep(x, step, i, m))]) = FlattenSeq(x)
  <2> HIDE DEF last
  <2>1. QED
    BY <1>1, <1>2, <1>3, StepAfterStep
<1>8. [i \in 1 .. last |-> Of(Printed(e, i, "tool_use"))] = [i \in 1 .. last |-> FlattenSeq(InStep(x, step, i, m))]
  BY <1>5
<1>9. QED
  BY <1>6, <1>7, <1>8

-----------------------------------------------------------------------------
(* Calls and their results *)

\* The calls that each request released.
Releases == [i \in 1 .. Len(evidence.requests) |-> CallIds(evidence.decisions[i].output)]

\* Records that fit are as many as the requests, and hold sequences.
LEMMA RecordsOfRuns ==
    ASSUME BaselineTranscriptFits(evidence)
    PROVE  /\ Len(evidence.requests) \in Nat /\ Len(evidence.requests) >= 2
           /\ DOMAIN evidence.requests = 1 .. Len(evidence.requests)
           /\ DOMAIN evidence.decisions = 1 .. Len(evidence.requests)
           /\ DOMAIN evidence.receipts = 1 .. Len(evidence.requests)
           /\ IsArray(evidence.requests) /\ IsArray(evidence.events)
           /\ \A i \in 1 .. Len(evidence.requests) : IsArray(evidence.decisions[i].output)
<1>1. CountsAgree(evidence) /\ NativeEventsFit(evidence.events)
  BY DEF BaselineTranscriptFits
<1>2. IsArray(evidence.requests) /\ IsArray(evidence.decisions) /\ IsArray(evidence.receipts)
      /\ Len(evidence.requests) >= 2 /\ Len(evidence.decisions) = Len(evidence.requests)
      /\ Len(evidence.receipts) = Len(evidence.requests)
  BY <1>1 DEF CountsAgree
<1>3. Len(evidence.requests) \in Nat /\ DOMAIN evidence.requests = 1 .. Len(evidence.requests)
      /\ DOMAIN evidence.decisions = 1 .. Len(evidence.requests)
      /\ DOMAIN evidence.receipts = 1 .. Len(evidence.requests)
  BY <1>2 DEF IsArray
<1>4. \A i \in 1 .. Len(evidence.requests) : IsArray(evidence.decisions[i].output)
  BY <1>3 DEF BaselineTranscriptFits, JoinedFits, ContinuationOutput
<1>5. QED
  BY <1>1, <1>2, <1>3, <1>4 DEF NativeEventsFit

\* The calls that the requests released are sequences of some ids.
LEMMA ReleasesAreRows ==
    ASSUME BaselineTranscriptFits(evidence)
    PROVE  /\ \E T : Releases \in Lists(Len(evidence.requests), T)
           /\ ReleasedCalls = FlattenSeq(Releases)
<1> DEFINE m == Len(evidence.requests)
           S == UNION {ToSet(evidence.decisions[i].output) : i \in 1 .. m}
           T == {v.of : v \in S}
<1>1. ASSUME NEW i \in 1 .. m PROVE CallIds(evidence.decisions[i].output) \in Seq(T)
  <2>1. PICK A : A = ToSet(evidence.decisions[i].output)
    OBVIOUS
  <2>2. evidence.decisions[i].output \in Seq(A)
    BY <2>1, RecordsOfRuns DEF IsArray
  <2>3. A \subseteq S
    BY <2>1
  <2> HIDE DEF S
  <2>4. evidence.decisions[i].output \in Seq(S)
    BY <2>2, <2>3, Widen
  <2>5. QED
    BY <2>4, CallsOfOutput
<1> HIDE DEF S, T
<1>2. Releases \in Lists(m, T)
  BY <1>1 DEF Releases, Lists, m
<1>3. DOMAIN evidence.decisions = 1 .. m
  BY RecordsOfRuns DEF m
<1>4. ReleasedCalls = FlattenSeq(Releases)
  BY <1>3 DEF ReleasedCalls, Releases, m
<1>5. QED
  BY <1>2, <1>4 DEF m

\* The tools that ran are the calls that were released, in their order, and none of them twice.
LEMMA CallsAreCarriedOut ==
    ASSUME BaselineTranscriptFits(evidence)
    PROVE  Of(ToolEvents(evidence.events)) = ReleasedCalls /\ IsInjective(ReleasedCalls)
<1> DEFINE m == Len(evidence.requests)
<1>1. InSteps(evidence) /\ NativeEventsFit(evidence.events)
  BY DEF BaselineTranscriptFits
<1>2. Of(ToolEvents(evidence.events)) = FlattenSeq([i \in 1 .. m |-> Of(Printed(evidence, i, "tool_use"))])
  BY <1>1, RecordsOfRuns, ToolsByStep
<1>3. \A i \in 1 .. m : Of(Printed(evidence, i, "tool_use")) = CallIds(evidence.decisions[i].output)
  <2>1. DOMAIN evidence.requests = 1 .. m
    BY RecordsOfRuns
  <2>2. QED
    BY <2>1 DEF BaselineTranscriptFits, StepFits
<1>4. [i \in 1 .. m |-> Of(Printed(evidence, i, "tool_use"))] = Releases
  BY <1>3 DEF Releases
<1>5. Of(ToolEvents(evidence.events)) = ReleasedCalls
  BY <1>2, <1>4, ReleasesAreRows
<1>6. QED
  BY <1>1, <1>5 DEF NativeEventsFit

\* The last request carries a result of every call, in the order of their release.
LEMMA ResultsAreCarried ==
    ASSUME BaselineTranscriptFits(evidence)
    PROVE  Of(Kind(Last(evidence.requests).input, "result")) = ReleasedCalls
<1> DEFINE r(i) == Of(Kind(evidence.requests[i].input, "result"))
<1>1. PICK m \in Nat : m = Len(evidence.requests)
  BY RecordsOfRuns
<1>2. m >= 2 /\ DOMAIN evidence.requests = 1 .. m /\ Last(evidence.requests) = evidence.requests[m]
  BY <1>1, RecordsOfRuns DEF Last
<1>3. PICK T : Releases \in Lists(m, T)
  BY <1>1, ReleasesAreRows
<1>4. \A i \in 1 .. m : Releases[i] = CallIds(evidence.decisions[i].output)
  BY <1>1 DEF Releases
<1>5. IsArray(evidence.requests[1].input) /\ r(1) = <<>>
  <2>1. ValidFirstRequest(evidence.requests[1])
    BY <1>2 DEF BaselineTranscriptFits
  <2>2. PICK S : S = ToSet(evidence.requests[1].input)
    OBVIOUS
  <2>3. PICK s \in Seq(S) : s = evidence.requests[1].input
    BY <2>1, <2>2 DEF ValidFirstRequest, IsArray
  <2>4. \A n \in DOMAIN s : s[n].kind # "result"
    BY <2>1, <2>3 DEF ValidFirstRequest
  <2>5. Of(Kind(s, "result")) = <<>>
    BY <2>4, KindNone
  <2>6. QED
    BY <2>1, <2>3, <2>5 DEF ValidFirstRequest
<1>6. ASSUME NEW i \in 1 .. m - 1, IsArray(evidence.requests[i].input)
      PROVE  IsArray(evidence.requests[i + 1].input) /\ r(i + 1) = r(i) \o Releases[i]
  <2>1. i + 1 \in 1 .. m /\ i + 1 > 1 /\ (i + 1) - 1 = i /\ i \in 1 .. m
    BY <1>2
  <2>2. ValidNativeRequest(evidence.requests[i + 1], evidence.requests[i], evidence.decisions[i].output)
    BY <1>2, <2>1 DEF BaselineTranscriptFits
  <2>3. PICK q, p, o : q = evidence.requests[i + 1] /\ p = evidence.requests[i] /\ o = evidence.decisions[i].output
    OBVIOUS
  <2>4. ValidNativeRequest(q, p, o) /\ IsArray(p.input)
    BY <1>6, <2>2, <2>3
  <2>5. IsArray(q.input) /\ Of(Kind(q.input, "result")) = Of(Kind(p.input, "result")) \o CallIds(o)
    BY <2>4, ResultsOfRequest
  <2>6. QED
    BY <1>4, <2>1, <2>3, <2>5
<1> DEFINE G == {n \in 0 .. m - 1 : IsArray(evidence.requests[n + 1].input)}
<1>7. \A n \in 0 .. m - 1 : n \in G
  <2>1. 0 \in G
    BY <1>2, <1>5
  <2>2. ASSUME NEW n \in 0 .. (m - 1) - 1, n \in G PROVE n + 1 \in G
    <3>1. n + 1 \in 1 .. m - 1 /\ n + 1 \in 0 .. m - 1
      BY <1>2
    <3>2. IsArray(evidence.requests[n + 1].input)
      BY <2>2
    <3>3. QED
      BY <1>6, <3>1, <3>2
  <2>3. G \subseteq 0 .. m - 1 /\ m - 1 \in Nat
    BY <1>2
  <2> HIDE DEF G
  <2>4. QED
    BY <2>1, <2>2, <2>3, UpTo
<1>8. \A i \in 1 .. m - 1 : r(i + 1) = r(i) \o Releases[i]
  <2>1. ASSUME NEW i \in 1 .. m - 1 PROVE r(i + 1) = r(i) \o Releases[i]
    <3>1. i - 1 \in 0 .. m - 1 /\ (i - 1) + 1 = i
      BY <1>2
    <3>2. IsArray(evidence.requests[i].input)
      BY <1>7, <3>1
    <3> HIDE DEF r
    <3>3. QED
      BY <1>6, <3>2
  <2>2. QED
    BY <2>1
<1>9. Releases[m] = <<>>
  <2>1. m \in 1 .. m
    BY <1>2
  <2>2. StepFits(evidence, m)
    BY <1>2, <2>1 DEF BaselineTranscriptFits
  <2>3. CallIds(evidence.decisions[m].output) = <<>>
    BY <1>1, <2>2 DEF StepFits
  <2>4. QED
    BY <1>4, <2>1, <2>3
<1> DEFINE g == [n \in 0 .. m |-> IF n < m THEN r(n + 1) ELSE r(m)]
<1>10. \A n \in 0 .. m - 1 : g[n] = r(n + 1)
  <2>1. \A n \in 0 .. m - 1 : n < m /\ n \in 0 .. m
    BY <1>2
  <2> HIDE DEF r
  <2>2. QED
    BY <2>1
<1>11. g[m] = r(m)
  OBVIOUS
<1> HIDE DEF g, r
<1>12. \A n \in 0 .. m : g[n] \in Seq(T) /\ (n > 0 => g[n] = g[n - 1] \o Releases[n])
  <2> DEFINE H == {n \in 0 .. m : g[n] \in Seq(T) /\ (n > 0 => g[n] = g[n - 1] \o Releases[n])}
  <2>1. 0 \in H
    <3>1. 0 \in 0 .. m - 1 /\ 0 + 1 = 1 /\ 0 \in 0 .. m
      BY <1>2
    <3>2. g[0] = <<>>
      BY <1>5, <1>10, <3>1
    <3>3. <<>> \in Seq(T) /\ ~ (0 > 0)
      OBVIOUS
    <3>4. QED
      BY <3>1, <3>2, <3>3
  <2>2. ASSUME NEW n \in 0 .. m - 1, n \in H PROVE n + 1 \in H
    <3>1. n + 1 \in 1 .. m /\ n + 1 \in 0 .. m /\ (n + 1) - 1 = n /\ n + 1 > 0
      BY <1>2
    <3>2. Releases[n + 1] \in Seq(T)
      BY <1>3, <3>1 DEF Lists
    <3>3. g[n] \in Seq(T)
      BY <2>2
    <3>4. g[n + 1] = g[n] \o Releases[n + 1]
      <4>1. CASE n + 1 < m
        <5>1. n + 1 \in 1 .. m - 1 /\ n + 1 \in 0 .. m - 1
          BY <1>2, <4>1
        <5>2. g[n + 1] = r((n + 1) + 1) /\ g[n] = r(n + 1)
          BY <1>10, <5>1
        <5>3. QED
          BY <1>8, <5>1, <5>2
      <4>2. CASE n + 1 = m
        <5>1. g[n + 1] = r(m) /\ g[n] = r(m) /\ Releases[n + 1] = <<>>
          BY <1>9, <1>10, <1>11, <4>2
        <5>2. QED
          BY <3>3, <5>1, ConcatEmptySeq
      <4>3. n + 1 < m \/ n + 1 = m
        OBVIOUS
      <4>4. QED
        BY <4>1, <4>2, <4>3
    <3>5. g[n] \o Releases[n + 1] \in Seq(T)
      BY <3>2, <3>3, ConcatProperties
    <3>6. QED
      BY <3>1, <3>4, <3>5
  <2>3. H \subseteq 0 .. m
    OBVIOUS
  <2> HIDE DEF H
  <2>4. \A n \in 0 .. m : n \in H
    BY <2>1, <2>2, <2>3, UpTo
  <2>5. QED
    BY <2>4 DEF H
<1>13. Follows(g, Releases, m)
  <2>1. 0 \in 0 .. m - 1 /\ 0 + 1 = 1 /\ \A n \in 1 .. m : n \in 0 .. m /\ n > 0
    BY <1>2
  <2>2. QED
    BY <1>5, <1>10, <1>12, <2>1 DEF Follows
<1>14. g[m] = FlattenSeq(Releases)
  <2>1. Releases \in [1 .. m -> Seq(T)]
    BY <1>3 DEF Lists
  <2>2. QED
    BY <1>13, <2>1, FlatOfTrace
<1>15. QED
  BY <1>2, <1>11, <1>14, ReleasesAreRows DEF r

-----------------------------------------------------------------------------
(* The order of work *)

\* A later request was not sent earlier.
LEMMA RequestsClimb ==
    ASSUME BaselineTranscriptFits(evidence)
    PROVE  \A i, j \in 1 .. Len(evidence.requests) :
             i <= j => evidence.requests[i].startedAt <= evidence.requests[j].startedAt
<1>1. PICK m \in Nat : m = Len(evidence.requests)
  BY RecordsOfRuns
<1>2. DOMAIN evidence.requests = 1 .. m
  BY <1>1, RecordsOfRuns
<1> DEFINE t(i) == evidence.requests[i].startedAt
<1>3. ASSUME NEW i \in 1 .. m PROVE t(i) \in Nat /\ (i + 1 \in 1 .. m => t(i) <= t(i + 1))
  <2>1. JoinedFits(evidence.requests[i], evidence.decisions[i], evidence.receipts[i], evidence.durable[i])
    BY <1>2 DEF BaselineTranscriptFits
  <2>2. PICK s, f, n : /\ s = evidence.requests[i].startedAt /\ f = evidence.requests[i].firstAt
                       /\ n = evidence.requests[i].endedAt
    OBVIOUS
  <2>3. s \in Nat /\ f \in Nat /\ n \in Nat /\ s <= f /\ f <= n
    BY <2>1, <2>2 DEF JoinedFits
  <2>4. ASSUME i + 1 \in 1 .. m PROVE t(i) <= t(i + 1)
    <3>1. JoinedFits(evidence.requests[i + 1], evidence.decisions[i + 1], evidence.receipts[i + 1],
                     evidence.durable[i + 1])
      BY <1>2, <2>4 DEF BaselineTranscriptFits
    <3>2. PICK u : u = evidence.requests[i + 1].startedAt
      OBVIOUS
    <3>3. u \in Nat
      BY <3>1, <3>2 DEF JoinedFits
    <3>4. u >= n
      <4>1. i + 1 # 1 /\ (i + 1) - 1 = i
        OBVIOUS
      <4>2. RequestsInOrder(evidence)
        BY DEF BaselineTranscriptFits
      <4>3. QED
        BY <1>2, <2>2, <2>4, <3>2, <4>1, <4>2 DEF RequestsInOrder
    <3>5. s <= u
      BY <2>3, <3>3, <3>4
    <3>6. QED
      BY <2>2, <3>2, <3>5
  <2>5. QED
    BY <2>2, <2>3, <2>4
<1> HIDE DEF t
<1> DEFINE G == {n \in 0 .. m : \A i \in 1 .. n : t(i) <= t(n)}
<1>4. 0 \in G
  OBVIOUS
<1>5. ASSUME NEW n \in 0 .. m - 1, n \in G PROVE n + 1 \in G
  <2>1. n + 1 \in 1 .. m /\ n + 1 \in 0 .. m
    OBVIOUS
  <2>2. ASSUME NEW i \in 1 .. n + 1 PROVE t(i) <= t(n + 1)
    <3>1. CASE i = n + 1
      <4>1. t(n + 1) \in Nat
        BY <1>3, <2>1
      <4>2. QED
        BY <3>1, <4>1
    <3>2. CASE i # n + 1
      <4>1. i \in 1 .. n /\ n \in 1 .. m /\ i \in 1 .. m
        BY <3>2
      <4>2. t(i) <= t(n)
        BY <1>5, <4>1
      <4>3. t(n) <= t(n + 1) /\ t(i) \in Nat /\ t(n) \in Nat /\ t(n + 1) \in Nat
        BY <1>3, <2>1, <4>1
      <4>4. QED
        BY <4>2, <4>3
    <3>3. QED
      BY <3>1, <3>2
  <2>3. QED
    BY <2>1, <2>2
<1>6. G \subseteq 0 .. m
  OBVIOUS
<1> HIDE DEF G
<1>7. \A n \in 0 .. m : n \in G
  BY <1>4, <1>5, <1>6, UpTo
<1>8. \A i, j \in 1 .. m : i <= j => t(i) <= t(j)
  <2>1. \A j \in 1 .. m : j \in 0 .. m
    OBVIOUS
  <2>2. \A i, j \in 1 .. m : i <= j => i \in 1 .. j
    OBVIOUS
  <2>3. QED
    BY <1>7, <2>1, <2>2 DEF G
<1>9. QED
  BY <1>1, <1>8 DEF t

\* A run of one of a request's calls was printed in its step.
LEMMA RunsAreInStep ==
    ASSUME BaselineTranscriptFits(evidence), NEW i \in 1 .. Len(evidence.requests), NEW run \in RunsOfCalls(i)
    PROVE  \E q \in DOMAIN Printed(evidence, i, "tool_use") : Printed(evidence, i, "tool_use")[q] = run
<1>1. PICK m \in Nat : m = Len(evidence.requests)
  BY RecordsOfRuns
<1>2. PICK S : S = ToSet(evidence.events)
  OBVIOUS
<1>3. PICK events \in Seq(S) : events = evidence.events
  BY <1>2, RecordsOfRuns DEF IsArray
<1> DEFINE P == {n \in DOMAIN events : events[n].type = "tool_use"}
           At(k) == {n \in DOMAIN events : StepOf(events, n) = k /\ events[n].type = "tool_use"}
<1>4. PICK n \in DOMAIN events : n \in P /\ events[n] = run
  <2>1. run \in ToSet(ToolEvents(evidence.events))
    BY DEF RunsOfCalls
  <2>2. ToolEvents(evidence.events) = Chosen(events, P)
    BY <1>3 DEF ToolEvents, OfType
  <2> HIDE DEF P
  <2>3. PICK p \in DOMAIN Chosen(events, P) : Chosen(events, P)[p] = run
    BY <2>1, <2>2 DEF ToSet
  <2>4. QED
    BY <2>3, ChosenHolds
<1>5. PICK k : k = StepOf(events, n)
  OBVIOUS
<1>6. k \in 1 .. m
  <2>1. InSteps(evidence)
    BY DEF BaselineTranscriptFits
  <2>2. Climbs([c \in 1 .. Len(events) |-> StepOf(events, c)], Len(events), m)
    BY <1>1, <1>3, <2>1, RecordsOfRuns, StepsClimb
  <2>3. n \in 1 .. Len(events)
    OBVIOUS
  <2>4. QED
    BY <1>5, <2>2, <2>3 DEF Climbs
<1>7. PICK q \in DOMAIN Printed(evidence, k, "tool_use") : Printed(evidence, k, "tool_use")[q] = run
  <2>1. Printed(evidence, k, "tool_use") = Chosen(events, At(k))
    BY <1>3 DEF Printed
  <2>2. n \in At(k)
    BY <1>4, <1>5
  <2> HIDE DEF At
  <2>3. QED
    BY <1>4, <2>1, <2>2, ChosenHolds
<1>8. Releases[k] = CallIds(evidence.decisions[k].output) /\ Releases[i] = CallIds(evidence.decisions[i].output)
  BY <1>1, <1>6 DEF Releases
<1>9. PICK T : Releases \in Lists(m, T)
  BY <1>1, ReleasesAreRows
<1>10. Releases[k] \in Seq(T) /\ Releases[i] \in Seq(T)
  BY <1>1, <1>6, <1>9 DEF Lists
<1>11. q \in 1 .. Len(Releases[k]) /\ Releases[k][q] = run.of
  <2>1. DOMAIN evidence.requests = 1 .. m
    BY <1>1, RecordsOfRuns
  <2>2. Of(Printed(evidence, k, "tool_use")) = Releases[k]
    BY <1>6, <1>8, <2>1 DEF BaselineTranscriptFits, StepFits
  <2>3. DOMAIN Releases[k] = DOMAIN Printed(evidence, k, "tool_use") /\ Releases[k][q] = run.of
    BY <1>7, <2>2 DEF Of
  <2>4. QED
    BY <1>10, <2>3
<1>12. PICK l \in 1 .. Len(Releases[i]) : Releases[i][l] = run.of
  <2>1. run.of \in ToSet(Releases[i])
    BY <1>8 DEF RunsOfCalls
  <2>2. PICK l \in DOMAIN Releases[i] : Releases[i][l] = run.of
    BY <2>1 DEF ToSet
  <2>3. DOMAIN Releases[i] = 1 .. Len(Releases[i])
    BY <1>10
  <2>4. QED
    BY <2>2, <2>3
<1>13. IsInjective(FlattenSeq(Releases))
  BY CallsAreCarriedOut, ReleasesAreRows
<1>14. k = i
  <2>1. i \in 1 .. m
    BY <1>1
  <2> HIDE DEF P, At
  <2>2. QED
    BY <1>6, <1>9, <1>11, <1>12, <1>13, <2>1, FlatApart
<1>15. QED
  BY <1>7, <1>14

\* Work is done in the order in which it was released.
LEMMA TheWorkIsInOrder ==
    ASSUME BaselineTranscriptFits(evidence)
    PROVE  WorkIsInOrder
<1>1. PICK m \in Nat : m = Len(evidence.requests)
  BY RecordsOfRuns
<1>2. DOMAIN evidence.requests = 1 .. m
  BY <1>1, RecordsOfRuns
<1>3. ASSUME NEW i \in 1 .. m, NEW run \in RunsOfCalls(i)
      PROVE  /\ run.start \in Nat /\ run.end \in Nat /\ run.start >= evidence.durable[i].at
             /\ run.end <= evidence.requests[i + 1].startedAt
  <2>1. PICK q \in DOMAIN Printed(evidence, i, "tool_use") : Printed(evidence, i, "tool_use")[q] = run
    BY <1>1, <1>3, RunsAreInStep
  <2>2. StepFits(evidence, i)
    BY <1>2 DEF BaselineTranscriptFits
  <2>3. QED
    BY <2>1, <2>2 DEF StepFits, ToolAfterDecision
<1>4. ASSUME NEW i \in 1 .. m
      PROVE  /\ evidence.requests[i].startedAt \in Nat /\ evidence.durable[i].at \in Nat
             /\ evidence.durable[i].at >= evidence.requests[i].startedAt
  <2>1. JoinedFits(evidence.requests[i], evidence.decisions[i], evidence.receipts[i], evidence.durable[i])
    BY <1>2 DEF BaselineTranscriptFits
  <2>2. RequestsInOrder(evidence)
    BY DEF BaselineTranscriptFits
  <2>3. QED
    BY <1>2, <2>1, <2>2 DEF JoinedFits, RequestsInOrder
<1>5. ASSUME NEW i \in 1 .. m, NEW j \in 1 .. m, i < j, NEW run \in RunsOfCalls(i)
      PROVE  /\ run.start >= evidence.durable[i].at
             /\ run.end <= evidence.requests[j].startedAt /\ run.end <= evidence.durable[j].at
             /\ \A other \in RunsOfCalls(j) : run.end <= other.start
  <2>1. i + 1 \in 1 .. m /\ i + 1 <= j
    BY <1>5
  <2>2. evidence.requests[i + 1].startedAt <= evidence.requests[j].startedAt
    BY <1>1, <2>1, RequestsClimb
  <2>3. PICK a, b, c : /\ a = evidence.requests[i + 1].startedAt /\ b = evidence.requests[j].startedAt
                       /\ c = evidence.durable[j].at
    OBVIOUS
  <2>4. a \in Nat /\ b \in Nat /\ c \in Nat /\ c >= b /\ a <= b
    BY <1>4, <2>1, <2>2, <2>3
  <2>5. run.end \in Nat /\ run.end <= a /\ run.start >= evidence.durable[i].at
    BY <1>3, <2>3
  <2>6. run.end <= b /\ run.end <= c
    BY <2>4, <2>5
  <2>7. ASSUME NEW other \in RunsOfCalls(j) PROVE run.end <= other.start
    <3>1. other.start \in Nat /\ other.start >= c
      BY <1>3, <2>3
    <3>2. QED
      BY <2>4, <2>5, <2>6, <3>1
  <2>8. QED
    BY <2>3, <2>5, <2>6, <2>7
<1>6. QED
  BY <1>2, <1>5 DEF WorkIsInOrder

-----------------------------------------------------------------------------
(* What was spent *)

\* What went out for each request.
Sent == [i \in 1 .. Len(evidence.requests) |->
    [n \in 1 .. Len(evidence.receipts[i].operations) |->
        [id |-> evidence.receipts[i].id, ordinal |-> evidence.receipts[i].operations[n].ordinal,
         input |-> evidence.requests[i].input, operation |-> evidence.receipts[i].operations[n],
         final |-> n = Len(evidence.receipts[i].operations)]]]

\* It is what went out, one request's after the other's.
LEMMA SentAreRows ==
    ASSUME BaselineTranscriptFits(evidence)
    PROVE  /\ \E T : Sent \in Lists(Len(evidence.requests), T)
           /\ PhysicalOperations(evidence) = FlattenSeq(Sent)
           /\ \A i \in 1 .. Len(evidence.requests) :
                /\ Len(evidence.receipts[i].operations) \in Nat \ {0}
                /\ Len(Sent[i]) = Len(evidence.receipts[i].operations)
<1>1. PICK m \in Nat : m = Len(evidence.requests)
  BY RecordsOfRuns
<1>2. DOMAIN evidence.requests = 1 .. m /\ DOMAIN evidence.receipts = 1 .. m
  BY <1>1, RecordsOfRuns
<1>3. ASSUME NEW i \in 1 .. m
      PROVE  /\ Len(evidence.receipts[i].operations) \in Nat \ {0}
             /\ DOMAIN evidence.receipts[i].operations = 1 .. Len(evidence.receipts[i].operations)
  <2>1. JoinedFits(evidence.requests[i], evidence.decisions[i], evidence.receipts[i], evidence.durable[i])
    BY <1>2 DEF BaselineTranscriptFits
  <2>2. PICK o : o = evidence.receipts[i].operations
    OBVIOUS
  <2>3. IsArray(o) /\ o # <<>>
    BY <2>1, <2>2 DEF JoinedFits, OriginalSuccess
  <2>4. PICK S : o \in Seq(S)
    BY <2>3 DEF IsArray
  <2>5. Len(o) \in Nat /\ DOMAIN o = 1 .. Len(o) /\ Len(o) # 0
    BY <2>3, <2>4, EmptySeq
  <2>6. QED
    BY <2>2, <2>5
<1> DEFINE T == UNION {ToSet(Sent[i]) : i \in 1 .. m}
<1>4. ASSUME NEW i \in 1 .. m
      PROVE  Sent[i] \in Seq(T) /\ Len(Sent[i]) = Len(evidence.receipts[i].operations)
  <2>1. PICK k \in Nat : k = Len(evidence.receipts[i].operations)
    BY <1>3
  <2>2. Sent[i] = [n \in 1 .. k |-> Sent[i][n]] /\ DOMAIN Sent[i] = 1 .. k
    BY <1>1, <2>1 DEF Sent
  <2>3. \A n \in 1 .. k : Sent[i][n] \in ToSet(Sent[i])
    BY <2>2 DEF ToSet
  <2>4. \A n \in 1 .. k : Sent[i][n] \in T
    BY <2>3
  <2> HIDE DEF T
  <2>5. PICK s : s = Sent[i]
    OBVIOUS
  <2>6. s = [n \in 1 .. k |-> s[n]] /\ \A n \in 1 .. k : s[n] \in T
    BY <2>2, <2>4, <2>5
  <2>7. s \in Seq(T) /\ Len(s) = k
    BY <2>6
  <2>8. QED
    BY <2>1, <2>5, <2>7
<1> HIDE DEF T
<1>5. Sent \in Lists(m, T)
  <2>1. Sent = [i \in 1 .. m |-> Sent[i]]
    BY <1>1 DEF Sent
  <2>2. QED
    BY <1>4, <2>1 DEF Lists
<1>6. PhysicalOperations(evidence) = FlattenSeq(Sent)
  BY <1>1, <1>2, <1>3 DEF PhysicalOperations, Sent
<1>7. QED
  BY <1>1, <1>3, <1>4, <1>5, <1>6

\* Every spent unit is a physical request for one of the requests, and no two are the same.
LEMMA UnitsAreRequests ==
    ASSUME BaselineTranscriptFits(evidence)
    PROVE  /\ \A n \in DOMAIN evidence.physical : \E i \in DOMAIN evidence.requests :
                evidence.physical[n].body = evidence.requests[i].input
           /\ IsInjective(evidence.physical) /\ Len(evidence.physical) = evidence.spent
<1>1. PICK m \in Nat : m = Len(evidence.requests)
  BY RecordsOfRuns
<1>2. DOMAIN evidence.requests = 1 .. m
  BY <1>1, RecordsOfRuns
<1>3. PICK T : Sent \in Lists(m, T)
  BY <1>1, SentAreRows
<1>4. PICK o \in Seq(T) : o = FlattenSeq(Sent)
  <2>1. Sent \in [1 .. m -> Seq(T)]
    BY <1>3 DEF Lists
  <2>2. QED
    BY <2>1, FlatInSeq
<1>5. o = PhysicalOperations(evidence)
  BY <1>4, SentAreRows
<1>6. PICK a : Placed(a, Sent, m, o)
  BY <1>3, <1>4, FlatPlaces
<1>7. /\ Len(o) = evidence.spent /\ DOMAIN o = 1 .. Len(o)
      /\ \A n \in DOMAIN o : evidence.physical[n] = [id |-> o[n].id, ordinal |-> o[n].ordinal, body |-> o[n].input]
  <2>1. EachDebited(evidence)
    BY DEF BaselineTranscriptFits
  <2>2. Len(o) = evidence.spent
    BY <1>5, <2>1 DEF EachDebited
  <2>3. DOMAIN o = 1 .. Len(o)
    OBVIOUS
  <2>4. ASSUME NEW n \in 1 .. Len(o)
        PROVE  evidence.physical[n] = [id |-> o[n].id, ordinal |-> o[n].ordinal, body |-> o[n].input]
    <3>1. n \in DOMAIN PhysicalOperations(evidence) /\ o[n] = PhysicalOperations(evidence)[n]
      BY <1>5, <2>3
    <3>2. QED
      BY <2>1, <3>1 DEF EachDebited
  <2>5. QED
    BY <2>2, <2>3, <2>4
<1>8. DOMAIN evidence.physical = 1 .. Len(o) /\ Len(evidence.physical) = evidence.spent
  <2>1. IsArray(evidence.physical) /\ Len(evidence.physical) = evidence.spent
    BY DEF BaselineTranscriptFits, CountsAgree
  <2>2. QED
    BY <1>7, <2>1 DEF IsArray
<1>9. ASSUME NEW p \in 1 .. Len(o)
      PROVE  \E i \in 1 .. m : \E k \in 1 .. Len(Sent[i]) :
                /\ p = a[i - 1] + k /\ o[p].id = evidence.requests[i].id /\ o[p].ordinal = k
                /\ o[p].input = evidence.requests[i].input
  <2>1. PICK i \in 1 .. m : \E k \in 1 .. Len(Sent[i]) : p = a[i - 1] + k
    BY <1>6 DEF Placed
  <2>2. PICK k \in 1 .. Len(Sent[i]) : p = a[i - 1] + k
    BY <2>1
  <2>3. o[p] = Sent[i][k]
    BY <1>6, <2>2 DEF Placed
  <2>4. k \in 1 .. Len(evidence.receipts[i].operations)
    BY <1>1, SentAreRows
  <2>5. /\ o[p].id = evidence.receipts[i].id /\ o[p].ordinal = evidence.receipts[i].operations[k].ordinal
        /\ o[p].input = evidence.requests[i].input
    <3>1. PICK b, c, d, e, f : /\ b = evidence.receipts[i].id /\ c = evidence.receipts[i].operations[k].ordinal
                               /\ d = evidence.requests[i].input /\ e = evidence.receipts[i].operations[k]
                               /\ f = (k = Len(evidence.receipts[i].operations))
      OBVIOUS
    <3>2. Sent[i][k] = [id |-> b, ordinal |-> c, input |-> d, operation |-> e, final |-> f]
      BY <1>1, <2>4, <3>1 DEF Sent
    <3>3. QED
      BY <2>3, <3>1, <3>2
  <2>6. evidence.receipts[i].id = evidence.requests[i].id /\ evidence.receipts[i].operations[k].ordinal = k
    <3>1. JoinedFits(evidence.requests[i], evidence.decisions[i], evidence.receipts[i], evidence.durable[i])
      BY <1>2 DEF BaselineTranscriptFits
    <3>2. PICK list : list = evidence.receipts[i].operations
      OBVIOUS
    <3>3. IsArray(list) /\ evidence.receipts[i].id = evidence.requests[i].id
          /\ \A n \in DOMAIN list : list[n].ordinal = n
      BY <3>1, <3>2 DEF JoinedFits, OriginalSuccess
    <3>4. DOMAIN list = 1 .. Len(list)
      BY <3>3 DEF IsArray
    <3>5. QED
      BY <2>4, <3>2, <3>3, <3>4
  <2>7. QED
    BY <2>2, <2>5, <2>6
<1>10. \A n \in DOMAIN evidence.physical : \E i \in DOMAIN evidence.requests :
                evidence.physical[n].body = evidence.requests[i].input
  <2>1. ASSUME NEW n \in 1 .. Len(o)
        PROVE  \E i \in 1 .. m : evidence.physical[n].body = evidence.requests[i].input
    <3>1. PICK i \in 1 .. m : o[n].input = evidence.requests[i].input
      BY <1>9
    <3>2. PICK b, c, d : b = o[n].id /\ c = o[n].ordinal /\ d = o[n].input
      OBVIOUS
    <3>3. evidence.physical[n] = [id |-> b, ordinal |-> c, body |-> d]
      BY <1>7, <3>2
    <3>4. QED
      BY <3>1, <3>2, <3>3
  <2>2. QED
    BY <1>2, <1>8, <2>1
<1>11. ASSUME NEW p \in 1 .. Len(o), NEW q \in 1 .. Len(o), evidence.physical[p] = evidence.physical[q] PROVE p = q
  <2>1. o[p].id = o[q].id /\ o[p].ordinal = o[q].ordinal
    <3>1. PICK b, c, d, e, f, g : /\ b = o[p].id /\ c = o[p].ordinal /\ d = o[p].input
                                  /\ e = o[q].id /\ f = o[q].ordinal /\ g = o[q].input
      OBVIOUS
    <3>2. [id |-> b, ordinal |-> c, body |-> d] = [id |-> e, ordinal |-> f, body |-> g]
      BY <1>7, <1>11, <3>1
    <3>3. b = e /\ c = f
      BY <3>2
    <3>4. QED
      BY <3>1, <3>3
  <2>2. PICK i \in 1 .. m : \E k \in 1 .. Len(Sent[i]) :
                p = a[i - 1] + k /\ o[p].id = evidence.requests[i].id /\ o[p].ordinal = k
    BY <1>9
  <2>3. PICK j \in 1 .. m : \E k \in 1 .. Len(Sent[j]) :
                q = a[j - 1] + k /\ o[q].id = evidence.requests[j].id /\ o[q].ordinal = k
    BY <1>9
  <2>4. i = j
    <3>1. evidence.requests[i].id = evidence.requests[j].id
      BY <2>1, <2>2, <2>3
    <3>2. IsInjective([n \in DOMAIN evidence.requests |-> evidence.requests[n].id])
      BY DEF BaselineTranscriptFits, RequestsInOrder
    <3>3. QED
      BY <1>2, <3>1, <3>2 DEF IsInjective
  <2>5. QED
    BY <2>1, <2>2, <2>3, <2>4
<1>12. IsInjective(evidence.physical)
  BY <1>8, <1>11 DEF IsInjective
<1>13. QED
  BY <1>8, <1>10, <1>12

\* Of the debited outputs those that are not empty are the decisions', in their order.
LEMMA OutputsAreDecisions ==
    ASSUME BaselineTranscriptFits(evidence)
    PROVE  LET gave == Chosen(evidence.debits, {n \in DOMAIN evidence.debits : evidence.debits[n].output # <<>>})
           IN [n \in DOMAIN gave |-> gave[n].output]
                = [i \in DOMAIN evidence.decisions |-> evidence.decisions[i].output]
<1>1. PICK m \in Nat : m = Len(evidence.requests)
  BY RecordsOfRuns
<1>2. DOMAIN evidence.requests = 1 .. m /\ DOMAIN evidence.decisions = 1 .. m
  BY <1>1, RecordsOfRuns
<1>3. PICK T : Sent \in Lists(m, T)
  BY <1>1, SentAreRows
<1>4. PICK o \in Seq(T) : o = FlattenSeq(Sent)
  <2>1. Sent \in [1 .. m -> Seq(T)]
    BY <1>3 DEF Lists
  <2>2. QED
    BY <2>1, FlatInSeq
<1>5. o = PhysicalOperations(evidence)
  BY <1>4, SentAreRows
<1>6. /\ Len(o) = evidence.spent /\ DOMAIN o = 1 .. Len(o)
      /\ \A n \in 1 .. Len(o) :
            /\ evidence.debits[n].output = o[n].operation.output
            /\ o[n].final = TRUE => o[n].operation.terminal = "provider_completed"
            /\ o[n].final = FALSE => o[n].operation.output = <<>>
  <2>1. EachDebited(evidence)
    BY DEF BaselineTranscriptFits
  <2>2. Len(o) = evidence.spent
    BY <1>5, <2>1 DEF EachDebited
  <2>3. DOMAIN o = 1 .. Len(o)
    OBVIOUS
  <2>4. \A n \in 1 .. Len(o) : n \in DOMAIN PhysicalOperations(evidence) /\ o[n] = PhysicalOperations(evidence)[n]
    BY <1>5, <2>3
  <2>5. ASSUME NEW n \in 1 .. Len(o) PROVE evidence.debits[n].output = o[n].operation.output
    <3>1. PICK b, c, d, g : b = o[n].id /\ c = o[n].ordinal /\ d = o[n].input /\ g = o[n].operation.output
      OBVIOUS
    <3>2. evidence.debits[n] = [id |-> b, ordinal |-> c, body |-> d, output |-> g]
      BY <2>1, <2>4, <3>1 DEF EachDebited
    <3>3. QED
      BY <3>1, <3>2
  <2>6. \A n \in 1 .. Len(o) :
            /\ o[n].final = TRUE => o[n].operation.terminal = "provider_completed"
            /\ o[n].final = FALSE => o[n].operation.output = <<>>
    BY <2>1, <2>4 DEF EachDebited
  <2>7. QED
    BY <2>2, <2>3, <2>5, <2>6
<1>7. PICK S : evidence.debits \in Seq(S) /\ Len(evidence.debits) = Len(o)
  <2>1. IsArray(evidence.debits) /\ Len(evidence.debits) = evidence.spent
    BY DEF BaselineTranscriptFits, CountsAgree
  <2>2. QED
    BY <1>6, <2>1 DEF IsArray
<1> DEFINE P == {n \in DOMAIN evidence.debits : evidence.debits[n].output # <<>>}
           gave == Chosen(evidence.debits, P)
           F == [v \in S |-> v.output]
           U == {v.operation.output : v \in T}
           w == [v \in T |-> IF v.operation.output # <<>> THEN <<v.operation.output>> ELSE <<>>]
           out == [i \in 1 .. m |-> evidence.decisions[i].output]
<1>8. Each(F, gave) = Read(w, o)
  <2> DEFINE x == EachOf(F, evidence.debits, P)
  <2>1. Each(F, gave) = FlattenSeq(x)
    <3> HIDE DEF F, P
    <3>1. QED
      BY <1>7, EachChosen
  <2>2. x = [n \in DOMAIN o |-> w[o[n]]]
    <3>1. DOMAIN evidence.debits = 1 .. Len(o)
      BY <1>7
    <3>2. ASSUME NEW n \in 1 .. Len(o) PROVE x[n] = w[o[n]]
      <4>1. o[n] \in T /\ evidence.debits[n] \in S /\ F[evidence.debits[n]] = evidence.debits[n].output
        BY <1>7, <3>1
      <4>2. evidence.debits[n].output = o[n].operation.output
        BY <1>6
      <4>3. x[n] = IF o[n].operation.output # <<>> THEN <<o[n].operation.output>> ELSE <<>>
        BY <3>1, <4>1, <4>2 DEF EachOf
      <4>4. QED
        BY <4>1, <4>3
    <3> HIDE DEF w, F, P
    <3>3. QED
      BY <1>6, <3>1, <3>2 DEF EachOf
  <2> HIDE DEF x, w
  <2>3. QED
    BY <2>1, <2>2 DEF Read
<1>9. w \in Tables(T, U)
  <2>1. \A v \in T : v.operation.output \in U
    OBVIOUS
  <2> HIDE DEF U
  <2>2. \A v \in T : <<v.operation.output>> \in Seq(U) /\ <<>> \in Seq(U)
    BY <2>1
  <2>3. \A v \in T : (IF v.operation.output # <<>> THEN <<v.operation.output>> ELSE <<>>) \in Seq(U)
    BY <2>2
  <2>4. QED
    BY <2>3 DEF Tables
<1>10. Read(w, o) = FlattenSeq([i \in 1 .. m |-> Read(w, Sent[i])])
  <2> HIDE DEF w, U
  <2>1. QED
    BY <1>3, <1>4, <1>9, ReadFlat
<1>11. ASSUME NEW i \in 1 .. m PROVE Read(w, Sent[i]) = <<out[i]>>
  <2>1. PICK k \in Nat : k = Len(Sent[i]) /\ k = Len(evidence.receipts[i].operations) /\ k # 0
    BY <1>1, SentAreRows
  <2>2. PICK s \in Seq(T) : s = Sent[i] /\ Len(s) = k /\ DOMAIN s = 1 .. k
    <3>1. Sent[i] \in Seq(T)
      BY <1>3 DEF Lists
    <3>2. PICK s \in Seq(T) : s = Sent[i]
      BY <3>1
    <3>3. Len(s) = k
      BY <2>1, <3>2
    <3>4. DOMAIN s = 1 .. Len(s)
      OBVIOUS
    <3>5. QED
      BY <3>2, <3>3, <3>4
  <2>3. JoinedFits(evidence.requests[i], evidence.decisions[i], evidence.receipts[i], evidence.durable[i])
    BY <1>2 DEF BaselineTranscriptFits
  <2>4. PICK list : list = evidence.receipts[i].operations
    OBVIOUS
  <2>5. /\ IsArray(list) /\ Len(list) = k
        /\ \A n \in DOMAIN list : list[n].terminal = "provider_completed" => list[n].output # <<>>
        /\ Last(list).output = out[i]
    BY <2>1, <2>3, <2>4 DEF JoinedFits, OriginalSuccess
  <2>6. ASSUME NEW n \in 1 .. k PROVE s[n].operation = list[n] /\ s[n].final = (n = k)
    BY <1>1, <2>1, <2>2, <2>4 DEF Sent
  <2>7. ASSUME NEW n \in 1 .. k PROVE \E p \in 1 .. Len(o) : o[p] = s[n]
    <3>1. Holds(FlattenSeq(Sent), Sent, m)
      BY <1>3, FlatHolds
    <3>2. Holds(o, Sent, m)
      BY <1>4, <3>1
    <3>3. QED
      BY <2>1, <2>2, <3>2 DEF Holds
  <2>8. ASSUME NEW n \in 1 .. k, n # k PROVE w[s[n]] = <<>>
    <3>1. PICK p \in 1 .. Len(o) : o[p] = s[n]
      BY <2>7
    <3>2. s[n].operation.output = <<>>
      BY <1>6, <2>6, <2>8, <3>1
    <3>3. s[n] \in T
      BY <2>2
    <3>4. QED
      BY <3>2, <3>3
  <2>9. w[s[k]] = <<out[i]>>
    <3>1. k \in 1 .. k
      BY <2>1
    <3>2. PICK p \in 1 .. Len(o) : o[p] = s[k]
      BY <2>7, <3>1
    <3>3. s[k].operation.terminal = "provider_completed" /\ s[k].operation = list[k]
      BY <1>6, <2>6, <3>1, <3>2
    <3>4. DOMAIN list = 1 .. k /\ Last(list) = list[k]
      BY <2>5 DEF IsArray, Last
    <3>5. s[k].operation.output # <<>> /\ s[k].operation.output = out[i]
      BY <2>5, <3>1, <3>3, <3>4
    <3>6. s[k] \in T
      BY <2>2, <3>1
    <3> HIDE DEF out
    <3>7. QED
      BY <3>5, <3>6
  <2> DEFINE x == [n \in DOMAIN s |-> w[s[n]]]
  <2>10. x \in [1 .. k -> Seq(U)] /\ k \in 1 .. k
    <3> HIDE DEF w, U
    <3>1. \A n \in 1 .. k : s[n] \in T
      BY <2>2
    <3>2. \A v \in T : w[v] \in Seq(U)
      BY <1>9 DEF Tables
    <3>3. QED
      BY <2>1, <2>2, <3>1, <3>2
  <2> HIDE DEF w
  <2>11. Alone(x, k, k)
    BY <2>2, <2>8 DEF Alone
  <2>12. x[k] = <<out[i]>>
    BY <2>2, <2>9, <2>10
  <2> HIDE DEF x, U, out
  <2>13. FlattenSeq(x) = x[k]
    BY <2>10, <2>11, FlatOfOne
  <2>14. QED
    BY <2>2, <2>12, <2>13 DEF Read, x
<1>12. [i \in 1 .. m |-> Read(w, Sent[i])] = [i \in 1 .. m |-> <<out[i]>>]
  <2> HIDE DEF w, out
  <2>1. QED
    BY <1>11
<1>13. FlattenSeq([i \in 1 .. m |-> <<out[i]>>]) = out
  <2>1. PICK A : A = {out[i] : i \in 1 .. m}
    OBVIOUS
  <2>2. out \in [1 .. m -> A]
    BY <2>1
  <2> HIDE DEF out
  <2>3. QED
    BY <2>2, FlatOfSingles
<1>14. Each(F, gave) = [n \in DOMAIN gave |-> gave[n].output]
  <2>1. gave \in Seq(S)
    <3> HIDE DEF P
    <3>1. QED
      BY <1>7, OfTheChosen
  <2> HIDE DEF gave
  <2>2. QED
    BY <2>1 DEF Each
<1> HIDE DEF w, F
<1>15. [n \in DOMAIN gave |-> gave[n].output] = out
  BY <1>8, <1>10, <1>12, <1>13, <1>14
<1>16. QED
  BY <1>2, <1>15

-----------------------------------------------------------------------------
(* A candidate, and the theorem *)

\* The first record of a request is one of two, and of that request.
LEMMA FirstOfTwo ==
    ASSUME NEW records, NEW asked, IsArray(records), Len(records) = 2, HasRecord(records, asked)
    PROVE  \E p \in 1 .. 2 : Joined(records, asked) = records[p] /\ records[p].id = asked.id
<1> DEFINE P == {n \in DOMAIN records : records[n].id = asked.id}
<1>1. DOMAIN records = 1 .. 2
  BY DEF IsArray
<1>2. P # {} /\ P \subseteq Nat
  BY <1>1 DEF HasRecord
<1>3. PICK k \in P : \A n \in P : k <= n
  <2> HIDE DEF P
  <2>1. P \in SUBSET Nat
    BY <1>2
  <2>2. QED
    BY <1>2, <2>1, Summing!Least
<1>4. Min(P) = k
  <2>1. \A n \in P : (\A l \in P : n <= l) => n = k
    <3>1. ASSUME NEW n \in P, \A l \in P : n <= l PROVE n = k
      <4>1. n <= k /\ k <= n /\ n \in Nat /\ k \in Nat
        BY <1>2, <1>3, <3>1
      <4>2. QED
        BY <4>1
    <3>2. QED
      BY <3>1
  <2> HIDE DEF P
  <2>2. QED
    BY <1>3, <2>1 DEF Min
<1>5. Joined(records, asked) = records[k]
  BY <1>4 DEF Joined
<1>6. QED
  BY <1>1, <1>5

\* The call of the first request is the only one that was released, and its result is carried.
LEMMA TheCandidateRanOnce ==
    ASSUME CandidateFits(evidence)
    PROVE  WorkIsDoneOnce /\ ReleasedFirst
<1> DEFINE r == evidence.requests
           d(i) == Joined(evidence.decisions, r[i])
<1>1. /\ IsArray(r) /\ Len(r) = 2 /\ IsArray(evidence.decisions) /\ Len(evidence.decisions) = 2
      /\ r[1].id # r[2].id
      /\ HasRecord(evidence.decisions, r[1]) /\ HasRecord(evidence.decisions, r[2])
  BY DEF CandidateFits
<1>2. /\ ValidFirstRequest(r[1]) /\ ValidNativeRequest(r[2], r[1], d(1).output)
      /\ Len(CallIds(d(1).output)) = 1 /\ Of(ToolEvents(evidence.events)) = CallIds(d(1).output)
      /\ CallIds(d(2).output) = <<>>
      /\ ToolEvents(evidence.events)[1].start >= Joined(evidence.durable, r[1]).at
  BY DEF CandidateFits
<1>3. PICK p \in 1 .. 2 : d(1) = evidence.decisions[p] /\ evidence.decisions[p].id = r[1].id
  BY <1>1, FirstOfTwo
<1>4. PICK q \in 1 .. 2 : d(2) = evidence.decisions[q] /\ evidence.decisions[q].id = r[2].id
  BY <1>1, FirstOfTwo
<1>5. p # q
  BY <1>1, <1>3, <1>4
<1>6. PICK calls : calls = CallIds(d(1).output)
  OBVIOUS
<1>7. PICK S : calls \in Seq(S)
  <2>1. PICK A : A = ToSet(d(1).output)
    OBVIOUS
  <2>2. d(1).output \in Seq(A)
    BY <1>2, <2>1 DEF ValidNativeRequest, ContinuationOutput, IsArray
  <2> HIDE DEF d
  <2>3. QED
    BY <1>6, <2>2, CallsOfOutput
<1>8. ReleasedCalls = calls
  <2> DEFINE x == [i \in DOMAIN evidence.decisions |-> CallIds(evidence.decisions[i].output)]
  <2>1. DOMAIN evidence.decisions = 1 .. 2
    BY <1>1 DEF IsArray
  <2>2. PICK two \in Nat : two = 2
    OBVIOUS
  <2>3. p \in 1 .. two /\ q \in 1 .. two /\ \A n \in 1 .. two : n = p \/ n = q
    BY <1>5, <2>2
  <2>4. x[p] = calls /\ x[q] = <<>>
    <3> HIDE DEF d
    <3>1. QED
      BY <1>2, <1>3, <1>4, <1>6, <2>1
  <2>5. x \in [1 .. two -> Seq(S)]
    <3>1. \A n \in 1 .. two : x[n] \in Seq(S)
      <4> HIDE DEF x
      <4>1. <<>> \in Seq(S)
        OBVIOUS
      <4>2. QED
        BY <1>7, <2>3, <2>4, <4>1
    <3>2. x = [n \in 1 .. two |-> x[n]]
      BY <2>1, <2>2
    <3> HIDE DEF x
    <3>3. QED
      BY <3>1, <3>2
  <2>6. ReleasedCalls = FlattenSeq(x)
    BY DEF ReleasedCalls
  <2> HIDE DEF x, d
  <2>7. Alone(x, p, two)
    BY <2>3, <2>4 DEF Alone
  <2>8. FlattenSeq(x) = x[p]
    BY <2>3, <2>5, <2>7, FlatOfOne
  <2>9. QED
    BY <2>4, <2>6, <2>8
<1>9. Of(Kind(Last(r).input, "result")) = calls
  <2>1. Last(r) = r[2]
    BY <1>1 DEF Last
  <2>2. PICK A : A = ToSet(r[1].input)
    OBVIOUS
  <2>3. PICK s \in Seq(A) : s = r[1].input
    BY <1>2, <2>2 DEF ValidFirstRequest, IsArray
  <2>4. \A n \in DOMAIN s : s[n].kind # "result"
    BY <1>2, <2>3 DEF ValidFirstRequest
  <2>5. Of(Kind(s, "result")) = <<>>
    BY <2>4, KindNone
  <2>6. PICK next, first, o : next = r[2] /\ first = r[1] /\ o = d(1).output
    OBVIOUS
  <2>7. ValidNativeRequest(next, first, o) /\ IsArray(first.input)
    BY <1>2, <2>6 DEF ValidFirstRequest
  <2>8. Of(Kind(next.input, "result")) = Of(Kind(first.input, "result")) \o CallIds(o)
    BY <2>7, ResultsOfRequest
  <2>9. QED
    BY <1>6, <1>7, <2>1, <2>3, <2>5, <2>6, <2>8, ConcatEmptySeq
<1>10. IsInjective(Of(ToolEvents(evidence.events)))
  BY DEF CandidateFits, NativeEventsFit
<1>11. WorkIsDoneOnce
  BY <1>2, <1>6, <1>8, <1>9, <1>10 DEF WorkIsDoneOnce
<1>12. ReleasedFirst
  <2>1. PICK tools : tools = ToolEvents(evidence.events)
    OBVIOUS
  <2>2. Of(tools) = calls /\ Len(calls) = 1
    BY <1>2, <1>6, <2>1
  <2>3. DOMAIN calls = {1} /\ DOMAIN tools = DOMAIN calls
    <3>1. DOMAIN calls = 1 .. 1
      BY <1>7, <2>2
    <3>2. 1 .. 1 = {1}
      OBVIOUS
    <3>3. DOMAIN tools = DOMAIN calls
      BY <2>2 DEF Of
    <3>4. QED
      BY <3>1, <3>2, <3>3
  <2>4. tools[1].of = calls[1] /\ tools[1].of \in ToSet(calls)
    <3>1. calls[1] = tools[1].of
      BY <2>2, <2>3 DEF Of
    <3>2. calls[1] \in ToSet(calls)
      BY <2>3 DEF ToSet
    <3>3. QED
      BY <3>1, <3>2
  <2>5. \A run \in ToSet(tools) : run = tools[1]
    BY <2>3 DEF ToSet
  <2>6. QED
    BY <1>2, <1>6, <2>1, <2>4, <2>5 DEF ReleasedFirst
<1>13. QED
  BY <1>11, <1>12

\* What is believed was verified, of the evidence as it is.
Verified ==
    /\ evidence = NoRun => believed = {}
    /\ "transcript" \in believed => BaselineTranscriptFits(evidence)
    /\ "candidate" \in believed => CandidateFits(evidence)

\* Belief is in what is verified, whoever got what wrong before (Verify).
LEMMA BeliefIsVerified == TranscriptInit /\ [][TranscriptNext]_transcriptVars => []Verified
<1>1. TranscriptInit => Verified
  BY DEF TranscriptInit, Verified
<1>2. Verified /\ [TranscriptNext]_transcriptVars => Verified'
  <2> SUFFICES ASSUME Verified, [TranscriptNext]_transcriptVars PROVE Verified'
    OBVIOUS
  <2>1. CASE RunEnds
    <3>1. believed' = {}
      BY <2>1 DEF RunEnds, Verified
    <3>2. QED
      BY <3>1 DEF Verified
  <2>2. CASE Misrecord
    <3>1. believed' = {}
      BY <2>2 DEF Misrecord
    <3>2. QED
      BY <3>1 DEF Verified
  <2>3. CASE Verify
    <3>1. evidence' = evidence /\ evidence # NoRun
      BY <2>3 DEF Verify
    <3>2. "transcript" \in believed' => BaselineTranscriptFits(evidence)
      BY <2>3 DEF Verify
    <3>3. "candidate" \in believed' => CandidateFits(evidence)
      BY <2>3 DEF Verify
    <3>4. QED
      BY <3>1, <3>2, <3>3 DEF Verified
  <2>4. CASE UNCHANGED transcriptVars
    <3>1. evidence' = evidence /\ believed' = believed
      BY <2>4 DEF transcriptVars
    <3>2. QED
      BY <3>1 DEF Verified
  <2>5. QED
    BY <2>1, <2>2, <2>3, <2>4 DEF TranscriptNext
<1>3. QED
  BY <1>1, <1>2, PTL

\* THE believed run: what five parties recorded, when it is believed, is one run
\* (verifyBaselineTranscript, candidateArtifact).
THEOREM TheBelievedTranscriptsAreRuns ==
    TranscriptInit /\ [][TranscriptNext]_transcriptVars => []BelievedTranscriptsAreRuns
<1>1. Verified => BelievedTranscriptsAreRuns
  <2> SUFFICES ASSUME Verified PROVE BelievedTranscriptsAreRuns
    OBVIOUS
  <2>1. ASSUME "transcript" \in believed PROVE WorkIsInOrder /\ WorkIsDoneOnce /\ SpendingIsAccounted
    <3>1. BaselineTranscriptFits(evidence)
      BY <2>1 DEF Verified
    <3>2. WorkIsDoneOnce
      BY <3>1, CallsAreCarriedOut, ResultsAreCarried DEF WorkIsDoneOnce
    <3>3. SpendingIsAccounted
      BY <3>1, UnitsAreRequests, OutputsAreDecisions DEF SpendingIsAccounted
    <3>4. QED
      BY <3>1, <3>2, <3>3, TheWorkIsInOrder
  <2>2. ASSUME "candidate" \in believed PROVE WorkIsDoneOnce /\ ReleasedFirst
    BY <2>2, TheCandidateRanOnce DEF Verified
  <2>3. QED
    BY <2>1, <2>2 DEF BelievedTranscriptsAreRuns
<1>2. QED
  BY <1>1, BeliefIsVerified, PTL
=============================================================================
