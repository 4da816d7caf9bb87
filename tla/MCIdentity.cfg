\* Two invitations, two owner requests in flight, keys for a rotation and a recovery.
SPECIFICATION Spec
CONSTANTS
    Pins = {p1, p2, p3, p4}
    Invites = {e1, e2}
    Owner = owner
    Requests = {h1, h2}
    MaxRevision = 4
    Life = 1
    MaxClock = 2
    None = None
SYMMETRY IdentitySymmetry
INVARIANTS
    KeysAreExclusive
    NothingSurvivesRecovery
PROPERTIES
    RevocationHolds
    ChangesAreTheOwners
