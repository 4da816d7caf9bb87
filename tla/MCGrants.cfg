\* One task, a chain of four grants.
SPECIFICATION GrantSpec
CONSTANTS
    Bindings = {b1}
    Digests = {d1, d2, d3}
    Scopes = {s1}
    Runners = {r1}
    RouteKeys = {k1, k2}
    MaxInteger = 4
    Tasks = {t1}
    GrantIds = {g1, g2, g3, g4}
    Actors = {a1, a2}
    Envelopes <- MCEnvelopes
    MaxTime = 3
    None = None
    k1 = k1
    k2 = k2
    d1 = d1
    d2 = d2
    d3 = d3
SYMMETRY GrantSymmetry
INVARIANTS
    ChainIsWhole
    RestrictionsStayApproved
    HistoryNeverRewritten
PROPERTIES
    AuthorityReturnsByApproval
