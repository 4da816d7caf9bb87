\* One task, two attempts; grant, facts, profile and runner change between or during them.
SPECIFICATION DispatchSpec
CONSTANTS
    Bindings = {b1}
    Digests = {d1}
    Scopes = {s1}
    Runners = {r1}
    RouteKeys = {k1}
    MaxInteger = 4
    Tasks = {t1}
    GrantIds = {g1, g2}
    Actors = {a1}
    Envelopes <- MCEnvelopes
    MaxTime = 2
    None = None
    Intents = {i1, i2}
    Allowances <- OneAllowance
    Decisions <- MCDecisions
    FactSet <- MCFactSet
    RunnerBoots = {rb1}
    AckIds = {x1}
    MaxBoot = 2
    MaxProfile = 2
    r1 = r1
    k1 = k1
    d1 = d1
    b1 = b1
    s1 = s1
    rb1 = rb1
SYMMETRY DispatchSymmetry
INVARIANTS
    EpochsFollowGrants
PROPERTIES
    NothingStaleHanded
