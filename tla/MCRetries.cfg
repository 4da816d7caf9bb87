\* One task and three attempts of it: what is charged, recorded and given back.
SPECIFICATION DispatchSpec
CONSTANTS
    Bindings = {b1}
    Digests = {d1}
    Scopes = {s1}
    Runners = {r1}
    RouteKeys = {k1}
    MaxInteger = 5
    Tasks = {t1}
    GrantIds = {g1}
    Actors = {a1}
    Envelopes <- MCEnvelopes
    MaxTime = 2
    None = None
    Intents = {i1, i2, i3}
    Allowances <- TwoAllowances
    Decisions <- MCDecisions
    FactSet <- MCFactSet
    RunnerBoots = {rb1}
    AckIds = {x1}
    MaxBoot = 3
    MaxProfile = 1
    r1 = r1
    k1 = k1
    d1 = d1
    b1 = b1
    s1 = s1
    rb1 = rb1
SYMMETRY DispatchSymmetry
INVARIANTS
    RowsAgree
    CeilingsHold
    TaskStateFollowsAttempt
