\* Two tasks that compete for the only slot.
SPECIFICATION DispatchSpec
CONSTANTS
    Bindings = {b1}
    Digests = {d1, d2}
    Scopes = {s1}
    Runners = {r1}
    RouteKeys = {k1}
    MaxInteger = 4
    Tasks = {t1, t2}
    GrantIds = {g1, g2}
    Actors = {a1}
    Envelopes <- OnlyGenerous
    MaxTime = 1
    None = None
    Intents = {i1, i2}
    Allowances <- OneAllowance
    Decisions <- MCDecisions
    FactSet <- MCFactSet
    RunnerBoots = {rb1}
    AckIds = {x1}
    MaxBoot = 2
    MaxProfile = 1
    r1 = r1
    k1 = k1
    d1 = d1
    b1 = b1
    s1 = s1
    rb1 = rb1
SYMMETRY DispatchSymmetry
INVARIANTS
    OneWorker
PROPERTIES
    StopIsSticky
    SlotSpec
