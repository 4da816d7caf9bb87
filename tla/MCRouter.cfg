\* The native profile: two requests, one scope, boots and mutations in between.  Or a
\* suite of one operation a phase, with any two kinds of interference in one run.
SPECIFICATION DeployedSpec
CONSTANTS
    Requests = {q1, q2}
    Policies = {p1, p2}
    Scopes = {s1, s2}
    Native = TRUE
    MaxAttempts = 2
    MaxGeneration = 4
    None = None
    SendLimit = 6
    MaxSends = 1
    MaxFaults = 2
    NoReport = NoReport
SYMMETRY RouterSymmetry
INVARIANTS
    OperationsAreAccounted
    SuiteTellsTheTruth
PROPERTIES
    PolicyIsHeld
CHECK_DEADLOCK FALSE
