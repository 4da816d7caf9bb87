\* The planner profile over a router with receipts, with crashes at every await.
SPECIFICATION Spec
CONSTANTS
    Requests = {q1, q2}
    Attempts = {at1}
    Receipts = TRUE
    Serial = TRUE
    Planner = TRUE
    RequestCount = 2
    Concurrency = 1
    MaxDecisions = 2
    MaxEpoch = 2
    Mortal = TRUE
    None = None
    at1 = at1
    AttemptOf <- SameAttempt
    ChainOf <- OneChain
SYMMETRY RequestSymmetry
INVARIANTS
    JournalIsTruthful
    NothingRunsAhead
