\* Policy replacement with writers that outlive their timeout, schema 1.
SPECIFICATION Spec
CONSTANTS
    Requests = {q1, q2}
    Attempts = {at1}
    Receipts = FALSE
    Serial = FALSE
    Planner = FALSE
    RequestCount = 2
    Concurrency = 1
    MaxDecisions = 2
    MaxEpoch = 2
    Mortal = TRUE
    None = None
    at1 = at1
    AttemptOf <- SameAttempt
    ChainOf <- OneChain
SYMMETRY RequestSymmetry
PROPERTIES
    SentUnderBoundPolicy
    LedgerSpec
