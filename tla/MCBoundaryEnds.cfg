\* Whatever stalls upstream, requests and closes end.
SPECIFICATION FairSpec
CONSTANTS
    Requests = {q1, q2}
    Attempts = {at1}
    Receipts = TRUE
    Serial = TRUE
    Planner = TRUE
    RequestCount = 2
    Concurrency = 1
    MaxDecisions = 2
    MaxEpoch = 1
    Mortal = FALSE
    None = None
    at1 = at1
    AttemptOf <- SameAttempt
    ChainOf <- OneChain
PROPERTIES
    EverythingEnds
CHECK_DEADLOCK FALSE
