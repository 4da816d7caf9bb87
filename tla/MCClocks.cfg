\* A lease with a renewal and a reboot; a snapshot of a route of two connections.
SPECIFICATION Spec
CONSTANTS
    Nonces = {1, 2, 3}
    Validities = {4}
    Drift = 1
    Termination = 1
    Boots = {1, 2}
    MaxLeaseTime = 7
    NoLease = NoLease
    Configured = {c1, c2}
    Route = {c1, c2}
    Foreign = {f1}
    FreshnessMs = 2
    TimeoutMs = 1
    MaxNow = 3
    Absent = Absent
SYMMETRY ConnectionSymmetry
INVARIANTS
    NoWorkOutlivesItsLease
    NotReadyIsRecent
CHECK_DEADLOCK FALSE
