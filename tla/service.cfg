SPECIFICATION Spec
CONSTANTS
    p1 = p1
    p2 = p2
    k1 = k1
    k2 = k2
    k3 = k3
    b = b
    Procs = {p1, p2}
    Requests <- MCRequests
    Free = Free
    Habits <- MCHabits
    NoState = NoState
    Stamped = {k3}
    SnapshotInterval = 2
    SnapshotRetention = 1
    MaxEvents = 3
INVARIANTS StorageInv CacheCoherent LedgerReplayable RetryReturnsOriginal
PROPERTIES LedgerPromise
SYMMETRY Symmetry
