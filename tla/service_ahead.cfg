SPECIFICATION Spec
CONSTANTS
    p1 = p1
    p2 = p2
    k1 = k1
    k2 = k2
    k3 = k3
    b = b
    Procs = {p1, p2}
    Requests <- MCRequests
    Free = Free
    Habits <- MCGuessing
    NoState = NoState
    Stamped = {}
    SnapshotInterval = 2
    SnapshotRetention = 1
    MaxEvents = 3
INVARIANTS InvalidNeverPersisted
