SPECIFICATION FairSpec
CONSTANTS
    p1 = p1
    p2 = p2
    i1 = i1
    i2 = i2
    a = a
    z = z
    Procs = {p1, p2}
    Requests <- MCRequests
    Other = Other
    NoSource = NoSource
    MaxOthers = 1
    MaxFaults = 2
INVARIANTS  OutcomesTrue
PROPERTIES EveryClientConcludes
